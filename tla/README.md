# A specification of the ChatGPT web bridge

The repository is a bridge daemon: Codex speaks the Responses API to it, and the
daemon answers by driving a ChatGPT conversation in a browser tab. ChatGPT's own tool
calls come back to the daemon through an MCP connector and are run by Codex. The
interesting program is therefore not one loop but several that share a turn: Codex's
HTTP rounds, MCP requests, a browser worker in a helper process, timers and a drain.
Beside the daemon runs CLIProxyAPI, a Go proxy that serves the same API from a pool of
credentials; its core is a manager of credentials that requests, refreshes, operators
and files change at the same time. These TLA+ modules describe both parts.

File names below are relative to the repository's root. `turn-broker.ts`, `mcp-server.ts`
and the like are in `src/adapters/chatgpt-web/`; Go files without a directory are in
`cliproxyapi/sdk/cliproxy/auth/`, those of the watcher in `cliproxyapi/internal/watcher/`.

## 1. Inventory

| Component | Where | State it keeps | Operations | Hard behaviours |
|---|---|---|---|---|
| Turn Broker | `turn-broker.ts` | per capability token a `TurnChannel`: activities and tombstones, invocations, queue, delivered calls, waiters, batch timer, completion commit, compaction flag, Zero Risk control, expiry | register, update environment, poll (`nextToolBatch`), complete tool, fence begin and commit, compaction, revoke (one, by trace, external), MCP claim / invoke / settle / release, Zero Risk start / Sent / complete, prune, drain, close | every handler interleaves at its awaits; expiry at any time; late and repeated messages |
| MCP process | `mcp-server.ts` | none beyond each request's progress | per request: claim, act or invoke, settle twice; release on failure | calls travel on separate sockets, so they are reordered and outlive their caller |
| Turn owner (Responses adapter) | `index.ts`, `turn-execution.ts`, `turn-progress.ts` | session journal (`outstanding`), veto counter (`activeToolCalls`), batch revision | tool round, journal, return results, disconnect, compaction, cancel, retire | an HTTP observer may vanish between any two awaits |
| Browser worker | `browser-worker.ts`, `browser-helper-main.ts`, `launcher-helper-client.ts` | completion fence revision, mirror of the tool progress, tool boundary | observation loop, begin fence, fresh read, commit | decides on a lagging copy while activities come and go |
| Account admission gate | `rate-limit-gate.ts` | state file shared by daemons; queue, tickets, probe | admit, finish, record limit / failure / hold, clear hold | incidents, probes and holds race; two processes write one file |
| Compaction transactions | `compaction-transaction.ts` | one-shot transactions with a deadline | create, submit, wait, pause, abort | expiry against submission |
| Active compaction | `compaction-handoff.ts`, `index.ts` | pending handoff, checkpoint | settle the source, retain the handoff, continue | compaction against delivered calls |
| Browser locks | `concurrency.ts` | FIFO queue, holder, tab count | acquire, abort, release | abort during the hand-over |
| Turn sessions | `turn-execution.ts` | sessions by execution and conversation | claim, steer, retain, retire | a steering request waits for the session that waits for it |
| Retry policy | `retry-policy.ts`, `retry-continuation.ts` | attempt counters, replay journal | classify, retry, continue | duplicate sends |
| Runtime drain | `drain-gate.ts`, `server.ts` | draining flag, waiters, counts | drain, resume, close, wait | a request that passes the gate as the drain begins |
| Responses server and bridge | `server.ts`, `bridge.ts`, `event-queue.ts` | streams | translate events | back-pressure, disconnects |
| Codex integration | `codex-integration*.ts` | configuration file and journal file | install, update, uninstall with compensation | crash between two file writes |
| Launcher turn leases | `launcher/electron/browser-host.cjs`, `turn-suspension.cjs` | lease per turn | open, heartbeat, sweep | sweep after system sleep |
| Runtime supervisor, updates | `launcher/electron/runtime-supervisor.cjs`, `update*.cjs` | process handles | start, stop, update | restart against running turns |
| Prompt, environment, catalogue | `prompt.ts`, `environment.ts`, `model-catalog.ts` | none | pure translation | - |
| Setup, doctor, CLI, tunnel | `setup.ts`, `doctor.ts`, `cli.ts`, `tunnel.ts` | files | installation I/O | - |
| Proxy: credential cooldowns | `conductor_cooldown.go`, `selector.go`, `quota_recovery.go` | per credential and model: unavailable, status, last error, retry deadline, quota with its ladder | result, neutral result, quota probe, reset, restore | a failure, a success and a probe's late answer meet on one deadline |
| Proxy: scheduler | `scheduler.go`, `conductor_selection.go` | a mirror of the credentials: generations, metadata, shards per model | upsert after a lifecycle change or a result, tombstone, rebuild, pick | publications overtake each other after the manager's lock |
| Proxy: token refresh, file | `conductor_refresh.go`, `conductor_lifecycle.go`, `metadata_merge.go`, `sdk/auth/filestore.go` | credential in memory, its file, watermark of saves, refresh lock | refresh, merge, save, patch, reload | a refresh token is accepted once; the exchange lasts seconds |
| Proxy: watcher and dispatch | `events.go`, `clients.go`, `dispatcher.go`, `sdk/cliproxy/service_auth.go` | hash cache, current credentials, revisions, pending updates | event, scan, login, dispatch, apply | three readers of one file publish in any order |
| Proxy: refresh loop, execution, affinity, registry | `auto_refresh_loop.go`, `conductor_execution.go`, `selector.go`, `internal/registry/` | timers, bindings, counts | schedule, retry, bind, register | not modelled yet |
| Proxy: executors, translators, management API, relay | `internal/runtime/executor/`, `internal/translator/`, `internal/api/`, `internal/wsrelay/` | little | rewrite requests and replies | - |

How they interact. Codex opens an HTTP request (a *round*). The adapter registers a turn
with the broker and starts the browser worker; ChatGPT's page calls the MCP connector,
the MCP process claims the turn's token at the broker over a local socket, and each tool
call becomes an invocation queued on the channel. The adapter polls the broker, counts
the batch on the shared progress counters, waits until the browser worker has seen it,
journals it and ends the round with the calls. Codex returns with the results in a new
round; each result completes one invocation, which answers the MCP request. When the
page looks complete and nothing is outstanding, the worker asks the broker for a
*completion fence*: a revision of the turn's activity, valid only if nothing happened in
between. A commit against that revision makes the answer final.

In the proxy, the manager keeps one record per credential. Requests report results to it
(`MarkResult`), a probe asks upstreams about exhausted quotas, a 401 starts a refresh, the
management API patches, and the watcher reports what the files hold. Every change is made
under the manager's lock; after it the credential is published to the scheduler, which
answers "which credential may serve this model", and saved to its file, which the watcher
sees in turn.

What makes each component correct:

- broker: no call lost or doubled, no promise forgotten, no lease revived after its end,
  one final completion, deadlines kept, Zero Risk work only between both confirmations;
- MCP process: whatever is lost or late, every request ends and leaves no lease;
- owner: what Codex was asked to run can be returned; the veto counts real calls;
- worker: the answer that becomes final was read after the last activity;
- admission gate: no send during a pause or a hold, one probe per incident, the hold only
  cleared by a person, no waiter stranded;
- compaction transactions: one summary, delivered or refused, never both;
- locks: at most one holder, no lost hand-over;
- sessions: one execution per conversation, steering without deadlock;
- drain: after the drain is complete nothing new starts;
- Codex integration: after any crash the journal can restore the original files;
- leases: only a silent helper loses its turn;
- cooldowns: only a success, a probe, a reset or the deadline ends one, and a quota of the
  whole credential outlives a success;
- scheduler: once all publications have arrived it offers what the manager would offer, and
  never a removed credential;
- refresh: no refresh token is spent twice, no new token is lost, nobody's change is undone;
- watcher: the service ends with what the file holds.

The `hazards` list of `PROJECT.json` gives every hazard at its line with the properties
that cover it, or the reason none does yet.

## 2. The modules

`TurnChannel` is the record of one turn, with the pure operators the broker's handlers
share (revocation, the batch timer's arming, activation of a Zero Risk turn, claims and
tombstones) and the invariant of a single channel as named parts: `CallsAccounted`,
`WakeupsOwed`, `WorkAuthorized`, `LeasesClosed`.

`TurnBroker` is the broker: two variables (`channels`, `acceptingExternalOwners`) and one
action per handler. The daemon is one Node event loop, so a handler up to its first
`await` is one atomic action; the code after an `await` is an action of its own
(`ResumePoll`, `ResumeClaim`, `ResumeSafeAnswer`, the second half of `Register`) that looks
its channel up again, as the code does. `Register` awaits the listener before it looks at the
drain; a request from outside prunes before that await, a local call after it only. Most handlers begin with `prune()`; `Pruned` is the state they work on, and
a request that is refused is the action `Prune`, whose only effect is that.

`ToolCalls` is the abstract specification of what the broker promises about a tool call:
*queued*, *delivered* with everything queued, and then *result*, *compacted* or *rejected*
once. `TurnBroker!ImplementsToolCalls` is the refinement.

`McpServer` composes the broker with the MCP process: a set of broker calls in flight,
handled in any order, also after their caller gave up, together with the caller's error
paths. It extends `TurnBroker`, so a handled call *is* the broker's action.

`NativeTurn` composes that with the turn owner and the browser worker: the adapter's
rounds, the journal, the veto counter, its mirror in the helper process, and the
completion decision of the observation loop.

`AdmissionGate` is the gate every ChatGPT turn passes before it may send, and the part of
`runAdmitted` that passes it: the queue of waiters, the tickets of running turns, the probe
after a rate limit, the recovery ramp, the pauses, the account's hold, the single timer, and
the state file that the daemons of one home share. It stands alone: a turn that waits at
the gate has not reached the broker. A handler is synchronous, and its nested calls (refresh,
normalize, persist, pump) are operators on one record `w`: the gate, the file, whether the
handler wrote the file and whether it still has to read it.

`CredentialState` is the bookkeeping of one credential of the proxy, as pure operators: the
ladder of quota cooldowns and its bounds, what each kind of result leaves in a model's state
and in the aggregate, probes, resets and updates, and `isAuthBlockedForModel`.

`CredentialScheduler` runs these operators under the manager's lock and composes them with the
scheduler: a publication is a message in `inFlight` that arrives in any order, and `mirror` is
the scheduler's copy with its generations, metadata and shards.

`TokenRefresh` follows one credential and its file through refreshes: `refreshAuthForRequest`
under the refresh lock, the upstream that accepts each refresh token once, the three-way merge,
saves under the watermark, and everybody else who changes the credential or the file.

`AuthWatch` is the watcher on one file: `handleEvent`, `reloadClients` and logins, each of which
reads, publishes under a lock and dispatches later, and the service that applies updates by
their revision. It models in detail what `TokenRefresh` takes as `Look` and `Reload`.

`MCTurnBroker`, `MCAdmissionGate`, `MCCredentialScheduler`, `MCTokenRefresh` and `MCAuthWatch` add
the symmetry sets. The theorems about the
broker are in `TurnBroker_proofs` (its invariant), `BrokerSteps_proofs` (its action
properties) and `BrokerRefinement_proofs` (its refinement of `ToolCalls`); those about a whole turn,
`McpServer` included, in `NativeTurn_proofs`, which extends them; those about the gate in
`AdmissionGate_proofs`; those about the proxy in `CredentialScheduler_proofs`,
`TokenRefresh_proofs` and `AuthWatch_proofs`.

| Code | Specification |
|---|---|
| `TurnBroker.channels` | `channels[t]`; `phase` tells a token that was never registered, and one whose registration awaits the listener, from one that left the map |
| `TurnChannel.invocations` | `outcome[x] = "pending"` and the set `invocations` |
| a waiter object | the name of its caller, in `waiters`, `startWaiters`, `sentClaims`, `sentAnswers`, `observers` |
| a resolved promise whose continuation has not run | membership of `resumedPolls`, `resumedClaims`, `resumedAnswers` |
| `expiresAt` | `ttl`: "none", "armed", "lapsed"; `ClockPasses` lapses it |
| `toolBatchTimer` | `batchTimer`, and the action `BatchTimer` |
| one request on a broker socket | `<<call, a>>` in `network` |
| progress frames to the helper | `mirror` and `MirrorProgress` (the latest snapshot; a FIFO of snapshots delivers the same states, some of them later) |
| `completionFenceRevision` | `fence` |
| `ChatGptRateLimitState` | `gate[d].state`, the same record as `file` |
| `waiters` ordered by `seq` | `waiters`, `seq[u]` and `nextSeq` |
| `enqueuedAt`, `waitedBeforeMs` of a waiter, `waitedMs` of a ticket | `enqueuedAt[u]`, `waited[u]`, `Waited` |
| `setTimeout` of `schedule` | `timerAt` (`Never`: no timer) and the action `Wake` |
| `stateFileMtimeMs` differs from the file's | `d \in stale` |
| `Manager.auths[id]`, `authEpochs[id]` | `held`, `epoch` |
| a clone on its way to the scheduler | a record in `inFlight` |
| `authGenerations[id]`, `providers`, `modelShards` | `mirror.seen`, `mirror.provider` and `mirror.meta`, `mirror.shards` |
| `ModelStates` | a function on the models that have a state |
| `time.Time{}` | `Zero` |
| `authRefreshLock`, `authPersistLock` | `holder`, `guard` |
| `lastAuthHashes[path]`, `fileObservations[path]` | `hash`, `observed` |
| `authRevisions[id]` of the watcher and of the service | `revision`, `processed` |
| `pendingUpdates`, the update channel | `pending`, `queue` |

Deliberate abstractions: text, schemas and environments are left out; waiters are sets, not
lists (the broker resolves all of them, or gives the batch to whichever is first: every
choice is explored); a binding is identified with its token, because the broker
keeps at most one binding per token; the microtask that runs a continuation is a step that
may be overtaken by other handlers, which allows every order the runtime has and some more;
the page may look complete at any time no known tool call vetoes it. Left out are a listener
that fails to start, and the microtask between `register` and the rest of `registerSafe`: the
token is handed out only after it, so nobody can name the turn, and a revocation in it fails
the registration as one right after it would.

In the gate, time is an integer and every duration a small one; 0 means "never" as in the
code. A pump admits at most one turn, because the spacing between admissions is at least one
millisecond. A handler's read and write of the shared file is one step, although two
processes may interleave there: the model is kinder than the code. ChatGPT does not answer
in the millisecond in which a turn is admitted (`Answering`). The assumptions on the durations
are relations that the code's constants have: the base cooldown is at most the longest, the
spacing of an open gate at most that of a recovering one, and that at most a step of the ramp;
there are at most as many running turns as tabs. `Never` lies beyond every time the code
computes from the clock's bound. `heldByChatGpt` is history: what a reader of the account's page would know. A
server error while the limit is on is an instance of `RateLimited`. When the wall clock is
set back, pending timers keep their delay. System sleep, failing writes and unreadable files
are left out.

In the proxy, a credential is on its own: every handler works on one ID, and what relates
credentials (choice, priorities, aliases) is left out. An error is kept as far as the code
branches on it later. UpdatedAt only orders changes within one generation, and that is how
`updatedAt` counts. A content of a file stands for its hash. A refresh may start whenever the
credential is held, which covers both the refresh loop and a 401. A credential's executor presents
its refresh token up to `MaxTries` times (`RefreshTokensWithRetry`). A try can fail, by an error or
its timeout, before its request reaches the upstream or after: `TryFails` leaves the token in
`stray`, and `ExchangeUnheard` serves such a request, now or at any later time. Then the token is
consumed, nobody knows its successor (`lost`), and the next try presents it again. A save may fail
(`persist`), and the watermark counts it as done, as in the code; every caller drops the error. A
failed save leaves the file as it was: one that truncates the file and then fails is left out.
`overtaken`, `disturbed` and
`missed` are history, and so are `lost` and `unsaved`: they name the situations the code accepts (see the observations below),
so that the properties can say what holds in all the others.

Each module of the proxy takes the steps of its neighbours as what it sees of them, and
leaves some out:

- `CredentialScheduler` has no step for a refresh that failed (`conductor_refresh.go:566-608`): it
  sets the error, and without a valid access token the unavailability, of the credential, and publishes
  it before the manager's lock is let go. `TokenRefresh` has that step, without cooldowns. So what
  the cooldown and scheduler theorems say is about histories without failed refreshes. Forced
  cooldowns (`ErrorCodeForceCooldown`) are left out as well.
- The cooldown after a 408 or 5xx (`TransientCooldown`) may be 0, which is a negative
  `transient-error-cooldown-seconds`. Then such a failure sets a zero deadline, and so ends a cooldown that
  the model had from another failure (`conductor_cooldown.go:972`, where line 992 is skipped). The code
  documents the setting, not this effect of it.
- `AuthWatch` has no configuration that changes which models of a provider are excluded: then
  `reloadClients` forgets the credentials of that provider before it scans (`clients.go:37-57`) and
  publishes them again. And `prepareCoreAuthForModelRegistration` passes over an update that carries
  an older epoch or generation than the manager has (`isStaleCoreAuth`). What the watcher or a
  login read from a file carries neither (`service_auth.go:485`), so none of the updates in the model
  is stale in that sense. A patch of the management API publishes the manager's copy through the
  same hook, and that can be; it is not an action of `AuthWatch`.

## 3. The runs

| Run | Module, cfg | Properties | Shows |
|---|---|---|---|
| `broker` | `MCTurnBroker`, `TurnBroker_turn.cfg` | `TypeOK`, `CallLedger`, `NoLostWakeup`, `NoLeaseAfterClosure`, `SafeAuthorization`, `CompletionIsFinal`, `DeadlineKept`, `ImplementsToolCalls`, `DrainStaysDrained` | One native or Zero Risk turn with two calls, two polls and two answers under every order of handlers, timers, expiry, revocation and drain: no call is lost or doubled, no wait is forgotten, nothing runs before both confirmations, a completion is final, and a registration under way does not undo a drain. |
| `native_turn` | `NativeTurn`, `NativeTurn_turn.cfg` | `TurnTypeOK`, `NoWorkAfterCommit`, `JournalBacked`, `NoLeakedActivity`, `VetoExact`, `FinalAnswerIsFresh`, `RequestsSettle`, `TurnFinishes`, `PollsAnswered` | One turn end to end with two requests, a lost or abandoned broker call, an HTTP disconnect, a compaction and a cancellation: the final answer is fresh, the journal, the broker and the leases agree, a poll that faces a call is answered, and without a disconnect every request settles and the turn finishes. |
| `native_turn_redelivery` | `NativeTurn`, `NativeTurn_redelivery.cfg` | `VetoHonest` | A batch that is delivered again after a disconnect is counted twice: the veto outlives the calls. (expected to fail) |
| `gate_queue` | `MCAdmissionGate`, `AdmissionGate_queue.cfg` | `GateTypeOK`, `OneProbe`, `WakeTimely`, `IncidentsRare`, `PauseKept`, `HoldRespected` | Three turns of one daemon through rate limits, failures, holds, tool waits, aborts, requeues, a restart and a clock correction: one probe at a time, no waiter without a timer, incidents are rare, no pause is ever shortened, and a hold stops every admission until a person clears it. |
| `gate_shared_pause` | `MCAdmissionGate`, `AdmissionGate_shared.cfg` | `NewerPauseRespected` | Two daemons on one state file, with a restart and a clock correction: a pause that one of them saved after the other's own record is respected by the other. |
| `gate_hold` | `MCAdmissionGate`, `AdmissionGate_hold.cfg` | `HoldRespected` | A turn that ends on one daemon replaces the record in which the other has just saved ChatGPT's hold. (expected to fail) |
| `credential_cooldowns` | `MCCredentialScheduler`, `CredentialScheduler_cooldowns.cfg` | `CredentialQuotaHolds`, `FailureKeepsCooldown`, `RecoveryNeverExtends` | Two models of one credential under successes, quota, missing-model and transient answers, with hints and scopes, probes, resets and updates: which steps may end or shorten a cooldown. |
| `credential_scheduler` | `MCCredentialScheduler`, `CredentialScheduler_races.cfg` | `TypeOK`, `SchedulerCurrent`, `NoResurrection` | Publications of one credential that overtake each other, with removals, registrations, rebuilds and shards built in between: the scheduler ends in agreement with the manager and brings no removed credential back. |
| `credential_rebuild` | `MCCredentialScheduler`, `CredentialScheduler_rebuild.cfg` | `RebuildComplete` | A rebuild from a snapshot that was overtaken leaves an enabled credential out. (expected to fail) |
| `token_refresh` | `MCTokenRefresh`, `TokenRefresh.cfg` | `RefreshTypeOK`, `FileAgrees`, `SpentOnce`, `TokenKept`, `RefreshKeepsChanges` | Two refreshes of one credential beside results, an operator's patch, a sign-in, an edit and the deletion of the file, with answers lost on their way from the upstream and saves that fail: refreshers never spend one token twice between them nor drop one that arrived, no concurrent change is undone, and the file ends as the manager has it. |
| `auth_watch` | `MCAuthWatch`, `AuthWatch.cfg` | `WatchTypeOK`, `FileWins`, `ScanNeverGoesBack` | Two changes of one auth file, seen by events, a scan or the start and a login in any order: the service ends with what the file holds, and no scan goes back. |
| `auth_watch_ghost` | `MCAuthWatch`, `AuthWatch_ghost.cfg` | `NoGhost` | A credential that was published before an event of its file was parsed outlives the file. (expected to fail) |

Deadlock checking is off in every run, because the modelled program does stop: once
every turn is retired and no request is left, or every turn of a gate is over, only steps
that change nothing or none remain.

**Bounds.** Two calls are enough for a batch of more than one, a call queued behind a
delivered one, and a compaction that meets both. Two activities give a late claim beside
a live request. Two polls give the race of two adapters for one batch. There
is one token: the broker's properties speak of one turn each, and what one turn's handler does
to another is to prune it, which the theorems cover for any number of tokens. In
`NativeTurn`, `MaxFaults` bounds callers that give up and `MaxDisconnects` vanishing HTTP
observers. One fault is what the code is meant to survive: settling is tried twice, so two
losses of the same cleanup leave a lease (the code reports that as an error), and
`NoLeakedActivity` is stated for what it promises. Nothing else of the turn is bounded: revisions are
finite because each activity starts and settles at most once, and a poll that is answered
may be repeated for ever. The gate's runs bound the clock (`MaxTime`), restarts (`MaxRestarts`)
and how far the clock is set back (`MaxClockSetBack`, at most once). `gate_queue` has three turns
for two tabs, so a waiter can meet each kind of block, and lasts five units, one of which may
come twice when the clock is set back: two incidents and the pause of the whole account that they
cause fit, and so do a ramp and a waiter's deadline. Two daemons that run one turn each are
enough for a stale copy of the file in either direction; with two turns each (`gate_hold`) a
daemon has one that ends and one that is sent.

In the proxy, two models tell a model's cooldown from the credential's. `credential_cooldowns`
lets the clock run past a short and a clamped deadline, with one publication in flight at a time;
`credential_scheduler` has two times and few kinds, but two publications in flight, a removal and
a registration. `token_refresh` has two refreshers with two tries each, four tokens (three exchanges, or
two and a sign-in), enough for an answer that is lost, a refresh that is refused for it and a
sign-in that makes up for it, and one edit of the file. `auth_watch` has two changes of the file, so the older
of two contents can come late, and one scan or the start.

**Fairness.** Only `native_turn` needs it. `TurnFairness` says that `setTimeout` fires and
that the event loops run their handlers (weak fairness of the batch timer, and of each owner,
worker and broker-call step), that Codex reconnects and returns results it was asked for, and
*strong* fairness of `BeginFence` and `FreshRead`: the worker polls for as long as the
turn lives, and a finished page keeps looking complete, so a chance that comes again and
again is taken. Without a page that finishes, no turn needs to. Starting requests, giving
up, disconnecting, compaction and cancellation are never required. The modules of the proxy
state safety only: their final agreement is stated for the states in which nothing is under way.

**The findings.** Four runs are expected to be violated.

- `native_turn_redelivery`: when the HTTP observer disconnects after `recordToolBatch` and
  before `setOutstanding`, the broker rightly delivers the same calls again on reconnect,
  and `index.ts:1386` counts them a second time, while each result is subtracted once. The
  veto then outlives every call, the worker never sees zero, and the turn ends only by a
  timeout or a cancellation. `turn-progress.ts:287` says that only unresolved calls veto
  completion. `native_turn` shows the turn finishes when there is no disconnect
  (`TurnFinishes`); after one, `RequestsSettle` can fail as well, because a compaction that
  arrives while a delivered batch was never journaled settles neither by results nor otherwise.
- `credential_rebuild`: `rebuild` drops every provider and then skips a credential whose snapshot
  is older than what the scheduler has seen. A result published between the snapshot and the
  rebuild leaves an enabled credential out of all shards, until it is published again or a
  pick that finds nothing rebuilds again; `scheduler.go:192` promises the complete state.
- `auth_watch_ghost`: a removal of a file whose hash is not cached is ignored as unknown, also
  when a login or a scan has published its credential: delete the file of a fresh login before
  its create event is parsed, and the credential stays until the next scan. The same happens
  to a file deleted after the manager has loaded it and before the first scan has cached it.
- `gate_hold`: `ticketFinished` and `ticketAccepted` save the account's record without reading
  what another daemon wrote, and `persist` replaces the record as a whole. A turn that ends on
  one daemon replaces the record in which the other has just saved ChatGPT's hold, and the next
  turn is sent, although `rate-limit-gate.ts:517` says that only a person clears a hold.

**Observations.** What the models met beside the findings, without a run of its own:

- `rate-limit-gate.ts`: `updatedAt` orders the writes of one process only. A daemon that has saved
  twice within a millisecond is at `now + 1`; another, which has not read that, saves the probe's
  acceptance at `now` and a pause at `now + 1`. The first finds nothing newer in the file
  (`rate-limit-gate.ts:971`) and sends into the pause. So `NewerPauseRespected` speaks of pauses
  that are newer than a daemon's own record.
- `rate-limit-gate.ts`: `normalize` clamps the saved pauses against a wrong clock, but not the
  spacing to `lastAdmissionAt`, so after the clock is set back nothing starts until it has
  caught up; the same holds of `recoveryStartedAt` and the ramp. `snapshot` and a
  `clearSecurityHold` that finds no hold read the file but pump nothing, so with two daemons a
  record adopted there takes effect at the next timer or event only; this is why `WakeTimely`
  is for one daemon. A limit joins the running incident only while `tier` is above zero, and a
  clean answer sets it to zero: a turn that was sent before the incident and meets the limit after
  that counts as a new one.
- `scheduler.go`: a lifecycle publication that is overtaken by the result of one model is
  dropped, and that result refreshes the shards of its own model only; `RunQuotaRecovery` reads
  the clock before it waits for the lock (`quota_recovery.go:206`), so its publication can look
  older than the state it changed. Both end with the credential's next publication
  (`overtaken`).
- `scheduler.go`: after a 401 for the only model that has a state, the manager lets the credential
  serve no model (`hasUnauthorizedAuthFailure`), but `isCredentialBlocked` (`scheduler.go:739`) says
  that it is not blocked as long as fewer models have a state than are registered. So only the
  shard of that model is refreshed, and the others go on offering the credential, although
  `scheduler.go:806` says that all shards must be synchronised. TLC finds `SchedulerCurrent`
  violated when "unauthorized" is added to the kinds of `credential_scheduler`.
- `conductor_cooldown.go`: a Cloudflare challenge climbs the ladder also within an open window;
  a request without a model sets the credential's own deadline, and the next failure of a model
  recomputes the aggregate and may shorten it; a probe's answer lifts a cooldown that began
  after it was asked; `MarkResult` does not compare the registration epoch.
- Refresh: a patch of the management API and a reload of the file replace the credential without
  comparing generations, so they can put back a token that is already spent (`"older token"` in
  `disturbed`); a patch can be left unsaved when a reload raises the watermark first; a late save
  can recreate the file of an enabled credential that was just deleted; a crash between
  the exchange and the save loses the token, and so does an answer lost on its way: the retry
  (`openai_auth.go:302-329`) presents the consumed token, is told `refresh_token_reused`, and the
  credential keeps it until a person signs in again. `base := auth.Clone()` (`conductor_refresh.go:558`)
  reads the record after the lock is let go, while `MarkResult` may write it.
- Watcher: a second removal within a second is debounced; contents put back to what the cache
  holds while a scan publishes others are skipped; a login that publishes after its file was
  replaced overrides the newer contents; and two reloads that overlap may publish the older
  contents last, when one of them is forced, or is the start's, which caches hashes.

## 4. What is proved

**The broker.** The theorems about `TurnBroker` are for any sets of tokens, calls, activities,
polls and answers (the named assumptions: `Calls` is finite, `NoAnswer` is not an answer,
contracts and deadlines are among the modelled ones). Together they cover every safety
property that the broker's run checks.

`TurnBroker_proofs`:

- `BrokerInvariant`: `Spec => []IInv`, with `IInv == TypeOK /\ \A t : ChannelOK(channels[t])`;
- `TypeCorrect`, `WakeupsNeverLost`, `SafeTurnsAuthorized`, `LeasesStayClosed`: the invariants
  of the runs that follow from it.

Why the conjunction: none of the parts is inductive alone. That a waiting poll has a timer
needs to know that a queued call is unsettled and that a compaction stopped the timer with
an emptied queue (`CallsAccounted`); that `completed` turns are quiet needs that nothing
is invoked outside `running`; that a committed completion has no activity needs the
commit's guard *and* that later claims are refused. The argument is local: every handler
first prunes (a channel is kept or revoked, both preserve `ChannelOK`) and then replaces
one channel. So there is one lemma per operator of `TurnChannel` (it preserves
`Channel` and each part of `ChannelOK`), one per action, and `Next` is a case split.

`BrokerSteps_proofs` relates the channel after a step to the channel before it: it `Follows`
the old one (it was live, its completion and deadline are kept, its compaction count still
counts), or the step admitted its registration (`Born`), which was requested earlier and saw the
drain only now: that is what `DrainIsStable` rests on, since a turn that still awaits the listener is
not among those the drain counts. From that one relation follow
`CompletionStaysFinal`, `DeadlineIsKept`, `DrainIsStable`, and `LedgerHolds`, whose count needs
the step relation and cardinality facts in place of a stronger `ChannelOK`.

`BrokerRefinement_proofs` proves `BrokerImplementsToolCalls`. `Fates(c)` is the abstract state of
a channel's calls; one lemma per rewriting of a channel says which abstract move it is;
one per kind of handler (prunes, does not prune, revokes, releases) says which turns
*go away* beside it. `CallsAccounted` is what makes the mapping work: `revoke` rejects what
`invocations` holds, the abstract step rejects what is queued or delivered.

**The turn.** `NativeTurn_proofs` proves every safety property of the composition, `McpServer`
included, for any number of calls, requests, disconnects and abandoned broker calls:
`TurnTypeCorrect`, `JournalIsBacked`, `FinalAnswersAreFresh`, `VetoIsExact`, and, for at most
one fault, `LeasesEndWithRequests` and `NothingRunsAfterCommit`. `TurnIsConsistent` is the
inductive invariant `TurnInvariant`. It joins the broker's `IInv` with four parts:
`NativeChannel` (the turn has no deadline, and nothing is rejected while it lives),
`OwnerInvariant` (what a round or Codex holds is delivered at the broker and counted),
`RequestInvariant` (which broker calls of a request may still be unread at each of its stages, and
that a working request holds its lease), `WorkerInvariant` (the fence is older than the fresh
read). That nothing runs after a commit needs three processes at once: the commit is refused
while an activity is open, an invocation's request holds its lease, and what Codex holds is
an invocation. Every step moves the variables of one or two processes; a *Quiet* lemma per
part says, once, that it survives the others. Steps of the broker's side are the broker's own
actions, so its lemmas are reused: `TurnKeepsBrokerPromises` carries the broker's invariants over,
and `TurnImplementsToolCalls` its refinement.

The hypothesis `faults <= 1` is not for convenience: with two faults both settlements of one
request can be lost, and TLC then finds a lease without a request (`NoLeakedActivity`) and a batch
after the commit; the code reports the first as an error. `VetoExact` and the liveness
properties say `disconnects = 0` for the reason the finding `native_turn_redelivery` shows.

**The gate.** `AdmissionGate_proofs` covers every property of the gate's runs, with restarts and
clock corrections, for any durations that the assumptions allow.

- For any number of daemons: `GateTypeCorrect`; `NobodyWaitsTooLong`, that the end of each
  waiter's wait has a timer, counted over its requeues; and `NewerPausesAreRespected`. Its
  invariant is `SeenOK`: a daemon that has not to read the file again has a record at least as
  new as the file. `Newest(w, v)` carries that through a handler: a call that has read the file
  or written it knows what it knew and more, and one that let a turn go had no pause to respect.
- For one daemon (`OneDaemon`): `GateIsConsistent`, the inductive invariant `GateInv`, and from it
  `OneTurnProbes`, `TroubleIsCounted`, `NobodyIsStranded`, `PausesAreKept` and
  `OneDaemonRespectsHold`. Its parts: `SameRecord` (the file holds what the daemon knows, so a
  restart loses nothing), `IncidentOK` (incidents lie before the start of the last one, a cooldown
  apart, and that one's pause is announced), `TicketsOK` (a turn that was admitted since an
  incident began was admitted after its cooldown, and is the probe while one is owed) and the
  timer: `DeadlineOK`, and either `Soon` or `Blocked`, which says what holds the queue up and
  how far away its timer may be. `OneProbe` alone is not inductive, because it says nothing of the
  probe's ticket; that incidents are rare rests on the turns, which cannot meet a limit in the
  pause of an earlier one.

Why one daemon: with two, a ticket's event replaces a record its daemon has not read, and the
run `gate_hold` shows what becomes of a hold; pauses, incidents and the owed probe are fields of
the same record. The conditions hold of the usual installation, which has one daemon for a home.

**The proxy.** These modules prove the properties of their components that are about an
unbounded number of actors, for any values of the constants; the bounds (`MaxInFlight`,
`MaxToken`, `MaxChanges` and the like) are constants like any other.

`CredentialScheduler_proofs` proves `RemovedStaysRemoved` (`NoResurrection`). The argument,
`EpochInvariant`, is about registration epochs alone: a removal takes an epoch of its own, so
whatever is in flight about the credential is older than its tombstone (`RemovalOK`), and once the
scheduler has seen an epoch nothing older brings anything in (`ReceiveMoves`, one lemma per kind
of publication). The property alone is not inductive: it says nothing of the publications that
could still arrive. What the cooldown operators compute does not matter there.

It matters for `SchedulerTypeCorrect` (`TypeOK`) and `CredentialQuotaIsKept`
(`CredentialQuotaHolds`), which follow from `CredentialsStayWhole`. Each operator of
`CredentialState` has a lemma that says what it keeps: the type of a credential (`Auths`), the
ceiling of a quota of its own (`Capped`), and that quota itself (`Outlasts`). `Bookkeeping` says the
first two of every credential held, in flight or known to the scheduler. The ceiling is what is not
obvious: a second 429 in the credential's scope sets the later of two deadlines and cuts it to
`maxQuotaCooldownCeiling` from now, which is no earlier than the present deadline only because
that was cut to the ceiling before, at an earlier time. `CredentialQuotaIsKept` has one hypothesis,
`QuotasNameModels`: a 429 or a challenge answers a request that names a model. Every request does
(`stateModelForExecution`, `executionResultModel`); a result without one would set the credential's
own quota anew, and give it another reason.

`RecoveryOnlyShortens` (`RecoveryNeverExtends`) and `FailuresOnlyProlong` with its corollary
`FailuresKeepCooldowns` (`FailureKeepsCooldown`) compare, for every model and every later time, what a
credential may serve before and after a step. `WhenBlocked` turns `isAuthBlockedForModel` into a
disjunction of conditions that can be compared one by one. Two facts about the credential held make
the comparison inductive (`Fit`). `Sound`: a model is held back exactly until `nextRetryAfter`; the
deadline of its quota, when it is ahead, is not later. That is why cutting both deadlines to an
announced reset is safe, and why a later failure, which extends only the first, keeps the second.
`Alert`: a credential with a 401 whose models are all down is marked unavailable; otherwise a recovery,
which aggregates anew, could mark it and make the 401 count for all of its models at once.
`RecoveryOnlyShortens` has no hypothesis. `FailuresOnlyProlong` supposes that failures name their models
(`FailuresNameModels`) and that the cooldown after a transient failure is not turned off
(`TransientCooldown # 0`: with 0 the claim is false, as said in section 2), and excepts a credential that is refused as a whole when the failure comes:
the failure replaces the error, and from then on each model is held back only by its own deadline.
TLC finds that exception when "unauthorized" is added to the kinds of `credential_cooldowns`; the
corollary states the property as that run checks it.

`SchedulerAgreesInTheEnd` (`SchedulerCurrent`) is about the order in which publications arrive. Its
invariant, `NothingNewerIsMissed`, has two parts. `Orderly` holds whatever is dropped: no epoch,
generation or stamp is ahead of the manager's (`StampsOK`), a tombstone has an epoch of its own
(`TombstonesOK`), a registration that the scheduler has not seen is still to be announced by
`Register` (`AnnouncedOK`), and an entry is the availability of an enabled credential at some time
(`EntriesOK`). `Current` holds unless `overtaken`: for each shard, what the scheduler has as its
metadata, what it has as an entry, and what any publication that is not late would have it take in
serves the model as the manager's copy would from now on (`Like`), or something newer that concerns
the shard is in flight. The property itself is not inductive: it speaks only of states with nothing
in flight. `Orderly` is needed, for instance, when the result of a new registration overtakes both
its announcement and the tombstone of the old one: the tombstone will be ignored, and the shards
that the result leaves out wait for the announcement. The rest are lemmas about three questions.
What does each kind of publication do to the scheduler (`Adopts`, `Passes`, `Clears`, one lemma per
kind)? Whom does a result concern: `ResultConcernsItsModel` proves that it leaves what the
credential may serve of every other model as it was, at every later time, which is why
`upsertAuthResult` may leave their shards alone. When does an entry have to be computed again:
`LazyIsExact` proves that an entry computed at any earlier time, evaluated by `promoteExpired`, is
ready exactly when the credential is now. The hypotheses: `FailuresNameModels`, as above;
`NoneUnauthorized`, because a 401 may refuse the credential as a whole while one shard is told (see
the observations); and `NullsApart`, that the marker of an absent credential is neither a credential
nor an entry. Every other kind of result, with any hints, scopes, probes, resets, tokens and
expiries, is covered: more than `credential_scheduler` explores.

`TokenRefresh_proofs` proves `TokensSpentOnce`, `TokenIsKept`, `RefreshTyped` and `RefreshMerges`,
for any number of refreshers. `RefreshInvariant` has three parts: types; `LockOK`, that whoever
asks, was answered or saves holds the lock; and `TokensOK`, that what the upstream has consumed is
older than the token held, but for the token of the exchange that was just answered and for those
that a request consumed whose answer was lost. `SpentOnce` says that a refresher is told of a
consumed token only when it is one of the latter: a lost answer spends a token twice in the code, and
no lock prevents that, but refreshers, results, edits and sign-ins do not do it between them. `TokenKept`
says likewise that the manager holds a good token, or has one on its way, or holds one whose
successor was lost before it could arrive. That what is presented is accepted or was lost needs
all three parts: the lock, so that nobody else consumes the token between reading and presenting
it, and the order of the tokens, so that one that a sign-in brings meanwhile is a live one. A
request that its caller gave up may be served at any later time, also when another refresher
presents the same token; both then compete for it, and the loser's answer is the one that is lost. `FileAgreesInTheEnd` (`FileAgrees`) adds `FileOK`: nothing that waits
to be saved is newer than what is held (`VersionsOK`), the watcher's queue ends with what it
parsed last (`WatchOK`), and, unless a file was restored, either the manager holds that, or the
save that will make the file agree is on its way and newer than every other, or it was written,
or was to be written and failed, and every other one will be left out (`AgreementOK`). The assumptions: `NoAuth` is not a
credential, and `NoFile` not the content of a file.

`AuthWatch_proofs` proves `ScansNeverGoBack`, `UpdatesArriveInOrder`, `WatchTyped` and
`FileWinsInTheEnd`. `ScanInvariant`: nobody knows a version newer than the file, and what a scan has
read is not older than what is published, as long as the revision is the one it noted. The
property itself mentions neither revisions nor what a scan holds. `WatchOK`: updates are stamped,
queued and applied in one order, and the update stamped last is in one place (`UpdatesOK`); it
carries what the watcher believes, and once it is applied the service agrees (`DeliveryOK`).
Both are for any number of scans. `FileWins` needs in addition that the watcher itself catches up:
`FollowOK` says, for each way in which what it knows can differ from the file, who will still
publish the file's content or look at it, an event, a parsed file, a login or a scan. That is
proved for reloads that do not overlap (`OneScan`). With two that do, TLC finds the older contents
published last (see the observations). The assumption: an unknown hash and that of an unparsed
file are not contents.

**Only model-checked:** all liveness (`RequestsSettle`, `TurnFinishes`, `PollsAnswered`), which is out of
the prover's reach, and the expected violations. Every invariant and every action property of a
passing run is a theorem, some under the hypotheses named above.

## 5. What is not modelled

Pure translation (prompts, environments, the model catalogue, event formats), installation
and diagnosis, Playwright's dealings with the page, and of the proxy its executors and
translators, which rewrite requests between the formats of providers and make up most of its
code. The choice among several ready credentials, the refresh loop's timers, session affinity,
the saved cooldown records and the model registry are left for later. What remains is planned:

| Order | Module | Models | Composes | Checks |
|---|---|---|---|---|
| 1 | `CompactionTransactions` | `compaction-transaction.ts` | `SummarySlot` as abstract one-shot specification | one outcome per transaction, no waiter after expiry |
| 2 | `FifoLock`, `DrainGate` | `concurrency.ts`, `drain-gate.ts` with `server.ts`'s counters | an abstract mutex | exclusion, no lost hand-over, FIFO; nothing starts after the drain is complete |
| 3 | `TurnSessions` | `turn-execution.ts` registry, retry policy | over `ToolCalls` as the broker | one execution per conversation, steering does not deadlock |
| 4 | `CompactionHandoff` | `compaction-handoff.ts` with the retained handoff | `CompactionTransactions`, `NativeTurn` | compaction settles with a delivered, unjournaled batch |
| 5 | `CodexIntegration` | configuration and journal files with compensation and crashes | - | every crash leaves a restorable installation |
| 6 | `TurnLeases` | heartbeats, sweep, sleep | - | a live helper keeps its turn |
| 7 | `CredentialPool` | `conductor_execution.go`, session affinity, refresh loop | `CredentialScheduler` for several credentials | a request tries each credential once, a session keeps its credential while that is ready |

Next proof: exclusion of `FifoLock`.
