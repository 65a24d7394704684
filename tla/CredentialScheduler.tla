------------------------- MODULE CredentialScheduler -------------------------
(***************************************************************************)
(* One credential of the Go proxy as its Manager holds it, and as the      *)
(* authScheduler that picks credentials for requests mirrors it.  The      *)
(* manager changes the credential under its own lock and publishes a clone *)
(* after it has let the lock go, so publications reach the scheduler in    *)
(* any order; the scheduler keeps, for each model, the availability it     *)
(* computed when it last took the credential in, and recomputes it on its  *)
(* own only when a deadline it knows of has passed.                        *)
(*                                                                         *)
(* A clone carries the registration epoch, the generation and UpdatedAt,   *)
(* by which the scheduler tells a late publication.  Within a generation   *)
(* UpdatedAt is counted from the change that made the generation.          *)
(***************************************************************************)
EXTENDS CredentialState

CONSTANTS
  Unbuilt,        \* a shard no request has asked for yet
  Absent,         \* the credential is not in a shard, or not in the provider
  Kinds,          \* the kinds of result this instance exercises
  Hints,          \* the Retry-After values of a 429, a 408 or a 5xx, NoHint among them
  Scopes,         \* whether a 429 concerns the model or the credential
  ResultModels,   \* the models of results, NoModel for a request without one
  PickModels,     \* the models credentials are picked for, NoModel likewise
  Tokens,         \* access tokens, one per version of the file
  Expiries,       \* when a token expires, or Zero
  Operations,     \* the manager's operations this instance exercises
  MaxTime,        \* bound on the clock
  MaxEpoch,       \* bound on registrations and removals
  MaxGeneration,  \* bound on generations, which shrinks by one per epoch
  MaxInFlight     \* bound on publications in flight

ASSUME SchedulerAssumption ==
  /\ {MaxTime, MaxEpoch, MaxGeneration, MaxInFlight} \subseteq Nat
  /\ MaxTime > 0 /\ MaxEpoch > 0
  /\ Kinds \subseteq {"success", "unauthorized", "refused", "missing", "quota", "challenge",
                      "transient", "skipped"}
  /\ NoHint \in Hints /\ Hints \ {NoHint} \subseteq Nat
  /\ Scopes \subseteq BOOLEAN
  /\ ResultModels \cup PickModels \subseteq Models \cup {NoModel}
  /\ Tokens # {}
  /\ Expiries # {} /\ Expiries \subseteq Nat

VARIABLES
  now,        \* the clock both sides read
  held,       \* Manager.auths[id]: a snapshot, or NoSnapshot
  epoch,      \* Manager.authEpochs[id]
  inFlight,   \* publications between the manager's lock and the scheduler's
  probe,      \* RunQuotaRecovery: "idle", "answered", or "late" when
              \* the manager stamped the credential after the answer was timed
  mirror,     \* the scheduler: generations, metadata and shards
  overtaken   \* history: a publication that concerns every shard was dropped
              \* as late, or stamped too early, and none has put that right since

vars == <<now, held, epoch, inFlight, probe, mirror, overtaken>>

Shards == Models \cup {NoModel}

Results ==
  LET Outcomes(kind, hints, scopes) ==
        [model : ResultModels, kind : {kind}, hint : hints, scope : scopes]
  IN  UNION {CASE kind = "quota"     -> Outcomes(kind, Hints, Scopes)
               [] kind = "transient" -> Outcomes(kind, Hints, {FALSE})
               [] OTHER              -> Outcomes(kind, {NoHint}, {FALSE}) : kind \in Kinds}

Snapshot(auth, e, g, u) == [epoch |-> e, generation |-> g, updatedAt |-> u, auth |-> auth]

\* The credential is not registered.
NoSnapshot == Snapshot(Absent, 0, 0, 0)

Held == held # NoSnapshot
Enabled == Held /\ ~held.auth.disabled

(***************************************************************************)
(* The scheduler, under its lock.                                          *)
(***************************************************************************)
upsertEntry(auth, shard) == [auth |-> auth, block |-> isAuthBlockedForModel(auth, shard, now)]

\* A ready entry whose token has expired and a blocked entry whose deadline has
\* passed are evaluated again, from the clone they hold.
promoteExpired(entry, shard) ==
  LET due == entry.block.next # Zero /\ entry.block.next <= now
      expired == entry.block.state = "ready" /\ TokenExpired(entry.auth, now)
  IN  IF due \/ expired THEN upsertEntry(entry.auth, shard) ELSE entry

Built(shards, shard) == shards[shard] # Unbuilt

upsertAuthForModels(m, snapshot, shards) ==
  [m EXCEPT !.provider = TRUE,
            !.meta = snapshot.auth,
            !.shards = [s \in Shards |->
               IF s \in shards /\ Built(@, s) THEN upsertEntry(snapshot.auth, s) ELSE @[s]]]

removeAuthFromProviders(m) ==
  [m EXCEPT !.meta = Absent,
            !.shards = [s \in Shards |-> IF Built(@, s) THEN Absent ELSE Unbuilt]]

\* Mutant: only the registration's epoch is compared.
isStaleRegistration(m, snapshot) == m.seen.epoch > snapshot.epoch

isStaleScheduledAuth(m, snapshot) ==
  \/ m.seen.epoch > snapshot.epoch
  \/ /\ m.seen.epoch = snapshot.epoch
     /\ \/ m.seen.generation > snapshot.generation
        \/ /\ m.seen.generation = snapshot.generation
           /\ m.seen.updatedAt > snapshot.updatedAt

Seen(m, snapshot) ==
  [m EXCEPT !.seen = [epoch |-> snapshot.epoch, generation |-> snapshot.generation,
                      updatedAt |-> snapshot.updatedAt]]

\* Register, Update, ResetQuota, a recovery pass or a rebuild.
upsertAuthLifecycle(m, snapshot) ==
  IF isStaleScheduledAuth(m, snapshot) THEN m
  ELSE IF snapshot.auth.disabled THEN removeAuthFromProviders(Seen(m, snapshot))
  ELSE upsertAuthForModels(Seen(m, snapshot), snapshot, Shards)

\* The result of a request changes the availability of its own model, unless it
\* changes that of the credential.
AvailabilityChanged(m, snapshot) ==
  IF m.meta = Absent THEN TRUE
  ELSE isCredentialBlocked(m.meta, now) # isCredentialBlocked(snapshot.auth, now)

ResultShards(m, p) ==
  IF p.targets = {} \/ AvailabilityChanged(m, p.snapshot)
  THEN Shards ELSE p.targets \cup {NoModel}

upsertAuthResult(m, p) ==
  IF isStaleScheduledAuth(m, p.snapshot)
  THEN IF m.meta = Absent THEN m
       ELSE upsertAuthForModels(m, [auth |-> m.meta],
              IF p.targets = {} THEN Shards ELSE p.targets \cup {NoModel})
  ELSE IF p.snapshot.auth.disabled THEN removeAuthFromProviders(Seen(m, p.snapshot))
  ELSE upsertAuthForModels(Seen(m, p.snapshot), p.snapshot, ResultShards(m, p))

\* Mutant: the credential is taken out, and no tombstone is left.
removeWithoutTombstone(m, snapshot) ==
  IF snapshot.epoch < m.seen.epoch THEN m ELSE removeAuthFromProviders(m)

recordRemovalTombstone(m, snapshot) ==
  IF snapshot.epoch < m.seen.epoch THEN m ELSE removeAuthFromProviders(Seen(m, snapshot))

\* Mutant: the providers are dropped, but not the credentials' metadata.
rebuildKeepingMeta(m, snapshot) ==
  LET empty == [m EXCEPT !.provider = FALSE, !.shards = [s \in Shards |-> Unbuilt]]
  IN  IF snapshot = NoSnapshot THEN empty ELSE upsertAuthLifecycle(empty, snapshot)

\* rebuild drops every provider, and then takes in what the snapshot holds.
rebuild(m, snapshot) ==
  LET empty == [m EXCEPT !.provider = FALSE, !.meta = Absent,
                         !.shards = [s \in Shards |-> Unbuilt]]
  IN  IF snapshot = NoSnapshot THEN empty ELSE upsertAuthLifecycle(empty, snapshot)

Receive(m, p) ==
  CASE p.kind = "lifecycle" -> upsertAuthLifecycle(m, p.snapshot)
    [] p.kind = "result"    -> upsertAuthResult(m, p)
    [] p.kind = "tombstone" -> recordRemovalTombstone(m, p.snapshot)
    [] p.kind = "rebuild"   -> rebuild(m, p.snapshot)

(***************************************************************************)
(* The manager, under its lock.                                            *)
(***************************************************************************)
Publish(kind, snapshot, targets) ==
  /\ Cardinality(inFlight) < MaxInFlight
  /\ inFlight' = inFlight \cup
       {[kind |-> kind, snapshot |-> snapshot, targets |-> targets]}

\* The manager stamps UpdatedAt; a probe whose answer is timed but not applied
\* will stamp an earlier time.
Stamped == probe' = IF probe = "answered" THEN "late" ELSE probe

Change(auth) ==
  /\ held.generation + epoch <= MaxGeneration
  /\ held' = Snapshot(auth, held.epoch, held.generation + 1, 0)
  /\ Stamped

\* The credential has been registered and has served a request of each model.
Init ==
  LET auth == NewAuth(CHOOSE k \in Tokens : TRUE, Min(Expiries))
  IN  /\ now = 1
      /\ held = Snapshot(auth, 1, 1, 0)
      /\ epoch = 1
      /\ inFlight = {}
      /\ probe = "idle"
      /\ mirror = [provider |-> TRUE, meta |-> auth,
                   seen |-> [epoch |-> 1, generation |-> 1, updatedAt |-> 0],
                   shards |-> [s \in Shards |->
                      IF s \in PickModels THEN upsertEntry(auth, s) ELSE Unbuilt]]
      /\ overtaken = FALSE

\* Register replaces whatever was registered under the ID, as a new registration.
Register ==
  /\ epoch < MaxEpoch
  /\ \E token \in Tokens, expiry \in Expiries :
       held' = Snapshot(NewAuth(token, expiry), epoch + 1, 1, 0)
  /\ epoch' = epoch + 1
  /\ Publish("lifecycle", held', {})
  /\ Stamped
  /\ UNCHANGED <<now, mirror, overtaken>>

\* A changed file, a refreshed token, or a switch of the operator's.
Update ==
  /\ "update" \in Operations
  /\ Held
  /\ \E token \in Tokens, expiry \in Expiries, disabled \in BOOLEAN :
       Change(UpdateAuth(held.auth, token, expiry, disabled, now))
  /\ Publish("lifecycle", held', {})
  /\ UNCHANGED <<now, epoch, mirror, overtaken>>

Remove ==
  /\ Held
  /\ epoch < MaxEpoch
  /\ held' = NoSnapshot
  /\ epoch' = epoch + 1
  /\ Publish("tombstone", Snapshot(Absent, epoch + 1, 0, 0), {})
  /\ UNCHANGED <<now, probe, mirror, overtaken>>

\* A request ends, on whatever registration the ID has by then.
Result(result) ==
  /\ Held
  /\ Change(MarkResult(held.auth, result, now))
  /\ Publish("result", held',
             IF result.scope \/ result.model = NoModel THEN {} ELSE {result.model})
  /\ UNCHANGED <<now, epoch, mirror, overtaken>>

\* recordAvailabilityNeutralResult: counted, and not published.
NeutralResult ==
  /\ "neutral" \in Operations
  /\ Held
  /\ Change(held.auth)
  /\ UNCHANGED <<now, epoch, inFlight, mirror, overtaken>>

OperatorReset ==
  /\ "reset" \in Operations
  /\ Held
  /\ Change(ResetQuota(held.auth, now))
  /\ Publish("lifecycle", held', {})
  /\ UNCHANGED <<now, epoch, mirror, overtaken>>

\* RefreshSchedulerEntry publishes the credential as it stands.
RefreshSchedulerEntry ==
  /\ "refresh" \in Operations
  /\ Held
  /\ Publish("lifecycle", held, {})
  /\ UNCHANGED <<now, held, epoch, probe, mirror, overtaken>>

\* A selection that found no credential has the scheduler rebuilt.
SyncScheduler ==
  /\ "rebuild" \in Operations
  /\ Publish("rebuild", held, {})
  /\ UNCHANGED <<now, held, epoch, probe, mirror, overtaken>>

\* RunQuotaRecovery asks the upstream about a credential it finds held back, and
\* reads the clock as the answer comes, before it waits for the lock, ...
TimeAnswer ==
  /\ "probe" \in Operations
  /\ probe = "idle"
  /\ Enabled /\ authHeldInQuotaCooldown(held.auth, now)
  /\ probe' = "answered"
  /\ UNCHANGED <<now, held, epoch, inFlight, mirror, overtaken>>

\* Behind the generation's own stamp a late one is negative.
Rank(stamp) == IF stamp < 0 THEN -stamp ELSE stamp

\* ... and changes the credential in its generation, if it is still held back.
Recovered(auth) ==
  /\ auth # held.auth
  /\ held' = [held EXCEPT !.auth = auth,
                          !.updatedAt = IF probe = "late" THEN -1 - Rank(@)
                                                          ELSE Rank(@) + 1]
  /\ Publish("lifecycle", held', {})

ApplyAnswer ==
  /\ probe \in {"answered", "late"}
  /\ probe' = "idle"
  /\ \/ /\ Enabled /\ authHeldInQuotaCooldown(held.auth, now)
        /\ \/ \E keep \in SUBSET Models :
                Recovered(liftQuotaCooldownForAuth(held.auth, keep, now))
           \/ \E resetAt \in now + 1 .. MaxTime :
                Recovered(shortenQuotaCooldownForAuth(held.auth, resetAt))
     \/ UNCHANGED <<held, inFlight>>
  /\ overtaken' = (overtaken \/ (probe = "late" /\ held' # held))
  /\ UNCHANGED <<now, epoch, mirror>>

Tick ==
  /\ now < MaxTime
  /\ now' = now + 1
  /\ UNCHANGED <<held, epoch, inFlight, probe, mirror, overtaken>>

(***************************************************************************)
(* The scheduler's steps: a publication arrives, or a request is to be     *)
(* served with a model.                                                    *)
(***************************************************************************)
Repairs(p) ==
  /\ p.snapshot = held /\ p.snapshot # NoSnapshot /\ p.snapshot.updatedAt >= 0
  /\ p.kind = "result" => ResultShards(mirror, p) = Shards

Dropped(p) ==
  IF p.snapshot = NoSnapshot THEN mirror.meta # Absent
  ELSE p.kind \in {"lifecycle", "rebuild"} /\ isStaleScheduledAuth(mirror, p.snapshot)

Deliver(p) ==
  /\ inFlight' = inFlight \ {p}
  /\ mirror' = Receive(mirror, p)
  /\ overtaken' = (Dropped(p) \/ (overtaken /\ ~Repairs(p)))
  /\ UNCHANGED <<now, held, epoch, probe>>

\* ensureModelLocked: the shard is built at the first request for its model.
Pick(shard) ==
  /\ mirror.provider
  /\ mirror' = [mirror EXCEPT !.shards[shard] =
       IF @ = Unbuilt
       THEN IF mirror.meta = Absent THEN Absent ELSE upsertEntry(mirror.meta, shard)
       ELSE IF @ = Absent THEN Absent
       ELSE promoteExpired(@, shard)]
  /\ UNCHANGED <<now, held, epoch, inFlight, probe, overtaken>>

Next ==
  \/ Register
  \/ Update
  \/ Remove
  \/ \E result \in Results : Result(result)
  \/ NeutralResult
  \/ OperatorReset
  \/ RefreshSchedulerEntry
  \/ SyncScheduler
  \/ TimeAnswer
  \/ ApplyAnswer
  \/ Tick
  \/ \E p \in inFlight : Deliver(p)
  \/ \E shard \in PickModels : Pick(shard)

Spec == Init /\ [][Next]_vars

(***************************************************************************)
(* Properties.                                                             *)
(***************************************************************************)

\* The manager and the scheduler keep records of the credential's shape, and
\* every deadline is a time, which the comparisons of times rely on.
AuthShape(auth) ==
  /\ auth.disabled \in BOOLEAN
  /\ auth.unavailable \in BOOLEAN
  /\ auth.nextRetryAfter \in Nat
  /\ auth.quota.nextRecoverAt \in Nat
  /\ auth.quota.backoffLevel \in Nat
  /\ DOMAIN auth.models \subseteq Models
  /\ \A m \in DOMAIN auth.models : auth.models[m].nextRetryAfter \in Nat

TypeOK ==
  /\ now \in 1 .. MaxTime
  /\ Held => AuthShape(held.auth) /\ held.epoch = epoch
  /\ epoch \in 0 .. MaxEpoch
  /\ Cardinality(inFlight) <= MaxInFlight
  /\ mirror.meta # Absent => mirror.provider /\ AuthShape(mirror.meta)
  /\ mirror.seen.epoch <= epoch

\* Once nothing is in flight, a shard offers the credential exactly when the
\* manager would let it serve that model, with the token the manager holds:
\* neither a cooldown the scheduler missed nor one it keeps for ever.  (A late
\* publication that concerns the whole credential is dropped, overtaken says.)
InShard(entry, shard) ==
  IF Enabled
  THEN /\ entry # Absent
       /\ entry.auth.token = held.auth.token
       /\ (promoteExpired(entry, shard).block.state = "ready")
            = (isAuthBlockedForModel(held.auth, shard, now).state = "ready")
  ELSE entry = Absent

ShardsAgree ==
  /\ (mirror.meta # Absent) = Enabled
  /\ \A s \in Shards : Built(mirror.shards, s) => InShard(mirror.shards[s], s)

SchedulerCurrent == inFlight = {} /\ ~overtaken => ShardsAgree

\* A removed credential does not come back into rotation: no late result, no
\* late update and no rebuild brings it back once its tombstone has arrived.
NoResurrection ==
  (~Held /\ \A p \in inFlight : p.kind # "tombstone")
    => \A s \in Shards : mirror.shards[s] \in {Unbuilt, Absent}

\* A rebuild "recreates the complete scheduler state from an auth snapshot": with
\* nothing in flight, the scheduler knows every credential that is enabled.  (It
\* does not: the providers are gone before the snapshot is found to be late.)
RebuildComplete == inFlight = {} /\ Enabled => mirror.meta # Absent

\* A quota the provider reported for the whole credential outlives successes,
\* failures and updates of the same registration: it ends at its deadline, or
\* when the operator resets it, the upstream lifts it, or the credential is
\* disabled.
CredentialQuotaHolds ==
  [][ (Held /\ held' # NoSnapshot /\ CredentialQuota(held.auth, now))
        => \/ CredentialQuota(held'.auth, now)
                /\ held'.auth.quota.nextRecoverAt >= held.auth.quota.nextRecoverAt
           \/ held'.epoch # held.epoch
           \/ held.auth.disabled \/ held'.auth.disabled
           \/ OperatorReset
           \/ ApplyAnswer ]_held

\* When the manager would keep the credential from serving a model, if nothing
\* more happened to it.
BlockedAt(auth, m) ==
  {t \in now .. MaxTime + MissingCooldown :
     isAuthBlockedForModel(auth, m, t).state # "ready"}

\* A failure never lets a model be used earlier than it could before.  (Where the
\* operator has turned the transient cooldown off, a 408 or a 5xx does: it sets no
\* deadline of its own, and takes away the one there was.)
FailureKeepsCooldown ==
  [][ \A result \in Results :
        Result(result) /\ result.kind # "success"
          => \A m \in Models :
               BlockedAt(held.auth, m) \subseteq BlockedAt(held'.auth, m) ]_held

\* A recovery probe never keeps a model back longer than it was kept before.
RecoveryNeverExtends ==
  [][ Held /\ ApplyAnswer =>
        \A m \in Models :
          BlockedAt(held'.auth, m) \subseteq BlockedAt(held.auth, m) ]_held
=============================================================================
