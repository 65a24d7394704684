--------------------------- MODULE CredentialState ---------------------------
(***************************************************************************)
(* The cooldown bookkeeping of one credential of the Go proxy: what a      *)
(* request's result, a quota probe, a reset or an update does to it, and   *)
(* whether it may serve a model.  Pure operators; CredentialScheduler runs *)
(* them under the manager's lock.                                          *)
(*                                                                         *)
(* A time is a natural number, and Zero is Go's zero time, which is after  *)
(* nothing.  The map of model states is a function whose domain is the set *)
(* of models with a state.  An error is kept only as far as the code       *)
(* branches on it later: absent, unauthorized, or any other.               *)
(***************************************************************************)
EXTENDS Integers, FiniteSets, FiniteSetsExt

CONSTANTS
  Models,              \* the canonical models the credential is registered for
  NoModel,             \* the empty model key
  NoHint,              \* a failure without a Retry-After
  QuotaBase,           \* quotaBackoffBase, the first rung of the ladder
  QuotaMax,            \* quotaBackoffMax, the last
  QuotaFloor,          \* minQuotaCooldownFloor
  QuotaCeiling,        \* maxQuotaCooldownCeiling
  TransientCooldown,   \* transientErrorCooldown, or 0 when a negative setting
                       \* turns it off
  RefusedCooldown,     \* after a refused credential: 401, 402, 403, invalid grant
  MissingCooldown,     \* after a missing or unsupported model
  CoolingDisabled      \* cooldownDisabledForAuth

ASSUME CooldownAssumption ==
  /\ {QuotaBase, QuotaMax, QuotaFloor, QuotaCeiling,
      RefusedCooldown, MissingCooldown} \subseteq Nat \ {0}
  /\ TransientCooldown \in Nat
  /\ QuotaBase <= QuotaMax
  /\ QuotaMax <= QuotaCeiling
  /\ QuotaFloor <= QuotaCeiling
  /\ IsFiniteSet(Models) /\ NoModel \notin Models
  /\ CoolingDisabled \in BOOLEAN

Zero == 0

Later(t, u) == IF u > t THEN u ELSE t

NoQuota ==
  [exceeded |-> FALSE, reason |-> "", nextRecoverAt |-> Zero, backoffLevel |-> 0]

\* A model's state when it is created or reset.
resetModelState ==
  [unavailable |-> FALSE, status |-> "active", lastError |-> "none",
   nextRetryAfter |-> Zero, quota |-> NoQuota]

\* A credential as read from its file.
NewAuth(token, expiry) ==
  [disabled |-> FALSE, token |-> token, expiry |-> expiry,
   unavailable |-> FALSE, status |-> "active", lastError |-> "none",
   nextRetryAfter |-> Zero, quota |-> NoQuota,
   models |-> [m \in {} |-> resetModelState]]

ActiveQuota(quota, now) == quota.exceeded /\ quota.nextRecoverAt > now

CredentialQuota(auth, now) ==
  ActiveQuota(auth.quota, now) /\ auth.quota.reason = "credential_quota"

(***************************************************************************)
(* The ladder of quota cooldowns, and its bounds.                          *)
(***************************************************************************)
nextQuotaCooldown(level) ==
  LET cooldown == QuotaBase * 2^level
  IN  IF cooldown \in QuotaBase .. QuotaMax - 1
      THEN [cooldown |-> cooldown, level |-> level + 1]
      ELSE [cooldown |-> QuotaMax, level |-> level]

quotaCooldownAfterFailure(quota, now) ==
  IF quota.nextRecoverAt > now
  THEN [next |-> quota.nextRecoverAt, level |-> quota.backoffLevel]
  ELSE LET rung == nextQuotaCooldown(quota.backoffLevel)
       IN  [next |-> now + rung.cooldown, level |-> rung.level]

clampQuotaCooldown(next, now) ==
  IF next > now + QuotaCeiling THEN now + QuotaCeiling ELSE next

\* The deadline and the rung after a 429, for a model or for the credential.
QuotaWindow(quota, hint, now) ==
  LET asked == IF hint = NoHint
               THEN quotaCooldownAfterFailure(quota, now)
               ELSE [next |-> now + Later(hint, QuotaFloor),
                     level |-> quota.backoffLevel]
      kept == IF quota.exceeded
              THEN Later(asked.next, quota.nextRecoverAt) ELSE asked.next
  IN  IF CoolingDisabled
      THEN [next |-> Zero, level |-> quota.backoffLevel]
      ELSE [next |-> clampQuotaCooldown(kept, now), level |-> asked.level]

nextCloudflareCooldown(level, now) ==
  LET rung == nextQuotaCooldown(level)
  IN  IF CoolingDisabled
      THEN [next |-> Zero, level |-> level]
      ELSE [next |-> now + Later(rung.cooldown, QuotaFloor), level |-> rung.level]

\* A hint does not bring back a cooldown that is turned off.
recoverableFailureRetryAfter(hint, now) ==
  IF CoolingDisabled \/ TransientCooldown = 0 THEN Zero
  ELSE now + (IF hint \in {NoHint, 0} THEN TransientCooldown ELSE hint)

RefusedUntil(now) == IF CoolingDisabled THEN Zero ELSE now + RefusedCooldown
MissingUntil(now) == IF CoolingDisabled THEN Zero ELSE now + MissingCooldown

(***************************************************************************)
(* Availability: of the credential as the aggregate of its models, and of  *)
(* the credential for one model.                                           *)
(***************************************************************************)
clearAggregatedAvailability(auth) ==
  [auth EXCEPT !.unavailable = FALSE, !.nextRetryAfter = Zero, !.quota = NoQuota]

Down(state, now) == state.unavailable /\ state.nextRetryAfter > now

\* A cooldown that has run out is forgotten as the models are aggregated.
Expire(state, now) ==
  IF state.unavailable /\ state.nextRetryAfter # Zero /\ state.nextRetryAfter <= now
  THEN [state EXCEPT !.unavailable = FALSE, !.nextRetryAfter = Zero]
  ELSE state

AggregatedQuota(quota, states, now) ==
  LET limited == {s \in states : s.quota.exceeded}
      recovers == {s.quota.nextRecoverAt : s \in limited} \ {Zero}
      earliest == IF recovers = {} THEN Zero ELSE Min(recovers)
  IN  IF limited # {}
      THEN [exceeded |-> TRUE, reason |-> "quota",
            nextRecoverAt |-> Later(earliest, quota.nextRecoverAt),
            backoffLevel |-> Max({s.quota.backoffLevel : s \in limited})]
      ELSE IF ActiveQuota(quota, now) THEN quota ELSE NoQuota

updateAggregatedAvailability(auth, now) ==
  LET known == DOMAIN auth.models
      states == {auth.models[m] : m \in known}
      down == {s \in states : Down(s, now)}
      all == states = down
  IN  IF CredentialQuota(auth, now) THEN [auth EXCEPT !.unavailable = TRUE]
      ELSE IF known = {} THEN clearAggregatedAvailability(auth)
      ELSE [auth EXCEPT
             !.models = [m \in known |-> Expire(@[m], now)],
             !.unavailable = all,
             !.nextRetryAfter =
                IF all THEN Min({s.nextRetryAfter : s \in states}) ELSE Zero,
             !.quota = AggregatedQuota(@, states, now)]

hasModelError(auth, now) ==
  \E m \in DOMAIN auth.models :
    LET s == auth.models[m]
    IN  \/ s.lastError # "none"
        \/ /\ s.status = "error"
           /\ s.unavailable
           /\ s.nextRetryAfter = Zero \/ s.nextRetryAfter > now

\* The error of a credential is forgotten once no model has one.
ForgetError(auth, now) ==
  IF auth.disabled \/ hasModelError(auth, now) THEN auth
  ELSE [auth EXCEPT !.lastError = "none", !.status = "active"]

hasUnauthorizedAuthFailure(auth) ==
  auth.unavailable /\ auth.status = "error" /\ auth.lastError = "unauthorized"

Ready == [state |-> "ready", next |-> Zero]
Blocked == [state |-> "blocked", next |-> Zero]

availabilityBlock(unavailable, exceeded, retry, recover, now) ==
  LET ahead == {t \in {retry, recover} : t > now}
  IN  IF ~unavailable /\ ~exceeded THEN Ready
      ELSE IF ahead # {}
      THEN [state |-> IF exceeded THEN "cooldown" ELSE "blocked", next |-> Max(ahead)]
      ELSE IF {retry, recover} = {Zero} THEN Blocked ELSE Ready

\* The credential's own availability: that of the shard of no model, and of a
\* model when no model has a state.
CredentialBlock(auth, m, now) ==
  LET aggregate == m = NoModel /\ DOMAIN auth.models # {}
                     /\ auth.quota.reason # "credential_quota" /\ ~auth.unavailable
  IN  availabilityBlock(auth.unavailable, auth.quota.exceeded /\ ~aggregate,
                        auth.nextRetryAfter, auth.quota.nextRecoverAt, now)

TokenExpired(auth, now) == auth.expiry # Zero /\ auth.expiry <= now

isAuthBlockedForModel(auth, m, now) ==
  IF auth.disabled THEN [state |-> "disabled", next |-> Zero]
  ELSE IF hasUnauthorizedAuthFailure(auth) \/ TokenExpired(auth, now) THEN Blocked
  ELSE IF CredentialQuota(auth, now)
  THEN [state |-> "cooldown", next |-> auth.quota.nextRecoverAt]
  ELSE IF m \in DOMAIN auth.models
  THEN LET s == auth.models[m]
       IN  availabilityBlock(s.unavailable, s.quota.exceeded,
                             s.nextRetryAfter, s.quota.nextRecoverAt, now)
  ELSE IF m # NoModel /\ DOMAIN auth.models # {} THEN Ready
  ELSE CredentialBlock(auth, m, now)

\* Whether the scheduler takes the credential to be blocked for every model.
isCredentialBlocked(auth, now) ==
  \/ auth.disabled
  \/ CredentialQuota(auth, now)
  \/ /\ DOMAIN auth.models = {}
     /\ auth.unavailable \/ auth.quota.exceeded \/ auth.nextRetryAfter > now
  \/ /\ DOMAIN auth.models # {}
     /\ Cardinality(DOMAIN auth.models) >= Cardinality(Models)
     /\ auth.unavailable

(***************************************************************************)
(* A request's result.  Its kind is the class of its outcome: "success";   *)
(* "unauthorized" (401); "refused" (402, 403, an invalid grant); "missing" *)
(* (404, or a model the credential does not support); "quota" (429), for   *)
(* the model or, in scope, for the credential; "challenge" (Cloudflare);   *)
(* "transient" (408 and 5xx, with a hint or without, and any other         *)
(* status); "skipped" (the request's or the connection's own fault).       *)
(***************************************************************************)
ErrorOf(kind) == IF kind = "unauthorized" THEN "unauthorized" ELSE "other"

\* The deadline and the quota that a failure of this kind leaves, for a model
\* and for the credential alike.
Penalty(retry, quota, kind, hint, now) ==
  LET window == QuotaWindow(quota, hint, now)
      gate == nextCloudflareCooldown(quota.backoffLevel, now)
      Limit(reason, w) == [exceeded |-> TRUE, reason |-> reason,
                           nextRecoverAt |-> w.next, backoffLevel |-> w.level]
      \* A later failure only extends a deadline that is still ahead.
      Extended(next) ==
        IF next # Zero /\ retry > next /\ retry > now THEN retry ELSE next
  IN  CASE kind \in {"unauthorized", "refused"} ->
             [retry |-> Extended(RefusedUntil(now)), quota |-> quota]
        [] kind = "missing" ->
             [retry |-> Extended(MissingUntil(now)), quota |-> quota]
        [] kind = "transient" ->
             [retry |-> Extended(recoverableFailureRetryAfter(hint, now)), quota |-> quota]
        [] kind = "quota" ->
             [retry |-> Extended(window.next), quota |-> Limit("quota", window)]
        [] kind = "challenge" ->
             [retry |-> Extended(gate.next), quota |-> Limit("cloudflare challenge", gate)]

\* With cooling disabled a failure without a deadline leaves no block behind.
Uncooled(record) ==
  IF CoolingDisabled /\ record.nextRetryAfter = Zero /\ record.quota.nextRecoverAt = Zero
  THEN [record EXCEPT !.unavailable = FALSE, !.quota.exceeded = FALSE]
  ELSE record

\* What a failure leaves in a model's state, or in the credential's own.
Failed(record, kind, hint, now) ==
  LET penalty == Penalty(record.nextRetryAfter, record.quota, kind, hint, now)
  IN  Uncooled([record EXCEPT
        !.unavailable = kind # "transient" \/ penalty.retry # Zero,
        !.status = "error",
        !.lastError = ErrorOf(kind),
        !.nextRetryAfter = penalty.retry,
        !.quota = penalty.quota])

\* Mutant: every failure starts a new state.
ensureModelStateAnew(auth, m) == resetModelState

ensureModelState(auth, m) ==
  IF m \in DOMAIN auth.models THEN auth.models[m] ELSE resetModelState

\* A quota the provider reports for the whole credential also holds its other
\* models back, each until the later of the two deadlines.
ScopeQuota(auth, m, window, now) ==
  LET Until(quota) ==
        clampQuotaCooldown(
          IF quota.exceeded THEN Later(window.next, quota.nextRecoverAt)
          ELSE window.next, now)
      Sibling(s) ==
        [s EXCEPT
          !.unavailable = TRUE, !.status = "error",
          !.nextRetryAfter = Later(Until(s.quota), s.nextRetryAfter),
          !.quota = [exceeded |-> TRUE, reason |-> "credential_quota",
                     nextRecoverAt |-> Until(s.quota), backoffLevel |-> window.level]]
      until == clampQuotaCooldown(Later(window.next, auth.quota.nextRecoverAt), now)
  IN  [auth EXCEPT
        !.models = [n \in DOMAIN @ |-> IF n = m THEN @[n] ELSE Sibling(@[n])],
        !.unavailable = TRUE,
        !.nextRetryAfter = until,
        !.quota.exceeded = TRUE,
        !.quota.reason = "credential_quota",
        !.quota.nextRecoverAt = until]

ModelFailed(auth, result, now) ==
  LET m == result.model
      state == ensureModelState(auth, m)
      failed == [auth EXCEPT
                  !.models = [n \in DOMAIN @ \cup {m} |->
                     IF n = m THEN Failed(state, result.kind, result.hint, now) ELSE @[n]],
                  !.lastError = ErrorOf(result.kind),
                  !.status = "error"]
      scoped == result.kind = "quota" /\ result.scope /\ ~CoolingDisabled
  IN  updateAggregatedAvailability(
        IF scoped
        THEN ScopeQuota(failed, m, QuotaWindow(state.quota, result.hint, now), now)
        ELSE failed, now)

ModelSucceeded(auth, m, now) ==
  ForgetError(
    updateAggregatedAvailability(
      [auth EXCEPT !.models =
         [n \in DOMAIN @ \cup {m} |-> IF n = m THEN resetModelState ELSE @[n]]], now),
    now)

clearAuthStateOnSuccess(auth) ==
  [clearAggregatedAvailability(auth) EXCEPT !.status = "active", !.lastError = "none"]

\* A success forgives everything but a credential's own quota; a failure is the
\* model's, and the credential's own only when the request named no model.
MarkResult(auth, result, now) ==
  CASE result.kind = "success" ->
         IF auth.quota.reason = "credential_quota" /\ auth.quota.nextRecoverAt > now
         THEN auth
         ELSE IF result.model = NoModel THEN clearAuthStateOnSuccess(auth)
         ELSE ModelSucceeded(auth, result.model, now)
    [] result.kind = "skipped" -> auth
    [] OTHER ->
         IF result.model = NoModel
         THEN Failed(auth, result.kind, result.hint, now)
         ELSE ModelFailed(auth, result, now)

(***************************************************************************)
(* A quota probe of a credential that is held back, and the other ways a   *)
(* cooldown ends early.                                                    *)
(***************************************************************************)
authHeldInQuotaCooldown(auth, now) ==
  \/ ActiveQuota(auth.quota, now)
  \/ \E m \in DOMAIN auth.models : ActiveQuota(auth.models[m].quota, now)

\* The upstream says the credential is available, but for the models in keep.
liftQuotaCooldownForAuth(auth, keep, now) ==
  LET cleared == clearAggregatedAvailability(auth)
      lifted == [cleared EXCEPT !.models =
                   [m \in DOMAIN @ |-> IF m \in keep THEN @[m] ELSE resetModelState]]
  IN  ForgetError(IF DOMAIN auth.models = {} THEN lifted
                  ELSE updateAggregatedAvailability(lifted, now), now)

\* Mutant: the deadline is set to the announced reset, also when that is later.
moveQuotaCooldownForAuth(auth, resetAt) ==
  LET Moved(r) ==
        [r EXCEPT !.quota.nextRecoverAt = IF r.quota.exceeded THEN resetAt ELSE @,
                  !.nextRetryAfter = IF @ # Zero THEN resetAt ELSE @]
  IN  [Moved(auth) EXCEPT !.models = [m \in DOMAIN @ |-> Moved(@[m])]]

\* The upstream names an earlier reset.
shortenQuotaCooldownForAuth(auth, resetAt) ==
  LET Sooner(r) ==
        [r EXCEPT
          !.quota.nextRecoverAt =
             IF r.quota.exceeded /\ @ > resetAt THEN resetAt ELSE @,
          !.nextRetryAfter = IF @ > resetAt THEN resetAt ELSE @]
  IN  [Sooner(auth) EXCEPT !.models = [m \in DOMAIN @ |-> Sooner(@[m])]]

\* The operator resets the quota, or the credential is disabled.
clearCooldownStateForAuth(auth) ==
  LET Clear(r) == [r EXCEPT !.unavailable = FALSE, !.nextRetryAfter = Zero,
                            !.quota = NoQuota]
  IN  [Clear(auth) EXCEPT !.models = [m \in DOMAIN @ |-> Clear(@[m])]]

ResetQuota(auth, now) ==
  ForgetError(
    clearCooldownStateForAuth(
      [auth EXCEPT !.models = [m \in DOMAIN @ |-> resetModelState]]), now)

\* Mutant: an update keeps the models' states, but not the credential's quota.
UpdateAuthForgetting(existing, token, expiry, disabled, now) ==
  [NewAuth(token, expiry) EXCEPT
    !.disabled = disabled,
    !.models = IF disabled \/ existing.disabled THEN @ ELSE existing.models]

\* A file or an operator replaces the credential: its models' states stay, and
\* so does a quota of its own; a new token forgives an unauthorized answer.
UpdateAuth(existing, token, expiry, disabled, now) ==
  LET incoming == [NewAuth(token, expiry) EXCEPT !.disabled = disabled]
      Forgiven(s) == IF s.lastError = "unauthorized" THEN resetModelState ELSE s
      kept == [incoming EXCEPT !.models = existing.models]
      forgiven == IF token = existing.token
                    \/ \A m \in DOMAIN kept.models : kept.models[m].lastError # "unauthorized"
                  THEN kept
                  ELSE updateAggregatedAvailability(
                         [kept EXCEPT !.models = [m \in DOMAIN @ |-> Forgiven(@[m])]], now)
  IN  IF disabled THEN incoming
      ELSE IF existing.disabled THEN incoming
      ELSE IF CredentialQuota(existing, now)
      THEN [forgiven EXCEPT !.unavailable = existing.unavailable,
                            !.nextRetryAfter = existing.nextRetryAfter,
                            !.quota = existing.quota,
                            !.status = existing.status]
      ELSE forgiven
=============================================================================
