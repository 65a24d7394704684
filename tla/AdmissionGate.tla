---------------------------- MODULE AdmissionGate ----------------------------
(***************************************************************************)
(* The admission gate of one ChatGPT account (src/adapters/chatgpt-web/    *)
(* rate-limit-gate.ts) and the turns that pass it (runAdmitted of          *)
(* browser-worker.ts).  Each daemon has a gate of its own; the daemons of  *)
(* one home share the account's state through a file.                      *)
(*                                                                         *)
(* Times are small integers: `now' is the wall clock, 0 is "never" as in   *)
(* the code, and the constants stand for the code's durations.  A handler  *)
(* of a gate is synchronous, so it is one step; its calls (refresh,        *)
(* normalize, persist, pump) are operators on the record w of what the     *)
(* handler sees: the gate, the file, and whether it wrote the file.        *)
(***************************************************************************)
EXTENDS Naturals, FiniteSets, FiniteSetsExt

CONSTANTS
  Daemons,
  Turns,               \* turns a daemon may be asked to run
  NoTurn,              \* "no probe"
  Never,               \* a time that does not come: no timer, no wake-up
  \* durations of rate-limit-gate.ts
  BaseCooldown, MaxCooldown, QuietPeriod, IncidentWindow, RampInterval,
  RecoverySpacing, OpenSpacing, MaxWait,
  \* limits of rate-limit-gate.ts and concurrency.ts
  IncidentStopCount, MaxConcurrency, MaxTabs,
  \* bounds of the model
  MaxTime, MaxRestarts, MaxClockSetBack

ASSUME NoTurnAssumption == NoTurn \notin Turns
ASSUME NeverAssumption ==
  Never \in Nat /\ Never > MaxTime + MaxCooldown + MaxWait + IncidentWindow + RampInterval
ASSUME DurationAssumption ==
  /\ {BaseCooldown, MaxCooldown, QuietPeriod, IncidentWindow, RampInterval,
      RecoverySpacing, OpenSpacing, MaxWait} \subseteq Nat \ {0}
  /\ BaseCooldown <= MaxCooldown
  /\ OpenSpacing <= RecoverySpacing /\ RecoverySpacing <= RampInterval
ASSUME LimitAssumption ==
  /\ {IncidentStopCount, MaxConcurrency, MaxTabs} \subseteq Nat \ {0}
  /\ MaxConcurrency <= MaxTabs
ASSUME BoundAssumption == {MaxTime, MaxRestarts, MaxClockSetBack} \subseteq Nat /\ MaxTime > 0

VARIABLES
  now,                \* Date.now()
  gate,               \* per daemon: its queue, its tickets, its copy of the account's state
  file,               \* the account's record in the state file
  stale,              \* daemons whose stateFileMtimeMs is not the file's
  restarts,           \* how many restarts there were
  heldByChatGpt,      \* history: ChatGPT holds the account and nobody has restored it
  clockSetBack        \* history: the wall clock was set back

gateVars == <<now, gate, file, stale, restarts, heldByChatGpt, clockSetBack>>

State ==
  [ until : Nat, stoppedUntil : Nat, tier : Nat, incidentStartedAt : Nat, lastLimitAt : Nat,
    incidents : SUBSET Nat, probeRequired : BOOLEAN, recovering : BOOLEAN,
    recoveryStartedAt : Nat, recoveredSlots : Nat, failureTier : Nat, lastFailureAt : Nat,
    held : BOOLEAN, updatedAt : Nat ]

Gate ==
  [ state : State,
    waiters : SUBSET Turns,            \* ordered by seq
    seq : [Turns -> Nat], nextSeq : Nat,
    enqueuedAt : [Turns -> Nat],
    waited : [Turns -> Nat],           \* waitedBeforeMs of a waiter, waitedMs of a ticket
    tickets : SUBSET Turns,
    waitingForTools : SUBSET Turns, accepted : SUBSET Turns, probes : SUBSET Turns,
    admittedAt : [Turns -> Nat],
    probeTicket : Turns \cup {NoTurn},
    lastAdmissionAt : Nat,
    timerAt : Nat,
    over : SUBSET Turns ]

emptyState ==
  [ until |-> 0, stoppedUntil |-> 0, tier |-> 0, incidentStartedAt |-> 0, lastLimitAt |-> 0,
    incidents |-> {}, probeRequired |-> FALSE, recovering |-> FALSE, recoveryStartedAt |-> 0,
    recoveredSlots |-> 0, failureTier |-> 0, lastFailureAt |-> 0, held |-> FALSE, updatedAt |-> 0 ]

NewGate(over) ==
  [ state |-> emptyState,
    waiters |-> {}, seq |-> [u \in Turns |-> 0], nextSeq |-> 1,
    enqueuedAt |-> [u \in Turns |-> 0], waited |-> [u \in Turns |-> 0],
    tickets |-> {}, waitingForTools |-> {}, accepted |-> {}, probes |-> {},
    admittedAt |-> [u \in Turns |-> 0], probeTicket |-> NoTurn, lastAdmissionAt |-> 0,
    timerAt |-> Never, over |-> over ]

\* A turn is in one place, and the probe is one of the turns that run.
Consistent(g) ==
  /\ g.waiters \cap g.tickets = {} /\ (g.waiters \cup g.tickets) \cap g.over = {}
  /\ g.waitingForTools \cup g.accepted \cup g.probes \subseteq g.tickets
  /\ g.probeTicket \in g.tickets \cup {NoTurn}

GateTypeOK ==
  /\ \A d \in Daemons : Consistent(gate[d])
  /\ now \in 1 .. MaxTime
  /\ gate \in [Daemons -> Gate]
  /\ file \in State
  /\ stale \subseteq Daemons
  /\ restarts \in 0 .. MaxRestarts
  /\ {heldByChatGpt, clockSetBack} \subseteq BOOLEAN

GateInit ==
  /\ now = 1
  /\ gate = [d \in Daemons |-> NewGate({})]
  /\ file = emptyState
  /\ stale = {}
  /\ restarts = 0
  /\ heldByChatGpt = FALSE
  /\ clockSetBack = FALSE

-----------------------------------------------------------------------------
(***************************************************************************)
(* The account's state as time passes.                                     *)
(***************************************************************************)
Least(a, b) == Min({a, b})

\* Steps of the recovery ramp since the probe was accepted.
RampSteps(s) ==
  IF now <= s.recoveryStartedAt THEN 0 ELSE (now - s.recoveryStartedAt) \div RampInterval

Limit(s) ==
  IF ~s.recovering THEN MaxConcurrency
  ELSE IF s.probeRequired \/ s.recoveryStartedAt = 0 THEN 1
       ELSE Least(MaxConcurrency, 1 + s.recoveredSlots + RampSteps(s))

\* Mutant: the ramp has no timer.
NextRampUnknown(s) == Never

NextRampAt(s) ==
  IF s.recovering /\ ~s.probeRequired /\ s.recoveryStartedAt > 0
  THEN s.recoveryStartedAt + (RampSteps(s) + 1) * RampInterval
  ELSE Never

RecentIncidents(s) == {at \in s.incidents : at <= now /\ now < at + IncidentWindow}

\* normalize: what the passage of time alone does to the state.
Normalized(s) ==
  LET quiet == s.lastLimitAt > 0 /\ now > s.lastLimitAt + MaxCooldown + QuietPeriod
      served == s.failureTier > 0 /\ s.lastFailureAt > 0
                  /\ now > s.lastFailureAt + MaxCooldown + QuietPeriod
      ramped == ~s.probeRequired /\ s.recoveryStartedAt > 0 /\ Limit(s) >= MaxConcurrency
  IN [s EXCEPT !.tier = IF quiet THEN 0 ELSE @,
               !.recovering = @ /\ ~quiet /\ ~ramped,
               !.failureTier = IF served THEN 0 ELSE @,
               !.incidents = RecentIncidents(s),
               !.until = Least(@, now + MaxCooldown),
               !.stoppedUntil = Least(@, now + IncidentWindow)]

Stopped(s) == s.held \/ now < s.stoppedUntil

-----------------------------------------------------------------------------
(***************************************************************************)
(* What a handler of daemon d works on: its gate, the file, and whether    *)
(* it has written the file.                                                *)
(***************************************************************************)
View(d) == [g |-> gate[d], file |-> file, wrote |-> FALSE, unread |-> d \in stale]

\* The handler's effect; a file written by d is news to every other daemon.
Commit(d, w) ==
  /\ gate' = [gate EXCEPT ![d] = w.g]
  /\ file' = w.file
  /\ stale' = IF w.wrote THEN Daemons \ {d}
                         ELSE IF w.unread THEN stale ELSE stale \ {d}
  /\ UNCHANGED <<now, restarts, clockSetBack>>

\* Mutant: only a daemon that has no record of its own reads the file.
RefreshedOnce(w) ==
  [w EXCEPT !.unread = FALSE,
            !.g.state = IF w.unread /\ @.updatedAt = 0 THEN Normalized(w.file) ELSE @]

\* refreshFromDisk: adopts a newer record that another process wrote.
Refreshed(w) ==
  [w EXCEPT !.unread = FALSE,
            !.g.state = IF w.unread /\ w.file.updatedAt > @.updatedAt
                        THEN Normalized(w.file) ELSE @]

\* refreshFromDisk, then normalize.
Current(w) == LET r == Refreshed(w) IN [r EXCEPT !.g.state = Normalized(@)]

\* Mutant: nothing is saved.
PersistedNowhere(w) == w

\* persist: the record replaces whatever the file says of this account.
Persisted(w) ==
  LET s == [w.g.state EXCEPT !.updatedAt = Max({now, @ + 1})]
  IN [w EXCEPT !.g.state = s, !.file = s, !.wrote = TRUE, !.unread = FALSE]

-----------------------------------------------------------------------------
(***************************************************************************)
(* The queue.                                                              *)
(***************************************************************************)
Gone(g, turns) ==
  LET forgotten(f) == [u \in Turns |-> IF u \in turns THEN 0 ELSE f[u]]
  IN [g EXCEPT !.waiters = @ \ turns,
               !.seq = forgotten(@), !.enqueuedAt = forgotten(@), !.waited = forgotten(@),
               !.tickets = @ \ turns,
               !.waitingForTools = @ \ turns, !.accepted = @ \ turns, !.probes = @ \ turns,
               !.admittedAt = forgotten(@),
               !.over = @ \cup turns]

\* The turn whose wait began first, counting its first arrival.
First(g) == CHOOSE u \in g.waiters : \A v \in g.waiters : g.seq[u] <= g.seq[v]

\* waitedMs, across every requeue; a clock that was set back adds nothing.
Waited(g, u) ==
  g.waited[u] + (IF now <= g.enqueuedAt[u] THEN 0 ELSE now - g.enqueuedAt[u])

Deadline(g, u) == now + MaxWait - Waited(g, u)

Spacing(s) == IF s.recovering THEN RecoverySpacing ELSE OpenSpacing

\* Mutant: a probe that runs holds nobody up.
BlockedUntilWithoutProbe(g) ==
  LET s == g.state
  IN IF now < s.until THEN s.until
     ELSE IF Cardinality(g.tickets) >= MaxTabs THEN Never
     ELSE IF ~s.probeRequired /\ Cardinality(g.tickets \ g.waitingForTools) >= Limit(s)
          THEN NextRampAt(s)
     ELSE IF g.lastAdmissionAt > 0 /\ now < g.lastAdmissionAt + Spacing(s)
          THEN g.lastAdmissionAt + Spacing(s)
     ELSE 0

\* Mutant: nobody looks again when a pause is over.
BlockedUntilUnlooked(g) ==
  IF now < g.state.until THEN Never ELSE BlockedUntilWithoutProbe(g)

\* block: 0 if the next turn may start, else when it is worth looking again (Never: only after
\* an event).
BlockedUntil(g) ==
  LET s == g.state
  IN IF now < s.until THEN s.until
     ELSE IF Cardinality(g.tickets) >= MaxTabs THEN Never
     ELSE IF s.probeRequired /\ g.probeTicket # NoTurn THEN Never
     ELSE IF ~s.probeRequired /\ Cardinality(g.tickets \ g.waitingForTools) >= Limit(s)
          THEN NextRampAt(s)
     ELSE IF g.lastAdmissionAt > 0 /\ now < g.lastAdmissionAt + Spacing(s)
          THEN g.lastAdmissionAt + Spacing(s)
     ELSE 0

Admitted(g, u) ==
  [g EXCEPT !.waiters = @ \ {u},
            !.tickets = @ \cup {u},
            !.waited[u] = Waited(g, u), !.enqueuedAt[u] = 0,
            !.admittedAt[u] = now,
            !.probes = IF g.state.probeRequired THEN @ \cup {u} ELSE @,
            !.probeTicket = IF g.state.probeRequired THEN u ELSE @,
            !.lastAdmissionAt = now]

\* One pass lets at most one turn go: the next one meets the spacing.
Pumped(w) ==
  LET c == Current(w)
      g == Gone(c.g, {u \in c.g.waiters : Waited(c.g, u) >= MaxWait})
      h == IF g.waiters # {} /\ BlockedUntil(g) = 0 THEN Admitted(g, First(g)) ELSE g
  IN IF Stopped(c.g.state)
     THEN [c EXCEPT !.g = [Gone(@, c.g.waiters) EXCEPT !.timerAt = Never]]
     ELSE [c EXCEPT !.g = [h EXCEPT !.timerAt =
            IF h.waiters = {} THEN Never
            ELSE Min({BlockedUntil(h)} \cup {Deadline(h, u) : u \in h.waiters})]]

\* Behind everyone the first time; a turn that was sent back keeps its place and its waiting time.
Enqueued(g, u) ==
  [g EXCEPT !.waiters = @ \cup {u}, !.enqueuedAt[u] = now,
            !.seq[u] = IF @ = 0 THEN g.nextSeq ELSE @,
            !.nextSeq = IF g.seq[u] = 0 THEN @ + 1 ELSE @]

\* awaitReady.
Awaited(w, u) ==
  LET c == Current(w)
  IN IF Stopped(c.g.state)
     THEN [c EXCEPT !.g = Gone(@, {u})]
     ELSE Pumped([c EXCEPT !.g = Enqueued(@, u)])

-----------------------------------------------------------------------------
(***************************************************************************)
(* What ChatGPT's answers do to the state.                                 *)
(***************************************************************************)
\* Mutant: every failure is an incident of its own.
JoinsNothing(s, admittedAt) == FALSE

\* A turn admitted before the incident began was sent into the same limit.
JoinsIncident(s, admittedAt) == s.tier > 0 /\ admittedAt < s.incidentStartedAt

Paused(s, delay) == Least(Max({s.until, now + delay}), now + MaxCooldown)

\* The pause doubles from step to step, from the base to the longest.
Backoff(step) == Min({BaseCooldown * 2 ^ step, MaxCooldown} \cap BaseCooldown .. MaxCooldown)

Incident(s) ==
  LET incidents == RecentIncidents(s) \cup {now}
  IN [s EXCEPT !.tier = @ + 1,
               !.incidentStartedAt = now,
               !.until = Paused(s, Backoff(s.tier)),
               !.incidents = incidents,
               !.probeRequired = TRUE, !.recovering = TRUE,
               !.recoveryStartedAt = 0, !.recoveredSlots = 0,
               !.stoppedUntil = IF Cardinality(incidents) >= IncidentStopCount
                                THEN now + IncidentWindow ELSE @]

\* recordRateLimit: a probe of an earlier incident proves nothing about a new one.
RateLimitRecorded(w, admittedAt) ==
  LET c == Current(w)
      s == [c.g.state EXCEPT !.lastLimitAt = now]
  IN IF JoinsIncident(s, admittedAt)
     THEN Pumped(Persisted([c EXCEPT !.g.state = s]))
     ELSE Pumped(Persisted([c EXCEPT !.g.state = Incident(s), !.g.probeTicket = NoTurn]))

\* recordChatGptFailure: the pause of the whole account doubles, once per trouble.
FailureRecorded(w, admittedAt) ==
  LET c == Current(w)
      s == c.g.state
  IN IF s.failureTier > 0 /\ admittedAt < s.lastFailureAt
     THEN c
     ELSE Pumped(Persisted([c EXCEPT !.g.state =
            [s EXCEPT !.failureTier = Least(16, @ + 1),
                      !.lastFailureAt = now,
                      !.until = Paused(s, Backoff(s.failureTier))]]))

\* Mutant: the hold is not saved.
HoldRecordedUnsaved(w) == LET r == Refreshed(w) IN Pumped([r EXCEPT !.g.state.held = TRUE])

\* recordSecurityHold.
HoldRecorded(w) ==
  LET r == Refreshed(w)
  IN Pumped(IF r.g.state.held THEN r ELSE Persisted([r EXCEPT !.g.state.held = TRUE]))

\* Mutant: any accepted turn is evidence that the limit is over.
ProbeAcceptedByAny(w, u) ==
  IF w.g.state.probeRequired
  THEN Persisted([w EXCEPT !.g.state.probeRequired = FALSE, !.g.state.recoveryStartedAt = now])
  ELSE w

\* ticketAccepted, before its pump: only the probe releases the queue.
ProbeAccepted(w, u) ==
  IF u = w.g.probeTicket /\ w.g.state.probeRequired
  THEN Persisted([w EXCEPT !.g.state.probeRequired = FALSE, !.g.state.recoveryStartedAt = now])
  ELSE w

\* ticketFinished, "clean": a response served after the incident ends the escalation.
Recovered(w, u) ==
  LET s == w.g.state
      probed == s.probeRequired /\ u \in w.g.probes
  IN IF /\ s.incidentStartedAt > 0 /\ w.g.admittedAt[u] >= s.incidentStartedAt
        /\ s.tier # 0 \/ probed \/ s.recovering
     THEN Persisted([w EXCEPT !.g.state =
            [s EXCEPT !.tier = 0,
                      !.probeRequired = @ /\ ~probed,
                      !.recoveryStartedAt = IF probed THEN now ELSE @,
                      !.recoveredSlots = IF s.recovering THEN Least(MaxConcurrency, @ + 1) ELSE @]])
     ELSE w

Unfailed(w) ==
  IF w.g.state.failureTier # 0 THEN Persisted([w EXCEPT !.g.state.failureTier = 0]) ELSE w

\* Mutant: the probe stays with a turn that is over.
ReleasedKeepingProbe(w, u) == [w EXCEPT !.g.tickets = @ \ {u}]

\* The ticket and the probe are given back; the caller pumps.
Released(w, u) ==
  [w EXCEPT !.g.tickets = @ \ {u},
            !.g.waitingForTools = @ \ {u}, !.g.accepted = @ \ {u}, !.g.probes = @ \ {u},
            !.g.probeTicket = IF @ = u THEN NoTurn ELSE @]

Finished(w, u) == LET p == Pumped(Released(w, u)) IN [p EXCEPT !.g = Gone(@, {u})]

FinishedClean(w, u) ==
  LET p == Pumped(Released(Unfailed(Recovered(w, u)), u)) IN [p EXCEPT !.g = Gone(@, {u})]

-----------------------------------------------------------------------------
(***************************************************************************)
(* The handlers of daemon d's gate: a turn arrives, is aborted while it    *)
(* waits, waits for tools, is accepted by ChatGPT, ends; a timer fires.    *)
(***************************************************************************)
Arrive(d, u) ==
  /\ u \notin gate[d].over \cup gate[d].waiters \cup gate[d].tickets
  /\ Commit(d, Awaited(View(d), u))
  /\ UNCHANGED heldByChatGpt

AbortWait(d, u) ==
  /\ u \in gate[d].waiters
  /\ Commit(d, Pumped([View(d) EXCEPT !.g = Gone(@, {u})]))
  /\ UNCHANGED heldByChatGpt

ToolsWait(d, u) ==
  LET w == View(d)
      toggled == IF u \in w.g.waitingForTools THEN w.g.waitingForTools \ {u}
                                              ELSE w.g.waitingForTools \cup {u}
  IN /\ u \in w.g.tickets
     /\ Commit(d, Pumped([w EXCEPT !.g.waitingForTools = toggled]))
     /\ UNCHANGED heldByChatGpt

Accept(d, u) ==
  /\ u \in gate[d].tickets \ gate[d].accepted
  /\ Commit(d, Pumped(ProbeAccepted([View(d) EXCEPT !.g.accepted = @ \cup {u}], u)))
  /\ UNCHANGED heldByChatGpt

\* ChatGPT does not answer in the millisecond in which a turn is admitted.
Answering(d, u) ==
  /\ u \in gate[d].tickets
  /\ \A e \in Daemons : gate[e].lastAdmissionAt # now

Clean(d, u) ==
  /\ Answering(d, u)
  /\ Commit(d, FinishedClean(View(d), u))
  /\ UNCHANGED heldByChatGpt

\* The turn was aborted or refused by the bridge itself: ChatGPT said nothing.
GiveBack(d, u) ==
  /\ u \in gate[d].tickets
  /\ Commit(d, Finished(View(d), u))
  /\ UNCHANGED heldByChatGpt

Fail(d, u) ==
  /\ Answering(d, u)
  /\ Commit(d, Finished(FailureRecorded(View(d), gate[d].admittedAt[u]), u))
  /\ UNCHANGED heldByChatGpt

\* A rate limit; before Send was activated the turn goes back to its place in the queue.
RateLimited(d, u) ==
  LET w == RateLimitRecorded(View(d), gate[d].admittedAt[u])
      p == Pumped(Released(w, u))
  IN /\ Answering(d, u)
     /\ \/ Commit(d, Finished(w, u))
        \/ /\ u \notin gate[d].accepted
           /\ Commit(d, Awaited([p EXCEPT !.g.admittedAt[u] = 0], u))
     /\ UNCHANGED heldByChatGpt

SeeHold(d, u) ==
  /\ Answering(d, u)
  /\ Commit(d, Finished(HoldRecorded(View(d)), u))
  /\ heldByChatGpt' = TRUE

\* A person restored the account, and a probe of daemon d read its controls again.
ClearHold(d) ==
  LET r == Refreshed(View(d)) IN
  /\ Commit(d, IF r.g.state.held THEN Pumped(Persisted([r EXCEPT !.g.state.held = FALSE])) ELSE r)
  /\ heldByChatGpt' = FALSE

\* snapshot and assertMaintenanceAllowed.
Look(d) == Commit(d, Current(View(d))) /\ UNCHANGED heldByChatGpt

Wake(d) ==
  /\ gate[d].timerAt <= now
  /\ Commit(d, Pumped([View(d) EXCEPT !.g.timerAt = Never]))
  /\ UNCHANGED heldByChatGpt

\* A new process reads the file; its turns are gone.
Restart(d) ==
  LET lost == gate[d].over \cup gate[d].waiters \cup gate[d].tickets
      r == Refreshed([g |-> NewGate(lost), file |-> file, wrote |-> FALSE, unread |-> TRUE])
  IN /\ restarts < MaxRestarts
     /\ restarts' = restarts + 1
     /\ gate' = [gate EXCEPT ![d] = r.g]
     /\ stale' = stale \ {d}
     /\ UNCHANGED <<now, file, heldByChatGpt, clockSetBack>>

Tick ==
  /\ now < MaxTime
  /\ now' = now + 1
  /\ UNCHANGED <<gate, file, stale, restarts, heldByChatGpt, clockSetBack>>

\* The wall clock is corrected, once; timers keep their delay, and one that is due stays due.
SetClockBack ==
  /\ ~clockSetBack
  /\ \E k \in 1 .. MaxClockSetBack :
      /\ k < now
      /\ now' = now - k
      /\ gate' = [d \in Daemons |->
           [gate[d] EXCEPT !.timerAt = IF @ = Never THEN @ ELSE IF @ <= k THEN 0 ELSE @ - k]]
      /\ clockSetBack' = TRUE
      /\ UNCHANGED <<file, stale, restarts, heldByChatGpt>>

TurnStep(d, u) ==
  \/ Arrive(d, u) \/ AbortWait(d, u)
  \/ ToolsWait(d, u) \/ Accept(d, u)
  \/ Clean(d, u) \/ GiveBack(d, u) \/ Fail(d, u) \/ RateLimited(d, u) \/ SeeHold(d, u)

GateNext ==
  \/ \E d \in Daemons : \/ \E u \in Turns : TurnStep(d, u)
                        \/ ClearHold(d) \/ Look(d) \/ Wake(d) \/ Restart(d)
  \/ Tick \/ SetClockBack

GateSpec == GateInit /\ [][GateNext]_gateVars

-----------------------------------------------------------------------------
(***************************************************************************)
(* Properties.                                                             *)
(***************************************************************************)

\* After a rate limit one turn at a time tests the account: while a probe is owed, at most one
\* running turn was admitted since the incident began (block, recordRateLimit, ticketAccepted).
OneProbe ==
  clockSetBack \/ \A d \in Daemons : gate[d].state.probeRequired =>
    Cardinality({u \in gate[d].tickets :
                   gate[d].admittedAt[u] > gate[d].state.incidentStartedAt}) <= 1

\* However many turns fail, incidents are more than a cooldown apart (the turn that meets the next
\* one was admitted after it), and once there were too many of them in a window, the account
\* pauses until a window has passed since the last (recordRateLimit's incident, until and
\* stoppedUntil).
IncidentsRare ==
  clockSetBack \/ \A d \in Daemons :
    LET s == gate[d].state
    IN /\ \A i, j \in s.incidents : i < j => i + BaseCooldown < j
       /\ Cardinality(s.incidents) >= IncidentStopCount =>
            \A i \in s.incidents : s.stoppedUntil >= i + IncidentWindow

\* No waiter is stranded: its wait ends with a timer at the latest, and once the next turn could
\* start a timer is at most a ramp step away, counted from the start of the ramp if the clock was
\* set back behind it; a quiet period that ends the recovery has no timer of its own (pumpOnce's
\* wakeAt, nextRampAt, schedule).
WakeTimely ==
  \A d \in Daemons : gate[d].waiters # {} =>
    /\ \A u \in gate[d].waiters :
         gate[d].timerAt + gate[d].waited[u] <= gate[d].enqueuedAt[u] + MaxWait
    /\ BlockedUntil([gate[d] EXCEPT !.state = Normalized(@)]) = 0 =>
         gate[d].timerAt <= Max({now, gate[d].state.recoveryStartedAt}) + RampInterval

\* A pause that was announced is never shortened, by no later answer, requeue or restart
\* (Math.max in recordRateLimit and recordChatGptFailure, persist, refreshFromDisk).
PauseKept ==
  [][clockSetBack \/ \A d \in Daemons :
       /\ gate'[d].state.until >= gate[d].state.until
       /\ gate'[d].state.stoppedUntil >= gate[d].state.stoppedUntil]_gateVars

\* No daemon sends into a pause that another daemon saved after the daemon's own record: a turn is
\* admitted only when the pauses are over, as the file says after the admission or as the daemon's
\* own record says, if that was as new (pumpOnce's refreshFromDisk, persist's updatedAt).
NewerPauseRespected ==
  [][\A d \in Daemons : \/ gate'[d].tickets \subseteq gate[d].tickets
                        \/ now >= Max({file'.until, file'.stoppedUntil})
                        \/ LET own == gate[d].state
                           IN own.updatedAt >= file'.updatedAt
                              /\ now >= Max({own.until, own.stoppedUntil})]_gateVars

\* "The hold has no expiry: only a person who secured the account and signed in again clears it"
\* (rate-limit-gate.ts): until then no turn is admitted, by any daemon, restarted or not.
HoldRespected ==
  [][heldByChatGpt /\ heldByChatGpt' =>
       \A d \in Daemons : gate'[d].tickets \subseteq gate[d].tickets]_gateVars
=============================================================================
