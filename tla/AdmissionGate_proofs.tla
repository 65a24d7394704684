------------------------- MODULE AdmissionGate_proofs -------------------------
(***************************************************************************)
(* Proofs about the admission gate.                                        *)
(*                                                                         *)
(* For any number of daemons that share the state file: types, deadlines   *)
(* of the waiters, and pauses that are newer than a daemon's own record    *)
(* (SeenOK: a daemon that has not to read the file again knows a record    *)
(* at least as new; Newest carries that through a handler's calls).        *)
(*                                                                         *)
(* For one daemon, restarts and clock corrections included: GateInv, an    *)
(* inductive invariant of four parts.  DeadlineOK and Soon (with Blocked,  *)
(* what holds the queue up) say when the next timer is; IncidentOK relates *)
(* the incidents to the pauses; TicketsOK relates the turns that run to    *)
(* the incident and to the probe; SameRecord says that the file holds what *)
(* the daemon knows.                                                       *)
(*                                                                         *)
(* A lemma per operator of the model says what the operator keeps; the     *)
(* proofs of the steps put them together in the order of the handler's     *)
(* calls.                                                                  *)
(***************************************************************************)
EXTENDS AdmissionGate, FiniteSetTheorems, WellFoundedInduction, TLAPS

LEMMA MinExists ==
  ASSUME NEW S \in SUBSET Nat, S # {}
  PROVE  \E x \in S : \A y \in S : x <= y
<1>1. \E x \in S : \A y \in S : <<y, x>> \notin OpToRel(<, Nat)
  BY WFMin, NatLessThanWellFounded, Zenon
<1>2. PICK x \in S : \A y \in S : <<y, x>> \notin OpToRel(<, Nat)
  BY <1>1
<1>3. \A y \in S : ~(y < x)
  <2> SUFFICES ASSUME NEW y \in S, y < x PROVE FALSE
    OBVIOUS
  <2>1. <<y, x>> \in Nat \X Nat
    OBVIOUS
  <2>2. <<y, x>>[1] < <<y, x>>[2]
    OBVIOUS
  <2>. QED
    BY <1>2, <2>1, <2>2 DEF OpToRel
<1>. QED
  BY <1>3

\* The least of a set of numbers is one of them, and none is smaller.
LEMMA MinIsLeast ==
  ASSUME NEW S \in SUBSET Nat, S # {}
  PROVE  /\ Min(S) \in S
         /\ \A y \in S : Min(S) <= y
BY MinExists DEF Min

LEMMA LeastOfTwo ==
  ASSUME NEW a \in Nat, NEW b \in Nat
  PROVE  /\ Least(a, b) \in Nat
         /\ Least(a, b) = IF a <= b THEN a ELSE b
<1>1. Least(a, b) \in {a, b} /\ Least(a, b) <= a /\ Least(a, b) <= b
  BY MinIsLeast, {a, b} \in SUBSET Nat DEF Least
<1>. QED
  BY <1>1

LEMMA LeastIsLess ==
  ASSUME NEW a \in Nat, NEW b \in Nat
  PROVE  Least(a, b) <= b
BY MinIsLeast, {a, b} \in SUBSET Nat DEF Least

LEMMA LatestOfTwo ==
  ASSUME NEW a \in Nat, NEW b \in Nat
  PROVE  /\ Max({a, b}) \in Nat
         /\ Max({a, b}) = IF a >= b THEN a ELSE b
<1>1. \E x \in {a, b} : \A y \in {a, b} : x >= y
  BY a >= b \/ b >= a
<1>2. Max({a, b}) \in {a, b} /\ \A y \in {a, b} : Max({a, b}) >= y
  BY <1>1 DEF Max
<1>. QED
  BY <1>2

\* The queue is ordered: somebody is first.
LEMMA FirstIsWaiter ==
  ASSUME NEW g, g.waiters \subseteq Turns, g.seq \in [Turns -> Nat], g.waiters # {}
  PROVE  First(g) \in g.waiters
<1> DEFINE S == {g.seq[u] : u \in g.waiters}
<1>1. S \in SUBSET Nat /\ S # {}
  OBVIOUS
<1>2. PICK x \in S : \A y \in S : x <= y
  BY <1>1, MinExists
<1>3. PICK u \in g.waiters : x = g.seq[u]
  OBVIOUS
<1>4. \A v \in g.waiters : g.seq[u] <= g.seq[v]
  BY <1>2, <1>3
<1>. QED
  BY <1>4 DEF First

Works == [g : Gate, file : State, wrote : BOOLEAN, unread : BOOLEAN]

LEMMA Constants ==
  /\ BaseCooldown \in Nat \ {0} /\ MaxCooldown \in Nat \ {0} /\ QuietPeriod \in Nat \ {0}
  /\ IncidentWindow \in Nat \ {0} /\ RampInterval \in Nat \ {0} /\ RecoverySpacing \in Nat \ {0}
  /\ OpenSpacing \in Nat \ {0} /\ MaxWait \in Nat \ {0}
  /\ IncidentStopCount \in Nat \ {0} /\ MaxConcurrency \in Nat \ {0} /\ MaxTabs \in Nat \ {0}
  /\ BaseCooldown <= MaxCooldown
  /\ OpenSpacing <= RecoverySpacing /\ RecoverySpacing <= RampInterval
  /\ Never \in Nat
  /\ MaxTime \in Nat \ {0} /\ MaxRestarts \in Nat /\ MaxClockSetBack \in Nat
  /\ NoTurn \notin Turns
BY DurationAssumption, LimitAssumption, NeverAssumption, BoundAssumption, NoTurnAssumption

LEMMA NormalizedFields ==
  ASSUME now \in Nat, NEW s \in State
  PROVE  /\ Normalized(s) \in State
         /\ Normalized(s).until = Least(s.until, now + MaxCooldown)
         /\ Normalized(s).stoppedUntil = Least(s.stoppedUntil, now + IncidentWindow)
         /\ Normalized(s).incidents = RecentIncidents(s)
         /\ Normalized(s).tier \in {0, s.tier}
         /\ Normalized(s).incidentStartedAt = s.incidentStartedAt
         /\ Normalized(s).lastLimitAt = s.lastLimitAt
         /\ Normalized(s).probeRequired = s.probeRequired
         /\ Normalized(s).recoveryStartedAt = s.recoveryStartedAt
         /\ Normalized(s).held = s.held
         /\ Normalized(s).updatedAt = s.updatedAt
<1>1. /\ Least(s.until, now + MaxCooldown) \in Nat
      /\ Least(s.stoppedUntil, now + IncidentWindow) \in Nat
  <2>1. /\ s.until \in Nat /\ now + MaxCooldown \in Nat
        /\ s.stoppedUntil \in Nat /\ now + IncidentWindow \in Nat
    BY Constants DEF State
  <2>. QED
    BY <2>1, LeastOfTwo
<1>2. RecentIncidents(s) \in SUBSET Nat
  BY DEF State, RecentIncidents
<1>. QED
  BY <1>1, <1>2 DEF Normalized, State

LEMMA WithState ==
  ASSUME NEW w \in Works, NEW s \in State
  PROVE  LET v == [w EXCEPT !.unread = FALSE, !.g.state = s]
         IN /\ v \in Works /\ [w.g EXCEPT !.state = s] \in Gate
            /\ v.g = [w.g EXCEPT !.state = s] /\ v.g.state = s
            /\ v.file = w.file /\ v.wrote = w.wrote /\ v.unread = FALSE
<1>1. [w EXCEPT !.unread = FALSE, !.g.state = s] \in Works
  BY DEF Works, Gate
<1>2. [w.g EXCEPT !.state = s] \in Gate /\ [w.g EXCEPT !.state = s].state = s
  BY DEF Works, Gate
<1>3. [w EXCEPT !.unread = FALSE, !.g.state = s].g = [w.g EXCEPT !.state = s]
  BY DEF Works
<1>4. [w EXCEPT !.unread = FALSE, !.g.state = s].file = w.file
  BY DEF Works
<1>5. /\ [w EXCEPT !.unread = FALSE, !.g.state = s].wrote = w.wrote
      /\ [w EXCEPT !.unread = FALSE, !.g.state = s].unread = FALSE
  BY DEF Works
<1>. QED
  BY <1>1, <1>2, <1>3, <1>4, <1>5

LEMMA OnlyState ==
  ASSUME NEW w \in Works, NEW s \in State
  PROVE  LET v == [w EXCEPT !.g.state = s]
         IN /\ v \in Works /\ [w.g EXCEPT !.state = s] \in Gate
            /\ v.g = [w.g EXCEPT !.state = s] /\ v.g.state = s
            /\ v.file = w.file /\ v.wrote = w.wrote /\ v.unread = w.unread
<1>1. [w EXCEPT !.g.state = s] \in Works
  BY DEF Works, Gate
<1>2. [w.g EXCEPT !.state = s] \in Gate /\ [w.g EXCEPT !.state = s].state = s
  BY DEF Works, Gate
<1>3. [w EXCEPT !.g.state = s].g = [w.g EXCEPT !.state = s]
  BY DEF Works
<1>4. [w EXCEPT !.g.state = s].file = w.file
  BY DEF Works
<1>5. /\ [w EXCEPT !.g.state = s].wrote = w.wrote
      /\ [w EXCEPT !.g.state = s].unread = w.unread
  BY DEF Works
<1>. QED
  BY <1>1, <1>2, <1>3, <1>4, <1>5

\* What a gate knows after it looked at the file.
Known(w) ==
  IF w.unread /\ w.file.updatedAt > w.g.state.updatedAt THEN Normalized(w.file) ELSE w.g.state

LEMMA RefreshedFields ==
  ASSUME now \in Nat, NEW w \in Works
  PROVE  /\ Known(w) \in State
         /\ Refreshed(w) \in Works
         /\ Refreshed(w).g = [w.g EXCEPT !.state = Known(w)]
         /\ Refreshed(w).g.state = Known(w)
         /\ Refreshed(w).file = w.file
         /\ Refreshed(w).wrote = w.wrote
         /\ Refreshed(w).unread = FALSE
<1>1. w.g.state \in State /\ w.file \in State
  BY DEF Works, Gate
<1>2. Known(w) \in State
  BY <1>1, NormalizedFields DEF Known
<1>. DEFINE s == Known(w)
            v == [w EXCEPT !.unread = FALSE, !.g.state = s]
<1>3. Refreshed(w) = v
  BY DEF Refreshed, Known
<1>. HIDE DEF s
<1>4. /\ v \in Works /\ v.g = [w.g EXCEPT !.state = s] /\ v.g.state = s
      /\ v.file = w.file /\ v.wrote = w.wrote /\ v.unread = FALSE
  BY <1>2, WithState DEF s
<1>. HIDE DEF v
<1>. QED
  BY <1>2, <1>3, <1>4 DEF s

LEMMA CurrentFields ==
  ASSUME now \in Nat, NEW w \in Works
  PROVE  /\ Current(w) \in Works
         /\ Current(w).g = [w.g EXCEPT !.state = Normalized(Known(w))]
         /\ Current(w).g.state = Normalized(Known(w))
         /\ Current(w).file = w.file
         /\ Current(w).wrote = w.wrote
         /\ Current(w).unread = FALSE
<1>. DEFINE r == Refreshed(w)
            s == Normalized(Known(w))
<1>1. /\ Known(w) \in State /\ r \in Works /\ r.g.state = Known(w)
      /\ r.g = [w.g EXCEPT !.state = Known(w)]
      /\ r.file = w.file
  BY RefreshedFields
<1>2. r.wrote = w.wrote /\ r.unread = FALSE
  BY RefreshedFields
<1>3. s \in State
  BY <1>1, NormalizedFields
<1>. DEFINE v == [r EXCEPT !.g.state = s]
<1>4. Current(w) = v
  BY <1>1 DEF Current
<1>. HIDE DEF r, s
<1>5. /\ v \in Works /\ v.g = [r.g EXCEPT !.state = s]
      /\ v.file = r.file /\ v.wrote = r.wrote /\ v.unread = r.unread
  BY <1>1, <1>3, OnlyState
<1>. HIDE DEF v
<1>8. w.g \in Gate
  BY DEF Works
<1>9. [r.g EXCEPT !.state = s] = [w.g EXCEPT !.state = s]
  BY <1>1, <1>8 DEF Gate
<1>10. [w.g EXCEPT !.state = s].state = s
  BY <1>8 DEF Gate
<1>. QED
  BY <1>1, <1>2, <1>4, <1>5, <1>9, <1>10 DEF s

\* The record as it is saved.
Stamped(s) == [s EXCEPT !.updatedAt = Max({now, @ + 1})]

LEMMA StampedFields ==
  ASSUME now \in Nat, NEW s \in State
  PROVE  /\ Stamped(s) \in State
         /\ Stamped(s).updatedAt > s.updatedAt
         /\ Stamped(s) = [s EXCEPT !.updatedAt = Stamped(s).updatedAt]
<1>1. s.updatedAt + 1 \in Nat
  BY DEF State
<1>2. Max({now, s.updatedAt + 1}) \in Nat /\ Max({now, s.updatedAt + 1}) > s.updatedAt
  BY <1>1, LatestOfTwo DEF State
<1>. QED
  BY <1>2 DEF Stamped, State

LEMMA PersistedFields ==
  ASSUME now \in Nat, NEW w \in Works
  PROVE  LET s == Stamped(w.g.state)
         IN /\ Persisted(w) \in Works
            /\ Persisted(w).g = [w.g EXCEPT !.state = s]
            /\ Persisted(w).g.state = s
            /\ Persisted(w).file = s
            /\ Persisted(w).wrote = TRUE
            /\ Persisted(w).unread = FALSE
<1>. DEFINE s == Stamped(w.g.state)
<1>1. w.g \in Gate /\ w.g.state \in State
  BY DEF Works, Gate
<1>2. s \in State
  BY <1>1, StampedFields
<1>3. Persisted(w) = [w EXCEPT !.g.state = s, !.file = s, !.wrote = TRUE, !.unread = FALSE]
  BY DEF Persisted, Stamped
<1>. HIDE DEF s
<1>4. [w.g EXCEPT !.state = s] \in Gate
  BY <1>1, <1>2 DEF Gate
<1>5. Persisted(w).g = [w.g EXCEPT !.state = s] /\ Persisted(w).file = s
  BY <1>3 DEF Works
<1>6. Persisted(w).wrote = TRUE /\ Persisted(w).unread = FALSE
  BY <1>3 DEF Works
<1>7. [w.g EXCEPT !.state = s].state = s
  BY <1>1 DEF Gate
<1>8. Persisted(w) \in Works
  <2>. DEFINE h == [w.g EXCEPT !.state = s]
  <2>1. Persisted(w) = [w EXCEPT !.g = h, !.file = s, !.wrote = TRUE, !.unread = FALSE]
    BY <1>3
  <2>. HIDE DEF h
  <2>. QED
    BY <2>1, <1>2, <1>4 DEF Works, h
<1>. QED
  BY <1>5, <1>6, <1>7, <1>8 DEF s

\* A gate whose turns are each in one place.
Whole(g) == g \in Gate /\ Consistent(g) /\ IsFiniteSet(g.tickets)

LEMMA GoneFields ==
  ASSUME NEW g, Whole(g), NEW turns \in SUBSET Turns
  PROVE  LET h == Gone(g, turns)
         IN /\ h \in Gate
            /\ h.state = g.state
            /\ h.waiters = g.waiters \ turns /\ h.tickets = g.tickets \ turns
            /\ h.waitingForTools = g.waitingForTools \ turns
            /\ h.accepted = g.accepted \ turns /\ h.probes = g.probes \ turns
            /\ h.over = g.over \cup turns
            /\ h.probeTicket = g.probeTicket /\ h.lastAdmissionAt = g.lastAdmissionAt
            /\ h.timerAt = g.timerAt
            /\ \A u \in Turns \ turns :
                 /\ h.enqueuedAt[u] = g.enqueuedAt[u] /\ h.waited[u] = g.waited[u]
                 /\ h.admittedAt[u] = g.admittedAt[u]
<1>1. g \in Gate
  BY DEF Whole
<1>2. \A f \in [Turns -> Nat] :
        [u \in Turns |-> IF u \in turns THEN 0 ELSE f[u]] \in [Turns -> Nat]
  OBVIOUS
<1>3. Gone(g, turns) \in Gate
  BY <1>1, <1>2 DEF Gone, Gate
<1>4. /\ Gone(g, turns).state = g.state
      /\ Gone(g, turns).waiters = g.waiters \ turns /\ Gone(g, turns).tickets = g.tickets \ turns
      /\ Gone(g, turns).waitingForTools = g.waitingForTools \ turns
      /\ Gone(g, turns).accepted = g.accepted \ turns /\ Gone(g, turns).probes = g.probes \ turns
      /\ Gone(g, turns).over = g.over \cup turns
      /\ Gone(g, turns).probeTicket = g.probeTicket
      /\ Gone(g, turns).lastAdmissionAt = g.lastAdmissionAt
      /\ Gone(g, turns).timerAt = g.timerAt
  BY <1>1 DEF Gone, Gate
<1>5. ASSUME NEW u \in Turns \ turns
      PROVE  /\ Gone(g, turns).enqueuedAt[u] = g.enqueuedAt[u]
             /\ Gone(g, turns).waited[u] = g.waited[u]
             /\ Gone(g, turns).admittedAt[u] = g.admittedAt[u]
  BY <1>1 DEF Gone, Gate
<1>. QED
  BY <1>3, <1>4, <1>5

LEMMA GoneWhole ==
  ASSUME NEW g, Whole(g), NEW turns \in SUBSET Turns, g.probeTicket \notin turns
  PROVE  Whole(Gone(g, turns))
<1>. DEFINE h == Gone(g, turns)
<1>1. Consistent(g) /\ IsFiniteSet(g.tickets)
  BY DEF Whole
<1>2. /\ h \in Gate
      /\ h.waiters = g.waiters \ turns /\ h.tickets = g.tickets \ turns
      /\ h.waitingForTools = g.waitingForTools \ turns
      /\ h.accepted = g.accepted \ turns /\ h.probes = g.probes \ turns
      /\ h.over = g.over \cup turns /\ h.probeTicket = g.probeTicket
  BY GoneFields
<1>. HIDE DEF h
<1>3. IsFiniteSet(h.tickets)
  BY <1>1, <1>2, FS_Subset
<1>4. Consistent(h)
  BY <1>1, <1>2 DEF Consistent
<1>. QED
  BY <1>2, <1>3, <1>4 DEF Whole, h

LEMMA RampTypes ==
  ASSUME now \in Nat, NEW s \in State
  PROVE  /\ RampSteps(s) \in Nat
         /\ Limit(s) \in Nat
         /\ NextRampAt(s) \in Nat
         /\ s.recoveryStartedAt \in Nat
         /\ NextRampAt(s) > 0 \/ NextRampAt(s) = Never
<1>1. s.recoveryStartedAt \in Nat /\ s.recoveredSlots \in Nat /\ RampInterval \in Nat \ {0}
  BY Constants DEF State
<1>2. RampSteps(s) \in Nat
  BY <1>1 DEF RampSteps
<1>3. Limit(s) \in Nat
  <2>1. 1 + s.recoveredSlots + RampSteps(s) \in Nat /\ MaxConcurrency \in Nat
    BY <1>1, <1>2, Constants
  <2>2. Least(MaxConcurrency, 1 + s.recoveredSlots + RampSteps(s)) \in Nat
    BY <2>1, LeastOfTwo
  <2>. QED
    BY <2>1, <2>2 DEF Limit
<1>4. (RampSteps(s) + 1) * RampInterval \in Nat /\ (RampSteps(s) + 1) * RampInterval > 0
  <2>1. RampSteps(s) + 1 \in Nat /\ RampSteps(s) + 1 > 0
    BY <1>2
  <2>2. \A a, b \in Nat : a > 0 /\ b > 0 => a * b \in Nat /\ a * b > 0
    OBVIOUS
  <2>. QED
    BY <1>1, <2>1, <2>2
<1>5. /\ NextRampAt(s) \in Nat
      /\ NextRampAt(s) > 0 \/ NextRampAt(s) = Never
  BY <1>1, <1>4, Constants DEF NextRampAt
<1>. QED
  BY <1>1, <1>2, <1>3, <1>5

LEMMA NeverIsFar == Never > MaxTime + MaxCooldown + MaxWait + IncidentWindow + RampInterval
BY NeverAssumption

LEMMA BlockedType ==
  ASSUME now \in Nat, NEW g \in Gate
  PROVE  BlockedUntil(g) \in Nat
<1>1. g.state \in State /\ g.lastAdmissionAt \in Nat
  BY DEF Gate
<1>2. g.state.until \in Nat
  BY <1>1 DEF State
<1>3. NextRampAt(g.state) \in Nat
  BY <1>1, RampTypes
<1>4. Spacing(g.state) \in Nat
  BY Constants DEF Spacing
<1>. QED
  BY <1>1, <1>2, <1>3, <1>4, Constants DEF BlockedUntil

LEMMA WaitedType ==
  ASSUME now \in Nat, NEW g \in Gate, NEW u \in Turns
  PROVE  Waited(g, u) \in Nat
<1>1. g.waited[u] \in Nat /\ g.enqueuedAt[u] \in Nat
  BY DEF Gate
<1>. QED
  BY <1>1 DEF Waited

LEMMA AdmittedFields ==
  ASSUME now \in Nat, NEW g, Whole(g), NEW u \in g.waiters
  PROVE  LET h == Admitted(g, u)
         IN /\ Whole(h) /\ u \in Turns /\ u \notin g.tickets
            /\ h.state = g.state
            /\ h.waiters = g.waiters \ {u} /\ h.tickets = g.tickets \cup {u}
            /\ h.waitingForTools = g.waitingForTools
            /\ h.over = g.over
            /\ h.probeTicket = IF g.state.probeRequired THEN u ELSE g.probeTicket
            /\ h.lastAdmissionAt = now
            /\ h.admittedAt[u] = now
            /\ \A v \in Turns \ {u} : /\ h.admittedAt[v] = g.admittedAt[v]
                                      /\ h.waited[v] = g.waited[v]
                                      /\ h.enqueuedAt[v] = g.enqueuedAt[v]
<1>. DEFINE h == Admitted(g, u)
<1>1. g \in Gate /\ Consistent(g) /\ IsFiniteSet(g.tickets)
  BY DEF Whole
<1>2. u \in Turns
  BY <1>1 DEF Gate
<1>3. u \notin g.tickets
  BY <1>1 DEF Consistent
<1>4. Waited(g, u) \in Nat
  BY <1>1, <1>2, WaitedType
<1>5. h \in Gate
  <2>. DEFINE W == [g.waited EXCEPT ![u] = Waited(g, u)]
              E == [g.enqueuedAt EXCEPT ![u] = 0]
              A == [g.admittedAt EXCEPT ![u] = now]
              P == IF g.state.probeRequired THEN g.probes \cup {u} ELSE g.probes
              Q == IF g.state.probeRequired THEN u ELSE g.probeTicket
  <2>1. W \in [Turns -> Nat] /\ E \in [Turns -> Nat] /\ A \in [Turns -> Nat]
    BY <1>1, <1>2, <1>4 DEF Gate
  <2>2. P \in SUBSET Turns /\ Q \in Turns \cup {NoTurn}
    BY <1>1, <1>2 DEF Gate
  <2>3. h = [g EXCEPT !.waiters = @ \ {u}, !.tickets = @ \cup {u}, !.waited = W,
                      !.enqueuedAt = E, !.admittedAt = A, !.probes = P, !.probeTicket = Q,
                      !.lastAdmissionAt = now]
    BY DEF Admitted
  <2>. HIDE DEF W, E, A, P, Q, h
  <2>. QED
    BY <1>1, <1>2, <2>1, <2>2, <2>3 DEF Gate
<1>6. /\ h.state = g.state
      /\ h.waiters = g.waiters \ {u} /\ h.tickets = g.tickets \cup {u}
      /\ h.waitingForTools = g.waitingForTools
      /\ h.accepted = g.accepted
      /\ h.probes = IF g.state.probeRequired THEN g.probes \cup {u} ELSE g.probes
      /\ h.over = g.over
      /\ h.probeTicket = IF g.state.probeRequired THEN u ELSE g.probeTicket
      /\ h.lastAdmissionAt = now
  BY <1>1 DEF Admitted, Gate
<1>7. /\ h.admittedAt[u] = now
      /\ \A v \in Turns \ {u} : /\ h.admittedAt[v] = g.admittedAt[v]
                                /\ h.waited[v] = g.waited[v]
                                /\ h.enqueuedAt[v] = g.enqueuedAt[v]
  BY <1>1, <1>2 DEF Admitted, Gate
<1>. HIDE DEF h
<1>8. IsFiniteSet(h.tickets)
  BY <1>1, <1>6, FS_AddElement
<1>9. Consistent(h)
  BY <1>1, <1>6, <1>3 DEF Consistent
<1>. QED
  BY <1>2, <1>3, <1>5, <1>6, <1>7, <1>8, <1>9 DEF Whole, h

DeadlineOK(g) == \A u \in g.waiters : g.timerAt + g.waited[u] <= g.enqueuedAt[u] + MaxWait

\* The gate of the pump, without those who waited too long.
Patient(g) == Gone(g, {u \in g.waiters : Waited(g, u) >= MaxWait})

LEMMA PatientFields ==
  ASSUME now \in Nat, NEW g, Whole(g)
  PROVE  LET h == Patient(g)
         IN /\ Whole(h)
            /\ h.state = g.state
            /\ h.waiters \subseteq g.waiters /\ h.tickets = g.tickets
            /\ h.waitingForTools = g.waitingForTools
            /\ h.over \subseteq g.over \cup g.waiters
            /\ h.probeTicket = g.probeTicket /\ h.lastAdmissionAt = g.lastAdmissionAt
            /\ \A u \in h.waiters : Waited(h, u) < MaxWait
            /\ \A u \in g.tickets : h.admittedAt[u] = g.admittedAt[u]
<1>. DEFINE turns == {u \in g.waiters : Waited(g, u) >= MaxWait}
            h == Gone(g, turns)
<1>1. g \in Gate /\ Consistent(g)
  BY DEF Whole
<1>2. g.waiters \subseteq Turns /\ g.tickets \subseteq Turns
  BY <1>1 DEF Gate
<1>3. turns \subseteq g.waiters
  OBVIOUS
<1>4. \A u \in g.waiters \ turns : Waited(g, u) \in Nat /\ Waited(g, u) < MaxWait
  BY <1>1, <1>2, WaitedType, Constants
<1>. HIDE DEF turns
<1>5. turns \in SUBSET Turns
  BY <1>2, <1>3
<1>6. g.waiters \cap g.tickets = {} /\ g.probeTicket \in g.tickets \cup {NoTurn}
  BY <1>1 DEF Consistent
<1>7. g.probeTicket \notin turns
  BY <1>2, <1>3, <1>6, NoTurnAssumption
<1>8. Whole(h)
  BY <1>5, <1>7, GoneWhole
<1>9. /\ h.state = g.state
      /\ h.waiters = g.waiters \ turns /\ h.tickets = g.tickets \ turns
      /\ h.waitingForTools = g.waitingForTools \ turns
      /\ h.over = g.over \cup turns
      /\ h.probeTicket = g.probeTicket /\ h.lastAdmissionAt = g.lastAdmissionAt
  BY <1>5, GoneFields
<1>10. \A u \in Turns \ turns :
         /\ h.enqueuedAt[u] = g.enqueuedAt[u] /\ h.waited[u] = g.waited[u]
         /\ h.admittedAt[u] = g.admittedAt[u]
  BY <1>5, GoneFields
<1>11. g.waitingForTools \subseteq g.tickets
  BY <1>1 DEF Consistent
<1>. HIDE DEF h
<1>12. \A u \in h.waiters : Waited(h, u) = Waited(g, u)
  BY <1>2, <1>9, <1>10 DEF Waited
<1>13. h.tickets = g.tickets /\ h.waitingForTools = g.waitingForTools
  BY <1>3, <1>6, <1>9, <1>11
<1>14. \A u \in g.tickets : h.admittedAt[u] = g.admittedAt[u]
  BY <1>2, <1>3, <1>6, <1>10
<1>15. Patient(g) = h
  BY DEF Patient, h, turns
<1>. QED
  BY <1>3, <1>4, <1>8, <1>9, <1>12, <1>13, <1>14, <1>15

\* No turn was admitted from g to h.
NoneAdmitted(g, h) ==
  /\ h.tickets = g.tickets /\ h.waitingForTools = g.waitingForTools
  /\ h.probeTicket = g.probeTicket /\ h.lastAdmissionAt = g.lastAdmissionAt
  /\ \A v \in g.tickets : h.admittedAt[v] = g.admittedAt[v]

\* Turn u was admitted, under the state of h.
OneAdmitted(g, h, u) ==
  /\ u \in g.waiters /\ u \notin g.tickets
  /\ ~Stopped(h.state) /\ now >= h.state.until
  /\ h.state.probeRequired => g.probeTicket = NoTurn
  /\ h.tickets = g.tickets \cup {u} /\ h.waitingForTools = g.waitingForTools
  /\ h.probeTicket = IF h.state.probeRequired THEN u ELSE g.probeTicket
  /\ h.lastAdmissionAt = now /\ h.admittedAt[u] = now
  /\ \A v \in g.tickets : h.admittedAt[v] = g.admittedAt[v]

\* The timer is set for the next turn and for the first deadline.
Timed(g) ==
  [g EXCEPT !.timerAt = IF g.waiters = {} THEN Never
                        ELSE Min({BlockedUntil(g)} \cup {Deadline(g, u) : u \in g.waiters})]

LEMMA TimedFields ==
  ASSUME now \in Nat, NEW g, Whole(g), \A u \in g.waiters : Waited(g, u) < MaxWait
  PROVE  LET h == Timed(g)
         IN /\ Whole(h) /\ DeadlineOK(h)
            /\ h = [g EXCEPT !.timerAt = h.timerAt]
            /\ g.waiters # {} => h.timerAt <= BlockedUntil(g)
            /\ h.timerAt \in Nat
<1>. DEFINE S == {BlockedUntil(g)} \cup {Deadline(g, u) : u \in g.waiters}
            t == IF g.waiters = {} THEN Never ELSE Min(S)
<1>1. g \in Gate /\ Consistent(g) /\ IsFiniteSet(g.tickets)
  BY DEF Whole
<1>2. \A u \in g.waiters : u \in Turns /\ Waited(g, u) \in Nat
  BY <1>1, WaitedType DEF Gate
<1>3. \A u \in g.waiters : Deadline(g, u) \in Nat
  BY <1>2, Constants DEF Deadline
<1>4. S \in SUBSET Nat /\ S # {}
  BY <1>1, <1>3, BlockedType
<1>5. Min(S) \in Nat /\ \A x \in S : Min(S) <= x
  BY <1>4, MinIsLeast
<1>6. t \in Nat
  BY <1>5, Constants
<1>7. g.waiters # {} => t <= BlockedUntil(g)
  BY <1>5
<1>8. \A u \in g.waiters : t <= Deadline(g, u)
  BY <1>5
<1>9. Timed(g) = [g EXCEPT !.timerAt = t]
  BY DEF Timed
<1>. HIDE DEF S, t
<1>10. Timed(g) \in Gate /\ Timed(g).timerAt = t
  BY <1>1, <1>6, <1>9 DEF Gate
<1>11. /\ Timed(g).waiters = g.waiters /\ Timed(g).tickets = g.tickets
       /\ Timed(g).over = g.over /\ Timed(g).waitingForTools = g.waitingForTools
       /\ Timed(g).accepted = g.accepted /\ Timed(g).probes = g.probes
       /\ Timed(g).probeTicket = g.probeTicket
       /\ Timed(g).waited = g.waited /\ Timed(g).enqueuedAt = g.enqueuedAt
  BY <1>1, <1>9 DEF Gate
<1>12. Consistent(Timed(g))
  BY <1>1, <1>11 DEF Consistent
<1>13. ASSUME NEW u \in g.waiters
       PROVE  t + g.waited[u] <= g.enqueuedAt[u] + MaxWait
  <2>1. g.waited[u] \in Nat /\ g.enqueuedAt[u] \in Nat /\ MaxWait \in Nat
    BY <1>1, <1>2, Constants DEF Gate
  <2>2. Deadline(g, u) + g.waited[u] <= g.enqueuedAt[u] + MaxWait
    BY <2>1 DEF Deadline, Waited
  <2>3. t <= Deadline(g, u) /\ Deadline(g, u) \in Nat
    BY <1>3, <1>8
  <2>. QED
    BY <1>6, <2>1, <2>2, <2>3
<1>14. DeadlineOK(Timed(g))
  BY <1>10, <1>11, <1>13 DEF DeadlineOK
<1>. QED
  BY <1>1, <1>6, <1>7, <1>9, <1>10, <1>11, <1>12, <1>14 DEF Whole

\* After an admission the next one waits.
LEMMA SpacingBlocks ==
  ASSUME now \in Nat \ {0}, NEW g, g.state \in State, g.lastAdmissionAt = now
  PROVE  BlockedUntil(g) # 0
<1>1. g.state.until \in Nat
  BY DEF State
<1>2. NextRampAt(g.state) \in Nat /\ (NextRampAt(g.state) > 0 \/ NextRampAt(g.state) = Never)
  BY RampTypes
<1>3. Never \in Nat /\ Never # 0
  BY Constants, NeverIsFar
<1>4. Spacing(g.state) \in Nat \ {0}
  BY Constants DEF Spacing
<1>. QED
  BY <1>1, <1>2, <1>3, <1>4 DEF BlockedUntil

LEMMA PumpedFields ==
  ASSUME now \in Nat \ {0}, NEW w \in Works, Whole(w.g)
  PROVE  LET p == Pumped(w)
             s == Normalized(Known(w))
         IN /\ p \in Works /\ Whole(p.g)
            /\ p.file = w.file /\ p.wrote = w.wrote /\ p.unread = FALSE
            /\ p.g.state = s
            /\ p.g.waiters \subseteq w.g.waiters /\ w.g.tickets \subseteq p.g.tickets
            /\ p.g.over \subseteq w.g.over \cup w.g.waiters
            /\ Stopped(s) => p.g.waiters = {}
            /\ DeadlineOK(p.g)
            /\ NoneAdmitted(w.g, p.g) \/ \E u \in w.g.waiters : OneAdmitted(w.g, p.g, u)
            /\ p.g.waiters # {} => p.g.timerAt <= BlockedUntil(p.g) /\ BlockedUntil(p.g) # 0
<1>. DEFINE s == Normalized(Known(w))
            c == Current(w)
            e == Gone(c.g, c.g.waiters)
            g == Patient(c.g)
            h == IF g.waiters # {} /\ BlockedUntil(g) = 0 THEN Admitted(g, First(g)) ELSE g
            p == Pumped(w)
<1>1. /\ c \in Works /\ c.g = [w.g EXCEPT !.state = s] /\ c.g.state = s
      /\ c.file = w.file /\ c.wrote = w.wrote /\ c.unread = FALSE
  BY CurrentFields
<1>2. c.g \in Gate /\ w.g \in Gate /\ s \in State
  BY <1>1 DEF Works, Gate
<1>3. /\ c.g.waiters = w.g.waiters /\ c.g.tickets = w.g.tickets
      /\ c.g.waitingForTools = w.g.waitingForTools /\ c.g.accepted = w.g.accepted
      /\ c.g.probes = w.g.probes /\ c.g.over = w.g.over
      /\ c.g.probeTicket = w.g.probeTicket /\ c.g.lastAdmissionAt = w.g.lastAdmissionAt
      /\ c.g.admittedAt = w.g.admittedAt
  BY <1>1, <1>2 DEF Gate
<1>4. Whole(c.g)
  BY <1>2, <1>3 DEF Whole, Consistent
<1>5. /\ c.g.waiters \in SUBSET Turns /\ w.g.waiters \subseteq Turns /\ w.g.tickets \subseteq Turns
      /\ w.g.waiters \cap w.g.tickets = {}
  BY <1>2, <1>3 DEF Gate, Whole, Consistent
<1>6. p = IF Stopped(s) THEN [c EXCEPT !.g = [e EXCEPT !.timerAt = Never]]
          ELSE [c EXCEPT !.g = Timed(h)]
  <2>1. g = Gone(c.g, {u \in c.g.waiters : Waited(c.g, u) >= MaxWait})
    BY DEF Patient
  <2>. HIDE DEF g, c
  <2>2. Pumped(w) = IF Stopped(c.g.state) THEN [c EXCEPT !.g = [e EXCEPT !.timerAt = Never]]
                    ELSE [c EXCEPT !.g = Timed(h)]
    BY <2>1 DEF Pumped, Timed, c
  <2>. QED
    BY <1>1, <2>2 DEF c
<1>. HIDE DEF c, s, p
<1>7. CASE Stopped(s)
  <2>1. c.g.probeTicket \notin c.g.waiters
    BY <1>4, <1>5, NoTurnAssumption DEF Whole, Consistent
  <2>2. /\ Whole(e) /\ e \in Gate /\ e.state = c.g.state
        /\ e.waiters = c.g.waiters \ c.g.waiters /\ e.tickets = c.g.tickets \ c.g.waiters
        /\ e.waitingForTools = c.g.waitingForTools \ c.g.waiters
        /\ e.over = c.g.over \cup c.g.waiters
        /\ e.probeTicket = c.g.probeTicket /\ e.lastAdmissionAt = c.g.lastAdmissionAt
        /\ \A u \in Turns \ c.g.waiters : e.admittedAt[u] = c.g.admittedAt[u]
    BY <1>4, <1>5, <2>1, GoneFields, GoneWhole
  <2>. DEFINE k == [e EXCEPT !.timerAt = Never]
  <2>. HIDE DEF e
  <2>3. /\ k \in Gate /\ k.state = e.state /\ k.waiters = e.waiters /\ k.tickets = e.tickets
        /\ k.waitingForTools = e.waitingForTools /\ k.accepted = e.accepted
        /\ k.probes = e.probes /\ k.over = e.over
        /\ k.probeTicket = e.probeTicket /\ k.lastAdmissionAt = e.lastAdmissionAt
        /\ k.admittedAt = e.admittedAt
    BY <2>2, Constants DEF Gate
  <2>4. Whole(k)
    BY <2>2, <2>3 DEF Whole, Consistent
  <2>5. k.waiters = {} /\ k.tickets = w.g.tickets
    BY <1>3, <1>5, <2>2, <2>3
  <2>6. w.g.waitingForTools \subseteq w.g.tickets
    BY DEF Whole, Consistent
  <2>7. NoneAdmitted(w.g, k)
    BY <1>3, <1>5, <2>2, <2>3, <2>5, <2>6 DEF NoneAdmitted
  <2>8. DeadlineOK(k)
    BY <2>5 DEF DeadlineOK
  <2>. HIDE DEF k
  <2>12. k.over \subseteq w.g.over \cup w.g.waiters
    BY <1>3, <2>2, <2>3
  <2>9. p \in Works /\ p.g = k /\ p.file = c.file
    BY <1>1, <1>6, <1>7, <2>3 DEF Works, k
  <2>10. p.wrote = c.wrote /\ p.unread = c.unread
    BY <1>1, <1>6, <1>7 DEF Works
  <2>11. p.g.state = s
    BY <1>1, <2>2, <2>3, <2>9
  <2>. QED
    BY <1>1, <2>4, <2>5, <2>7, <2>8, <2>9, <2>10, <2>11, <2>12 DEF p, s
<1>8. CASE ~Stopped(s)
  <2>1. /\ Whole(g) /\ g.state = s
        /\ g.waiters \subseteq w.g.waiters /\ g.tickets = w.g.tickets
        /\ g.over \subseteq w.g.over \cup w.g.waiters
        /\ g.waitingForTools = w.g.waitingForTools
        /\ g.probeTicket = w.g.probeTicket /\ g.lastAdmissionAt = w.g.lastAdmissionAt
        /\ \A u \in g.waiters : Waited(g, u) < MaxWait
        /\ \A u \in w.g.tickets : g.admittedAt[u] = w.g.admittedAt[u]
    <3>1. /\ Whole(g) /\ g.state = c.g.state
          /\ g.waiters \subseteq c.g.waiters /\ g.tickets = c.g.tickets
          /\ g.over \subseteq c.g.over \cup c.g.waiters
          /\ g.waitingForTools = c.g.waitingForTools
          /\ g.probeTicket = c.g.probeTicket /\ g.lastAdmissionAt = c.g.lastAdmissionAt
          /\ \A u \in g.waiters : Waited(g, u) < MaxWait
          /\ \A u \in c.g.tickets : g.admittedAt[u] = c.g.admittedAt[u]
      BY <1>4, PatientFields
    <3>. HIDE DEF g
    <3>. QED
      BY <1>1, <1>3, <3>1
  <2>. HIDE DEF g
  <2>2. /\ Whole(h) /\ h.state = s
        /\ h.waiters \subseteq w.g.waiters
        /\ h.over \subseteq w.g.over \cup w.g.waiters
        /\ \A u \in h.waiters : Waited(h, u) < MaxWait
        /\ NoneAdmitted(w.g, h) \/ \E u \in w.g.waiters : OneAdmitted(w.g, h, u)
        /\ h.waiters # {} => BlockedUntil(h) # 0
    <3>1. CASE ~(g.waiters # {} /\ BlockedUntil(g) = 0)
      BY <2>1, <3>1 DEF NoneAdmitted
    <3>2. CASE g.waiters # {} /\ BlockedUntil(g) = 0
      <4>. DEFINE u == First(g)
      <4>1. g \in Gate
        BY <2>1 DEF Whole
      <4>2. u \in g.waiters
        BY <3>2, <4>1, FirstIsWaiter DEF Gate
      <4>. HIDE DEF u
      <4>3. h = Admitted(g, u)
        BY <3>2 DEF u
      <4>. HIDE DEF h
      <4>4. /\ Whole(h) /\ u \in Turns /\ u \notin g.tickets
            /\ h.state = g.state
            /\ h.waiters = g.waiters \ {u} /\ h.tickets = g.tickets \cup {u}
            /\ h.waitingForTools = g.waitingForTools /\ h.over = g.over
            /\ h.probeTicket = IF g.state.probeRequired THEN u ELSE g.probeTicket
            /\ h.lastAdmissionAt = now
            /\ h.admittedAt[u] = now
            /\ \A v \in Turns \ {u} : /\ h.admittedAt[v] = g.admittedAt[v]
                                      /\ h.waited[v] = g.waited[v]
                                      /\ h.enqueuedAt[v] = g.enqueuedAt[v]
        BY <2>1, <4>2, <4>3, AdmittedFields
      <4>5. \A v \in h.waiters : Waited(h, v) = Waited(g, v)
        BY <1>5, <2>1, <4>4 DEF Waited
      <4>6. /\ s.until \in Nat /\ ~(now < s.until)
            /\ s.probeRequired => g.probeTicket = NoTurn
        <5>1. s.until \in Nat /\ Never \in Nat /\ Never # 0
          BY <1>2, Constants, NeverIsFar DEF State
        <5>. QED
          BY <2>1, <3>2, <5>1 DEF BlockedUntil
      <4>7. OneAdmitted(w.g, h, u)
        BY <1>5, <1>8, <2>1, <4>2, <4>4, <4>6 DEF OneAdmitted
      <4>8. BlockedUntil(h) # 0
        BY <1>2, <2>1, <4>4, SpacingBlocks
      <4>. QED
        BY <2>1, <4>2, <4>4, <4>5, <4>7, <4>8
    <3>. QED
      BY <3>1, <3>2
  <2>. HIDE DEF h
  <2>. DEFINE k == Timed(h)
  <2>3. /\ Whole(k) /\ DeadlineOK(k)
        /\ k = [h EXCEPT !.timerAt = k.timerAt]
        /\ h.waiters # {} => k.timerAt <= BlockedUntil(h)
    BY <2>2, TimedFields
  <2>. HIDE DEF k
  <2>4. h \in Gate
    BY <2>2 DEF Whole
  <2>5. /\ k.state = h.state /\ k.waiters = h.waiters /\ k.tickets = h.tickets
        /\ k.waitingForTools = h.waitingForTools /\ k.over = h.over
        /\ k.probeTicket = h.probeTicket /\ k.lastAdmissionAt = h.lastAdmissionAt
        /\ k.admittedAt = h.admittedAt
    BY <2>3, <2>4 DEF Gate
  <2>6. BlockedUntil(k) = BlockedUntil(h)
    BY <2>5 DEF BlockedUntil
  <2>7. NoneAdmitted(w.g, k) \/ \E u \in w.g.waiters : OneAdmitted(w.g, k, u)
    BY <2>2, <2>5 DEF NoneAdmitted, OneAdmitted
  <2>8. w.g.tickets \subseteq k.tickets
    BY <2>7 DEF NoneAdmitted, OneAdmitted
  <2>9. k \in Gate
    BY <2>3 DEF Whole
  <2>10. p \in Works /\ p.g = k /\ p.file = c.file
    BY <1>1, <1>6, <1>8, <2>9 DEF Works, k
  <2>11. p.wrote = c.wrote /\ p.unread = c.unread
    BY <1>1, <1>6, <1>8 DEF Works
  <2>. QED
    BY <1>1, <1>8, <2>2, <2>3, <2>5, <2>6, <2>7, <2>8, <2>10, <2>11 DEF p, s
<1>. QED
  BY <1>7, <1>8

Fine(w) == w \in Works /\ Whole(w.g)

\* Everything but the account's state and the probe.
SameQueue(g, h) ==
  /\ h.waiters = g.waiters /\ h.seq = g.seq /\ h.nextSeq = g.nextSeq
  /\ h.enqueuedAt = g.enqueuedAt /\ h.waited = g.waited
  /\ h.tickets = g.tickets /\ h.waitingForTools = g.waitingForTools
  /\ h.accepted = g.accepted /\ h.probes = g.probes
  /\ h.admittedAt = g.admittedAt /\ h.lastAdmissionAt = g.lastAdmissionAt
  /\ h.timerAt = g.timerAt /\ h.over = g.over

SameGate(g, h) == SameQueue(g, h) /\ h.probeTicket = g.probeTicket

LEMMA StateAlone ==
  ASSUME NEW g, Whole(g), NEW s \in State
  PROVE  LET h == [g EXCEPT !.state = s]
         IN Whole(h) /\ h.state = s /\ SameGate(g, h)
<1>. DEFINE h == [g EXCEPT !.state = s]
<1>1. g \in Gate /\ Consistent(g) /\ IsFiniteSet(g.tickets)
  BY DEF Whole
<1>2. h \in Gate /\ h.state = s
  BY <1>1 DEF Gate
<1>3. SameGate(g, h)
  BY <1>1 DEF Gate, SameGate, SameQueue
<1>. HIDE DEF h
<1>4. Consistent(h)
  BY <1>1, <1>3 DEF Consistent, SameGate, SameQueue
<1>. QED
  BY <1>1, <1>2, <1>3, <1>4 DEF Whole, SameGate, SameQueue, h

LEMMA CurrentFine ==
  ASSUME now \in Nat, NEW w, Fine(w)
  PROVE  LET c == Current(w)
         IN /\ Fine(c) /\ SameGate(w.g, c.g) /\ c.g.state = Normalized(Known(w))
            /\ c.file = w.file /\ c.wrote = w.wrote /\ c.unread = FALSE
<1>1. w \in Works /\ Whole(w.g)
  BY DEF Fine
<1>2. /\ Current(w) \in Works
      /\ Current(w).g = [w.g EXCEPT !.state = Normalized(Known(w))]
      /\ Current(w).g.state = Normalized(Known(w))
      /\ Current(w).file = w.file
  BY <1>1, CurrentFields
<1>3. Current(w).wrote = w.wrote /\ Current(w).unread = FALSE
  BY <1>1, CurrentFields
<1>4. Normalized(Known(w)) \in State
  BY <1>1, RefreshedFields, NormalizedFields
<1>5. Whole(Current(w).g) /\ SameGate(w.g, Current(w).g)
  BY <1>1, <1>2, <1>4, StateAlone
<1>. QED
  BY <1>2, <1>3, <1>5 DEF Fine

LEMMA RefreshedFine ==
  ASSUME now \in Nat, NEW w, Fine(w)
  PROVE  LET c == Refreshed(w)
         IN /\ Fine(c) /\ SameGate(w.g, c.g) /\ c.g.state = Known(w)
            /\ c.file = w.file /\ c.wrote = w.wrote /\ c.unread = FALSE
<1>1. w \in Works /\ Whole(w.g)
  BY DEF Fine
<1>2. /\ Known(w) \in State /\ Refreshed(w) \in Works
      /\ Refreshed(w).g = [w.g EXCEPT !.state = Known(w)]
      /\ Refreshed(w).g.state = Known(w)
      /\ Refreshed(w).file = w.file
  BY <1>1, RefreshedFields
<1>3. Refreshed(w).wrote = w.wrote /\ Refreshed(w).unread = FALSE
  BY <1>1, RefreshedFields
<1>5. Whole(Refreshed(w).g) /\ SameGate(w.g, Refreshed(w).g)
  BY <1>1, <1>2, StateAlone
<1>. QED
  BY <1>2, <1>3, <1>5 DEF Fine

\* A new state that is saved at once.
Saved(w, s) == Persisted([w EXCEPT !.g.state = s])

LEMMA SavedFields ==
  ASSUME now \in Nat, NEW w, Fine(w), NEW s \in State
  PROVE  LET v == Saved(w, s)
         IN /\ Fine(v) /\ SameGate(w.g, v.g) /\ v.g.state = Stamped(s)
            /\ v.file = Stamped(s) /\ v.wrote = TRUE /\ v.unread = FALSE
<1>. DEFINE e == [w EXCEPT !.g.state = s]
            v == Persisted(e)
<1>1. w \in Works /\ Whole(w.g)
  BY DEF Fine
<1>2. e \in Works /\ e.g = [w.g EXCEPT !.state = s] /\ e.g.state = s
  BY <1>1, OnlyState
<1>3. Stamped(s) \in State
  BY StampedFields
<1>. HIDE DEF e
<1>4. /\ v \in Works /\ v.g = [e.g EXCEPT !.state = Stamped(s)] /\ v.g.state = Stamped(s)
      /\ v.file = Stamped(s)
  BY <1>2, PersistedFields
<1>5. v.wrote = TRUE /\ v.unread = FALSE
  BY <1>2, PersistedFields
<1>. HIDE DEF v
<1>6. v.g = [w.g EXCEPT !.state = Stamped(s)]
  <2>1. w.g \in Gate
    BY <1>1 DEF Works
  <2>. QED
    BY <1>2, <1>4, <2>1 DEF Gate
<1>7. Whole(v.g) /\ SameGate(w.g, v.g)
  BY <1>1, <1>3, <1>6, StateAlone
<1>. QED
  BY <1>4, <1>5, <1>7 DEF Fine, Saved, v, e

\* A gate that forgets its probe.
LEMMA ProbeForgotten ==
  ASSUME NEW w, Fine(w), NEW s
  PROVE  LET v == [w EXCEPT !.g.probeTicket = NoTurn]
         IN /\ Fine(v) /\ SameQueue(w.g, v.g) /\ v.g.state = w.g.state /\ v.g.probeTicket = NoTurn
            /\ v.file = w.file /\ v.wrote = w.wrote /\ v.unread = w.unread
            /\ [w EXCEPT !.g.state = s, !.g.probeTicket = NoTurn] = [v EXCEPT !.g.state = s]
<1>. DEFINE h == [w.g EXCEPT !.probeTicket = NoTurn]
            v == [w EXCEPT !.g.probeTicket = NoTurn]
<1>1. w \in Works /\ w.g \in Gate /\ Consistent(w.g) /\ IsFiniteSet(w.g.tickets)
  BY DEF Fine, Whole
<1>2. h \in Gate /\ SameQueue(w.g, h) /\ h.state = w.g.state /\ h.probeTicket = NoTurn
  BY <1>1 DEF Gate, SameQueue
<1>3. v = [w EXCEPT !.g = h]
  OBVIOUS
<1>4. [w EXCEPT !.g.state = s, !.g.probeTicket = NoTurn] = [v EXCEPT !.g.state = s]
  BY <1>1 DEF Works, Gate
<1>. HIDE DEF h, v
<1>5. v \in Works /\ v.g = h /\ v.file = w.file
  BY <1>1, <1>2, <1>3 DEF Works
<1>6. v.wrote = w.wrote /\ v.unread = w.unread
  BY <1>1, <1>3 DEF Works
<1>7. Whole(h)
  BY <1>1, <1>2 DEF Whole, Consistent, SameQueue
<1>. QED
  BY <1>2, <1>4, <1>5, <1>6, <1>7 DEF Fine, v
-----------------------------------------------------------------------------
(***************************************************************************)
(* What ChatGPT's answers do: types and fields.                            *)
(***************************************************************************)
LEMMA BackoffRange ==
  ASSUME NEW step
  PROVE  Backoff(step) \in BaseCooldown .. MaxCooldown
<1>. DEFINE S == {BaseCooldown * 2 ^ step, MaxCooldown} \cap BaseCooldown .. MaxCooldown
<1>1. MaxCooldown \in S /\ S \in SUBSET Nat
  BY Constants
<1>2. Min(S) \in S
  BY <1>1, MinIsLeast
<1>. QED
  BY <1>2 DEF Backoff

LEMMA PausedFields ==
  ASSUME now \in Nat, NEW s \in State, NEW delay \in BaseCooldown .. MaxCooldown
  PROVE  LET p == Paused(s, delay)
         IN /\ p \in Nat /\ p <= now + MaxCooldown /\ p >= now + BaseCooldown
            /\ s.until <= now + MaxCooldown => p >= s.until
<1>1. s.until \in Nat /\ now + delay \in Nat /\ now + MaxCooldown \in Nat /\ delay \in Nat
      /\ BaseCooldown <= delay /\ delay <= MaxCooldown
      /\ BaseCooldown \in Nat /\ MaxCooldown \in Nat
  BY Constants DEF State
<1>. DEFINE m == Max({s.until, now + delay})
<1>2. m \in Nat /\ m = IF s.until >= now + delay THEN s.until ELSE now + delay
  BY <1>1, LatestOfTwo
<1>. HIDE DEF m
<1>3. Paused(s, delay) = Least(m, now + MaxCooldown)
  BY DEF Paused, m
<1>4. Least(m, now + MaxCooldown) = IF m <= now + MaxCooldown THEN m ELSE now + MaxCooldown
  BY <1>1, <1>2, LeastOfTwo
<1>. QED
  BY <1>1, <1>2, <1>3, <1>4

LEMMA IncidentFields ==
  ASSUME now \in Nat, NEW s \in State
  PROVE  LET t == Incident(s)
         IN /\ t \in State
            /\ t.tier = s.tier + 1 /\ t.incidentStartedAt = now
            /\ t.until = Paused(s, Backoff(s.tier))
            /\ t.incidents = RecentIncidents(s) \cup {now}
            /\ t.lastLimitAt = s.lastLimitAt
            /\ t.probeRequired /\ t.recovering /\ t.recoveryStartedAt = 0
            /\ t.stoppedUntil = IF Cardinality(t.incidents) >= IncidentStopCount
                                THEN now + IncidentWindow ELSE s.stoppedUntil
            /\ t.held = s.held /\ t.updatedAt = s.updatedAt
<1>1. Paused(s, Backoff(s.tier)) \in Nat
  BY BackoffRange, PausedFields
<1>2. RecentIncidents(s) \cup {now} \in SUBSET Nat
  BY DEF RecentIncidents, State
<1>3. now + IncidentWindow \in Nat
  BY Constants
<1>. DEFINE P == Paused(s, Backoff(s.tier))
            I == RecentIncidents(s) \cup {now}
            W == IF Cardinality(I) >= IncidentStopCount THEN now + IncidentWindow ELSE s.stoppedUntil
<1>4. P \in Nat /\ I \in SUBSET Nat /\ W \in Nat
  BY <1>1, <1>2, <1>3 DEF State
<1>5. Incident(s) =
        [s EXCEPT !.tier = @ + 1, !.incidentStartedAt = now, !.until = P, !.incidents = I,
                  !.probeRequired = TRUE, !.recovering = TRUE,
                  !.recoveryStartedAt = 0, !.recoveredSlots = 0, !.stoppedUntil = W]
  BY DEF Incident
<1>. HIDE DEF P, I, W
<1>6. Incident(s) \in State
  <2>. DEFINE a == [s EXCEPT !.probeRequired = TRUE, !.recovering = TRUE]
              n == s.tier + 1
              b == [a EXCEPT !.tier = n, !.incidentStartedAt = now, !.until = P, !.incidents = I]
              c == [b EXCEPT !.recoveryStartedAt = 0, !.recoveredSlots = 0, !.stoppedUntil = W]
  <2>1. Incident(s) = c
    BY <1>5
  <2>2. a \in State
    BY DEF State
  <2>3. n \in Nat
    BY DEF State
  <2>. HIDE DEF a, n
  <2>5. b \in State
    BY <1>4, <2>2, <2>3 DEF State
  <2>. HIDE DEF b
  <2>4. c \in State
    BY <1>4, <2>5 DEF State
  <2>. QED
    BY <2>1, <2>4
<1>7. /\ Incident(s).tier = s.tier + 1 /\ Incident(s).incidentStartedAt = now
      /\ Incident(s).until = P /\ Incident(s).incidents = I
      /\ Incident(s).lastLimitAt = s.lastLimitAt /\ Incident(s).recoveryStartedAt = 0
      /\ Incident(s).stoppedUntil = W /\ Incident(s).updatedAt = s.updatedAt
  BY <1>5 DEF State
<1>8. /\ Incident(s).probeRequired = TRUE /\ Incident(s).recovering = TRUE
      /\ Incident(s).held = s.held
  BY <1>5 DEF State
<1>. QED
  BY <1>6, <1>7, <1>8 DEF P, I, W

\* The state that a rate limit leaves, from the state s of the gate when it is recorded.
LimitedState(s, admittedAt) ==
  LET t == [s EXCEPT !.lastLimitAt = now]
  IN IF JoinsIncident(t, admittedAt) THEN t ELSE Incident(t)

LEMMA LimitedStateType ==
  ASSUME now \in Nat, NEW s \in State, NEW at \in Nat
  PROVE  LimitedState(s, at) \in State
<1>1. [s EXCEPT !.lastLimitAt = now] \in State
  BY DEF State
<1>. QED
  BY <1>1, IncidentFields DEF LimitedState

\* The work of a rate limit before its pump.
Limited(w, admittedAt) ==
  LET c == Current(w)
      f == [c EXCEPT !.g.probeTicket = NoTurn]
  IN IF JoinsIncident([c.g.state EXCEPT !.lastLimitAt = now], admittedAt)
     THEN Saved(c, LimitedState(c.g.state, admittedAt))
     ELSE Saved(f, LimitedState(c.g.state, admittedAt))

LEMMA LimitedFields ==
  ASSUME now \in Nat, NEW w, Fine(w), NEW at \in Nat
  PROVE  LET v == Limited(w, at)
             s == LimitedState(Normalized(Known(w)), at)
         IN /\ RateLimitRecorded(w, at) = Pumped(v)
            /\ Fine(v) /\ SameQueue(w.g, v.g) /\ v.g.state = Stamped(s) /\ s \in State
            /\ v.file = Stamped(s) /\ v.wrote = TRUE /\ v.unread = FALSE
            /\ v.g.probeTicket = IF JoinsIncident([Normalized(Known(w)) EXCEPT !.lastLimitAt = now], at)
                                 THEN w.g.probeTicket ELSE NoTurn
<1>. DEFINE c == Current(w)
            t == [c.g.state EXCEPT !.lastLimitAt = now]
            f == [c EXCEPT !.g.probeTicket = NoTurn]
            s == LimitedState(c.g.state, at)
            v == Limited(w, at)
<1>1. /\ Fine(c) /\ SameGate(w.g, c.g) /\ c.g.state = Normalized(Known(w))
      /\ c.file = w.file
  BY CurrentFine
<1>2. c.g.state \in State
  BY <1>1 DEF Fine, Works, Gate
<1>3. s \in State
  BY <1>2, LimitedStateType
<1>4. RateLimitRecorded(w, at) =
        IF JoinsIncident(t, at)
        THEN Pumped(Persisted([c EXCEPT !.g.state = t]))
        ELSE Pumped(Persisted([c EXCEPT !.g.state = Incident(t), !.g.probeTicket = NoTurn]))
  BY DEF RateLimitRecorded
<1>5. s = IF JoinsIncident(t, at) THEN t ELSE Incident(t)
  BY DEF LimitedState
<1>6. v = IF JoinsIncident(t, at) THEN Saved(c, s) ELSE Saved(f, s)
  BY DEF Limited
<1>. HIDE DEF c, t, f, s, v
<1>7. CASE JoinsIncident(t, at)
  <2>1. v = Saved(c, s) /\ RateLimitRecorded(w, at) = Pumped(v)
    BY <1>4, <1>5, <1>6, <1>7 DEF Saved
  <2>2. /\ Fine(v) /\ SameGate(c.g, v.g) /\ v.g.state = Stamped(s)
        /\ v.file = Stamped(s) /\ v.wrote = TRUE /\ v.unread = FALSE
    BY <1>1, <1>3, <2>1, SavedFields
  <2>3. SameQueue(w.g, v.g) /\ v.g.probeTicket = w.g.probeTicket
    BY <1>1, <2>2 DEF SameGate, SameQueue
  <2>. QED
    BY <1>1, <1>3, <1>7, <2>1, <2>2, <2>3 DEF v, s, t
<1>8. CASE ~JoinsIncident(t, at)
  <2>1. /\ Fine(f) /\ SameQueue(c.g, f.g) /\ f.g.probeTicket = NoTurn
        /\ [c EXCEPT !.g.state = s, !.g.probeTicket = NoTurn] = [f EXCEPT !.g.state = s]
    BY <1>1, ProbeForgotten DEF f
  <2>2. v = Saved(f, s)
    BY <1>6, <1>8
  <2>3. RateLimitRecorded(w, at) = Pumped(v)
    BY <1>4, <1>5, <1>8, <2>1, <2>2 DEF Saved
  <2>4. /\ Fine(v) /\ SameGate(f.g, v.g) /\ v.g.state = Stamped(s)
        /\ v.file = Stamped(s) /\ v.wrote = TRUE /\ v.unread = FALSE
    BY <1>3, <2>1, <2>2, SavedFields
  <2>5. SameQueue(w.g, v.g) /\ v.g.probeTicket = NoTurn
    BY <1>1, <2>1, <2>4 DEF SameGate, SameQueue
  <2>. QED
    BY <1>1, <1>3, <1>8, <2>3, <2>4, <2>5 DEF v, s, t
<1>. QED
  BY <1>7, <1>8

\* The state that a failure leaves.
FailedState(s) ==
  [s EXCEPT !.failureTier = Least(16, @ + 1),
            !.lastFailureAt = now,
            !.until = Paused(s, Backoff(s.failureTier))]

LEMMA FailedStateFields ==
  ASSUME now \in Nat, NEW s \in State
  PROVE  LET t == FailedState(s)
         IN /\ t \in State
            /\ t.until = Paused(s, Backoff(s.failureTier)) /\ t.stoppedUntil = s.stoppedUntil
            /\ t.tier = s.tier /\ t.incidents = s.incidents /\ t.lastLimitAt = s.lastLimitAt
            /\ t.incidentStartedAt = s.incidentStartedAt
            /\ t.probeRequired = s.probeRequired
            /\ t.recovering = s.recovering /\ t.recoveryStartedAt = s.recoveryStartedAt
            /\ t.held = s.held /\ t.updatedAt = s.updatedAt
<1>1. Paused(s, Backoff(s.failureTier)) \in Nat
  BY BackoffRange, PausedFields
<1>2. 16 \in Nat /\ s.failureTier + 1 \in Nat
  BY DEF State
<1>3. Least(16, s.failureTier + 1) \in Nat
  BY <1>2, LeastOfTwo
<1>. QED
  BY <1>1, <1>3 DEF FailedState, State

\* A failure before the last one was recorded changes nothing.
FailureKnown(s, admittedAt) == s.failureTier > 0 /\ admittedAt < s.lastFailureAt

LEMMA FailureFields ==
  ASSUME NEW w, NEW at
  PROVE  LET c == Current(w)
         IN FailureRecorded(w, at) =
              IF FailureKnown(c.g.state, at) THEN c ELSE Pumped(Saved(c, FailedState(c.g.state)))
BY DEF FailureRecorded, FailureKnown, FailedState, Saved

HeldState(s, held) == [s EXCEPT !.held = held]

LEMMA HoldFields ==
  ASSUME NEW w
  PROVE  LET r == Refreshed(w)
         IN HoldRecorded(w) = Pumped(IF r.g.state.held THEN r ELSE Saved(r, HeldState(r.g.state, TRUE)))
<1>. DEFINE r == Refreshed(w)
<1>1. [r EXCEPT !.g.state.held = TRUE] = [r EXCEPT !.g.state = HeldState(r.g.state, TRUE)]
  BY DEF HeldState
<1>. QED
  BY <1>1 DEF HoldRecorded, Saved
LEMMA HeldStateFields ==
  ASSUME NEW s \in State, NEW held \in BOOLEAN
  PROVE  LET t == HeldState(s, held)
         IN /\ t \in State /\ t.held = held
            /\ t.until = s.until /\ t.stoppedUntil = s.stoppedUntil
            /\ t.tier = s.tier /\ t.incidents = s.incidents /\ t.lastLimitAt = s.lastLimitAt
            /\ t.incidentStartedAt = s.incidentStartedAt
            /\ t.probeRequired = s.probeRequired
            /\ t.recovering = s.recovering /\ t.recoveryStartedAt = s.recoveryStartedAt
            /\ t.updatedAt = s.updatedAt
<1>1. HeldState(s, held) \in State
  BY DEF HeldState, State
<1>2. /\ HeldState(s, held).until = s.until /\ HeldState(s, held).stoppedUntil = s.stoppedUntil
      /\ HeldState(s, held).tier = s.tier /\ HeldState(s, held).incidents = s.incidents
      /\ HeldState(s, held).lastLimitAt = s.lastLimitAt
      /\ HeldState(s, held).incidentStartedAt = s.incidentStartedAt
      /\ HeldState(s, held).recoveryStartedAt = s.recoveryStartedAt
      /\ HeldState(s, held).updatedAt = s.updatedAt
  BY DEF HeldState, State
<1>3. HeldState(s, held).held = held
  BY DEF HeldState, State
<1>4. /\ HeldState(s, held).probeRequired = s.probeRequired
      /\ HeldState(s, held).recovering = s.recovering
  BY DEF HeldState, State
<1>. QED
  BY <1>1, <1>2, <1>3, <1>4

ProbedState(s) == [s EXCEPT !.probeRequired = FALSE, !.recoveryStartedAt = now]

LEMMA ProbedStateFields ==
  ASSUME now \in Nat, NEW s \in State
  PROVE  LET t == ProbedState(s)
         IN /\ t \in State /\ t.probeRequired = FALSE
            /\ t.until = s.until /\ t.stoppedUntil = s.stoppedUntil
            /\ t.tier = s.tier /\ t.incidents = s.incidents /\ t.lastLimitAt = s.lastLimitAt
            /\ t.incidentStartedAt = s.incidentStartedAt
            /\ t.recovering = s.recovering /\ t.recoveryStartedAt = now
            /\ t.held = s.held /\ t.updatedAt = s.updatedAt
<1>1. ProbedState(s) \in State
  BY DEF ProbedState, State
<1>2. /\ ProbedState(s).until = s.until /\ ProbedState(s).stoppedUntil = s.stoppedUntil
      /\ ProbedState(s).tier = s.tier /\ ProbedState(s).incidents = s.incidents
      /\ ProbedState(s).lastLimitAt = s.lastLimitAt
      /\ ProbedState(s).incidentStartedAt = s.incidentStartedAt
      /\ ProbedState(s).recoveryStartedAt = now
      /\ ProbedState(s).updatedAt = s.updatedAt
  BY DEF ProbedState, State
<1>3. /\ ProbedState(s).held = s.held
      /\ ProbedState(s).probeRequired = FALSE
      /\ ProbedState(s).recovering = s.recovering
  BY DEF ProbedState, State
<1>. QED
  BY <1>1, <1>2, <1>3

RecoveredState(s, probed) ==
  [s EXCEPT !.tier = 0,
            !.probeRequired = @ /\ ~probed,
            !.recoveryStartedAt = IF probed THEN now ELSE @,
            !.recoveredSlots = IF s.recovering THEN Least(MaxConcurrency, @ + 1) ELSE @]

LEMMA RecoveredStateFields ==
  ASSUME now \in Nat, NEW s \in State, NEW probed \in BOOLEAN
  PROVE  LET t == RecoveredState(s, probed)
         IN /\ t \in State /\ (t.probeRequired <=> (s.probeRequired /\ ~probed))
            /\ t.until = s.until /\ t.stoppedUntil = s.stoppedUntil
            /\ t.tier = 0 /\ t.incidents = s.incidents /\ t.lastLimitAt = s.lastLimitAt
            /\ t.incidentStartedAt = s.incidentStartedAt
            /\ t.recovering = s.recovering
            /\ t.recoveryStartedAt = (IF probed THEN now ELSE s.recoveryStartedAt)
            /\ t.held = s.held /\ t.updatedAt = s.updatedAt
<1>. DEFINE t == RecoveredState(s, probed)
            p == s.probeRequired /\ ~probed
            a == IF probed THEN now ELSE s.recoveryStartedAt
            n == IF s.recovering THEN Least(MaxConcurrency, s.recoveredSlots + 1) ELSE s.recoveredSlots
<1>1. s.recoveredSlots \in Nat /\ s.recoveredSlots + 1 \in Nat /\ MaxConcurrency \in Nat
  BY Constants DEF State
<1>2. Least(MaxConcurrency, s.recoveredSlots + 1) \in Nat
  BY <1>1, LeastOfTwo
<1>3. a \in Nat /\ n \in Nat
  BY <1>1, <1>2 DEF State
<1>4. p \in BOOLEAN
  OBVIOUS
<1>5. t = [s EXCEPT !.tier = 0, !.probeRequired = p, !.recoveryStartedAt = a, !.recoveredSlots = n]
  BY DEF RecoveredState
<1>. HIDE DEF t, p, a, n
<1>6. t \in State
  BY <1>3, <1>4, <1>5 DEF State
<1>7. /\ t.until = s.until /\ t.stoppedUntil = s.stoppedUntil
      /\ t.tier = 0 /\ t.incidents = s.incidents /\ t.lastLimitAt = s.lastLimitAt
      /\ t.incidentStartedAt = s.incidentStartedAt
      /\ t.recoveryStartedAt = a /\ t.updatedAt = s.updatedAt
  BY <1>5 DEF State
<1>8. t.recovering = s.recovering /\ t.held = s.held /\ t.probeRequired = p
  BY <1>5 DEF State
<1>. QED
  BY <1>6, <1>7, <1>8 DEF t, p, a

UnfailedState(s) == [s EXCEPT !.failureTier = 0]

LEMMA UnfailedStateFields ==
  ASSUME NEW s \in State
  PROVE  LET t == UnfailedState(s)
         IN /\ t \in State
            /\ t.until = s.until /\ t.stoppedUntil = s.stoppedUntil
            /\ t.tier = s.tier /\ t.incidents = s.incidents /\ t.lastLimitAt = s.lastLimitAt
            /\ t.incidentStartedAt = s.incidentStartedAt
            /\ t.probeRequired = s.probeRequired
            /\ t.recovering = s.recovering /\ t.recoveryStartedAt = s.recoveryStartedAt
            /\ t.held = s.held /\ t.updatedAt = s.updatedAt
BY DEF UnfailedState, State

LEMMA ProbeAcceptedShape ==
  ASSUME NEW w, NEW u
  PROVE  ProbeAccepted(w, u) =
           IF u = w.g.probeTicket /\ w.g.state.probeRequired THEN Saved(w, ProbedState(w.g.state)) ELSE w
<1>1. [w EXCEPT !.g.state.probeRequired = FALSE, !.g.state.recoveryStartedAt = now]
        = [w EXCEPT !.g.state = ProbedState(w.g.state)]
  BY DEF ProbedState
<1>. QED
  BY <1>1 DEF ProbeAccepted, Saved

\* Whether a response that was served ends the escalation.
Recovers(w, u) ==
  LET s == w.g.state
  IN /\ s.incidentStartedAt > 0 /\ w.g.admittedAt[u] >= s.incidentStartedAt
     /\ s.tier # 0 \/ (s.probeRequired /\ u \in w.g.probes) \/ s.recovering

LEMMA RecoveredShape ==
  ASSUME NEW w, NEW u
  PROVE  Recovered(w, u) =
           IF Recovers(w, u)
           THEN Saved(w, RecoveredState(w.g.state, w.g.state.probeRequired /\ u \in w.g.probes))
           ELSE w
BY DEF Recovered, Recovers, RecoveredState, Saved

LEMMA UnfailedShape ==
  ASSUME NEW w
  PROVE  Unfailed(w) = IF w.g.state.failureTier # 0 THEN Saved(w, UnfailedState(w.g.state)) ELSE w
<1>1. [w EXCEPT !.g.state.failureTier = 0] = [w EXCEPT !.g.state = UnfailedState(w.g.state)]
  BY DEF UnfailedState
<1>. QED
  BY <1>1 DEF Unfailed, Saved

\* A handler's work with another gate in it.
LEMMA GateReplaced ==
  ASSUME NEW w, Fine(w), NEW h, Whole(h)
  PROVE  LET v == [w EXCEPT !.g = h]
         IN Fine(v) /\ v.g = h /\ v.file = w.file /\ v.wrote = w.wrote /\ v.unread = w.unread
<1>1. w \in Works /\ h \in Gate
  BY DEF Fine, Whole
<1>2. [w EXCEPT !.g = h] \in Works /\ [w EXCEPT !.g = h].g = h /\ [w EXCEPT !.g = h].file = w.file
  BY <1>1 DEF Works
<1>3. [w EXCEPT !.g = h].wrote = w.wrote /\ [w EXCEPT !.g = h].unread = w.unread
  BY <1>1 DEF Works
<1>. QED
  BY <1>2, <1>3 DEF Fine

LEMMA ReleasedFields ==
  ASSUME NEW w, Fine(w), NEW u \in Turns
  PROVE  LET v == Released(w, u)
         IN /\ Fine(v) /\ v.g.state = w.g.state
            /\ v.file = w.file /\ v.wrote = w.wrote /\ v.unread = w.unread
            /\ v.g.tickets = w.g.tickets \ {u} /\ v.g.waiters = w.g.waiters /\ v.g.over = w.g.over
            /\ v.g.probeTicket = (IF w.g.probeTicket = u THEN NoTurn ELSE w.g.probeTicket)
            /\ v.g.admittedAt = w.g.admittedAt /\ v.g.lastAdmissionAt = w.g.lastAdmissionAt
<1>. DEFINE q == IF w.g.probeTicket = u THEN NoTurn ELSE w.g.probeTicket
            h == [w.g EXCEPT !.tickets = @ \ {u}, !.waitingForTools = @ \ {u},
                             !.accepted = @ \ {u}, !.probes = @ \ {u}, !.probeTicket = q]
<1>1. w.g \in Gate /\ Consistent(w.g) /\ IsFiniteSet(w.g.tickets)
  BY DEF Fine, Whole
<1>2. Released(w, u) = [w EXCEPT !.g = h]
  BY DEF Released
<1>3. q \in Turns \cup {NoTurn} /\ (q \in w.g.tickets \ {u} \/ q = NoTurn)
  BY <1>1 DEF Gate, Consistent
<1>. HIDE DEF q
<1>4. /\ h.state = w.g.state /\ h.waiters = w.g.waiters /\ h.over = w.g.over
      /\ h.tickets = w.g.tickets \ {u} /\ h.waitingForTools = w.g.waitingForTools \ {u}
      /\ h.accepted = w.g.accepted \ {u} /\ h.probes = w.g.probes \ {u} /\ h.probeTicket = q
      /\ h.admittedAt = w.g.admittedAt /\ h.lastAdmissionAt = w.g.lastAdmissionAt
  BY <1>1 DEF Gate
<1>5. h \in Gate
  <2>. DEFINE k == [w.g EXCEPT !.tickets = @ \ {u}, !.waitingForTools = @ \ {u}]
  <2>1. k \in Gate
    BY <1>1 DEF Gate
  <2>2. h = [k EXCEPT !.accepted = @ \ {u}, !.probes = @ \ {u}, !.probeTicket = q]
    BY <1>1 DEF Gate
  <2>. HIDE DEF k, h
  <2>. QED
    BY <1>3, <2>1, <2>2 DEF Gate
<1>. HIDE DEF h
<1>6. IsFiniteSet(h.tickets)
  BY <1>1, <1>4, FS_Subset
<1>7. Consistent(h)
  BY <1>1, <1>3, <1>4 DEF Consistent
<1>8. Whole(h)
  BY <1>5, <1>6, <1>7 DEF Whole
<1>9. /\ Fine([w EXCEPT !.g = h]) /\ [w EXCEPT !.g = h].g = h
      /\ [w EXCEPT !.g = h].file = w.file
      /\ [w EXCEPT !.g = h].wrote = w.wrote /\ [w EXCEPT !.g = h].unread = w.unread
  BY <1>8, GateReplaced
<1>. QED
  BY <1>2, <1>4, <1>9 DEF q

\* A turn that is neither waiting nor running is recorded as over.
LEMMA OverFields ==
  ASSUME NEW w, Fine(w), NEW turns \in SUBSET Turns, w.g.probeTicket \notin turns
  PROVE  LET v == [w EXCEPT !.g = Gone(@, turns)]
         IN /\ Fine(v) /\ v.g = Gone(w.g, turns)
            /\ v.file = w.file /\ v.wrote = w.wrote /\ v.unread = w.unread
            /\ DeadlineOK(w.g) => DeadlineOK(v.g)
<1>1. w.g \in Gate /\ Whole(w.g)
  BY DEF Fine, Whole
<1>. DEFINE h == Gone(w.g, turns)
<1>2. Whole(h)
  BY <1>1, GoneWhole
<1>3. /\ h.waiters = w.g.waiters \ turns /\ h.timerAt = w.g.timerAt
      /\ \A u \in Turns \ turns : h.enqueuedAt[u] = w.g.enqueuedAt[u] /\ h.waited[u] = w.g.waited[u]
  BY <1>1, GoneFields
<1>. HIDE DEF h
<1>4. DeadlineOK(w.g) => DeadlineOK(h)
  BY <1>1, <1>3 DEF DeadlineOK, Gate
<1>5. /\ Fine([w EXCEPT !.g = h]) /\ [w EXCEPT !.g = h].g = h
      /\ [w EXCEPT !.g = h].file = w.file
      /\ [w EXCEPT !.g = h].wrote = w.wrote /\ [w EXCEPT !.g = h].unread = w.unread
  BY <1>2, GateReplaced
<1>6. [w EXCEPT !.g = Gone(@, turns)] = [w EXCEPT !.g = h]
  BY DEF h
<1>. QED
  BY <1>4, <1>5, <1>6 DEF h

LEMMA EnqueuedFields ==
  ASSUME now \in Nat, NEW w, Fine(w), NEW u \in Turns, u \notin w.g.tickets \cup w.g.over
  PROVE  LET v == [w EXCEPT !.g = Enqueued(@, u)]
         IN /\ Fine(v) /\ v.g.state = w.g.state
            /\ v.file = w.file /\ v.wrote = w.wrote /\ v.unread = w.unread
            /\ v.g.waiters = w.g.waiters \cup {u} /\ v.g.tickets = w.g.tickets
            /\ v.g.over = w.g.over /\ v.g.waitingForTools = w.g.waitingForTools
            /\ v.g.probeTicket = w.g.probeTicket
            /\ v.g.admittedAt = w.g.admittedAt /\ v.g.lastAdmissionAt = w.g.lastAdmissionAt
<1>1. w.g \in Gate /\ Consistent(w.g) /\ IsFiniteSet(w.g.tickets)
  BY DEF Fine, Whole
<1>. DEFINE Q == [w.g.seq EXCEPT ![u] = IF @ = 0 THEN w.g.nextSeq ELSE @]
            n == IF w.g.seq[u] = 0 THEN w.g.nextSeq + 1 ELSE w.g.nextSeq
            E == [w.g.enqueuedAt EXCEPT ![u] = now]
            h == [w.g EXCEPT !.waiters = @ \cup {u}, !.enqueuedAt = E, !.seq = Q, !.nextSeq = n]
<1>2. Q \in [Turns -> Nat] /\ E \in [Turns -> Nat] /\ n \in Nat
  BY <1>1 DEF Gate
<1>3. Enqueued(w.g, u) = h
  BY DEF Enqueued
<1>. HIDE DEF Q, n, E
<1>4. h \in Gate
  BY <1>1, <1>2 DEF Gate
<1>5. /\ h.state = w.g.state /\ h.waiters = w.g.waiters \cup {u} /\ h.over = w.g.over
      /\ h.tickets = w.g.tickets /\ h.waitingForTools = w.g.waitingForTools
      /\ h.accepted = w.g.accepted /\ h.probes = w.g.probes /\ h.probeTicket = w.g.probeTicket
      /\ h.admittedAt = w.g.admittedAt /\ h.lastAdmissionAt = w.g.lastAdmissionAt
  BY <1>1 DEF Gate
<1>. HIDE DEF h
<1>6. Whole(h)
  BY <1>1, <1>4, <1>5 DEF Whole, Consistent
<1>7. /\ Fine([w EXCEPT !.g = h]) /\ [w EXCEPT !.g = h].g = h
      /\ [w EXCEPT !.g = h].file = w.file
      /\ [w EXCEPT !.g = h].wrote = w.wrote /\ [w EXCEPT !.g = h].unread = w.unread
  BY <1>6, GateReplaced
<1>8. [w EXCEPT !.g = Enqueued(@, u)] = [w EXCEPT !.g = h]
  BY <1>3
<1>. QED
  BY <1>5, <1>7, <1>8
-----------------------------------------------------------------------------
(***************************************************************************)
(* Every handler keeps the types and leaves a timer before every deadline. *)
(***************************************************************************)
LEMMA PumpedFine ==
  ASSUME now \in Nat \ {0}, NEW w, Fine(w)
  PROVE  LET p == Pumped(w)
         IN /\ Fine(p) /\ DeadlineOK(p.g)
            /\ w.g.tickets \subseteq p.g.tickets /\ p.g.tickets \subseteq w.g.tickets \cup w.g.waiters
            /\ p.g.waiters \subseteq w.g.waiters /\ p.g.over \subseteq w.g.over \cup w.g.waiters
<1>1. w \in Works /\ Whole(w.g)
  BY DEF Fine
<1>2. /\ Pumped(w) \in Works /\ Whole(Pumped(w).g) /\ DeadlineOK(Pumped(w).g)
      /\ w.g.tickets \subseteq Pumped(w).g.tickets
      /\ Pumped(w).g.waiters \subseteq w.g.waiters
      /\ Pumped(w).g.over \subseteq w.g.over \cup w.g.waiters
      /\ \/ NoneAdmitted(w.g, Pumped(w).g)
         \/ \E u \in w.g.waiters : OneAdmitted(w.g, Pumped(w).g, u)
  BY <1>1, PumpedFields
<1>3. Pumped(w).g.tickets \subseteq w.g.tickets \cup w.g.waiters
  BY <1>2 DEF NoneAdmitted, OneAdmitted
<1>. QED
  BY <1>2, <1>3 DEF Fine

LEMMA ReleasedPumped ==
  ASSUME now \in Nat \ {0}, NEW w, Fine(w), NEW u \in w.g.tickets
  PROVE  LET p == Pumped(Released(w, u))
         IN /\ u \in Turns /\ Fine(p) /\ DeadlineOK(p.g)
            /\ u \notin p.g.tickets \cup p.g.waiters \cup p.g.over /\ p.g.probeTicket # u
<1>. DEFINE r == Released(w, u)
            p == Pumped(r)
<1>1. w.g \in Gate /\ Consistent(w.g)
  BY DEF Fine, Whole
<1>2. u \in Turns /\ u \notin w.g.waiters \cup w.g.over
  BY <1>1 DEF Gate, Consistent
<1>3. Fine(r) /\ r.g.tickets = w.g.tickets \ {u} /\ r.g.waiters = w.g.waiters /\ r.g.over = w.g.over
  BY <1>2, ReleasedFields
<1>. HIDE DEF r
<1>4. /\ Fine(p) /\ DeadlineOK(p.g)
      /\ p.g.tickets \subseteq r.g.tickets \cup r.g.waiters
      /\ p.g.waiters \subseteq r.g.waiters /\ p.g.over \subseteq r.g.over \cup r.g.waiters
  BY <1>3, PumpedFine
<1>. HIDE DEF p
<1>5. u \notin p.g.tickets \cup p.g.waiters \cup p.g.over
  BY <1>2, <1>3, <1>4
<1>6. p.g.probeTicket # u
  BY <1>2, <1>4, <1>5, NoTurnAssumption DEF Fine, Whole, Consistent
<1>. QED
  BY <1>2, <1>4, <1>5, <1>6 DEF p, r

LEMMA FinishedFine ==
  ASSUME now \in Nat \ {0}, NEW w, Fine(w), NEW u \in w.g.tickets
  PROVE  Fine(Finished(w, u)) /\ DeadlineOK(Finished(w, u).g)
<1>. DEFINE p == Pumped(Released(w, u))
<1>1. u \in Turns /\ Fine(p) /\ DeadlineOK(p.g) /\ p.g.probeTicket # u
  BY ReleasedPumped
<1>2. Finished(w, u) = [p EXCEPT !.g = Gone(@, {u})]
  BY DEF Finished
<1>. HIDE DEF p
<1>3. {u} \in SUBSET Turns /\ p.g.probeTicket \notin {u}
  BY <1>1
<1>4. /\ Fine([p EXCEPT !.g = Gone(@, {u})])
      /\ DeadlineOK(p.g) => DeadlineOK([p EXCEPT !.g = Gone(@, {u})].g)
  BY <1>1, <1>3, OverFields
<1>. QED
  BY <1>1, <1>2, <1>4

LEMMA AwaitedFine ==
  ASSUME now \in Nat \ {0}, NEW w, Fine(w), DeadlineOK(w.g),
         NEW u \in Turns, u \notin w.g.tickets \cup w.g.over
  PROVE  Fine(Awaited(w, u)) /\ DeadlineOK(Awaited(w, u).g)
<1>. DEFINE c == Current(w)
            e == [c EXCEPT !.g = Enqueued(@, u)]
            o == [c EXCEPT !.g = Gone(@, {u})]
<1>1. Fine(c) /\ SameGate(w.g, c.g)
  BY CurrentFine
<1>2. Awaited(w, u) = IF Stopped(c.g.state) THEN o ELSE Pumped(e)
  BY DEF Awaited
<1>. HIDE DEF c
<1>3. u \notin c.g.tickets \cup c.g.over /\ DeadlineOK(c.g)
  BY <1>1 DEF SameGate, SameQueue, DeadlineOK
<1>4. Fine(e)
  BY <1>1, <1>3, EnqueuedFields
<1>5. c.g.probeTicket # u
  BY <1>1, <1>3, NoTurnAssumption DEF Fine, Whole, Consistent
<1>6. Fine(o) /\ DeadlineOK(o.g)
  <2>1. {u} \in SUBSET Turns /\ c.g.probeTicket \notin {u}
    BY <1>5
  <2>. QED
    BY <1>1, <1>3, <2>1, OverFields
<1>. HIDE DEF e, o
<1>7. Fine(Pumped(e)) /\ DeadlineOK(Pumped(e).g)
  BY <1>4, PumpedFine
<1>. QED
  BY <1>2, <1>6, <1>7

LEMMA StateOf ==
  ASSUME NEW w, Fine(w)
  PROVE  w.g \in Gate /\ w.g.state \in State /\ Consistent(w.g) /\ w.file \in State
BY DEF Fine, Whole, Works, Gate

LEMMA RateLimitRecordedFine ==
  ASSUME now \in Nat \ {0}, NEW w, Fine(w), NEW at \in Nat
  PROVE  LET v == RateLimitRecorded(w, at)
         IN Fine(v) /\ w.g.tickets \subseteq v.g.tickets
<1>. DEFINE l == Limited(w, at)
<1>1. RateLimitRecorded(w, at) = Pumped(l) /\ Fine(l) /\ SameQueue(w.g, l.g)
  BY LimitedFields
<1>. HIDE DEF l
<1>2. Fine(Pumped(l)) /\ l.g.tickets \subseteq Pumped(l).g.tickets
  BY <1>1, PumpedFine
<1>. QED
  BY <1>1, <1>2 DEF SameQueue

LEMMA FailureRecordedFine ==
  ASSUME now \in Nat \ {0}, NEW w, Fine(w), NEW at \in Nat
  PROVE  LET v == FailureRecorded(w, at)
         IN Fine(v) /\ w.g.tickets \subseteq v.g.tickets
<1>. DEFINE c == Current(w)
            f == Saved(c, FailedState(c.g.state))
<1>1. Fine(c) /\ SameGate(w.g, c.g)
  BY CurrentFine
<1>2. FailureRecorded(w, at) = IF FailureKnown(c.g.state, at) THEN c ELSE Pumped(f)
  BY FailureFields
<1>. HIDE DEF c
<1>3. c.g.state \in State
  BY <1>1, StateOf
<1>4. FailedState(c.g.state) \in State
  BY <1>3, FailedStateFields
<1>5. Fine(f) /\ SameGate(c.g, f.g)
  BY <1>1, <1>4, SavedFields
<1>. HIDE DEF f
<1>6. Fine(Pumped(f)) /\ f.g.tickets \subseteq Pumped(f).g.tickets
  BY <1>5, PumpedFine
<1>. QED
  BY <1>1, <1>2, <1>5, <1>6 DEF SameGate, SameQueue

LEMMA HoldRecordedFine ==
  ASSUME now \in Nat \ {0}, NEW w, Fine(w)
  PROVE  LET v == HoldRecorded(w)
         IN Fine(v) /\ w.g.tickets \subseteq v.g.tickets
<1>. DEFINE r == Refreshed(w)
            h == Saved(r, HeldState(r.g.state, TRUE))
            e == IF r.g.state.held THEN r ELSE h
<1>1. Fine(r) /\ SameGate(w.g, r.g)
  BY RefreshedFine
<1>2. HoldRecorded(w) = Pumped(e)
  BY HoldFields
<1>. HIDE DEF r
<1>3. r.g.state \in State
  BY <1>1, StateOf
<1>4. HeldState(r.g.state, TRUE) \in State
  BY <1>3, HeldStateFields
<1>5. Fine(h) /\ SameGate(r.g, h.g)
  BY <1>1, <1>4, SavedFields
<1>. HIDE DEF h
<1>6. Fine(e) /\ e.g.tickets = w.g.tickets
  BY <1>1, <1>5 DEF SameGate, SameQueue
<1>. HIDE DEF e
<1>7. Fine(Pumped(e)) /\ e.g.tickets \subseteq Pumped(e).g.tickets
  BY <1>6, PumpedFine
<1>. QED
  BY <1>2, <1>6, <1>7

LEMMA ProbeAcceptedFine ==
  ASSUME now \in Nat, NEW w, Fine(w), NEW u
  PROVE  Fine(ProbeAccepted(w, u)) /\ SameGate(w.g, ProbeAccepted(w, u).g)
<1>. DEFINE f == Saved(w, ProbedState(w.g.state))
<1>1. ProbedState(w.g.state) \in State
  BY StateOf, ProbedStateFields
<1>2. Fine(f) /\ SameGate(w.g, f.g)
  BY <1>1, SavedFields
<1>3. SameGate(w.g, w.g)
  BY DEF SameGate, SameQueue
<1>4. ProbeAccepted(w, u) \in {f, w}
  BY ProbeAcceptedShape
<1>. HIDE DEF f
<1>. QED
  BY <1>2, <1>3, <1>4

LEMMA RecoveredFine ==
  ASSUME now \in Nat, NEW w, Fine(w), NEW u
  PROVE  Fine(Recovered(w, u)) /\ SameGate(w.g, Recovered(w, u).g)
<1>. DEFINE p == w.g.state.probeRequired /\ u \in w.g.probes
            f == Saved(w, RecoveredState(w.g.state, p))
<1>0. p \in BOOLEAN
  OBVIOUS
<1>4. Recovered(w, u) \in {f, w}
  BY RecoveredShape
<1>. HIDE DEF p
<1>1. RecoveredState(w.g.state, p) \in State
  BY <1>0, StateOf, RecoveredStateFields
<1>2. Fine(f) /\ SameGate(w.g, f.g)
  BY <1>1, SavedFields
<1>3. SameGate(w.g, w.g)
  BY DEF SameGate, SameQueue
<1>. HIDE DEF f
<1>. QED
  BY <1>2, <1>3, <1>4

LEMMA UnfailedFine ==
  ASSUME now \in Nat, NEW w, Fine(w)
  PROVE  Fine(Unfailed(w)) /\ SameGate(w.g, Unfailed(w).g)
<1>. DEFINE f == Saved(w, UnfailedState(w.g.state))
<1>1. UnfailedState(w.g.state) \in State
  BY StateOf, UnfailedStateFields
<1>2. Fine(f) /\ SameGate(w.g, f.g)
  BY <1>1, SavedFields
<1>3. SameGate(w.g, w.g)
  BY DEF SameGate, SameQueue
<1>4. Unfailed(w) \in {f, w}
  BY UnfailedShape
<1>. HIDE DEF f
<1>. QED
  BY <1>2, <1>3, <1>4
\* A turn that goes back to the queue is no longer admitted.
Unadmitted(w, u) == [w EXCEPT !.g.admittedAt[u] = 0]

LEMMA UnadmittedFields ==
  ASSUME NEW w, Fine(w), NEW u \in Turns
  PROVE  LET v == Unadmitted(w, u)
         IN /\ Fine(v) /\ v.g.state = w.g.state
            /\ v.file = w.file /\ v.wrote = w.wrote /\ v.unread = w.unread
            /\ v.g.tickets = w.g.tickets /\ v.g.waiters = w.g.waiters /\ v.g.over = w.g.over
            /\ v.g.waitingForTools = w.g.waitingForTools
            /\ v.g.probeTicket = w.g.probeTicket /\ v.g.lastAdmissionAt = w.g.lastAdmissionAt
            /\ v.g.timerAt = w.g.timerAt
            /\ \A x \in Turns \ {u} : v.g.admittedAt[x] = w.g.admittedAt[x]
            /\ DeadlineOK(w.g) => DeadlineOK(v.g)
<1>. DEFINE A == [w.g.admittedAt EXCEPT ![u] = 0]
            h == [w.g EXCEPT !.admittedAt = A]
<1>1. w.g \in Gate /\ Consistent(w.g) /\ IsFiniteSet(w.g.tickets)
  BY DEF Fine, Whole
<1>2. A \in [Turns -> Nat] /\ \A x \in Turns \ {u} : A[x] = w.g.admittedAt[x]
  BY <1>1 DEF Gate
<1>3. Unadmitted(w, u) = [w EXCEPT !.g = h]
  BY DEF Unadmitted
<1>. HIDE DEF A
<1>4. h \in Gate
  BY <1>1, <1>2 DEF Gate
<1>5. /\ h.state = w.g.state /\ h.waiters = w.g.waiters /\ h.over = w.g.over
      /\ h.tickets = w.g.tickets /\ h.waitingForTools = w.g.waitingForTools
      /\ h.accepted = w.g.accepted /\ h.probes = w.g.probes /\ h.probeTicket = w.g.probeTicket
      /\ h.admittedAt = A /\ h.lastAdmissionAt = w.g.lastAdmissionAt
      /\ h.timerAt = w.g.timerAt /\ h.enqueuedAt = w.g.enqueuedAt /\ h.waited = w.g.waited
  BY <1>1 DEF Gate
<1>. HIDE DEF h
<1>6. Whole(h)
  BY <1>1, <1>4, <1>5 DEF Whole, Consistent
<1>7. DeadlineOK(w.g) => DeadlineOK(h)
  BY <1>5 DEF DeadlineOK
<1>8. /\ Fine([w EXCEPT !.g = h]) /\ [w EXCEPT !.g = h].g = h
      /\ [w EXCEPT !.g = h].file = w.file
      /\ [w EXCEPT !.g = h].wrote = w.wrote /\ [w EXCEPT !.g = h].unread = w.unread
  BY <1>6, GateReplaced
<1>. QED
  BY <1>2, <1>3, <1>5, <1>7, <1>8

LEMMA RequeuedFine ==
  ASSUME now \in Nat \ {0}, NEW w, Fine(w), NEW u \in w.g.tickets
  PROVE  LET v == Awaited(Unadmitted(Pumped(Released(w, u)), u), u)
         IN Fine(v) /\ DeadlineOK(v.g)
<1>. DEFINE p == Pumped(Released(w, u))
            q == Unadmitted(p, u)
<1>1. /\ u \in Turns /\ Fine(p) /\ DeadlineOK(p.g)
      /\ u \notin p.g.tickets \cup p.g.waiters \cup p.g.over
  BY ReleasedPumped
<1>. HIDE DEF p
<1>2. /\ Fine(q) /\ DeadlineOK(q.g)
      /\ q.g.tickets = p.g.tickets /\ q.g.over = p.g.over
  BY <1>1, UnadmittedFields
<1>. HIDE DEF q
<1>3. Fine(Awaited(q, u)) /\ DeadlineOK(Awaited(q, u).g)
  BY <1>1, <1>2, AwaitedFine
<1>. QED
  BY <1>3 DEF q, p

TypeInv ==
  /\ GateTypeOK
  /\ \A d \in Daemons : IsFiniteSet(gate[d].tickets) /\ DeadlineOK(gate[d])

LEMMA ViewFine ==
  ASSUME TypeInv, NEW d \in Daemons
  PROVE  /\ Fine(View(d)) /\ View(d).g = gate[d] /\ View(d).file = file
         /\ View(d).unread = (d \in stale) /\ View(d).wrote = FALSE
         /\ now \in Nat \ {0} /\ DeadlineOK(gate[d]) /\ Whole(gate[d])
<1>1. /\ gate[d] \in Gate /\ Consistent(gate[d]) /\ IsFiniteSet(gate[d].tickets)
      /\ DeadlineOK(gate[d]) /\ file \in State /\ now \in 1 .. MaxTime
  BY DEF TypeInv, GateTypeOK
<1>2. now \in Nat \ {0}
  BY <1>1, Constants
<1>3. View(d).g = gate[d] /\ View(d).file = file
  BY DEF View
<1>4. View(d).unread = (d \in stale) /\ View(d).wrote = FALSE
  BY DEF View
<1>5. View(d) \in Works
  BY <1>1 DEF View, Works
<1>. QED
  BY <1>1, <1>2, <1>3, <1>4, <1>5 DEF Fine, Whole

LEMMA CommitTypes ==
  ASSUME TypeInv, NEW d \in Daemons, NEW w, Fine(w), DeadlineOK(w.g), Commit(d, w),
         heldByChatGpt' \in BOOLEAN
  PROVE  TypeInv'
<1>1. /\ gate' = [gate EXCEPT ![d] = w.g] /\ file' = w.file
      /\ now' = now /\ restarts' = restarts /\ clockSetBack' = clockSetBack
      /\ stale' \subseteq Daemons
  <2>1. stale \subseteq Daemons
    BY DEF TypeInv, GateTypeOK
  <2>. QED
    BY <2>1 DEF Commit
<1>2. w.g \in Gate /\ w.file \in State /\ Consistent(w.g) /\ IsFiniteSet(w.g.tickets)
  BY StateOf DEF Fine, Whole
<1>3. gate \in [Daemons -> Gate]
  BY DEF TypeInv, GateTypeOK
<1>4. \A e \in Daemons : gate'[e] = IF e = d THEN w.g ELSE gate[e]
  BY <1>1, <1>3
<1>5. gate' \in [Daemons -> Gate]
  BY <1>1, <1>2, <1>3
<1>6. ASSUME NEW e \in Daemons
      PROVE  Consistent(gate'[e]) /\ IsFiniteSet(gate'[e].tickets) /\ DeadlineOK(gate'[e])
  <2>1. Consistent(gate[e]) /\ IsFiniteSet(gate[e].tickets) /\ DeadlineOK(gate[e])
    BY DEF TypeInv, GateTypeOK
  <2>. QED
    BY <1>2, <1>4, <2>1
<1>7. GateTypeOK'
  <2>1. /\ now' \in 1 .. MaxTime /\ restarts' \in 0 .. MaxRestarts
        /\ {heldByChatGpt', clockSetBack'} \subseteq BOOLEAN
    BY <1>1 DEF TypeInv, GateTypeOK
  <2>2. file' \in State
    BY <1>1, <1>2
  <2>3. \A e \in Daemons : Consistent(gate'[e])
    BY <1>6
  <2>. HIDE DEF Gate
  <2>. QED
    BY <1>1, <1>5, <2>1, <2>2, <2>3 DEF GateTypeOK, Consistent
<1>8. \A e \in Daemons : (IsFiniteSet(gate[e].tickets) /\ DeadlineOK(gate[e]))'
  BY <1>6 DEF DeadlineOK
<1>. QED
  BY <1>7, <1>8 DEF TypeInv
LEMMA ToolsEdited ==
  ASSUME NEW w, Fine(w), NEW T \in SUBSET w.g.tickets
  PROVE  LET v == [w EXCEPT !.g.waitingForTools = T]
         IN /\ Fine(v) /\ v.g = [w.g EXCEPT !.waitingForTools = T]
            /\ v.file = w.file /\ v.wrote = w.wrote /\ v.unread = w.unread
<1>. DEFINE h == [w.g EXCEPT !.waitingForTools = T]
<1>1. w.g \in Gate /\ Consistent(w.g) /\ IsFiniteSet(w.g.tickets)
  BY DEF Fine, Whole
<1>2. T \in SUBSET Turns
  BY <1>1 DEF Gate
<1>3. h \in Gate
  BY <1>1, <1>2 DEF Gate
<1>4. /\ h.waiters = w.g.waiters /\ h.over = w.g.over
      /\ h.tickets = w.g.tickets /\ h.waitingForTools = T
      /\ h.accepted = w.g.accepted /\ h.probes = w.g.probes /\ h.probeTicket = w.g.probeTicket
  BY <1>1 DEF Gate
<1>5. [w EXCEPT !.g.waitingForTools = T] = [w EXCEPT !.g = h]
  OBVIOUS
<1>. HIDE DEF h
<1>6. Whole(h)
  BY <1>1, <1>3, <1>4 DEF Whole, Consistent
<1>7. /\ Fine([w EXCEPT !.g = h]) /\ [w EXCEPT !.g = h].g = h
      /\ [w EXCEPT !.g = h].file = w.file
      /\ [w EXCEPT !.g = h].wrote = w.wrote /\ [w EXCEPT !.g = h].unread = w.unread
  BY <1>6, GateReplaced
<1>. QED
  BY <1>5, <1>7 DEF h

LEMMA AcceptedEdited ==
  ASSUME NEW w, Fine(w), NEW u \in w.g.tickets
  PROVE  LET v == [w EXCEPT !.g.accepted = @ \cup {u}]
         IN /\ Fine(v) /\ v.g = [w.g EXCEPT !.accepted = @ \cup {u}]
            /\ v.file = w.file /\ v.wrote = w.wrote /\ v.unread = w.unread
<1>. DEFINE h == [w.g EXCEPT !.accepted = @ \cup {u}]
<1>1. w.g \in Gate /\ Consistent(w.g) /\ IsFiniteSet(w.g.tickets)
  BY DEF Fine, Whole
<1>2. u \in Turns
  BY <1>1 DEF Gate
<1>3. h \in Gate
  BY <1>1, <1>2 DEF Gate
<1>4. /\ h.waiters = w.g.waiters /\ h.over = w.g.over
      /\ h.tickets = w.g.tickets /\ h.waitingForTools = w.g.waitingForTools
      /\ h.accepted = w.g.accepted \cup {u} /\ h.probes = w.g.probes
      /\ h.probeTicket = w.g.probeTicket
  BY <1>1 DEF Gate
<1>5. [w EXCEPT !.g.accepted = @ \cup {u}] = [w EXCEPT !.g = h]
  OBVIOUS
<1>. HIDE DEF h
<1>6. Whole(h)
  BY <1>1, <1>3, <1>4 DEF Whole, Consistent
<1>7. /\ Fine([w EXCEPT !.g = h]) /\ [w EXCEPT !.g = h].g = h
      /\ [w EXCEPT !.g = h].file = w.file
      /\ [w EXCEPT !.g = h].wrote = w.wrote /\ [w EXCEPT !.g = h].unread = w.unread
  BY <1>6, GateReplaced
<1>. QED
  BY <1>5, <1>7 DEF h

LEMMA TimerEdited ==
  ASSUME NEW w, Fine(w), NEW t \in Nat
  PROVE  LET v == [w EXCEPT !.g.timerAt = t]
         IN /\ Fine(v) /\ v.g = [w.g EXCEPT !.timerAt = t]
            /\ v.file = w.file /\ v.wrote = w.wrote /\ v.unread = w.unread
<1>. DEFINE h == [w.g EXCEPT !.timerAt = t]
<1>1. w.g \in Gate /\ Consistent(w.g) /\ IsFiniteSet(w.g.tickets)
  BY DEF Fine, Whole
<1>3. h \in Gate
  BY <1>1 DEF Gate
<1>4. /\ h.waiters = w.g.waiters /\ h.over = w.g.over
      /\ h.tickets = w.g.tickets /\ h.waitingForTools = w.g.waitingForTools
      /\ h.accepted = w.g.accepted /\ h.probes = w.g.probes /\ h.probeTicket = w.g.probeTicket
  BY <1>1 DEF Gate
<1>5. [w EXCEPT !.g.timerAt = t] = [w EXCEPT !.g = h]
  OBVIOUS
<1>. HIDE DEF h
<1>6. Whole(h)
  BY <1>1, <1>3, <1>4 DEF Whole, Consistent
<1>7. /\ Fine([w EXCEPT !.g = h]) /\ [w EXCEPT !.g = h].g = h
      /\ [w EXCEPT !.g = h].file = w.file
      /\ [w EXCEPT !.g = h].wrote = w.wrote /\ [w EXCEPT !.g = h].unread = w.unread
  BY <1>6, GateReplaced
<1>. QED
  BY <1>5, <1>7 DEF h

\* The handlers' work, with the name of the daemon left out.
Toggled(w, u) ==
  IF u \in w.g.waitingForTools THEN w.g.waitingForTools \ {u} ELSE w.g.waitingForTools \cup {u}

LEMMA TurnStepTypes ==
  ASSUME TypeInv, NEW d \in Daemons, NEW u \in Turns, TurnStep(d, u)
  PROVE  TypeInv'
<1>. DEFINE w == View(d)
<1>1. /\ Fine(w) /\ w.g = gate[d] /\ now \in Nat \ {0} /\ DeadlineOK(w.g)
      /\ w.g \in Gate /\ Consistent(w.g)
  BY ViewFine, StateOf
<1>2. heldByChatGpt \in BOOLEAN
  BY DEF TypeInv, GateTypeOK
<1>3. u \in w.g.tickets => w.g.admittedAt[u] \in Nat
  BY <1>1 DEF Gate
<1>4. CASE Arrive(d, u)
  <2>1. u \notin w.g.tickets \cup w.g.over
    BY <1>1, <1>4 DEF Arrive
  <2>2. Fine(Awaited(w, u)) /\ DeadlineOK(Awaited(w, u).g)
    BY <1>1, <2>1, AwaitedFine
  <2>. QED
    BY <1>2, <1>4, <2>2, CommitTypes DEF Arrive
<1>5. CASE AbortWait(d, u)
  <2>. DEFINE v == [w EXCEPT !.g = Gone(@, {u})]
  <2>1. w.g.probeTicket \notin {u} /\ {u} \in SUBSET Turns
    BY <1>1, <1>5, NoTurnAssumption DEF AbortWait, Consistent
  <2>2. Fine(v)
    BY <1>1, <2>1, OverFields
  <2>. HIDE DEF v
  <2>3. Fine(Pumped(v)) /\ DeadlineOK(Pumped(v).g)
    BY <1>1, <2>2, PumpedFine
  <2>4. Commit(d, Pumped(v))
    BY <1>5 DEF AbortWait, v
  <2>. QED
    BY <1>2, <1>5, <2>3, <2>4, CommitTypes DEF AbortWait
<1>6. CASE ToolsWait(d, u)
  <2>. DEFINE v == [w EXCEPT !.g.waitingForTools = Toggled(w, u)]
  <2>1. Toggled(w, u) \in SUBSET w.g.tickets
    BY <1>1, <1>6 DEF ToolsWait, Toggled, Consistent
  <2>2. Fine(v)
    BY <1>1, <2>1, ToolsEdited
  <2>3. Commit(d, Pumped(v))
    BY <1>6 DEF ToolsWait, Toggled
  <2>. HIDE DEF v
  <2>4. Fine(Pumped(v)) /\ DeadlineOK(Pumped(v).g)
    BY <1>1, <2>2, PumpedFine
  <2>. QED
    BY <1>2, <1>6, <2>3, <2>4, CommitTypes DEF ToolsWait
<1>7. CASE Accept(d, u)
  <2>. DEFINE v == [w EXCEPT !.g.accepted = @ \cup {u}]
              q == ProbeAccepted(v, u)
  <2>1. u \in w.g.tickets
    BY <1>1, <1>7 DEF Accept
  <2>2. Fine(v)
    BY <1>1, <2>1, AcceptedEdited
  <2>3. Commit(d, Pumped(q))
    BY <1>7 DEF Accept
  <2>. HIDE DEF v
  <2>4. Fine(q)
    BY <1>1, <2>2, ProbeAcceptedFine
  <2>. HIDE DEF q
  <2>5. Fine(Pumped(q)) /\ DeadlineOK(Pumped(q).g)
    BY <1>1, <2>4, PumpedFine
  <2>. QED
    BY <1>2, <1>7, <2>3, <2>5, CommitTypes DEF Accept
<1>8. CASE Clean(d, u)
  <2>. DEFINE r == Recovered(w, u)
              q == Unfailed(r)
  <2>1. u \in w.g.tickets
    BY <1>1, <1>8 DEF Clean, Answering
  <2>2. Fine(r) /\ r.g.tickets = w.g.tickets
    BY <1>1, RecoveredFine DEF SameGate, SameQueue
  <2>3. Commit(d, Finished(q, u))
    BY <1>8 DEF Clean, FinishedClean, Finished
  <2>. HIDE DEF r
  <2>4. Fine(q) /\ q.g.tickets = w.g.tickets
    BY <1>1, <2>2, UnfailedFine DEF SameGate, SameQueue
  <2>. HIDE DEF q
  <2>5. Fine(Finished(q, u)) /\ DeadlineOK(Finished(q, u).g)
    BY <1>1, <2>1, <2>4, FinishedFine
  <2>. QED
    BY <1>2, <1>8, <2>3, <2>5, CommitTypes DEF Clean
<1>9. CASE GiveBack(d, u)
  <2>1. u \in w.g.tickets
    BY <1>1, <1>9 DEF GiveBack
  <2>2. Fine(Finished(w, u)) /\ DeadlineOK(Finished(w, u).g)
    BY <1>1, <2>1, FinishedFine
  <2>. QED
    BY <1>2, <1>9, <2>2, CommitTypes DEF GiveBack
<1>10. CASE Fail(d, u)
  <2>. DEFINE v == FailureRecorded(w, w.g.admittedAt[u])
  <2>1. u \in w.g.tickets
    BY <1>1, <1>10 DEF Fail, Answering
  <2>2. Fine(v) /\ w.g.tickets \subseteq v.g.tickets
    BY <1>1, <1>3, <2>1, FailureRecordedFine
  <2>3. Commit(d, Finished(v, u))
    BY <1>1, <1>10 DEF Fail
  <2>. HIDE DEF v
  <2>4. Fine(Finished(v, u)) /\ DeadlineOK(Finished(v, u).g)
    BY <1>1, <2>1, <2>2, FinishedFine
  <2>. QED
    BY <1>2, <1>10, <2>3, <2>4, CommitTypes DEF Fail
<1>11. CASE RateLimited(d, u)
  <2>. DEFINE v == RateLimitRecorded(w, w.g.admittedAt[u])
              q == Awaited(Unadmitted(Pumped(Released(v, u)), u), u)
  <2>1. u \in w.g.tickets
    BY <1>1, <1>11 DEF RateLimited, Answering
  <2>2. Fine(v) /\ w.g.tickets \subseteq v.g.tickets
    BY <1>1, <1>3, <2>1, RateLimitRecordedFine
  <2>3. Commit(d, Finished(v, u)) \/ Commit(d, q)
    BY <1>1, <1>11 DEF RateLimited, Unadmitted
  <2>. HIDE DEF v
  <2>4. Fine(Finished(v, u)) /\ DeadlineOK(Finished(v, u).g)
    BY <1>1, <2>1, <2>2, FinishedFine
  <2>5. Fine(q) /\ DeadlineOK(q.g)
    BY <1>1, <2>1, <2>2, RequeuedFine
  <2>. HIDE DEF q
  <2>6. heldByChatGpt' \in BOOLEAN
    BY <1>2, <1>11 DEF RateLimited
  <2>. QED
    BY <2>3, <2>4, <2>5, <2>6, CommitTypes
<1>12. CASE SeeHold(d, u)
  <2>. DEFINE v == HoldRecorded(w)
  <2>1. u \in w.g.tickets
    BY <1>1, <1>12 DEF SeeHold, Answering
  <2>2. Fine(v) /\ w.g.tickets \subseteq v.g.tickets
    BY <1>1, HoldRecordedFine
  <2>3. Commit(d, Finished(v, u))
    BY <1>12 DEF SeeHold
  <2>. HIDE DEF v
  <2>4. Fine(Finished(v, u)) /\ DeadlineOK(Finished(v, u).g)
    BY <1>1, <2>1, <2>2, FinishedFine
  <2>5. heldByChatGpt' \in BOOLEAN
    BY <1>12 DEF SeeHold
  <2>. QED
    BY <2>3, <2>4, <2>5, CommitTypes
<1>. QED
  BY <1>4, <1>5, <1>6, <1>7, <1>8, <1>9, <1>10, <1>11, <1>12 DEF TurnStep

LEMMA NewGateFields ==
  ASSUME NEW over \in SUBSET Turns
  PROVE  /\ Whole(NewGate(over)) /\ NewGate(over).state = emptyState /\ emptyState \in State
         /\ NewGate(over).waiters = {} /\ NewGate(over).tickets = {}
         /\ NewGate(over).lastAdmissionAt = 0
<1>1. emptyState \in State
  BY DEF emptyState, State
<1>. DEFINE z == [u \in Turns |-> 0]
            g == NewGate(over)
<1>2. z \in [Turns -> Nat]
  OBVIOUS
<1>3. g = [ state |-> emptyState, waiters |-> {}, seq |-> z, nextSeq |-> 1,
            enqueuedAt |-> z, waited |-> z, tickets |-> {}, waitingForTools |-> {},
            accepted |-> {}, probes |-> {}, admittedAt |-> z, probeTicket |-> NoTurn,
            lastAdmissionAt |-> 0, timerAt |-> Never, over |-> over ]
  BY DEF NewGate
<1>. HIDE DEF z, g
<1>4. g \in Gate
  BY <1>1, <1>2, <1>3, Constants DEF Gate
<1>5. /\ g.state = emptyState /\ g.waiters = {} /\ g.tickets = {} /\ g.waitingForTools = {}
      /\ g.accepted = {} /\ g.probes = {} /\ g.probeTicket = NoTurn /\ g.lastAdmissionAt = 0
  BY <1>3
<1>6. IsFiniteSet(g.tickets)
  BY <1>5, FS_EmptySet
<1>7. Consistent(g)
  BY <1>5 DEF Consistent
<1>. QED
  BY <1>1, <1>4, <1>5, <1>6, <1>7 DEF Whole, g

LEMMA InitTypes ==
  ASSUME GateInit
  PROVE  TypeInv
<1>1. /\ now = 1 /\ gate = [d \in Daemons |-> NewGate({})] /\ file = emptyState
      /\ stale = {} /\ restarts = 0 /\ heldByChatGpt = FALSE /\ clockSetBack = FALSE
  BY DEF GateInit
<1>2. /\ Whole(NewGate({})) /\ NewGate({}).waiters = {} /\ emptyState \in State
  BY NewGateFields
<1>3. NewGate({}) \in Gate /\ Consistent(NewGate({})) /\ IsFiniteSet(NewGate({}).tickets)
  BY <1>2 DEF Whole
<1>4. DeadlineOK(NewGate({}))
  BY <1>2 DEF DeadlineOK
<1>5. gate \in [Daemons -> Gate]
  BY <1>1, <1>3
<1>6. \A d \in Daemons : /\ Consistent(gate[d]) /\ IsFiniteSet(gate[d].tickets)
                         /\ DeadlineOK(gate[d])
  BY <1>1, <1>3, <1>4
<1>7. now \in 1 .. MaxTime /\ restarts \in 0 .. MaxRestarts
  BY <1>1, Constants
<1>. QED
  BY <1>1, <1>2, <1>5, <1>6, <1>7 DEF TypeInv, GateTypeOK

\* What a process that starts knows: the record of the file, if there is one.
RestartedWork(lost) == [g |-> NewGate(lost), file |-> file, wrote |-> FALSE, unread |-> TRUE]

LEMMA RestartedFields ==
  ASSUME now \in Nat, file \in State, NEW lost \in SUBSET Turns
  PROVE  LET r == Refreshed(RestartedWork(lost))
         IN /\ Fine(r) /\ r.g.waiters = {} /\ r.g.tickets = {} /\ r.g.lastAdmissionAt = 0
            /\ DeadlineOK(r.g)
            /\ r.g.state = IF file.updatedAt > 0 THEN Normalized(file) ELSE emptyState
<1>. DEFINE w == RestartedWork(lost)
            r == Refreshed(w)
<1>1. /\ Whole(NewGate(lost)) /\ NewGate(lost).state = emptyState
      /\ NewGate(lost).waiters = {} /\ NewGate(lost).tickets = {}
      /\ NewGate(lost).lastAdmissionAt = 0
  BY NewGateFields
<1>2. w.g = NewGate(lost) /\ w.file = file /\ w.unread = TRUE
  BY DEF RestartedWork
<1>3. w \in Works
  BY <1>1 DEF RestartedWork, Works, Whole
<1>4. Fine(w)
  BY <1>1, <1>2, <1>3 DEF Fine
<1>. HIDE DEF w
<1>5. Fine(r) /\ SameGate(w.g, r.g) /\ r.g.state = Known(w)
  BY <1>4, RefreshedFine
<1>6. Known(w) = IF file.updatedAt > 0 THEN Normalized(file) ELSE emptyState
  BY <1>1, <1>2 DEF Known, emptyState
<1>. HIDE DEF r
<1>7. r.g.waiters = {} /\ r.g.tickets = {} /\ r.g.lastAdmissionAt = 0
  BY <1>1, <1>2, <1>5 DEF SameGate, SameQueue
<1>. QED
  BY <1>5, <1>6, <1>7 DEF DeadlineOK, r, w

LEMMA RestartTypes ==
  ASSUME TypeInv, NEW d \in Daemons, Restart(d)
  PROVE  TypeInv'
<1>. DEFINE lost == gate[d].over \cup gate[d].waiters \cup gate[d].tickets
            r == Refreshed(RestartedWork(lost))
<1>1. /\ Whole(gate[d]) /\ now \in Nat /\ file \in State /\ gate \in [Daemons -> Gate]
  BY ViewFine DEF TypeInv, GateTypeOK
<1>2. lost \in SUBSET Turns
  BY <1>1 DEF Whole, Gate
<1>3. /\ gate' = [gate EXCEPT ![d] = r.g] /\ stale' = stale \ {d} /\ restarts' = restarts + 1
      /\ restarts < MaxRestarts /\ now' = now /\ file' = file
      /\ heldByChatGpt' = heldByChatGpt /\ clockSetBack' = clockSetBack
  BY DEF Restart, RestartedWork
<1>. HIDE DEF lost
<1>4. Fine(r) /\ DeadlineOK(r.g)
  BY <1>1, <1>2, RestartedFields
<1>. HIDE DEF r
<1>5. r.g \in Gate /\ Consistent(r.g) /\ IsFiniteSet(r.g.tickets)
  BY <1>4 DEF Fine, Whole
<1>6. gate' \in [Daemons -> Gate]
  BY <1>1, <1>3, <1>5
<1>7. \A e \in Daemons : gate'[e] = IF e = d THEN r.g ELSE gate[e]
  BY <1>1, <1>3
<1>8. ASSUME NEW e \in Daemons
      PROVE  Consistent(gate'[e]) /\ IsFiniteSet(gate'[e].tickets) /\ DeadlineOK(gate'[e])
  <2>1. Consistent(gate[e]) /\ IsFiniteSet(gate[e].tickets) /\ DeadlineOK(gate[e])
    BY DEF TypeInv, GateTypeOK
  <2>. QED
    BY <1>4, <1>5, <1>7, <2>1
<1>9. /\ now' \in 1 .. MaxTime /\ restarts' \in 0 .. MaxRestarts /\ stale' \subseteq Daemons
      /\ {heldByChatGpt', clockSetBack'} \subseteq BOOLEAN /\ file' \in State
  BY <1>1, <1>3, Constants DEF TypeInv, GateTypeOK
<1>10. \A e \in Daemons : Consistent(gate'[e])
  BY <1>8
<1>11. GateTypeOK'
  BY <1>6, <1>9, <1>10 DEF GateTypeOK, Consistent
<1>12. \A e \in Daemons : (IsFiniteSet(gate[e].tickets) /\ DeadlineOK(gate[e]))'
  BY <1>8 DEF DeadlineOK
<1>. QED
  BY <1>11, <1>12 DEF TypeInv

\* The timer of a gate when the clock goes k back.
Earlier(t, k) == IF t = Never THEN t ELSE IF t <= k THEN 0 ELSE t - k

LEMMA SetClockBackTypes ==
  ASSUME TypeInv, SetClockBack
  PROVE  TypeInv'
<1>1. PICK k \in 1 .. MaxClockSetBack :
        /\ k < now /\ now' = now - k
        /\ gate' = [d \in Daemons |->
             [gate[d] EXCEPT !.timerAt = IF @ = Never THEN @ ELSE IF @ <= k THEN 0 ELSE @ - k]]
        /\ clockSetBack' = TRUE /\ file' = file /\ stale' = stale
        /\ restarts' = restarts /\ heldByChatGpt' = heldByChatGpt
  BY DEF SetClockBack
<1>2. k \in Nat
  BY Constants
<1>3. ASSUME NEW d \in Daemons
      PROVE  Whole(gate'[d]) /\ DeadlineOK(gate'[d])
  <2>. DEFINE t == Earlier(gate[d].timerAt, k)
              h == [gate[d] EXCEPT !.timerAt = t]
  <2>1. Whole(gate[d]) /\ DeadlineOK(gate[d]) /\ gate[d] \in Gate
    BY ViewFine DEF Whole
  <2>2. gate[d].timerAt \in Nat
    BY <2>1 DEF Gate
  <2>3. t \in Nat /\ t <= gate[d].timerAt
    BY <1>2, <2>2 DEF Earlier
  <2>4. gate'[d] = h
    BY <1>1 DEF Earlier
  <2>. HIDE DEF t
  <2>5. h \in Gate
    BY <2>1, <2>3 DEF Gate
  <2>6. /\ h.waiters = gate[d].waiters /\ h.tickets = gate[d].tickets /\ h.over = gate[d].over
        /\ h.waitingForTools = gate[d].waitingForTools /\ h.accepted = gate[d].accepted
        /\ h.probes = gate[d].probes /\ h.probeTicket = gate[d].probeTicket
        /\ h.waited = gate[d].waited /\ h.enqueuedAt = gate[d].enqueuedAt /\ h.timerAt = t
    BY <2>1 DEF Gate
  <2>. HIDE DEF h
  <2>7. Whole(h)
    BY <2>1, <2>5, <2>6 DEF Whole, Consistent
  <2>8. ASSUME NEW u \in gate[d].waiters
        PROVE  t + gate[d].waited[u] <= gate[d].enqueuedAt[u] + MaxWait
    <3>1. gate[d].waited[u] \in Nat /\ gate[d].enqueuedAt[u] \in Nat
      BY <2>1 DEF Gate
    <3>2. gate[d].timerAt + gate[d].waited[u] <= gate[d].enqueuedAt[u] + MaxWait
      BY <2>1 DEF DeadlineOK
    <3>. QED
      BY <2>2, <2>3, <3>1, <3>2, Constants
  <2>9. DeadlineOK(h)
    BY <2>6, <2>8 DEF DeadlineOK
  <2>. QED
    BY <2>4, <2>7, <2>9
<1>4. \A d \in Daemons : gate'[d] \in Gate /\ Consistent(gate'[d]) /\ IsFiniteSet(gate'[d].tickets)
  BY <1>3 DEF Whole
<1>5. gate' = [d \in Daemons |-> gate'[d]]
  BY <1>1
<1>6. gate' \in [Daemons -> Gate]
  BY <1>4, <1>5
<1>7. /\ now' \in 1 .. MaxTime /\ restarts' \in 0 .. MaxRestarts /\ stale' \subseteq Daemons
      /\ {heldByChatGpt', clockSetBack'} \subseteq BOOLEAN /\ file' \in State
  BY <1>1, <1>2, Constants DEF TypeInv, GateTypeOK
<1>8. GateTypeOK'
  BY <1>4, <1>6, <1>7 DEF GateTypeOK, Consistent
<1>9. \A d \in Daemons : (IsFiniteSet(gate[d].tickets) /\ DeadlineOK(gate[d]))'
  BY <1>3, <1>4 DEF DeadlineOK
<1>. QED
  BY <1>8, <1>9 DEF TypeInv

LEMMA StepTypes ==
  ASSUME TypeInv, [GateNext]_gateVars
  PROVE  TypeInv'
<1>0. heldByChatGpt \in BOOLEAN
  BY DEF TypeInv, GateTypeOK
<1>1. ASSUME NEW d \in Daemons, NEW u \in Turns, TurnStep(d, u)
      PROVE  TypeInv'
  BY <1>1, TurnStepTypes
<1>2. ASSUME NEW d \in Daemons, ClearHold(d)
      PROVE  TypeInv'
  <2>. DEFINE r == Refreshed(View(d))
              v == Saved(r, HeldState(r.g.state, FALSE))
  <2>1. /\ Fine(View(d)) /\ now \in Nat \ {0} /\ View(d).g = gate[d] /\ DeadlineOK(gate[d])
    BY ViewFine
  <2>2. Fine(r) /\ SameGate(View(d).g, r.g)
    BY <2>1, RefreshedFine
  <2>3. [r EXCEPT !.g.state.held = FALSE] = [r EXCEPT !.g.state = HeldState(r.g.state, FALSE)]
    BY DEF HeldState
  <2>4. Commit(d, IF r.g.state.held THEN Pumped(v) ELSE r) /\ heldByChatGpt' = FALSE
    BY <1>2, <2>3 DEF ClearHold, Saved
  <2>. HIDE DEF r
  <2>5. HeldState(r.g.state, FALSE) \in State
    BY <2>2, StateOf, HeldStateFields
  <2>6. Fine(v)
    BY <2>1, <2>2, <2>5, SavedFields
  <2>. HIDE DEF v
  <2>7. Fine(Pumped(v)) /\ DeadlineOK(Pumped(v).g)
    BY <2>1, <2>6, PumpedFine
  <2>8. DeadlineOK(r.g)
    BY <2>1, <2>2 DEF SameGate, SameQueue, DeadlineOK
  <2>9. CASE r.g.state.held
    BY <2>4, <2>7, <2>9, CommitTypes
  <2>10. CASE ~r.g.state.held
    BY <2>2, <2>4, <2>8, <2>10, CommitTypes
  <2>. QED
    BY <2>9, <2>10
<1>3. ASSUME NEW d \in Daemons, Look(d)
      PROVE  TypeInv'
  <2>1. /\ Fine(View(d)) /\ now \in Nat \ {0} /\ View(d).g = gate[d] /\ DeadlineOK(gate[d])
    BY ViewFine
  <2>2. Fine(Current(View(d))) /\ SameGate(View(d).g, Current(View(d)).g)
    BY <2>1, CurrentFine
  <2>3. DeadlineOK(Current(View(d)).g)
    BY <2>1, <2>2 DEF SameGate, SameQueue, DeadlineOK
  <2>. QED
    BY <1>0, <1>3, <2>2, <2>3, CommitTypes DEF Look
<1>4. ASSUME NEW d \in Daemons, Wake(d)
      PROVE  TypeInv'
  <2>. DEFINE v == [View(d) EXCEPT !.g.timerAt = Never]
  <2>1. Fine(View(d)) /\ now \in Nat \ {0}
    BY ViewFine
  <2>2. Fine(v)
    BY <2>1, TimerEdited, Constants
  <2>3. Commit(d, Pumped(v)) /\ heldByChatGpt' = heldByChatGpt
    BY <1>4 DEF Wake
  <2>. HIDE DEF v
  <2>4. Fine(Pumped(v)) /\ DeadlineOK(Pumped(v).g)
    BY <2>1, <2>2, PumpedFine
  <2>. QED
    BY <1>0, <2>3, <2>4, CommitTypes
<1>5. ASSUME NEW d \in Daemons, Restart(d)
      PROVE  TypeInv'
  BY <1>5, RestartTypes
<1>6. CASE Tick
  <2>1. now' \in 1 .. MaxTime
    BY <1>6, Constants DEF Tick, TypeInv, GateTypeOK
  <2>. QED
    BY <1>6, <2>1 DEF Tick, TypeInv, GateTypeOK, Consistent, DeadlineOK
<1>7. CASE SetClockBack
  BY <1>7, SetClockBackTypes
<1>8. CASE UNCHANGED gateVars
  BY <1>8 DEF gateVars, TypeInv, GateTypeOK, Consistent, DeadlineOK
<1>. QED
  BY <1>1, <1>2, <1>3, <1>4, <1>5, <1>6, <1>7, <1>8 DEF GateNext

\* The admission gate keeps its types, a turn is in one place, and the probe is a turn that runs,
\* for any number of daemons (the handlers of rate-limit-gate.ts).
THEOREM GateTypeCorrect == GateSpec => []GateTypeOK
<1>1. GateInit => TypeInv
  BY InitTypes
<1>2. TypeInv /\ [GateNext]_gateVars => TypeInv'
  BY StepTypes
<1>3. TypeInv => GateTypeOK
  BY DEF TypeInv
<1>. QED
  BY <1>1, <1>2, <1>3, PTL DEF GateSpec

\* "RATE_LIMIT_MAX_WAIT": a waiter's timer never lies behind the end of its wait, counted over all
\* its requeues, for any number of daemons (pumpOnce's wakeAt, schedule).
THEOREM NobodyWaitsTooLong == GateSpec => [](\A d \in Daemons : DeadlineOK(gate[d]))
<1>1. GateInit => TypeInv
  BY InitTypes
<1>2. TypeInv /\ [GateNext]_gateVars => TypeInv'
  BY StepTypes
<1>3. TypeInv => \A d \in Daemons : DeadlineOK(gate[d])
  BY DEF TypeInv
<1>. QED
  BY <1>1, <1>2, <1>3, PTL DEF GateSpec

RecoveryOK(s) ==
  /\ s.recoveryStartedAt <= MaxTime
  /\ s.recovering /\ ~s.probeRequired => s.recoveryStartedAt > 0

IncidentOK(s) ==
  /\ s.incidents \subseteq 1 .. s.incidentStartedAt
  /\ \A i, j \in s.incidents : i < j => i + BaseCooldown < j
  /\ Cardinality(s.incidents) >= IncidentStopCount =>
       s.stoppedUntil >= s.incidentStartedAt + IncidentWindow
  /\ s.incidentStartedAt <= s.lastLimitAt /\ s.lastLimitAt <= now
  /\ s.incidentStartedAt > 0 =>
       /\ s.until >= s.incidentStartedAt + BaseCooldown
       /\ s.tier = 0 => now > s.incidentStartedAt + BaseCooldown
  /\ s.until <= now + MaxCooldown /\ s.stoppedUntil <= now + IncidentWindow

StateOK(s) == RecoveryOK(s) /\ (clockSetBack \/ IncidentOK(s))

SameRecord(s, f) ==
  /\ s.updatedAt = f.updatedAt /\ s.held = f.held
  /\ clockSetBack \/ (s.until = f.until /\ s.stoppedUntil = f.stoppedUntil)
  /\ s.updatedAt = 0 => ~s.held /\ s.until = 0 /\ s.stoppedUntil = 0

TicketsOK(g) ==
  clockSetBack \/
    /\ g.lastAdmissionAt <= now
    /\ \A u \in g.tickets :
         /\ g.admittedAt[u] <= g.lastAdmissionAt
         /\ g.state.incidentStartedAt > 0 /\ g.admittedAt[u] >= g.state.incidentStartedAt =>
              g.admittedAt[u] >= g.state.incidentStartedAt + BaseCooldown
         /\ g.state.probeRequired /\ g.admittedAt[u] > g.state.incidentStartedAt =>
              u = g.probeTicket

Soon(g) == g.timerAt <= Max({now, g.state.recoveryStartedAt}) + RampInterval

Blocked(g) ==
  LET s == g.state IN
  \/ now < s.until /\ g.timerAt <= s.until /\ g.timerAt <= now + MaxCooldown
  \/ Cardinality(g.tickets) >= MaxTabs
  \/ s.probeRequired /\ g.probeTicket # NoTurn
  \/ /\ ~s.probeRequired /\ ~s.recovering
     /\ Cardinality(g.tickets \ g.waitingForTools) >= MaxConcurrency
  \/ /\ g.lastAdmissionAt > 0 /\ now < g.lastAdmissionAt + Spacing(s)
     /\ g.timerAt <= g.lastAdmissionAt + RecoverySpacing

WakeOK(g) == g.waiters # {} => Soon(g) \/ Blocked(g)

GateInv ==
  /\ stale = {} /\ StateOK(file) /\ (heldByChatGpt => file.held)
  /\ \A d \in Daemons : /\ StateOK(gate[d].state) /\ SameRecord(gate[d].state, file)
                        /\ TicketsOK(gate[d]) /\ WakeOK(gate[d])

\* Time alone ends an escalation only after the longest pause and a quiet period.
LEMMA NormalizedTier ==
  ASSUME now \in Nat, NEW s \in State
  PROVE  /\ Normalized(s).recovering => s.recovering
         /\ Normalized(s).tier = 0 => s.tier = 0 \/ now > s.lastLimitAt + MaxCooldown
<1>. DEFINE quiet == s.lastLimitAt > 0 /\ now > s.lastLimitAt + MaxCooldown + QuietPeriod
            ramped == ~s.probeRequired /\ s.recoveryStartedAt > 0 /\ Limit(s) >= MaxConcurrency
<1>1. Normalized(s).recovering = (s.recovering /\ ~quiet /\ ~ramped)
  BY DEF Normalized, State
<1>2. Normalized(s).tier = IF quiet THEN 0 ELSE s.tier
  BY DEF Normalized, State
<1>3. quiet => now > s.lastLimitAt + MaxCooldown
  BY Constants DEF State
<1>. QED
  BY <1>1, <1>2, <1>3

LEMMA FewerIncidents ==
  ASSUME NEW n \in Nat, NEW S \in SUBSET (1 .. n), NEW T \in SUBSET S
  PROVE  /\ IsFiniteSet(S) /\ IsFiniteSet(T) /\ Cardinality(S) \in Nat /\ Cardinality(T) \in Nat
         /\ Cardinality(T) <= Cardinality(S)
<1>1. IsFiniteSet(1 .. n)
  BY FS_Interval
<1>2. IsFiniteSet(S)
  BY <1>1, FS_Subset
<1>3. IsFiniteSet(T) /\ Cardinality(T) <= Cardinality(S)
  BY <1>2, FS_Subset
<1>. QED
  BY <1>2, <1>3, FS_CardinalityType

\* Two states that differ in what no invariant is about.
LEMMA SameStateOK ==
  ASSUME NEW s, NEW t, StateOK(s),
         t.until = s.until, t.stoppedUntil = s.stoppedUntil, t.tier = s.tier,
         t.incidents = s.incidents, t.lastLimitAt = s.lastLimitAt,
         t.incidentStartedAt = s.incidentStartedAt, t.probeRequired = s.probeRequired,
         t.recovering = s.recovering, t.recoveryStartedAt = s.recoveryStartedAt
  PROVE  StateOK(t)
BY DEF StateOK, RecoveryOK, IncidentOK

LEMMA StampedOK ==
  ASSUME now \in Nat, NEW s \in State, StateOK(s)
  PROVE  LET t == Stamped(s)
         IN /\ t \in State /\ StateOK(t) /\ t.updatedAt > 0
            /\ t.held = s.held /\ t.until = s.until /\ t.stoppedUntil = s.stoppedUntil
            /\ t.incidentStartedAt = s.incidentStartedAt /\ t.probeRequired = s.probeRequired
<1>. DEFINE t == Stamped(s)
<1>1. t \in State /\ t.updatedAt > s.updatedAt /\ s.updatedAt \in Nat
  BY StampedFields DEF State
<1>2. t = [s EXCEPT !.updatedAt = t.updatedAt]
  BY StampedFields
<1>. HIDE DEF t
<1>3. /\ t.until = s.until /\ t.stoppedUntil = s.stoppedUntil /\ t.tier = s.tier
      /\ t.incidents = s.incidents /\ t.lastLimitAt = s.lastLimitAt
      /\ t.incidentStartedAt = s.incidentStartedAt
      /\ t.recoveryStartedAt = s.recoveryStartedAt
  BY <1>1, <1>2 DEF State
<1>4. t.held = s.held /\ t.probeRequired = s.probeRequired /\ t.recovering = s.recovering
  BY <1>1, <1>2 DEF State
<1>5. StateOK(t)
  BY <1>3, <1>4, SameStateOK
<1>6. t.updatedAt > 0
  BY <1>1 DEF State
<1>. QED
  BY <1>1, <1>3, <1>4, <1>5, <1>6 DEF t

LEMMA NormalizedOK ==
  ASSUME now \in Nat, NEW s \in State, StateOK(s)
  PROVE  LET t == Normalized(s)
         IN /\ StateOK(t)
            /\ clockSetBack \/ (t.until = s.until /\ t.stoppedUntil = s.stoppedUntil)
            /\ s.until = 0 => t.until = 0
            /\ s.stoppedUntil = 0 => t.stoppedUntil = 0
<1>. DEFINE t == Normalized(s)
<1>1. /\ t \in State
      /\ t.until = Least(s.until, now + MaxCooldown)
      /\ t.stoppedUntil = Least(s.stoppedUntil, now + IncidentWindow)
      /\ t.incidents = RecentIncidents(s)
      /\ t.tier \in {0, s.tier}
      /\ t.incidentStartedAt = s.incidentStartedAt
      /\ t.lastLimitAt = s.lastLimitAt
      /\ t.probeRequired = s.probeRequired
      /\ t.recoveryStartedAt = s.recoveryStartedAt
  BY NormalizedFields
<1>2. /\ t.recovering => s.recovering
      /\ t.tier = 0 => s.tier = 0 \/ now > s.lastLimitAt + MaxCooldown
  BY NormalizedTier
<1>. HIDE DEF t
<1>3. /\ s.until \in Nat /\ s.stoppedUntil \in Nat /\ now + MaxCooldown \in Nat
      /\ now + IncidentWindow \in Nat /\ s.incidentStartedAt \in Nat /\ s.lastLimitAt \in Nat
      /\ BaseCooldown \in Nat /\ MaxCooldown \in Nat /\ BaseCooldown <= MaxCooldown
      /\ IncidentWindow \in Nat
  BY Constants DEF State
<1>4. /\ t.until = IF s.until <= now + MaxCooldown THEN s.until ELSE now + MaxCooldown
      /\ t.stoppedUntil = IF s.stoppedUntil <= now + IncidentWindow THEN s.stoppedUntil
                          ELSE now + IncidentWindow
  BY <1>1, <1>3, LeastOfTwo
<1>5. RecoveryOK(t)
  BY <1>1, <1>2 DEF StateOK, RecoveryOK
<1>6. ASSUME ~clockSetBack
      PROVE  IncidentOK(t) /\ t.until = s.until /\ t.stoppedUntil = s.stoppedUntil
  <2>1. IncidentOK(s)
    BY <1>6 DEF StateOK
  <2>2. t.until = s.until /\ t.stoppedUntil = s.stoppedUntil
    BY <1>3, <1>4, <2>1 DEF IncidentOK
  <2>3. t.incidents \subseteq s.incidents
    BY <1>1 DEF RecentIncidents
  <2>4. s.incidents \in SUBSET (1 .. s.incidentStartedAt)
    BY <2>1 DEF IncidentOK
  <2>5. /\ Cardinality(t.incidents) <= Cardinality(s.incidents)
        /\ Cardinality(t.incidents) \in Nat /\ Cardinality(s.incidents) \in Nat
    BY <1>3, <2>3, <2>4, FewerIncidents
  <2>6. Cardinality(t.incidents) >= IncidentStopCount =>
          t.stoppedUntil >= t.incidentStartedAt + IncidentWindow
    BY <1>1, <2>1, <2>2, <2>5, Constants DEF IncidentOK
  <2>7. t.incidentStartedAt > 0 =>
          /\ t.until >= t.incidentStartedAt + BaseCooldown
          /\ t.tier = 0 => now > t.incidentStartedAt + BaseCooldown
    BY <1>1, <1>2, <1>3, <2>1, <2>2 DEF IncidentOK
  <2>8. /\ t.incidents \subseteq 1 .. t.incidentStartedAt
        /\ \A i, j \in t.incidents : i < j => i + BaseCooldown < j
        /\ t.incidentStartedAt <= t.lastLimitAt /\ t.lastLimitAt <= now
        /\ t.until <= now + MaxCooldown /\ t.stoppedUntil <= now + IncidentWindow
    BY <1>1, <2>1, <2>2, <2>3 DEF IncidentOK
  <2>. QED
    BY <2>2, <2>6, <2>7, <2>8 DEF IncidentOK
<1>7. /\ s.until = 0 => t.until = 0
      /\ s.stoppedUntil = 0 => t.stoppedUntil = 0
  BY <1>3, <1>4
<1>. QED
  BY <1>5, <1>6, <1>7 DEF StateOK, t

LEMMA TicketsKept ==
  ASSUME NEW g, NEW h, TicketsOK(g), h.tickets \subseteq g.tickets,
         \A u \in h.tickets : h.admittedAt[u] = g.admittedAt[u],
         h.lastAdmissionAt = g.lastAdmissionAt,
         h.state.incidentStartedAt = g.state.incidentStartedAt,
         h.state.probeRequired => g.state.probeRequired,
         h.probeTicket = g.probeTicket \/ g.probeTicket \notin h.tickets
  PROVE  TicketsOK(h)
BY DEF TicketsOK

\* What a single daemon's handler works on.
Sound(w) ==
  /\ Fine(w) /\ w.unread = FALSE
  /\ StateOK(w.g.state) /\ StateOK(w.file) /\ SameRecord(w.g.state, w.file)
  /\ TicketsOK(w.g)

\* From v to w no pause is shortened, and a hold stands and lets no turn go.
Keeps(v, w) ==
  /\ clockSetBack \/ /\ w.g.state.until >= v.g.state.until
                     /\ w.g.state.stoppedUntil >= v.g.state.stoppedUntil
  /\ v.g.state.held => w.g.state.held /\ w.g.tickets \subseteq v.g.tickets

LEMMA KeepsTransitive ==
  ASSUME NEW u, NEW v, NEW w, Fine(u), Fine(v), Fine(w), Keeps(u, v), Keeps(v, w)
  PROVE  Keeps(u, w)
<1>1. /\ u.g.state.until \in Nat /\ v.g.state.until \in Nat /\ w.g.state.until \in Nat
      /\ u.g.state.stoppedUntil \in Nat /\ v.g.state.stoppedUntil \in Nat
      /\ w.g.state.stoppedUntil \in Nat
  BY StateOf DEF State
<1>. QED
  BY <1>1 DEF Keeps

LEMMA CurrentSound ==
  ASSUME now \in Nat, NEW w, Sound(w)
  PROVE  LET c == Current(w)
         IN /\ Sound(c) /\ Keeps(w, c) /\ SameGate(w.g, c.g)
            /\ c.g.state = Normalized(w.g.state) /\ c.file = w.file
<1>. DEFINE c == Current(w)
            t == Normalized(w.g.state)
<1>1. Fine(w) /\ w.unread = FALSE /\ w.g.state \in State /\ StateOK(w.g.state)
  BY StateOf DEF Sound
<1>2. Known(w) = w.g.state
  BY <1>1 DEF Known
<1>3. Fine(c) /\ SameGate(w.g, c.g) /\ c.g.state = t /\ c.file = w.file /\ c.unread = FALSE
  BY <1>1, <1>2, CurrentFine
<1>4. /\ StateOK(t)
      /\ clockSetBack \/ (t.until = w.g.state.until /\ t.stoppedUntil = w.g.state.stoppedUntil)
      /\ w.g.state.until = 0 => t.until = 0
      /\ w.g.state.stoppedUntil = 0 => t.stoppedUntil = 0
  BY <1>1, NormalizedOK
<1>5. /\ t.held = w.g.state.held /\ t.updatedAt = w.g.state.updatedAt
      /\ t.probeRequired = w.g.state.probeRequired
      /\ t.incidentStartedAt = w.g.state.incidentStartedAt
  BY <1>1, NormalizedFields
<1>6. w.g.state.until \in Nat /\ w.g.state.stoppedUntil \in Nat
  BY <1>1 DEF State
<1>. HIDE DEF c, t
<1>7. SameRecord(t, w.file)
  BY <1>4, <1>5 DEF Sound, SameRecord
<1>8. TicketsOK(c.g)
  <2>1. TicketsOK(w.g)
    BY DEF Sound
  <2>. QED
    BY <1>3, <1>5, <2>1, TicketsKept DEF SameGate, SameQueue
<1>9. Sound(c)
  BY <1>3, <1>4, <1>7, <1>8 DEF Sound
<1>10. Keeps(w, c)
  BY <1>3, <1>4, <1>5, <1>6 DEF Keeps, SameGate, SameQueue
<1>. QED
  BY <1>3, <1>9, <1>10 DEF c, t
LEMMA SavedAlone ==
  ASSUME now \in Nat, NEW w, Sound(w), NEW s \in State, StateOK(s),
         s.incidentStartedAt = w.g.state.incidentStartedAt,
         s.probeRequired => w.g.state.probeRequired
  PROVE  LET v == Saved(w, s)
         IN /\ Sound(v) /\ SameGate(w.g, v.g) /\ v.g.state = Stamped(s)
            /\ v.g.state.held = s.held
            /\ v.g.state.until = s.until /\ v.g.state.stoppedUntil = s.stoppedUntil
<1>. DEFINE v == Saved(w, s)
            t == Stamped(s)
<1>1. Fine(w)
  BY DEF Sound
<1>2. /\ Fine(v) /\ SameGate(w.g, v.g) /\ v.g.state = t /\ v.file = t /\ v.unread = FALSE
  BY <1>1, SavedFields
<1>3. /\ t \in State /\ StateOK(t) /\ t.updatedAt > 0
      /\ t.held = s.held /\ t.until = s.until /\ t.stoppedUntil = s.stoppedUntil
      /\ t.incidentStartedAt = s.incidentStartedAt /\ t.probeRequired = s.probeRequired
  BY StampedOK
<1>. HIDE DEF v, t
<1>4. SameRecord(t, t)
  BY <1>3 DEF SameRecord
<1>5. TicketsOK(v.g)
  <2>1. TicketsOK(w.g)
    BY DEF Sound
  <2>. QED
    BY <1>2, <1>3, <2>1, TicketsKept DEF SameGate, SameQueue
<1>6. Sound(v)
  BY <1>2, <1>3, <1>4, <1>5 DEF Sound
<1>. QED
  BY <1>2, <1>3, <1>6 DEF v, t

LEMMA SavedSound ==
  ASSUME now \in Nat, NEW w, Sound(w), NEW s \in State, StateOK(s),
         w.g.state.held => s.held,
         clockSetBack \/ (s.until >= w.g.state.until /\ s.stoppedUntil >= w.g.state.stoppedUntil),
         s.incidentStartedAt = w.g.state.incidentStartedAt,
         s.probeRequired => w.g.state.probeRequired
  PROVE  LET v == Saved(w, s)
         IN /\ Sound(v) /\ Keeps(w, v) /\ SameGate(w.g, v.g) /\ v.g.state = Stamped(s)
            /\ v.g.state.held = s.held
<1>. DEFINE v == Saved(w, s)
<1>1. /\ Sound(v) /\ SameGate(w.g, v.g) /\ v.g.state = Stamped(s)
      /\ v.g.state.held = s.held
      /\ v.g.state.until = s.until /\ v.g.state.stoppedUntil = s.stoppedUntil
  BY SavedAlone
<1>. HIDE DEF v
<1>2. Keeps(w, v)
  BY <1>1 DEF Keeps, SameGate, SameQueue
<1>. QED
  BY <1>1, <1>2 DEF v

LEMMA RampIsNear ==
  ASSUME now \in Nat, NEW s \in State, s.recovering, ~s.probeRequired, s.recoveryStartedAt > 0
  PROVE  NextRampAt(s) <= Max({now, s.recoveryStartedAt}) + RampInterval
<1>. DEFINE r == s.recoveryStartedAt
            n == RampSteps(s)
<1>1. r \in Nat /\ RampInterval \in Nat \ {0} /\ n \in Nat
  BY RampTypes, Constants
<1>2. Max({now, r}) \in Nat /\ Max({now, r}) = IF now >= r THEN now ELSE r
  BY <1>1, LatestOfTwo
<1>3. NextRampAt(s) = r + (n + 1) * RampInterval
  BY DEF NextRampAt
<1>4. n = IF now <= r THEN 0 ELSE (now - r) \div RampInterval
  BY DEF RampSteps
<1>. DEFINE m == Max({now, r})
<1>. HIDE DEF r, n, m
<1>5. ASSUME now <= r
      PROVE  r + (n + 1) * RampInterval <= m + RampInterval
  <2>1. (n + 1) * RampInterval = RampInterval
    BY <1>1, <1>4, <1>5
  <2>. QED
    BY <1>1, <1>2, <1>5, <2>1 DEF m
<1>6. ASSUME now > r
      PROVE  r + (n + 1) * RampInterval <= m + RampInterval
  <2>1. now - r \in Nat
    BY <1>1, <1>6
  <2>2. \A a \in Nat, b \in Nat \ {0} : (a \div b) * b <= a
    OBVIOUS
  <2>3. n * RampInterval <= now - r
    BY <1>1, <1>4, <1>6, <2>1, <2>2
  <2>4. (n + 1) * RampInterval = n * RampInterval + RampInterval
    BY <1>1
  <2>5. n * RampInterval \in Nat
    BY <1>1
  <2>6. m = now
    BY <1>1, <1>2, <1>6 DEF m
  <2>. DEFINE k == n * RampInterval
  <2>. HIDE DEF k
  <2>7. r + (k + RampInterval) <= now + RampInterval
    BY <1>1, <1>6, <2>3, <2>5 DEF k
  <2>. QED
    BY <2>4, <2>6, <2>7 DEF k
<1>7. now <= r \/ now > r
  BY <1>1
<1>8. r + (n + 1) * RampInterval <= m + RampInterval
  BY <1>5, <1>6, <1>7
<1>. QED
  BY <1>3, <1>8 DEF r, n, m

LEMMA StoppedAdmitsNobody ==
  ASSUME NEW g, NEW h, NEW u, OneAdmitted(g, h, u)
  PROVE  ~h.state.held
BY DEF OneAdmitted, Stopped

LEMMA PumpedTickets ==
  ASSUME now \in Nat \ {0}, NEW g \in Gate, NEW h \in Gate, TicketsOK(g), StateOK(h.state),
         h.state.incidentStartedAt = g.state.incidentStartedAt,
         h.state.probeRequired = g.state.probeRequired,
         NoneAdmitted(g, h) \/ \E u \in g.waiters : OneAdmitted(g, h, u)
  PROVE  TicketsOK(h)
<1>1. CASE NoneAdmitted(g, h)
  BY <1>1, TicketsKept DEF NoneAdmitted
<1>2. ASSUME ~clockSetBack, NEW u \in g.waiters, OneAdmitted(g, h, u)
      PROVE  TicketsOK(h)
  <2>. DEFINE s == h.state
  <2>1. /\ now >= s.until /\ (s.probeRequired => g.probeTicket = NoTurn)
        /\ h.tickets = g.tickets \cup {u}
        /\ h.probeTicket = (IF s.probeRequired THEN u ELSE g.probeTicket)
        /\ h.lastAdmissionAt = now /\ h.admittedAt[u] = now
        /\ \A v \in g.tickets : h.admittedAt[v] = g.admittedAt[v]
    BY <1>2 DEF OneAdmitted
  <2>2. /\ s.until \in Nat /\ s.incidentStartedAt \in Nat /\ BaseCooldown \in Nat
        /\ g.lastAdmissionAt \in Nat
    BY Constants DEF Gate, State
  <2>3. s.incidentStartedAt > 0 => now >= s.incidentStartedAt + BaseCooldown
    <3>1. s.incidentStartedAt > 0 => s.until >= s.incidentStartedAt + BaseCooldown
      BY <1>2 DEF StateOK, IncidentOK
    <3>. QED
      BY <2>1, <2>2, <3>1
  <2>4. ASSUME NEW v \in h.tickets
        PROVE  /\ h.admittedAt[v] <= h.lastAdmissionAt
               /\ s.incidentStartedAt > 0 /\ h.admittedAt[v] >= s.incidentStartedAt =>
                    h.admittedAt[v] >= s.incidentStartedAt + BaseCooldown
               /\ s.probeRequired /\ h.admittedAt[v] > s.incidentStartedAt => v = h.probeTicket
    <3>1. CASE v = u
      BY <2>1, <2>3, <3>1
    <3>2. CASE v \in g.tickets
      <4>1. /\ g.lastAdmissionAt <= now /\ g.admittedAt[v] <= g.lastAdmissionAt
            /\ s.incidentStartedAt > 0 /\ g.admittedAt[v] >= s.incidentStartedAt =>
                 g.admittedAt[v] >= s.incidentStartedAt + BaseCooldown
            /\ s.probeRequired /\ g.admittedAt[v] > s.incidentStartedAt => v = g.probeTicket
        BY <1>2, <3>2 DEF TicketsOK
      <4>2. v \in Turns /\ v # NoTurn /\ g.admittedAt[v] \in Nat
        BY <3>2, NoTurnAssumption DEF Gate
      <4>3. g.admittedAt[v] <= now
        BY <2>2, <4>1, <4>2
      <4>. QED
        BY <2>1, <3>2, <4>1, <4>2, <4>3
    <3>. QED
      BY <2>1, <3>1, <3>2
  <2>. QED
    BY <2>1, <2>4 DEF TicketsOK
<1>. QED
  BY <1>1, <1>2 DEF TicketsOK

\* The timer that the pump sets meets the next event that can let a turn go.
LEMMA TimerIsGood ==
  ASSUME now \in Nat \ {0}, NEW g \in Gate, StateOK(g.state), g.state.until <= now + MaxCooldown,
         g.timerAt <= BlockedUntil(g), BlockedUntil(g) # 0
  PROVE  Soon(g) \/ Blocked(g)
<1>. DEFINE s == g.state
<1>1. /\ s \in State /\ g.timerAt \in Nat /\ g.lastAdmissionAt \in Nat
      /\ s.until \in Nat
  BY DEF Gate, State
<1>2. CASE now < s.until
  <2>1. g.timerAt <= s.until
    BY <1>2 DEF BlockedUntil
  <2>2. g.timerAt <= now + MaxCooldown
    BY <1>1, <2>1, Constants
  <2>. QED
    BY <1>2, <2>1, <2>2 DEF Blocked
<1>3. CASE Cardinality(g.tickets) >= MaxTabs
  BY <1>3 DEF Blocked
<1>4. CASE s.probeRequired /\ g.probeTicket # NoTurn
  BY <1>4 DEF Blocked
<1>5. CASE /\ ~(now < s.until) /\ ~(Cardinality(g.tickets) >= MaxTabs)
           /\ ~(s.probeRequired /\ g.probeTicket # NoTurn)
  <2>1. CASE ~s.probeRequired /\ Cardinality(g.tickets \ g.waitingForTools) >= Limit(s)
    <3>1. CASE s.recovering
      <4>1. s.recoveryStartedAt > 0
        BY <2>1, <3>1 DEF StateOK, RecoveryOK
      <4>2. NextRampAt(s) <= Max({now, s.recoveryStartedAt}) + RampInterval
        BY <1>1, <2>1, <3>1, <4>1, RampIsNear
      <4>3. g.timerAt <= NextRampAt(s)
        BY <1>5, <2>1 DEF BlockedUntil
      <4>4. NextRampAt(s) \in Nat /\ Max({now, s.recoveryStartedAt}) \in Nat
        BY <1>1, RampTypes, LatestOfTwo
      <4>. QED
        BY <1>1, <4>2, <4>3, <4>4, Constants DEF Soon
    <3>2. CASE ~s.recovering
      <4>1. Limit(s) = MaxConcurrency
        BY <3>2 DEF Limit
      <4>. QED
        BY <2>1, <3>2, <4>1 DEF Blocked
    <3>. QED
      BY <3>1, <3>2
  <2>2. CASE ~(~s.probeRequired /\ Cardinality(g.tickets \ g.waitingForTools) >= Limit(s))
    <3>1. BlockedUntil(g) = IF g.lastAdmissionAt > 0 /\ now < g.lastAdmissionAt + Spacing(s)
                            THEN g.lastAdmissionAt + Spacing(s) ELSE 0
      BY <1>5, <2>2 DEF BlockedUntil
    <3>2. /\ g.lastAdmissionAt > 0 /\ now < g.lastAdmissionAt + Spacing(s)
          /\ g.timerAt <= g.lastAdmissionAt + Spacing(s)
      BY <3>1
    <3>3. Spacing(s) \in Nat /\ Spacing(s) <= RecoverySpacing /\ RecoverySpacing \in Nat
      BY Constants DEF Spacing
    <3>4. g.timerAt <= g.lastAdmissionAt + RecoverySpacing
      BY <1>1, <3>2, <3>3
    <3>. QED
      BY <3>2, <3>4 DEF Blocked
  <2>. QED
    BY <2>1, <2>2
<1>. QED
  BY <1>2, <1>3, <1>4, <1>5

LEMMA PumpedSound ==
  ASSUME now \in Nat \ {0}, NEW w, Sound(w)
  PROVE  LET p == Pumped(w)
         IN /\ Sound(p) /\ Keeps(w, p) /\ WakeOK(p.g)
            /\ p.g.state.held = w.g.state.held
            /\ p.g.state.held => p.g.waiters = {}
<1>. DEFINE p == Pumped(w)
            c == Current(w)
            t == Normalized(w.g.state)
<1>1. w \in Works /\ Whole(w.g) /\ w.unread = FALSE /\ w.g.state \in State /\ TicketsOK(w.g)
  BY StateOf DEF Sound, Fine
<1>2. Known(w) = w.g.state
  BY <1>1 DEF Known
<1>3. /\ Sound(c) /\ Keeps(w, c) /\ SameGate(w.g, c.g) /\ c.g.state = t /\ c.file = w.file
  BY CurrentSound
<1>20. p \in Works /\ Whole(p.g) /\ p.file = w.file /\ p.g.state = t
  <2>1. p.g.state = Normalized(Known(w)) /\ p \in Works /\ Whole(p.g) /\ p.file = w.file
    BY <1>1, PumpedFields
  <2>. QED
    BY <1>2, <2>1
<1>21. p.unread = FALSE
  BY <1>1, PumpedFields
<1>22. NoneAdmitted(w.g, p.g) \/ \E u \in w.g.waiters : OneAdmitted(w.g, p.g, u)
  BY <1>1, PumpedFields
<1>23. /\ Stopped(t) => p.g.waiters = {}
       /\ p.g.waiters # {} => p.g.timerAt <= BlockedUntil(p.g) /\ BlockedUntil(p.g) # 0
  <2>1. Stopped(Normalized(Known(w))) => p.g.waiters = {}
    BY <1>1, PumpedFields
  <2>2. p.g.waiters # {} => p.g.timerAt <= BlockedUntil(p.g) /\ BlockedUntil(p.g) # 0
    BY <1>1, PumpedFields
  <2>. QED
    BY <1>2, <2>1, <2>2
<1>4. /\ p \in Works /\ Whole(p.g) /\ p.file = w.file /\ p.unread = FALSE
      /\ p.g.state = t
      /\ Stopped(t) => p.g.waiters = {}
      /\ NoneAdmitted(w.g, p.g) \/ \E u \in w.g.waiters : OneAdmitted(w.g, p.g, u)
      /\ p.g.waiters # {} => p.g.timerAt <= BlockedUntil(p.g) /\ BlockedUntil(p.g) # 0
  BY <1>20, <1>21, <1>22, <1>23
<1>5. /\ t.held = w.g.state.held
      /\ t.probeRequired = w.g.state.probeRequired
      /\ t.incidentStartedAt = w.g.state.incidentStartedAt
      /\ t.until = Least(w.g.state.until, now + MaxCooldown)
  BY <1>1, NormalizedFields
<1>6. t.until <= now + MaxCooldown
  <2>1. w.g.state.until \in Nat /\ now + MaxCooldown \in Nat
    BY <1>1, Constants DEF State
  <2>2. Least(w.g.state.until, now + MaxCooldown) <= now + MaxCooldown
    BY <2>1, LeastIsLess
  <2>. QED
    BY <1>5, <2>1, <2>2
<1>. HIDE DEF p, c, t
<1>7. w.g \in Gate /\ p.g \in Gate /\ Fine(p)
  BY <1>1, <1>4 DEF Whole, Fine
<1>8. StateOK(t) /\ SameRecord(t, w.file) /\ StateOK(w.file)
  BY <1>3 DEF Sound
<1>9. TicketsOK(p.g)
  BY <1>1, <1>4, <1>5, <1>7, <1>8, PumpedTickets
<1>10. Sound(p)
  BY <1>4, <1>7, <1>8, <1>9 DEF Sound
<1>11. Keeps(w, p)
  <2>1. clockSetBack \/ /\ t.until >= w.g.state.until
                        /\ t.stoppedUntil >= w.g.state.stoppedUntil
    BY <1>3 DEF Keeps
  <2>2. t.held => p.g.tickets \subseteq w.g.tickets
    BY <1>4, StoppedAdmitsNobody DEF NoneAdmitted
  <2>. QED
    BY <1>4, <1>5, <2>1, <2>2 DEF Keeps
<1>12. WakeOK(p.g)
  BY <1>4, <1>6, <1>7, <1>8, TimerIsGood DEF WakeOK
<1>13. t.held => p.g.waiters = {}
  BY <1>4 DEF Stopped
<1>. QED
  BY <1>4, <1>5, <1>10, <1>11, <1>12, <1>13 DEF p
LEMMA WakeSame ==
  ASSUME NEW g, NEW h, WakeOK(g), h.waiters = g.waiters, h.timerAt = g.timerAt, h.state = g.state,
         h.tickets = g.tickets, h.waitingForTools = g.waitingForTools,
         h.probeTicket = g.probeTicket, h.lastAdmissionAt = g.lastAdmissionAt
  PROVE  WakeOK(h)
BY DEF WakeOK, Soon, Blocked

LEMMA NormalizedWake ==
  ASSUME now \in Nat, NEW g \in Gate, NEW h \in Gate, SameGate(g, h), h.state = Normalized(g.state),
         WakeOK(g)
  PROVE  WakeOK(h)
<1>. DEFINE s == g.state
            t == h.state
            m == Max({now, s.recoveryStartedAt})
<1>1. /\ s \in State /\ g.timerAt \in Nat /\ g.lastAdmissionAt \in Nat
      /\ s.until \in Nat /\ s.recoveryStartedAt \in Nat
  BY DEF Gate, State
<1>2. /\ t.until = Least(s.until, now + MaxCooldown)
      /\ t.probeRequired = s.probeRequired /\ t.recoveryStartedAt = s.recoveryStartedAt
      /\ t.recovering => s.recovering
  BY <1>1, NormalizedFields, NormalizedTier
<1>3. t.until = IF s.until <= now + MaxCooldown THEN s.until ELSE now + MaxCooldown
  <2>1. now + MaxCooldown \in Nat
    BY Constants
  <2>. QED
    BY <1>1, <1>2, <2>1, LeastOfTwo
<1>4. m \in Nat /\ m >= now
  BY <1>1, LatestOfTwo
<1>5. /\ h.waiters = g.waiters /\ h.timerAt = g.timerAt /\ h.tickets = g.tickets
      /\ h.waitingForTools = g.waitingForTools /\ h.probeTicket = g.probeTicket
      /\ h.lastAdmissionAt = g.lastAdmissionAt
  BY DEF SameGate, SameQueue
<1>. HIDE DEF s, t, m
<1>6. Soon(g) <=> g.timerAt <= m + RampInterval
  BY DEF Soon, m, s
<1>7. Soon(h) <=> g.timerAt <= m + RampInterval
  BY <1>2, <1>5 DEF Soon, m, s, t
<1>8. ASSUME Blocked(g)
      PROVE  Soon(h) \/ Blocked(h)
  <2>1. CASE now < s.until /\ g.timerAt <= s.until /\ g.timerAt <= now + MaxCooldown
    <3>1. now < now + MaxCooldown /\ now + MaxCooldown \in Nat
      BY Constants
    <3>2. now < t.until /\ g.timerAt <= t.until
      BY <1>3, <2>1, <3>1
    <3>. QED
      BY <1>5, <2>1, <3>2 DEF Blocked, t
  <2>2. CASE Cardinality(g.tickets) >= MaxTabs
    BY <1>5, <2>2 DEF Blocked
  <2>3. CASE s.probeRequired /\ g.probeTicket # NoTurn
    BY <1>2, <1>5, <2>3 DEF Blocked, t
  <2>4. CASE /\ ~s.probeRequired /\ ~s.recovering
             /\ Cardinality(g.tickets \ g.waitingForTools) >= MaxConcurrency
    BY <1>2, <1>5, <2>4 DEF Blocked, t
  <2>5. CASE /\ g.lastAdmissionAt > 0 /\ now < g.lastAdmissionAt + Spacing(s)
             /\ g.timerAt <= g.lastAdmissionAt + RecoverySpacing
    <3>1. CASE now < g.lastAdmissionAt + Spacing(t)
      BY <1>5, <2>5, <3>1 DEF Blocked, t
    <3>2. CASE ~(now < g.lastAdmissionAt + Spacing(t))
      <4>1. Spacing(t) \in Nat /\ RecoverySpacing \in Nat /\ RampInterval \in Nat
            /\ RecoverySpacing <= RampInterval
        BY Constants DEF Spacing
      <4>2. g.timerAt <= m + RampInterval
        BY <1>1, <1>4, <2>5, <3>2, <4>1
      <4>. QED
        BY <1>7, <4>2
    <3>. QED
      BY <3>1, <3>2
  <2>. QED
    BY <1>8, <2>1, <2>2, <2>3, <2>4, <2>5 DEF Blocked, s
<1>. QED
  BY <1>5, <1>6, <1>7, <1>8 DEF WakeOK

\* The gate is replaced by one with the same account state and no new ticket.
LEMMA ReplacedSound ==
  ASSUME NEW w, NEW v, Sound(w), Fine(v), v.file = w.file, v.unread = w.unread,
         v.g.state = w.g.state, v.g.tickets \subseteq w.g.tickets,
         \A u \in v.g.tickets : v.g.admittedAt[u] = w.g.admittedAt[u],
         v.g.lastAdmissionAt = w.g.lastAdmissionAt,
         v.g.probeTicket = w.g.probeTicket \/ w.g.probeTicket \notin v.g.tickets
  PROVE  Sound(v) /\ Keeps(w, v)
<1>1. TicketsOK(v.g)
  <2>1. TicketsOK(w.g)
    BY DEF Sound
  <2>. QED
    BY <2>1, TicketsKept
<1>2. Sound(v)
  BY <1>1 DEF Sound
<1>3. w.g.state.until \in Nat /\ w.g.state.stoppedUntil \in Nat
  BY StateOf DEF Sound, State
<1>. QED
  BY <1>2, <1>3 DEF Keeps

LEMMA OverSound ==
  ASSUME NEW w, Sound(w), NEW u \in Turns, w.g.probeTicket # u
  PROVE  LET v == [w EXCEPT !.g = Gone(@, {u})]
         IN /\ Sound(v) /\ Keeps(w, v)
            /\ WakeOK(w.g) /\ u \notin w.g.tickets \cup w.g.waiters => WakeOK(v.g)
<1>. DEFINE v == [w EXCEPT !.g = Gone(@, {u})]
            h == Gone(w.g, {u})
<1>1. Fine(w) /\ Whole(w.g) /\ w.g \in Gate /\ Consistent(w.g)
  BY StateOf DEF Sound, Fine
<1>2. w.g.probeTicket \notin {u} /\ {u} \in SUBSET Turns
  OBVIOUS
<1>3. Fine(v) /\ v.g = h /\ v.file = w.file /\ v.unread = w.unread
  BY <1>1, <1>2, OverFields
<1>4. /\ h.state = w.g.state
      /\ h.waiters = w.g.waiters \ {u} /\ h.tickets = w.g.tickets \ {u}
      /\ h.waitingForTools = w.g.waitingForTools \ {u}
      /\ h.probeTicket = w.g.probeTicket /\ h.lastAdmissionAt = w.g.lastAdmissionAt
      /\ h.timerAt = w.g.timerAt
      /\ \A x \in Turns \ {u} : h.admittedAt[x] = w.g.admittedAt[x]
  BY <1>1, <1>2, GoneFields
<1>. HIDE DEF v, h
<1>5. \A x \in h.tickets : h.admittedAt[x] = w.g.admittedAt[x]
  BY <1>1, <1>4 DEF Gate
<1>6. Sound(v) /\ Keeps(w, v)
  BY <1>3, <1>4, <1>5, ReplacedSound
<1>7. ASSUME WakeOK(w.g), u \notin w.g.tickets \cup w.g.waiters
      PROVE  WakeOK(v.g)
  <2>1. h.waiters = w.g.waiters /\ h.tickets = w.g.tickets
    BY <1>4, <1>7
  <2>2. h.waitingForTools = w.g.waitingForTools
    BY <1>1, <1>4, <1>7 DEF Consistent
  <2>. QED
    BY <1>3, <1>4, <1>7, <2>1, <2>2, WakeSame
<1>. QED
  BY <1>6, <1>7 DEF v

LEMMA ReleasedSound ==
  ASSUME NEW w, Sound(w), NEW u \in w.g.tickets
  PROVE  LET v == Released(w, u) IN Sound(v) /\ Keeps(w, v)
<1>. DEFINE v == Released(w, u)
<1>1. Fine(w) /\ u \in Turns
  BY StateOf DEF Sound, Gate
<1>2. /\ Fine(v) /\ v.g.state = w.g.state
      /\ v.file = w.file /\ v.unread = w.unread
      /\ v.g.tickets = w.g.tickets \ {u}
      /\ v.g.probeTicket = (IF w.g.probeTicket = u THEN NoTurn ELSE w.g.probeTicket)
      /\ v.g.admittedAt = w.g.admittedAt /\ v.g.lastAdmissionAt = w.g.lastAdmissionAt
  BY <1>1, ReleasedFields
<1>. HIDE DEF v
<1>3. v.g.tickets \subseteq w.g.tickets
  BY <1>2
<1>4. v.g.probeTicket = w.g.probeTicket \/ w.g.probeTicket \notin v.g.tickets
  BY <1>2
<1>. QED
  BY <1>2, <1>3, <1>4, ReplacedSound DEF v

LEMMA FinishedSound ==
  ASSUME now \in Nat \ {0}, NEW w, Sound(w), NEW u \in w.g.tickets
  PROVE  LET v == Finished(w, u) IN Sound(v) /\ Keeps(w, v) /\ WakeOK(v.g)
<1>. DEFINE r == Released(w, u)
            p == Pumped(r)
            v == [p EXCEPT !.g = Gone(@, {u})]
<1>1. Fine(w)
  BY DEF Sound
<1>2. Sound(r) /\ Keeps(w, r)
  BY ReleasedSound
<1>3. u \in Turns /\ u \notin p.g.tickets \cup p.g.waiters /\ p.g.probeTicket # u
  BY <1>1, ReleasedPumped
<1>4. Finished(w, u) = v
  BY DEF Finished
<1>. HIDE DEF r
<1>5. Sound(p) /\ Keeps(r, p) /\ WakeOK(p.g)
  BY <1>2, PumpedSound
<1>. HIDE DEF p
<1>6. Sound(v) /\ Keeps(p, v) /\ WakeOK(v.g)
  BY <1>3, <1>5, OverSound
<1>. HIDE DEF v
<1>7. Fine(r) /\ Fine(p) /\ Fine(v)
  BY <1>2, <1>5, <1>6 DEF Sound
<1>8. Keeps(w, p)
  BY <1>1, <1>2, <1>5, <1>7, KeepsTransitive
<1>9. Keeps(w, v)
  BY <1>1, <1>6, <1>7, <1>8, KeepsTransitive
<1>. QED
  BY <1>4, <1>6, <1>9

LEMMA AwaitedSound ==
  ASSUME now \in Nat \ {0}, NEW w, Sound(w), WakeOK(w.g),
         NEW u \in Turns, u \notin w.g.tickets \cup w.g.over \cup w.g.waiters
  PROVE  LET v == Awaited(w, u) IN Sound(v) /\ Keeps(w, v) /\ WakeOK(v.g)
<1>. DEFINE c == Current(w)
            e == [c EXCEPT !.g = Enqueued(@, u)]
            o == [c EXCEPT !.g = Gone(@, {u})]
            p == Pumped(e)
<1>1. Sound(c) /\ Keeps(w, c) /\ SameGate(w.g, c.g) /\ c.g.state = Normalized(w.g.state)
  BY CurrentSound
<1>2. Awaited(w, u) = IF Stopped(c.g.state) THEN o ELSE p
  BY DEF Awaited
<1>. HIDE DEF c
<1>3. u \notin c.g.tickets \cup c.g.over \cup c.g.waiters
  BY <1>1 DEF SameGate, SameQueue
<1>4. Fine(w) /\ Fine(c) /\ w.g \in Gate /\ c.g \in Gate /\ Consistent(c.g)
  BY <1>1, StateOf DEF Sound
<1>5. c.g.probeTicket # u
  BY <1>3, <1>4, NoTurnAssumption DEF Consistent
<1>6. WakeOK(c.g)
  BY <1>1, <1>4, NormalizedWake
<1>7. Sound(o) /\ Keeps(c, o) /\ WakeOK(o.g)
  BY <1>1, <1>3, <1>5, <1>6, OverSound
<1>8. /\ Fine(e) /\ e.g.state = c.g.state
      /\ e.file = c.file /\ e.unread = c.unread
      /\ e.g.tickets = c.g.tickets /\ e.g.probeTicket = c.g.probeTicket
      /\ e.g.admittedAt = c.g.admittedAt /\ e.g.lastAdmissionAt = c.g.lastAdmissionAt
  BY <1>3, <1>4, EnqueuedFields
<1>. HIDE DEF e, o
<1>9. Sound(e) /\ Keeps(c, e)
  BY <1>1, <1>8, ReplacedSound
<1>10. Sound(p) /\ Keeps(e, p) /\ WakeOK(p.g)
  BY <1>9, PumpedSound
<1>. HIDE DEF p
<1>11. Fine(o) /\ Fine(p)
  BY <1>7, <1>10 DEF Sound
<1>12. Keeps(w, o)
  BY <1>1, <1>4, <1>7, <1>11, KeepsTransitive
<1>13. Keeps(c, p)
  BY <1>4, <1>8, <1>9, <1>10, <1>11, KeepsTransitive
<1>14. Keeps(w, p)
  BY <1>1, <1>4, <1>11, <1>13, KeepsTransitive
<1>. QED
  BY <1>2, <1>7, <1>10, <1>12, <1>14

LEMMA RequeuedSound ==
  ASSUME now \in Nat \ {0}, NEW w, Sound(w), NEW u \in w.g.tickets
  PROVE  LET v == Awaited(Unadmitted(Pumped(Released(w, u)), u), u)
         IN Sound(v) /\ Keeps(w, v) /\ WakeOK(v.g)
<1>. DEFINE r == Released(w, u)
            p == Pumped(r)
            q == Unadmitted(p, u)
            v == Awaited(q, u)
<1>1. Fine(w)
  BY DEF Sound
<1>2. Sound(r) /\ Keeps(w, r)
  BY ReleasedSound
<1>3. u \in Turns /\ u \notin p.g.tickets \cup p.g.waiters \cup p.g.over
  BY <1>1, ReleasedPumped
<1>. HIDE DEF r
<1>5. Sound(p) /\ Keeps(r, p) /\ WakeOK(p.g)
  BY <1>2, PumpedSound
<1>. HIDE DEF p
<1>6. Fine(r) /\ Fine(p) /\ p.g \in Gate
  BY <1>2, <1>5, StateOf DEF Sound
<1>7. /\ Fine(q) /\ q.g.state = p.g.state
      /\ q.file = p.file /\ q.unread = p.unread
      /\ q.g.tickets = p.g.tickets /\ q.g.waiters = p.g.waiters /\ q.g.over = p.g.over
      /\ q.g.waitingForTools = p.g.waitingForTools
      /\ q.g.probeTicket = p.g.probeTicket /\ q.g.lastAdmissionAt = p.g.lastAdmissionAt
      /\ q.g.timerAt = p.g.timerAt
      /\ \A x \in Turns \ {u} : q.g.admittedAt[x] = p.g.admittedAt[x]
  BY <1>3, <1>6, UnadmittedFields
<1>. HIDE DEF q
<1>8. \A x \in q.g.tickets : q.g.admittedAt[x] = p.g.admittedAt[x]
  BY <1>3, <1>6, <1>7 DEF Gate
<1>9. Sound(q) /\ Keeps(p, q)
  BY <1>5, <1>7, <1>8, ReplacedSound
<1>10. WakeOK(q.g)
  BY <1>5, <1>7, WakeSame
<1>11. u \notin q.g.tickets \cup q.g.over \cup q.g.waiters
  BY <1>3, <1>7
<1>12. Sound(v) /\ Keeps(q, v) /\ WakeOK(v.g)
  BY <1>3, <1>9, <1>10, <1>11, AwaitedSound
<1>. HIDE DEF v
<1>13. Fine(v)
  BY <1>12 DEF Sound
<1>14. Keeps(w, p)
  BY <1>1, <1>2, <1>5, <1>6, KeepsTransitive
<1>15. Keeps(w, q)
  BY <1>1, <1>6, <1>7, <1>9, <1>14, KeepsTransitive
<1>16. Keeps(w, v)
  BY <1>1, <1>7, <1>12, <1>13, <1>15, KeepsTransitive
<1>. QED
  BY <1>12, <1>16 DEF v, q, p, r
\* A new incident begins more than a cooldown after the last one.
LEMMA IncidentIsOK ==
  ASSUME now \in Nat \ {0}, NEW s \in State, StateOK(s), s.lastLimitAt = now,
         ~clockSetBack /\ s.incidentStartedAt > 0 => now > s.incidentStartedAt + BaseCooldown
  PROVE  LET t == Incident(s)
         IN /\ StateOK(t)
            /\ clockSetBack \/ (t.until >= s.until /\ t.stoppedUntil >= s.stoppedUntil)
<1>. DEFINE t == Incident(s)
            p == Paused(s, Backoff(s.tier))
<1>1. /\ t \in State
      /\ t.tier = s.tier + 1 /\ t.incidentStartedAt = now /\ t.until = p
      /\ t.incidents = RecentIncidents(s) \cup {now}
      /\ t.lastLimitAt = s.lastLimitAt /\ t.recoveryStartedAt = 0
      /\ t.stoppedUntil = IF Cardinality(t.incidents) >= IncidentStopCount
                          THEN now + IncidentWindow ELSE s.stoppedUntil
  BY IncidentFields
<1>2. t.probeRequired
  BY IncidentFields
<1>3. /\ p \in Nat /\ p <= now + MaxCooldown /\ p >= now + BaseCooldown
      /\ s.until <= now + MaxCooldown => p >= s.until
  BY BackoffRange, PausedFields
<1>. HIDE DEF t, p
<1>4. /\ s.tier \in Nat /\ s.incidentStartedAt \in Nat /\ s.until \in Nat
      /\ s.stoppedUntil \in Nat /\ BaseCooldown \in Nat /\ IncidentWindow \in Nat
      /\ MaxTime \in Nat
  BY Constants DEF State
<1>5. RecoveryOK(t)
  BY <1>1, <1>2, <1>4 DEF RecoveryOK
<1>6. ASSUME ~clockSetBack
      PROVE  IncidentOK(t) /\ t.until >= s.until /\ t.stoppedUntil >= s.stoppedUntil
  <2>1. /\ s.incidents \subseteq 1 .. s.incidentStartedAt
        /\ \A i, j \in s.incidents : i < j => i + BaseCooldown < j
        /\ s.incidentStartedAt <= now
        /\ s.until <= now + MaxCooldown /\ s.stoppedUntil <= now + IncidentWindow
    BY <1>6 DEF StateOK, IncidentOK
  <2>2. RecentIncidents(s) \subseteq s.incidents
    BY DEF RecentIncidents
  <2>3. \A i \in RecentIncidents(s) : i \in Nat /\ i >= 1 /\ i <= s.incidentStartedAt /\ i + BaseCooldown < now
    <3>. SUFFICES ASSUME NEW i \in RecentIncidents(s)
                  PROVE  i \in Nat /\ i >= 1 /\ i <= s.incidentStartedAt /\ i + BaseCooldown < now
      OBVIOUS
    <3>1. i \in 1 .. s.incidentStartedAt
      BY <2>1, <2>2
    <3>2. now > s.incidentStartedAt + BaseCooldown
      BY <1>4, <1>6, <3>1
    <3>. QED
      BY <1>4, <3>1, <3>2
  <2>4. t.incidents \subseteq 1 .. t.incidentStartedAt
    BY <1>1, <1>4, <2>1, <2>3
  <2>5. ASSUME NEW i \in t.incidents, NEW j \in t.incidents, i < j
        PROVE  i + BaseCooldown < j
    <3>1. CASE i \in RecentIncidents(s) /\ j \in RecentIncidents(s)
      BY <2>1, <2>2, <2>5, <3>1
    <3>2. CASE i \in RecentIncidents(s) /\ j = now
      BY <2>3, <3>2
    <3>3. CASE i = now
      BY <1>1, <1>4, <2>1, <2>3, <2>5, <3>3
    <3>. QED
      BY <1>1, <3>1, <3>2, <3>3
  <2>6. /\ Cardinality(t.incidents) >= IncidentStopCount =>
             t.stoppedUntil >= t.incidentStartedAt + IncidentWindow
        /\ t.stoppedUntil <= now + IncidentWindow /\ t.stoppedUntil >= s.stoppedUntil
    BY <1>1, <1>4, <2>1
  <2>7. t.until >= t.incidentStartedAt + BaseCooldown /\ t.until <= now + MaxCooldown
        /\ t.until >= s.until
    BY <1>1, <1>3, <2>1
  <2>8. t.incidentStartedAt <= t.lastLimitAt /\ t.lastLimitAt <= now /\ t.tier # 0
    BY <1>1, <1>4
  <2>. QED
    BY <2>4, <2>5, <2>6, <2>7, <2>8 DEF IncidentOK
<1>. QED
  BY <1>5, <1>6 DEF StateOK, t

\* A state that was saved and pumped.
LEMMA LimitedIsSound ==
  ASSUME now \in Nat \ {0}, NEW w, Sound(w), NEW l, Fine(l), NEW s \in State, StateOK(s),
         SameQueue(w.g, l.g), l.g.state = Stamped(s), l.file = Stamped(s), l.unread = FALSE,
         s.held = w.g.state.held,
         clockSetBack \/ (s.until >= w.g.state.until /\ s.stoppedUntil >= w.g.state.stoppedUntil),
         TicketsOK(l.g), NEW u \in w.g.tickets
  PROVE  Sound(Pumped(l)) /\ Keeps(w, Pumped(l)) /\ u \in Pumped(l).g.tickets
<1>. DEFINE t == Stamped(s)
            p == Pumped(l)
<1>1. /\ StateOK(t) /\ t.updatedAt > 0
      /\ t.held = s.held /\ t.until = s.until /\ t.stoppedUntil = s.stoppedUntil
  BY StampedOK
<1>. HIDE DEF t
<1>2. l.g.state = t /\ l.file = t
  BY DEF t
<1>3. SameRecord(t, t)
  BY <1>1 DEF SameRecord
<1>4. Sound(l)
  BY <1>1, <1>2, <1>3 DEF Sound
<1>5. Keeps(w, l)
  BY <1>1, <1>2 DEF Keeps, SameQueue
<1>6. Sound(p) /\ Keeps(l, p)
  BY <1>4, PumpedSound
<1>7. w.g.tickets \subseteq p.g.tickets
  BY PumpedFine DEF SameQueue
<1>. HIDE DEF p
<1>8. Keeps(w, p)
  BY <1>5, <1>6, KeepsTransitive DEF Sound
<1>. QED
  BY <1>6, <1>7, <1>8 DEF p

LEMMA RateLimitRecordedSound ==
  ASSUME now \in Nat \ {0}, NEW w, Sound(w), NEW u \in w.g.tickets, w.g.lastAdmissionAt # now
  PROVE  LET v == RateLimitRecorded(w, w.g.admittedAt[u])
         IN Sound(v) /\ Keeps(w, v) /\ u \in v.g.tickets
<1>. DEFINE at == w.g.admittedAt[u]
            n == Normalized(Known(w))
            b == [n EXCEPT !.lastLimitAt = now]
            s == LimitedState(n, at)
            l == Limited(w, at)
<1>1. Fine(w) /\ w.g \in Gate /\ w.g.state \in State /\ u \in Turns
  BY StateOf DEF Sound, Gate
<1>2. at \in Nat /\ w.g.lastAdmissionAt \in Nat
  BY <1>1 DEF Gate
<1>3. Known(w) = w.g.state
  BY DEF Sound, Known
<1>4. /\ RateLimitRecorded(w, at) = Pumped(l)
      /\ Fine(l) /\ SameQueue(w.g, l.g) /\ l.g.state = Stamped(s) /\ s \in State
      /\ l.file = Stamped(s) /\ l.unread = FALSE
      /\ l.g.probeTicket = IF JoinsIncident(b, at) THEN w.g.probeTicket ELSE NoTurn
  <2>2. RateLimitRecorded(w, at) = Pumped(l) /\ Fine(l) /\ SameQueue(w.g, l.g)
    BY <1>1, <1>2, LimitedFields
  <2>3. l.g.state = Stamped(s) /\ s \in State /\ l.file = Stamped(s) /\ l.unread = FALSE
    BY <1>1, <1>2, LimitedFields
  <2>4. l.g.probeTicket = IF JoinsIncident(b, at) THEN w.g.probeTicket ELSE NoTurn
    BY <1>1, <1>2, LimitedFields
  <2>. QED
    BY <2>2, <2>3, <2>4
<1>5. /\ StateOK(n) /\ n \in State /\ n.held = w.g.state.held
      /\ n.incidentStartedAt = w.g.state.incidentStartedAt
      /\ n.probeRequired = w.g.state.probeRequired
      /\ clockSetBack \/ (n.until = w.g.state.until /\ n.stoppedUntil = w.g.state.stoppedUntil)
  <2>. DEFINE k == Normalized(w.g.state)
  <2>1. n = k
    BY <1>3
  <2>2. /\ k \in State /\ k.held = w.g.state.held
        /\ k.incidentStartedAt = w.g.state.incidentStartedAt
        /\ k.probeRequired = w.g.state.probeRequired
    BY <1>1, NormalizedFields
  <2>3. /\ StateOK(k)
        /\ clockSetBack \/ (k.until = w.g.state.until /\ k.stoppedUntil = w.g.state.stoppedUntil)
    BY <1>1, NormalizedOK DEF Sound
  <2>. HIDE DEF k, n
  <2>. QED
    BY <2>1, <2>2, <2>3
<1>6. s = IF JoinsIncident(b, at) THEN b ELSE Incident(b)
  BY DEF LimitedState
<1>. HIDE DEF l, s, n
<1>7. /\ b \in State /\ b.lastLimitAt = now /\ b.until = n.until /\ b.stoppedUntil = n.stoppedUntil
      /\ b.tier = n.tier /\ b.incidents = n.incidents
      /\ b.incidentStartedAt = n.incidentStartedAt
      /\ b.recoveryStartedAt = n.recoveryStartedAt
  BY <1>5 DEF State
<1>8. b.held = n.held /\ b.probeRequired = n.probeRequired /\ b.recovering = n.recovering
  BY <1>5 DEF State
<1>. HIDE DEF b
<1>9. StateOK(b)
  <2>1. RecoveryOK(b)
    BY <1>5, <1>7, <1>8 DEF StateOK, RecoveryOK
  <2>2. ASSUME ~clockSetBack
        PROVE  IncidentOK(b)
    <3>1. IncidentOK(n) /\ n.incidentStartedAt \in Nat /\ n.lastLimitAt \in Nat
      BY <1>5, <2>2 DEF StateOK, State
    <3>. QED
      BY <1>7, <3>1 DEF IncidentOK
  <2>. QED
    BY <2>1, <2>2 DEF StateOK
<1>10. /\ b.until \in Nat /\ b.stoppedUntil \in Nat /\ b.tier \in Nat
       /\ b.incidentStartedAt \in Nat /\ BaseCooldown \in Nat
  BY <1>7, Constants DEF State
<1>11. TicketsOK(w.g)
  BY DEF Sound
<1>12. CASE JoinsIncident(b, at)
  <2>1. s = b
    BY <1>6, <1>12
  <2>2. StateOK(s) /\ s.held = w.g.state.held
    BY <1>5, <1>8, <1>9, <2>1
  <2>3. clockSetBack \/ (s.until >= w.g.state.until /\ s.stoppedUntil >= w.g.state.stoppedUntil)
    BY <1>5, <1>7, <1>10, <2>1
  <2>4. /\ Stamped(s).incidentStartedAt = w.g.state.incidentStartedAt
        /\ Stamped(s).probeRequired = w.g.state.probeRequired
    BY <1>4, <1>5, <1>7, <1>8, <2>1, <2>2, StampedOK
  <2>5. TicketsOK(l.g)
    BY <1>4, <1>11, <1>12, <2>4, TicketsKept DEF SameQueue
  <2>6. Sound(Pumped(l)) /\ Keeps(w, Pumped(l)) /\ u \in Pumped(l).g.tickets
    BY <1>4, <2>2, <2>3, <2>5, LimitedIsSound
  <2>. QED
    BY <1>4, <2>6 DEF at
<1>13. CASE ~JoinsIncident(b, at)
  <2>1. s = Incident(b)
    BY <1>6, <1>13
  <2>2. ASSUME ~clockSetBack, b.incidentStartedAt > 0
        PROVE  now > b.incidentStartedAt + BaseCooldown
    <3>1. CASE b.tier = 0
      BY <1>9, <2>2, <3>1 DEF StateOK, IncidentOK
    <3>2. CASE b.tier # 0
      <4>1. ~(at < b.incidentStartedAt)
        BY <1>10, <1>13, <3>2 DEF JoinsIncident
      <4>2. /\ at >= b.incidentStartedAt + BaseCooldown
            /\ at <= w.g.lastAdmissionAt /\ w.g.lastAdmissionAt <= now
        BY <1>2, <1>5, <1>7, <1>10, <1>11, <2>2, <4>1 DEF TicketsOK
      <4>. QED
        BY <1>2, <1>10, <4>2
    <3>. QED
      BY <3>1, <3>2
  <2>3. /\ StateOK(s)
        /\ clockSetBack \/ (s.until >= b.until /\ s.stoppedUntil >= b.stoppedUntil)
    BY <1>7, <1>9, <2>1, <2>2, IncidentIsOK
  <2>4. s.held = w.g.state.held /\ s.incidentStartedAt = now
    BY <1>5, <1>7, <1>8, <2>1, IncidentFields
  <2>5. clockSetBack \/ (s.until >= w.g.state.until /\ s.stoppedUntil >= w.g.state.stoppedUntil)
    BY <1>5, <1>7, <2>3
  <2>6. Stamped(s).incidentStartedAt = now
    BY <1>4, <2>3, <2>4, StampedOK
  <2>7. TicketsOK(l.g)
    <3>. SUFFICES ASSUME ~clockSetBack
                  PROVE  /\ l.g.lastAdmissionAt <= now
                         /\ \A x \in l.g.tickets : /\ l.g.admittedAt[x] <= l.g.lastAdmissionAt
                                                   /\ l.g.admittedAt[x] < l.g.state.incidentStartedAt
                                                   /\ l.g.admittedAt[x] \in Nat
      <4>1. l.g.state.incidentStartedAt \in Nat
        BY <1>4, <2>6
      <4>. QED
        BY <4>1 DEF TicketsOK
    <3>1. /\ w.g.lastAdmissionAt <= now
          /\ \A x \in w.g.tickets : w.g.admittedAt[x] <= w.g.lastAdmissionAt
      BY <1>11 DEF TicketsOK
    <3>2. \A x \in w.g.tickets : w.g.admittedAt[x] \in Nat
      BY <1>1 DEF Gate
    <3>3. w.g.lastAdmissionAt < now
      BY <1>2, <3>1
    <3>4. \A x \in w.g.tickets : w.g.admittedAt[x] < now
      BY <1>2, <3>1, <3>2, <3>3
    <3>. QED
      BY <1>4, <2>6, <3>1, <3>2, <3>4 DEF SameQueue
  <2>8. Sound(Pumped(l)) /\ Keeps(w, Pumped(l)) /\ u \in Pumped(l).g.tickets
    BY <1>4, <2>3, <2>4, <2>5, <2>7, LimitedIsSound
  <2>. QED
    BY <1>4, <2>8 DEF at
<1>. QED
  BY <1>12, <1>13
LEMMA FailedIsOK ==
  ASSUME now \in Nat, NEW s \in State, StateOK(s)
  PROVE  LET t == FailedState(s)
         IN /\ StateOK(t)
            /\ clockSetBack \/ (t.until >= s.until /\ t.stoppedUntil >= s.stoppedUntil)
<1>. DEFINE t == FailedState(s)
            p == Paused(s, Backoff(s.failureTier))
<1>1. /\ t \in State /\ t.until = p /\ t.stoppedUntil = s.stoppedUntil
      /\ t.tier = s.tier /\ t.incidents = s.incidents /\ t.lastLimitAt = s.lastLimitAt
      /\ t.incidentStartedAt = s.incidentStartedAt
      /\ t.recoveryStartedAt = s.recoveryStartedAt
  BY FailedStateFields
<1>2. t.probeRequired = s.probeRequired /\ t.recovering = s.recovering
  BY FailedStateFields
<1>3. /\ p \in Nat /\ p <= now + MaxCooldown
      /\ s.until <= now + MaxCooldown => p >= s.until
  BY BackoffRange, PausedFields
<1>. HIDE DEF t, p
<1>4. /\ s.incidentStartedAt \in Nat /\ s.until \in Nat /\ s.stoppedUntil \in Nat
      /\ BaseCooldown \in Nat
  BY Constants DEF State
<1>5. RecoveryOK(t)
  BY <1>1, <1>2 DEF StateOK, RecoveryOK
<1>6. ASSUME ~clockSetBack
      PROVE  IncidentOK(t) /\ t.until >= s.until /\ t.stoppedUntil >= s.stoppedUntil
  <2>1. IncidentOK(s)
    BY <1>6 DEF StateOK
  <2>2. p >= s.until
    BY <1>3, <2>1 DEF IncidentOK
  <2>3. s.incidentStartedAt > 0 => p >= s.incidentStartedAt + BaseCooldown
    BY <1>3, <1>4, <2>1, <2>2 DEF IncidentOK
  <2>. QED
    BY <1>1, <1>3, <1>4, <2>1, <2>2, <2>3 DEF IncidentOK
<1>. QED
  BY <1>5, <1>6 DEF StateOK, t

LEMMA FailureRecordedSound ==
  ASSUME now \in Nat \ {0}, NEW w, Sound(w), NEW u \in w.g.tickets
  PROVE  LET v == FailureRecorded(w, w.g.admittedAt[u])
         IN Sound(v) /\ Keeps(w, v) /\ u \in v.g.tickets
<1>. DEFINE at == w.g.admittedAt[u]
            c == Current(w)
            s == FailedState(c.g.state)
            f == Saved(c, s)
            p == Pumped(f)
<1>1. Sound(c) /\ Keeps(w, c) /\ SameGate(w.g, c.g)
  BY CurrentSound
<1>2. FailureRecorded(w, at) = IF FailureKnown(c.g.state, at) THEN c ELSE p
  BY FailureFields
<1>. HIDE DEF c, at
<1>3. Fine(w) /\ Fine(c) /\ c.g.state \in State /\ StateOK(c.g.state)
  BY <1>1, StateOf DEF Sound
<1>4. /\ s \in State /\ s.held = c.g.state.held
      /\ s.incidentStartedAt = c.g.state.incidentStartedAt
      /\ s.probeRequired = c.g.state.probeRequired
  BY <1>3, FailedStateFields
<1>5. /\ StateOK(s)
      /\ clockSetBack \/ (s.until >= c.g.state.until /\ s.stoppedUntil >= c.g.state.stoppedUntil)
  BY <1>3, FailedIsOK
<1>. HIDE DEF s
<1>6. Sound(f) /\ Keeps(c, f) /\ SameGate(c.g, f.g)
  BY <1>1, <1>4, <1>5, SavedSound
<1>. HIDE DEF f
<1>7. Sound(p) /\ Keeps(f, p) /\ f.g.tickets \subseteq p.g.tickets
  BY <1>6, PumpedSound, PumpedFine DEF Sound
<1>. HIDE DEF p
<1>8. Fine(f) /\ Fine(p)
  BY <1>6, <1>7 DEF Sound
<1>9. Keeps(w, f)
  BY <1>1, <1>3, <1>6, <1>8, KeepsTransitive
<1>10. Keeps(w, p)
  BY <1>3, <1>7, <1>8, <1>9, KeepsTransitive
<1>11. u \in c.g.tickets /\ u \in p.g.tickets
  BY <1>1, <1>6, <1>7 DEF SameGate, SameQueue
<1>. QED
  BY <1>1, <1>2, <1>7, <1>10, <1>11 DEF at

LEMMA RefreshedSound ==
  ASSUME now \in Nat, NEW w, Sound(w)
  PROVE  LET r == Refreshed(w)
         IN /\ Sound(r) /\ Keeps(w, r) /\ SameGate(w.g, r.g) /\ r.g.state = w.g.state
<1>. DEFINE r == Refreshed(w)
<1>1. Fine(w) /\ Known(w) = w.g.state
  BY DEF Sound, Known
<1>2. Fine(r) /\ SameGate(w.g, r.g) /\ r.g.state = w.g.state /\ r.file = w.file /\ r.unread = FALSE
  BY <1>1, RefreshedFine
<1>. HIDE DEF r
<1>3. Sound(r) /\ Keeps(w, r)
  BY <1>2, ReplacedSound DEF SameGate, SameQueue, Sound
<1>. QED
  BY <1>2, <1>3 DEF r

LEMMA HoldRecordedSound ==
  ASSUME now \in Nat \ {0}, NEW w, Sound(w), NEW u \in w.g.tickets
  PROVE  LET v == HoldRecorded(w)
         IN Sound(v) /\ Keeps(w, v) /\ u \in v.g.tickets /\ v.g.state.held
<1>. DEFINE r == Refreshed(w)
            s == HeldState(r.g.state, TRUE)
            h == Saved(r, s)
            e == IF r.g.state.held THEN r ELSE h
            p == Pumped(e)
<1>1. Sound(r) /\ Keeps(w, r) /\ SameGate(w.g, r.g)
  BY RefreshedSound
<1>2. HoldRecorded(w) = p
  BY HoldFields
<1>. HIDE DEF r
<1>3. Fine(w) /\ Fine(r) /\ r.g.state \in State /\ StateOK(r.g.state)
  BY <1>1, StateOf DEF Sound
<1>4. /\ s \in State /\ s.held = TRUE
      /\ s.until = r.g.state.until /\ s.stoppedUntil = r.g.state.stoppedUntil
      /\ s.tier = r.g.state.tier /\ s.incidents = r.g.state.incidents
      /\ s.lastLimitAt = r.g.state.lastLimitAt
      /\ s.incidentStartedAt = r.g.state.incidentStartedAt
      /\ s.probeRequired = r.g.state.probeRequired
      /\ s.recovering = r.g.state.recovering
      /\ s.recoveryStartedAt = r.g.state.recoveryStartedAt
  BY <1>3, HeldStateFields
<1>. HIDE DEF s
<1>5. StateOK(s)
  BY <1>3, <1>4, SameStateOK
<1>6. s.until \in Nat /\ s.stoppedUntil \in Nat
  BY <1>4 DEF State
<1>7. Sound(h) /\ Keeps(r, h) /\ SameGate(r.g, h.g) /\ h.g.state.held
  BY <1>1, <1>4, <1>5, <1>6, SavedSound
<1>. HIDE DEF h
<1>8. Sound(e) /\ u \in e.g.tickets /\ e.g.state.held
  BY <1>1, <1>7 DEF SameGate, SameQueue
<1>9. Keeps(w, e)
  <2>1. Keeps(w, h)
    BY <1>1, <1>3, <1>7, KeepsTransitive DEF Sound
  <2>. QED
    BY <1>1, <2>1
<1>. HIDE DEF e
<1>10. Sound(p) /\ Keeps(e, p) /\ e.g.tickets \subseteq p.g.tickets
  BY <1>8, PumpedSound, PumpedFine DEF Sound
<1>. HIDE DEF p
<1>11. Keeps(w, p)
  BY <1>3, <1>8, <1>9, <1>10, KeepsTransitive DEF Sound
<1>12. p.g.state.held
  BY <1>8, <1>10 DEF Keeps
<1>. QED
  BY <1>2, <1>8, <1>10, <1>11, <1>12

LEMMA KeepsItself ==
  ASSUME NEW w, Fine(w)
  PROVE  Keeps(w, w) /\ SameGate(w.g, w.g)
<1>1. w.g.state.until \in Nat /\ w.g.state.stoppedUntil \in Nat
  BY StateOf DEF State
<1>. QED
  BY <1>1 DEF Keeps, SameGate, SameQueue

LEMMA ProbeAcceptedSound ==
  ASSUME now \in Nat \ {0}, now <= MaxTime, NEW w, Sound(w), NEW u
  PROVE  LET v == ProbeAccepted(w, u)
         IN Sound(v) /\ Keeps(w, v) /\ SameGate(w.g, v.g)
<1>. DEFINE s == ProbedState(w.g.state)
            f == Saved(w, s)
<1>1. Fine(w) /\ w.g.state \in State /\ StateOK(w.g.state)
  BY StateOf DEF Sound
<1>2. /\ s \in State
      /\ s.until = w.g.state.until /\ s.stoppedUntil = w.g.state.stoppedUntil
      /\ s.tier = w.g.state.tier /\ s.incidents = w.g.state.incidents
      /\ s.lastLimitAt = w.g.state.lastLimitAt
      /\ s.incidentStartedAt = w.g.state.incidentStartedAt
      /\ s.recoveryStartedAt = now
  BY <1>1, ProbedStateFields
<1>3. s.probeRequired = FALSE /\ s.held = w.g.state.held
  BY <1>1, ProbedStateFields
<1>4. ProbeAccepted(w, u) = IF u = w.g.probeTicket /\ w.g.state.probeRequired THEN f ELSE w
  BY ProbeAcceptedShape
<1>. HIDE DEF s
<1>5. StateOK(s)
  BY <1>1, <1>2 DEF StateOK, RecoveryOK, IncidentOK
<1>6. s.until \in Nat /\ s.stoppedUntil \in Nat
  BY <1>2 DEF State
<1>7. Sound(f) /\ Keeps(w, f) /\ SameGate(w.g, f.g)
  BY <1>2, <1>3, <1>5, <1>6, SavedSound
<1>. HIDE DEF f
<1>. QED
  BY <1>1, <1>4, <1>7, KeepsItself

LEMMA RecoveredSound ==
  ASSUME now \in Nat \ {0}, now <= MaxTime, NEW w, Sound(w), NEW u \in w.g.tickets,
         w.g.lastAdmissionAt # now
  PROVE  LET v == Recovered(w, u)
         IN Sound(v) /\ Keeps(w, v) /\ SameGate(w.g, v.g)
<1>. DEFINE b == w.g.state.probeRequired /\ u \in w.g.probes
            s == RecoveredState(w.g.state, b)
            f == Saved(w, s)
<1>0. b \in BOOLEAN
  OBVIOUS
<1>1. Fine(w) /\ w.g \in Gate /\ w.g.state \in State /\ StateOK(w.g.state) /\ TicketsOK(w.g)
  BY StateOf DEF Sound
<1>4. Recovered(w, u) = IF Recovers(w, u) THEN f ELSE w
  BY RecoveredShape
<1>. HIDE DEF b
<1>2. /\ s \in State
      /\ s.until = w.g.state.until /\ s.stoppedUntil = w.g.state.stoppedUntil
      /\ s.tier = 0 /\ s.incidents = w.g.state.incidents
      /\ s.lastLimitAt = w.g.state.lastLimitAt
      /\ s.incidentStartedAt = w.g.state.incidentStartedAt
      /\ s.recoveryStartedAt = (IF b THEN now ELSE w.g.state.recoveryStartedAt)
  BY <1>0, <1>1, RecoveredStateFields
<1>3. /\ s.probeRequired <=> (w.g.state.probeRequired /\ ~b)
      /\ s.held = w.g.state.held /\ s.recovering = w.g.state.recovering
  BY <1>0, <1>1, RecoveredStateFields
<1>. HIDE DEF s
<1>5. ASSUME Recovers(w, u)
      PROVE  StateOK(s)
  <2>1. RecoveryOK(s)
    BY <1>1, <1>2, <1>3 DEF StateOK, RecoveryOK
  <2>2. ASSUME ~clockSetBack
        PROVE  IncidentOK(s)
    <3>1. /\ w.g.admittedAt[u] \in Nat /\ w.g.lastAdmissionAt \in Nat
          /\ w.g.state.incidentStartedAt \in Nat /\ BaseCooldown \in Nat
      BY <1>1, Constants DEF Gate, State
    <3>2. /\ w.g.admittedAt[u] >= w.g.state.incidentStartedAt + BaseCooldown
          /\ w.g.admittedAt[u] <= w.g.lastAdmissionAt /\ w.g.lastAdmissionAt <= now
      BY <1>1, <1>5, <2>2 DEF Recovers, TicketsOK
    <3>3. now > s.incidentStartedAt + BaseCooldown
      BY <1>2, <3>1, <3>2
    <3>4. IncidentOK(w.g.state)
      BY <1>1, <2>2 DEF StateOK
    <3>. QED
      BY <1>2, <3>3, <3>4 DEF IncidentOK
  <2>. QED
    BY <2>1, <2>2 DEF StateOK
<1>6. s.until \in Nat /\ s.stoppedUntil \in Nat
  BY <1>2 DEF State
<1>7. Recovers(w, u) => Sound(f) /\ Keeps(w, f) /\ SameGate(w.g, f.g)
  BY <1>2, <1>3, <1>5, <1>6, SavedSound
<1>. HIDE DEF f
<1>. QED
  BY <1>1, <1>4, <1>7, KeepsItself

LEMMA UnfailedSound ==
  ASSUME now \in Nat \ {0}, NEW w, Sound(w)
  PROVE  LET v == Unfailed(w)
         IN Sound(v) /\ Keeps(w, v) /\ SameGate(w.g, v.g)
<1>. DEFINE s == UnfailedState(w.g.state)
            f == Saved(w, s)
<1>1. Fine(w) /\ w.g.state \in State /\ StateOK(w.g.state)
  BY StateOf DEF Sound
<1>2. /\ s \in State
      /\ s.until = w.g.state.until /\ s.stoppedUntil = w.g.state.stoppedUntil
      /\ s.tier = w.g.state.tier /\ s.incidents = w.g.state.incidents
      /\ s.lastLimitAt = w.g.state.lastLimitAt
      /\ s.incidentStartedAt = w.g.state.incidentStartedAt
      /\ s.recoveryStartedAt = w.g.state.recoveryStartedAt
  BY <1>1, UnfailedStateFields
<1>3. /\ s.probeRequired = w.g.state.probeRequired /\ s.recovering = w.g.state.recovering
      /\ s.held = w.g.state.held
  BY <1>1, UnfailedStateFields
<1>4. Unfailed(w) = IF w.g.state.failureTier # 0 THEN f ELSE w
  BY UnfailedShape
<1>. HIDE DEF s
<1>5. StateOK(s)
  BY <1>1, <1>2, <1>3, SameStateOK
<1>6. s.until \in Nat /\ s.stoppedUntil \in Nat
  BY <1>2 DEF State
<1>7. Sound(f) /\ Keeps(w, f) /\ SameGate(w.g, f.g)
  BY <1>2, <1>3, <1>5, <1>6, SavedSound
<1>. HIDE DEF f
<1>. QED
  BY <1>1, <1>4, <1>7, KeepsItself
-----------------------------------------------------------------------------
(***************************************************************************)
(* The steps of a home with a single daemon.                               *)
(***************************************************************************)
OneDaemon == \A d, e \in Daemons : d = e

PauseStep ==
  clockSetBack \/ \A d \in Daemons : /\ gate'[d].state.until >= gate[d].state.until
                                     /\ gate'[d].state.stoppedUntil >= gate[d].state.stoppedUntil

HoldStep ==
  heldByChatGpt /\ heldByChatGpt' => \A d \in Daemons : gate'[d].tickets \subseteq gate[d].tickets

LEMMA ViewSound ==
  ASSUME TypeInv, GateInv, NEW d \in Daemons
  PROVE  /\ Sound(View(d)) /\ View(d).g = gate[d] /\ WakeOK(View(d).g)
         /\ now \in Nat \ {0} /\ now <= MaxTime
         /\ heldByChatGpt => View(d).g.state.held
<1>1. /\ Fine(View(d)) /\ View(d).g = gate[d] /\ View(d).file = file
      /\ View(d).unread = (d \in stale) /\ now \in Nat \ {0}
  BY ViewFine
<1>2. /\ stale = {} /\ StateOK(file) /\ (heldByChatGpt => file.held)
      /\ StateOK(gate[d].state) /\ SameRecord(gate[d].state, file)
      /\ TicketsOK(gate[d]) /\ WakeOK(gate[d])
  BY DEF GateInv
<1>3. now <= MaxTime
  BY Constants DEF TypeInv, GateTypeOK
<1>4. View(d).unread = FALSE
  <2>1. (d \in stale) = FALSE
    BY <1>2
  <2>2. View(d).unread = (d \in stale)
    BY <1>1
  <2>. QED
    BY <2>1, <2>2, Zenon
<1>5. Sound(View(d))
  BY <1>1, <1>2, <1>4 DEF Sound
<1>. QED
  BY <1>1, <1>2, <1>3, <1>5 DEF SameRecord

LEMMA CommitSound ==
  ASSUME TypeInv, OneDaemon, stale = {}, NEW d \in Daemons, NEW w, Sound(w), WakeOK(w.g), Commit(d, w),
         clockSetBack \/ /\ w.g.state.until >= gate[d].state.until
                         /\ w.g.state.stoppedUntil >= gate[d].state.stoppedUntil,
         heldByChatGpt' => w.g.state.held,
         heldByChatGpt /\ heldByChatGpt' => w.g.tickets \subseteq gate[d].tickets
  PROVE  GateInv' /\ PauseStep /\ HoldStep
<1>1. gate' = [gate EXCEPT ![d] = w.g] /\ file' = w.file
      /\ now' = now /\ clockSetBack' = clockSetBack
  BY DEF Commit
<1>2. stale' = {}
  <2>1. Daemons \ {d} = {}
    BY DEF OneDaemon
  <2>. QED
    BY <2>1 DEF Commit
<1>3. gate \in [Daemons -> Gate]
  BY DEF TypeInv, GateTypeOK
<1>4. \A e \in Daemons : e = d /\ gate'[e] = w.g
  BY <1>1, <1>3 DEF OneDaemon
<1>5. /\ StateOK(w.g.state) /\ StateOK(w.file) /\ SameRecord(w.g.state, w.file)
      /\ TicketsOK(w.g)
  BY DEF Sound
<1>6. StateOK(file)'
  BY <1>1, <1>5 DEF StateOK, RecoveryOK, IncidentOK
<1>7. heldByChatGpt' => file'.held
  BY <1>1, <1>5 DEF SameRecord
<1>8. ASSUME NEW e \in Daemons
      PROVE  /\ StateOK(gate[e].state)' /\ SameRecord(gate[e].state, file)'
             /\ TicketsOK(gate[e])' /\ WakeOK(gate[e])'
  <2>1. gate'[e] = w.g
    BY <1>4
  <2>2. StateOK(gate[e].state)'
    BY <1>1, <1>5, <2>1 DEF StateOK, RecoveryOK, IncidentOK
  <2>3. SameRecord(gate[e].state, file)'
    BY <1>1, <1>5, <2>1 DEF SameRecord
  <2>4. TicketsOK(gate[e])'
    BY <1>1, <1>5, <2>1 DEF TicketsOK
  <2>5. WakeOK(gate[e])'
    BY <1>1, <2>1 DEF WakeOK, Soon, Blocked
  <2>. QED
    BY <2>2, <2>3, <2>4, <2>5
<1>9. GateInv'
  BY <1>2, <1>6, <1>7, <1>8 DEF GateInv
<1>10. PauseStep /\ HoldStep
  BY <1>4 DEF PauseStep, HoldStep
<1>. QED
  BY <1>9, <1>10

\* The same, for work that keeps pauses and holds.
LEMMA KeptSound ==
  ASSUME TypeInv, GateInv, OneDaemon, NEW d \in Daemons, NEW w, Sound(w), WakeOK(w.g), Commit(d, w),
         Keeps(View(d), w), heldByChatGpt' = heldByChatGpt \/ w.g.state.held
  PROVE  GateInv' /\ PauseStep /\ HoldStep
<1>1. View(d).g = gate[d] /\ (heldByChatGpt => View(d).g.state.held)
  BY ViewSound
<1>2. heldByChatGpt' => w.g.state.held
  BY <1>1 DEF Keeps
<1>3. heldByChatGpt => w.g.tickets \subseteq gate[d].tickets
  BY <1>1 DEF Keeps
<1>4. clockSetBack \/ /\ w.g.state.until >= gate[d].state.until
                      /\ w.g.state.stoppedUntil >= gate[d].state.stoppedUntil
  BY <1>1 DEF Keeps
<1>5. stale = {}
  BY DEF GateInv
<1>. QED
  BY <1>2, <1>3, <1>4, <1>5, CommitSound

LEMMA TurnStepSound ==
  ASSUME TypeInv, GateInv, OneDaemon, NEW d \in Daemons, NEW u \in Turns, TurnStep(d, u)
  PROVE  GateInv' /\ PauseStep /\ HoldStep
<1>. DEFINE w == View(d)
<1>1. /\ Sound(w) /\ w.g = gate[d] /\ now \in Nat \ {0} /\ now <= MaxTime /\ WakeOK(w.g)
  BY ViewSound
<1>2. Fine(w) /\ w.g \in Gate /\ Consistent(w.g)
  BY <1>1, StateOf DEF Sound
<1>3. CASE Arrive(d, u)
  <2>. DEFINE v == Awaited(w, u)
  <2>1. u \notin w.g.tickets \cup w.g.over \cup w.g.waiters
    BY <1>1, <1>3 DEF Arrive
  <2>2. Commit(d, v) /\ heldByChatGpt' = heldByChatGpt
    BY <1>3 DEF Arrive
  <2>3. Sound(v) /\ Keeps(w, v) /\ WakeOK(v.g)
    BY <1>1, <2>1, AwaitedSound
  <2>. QED
    BY <2>2, <2>3, KeptSound
<1>4. CASE AbortWait(d, u)
  <2>. DEFINE v == [w EXCEPT !.g = Gone(@, {u})]
              p == Pumped(v)
  <2>1. w.g.probeTicket # u
    BY <1>1, <1>2, <1>4, NoTurnAssumption DEF AbortWait, Consistent
  <2>2. Commit(d, p) /\ heldByChatGpt' = heldByChatGpt
    BY <1>4 DEF AbortWait
  <2>3. Sound(v) /\ Keeps(w, v)
    BY <1>1, <2>1, OverSound
  <2>. HIDE DEF v
  <2>4. Sound(p) /\ Keeps(v, p) /\ WakeOK(p.g)
    BY <1>1, <2>3, PumpedSound
  <2>5. Keeps(w, p)
    BY <1>2, <2>3, <2>4, KeepsTransitive DEF Sound
  <2>. QED
    BY <2>2, <2>4, <2>5, KeptSound
<1>5. CASE ToolsWait(d, u)
  <2>. DEFINE v == [w EXCEPT !.g.waitingForTools = Toggled(w, u)]
              p == Pumped(v)
  <2>1. Toggled(w, u) \in SUBSET w.g.tickets
    BY <1>1, <1>2, <1>5 DEF ToolsWait, Toggled, Consistent
  <2>2. Commit(d, p) /\ heldByChatGpt' = heldByChatGpt
    BY <1>5 DEF ToolsWait, Toggled
  <2>3. /\ Fine(v) /\ v.g = [w.g EXCEPT !.waitingForTools = Toggled(w, u)]
        /\ v.file = w.file /\ v.unread = w.unread
    BY <1>2, <2>1, ToolsEdited
  <2>. HIDE DEF v
  <2>4. /\ v.g.state = w.g.state /\ v.g.tickets = w.g.tickets
        /\ v.g.admittedAt = w.g.admittedAt /\ v.g.lastAdmissionAt = w.g.lastAdmissionAt
        /\ v.g.probeTicket = w.g.probeTicket
    BY <1>2, <2>3 DEF Gate
  <2>5. Sound(v) /\ Keeps(w, v)
    BY <1>1, <2>3, <2>4, ReplacedSound
  <2>6. Sound(p) /\ Keeps(v, p) /\ WakeOK(p.g)
    BY <1>1, <2>5, PumpedSound
  <2>7. Keeps(w, p)
    BY <1>2, <2>5, <2>6, KeepsTransitive DEF Sound
  <2>. QED
    BY <2>2, <2>6, <2>7, KeptSound
<1>6. CASE Accept(d, u)
  <2>. DEFINE v == [w EXCEPT !.g.accepted = @ \cup {u}]
              q == ProbeAccepted(v, u)
              p == Pumped(q)
  <2>1. u \in w.g.tickets
    BY <1>1, <1>6 DEF Accept
  <2>2. Commit(d, p) /\ heldByChatGpt' = heldByChatGpt
    BY <1>6 DEF Accept
  <2>3. /\ Fine(v) /\ v.g = [w.g EXCEPT !.accepted = @ \cup {u}]
        /\ v.file = w.file /\ v.unread = w.unread
    BY <1>2, <2>1, AcceptedEdited
  <2>. HIDE DEF v
  <2>4. /\ v.g.state = w.g.state /\ v.g.tickets = w.g.tickets
        /\ v.g.admittedAt = w.g.admittedAt /\ v.g.lastAdmissionAt = w.g.lastAdmissionAt
        /\ v.g.probeTicket = w.g.probeTicket
    BY <1>2, <2>3 DEF Gate
  <2>5. Sound(v) /\ Keeps(w, v)
    BY <1>1, <2>3, <2>4, ReplacedSound
  <2>6. Sound(q) /\ Keeps(v, q)
    BY <1>1, <2>5, ProbeAcceptedSound
  <2>. HIDE DEF q
  <2>7. Sound(p) /\ Keeps(q, p) /\ WakeOK(p.g)
    BY <1>1, <2>6, PumpedSound
  <2>8. Keeps(w, q)
    BY <1>2, <2>5, <2>6, KeepsTransitive DEF Sound
  <2>9. Keeps(w, p)
    BY <1>2, <2>6, <2>7, <2>8, KeepsTransitive DEF Sound
  <2>. QED
    BY <2>2, <2>7, <2>9, KeptSound
<1>7. CASE Clean(d, u)
  <2>. DEFINE r == Recovered(w, u)
              q == Unfailed(r)
              v == Finished(q, u)
  <2>1. u \in w.g.tickets /\ w.g.lastAdmissionAt # now
    BY <1>1, <1>7 DEF Clean, Answering
  <2>2. Commit(d, v) /\ heldByChatGpt' = heldByChatGpt
    BY <1>7 DEF Clean, FinishedClean, Finished
  <2>3. Sound(r) /\ Keeps(w, r) /\ SameGate(w.g, r.g)
    BY <1>1, <2>1, RecoveredSound
  <2>. HIDE DEF r
  <2>4. Sound(q) /\ Keeps(r, q) /\ SameGate(r.g, q.g)
    BY <1>1, <2>3, UnfailedSound
  <2>. HIDE DEF q
  <2>5. u \in q.g.tickets
    BY <2>1, <2>3, <2>4 DEF SameGate, SameQueue
  <2>6. Sound(v) /\ Keeps(q, v) /\ WakeOK(v.g)
    BY <1>1, <2>4, <2>5, FinishedSound
  <2>7. Keeps(w, q)
    BY <1>2, <2>3, <2>4, KeepsTransitive DEF Sound
  <2>8. Keeps(w, v)
    BY <1>2, <2>4, <2>6, <2>7, KeepsTransitive DEF Sound
  <2>. QED
    BY <2>2, <2>6, <2>8, KeptSound
<1>8. CASE GiveBack(d, u)
  <2>. DEFINE v == Finished(w, u)
  <2>1. u \in w.g.tickets
    BY <1>1, <1>8 DEF GiveBack
  <2>2. Commit(d, v) /\ heldByChatGpt' = heldByChatGpt
    BY <1>8 DEF GiveBack
  <2>3. Sound(v) /\ Keeps(w, v) /\ WakeOK(v.g)
    BY <1>1, <2>1, FinishedSound
  <2>. QED
    BY <2>2, <2>3, KeptSound
<1>9. CASE Fail(d, u)
  <2>. DEFINE f == FailureRecorded(w, w.g.admittedAt[u])
              v == Finished(f, u)
  <2>1. u \in w.g.tickets
    BY <1>1, <1>9 DEF Fail, Answering
  <2>2. Commit(d, v) /\ heldByChatGpt' = heldByChatGpt
    BY <1>1, <1>9 DEF Fail
  <2>3. Sound(f) /\ Keeps(w, f) /\ u \in f.g.tickets
    BY <1>1, <2>1, FailureRecordedSound
  <2>. HIDE DEF f
  <2>4. Sound(v) /\ Keeps(f, v) /\ WakeOK(v.g)
    BY <1>1, <2>3, FinishedSound
  <2>5. Keeps(w, v)
    BY <1>2, <2>3, <2>4, KeepsTransitive DEF Sound
  <2>. QED
    BY <2>2, <2>4, <2>5, KeptSound
<1>10. CASE RateLimited(d, u)
  <2>. DEFINE f == RateLimitRecorded(w, w.g.admittedAt[u])
              v == Finished(f, u)
              q == Awaited(Unadmitted(Pumped(Released(f, u)), u), u)
  <2>1. u \in w.g.tickets /\ w.g.lastAdmissionAt # now
    BY <1>1, <1>10 DEF RateLimited, Answering
  <2>2. (Commit(d, v) \/ Commit(d, q)) /\ heldByChatGpt' = heldByChatGpt
    BY <1>1, <1>10 DEF RateLimited, Unadmitted
  <2>3. Sound(f) /\ Keeps(w, f) /\ u \in f.g.tickets
    BY <1>1, <2>1, RateLimitRecordedSound
  <2>. HIDE DEF f
  <2>4. Sound(v) /\ Keeps(f, v) /\ WakeOK(v.g)
    BY <1>1, <2>3, FinishedSound
  <2>5. Sound(q) /\ Keeps(f, q) /\ WakeOK(q.g)
    BY <1>1, <2>3, RequeuedSound
  <2>. HIDE DEF v, q
  <2>6. Keeps(w, v)
    BY <1>2, <2>3, <2>4, KeepsTransitive DEF Sound
  <2>7. Keeps(w, q)
    BY <1>2, <2>3, <2>5, KeepsTransitive DEF Sound
  <2>. QED
    BY <2>2, <2>4, <2>5, <2>6, <2>7, KeptSound
<1>11. CASE SeeHold(d, u)
  <2>. DEFINE f == HoldRecorded(w)
              v == Finished(f, u)
  <2>1. u \in w.g.tickets
    BY <1>1, <1>11 DEF SeeHold, Answering
  <2>2. Commit(d, v)
    BY <1>11 DEF SeeHold
  <2>3. Sound(f) /\ Keeps(w, f) /\ u \in f.g.tickets /\ f.g.state.held
    BY <1>1, <2>1, HoldRecordedSound
  <2>. HIDE DEF f
  <2>4. Sound(v) /\ Keeps(f, v) /\ WakeOK(v.g)
    BY <1>1, <2>3, FinishedSound
  <2>. HIDE DEF v
  <2>5. Keeps(w, v) /\ v.g.state.held
    BY <1>2, <2>3, <2>4, KeepsTransitive DEF Sound, Keeps
  <2>. QED
    BY <2>2, <2>4, <2>5, KeptSound
<1>. QED
  BY <1>3, <1>4, <1>5, <1>6, <1>7, <1>8, <1>9, <1>10, <1>11 DEF TurnStep

LEMMA ClearHoldSound ==
  ASSUME TypeInv, GateInv, OneDaemon, NEW d \in Daemons, ClearHold(d)
  PROVE  GateInv' /\ PauseStep /\ HoldStep
<1>. DEFINE w == View(d)
            r == Refreshed(w)
            s == HeldState(r.g.state, FALSE)
            v == Saved(r, s)
            p == Pumped(v)
<1>1. /\ Sound(w) /\ w.g = gate[d] /\ now \in Nat \ {0} /\ now <= MaxTime /\ WakeOK(w.g)
  BY ViewSound
<1>2. Sound(r) /\ Keeps(w, r) /\ SameGate(w.g, r.g) /\ r.g.state = w.g.state
  BY <1>1, RefreshedSound
<1>3. [r EXCEPT !.g.state.held = FALSE] = [r EXCEPT !.g.state = s]
  BY DEF HeldState
<1>4. Commit(d, IF r.g.state.held THEN p ELSE r) /\ heldByChatGpt' = FALSE
  BY <1>3 DEF ClearHold, Saved
<1>5. stale = {}
  BY DEF GateInv
<1>. HIDE DEF w, r
<1>6. r.g.state \in State /\ StateOK(r.g.state) /\ Fine(r)
  BY <1>2, StateOf DEF Sound
<1>7. CASE r.g.state.held
  <2>1. /\ s \in State
        /\ s.until = r.g.state.until /\ s.stoppedUntil = r.g.state.stoppedUntil
        /\ s.tier = r.g.state.tier /\ s.incidents = r.g.state.incidents
        /\ s.lastLimitAt = r.g.state.lastLimitAt
        /\ s.incidentStartedAt = r.g.state.incidentStartedAt
        /\ s.recoveryStartedAt = r.g.state.recoveryStartedAt
    BY <1>6, HeldStateFields
  <2>2. s.probeRequired = r.g.state.probeRequired /\ s.recovering = r.g.state.recovering
    BY <1>6, HeldStateFields
  <2>. HIDE DEF s
  <2>3. StateOK(s)
    BY <1>6, <2>1, <2>2, SameStateOK
  <2>4. /\ Sound(v) /\ v.g.state.until = s.until /\ v.g.state.stoppedUntil = s.stoppedUntil
    BY <1>1, <1>2, <2>1, <2>2, <2>3, SavedAlone
  <2>. HIDE DEF v
  <2>5. Sound(p) /\ Keeps(v, p) /\ WakeOK(p.g)
    BY <1>1, <2>4, PumpedSound
  <2>. HIDE DEF p
  <2>6. clockSetBack \/ /\ p.g.state.until >= gate[d].state.until
                        /\ p.g.state.stoppedUntil >= gate[d].state.stoppedUntil
    BY <1>1, <1>2, <2>1, <2>4, <2>5 DEF Keeps
  <2>7. Commit(d, p)
    BY <1>4, <1>7
  <2>. QED
    BY <1>4, <1>5, <2>5, <2>6, <2>7, CommitSound
<1>8. CASE ~r.g.state.held
  <2>1. Commit(d, r)
    BY <1>4, <1>8
  <2>2. WakeOK(r.g)
    BY <1>1, <1>2, WakeSame DEF SameGate, SameQueue
  <2>3. clockSetBack \/ /\ r.g.state.until >= gate[d].state.until
                        /\ r.g.state.stoppedUntil >= gate[d].state.stoppedUntil
    BY <1>1, <1>2 DEF Keeps
  <2>. QED
    BY <1>2, <1>4, <1>5, <2>1, <2>2, <2>3, CommitSound
<1>. QED
  BY <1>7, <1>8

LEMMA LookSound ==
  ASSUME TypeInv, GateInv, OneDaemon, NEW d \in Daemons, Look(d)
  PROVE  GateInv' /\ PauseStep /\ HoldStep
<1>. DEFINE w == View(d)
            c == Current(w)
<1>1. Sound(w) /\ now \in Nat \ {0} /\ WakeOK(w.g)
  BY ViewSound
<1>2. /\ Sound(c) /\ Keeps(w, c) /\ SameGate(w.g, c.g) /\ c.g.state = Normalized(w.g.state)
  BY <1>1, CurrentSound
<1>3. Commit(d, c) /\ heldByChatGpt' = heldByChatGpt
  BY DEF Look
<1>4. w.g \in Gate /\ c.g \in Gate
  BY <1>1, <1>2, StateOf DEF Sound
<1>. HIDE DEF c
<1>5. WakeOK(c.g)
  BY <1>1, <1>2, <1>4, NormalizedWake
<1>. QED
  BY <1>2, <1>3, <1>5, KeptSound

LEMMA WakeSound ==
  ASSUME TypeInv, GateInv, OneDaemon, NEW d \in Daemons, Wake(d)
  PROVE  GateInv' /\ PauseStep /\ HoldStep
<1>. DEFINE w == View(d)
            v == [w EXCEPT !.g.timerAt = Never]
            p == Pumped(v)
<1>1. Sound(w) /\ now \in Nat \ {0}
  BY ViewSound
<1>2. Fine(w) /\ w.g \in Gate
  BY <1>1, StateOf DEF Sound
<1>3. Commit(d, p) /\ heldByChatGpt' = heldByChatGpt
  BY DEF Wake
<1>4. /\ Fine(v) /\ v.g = [w.g EXCEPT !.timerAt = Never]
      /\ v.file = w.file /\ v.unread = w.unread
  BY <1>2, TimerEdited, Constants
<1>. HIDE DEF v
<1>5. /\ v.g.state = w.g.state /\ v.g.tickets = w.g.tickets
      /\ v.g.admittedAt = w.g.admittedAt /\ v.g.lastAdmissionAt = w.g.lastAdmissionAt
      /\ v.g.probeTicket = w.g.probeTicket
  BY <1>2, <1>4 DEF Gate
<1>6. Sound(v) /\ Keeps(w, v)
  BY <1>1, <1>4, <1>5, ReplacedSound
<1>7. Sound(p) /\ Keeps(v, p) /\ WakeOK(p.g)
  BY <1>1, <1>6, PumpedSound
<1>8. Keeps(w, p)
  BY <1>2, <1>6, <1>7, KeepsTransitive DEF Sound
<1>. QED
  BY <1>3, <1>7, <1>8, KeptSound

LEMMA EmptyStateOK ==
  ASSUME now \in Nat
  PROVE  StateOK(emptyState)
<1>1. Cardinality({}) = 0
  BY FS_EmptySet
<1>2. /\ emptyState.until = 0 /\ emptyState.stoppedUntil = 0 /\ emptyState.tier = 0
      /\ emptyState.incidentStartedAt = 0 /\ emptyState.lastLimitAt = 0
      /\ emptyState.incidents = {} /\ emptyState.recoveryStartedAt = 0
  BY DEF emptyState
<1>3. emptyState.recovering = FALSE
  BY DEF emptyState
<1>4. RecoveryOK(emptyState)
  BY <1>2, <1>3, Constants DEF RecoveryOK
<1>5. IncidentOK(emptyState)
  BY <1>1, <1>2, Constants DEF IncidentOK
<1>. QED
  BY <1>4, <1>5 DEF StateOK

LEMMA RestartSound ==
  ASSUME TypeInv, GateInv, OneDaemon, NEW d \in Daemons, Restart(d)
  PROVE  GateInv' /\ PauseStep /\ HoldStep
<1>. DEFINE lost == gate[d].over \cup gate[d].waiters \cup gate[d].tickets
            r == Refreshed(RestartedWork(lost))
            s == gate[d].state
            t == r.g.state
<1>1. /\ Whole(gate[d]) /\ now \in Nat \ {0} /\ file \in State /\ gate \in [Daemons -> Gate]
  BY ViewFine DEF TypeInv, GateTypeOK
<1>2. lost \in SUBSET Turns /\ s \in State
  BY <1>1 DEF Whole, Gate
<1>3. /\ gate' = [gate EXCEPT ![d] = r.g] /\ stale' = stale \ {d}
      /\ now' = now /\ file' = file
      /\ heldByChatGpt' = heldByChatGpt /\ clockSetBack' = clockSetBack
  BY DEF Restart, RestartedWork
<1>4. /\ stale = {} /\ StateOK(file) /\ (heldByChatGpt => file.held)
      /\ StateOK(s) /\ SameRecord(s, file)
  BY DEF GateInv
<1>. HIDE DEF lost
<1>5. /\ Fine(r) /\ r.g.waiters = {} /\ r.g.tickets = {} /\ r.g.lastAdmissionAt = 0
      /\ t = IF file.updatedAt > 0 THEN Normalized(file) ELSE emptyState
  BY <1>1, <1>2, RestartedFields
<1>. HIDE DEF r
<1>6. \A e \in Daemons : e = d /\ gate'[e] = r.g
  BY <1>1, <1>3 DEF OneDaemon
<1>. HIDE DEF s, t
<1>7. /\ StateOK(t) /\ SameRecord(t, file)
      /\ clockSetBack \/ (t.until >= s.until /\ t.stoppedUntil >= s.stoppedUntil)
  <2>1. CASE file.updatedAt > 0
    <3>1. t = Normalized(file)
      BY <1>5, <2>1
    <3>2. /\ StateOK(t)
          /\ clockSetBack \/ (t.until = file.until /\ t.stoppedUntil = file.stoppedUntil)
      BY <1>1, <1>4, <3>1, NormalizedOK
    <3>3. t.held = file.held /\ t.updatedAt = file.updatedAt
      BY <1>1, <3>1, NormalizedFields
    <3>4. SameRecord(t, file)
      BY <2>1, <3>2, <3>3 DEF SameRecord
    <3>5. clockSetBack \/ (t.until = s.until /\ t.stoppedUntil = s.stoppedUntil)
      BY <1>4, <3>2 DEF SameRecord
    <3>6. s.until \in Nat /\ s.stoppedUntil \in Nat
      BY <1>2 DEF State
    <3>. QED
      BY <3>2, <3>4, <3>5, <3>6
  <2>2. CASE ~(file.updatedAt > 0)
    <3>1. t = emptyState /\ file.updatedAt = 0
      BY <1>1, <1>5, <2>2 DEF State
    <3>2. StateOK(t)
      BY <1>1, <3>1, EmptyStateOK
    <3>3. t.until = 0 /\ t.stoppedUntil = 0 /\ t.updatedAt = 0
      BY <3>1 DEF emptyState
    <3>4. t.held = FALSE
      BY <3>1 DEF emptyState
    <3>5. s.updatedAt = 0 /\ ~s.held /\ s.until = 0 /\ s.stoppedUntil = 0 /\ file.held = s.held
      BY <1>4, <3>1 DEF SameRecord
    <3>6. clockSetBack \/ (file.until = 0 /\ file.stoppedUntil = 0)
      BY <1>4, <3>5 DEF SameRecord
    <3>7. t.held = file.held
      <4>1. file.held \in BOOLEAN /\ ~file.held
        BY <1>1, <3>5 DEF State
      <4>. QED
        BY <3>4, <4>1
    <3>8. SameRecord(t, file)
      BY <3>1, <3>3, <3>4, <3>6, <3>7 DEF SameRecord
    <3>. QED
      BY <3>2, <3>3, <3>5, <3>8
  <2>. QED
    BY <2>1, <2>2
<1>8. StateOK(file)'
  BY <1>3, <1>4 DEF StateOK, RecoveryOK, IncidentOK
<1>9. ASSUME NEW e \in Daemons
      PROVE  /\ StateOK(gate[e].state)' /\ SameRecord(gate[e].state, file)'
             /\ TicketsOK(gate[e])' /\ WakeOK(gate[e])'
  <2>1. gate'[e] = r.g /\ gate'[e].state = t
    BY <1>6 DEF t
  <2>2. StateOK(gate[e].state)'
    BY <1>3, <1>7, <2>1 DEF StateOK, RecoveryOK, IncidentOK
  <2>3. SameRecord(gate[e].state, file)'
    BY <1>3, <1>7, <2>1 DEF SameRecord
  <2>4. TicketsOK(gate[e])'
    BY <1>1, <1>3, <1>5, <2>1 DEF TicketsOK
  <2>5. WakeOK(gate[e])'
    BY <1>5, <2>1 DEF WakeOK
  <2>. QED
    BY <2>2, <2>3, <2>4, <2>5
<1>10. GateInv'
  <2>1. stale' = {} /\ (heldByChatGpt' => file'.held)
    BY <1>3, <1>4
  <2>. QED
    BY <1>8, <1>9, <2>1 DEF GateInv
<1>11. PauseStep
  <2>1. \A e \in Daemons : gate'[e].state = t /\ gate[e].state = s
    BY <1>6 DEF s, t
  <2>. QED
    BY <1>7, <2>1 DEF PauseStep
<1>12. HoldStep
  BY <1>5, <1>6 DEF HoldStep
<1>. QED
  BY <1>10, <1>11, <1>12

LEMMA TickSound ==
  ASSUME TypeInv, GateInv, Tick
  PROVE  GateInv' /\ PauseStep /\ HoldStep
<1>1. /\ now' = now + 1 /\ gate' = gate /\ file' = file /\ stale' = stale
      /\ heldByChatGpt' = heldByChatGpt /\ clockSetBack' = clockSetBack
  BY DEF Tick
<1>2. now \in Nat /\ file \in State /\ gate \in [Daemons -> Gate]
  BY Constants DEF TypeInv, GateTypeOK
<1>3. ASSUME NEW s, s \in State, StateOK(s)
      PROVE  RecoveryOK(s)' /\ (clockSetBack' \/ IncidentOK(s)')
  <2>1. RecoveryOK(s)'
    BY <1>3 DEF StateOK, RecoveryOK
  <2>2. /\ s.incidentStartedAt \in Nat /\ s.lastLimitAt \in Nat /\ s.until \in Nat
        /\ s.stoppedUntil \in Nat /\ BaseCooldown \in Nat /\ MaxCooldown \in Nat
        /\ IncidentWindow \in Nat
    BY <1>3, Constants DEF State
  <2>3. ASSUME ~clockSetBack
        PROVE  IncidentOK(s)'
    <3>1. IncidentOK(s)
      BY <1>3, <2>3 DEF StateOK
    <3>2. s.lastLimitAt <= now + 1
      BY <1>2, <2>2, <3>1 DEF IncidentOK
    <3>3. s.incidentStartedAt > 0 /\ s.tier = 0 => now + 1 > s.incidentStartedAt + BaseCooldown
      BY <1>2, <2>2, <3>1 DEF IncidentOK
    <3>4. s.until <= now + 1 + MaxCooldown /\ s.stoppedUntil <= now + 1 + IncidentWindow
      BY <1>2, <2>2, <3>1 DEF IncidentOK
    <3>. QED
      BY <1>1, <3>1, <3>2, <3>3, <3>4 DEF IncidentOK
  <2>. QED
    BY <1>1, <2>1, <2>3
<1>4. ASSUME NEW d \in Daemons
      PROVE  StateOK(gate[d].state)' /\ TicketsOK(gate[d])' /\ WakeOK(gate[d])'
  <2>. DEFINE g == gate[d]
              s == gate[d].state
              at == gate[d].timerAt
              last == gate[d].lastAdmissionAt
  <2>1. g \in Gate /\ s \in State /\ at \in Nat /\ last \in Nat
    BY <1>2 DEF Gate
  <2>2. StateOK(s) /\ TicketsOK(g) /\ WakeOK(g)
    BY DEF GateInv
  <2>3. /\ s.recoveryStartedAt \in Nat /\ s.until \in Nat /\ MaxCooldown \in Nat
        /\ RampInterval \in Nat /\ RecoverySpacing \in Nat /\ Spacing(s) \in Nat \ {0}
        /\ RecoverySpacing <= RampInterval /\ OpenSpacing \in Nat
        /\ RecoverySpacing <= Spacing(s) + RampInterval
    BY <2>1, Constants DEF State, Spacing
  <2>4. StateOK(gate[d].state)'
    BY <1>1, <1>3, <2>1, <2>2 DEF StateOK, RecoveryOK, IncidentOK
  <2>5. TicketsOK(gate[d])'
    <3>1. last <= now => last <= now + 1
      BY <1>2, <2>1
    <3>. QED
      BY <1>1, <2>2, <3>1 DEF TicketsOK
  <2>6. ASSUME Soon(g)
        PROVE  Soon(gate[d])'
    <3>1. at <= Max({now + 1, s.recoveryStartedAt}) + RampInterval
      BY <1>2, <2>1, <2>3, <2>6, LatestOfTwo DEF Soon
    <3>. QED
      BY <1>1, <3>1 DEF Soon
  <2>7. ASSUME at <= now + 1 + RampInterval
        PROVE  Soon(gate[d])'
    <3>1. Max({now + 1, s.recoveryStartedAt}) \in Nat
      BY <1>2, <2>3, LatestOfTwo
    <3>2. Max({now + 1, s.recoveryStartedAt}) >= now + 1
      BY <1>2, <2>3, LatestOfTwo
    <3>3. at <= Max({now + 1, s.recoveryStartedAt}) + RampInterval
      BY <1>2, <2>1, <2>3, <2>7, <3>1, <3>2
    <3>. QED
      BY <1>1, <3>3 DEF Soon
  <2>8. ASSUME Blocked(g)
        PROVE  Soon(gate[d])' \/ Blocked(gate[d])'
    <3>1. CASE now < s.until /\ at <= s.until /\ at <= now + MaxCooldown
      <4>1. CASE now + 1 < s.until
        <5>1. at <= now + 1 + MaxCooldown
          BY <1>2, <2>1, <2>3, <3>1
        <5>. QED
          BY <1>1, <3>1, <4>1, <5>1 DEF Blocked
      <4>2. CASE ~(now + 1 < s.until)
        <5>1. at <= now + 1 + RampInterval
          BY <1>2, <2>1, <2>3, <3>1, <4>2
        <5>. QED
          BY <2>7, <5>1
      <4>. QED
        BY <4>1, <4>2
    <3>2. CASE \/ Cardinality(g.tickets) >= MaxTabs
               \/ s.probeRequired /\ g.probeTicket # NoTurn
               \/ /\ ~s.probeRequired /\ ~s.recovering
                  /\ Cardinality(g.tickets \ g.waitingForTools) >= MaxConcurrency
      BY <1>1, <3>2 DEF Blocked
    <3>3. CASE last > 0 /\ now < last + Spacing(s) /\ at <= last + RecoverySpacing
      <4>1. CASE now + 1 < last + Spacing(s)
        BY <1>1, <3>3, <4>1 DEF Blocked, Spacing
      <4>2. CASE ~(now + 1 < last + Spacing(s))
        <5>. HIDE DEF s, last, at
        <5>0. last \in Nat /\ Spacing(s) \in Nat
          BY <2>1, <2>3
        <5>1. last <= now + 1
          BY <1>2, <4>2, <5>0
        <5>2. at <= now + 1 + RampInterval
          BY <1>2, <2>1, <2>3, <3>3, <5>1
        <5>. QED
          BY <2>7, <5>2 DEF at
      <4>. QED
        BY <4>1, <4>2
    <3>. QED
      BY <2>8, <3>1, <3>2, <3>3 DEF Blocked
  <2>9. WakeOK(gate[d])'
    BY <1>1, <2>2, <2>6, <2>8 DEF WakeOK
  <2>. QED
    BY <2>4, <2>5, <2>9
<1>5. StateOK(file)'
  <2>1. StateOK(file)
    BY DEF GateInv
  <2>. QED
    BY <1>1, <1>2, <1>3, <2>1 DEF StateOK, RecoveryOK, IncidentOK
<1>6. \A d \in Daemons : SameRecord(gate[d].state, file)'
  BY <1>1 DEF GateInv, SameRecord
<1>7. GateInv'
  <2>1. stale' = {} /\ (heldByChatGpt' => file'.held)
    BY <1>1 DEF GateInv
  <2>. QED
    BY <1>4, <1>5, <1>6, <2>1 DEF GateInv
<1>8. PauseStep /\ HoldStep
  <2>1. \A d \in Daemons : gate[d].state.until \in Nat /\ gate[d].state.stoppedUntil \in Nat
    BY <1>2 DEF Gate, State
  <2>. QED
    BY <1>1, <2>1 DEF PauseStep, HoldStep
<1>. QED
  BY <1>7, <1>8

LEMMA SetClockBackSound ==
  ASSUME TypeInv, GateInv, SetClockBack
  PROVE  GateInv' /\ PauseStep /\ HoldStep
<1>1. PICK k \in 1 .. MaxClockSetBack :
        /\ k < now /\ now' = now - k
        /\ gate' = [d \in Daemons |->
             [gate[d] EXCEPT !.timerAt = IF @ = Never THEN @ ELSE IF @ <= k THEN 0 ELSE @ - k]]
        /\ clockSetBack' = TRUE /\ file' = file /\ stale' = stale
        /\ heldByChatGpt' = heldByChatGpt
  BY DEF SetClockBack
<1>2. k \in Nat \ {0} /\ now \in Nat /\ MaxTime \in Nat /\ now - k \in Nat
  BY <1>1, Constants DEF TypeInv, GateTypeOK
<1>3. now <= MaxTime
  BY Constants DEF TypeInv, GateTypeOK
<1>4. gate \in [Daemons -> Gate]
  BY DEF TypeInv, GateTypeOK
<1>5. ASSUME NEW d \in Daemons
      PROVE  /\ gate'[d].state = gate[d].state /\ gate'[d].tickets = gate[d].tickets
             /\ gate'[d].waiters = gate[d].waiters
             /\ gate'[d].waitingForTools = gate[d].waitingForTools
             /\ gate'[d].probeTicket = gate[d].probeTicket
             /\ gate'[d].lastAdmissionAt = gate[d].lastAdmissionAt
             /\ gate'[d].timerAt = Earlier(gate[d].timerAt, k)
  <2>. DEFINE t == Earlier(gate[d].timerAt, k)
  <2>1. gate[d] \in Gate
    BY <1>4
  <2>2. gate'[d] = [gate[d] EXCEPT !.timerAt = t]
    BY <1>1 DEF Earlier
  <2>. HIDE DEF t
  <2>3. /\ gate'[d].state = gate[d].state /\ gate'[d].tickets = gate[d].tickets
        /\ gate'[d].waiters = gate[d].waiters
        /\ gate'[d].waitingForTools = gate[d].waitingForTools
        /\ gate'[d].probeTicket = gate[d].probeTicket
        /\ gate'[d].lastAdmissionAt = gate[d].lastAdmissionAt /\ gate'[d].timerAt = t
    BY <2>1, <2>2 DEF Gate
  <2>. QED
    BY <2>3 DEF t
<1>6. ASSUME NEW d \in Daemons
      PROVE  WakeOK(gate[d])'
  <2>. DEFINE g == gate[d]
              s == gate[d].state
              at == gate[d].timerAt
              next == gate'[d].timerAt
              last == gate[d].lastAdmissionAt
  <2>1. g \in Gate /\ s \in State /\ at \in Nat /\ last \in Nat
    BY <1>4 DEF Gate
  <2>2. WakeOK(g) /\ StateOK(s)
    BY DEF GateInv
  <2>3. /\ s.recoveryStartedAt \in Nat /\ s.until \in Nat /\ MaxCooldown \in Nat \ {0}
        /\ RampInterval \in Nat \ {0} /\ RecoverySpacing \in Nat
        /\ MaxWait \in Nat /\ IncidentWindow \in Nat /\ Never \in Nat
    BY <2>1, Constants DEF State
  <2>4. s.recoveryStartedAt <= MaxTime
    BY <2>2 DEF StateOK, RecoveryOK
  <2>5. Never > MaxTime + MaxCooldown /\ Never > MaxTime + RampInterval
    BY <1>2, <2>3, NeverIsFar
  <2>6. next \in Nat /\ next <= at
    BY <1>2, <1>5, <2>1 DEF Earlier
  <2>7. at # Never => next = IF at <= k THEN 0 ELSE at - k
    BY <1>5 DEF Earlier
  <2>8. ASSUME Soon(g)
        PROVE  Soon(gate[d])'
    <3>. DEFINE m == Max({now, s.recoveryStartedAt})
                n == Max({now - k, s.recoveryStartedAt})
    <3>1. /\ m \in Nat /\ m = IF now >= s.recoveryStartedAt THEN now ELSE s.recoveryStartedAt
          /\ n \in Nat /\ n = IF now - k >= s.recoveryStartedAt THEN now - k ELSE s.recoveryStartedAt
      BY <1>2, <2>3, LatestOfTwo
    <3>2. at <= m + RampInterval
      BY <2>8 DEF Soon
    <3>. HIDE DEF m, n, at, next
    <3>3. m <= MaxTime
      BY <1>3, <2>4, <3>1
    <3>4. at # Never
      BY <1>2, <2>1, <2>3, <2>5, <3>1, <3>2, <3>3
    <3>5. next = IF at <= k THEN 0 ELSE at - k
      BY <2>7, <3>4 DEF at, next
    <3>6. m <= n + k
      BY <1>2, <2>3, <3>1
    <3>7. next <= n + RampInterval
      BY <1>2, <2>1, <2>3, <3>1, <3>2, <3>5, <3>6
    <3>. QED
      BY <1>1, <1>5, <3>7 DEF Soon, n, next
  <2>9. ASSUME Blocked(g)
        PROVE  Blocked(gate[d])'
    <3>1. CASE now < s.until /\ at <= s.until /\ at <= now + MaxCooldown
      <4>. HIDE DEF s, at, next
      <4>1. at # Never
        BY <1>2, <1>3, <2>1, <2>3, <2>5, <3>1
      <4>2. next = IF at <= k THEN 0 ELSE at - k
        BY <2>7, <4>1 DEF at, next
      <4>3. now - k < s.until /\ next <= s.until /\ next <= now - k + MaxCooldown
        BY <1>2, <2>1, <2>3, <2>6, <3>1, <4>2
      <4>. QED
        BY <1>1, <1>5, <4>3 DEF Blocked, s, next
    <3>2. CASE \/ Cardinality(g.tickets) >= MaxTabs
               \/ s.probeRequired /\ g.probeTicket # NoTurn
               \/ /\ ~s.probeRequired /\ ~s.recovering
                  /\ Cardinality(g.tickets \ g.waitingForTools) >= MaxConcurrency
      BY <1>5, <3>2 DEF Blocked
    <3>3. CASE last > 0 /\ now < last + Spacing(s) /\ at <= last + RecoverySpacing
      <4>1. Spacing(s) \in Nat
        BY Constants DEF Spacing
      <4>2. now - k < last + Spacing(s) /\ next <= last + RecoverySpacing
        <5>. HIDE DEF last, at, next
        <5>1. next <= last + RecoverySpacing
          BY <2>1, <2>3, <2>6, <3>3
        <5>2. now - k < last + Spacing(s)
          BY <1>2, <2>1, <3>3, <4>1
        <5>. QED
          BY <5>1, <5>2
      <4>. QED
        BY <1>1, <1>5, <3>3, <4>2 DEF Blocked, Spacing
    <3>. QED
      BY <2>9, <3>1, <3>2, <3>3 DEF Blocked
  <2>. QED
    BY <1>5, <2>2, <2>8, <2>9 DEF WakeOK
<1>7. \A d \in Daemons : StateOK(gate[d].state)' /\ TicketsOK(gate[d])'
  BY <1>1, <1>5 DEF GateInv, StateOK, RecoveryOK, TicketsOK
<1>8. \A d \in Daemons : SameRecord(gate[d].state, file)'
  BY <1>1, <1>5 DEF GateInv, SameRecord
<1>9. GateInv'
  <2>1. stale' = {} /\ (heldByChatGpt' => file'.held) /\ StateOK(file)'
    BY <1>1 DEF GateInv, StateOK, RecoveryOK
  <2>. QED
    BY <1>6, <1>7, <1>8, <2>1 DEF GateInv
<1>10. PauseStep /\ HoldStep
  <2>1. \A d \in Daemons : gate[d].state.until \in Nat /\ gate[d].state.stoppedUntil \in Nat
    BY <1>4 DEF Gate, State
  <2>. QED
    BY <1>5, <2>1 DEF PauseStep, HoldStep
<1>. QED
  BY <1>9, <1>10

LEMMA InitSound ==
  ASSUME GateInit
  PROVE  GateInv
<1>1. /\ now = 1 /\ stale = {} /\ file = emptyState /\ heldByChatGpt = FALSE
      /\ gate = [d \in Daemons |-> NewGate({})]
  BY DEF GateInit
<1>2. StateOK(emptyState)
  BY <1>1, EmptyStateOK
<1>3. SameRecord(emptyState, emptyState)
  BY DEF SameRecord, emptyState
<1>4. ASSUME NEW d \in Daemons
      PROVE  /\ gate[d].state = emptyState /\ gate[d].tickets = {} /\ gate[d].waiters = {}
             /\ gate[d].lastAdmissionAt = 0
  BY <1>1, NewGateFields
<1>5. \A d \in Daemons : TicketsOK(gate[d]) /\ WakeOK(gate[d])
  BY <1>1, <1>4 DEF TicketsOK, WakeOK
<1>. QED
  BY <1>1, <1>2, <1>3, <1>4, <1>5 DEF GateInv

LEMMA StepSound ==
  ASSUME OneDaemon, TypeInv, GateInv, [GateNext]_gateVars
  PROVE  GateInv' /\ PauseStep /\ HoldStep
<1>1. ASSUME NEW d \in Daemons, NEW u \in Turns, TurnStep(d, u)
      PROVE  GateInv' /\ PauseStep /\ HoldStep
  BY <1>1, TurnStepSound
<1>2. ASSUME NEW d \in Daemons, ClearHold(d)
      PROVE  GateInv' /\ PauseStep /\ HoldStep
  BY <1>2, ClearHoldSound
<1>3. ASSUME NEW d \in Daemons, Look(d)
      PROVE  GateInv' /\ PauseStep /\ HoldStep
  BY <1>3, LookSound
<1>4. ASSUME NEW d \in Daemons, Wake(d)
      PROVE  GateInv' /\ PauseStep /\ HoldStep
  BY <1>4, WakeSound
<1>5. ASSUME NEW d \in Daemons, Restart(d)
      PROVE  GateInv' /\ PauseStep /\ HoldStep
  BY <1>5, RestartSound
<1>6. CASE Tick
  BY <1>6, TickSound
<1>7. CASE SetClockBack
  BY <1>7, SetClockBackSound
<1>8. CASE UNCHANGED gateVars
  <2>1. /\ now' = now /\ gate' = gate /\ file' = file /\ stale' = stale
        /\ heldByChatGpt' = heldByChatGpt /\ clockSetBack' = clockSetBack
    BY <1>8 DEF gateVars
  <2>2. GateInv'
    BY <2>1 DEF GateInv, StateOK, RecoveryOK, IncidentOK, SameRecord, TicketsOK, WakeOK, Soon, Blocked
  <2>3. \A d \in Daemons : gate[d].state.until \in Nat /\ gate[d].state.stoppedUntil \in Nat
    BY DEF TypeInv, GateTypeOK, Gate, State
  <2>4. PauseStep /\ HoldStep
    BY <2>1, <2>3 DEF PauseStep, HoldStep
  <2>. QED
    BY <2>2, <2>4
<1>. QED
  BY <1>1, <1>2, <1>3, <1>4, <1>5, <1>6, <1>7, <1>8 DEF GateNext

\* A home with one daemon: the record in memory is the one in the file, whatever steps the daemon
\* takes and whenever it restarts; the incidents, the tickets and the timer agree with it
\* (persist and refreshFromDisk after every handler of rate-limit-gate.ts).
THEOREM GateIsConsistent ==
  ASSUME OneDaemon
  PROVE  GateSpec => [](TypeInv /\ GateInv)
<1>1. GateInit => TypeInv /\ GateInv
  BY InitTypes, InitSound
<1>2. TypeInv /\ GateInv /\ [GateNext]_gateVars => TypeInv' /\ GateInv'
  BY StepTypes, StepSound
<1>. QED
  BY <1>1, <1>2, PTL DEF GateSpec

\* While a probe is owed, at most one running turn was admitted since the incident began (block,
\* recordRateLimit, ticketAccepted).
THEOREM OneTurnProbes ==
  ASSUME OneDaemon
  PROVE  GateSpec => []OneProbe
<1>1. ASSUME GateInv, ~clockSetBack, NEW d \in Daemons, gate[d].state.probeRequired
      PROVE  Cardinality({u \in gate[d].tickets :
                            gate[d].admittedAt[u] > gate[d].state.incidentStartedAt}) <= 1
  <2>. DEFINE T == {u \in gate[d].tickets :
                      gate[d].admittedAt[u] > gate[d].state.incidentStartedAt}
              P == {gate[d].probeTicket}
  <2>1. T \subseteq P
    BY <1>1 DEF GateInv, TicketsOK
  <2>2. IsFiniteSet(P) /\ Cardinality(P) = 1
    BY FS_Singleton
  <2>. HIDE DEF T, P
  <2>3. Cardinality(T) <= Cardinality(P)
    BY <2>1, <2>2, FS_Subset
  <2>. QED
    BY <2>2, <2>3 DEF T
<1>2. TypeInv /\ GateInv => OneProbe
  BY <1>1 DEF OneProbe
<1>. QED
  BY <1>2, GateIsConsistent, PTL

\* Incidents are more than a cooldown apart, and too many of them in a window stop the account
\* until a window has passed since the last (recordRateLimit).
THEOREM TroubleIsCounted ==
  ASSUME OneDaemon
  PROVE  GateSpec => []IncidentsRare
<1>1. ASSUME TypeInv, GateInv, ~clockSetBack, NEW d \in Daemons
      PROVE  LET s == gate[d].state
             IN /\ \A i, j \in s.incidents : i < j => i + BaseCooldown < j
                /\ Cardinality(s.incidents) >= IncidentStopCount =>
                     \A i \in s.incidents : s.stoppedUntil >= i + IncidentWindow
  <2>. DEFINE s == gate[d].state
  <2>1. s \in State /\ IncidentOK(s)
    BY <1>1 DEF TypeInv, GateTypeOK, Gate, GateInv, StateOK
  <2>2. s.incidentStartedAt \in Nat /\ s.stoppedUntil \in Nat /\ IncidentWindow \in Nat
    BY <2>1, Constants DEF State
  <2>3. ASSUME Cardinality(s.incidents) >= IncidentStopCount, NEW i \in s.incidents
        PROVE  s.stoppedUntil >= i + IncidentWindow
    <3>1. s.stoppedUntil >= s.incidentStartedAt + IncidentWindow
      BY <2>1, <2>3 DEF IncidentOK
    <3>2. i \in 1 .. s.incidentStartedAt
      BY <2>1 DEF IncidentOK
    <3>. HIDE DEF s
    <3>. QED
      BY <2>2, <3>1, <3>2
  <2>4. \A i, j \in s.incidents : i < j => i + BaseCooldown < j
    BY <2>1 DEF IncidentOK
  <2>. QED
    BY <2>3, <2>4
<1>2. TypeInv /\ GateInv => IncidentsRare
  BY <1>1 DEF IncidentsRare
<1>. QED
  BY <1>2, GateIsConsistent, PTL

LEMMA BlockedMeansBlocked ==
  ASSUME now \in Nat, NEW g \in Gate, Blocked(g)
  PROVE  BlockedUntil(g) # 0
<1>. DEFINE s == g.state
<1>1. s \in State /\ g.lastAdmissionAt \in Nat /\ s.until \in Nat
  BY DEF Gate, State
<1>2. Never \in Nat \ {0}
  BY NeverIsFar, Constants
<1>3. NextRampAt(s) # 0 /\ (~s.recovering => NextRampAt(s) = Never)
  BY <1>1, <1>2, RampTypes DEF NextRampAt
<1>4. ~s.recovering => Limit(s) = MaxConcurrency
  BY DEF Limit
<1>5. Spacing(s) \in Nat \ {0}
  BY Constants DEF Spacing
<1>6. /\ now < s.until => s.until # 0
      /\ g.lastAdmissionAt > 0 => g.lastAdmissionAt + Spacing(s) # 0
  BY <1>1, <1>5
<1>. HIDE DEF s
<1>. QED
  BY <1>2, <1>3, <1>4, <1>6 DEF Blocked, BlockedUntil, s

\* No waiter is stranded: the end of its wait has a timer, and once the next turn could start the
\* timer is at most a ramp step away (pumpOnce's wakeAt, nextRampAt, schedule).
THEOREM NobodyIsStranded ==
  ASSUME OneDaemon
  PROVE  GateSpec => []WakeTimely
<1>1. ASSUME TypeInv, GateInv, NEW d \in Daemons, gate[d].waiters # {},
             BlockedUntil([gate[d] EXCEPT !.state = Normalized(@)]) = 0
      PROVE  gate[d].timerAt <= Max({now, gate[d].state.recoveryStartedAt}) + RampInterval
  <2>. DEFINE g == gate[d]
              t == Normalized(g.state)
              h == [g EXCEPT !.state = t]
  <2>1. Whole(g) /\ now \in Nat /\ g \in Gate /\ g.state \in State
    BY <1>1, ViewFine DEF Whole, Gate
  <2>2. t \in State /\ t.recoveryStartedAt = g.state.recoveryStartedAt
    BY <2>1, NormalizedFields
  <2>3. BlockedUntil(h) = 0
    BY <1>1
  <2>. HIDE DEF t
  <2>4. Whole(h) /\ h.state = t /\ SameGate(g, h)
    BY <2>1, <2>2, StateAlone
  <2>. HIDE DEF h
  <2>5. h \in Gate /\ h.waiters = g.waiters /\ h.timerAt = g.timerAt
    BY <2>4 DEF Whole, SameGate, SameQueue
  <2>6. WakeOK(g)
    BY <1>1 DEF GateInv
  <2>7. WakeOK(h)
    BY <2>1, <2>4, <2>5, <2>6, NormalizedWake DEF t
  <2>8. ~Blocked(h)
    BY <2>1, <2>3, <2>5, BlockedMeansBlocked
  <2>9. Soon(h)
    BY <1>1, <2>5, <2>7, <2>8 DEF WakeOK
  <2>. QED
    BY <2>2, <2>4, <2>5, <2>9 DEF Soon
<1>2. TypeInv => \A d \in Daemons : DeadlineOK(gate[d])
  BY DEF TypeInv
<1>3. TypeInv /\ GateInv => WakeTimely
  BY <1>1, <1>2 DEF WakeTimely, DeadlineOK
<1>. QED
  BY <1>3, GateIsConsistent, PTL

\* A pause that was announced is never shortened, by no later answer, requeue or restart (Math.max
\* in recordRateLimit and recordChatGptFailure, persist, refreshFromDisk).
THEOREM PausesAreKept ==
  ASSUME OneDaemon
  PROVE  GateSpec => PauseKept
<1>1. TypeInv /\ GateInv /\ [GateNext]_gateVars => [PauseStep]_gateVars
  BY StepSound
<1>2. PauseStep =>
        (clockSetBack \/ \A d \in Daemons :
           /\ gate'[d].state.until >= gate[d].state.until
           /\ gate'[d].state.stoppedUntil >= gate[d].state.stoppedUntil)
  BY DEF PauseStep
<1>. QED
  BY <1>1, <1>2, GateIsConsistent, PTL DEF GateSpec, PauseKept

\* "The hold has no expiry": with one daemon no turn is admitted until a person cleared the hold,
\* restarted or not (recordSecurityHold, clearSecurityHold, pumpOnce).
THEOREM OneDaemonRespectsHold ==
  ASSUME OneDaemon
  PROVE  GateSpec => HoldRespected
<1>1. TypeInv /\ GateInv /\ [GateNext]_gateVars => [HoldStep]_gateVars
  BY StepSound
<1>2. HoldStep =>
        (heldByChatGpt /\ heldByChatGpt' =>
           \A d \in Daemons : gate'[d].tickets \subseteq gate[d].tickets)
  BY DEF HoldStep
<1>. QED
  BY <1>1, <1>2, GateIsConsistent, PTL DEF GateSpec, HoldRespected

-----------------------------------------------------------------------------
(***************************************************************************)
(* Daemons that share a home.                                              *)
(***************************************************************************)
Passes(s) == now >= s.until /\ now >= s.stoppedUntil

LEMMA NormalizedPasses ==
  ASSUME now \in Nat, NEW s \in State
  PROVE  Passes(Normalized(s)) <=> Passes(s)
<1>1. /\ s.until \in Nat /\ s.stoppedUntil \in Nat
      /\ now + MaxCooldown \in Nat /\ now + MaxCooldown > now
      /\ now + IncidentWindow \in Nat /\ now + IncidentWindow > now
  BY Constants DEF State
<1>2. /\ Normalized(s).until = Least(s.until, now + MaxCooldown)
      /\ Normalized(s).stoppedUntil = Least(s.stoppedUntil, now + IncidentWindow)
  BY NormalizedFields
<1>3. /\ Normalized(s).until = IF s.until <= now + MaxCooldown THEN s.until ELSE now + MaxCooldown
      /\ Normalized(s).stoppedUntil = IF s.stoppedUntil <= now + IncidentWindow THEN s.stoppedUntil
                                      ELSE now + IncidentWindow
  BY <1>1, <1>2, LeastOfTwo
<1>. QED
  BY <1>1, <1>3 DEF Passes

\* A handler that started from w has come to v: what it has not read or written it left alone, it
\* knows the record of the file if that is newer than its own was, and it let a turn go only when
\* the pauses that it knows are over.
Newest(w, v) ==
  /\ v.unread = TRUE => /\ v.wrote = FALSE /\ v.g.state = w.g.state
                        /\ v.g.tickets \subseteq w.g.tickets
  /\ v.wrote = FALSE => v.file = w.file
  /\ v.unread = FALSE =>
       /\ v.file.updatedAt <= v.g.state.updatedAt
       /\ v.g.tickets \subseteq w.g.tickets \/ Passes(v.g.state)
       /\ Passes(v.g.state) =>
            \/ Passes(v.file)
            \/ v.wrote = FALSE /\ w.file.updatedAt <= w.g.state.updatedAt /\ Passes(w.g.state)

\* Nobody was let go yet.
NobodyYet(w, v) == v.g.tickets \subseteq w.g.tickets

LEMMA UnreadIsBoolean ==
  ASSUME NEW w, Fine(w)
  PROVE  /\ w.unread = TRUE \/ w.unread = FALSE
         /\ w.wrote = TRUE \/ w.wrote = FALSE
BY DEF Fine, Works

LEMMA EditKeepsNewest ==
  ASSUME NEW w, NEW v, NEW c, Newest(w, v), c.g.state = v.g.state, c.file = v.file,
         c.wrote = v.wrote, c.unread = v.unread, c.g.tickets \subseteq v.g.tickets
  PROVE  Newest(w, c)
BY DEF Newest

LEMMA SaveKeepsNewest ==
  ASSUME NEW w, NEW c, Fine(c), c.g.state = c.file, c.wrote = TRUE, c.unread = FALSE,
         c.g.tickets \subseteq w.g.tickets
  PROVE  Newest(w, c)
<1>1. c.file.updatedAt \in Nat
  BY StateOf DEF State
<1>. QED
  BY <1>1 DEF Newest

LEMMA KnownRecord ==
  ASSUME now \in Nat, NEW v, Fine(v)
  PROVE  /\ Known(v) \in State
         /\ v.unread = FALSE => Known(v) = v.g.state
         /\ v.unread = TRUE =>
              \/ /\ Passes(Known(v)) <=> Passes(v.file)
                 /\ Known(v).updatedAt = v.file.updatedAt
              \/ Known(v) = v.g.state /\ v.file.updatedAt <= v.g.state.updatedAt
<1>1. /\ v.file \in State /\ v.g.state \in State
      /\ v.file.updatedAt \in Nat /\ v.g.state.updatedAt \in Nat
  BY StateOf DEF State
<1>2. Known(v) \in State
  BY RefreshedFields DEF Fine
<1>3. v.unread = FALSE => Known(v) = v.g.state
  BY DEF Known
<1>4. CASE v.unread = TRUE /\ v.file.updatedAt > v.g.state.updatedAt
  <2>1. Known(v) = Normalized(v.file)
    BY <1>4 DEF Known
  <2>2. Passes(Normalized(v.file)) <=> Passes(v.file)
    BY <1>1, NormalizedPasses
  <2>3. Normalized(v.file).updatedAt = v.file.updatedAt
    BY <1>1, NormalizedFields
  <2>. QED
    BY <1>2, <1>3, <2>1, <2>2, <2>3
<1>5. CASE ~(v.file.updatedAt > v.g.state.updatedAt)
  <2>1. Known(v) = v.g.state
    BY <1>5 DEF Known
  <2>. QED
    BY <1>1, <1>2, <1>3, <1>5, <2>1
<1>6. CASE v.unread = FALSE
  BY <1>2, <1>3, <1>6
<1>. QED
  BY <1>4, <1>5, <1>6, UnreadIsBoolean

\* The handler reads the file, and may let a turn go.
LEMMA ReadKeepsNewest ==
  ASSUME now \in Nat, NEW w, NEW v, NEW c, Newest(w, v), Fine(v), Fine(w),
         c.file = v.file, c.wrote = v.wrote, c.unread = FALSE,
         Passes(c.g.state) <=> Passes(Known(v)), c.g.state.updatedAt = Known(v).updatedAt,
         c.g.tickets \subseteq v.g.tickets \/ Passes(c.g.state)
  PROVE  Newest(w, c)
<1>1. /\ v.file.updatedAt \in Nat /\ v.g.state.updatedAt \in Nat
  BY StateOf DEF State
<1>2. CASE v.unread = FALSE
  <2>1. Known(v) = v.g.state
    BY <1>2, KnownRecord
  <2>. QED
    BY <1>2, <2>1 DEF Newest
<1>3. CASE v.unread = TRUE
  <2>1. /\ v.wrote = FALSE /\ v.g.state = w.g.state /\ v.g.tickets \subseteq w.g.tickets
        /\ v.file = w.file
    BY <1>3 DEF Newest
  <2>3. CASE (Passes(Known(v)) <=> Passes(v.file)) /\ Known(v).updatedAt = v.file.updatedAt
    BY <1>1, <2>1, <2>3 DEF Newest
  <2>4. CASE Known(v) = v.g.state /\ v.file.updatedAt <= v.g.state.updatedAt
    BY <1>1, <2>1, <2>4 DEF Newest
  <2>. QED
    BY <1>3, <2>3, <2>4, KnownRecord
<1>. QED
  BY <1>2, <1>3, UnreadIsBoolean

LEMMA CurrentKeepsNewest ==
  ASSUME now \in Nat, NEW w, NEW v, Fine(w), Fine(v), Newest(w, v)
  PROVE  LET c == Current(v)
         IN Newest(w, c) /\ Fine(c) /\ c.unread = FALSE /\ SameGate(v.g, c.g)
<1>. DEFINE c == Current(v)
<1>1. /\ Fine(c) /\ SameGate(v.g, c.g) /\ c.g.state = Normalized(Known(v))
      /\ c.file = v.file /\ c.wrote = v.wrote /\ c.unread = FALSE
  BY CurrentFine
<1>. HIDE DEF c
<1>2. Known(v) \in State
  BY KnownRecord
<1>3. /\ Passes(c.g.state) <=> Passes(Known(v))
      /\ c.g.state.updatedAt = Known(v).updatedAt
  BY <1>1, <1>2, NormalizedPasses, NormalizedFields
<1>4. c.g.tickets \subseteq v.g.tickets
  BY <1>1 DEF SameGate, SameQueue
<1>5. Newest(w, c)
  BY <1>1, <1>3, <1>4, ReadKeepsNewest
<1>. QED
  BY <1>1, <1>5 DEF c

LEMMA RefreshedKeepsNewest ==
  ASSUME now \in Nat, NEW w, NEW v, Fine(w), Fine(v), Newest(w, v)
  PROVE  LET c == Refreshed(v)
         IN Newest(w, c) /\ Fine(c) /\ c.unread = FALSE /\ SameGate(v.g, c.g)
<1>. DEFINE c == Refreshed(v)
<1>1. /\ Fine(c) /\ SameGate(v.g, c.g) /\ c.g.state = Known(v)
      /\ c.file = v.file /\ c.wrote = v.wrote /\ c.unread = FALSE
  BY RefreshedFine
<1>. HIDE DEF c
<1>2. /\ Passes(c.g.state) <=> Passes(Known(v))
      /\ c.g.state.updatedAt = Known(v).updatedAt
  BY <1>1
<1>3. c.g.tickets \subseteq v.g.tickets
  BY <1>1 DEF SameGate, SameQueue
<1>4. Newest(w, c)
  BY <1>1, <1>2, <1>3, ReadKeepsNewest
<1>. QED
  BY <1>1, <1>4 DEF c

LEMMA PumpedKeepsNewest ==
  ASSUME now \in Nat \ {0}, NEW w, NEW v, Fine(w), Fine(v), Newest(w, v)
  PROVE  LET p == Pumped(v) IN Newest(w, p) /\ Fine(p) /\ p.unread = FALSE
<1>. DEFINE p == Pumped(v)
<1>1. v \in Works /\ Whole(v.g)
  BY DEF Fine
<1>2. /\ p.file = v.file /\ p.wrote = v.wrote /\ p.unread = FALSE
      /\ p.g.state = Normalized(Known(v))
      /\ NoneAdmitted(v.g, p.g) \/ \E u \in v.g.waiters : OneAdmitted(v.g, p.g, u)
  BY <1>1, PumpedFields
<1>3. Fine(p)
  BY PumpedFine
<1>. HIDE DEF p
<1>4. Known(v) \in State /\ p.g.state \in State
  BY <1>3, KnownRecord, StateOf
<1>5. /\ Passes(p.g.state) <=> Passes(Known(v))
      /\ p.g.state.updatedAt = Known(v).updatedAt
  BY <1>2, <1>4, NormalizedPasses, NormalizedFields
<1>6. p.g.tickets \subseteq v.g.tickets \/ Passes(p.g.state)
  <2>1. CASE NoneAdmitted(v.g, p.g)
    BY <2>1 DEF NoneAdmitted
  <2>2. ASSUME NEW u, OneAdmitted(v.g, p.g, u)
        PROVE  Passes(p.g.state)
    <3>1. ~(now < p.g.state.stoppedUntil) /\ now >= p.g.state.until
      BY <2>2 DEF OneAdmitted, Stopped
    <3>2. p.g.state.stoppedUntil \in Nat
      BY <1>4 DEF State
    <3>. QED
      BY <3>1, <3>2 DEF Passes
  <2>. QED
    BY <1>2, <2>1, <2>2
<1>7. Newest(w, p)
  BY <1>2, <1>5, <1>6, ReadKeepsNewest
<1>. QED
  BY <1>2, <1>3, <1>7 DEF p

LEMMA SavedKeepsNewest ==
  ASSUME now \in Nat, NEW w, NEW v, Fine(v), v.g.tickets \subseteq w.g.tickets, NEW s \in State
  PROVE  LET c == Saved(v, s) IN Newest(w, c) /\ Fine(c) /\ SameGate(v.g, c.g)
<1>. DEFINE c == Saved(v, s)
<1>1. /\ Fine(c) /\ SameGate(v.g, c.g) /\ c.g.state = Stamped(s)
      /\ c.file = Stamped(s) /\ c.wrote = TRUE /\ c.unread = FALSE
  BY SavedFields
<1>. HIDE DEF c
<1>2. c.g.tickets \subseteq w.g.tickets
  BY <1>1 DEF SameGate, SameQueue
<1>3. Newest(w, c)
  BY <1>1, <1>2, SaveKeepsNewest
<1>. QED
  BY <1>1, <1>3 DEF c

LEMMA ReleasedPumpedNewest ==
  ASSUME now \in Nat \ {0}, NEW w, NEW v, Fine(w), Fine(v), Newest(w, v), NEW u \in v.g.tickets
  PROVE  LET p == Pumped(Released(v, u)) IN Newest(w, p) /\ p.unread = FALSE
<1>. DEFINE r == Released(v, u)
<1>1. u \in Turns
  BY ReleasedPumped
<1>2. /\ Fine(r) /\ r.g.state = v.g.state /\ r.file = v.file /\ r.wrote = v.wrote
      /\ r.unread = v.unread /\ r.g.tickets = v.g.tickets \ {u}
  BY <1>1, ReleasedFields
<1>. HIDE DEF r
<1>3. Newest(w, r)
  BY <1>2, EditKeepsNewest
<1>4. Newest(w, Pumped(r)) /\ Pumped(r).unread = FALSE
  BY <1>2, <1>3, PumpedKeepsNewest
<1>. QED
  BY <1>4 DEF r

LEMMA FinishedKeepsNewest ==
  ASSUME now \in Nat \ {0}, NEW w, NEW v, Fine(w), Fine(v), Newest(w, v), NEW u \in v.g.tickets
  PROVE  LET f == Finished(v, u) IN Newest(w, f) /\ f.unread = FALSE
<1>. DEFINE p == Pumped(Released(v, u))
            f == [p EXCEPT !.g = Gone(@, {u})]
<1>1. /\ u \in Turns /\ Fine(p) /\ p.g.probeTicket # u
  BY ReleasedPumped
<1>2. Newest(w, p) /\ p.unread = FALSE
  BY ReleasedPumpedNewest
<1>3. Finished(v, u) = f
  BY DEF Finished
<1>. HIDE DEF p
<1>4. Whole(p.g) /\ {u} \in SUBSET Turns /\ p.g.probeTicket \notin {u}
  BY <1>1 DEF Fine
<1>5. /\ f.g = Gone(p.g, {u}) /\ f.file = p.file /\ f.wrote = p.wrote /\ f.unread = p.unread
  BY <1>1, <1>4, OverFields
<1>6. Gone(p.g, {u}).state = p.g.state /\ Gone(p.g, {u}).tickets = p.g.tickets \ {u}
  BY <1>4, GoneFields
<1>7. f.g.tickets \subseteq p.g.tickets /\ f.g.state = p.g.state
  BY <1>5, <1>6
<1>. HIDE DEF f
<1>8. Newest(w, f)
  BY <1>2, <1>5, <1>7, EditKeepsNewest
<1>. QED
  BY <1>2, <1>3, <1>5, <1>8

LEMMA AwaitedKeepsNewest ==
  ASSUME now \in Nat \ {0}, NEW w, NEW v, Fine(w), Fine(v), Newest(w, v),
         NEW u \in Turns, u \notin v.g.tickets \cup v.g.over
  PROVE  LET a == Awaited(v, u) IN Newest(w, a) /\ a.unread = FALSE
<1>. DEFINE c == Current(v)
            e == [c EXCEPT !.g = Enqueued(@, u)]
            o == [c EXCEPT !.g = Gone(@, {u})]
<1>1. Newest(w, c) /\ Fine(c) /\ c.unread = FALSE /\ SameGate(v.g, c.g)
  BY CurrentKeepsNewest
<1>2. Awaited(v, u) = IF Stopped(c.g.state) THEN o ELSE Pumped(e)
  BY DEF Awaited
<1>. HIDE DEF c
<1>3. u \notin c.g.tickets \cup c.g.over
  BY <1>1 DEF SameGate, SameQueue
<1>4. /\ Fine(e) /\ e.g.state = c.g.state /\ e.file = c.file /\ e.wrote = c.wrote
      /\ e.unread = c.unread /\ e.g.tickets = c.g.tickets
  BY <1>1, <1>3, EnqueuedFields
<1>5. c.g.probeTicket \notin {u} /\ {u} \in SUBSET Turns /\ Whole(c.g)
  BY <1>1, <1>3, NoTurnAssumption DEF Fine, Whole, Consistent
<1>6. o.g = Gone(c.g, {u}) /\ o.file = c.file /\ o.wrote = c.wrote /\ o.unread = c.unread
  BY <1>1, <1>5, OverFields
<1>7. Gone(c.g, {u}).state = c.g.state /\ Gone(c.g, {u}).tickets = c.g.tickets \ {u}
  BY <1>5, GoneFields
<1>8. o.g.tickets \subseteq c.g.tickets /\ o.g.state = c.g.state
  BY <1>6, <1>7
<1>. HIDE DEF e, o
<1>9. Newest(w, o) /\ Newest(w, e)
  BY <1>1, <1>4, <1>6, <1>8, EditKeepsNewest
<1>10. Newest(w, Pumped(e)) /\ Pumped(e).unread = FALSE
  BY <1>4, <1>9, PumpedKeepsNewest
<1>. QED
  BY <1>1, <1>2, <1>6, <1>9, <1>10

LEMMA RequeuedKeepsNewest ==
  ASSUME now \in Nat \ {0}, NEW w, NEW v, Fine(w), Fine(v), Newest(w, v), NEW u \in v.g.tickets
  PROVE  LET a == Awaited(Unadmitted(Pumped(Released(v, u)), u), u)
         IN Newest(w, a) /\ a.unread = FALSE
<1>. DEFINE p == Pumped(Released(v, u))
            q == Unadmitted(p, u)
<1>1. /\ u \in Turns /\ Fine(p) /\ u \notin p.g.tickets \cup p.g.waiters \cup p.g.over
  BY ReleasedPumped
<1>2. Newest(w, p)
  BY ReleasedPumpedNewest
<1>. HIDE DEF p
<1>3. /\ Fine(q) /\ q.g.state = p.g.state /\ q.file = p.file /\ q.wrote = p.wrote
      /\ q.unread = p.unread /\ q.g.tickets = p.g.tickets /\ q.g.over = p.g.over
  BY <1>1, UnadmittedFields
<1>. HIDE DEF q
<1>4. Newest(w, q)
  BY <1>2, <1>3, EditKeepsNewest
<1>5. Newest(w, Awaited(q, u)) /\ Awaited(q, u).unread = FALSE
  BY <1>1, <1>3, <1>4, AwaitedKeepsNewest
<1>. QED
  BY <1>5 DEF q, p

LEMMA RateLimitKeepsNewest ==
  ASSUME now \in Nat \ {0}, NEW w, Fine(w), Newest(w, w), NEW at \in Nat
  PROVE  LET v == RateLimitRecorded(w, at)
         IN Newest(w, v) /\ Fine(v) /\ w.g.tickets \subseteq v.g.tickets
<1>. DEFINE l == Limited(w, at)
            s == LimitedState(Normalized(Known(w)), at)
<1>1. /\ RateLimitRecorded(w, at) = Pumped(l)
      /\ Fine(l) /\ SameQueue(w.g, l.g) /\ l.g.state = Stamped(s)
      /\ l.file = Stamped(s) /\ l.wrote = TRUE /\ l.unread = FALSE
  BY LimitedFields
<1>. HIDE DEF l
<1>2. l.g.tickets = w.g.tickets
  BY <1>1 DEF SameQueue
<1>3. Newest(w, l)
  BY <1>1, <1>2, SaveKeepsNewest
<1>4. Newest(w, Pumped(l)) /\ Fine(Pumped(l))
  BY <1>1, <1>3, PumpedKeepsNewest
<1>5. w.g.tickets \subseteq RateLimitRecorded(w, at).g.tickets
  BY RateLimitRecordedFine
<1>. QED
  BY <1>1, <1>4, <1>5

LEMMA FailureKeepsNewest ==
  ASSUME now \in Nat \ {0}, NEW w, Fine(w), Newest(w, w), NEW at \in Nat
  PROVE  LET v == FailureRecorded(w, at)
         IN Newest(w, v) /\ Fine(v) /\ w.g.tickets \subseteq v.g.tickets
<1>. DEFINE c == Current(w)
            s == FailedState(c.g.state)
            f == Saved(c, s)
<1>1. Newest(w, c) /\ Fine(c) /\ SameGate(w.g, c.g)
  BY CurrentKeepsNewest
<1>2. FailureRecorded(w, at) = c \/ FailureRecorded(w, at) = Pumped(f)
  BY FailureFields
<1>. HIDE DEF c
<1>3. s \in State
  BY <1>1, StateOf, FailedStateFields
<1>4. c.g.tickets \subseteq w.g.tickets
  BY <1>1 DEF SameGate, SameQueue
<1>. HIDE DEF s
<1>5. Newest(w, f) /\ Fine(f)
  BY <1>1, <1>3, <1>4, SavedKeepsNewest
<1>. HIDE DEF f
<1>6. Newest(w, Pumped(f)) /\ Fine(Pumped(f))
  BY <1>5, PumpedKeepsNewest
<1>7. w.g.tickets \subseteq FailureRecorded(w, at).g.tickets
  BY FailureRecordedFine
<1>. QED
  BY <1>1, <1>2, <1>6, <1>7

LEMMA HoldKeepsNewest ==
  ASSUME now \in Nat \ {0}, NEW w, Fine(w), Newest(w, w)
  PROVE  LET v == HoldRecorded(w)
         IN Newest(w, v) /\ Fine(v) /\ w.g.tickets \subseteq v.g.tickets
<1>. DEFINE r == Refreshed(w)
            s == HeldState(r.g.state, TRUE)
            f == Saved(r, s)
            p == IF r.g.state.held THEN r ELSE f
<1>1. Newest(w, r) /\ Fine(r) /\ SameGate(w.g, r.g)
  BY RefreshedKeepsNewest
<1>2. HoldRecorded(w) = Pumped(p)
  BY HoldFields
<1>. HIDE DEF r
<1>3. s \in State
  BY <1>1, StateOf, HeldStateFields
<1>4. r.g.tickets \subseteq w.g.tickets
  BY <1>1 DEF SameGate, SameQueue
<1>. HIDE DEF s
<1>5. Newest(w, f) /\ Fine(f)
  BY <1>1, <1>3, <1>4, SavedKeepsNewest
<1>. HIDE DEF f
<1>6. Newest(w, p) /\ Fine(p)
  BY <1>1, <1>5
<1>. HIDE DEF p
<1>7. Newest(w, Pumped(p)) /\ Fine(Pumped(p))
  BY <1>6, PumpedKeepsNewest
<1>8. w.g.tickets \subseteq HoldRecorded(w).g.tickets
  BY HoldRecordedFine
<1>. QED
  BY <1>2, <1>7, <1>8

LEMMA ProbeKeepsNewest ==
  ASSUME now \in Nat, NEW w, NEW v, Fine(v), Newest(w, v), v.g.tickets \subseteq w.g.tickets, NEW u
  PROVE  LET q == ProbeAccepted(v, u) IN Newest(w, q) /\ Fine(q) /\ SameGate(v.g, q.g)
<1>. DEFINE s == ProbedState(v.g.state)
            f == Saved(v, s)
<1>1. s \in State
  BY StateOf, ProbedStateFields
<1>2. ProbeAccepted(v, u) = v \/ ProbeAccepted(v, u) = f
  BY ProbeAcceptedShape
<1>. HIDE DEF s
<1>3. Newest(w, f) /\ Fine(f) /\ SameGate(v.g, f.g)
  BY <1>1, SavedKeepsNewest
<1>. HIDE DEF f
<1>. QED
  BY <1>2, <1>3, KeepsItself

LEMMA RecoveredKeepsNewest ==
  ASSUME now \in Nat, NEW w, NEW v, Fine(v), Newest(w, v), v.g.tickets \subseteq w.g.tickets, NEW u
  PROVE  LET q == Recovered(v, u) IN Newest(w, q) /\ Fine(q) /\ SameGate(v.g, q.g)
<1>. DEFINE b == v.g.state.probeRequired /\ u \in v.g.probes
            s == RecoveredState(v.g.state, b)
            f == Saved(v, s)
<1>1. v.g.state \in State /\ b \in BOOLEAN
  BY StateOf
<1>2. Recovered(v, u) = v \/ Recovered(v, u) = f
  BY RecoveredShape
<1>. HIDE DEF b
<1>3. s \in State
  BY <1>1, RecoveredStateFields
<1>. HIDE DEF s
<1>4. Newest(w, f) /\ Fine(f) /\ SameGate(v.g, f.g)
  BY <1>3, SavedKeepsNewest
<1>. HIDE DEF f
<1>. QED
  BY <1>2, <1>4, KeepsItself

LEMMA UnfailedKeepsNewest ==
  ASSUME now \in Nat, NEW w, NEW v, Fine(v), Newest(w, v), v.g.tickets \subseteq w.g.tickets
  PROVE  LET q == Unfailed(v) IN Newest(w, q) /\ Fine(q) /\ SameGate(v.g, q.g)
<1>. DEFINE s == UnfailedState(v.g.state)
            f == Saved(v, s)
<1>1. s \in State
  BY StateOf, UnfailedStateFields
<1>2. Unfailed(v) = v \/ Unfailed(v) = f
  BY UnfailedShape
<1>. HIDE DEF s
<1>3. Newest(w, f) /\ Fine(f) /\ SameGate(v.g, f.g)
  BY <1>1, SavedKeepsNewest
<1>. HIDE DEF f
<1>. QED
  BY <1>2, <1>3, KeepsItself

\* A daemon that need not read the file again has no older record than the file.
SeenOK == \A d \in Daemons : d \notin stale => file.updatedAt <= gate[d].state.updatedAt

NewerPauseStep ==
  \A d \in Daemons : \/ gate'[d].tickets \subseteq gate[d].tickets
                     \/ now >= Max({file'.until, file'.stoppedUntil})
                     \/ LET own == gate[d].state
                        IN own.updatedAt >= file'.updatedAt
                           /\ now >= Max({own.until, own.stoppedUntil})

LEMMA ViewNewest ==
  ASSUME TypeInv, SeenOK, NEW d \in Daemons
  PROVE  LET w == View(d)
         IN /\ Fine(w) /\ Newest(w, w) /\ w.g = gate[d] /\ w.file = file
            /\ now \in Nat \ {0}
<1>. DEFINE w == View(d)
<1>1. /\ Fine(w) /\ w.g = gate[d] /\ w.file = file /\ now \in Nat \ {0}
      /\ w.wrote = FALSE
  BY ViewFine
<1>2. w.unread = FALSE => d \notin stale
  BY DEF View
<1>. HIDE DEF w
<1>3. w.unread = FALSE => w.file.updatedAt <= w.g.state.updatedAt
  BY <1>1, <1>2 DEF SeenOK
<1>4. Newest(w, w)
  BY <1>1, <1>3 DEF Newest
<1>. QED
  BY <1>1, <1>4 DEF w

LEMMA PassesMax ==
  ASSUME now \in Nat, NEW s \in State, Passes(s)
  PROVE  now >= Max({s.until, s.stoppedUntil})
<1>1. s.until \in Nat /\ s.stoppedUntil \in Nat
  BY DEF State
<1>. QED
  BY <1>1, LatestOfTwo DEF Passes

LEMMA CommitNewest ==
  ASSUME TypeInv, SeenOK, NEW d \in Daemons, NEW v, Fine(v), Newest(View(d), v),
         v.unread = FALSE, Commit(d, v)
  PROVE  SeenOK' /\ NewerPauseStep
<1>. DEFINE w == View(d)
<1>1. /\ w.g = gate[d] /\ w.file = file /\ now \in Nat /\ Fine(w)
  BY ViewNewest
<1>2. /\ gate' = [gate EXCEPT ![d] = v.g] /\ file' = v.file
  BY DEF Commit
<1>3. v.wrote = TRUE => stale' = Daemons \ {d}
  BY DEF Commit
<1>4. v.wrote = FALSE => stale' = stale \ {d} /\ file' = file
  BY <1>1, <1>2 DEF Commit, Newest
<1>5. gate \in [Daemons -> Gate]
  BY DEF TypeInv, GateTypeOK
<1>6. \A e \in Daemons : gate'[e] = IF e = d THEN v.g ELSE gate[e]
  BY <1>2, <1>5
<1>7. v.wrote = TRUE \/ v.wrote = FALSE
  BY UnreadIsBoolean
<1>8. /\ v.file.updatedAt <= v.g.state.updatedAt
      /\ v.g.tickets \subseteq w.g.tickets \/ Passes(v.g.state)
      /\ Passes(v.g.state) =>
           \/ Passes(v.file)
           \/ v.wrote = FALSE /\ w.file.updatedAt <= w.g.state.updatedAt /\ Passes(w.g.state)
  BY DEF Newest
<1>9. SeenOK'
  <2>. SUFFICES ASSUME NEW e \in Daemons, e \notin stale'
                PROVE  file'.updatedAt <= gate'[e].state.updatedAt
    BY DEF SeenOK
  <2>1. CASE e = d
    BY <1>2, <1>6, <1>8, <2>1
  <2>2. CASE e # d
    <3>1. v.wrote = FALSE
      BY <1>3, <1>7, <2>2
    <3>2. e \notin stale /\ file' = file /\ gate'[e] = gate[e]
      BY <1>4, <1>6, <2>2, <3>1
    <3>. QED
      BY <3>2 DEF SeenOK
  <2>. QED
    BY <2>1, <2>2
<1>10. NewerPauseStep
  <2>. SUFFICES ASSUME NEW e \in Daemons, ~(gate'[e].tickets \subseteq gate[e].tickets)
                PROVE  \/ now >= Max({file'.until, file'.stoppedUntil})
                       \/ /\ gate[e].state.updatedAt >= file'.updatedAt
                          /\ now >= Max({gate[e].state.until, gate[e].state.stoppedUntil})
    BY DEF NewerPauseStep
  <2>1. e = d /\ ~(v.g.tickets \subseteq w.g.tickets)
    BY <1>1, <1>6
  <2>2. CASE Passes(v.file)
    <3>1. v.file \in State
      BY StateOf
    <3>. QED
      BY <1>1, <1>2, <2>2, <3>1, PassesMax
  <2>3. CASE v.wrote = FALSE /\ w.file.updatedAt <= w.g.state.updatedAt /\ Passes(w.g.state)
    <3>1. w.g.state \in State /\ w.file \in State
      BY <1>1, StateOf
    <3>2. now >= Max({gate[e].state.until, gate[e].state.stoppedUntil})
      BY <1>1, <2>1, <2>3, <3>1, PassesMax
    <3>3. gate[e].state.updatedAt >= file'.updatedAt
      <4>1. file' = w.file /\ gate[e].state = w.g.state
        BY <1>1, <1>4, <2>1, <2>3
      <4>2. w.file.updatedAt \in Nat /\ w.g.state.updatedAt \in Nat
        BY <3>1 DEF State
      <4>. QED
        BY <2>3, <4>1, <4>2
    <3>. QED
      BY <3>2, <3>3
  <2>. QED
    BY <1>8, <2>1, <2>2, <2>3
<1>. QED
  BY <1>9, <1>10

LEMMA TurnStepNewest ==
  ASSUME TypeInv, SeenOK, NEW d \in Daemons, NEW u \in Turns, TurnStep(d, u)
  PROVE  SeenOK' /\ NewerPauseStep
<1>. DEFINE w == View(d)
<1>1. /\ Fine(w) /\ Newest(w, w) /\ w.g = gate[d] /\ now \in Nat \ {0}
  BY ViewNewest
<1>2. w.g \in Gate /\ Consistent(w.g) /\ DeadlineOK(w.g)
  BY <1>1, ViewFine, StateOf
<1>3. u \in w.g.tickets => w.g.admittedAt[u] \in Nat
  BY <1>2 DEF Gate
<1>4. CASE Arrive(d, u)
  <2>. DEFINE v == Awaited(w, u)
  <2>1. u \notin w.g.tickets \cup w.g.over
    BY <1>1, <1>4 DEF Arrive
  <2>2. Fine(v) /\ Newest(w, v) /\ v.unread = FALSE
    BY <1>1, <1>2, <2>1, AwaitedFine, AwaitedKeepsNewest
  <2>. QED
    BY <1>4, <2>2, CommitNewest DEF Arrive
<1>5. CASE AbortWait(d, u)
  <2>. DEFINE v == [w EXCEPT !.g = Gone(@, {u})]
  <2>1. w.g.probeTicket \notin {u} /\ {u} \in SUBSET Turns /\ Whole(w.g)
    BY <1>1, <1>2, <1>5, NoTurnAssumption DEF AbortWait, Consistent, Fine
  <2>2. /\ Fine(v) /\ v.g = Gone(w.g, {u}) /\ v.file = w.file /\ v.wrote = w.wrote
        /\ v.unread = w.unread
    BY <1>1, <2>1, OverFields
  <2>3. Gone(w.g, {u}).state = w.g.state /\ Gone(w.g, {u}).tickets = w.g.tickets \ {u}
    BY <2>1, GoneFields
  <2>4. Commit(d, Pumped(v))
    BY <1>5 DEF AbortWait
  <2>. HIDE DEF v
  <2>5. v.g.state = w.g.state /\ v.g.tickets \subseteq w.g.tickets
    BY <2>2, <2>3
  <2>6. Newest(w, v)
    BY <1>1, <2>2, <2>5, EditKeepsNewest
  <2>7. Newest(w, Pumped(v)) /\ Fine(Pumped(v)) /\ Pumped(v).unread = FALSE
    BY <1>1, <2>2, <2>6, PumpedKeepsNewest
  <2>. QED
    BY <2>4, <2>7, CommitNewest
<1>6. CASE ToolsWait(d, u)
  <2>. DEFINE v == [w EXCEPT !.g.waitingForTools = Toggled(w, u)]
  <2>1. Toggled(w, u) \in SUBSET w.g.tickets
    BY <1>1, <1>2, <1>6 DEF ToolsWait, Toggled, Consistent
  <2>2. /\ Fine(v) /\ v.g = [w.g EXCEPT !.waitingForTools = Toggled(w, u)]
        /\ v.file = w.file /\ v.unread = w.unread /\ v.wrote = w.wrote
    BY <1>1, <2>1, ToolsEdited
  <2>3. Commit(d, Pumped(v))
    BY <1>6 DEF ToolsWait, Toggled
  <2>. HIDE DEF v
  <2>4. v.g.state = w.g.state /\ v.g.tickets = w.g.tickets
    BY <1>2, <2>2 DEF Gate
  <2>5. Newest(w, v)
    BY <1>1, <2>2, <2>4, EditKeepsNewest
  <2>6. Newest(w, Pumped(v)) /\ Fine(Pumped(v)) /\ Pumped(v).unread = FALSE
    BY <1>1, <2>2, <2>5, PumpedKeepsNewest
  <2>. QED
    BY <2>3, <2>6, CommitNewest
<1>7. CASE Accept(d, u)
  <2>. DEFINE v == [w EXCEPT !.g.accepted = @ \cup {u}]
              q == ProbeAccepted(v, u)
  <2>1. u \in w.g.tickets
    BY <1>1, <1>7 DEF Accept
  <2>2. /\ Fine(v) /\ v.g = [w.g EXCEPT !.accepted = @ \cup {u}]
        /\ v.file = w.file /\ v.unread = w.unread /\ v.wrote = w.wrote
    BY <1>1, <2>1, AcceptedEdited
  <2>3. Commit(d, Pumped(q))
    BY <1>7 DEF Accept
  <2>. HIDE DEF v
  <2>4. v.g.state = w.g.state /\ v.g.tickets = w.g.tickets
    BY <1>2, <2>2 DEF Gate
  <2>5. Newest(w, v)
    BY <1>1, <2>2, <2>4, EditKeepsNewest
  <2>6. Newest(w, q) /\ Fine(q)
    BY <1>1, <2>2, <2>4, <2>5, ProbeKeepsNewest
  <2>. HIDE DEF q
  <2>7. Newest(w, Pumped(q)) /\ Fine(Pumped(q)) /\ Pumped(q).unread = FALSE
    BY <1>1, <2>6, PumpedKeepsNewest
  <2>. QED
    BY <2>3, <2>7, CommitNewest
<1>8. CASE Clean(d, u)
  <2>. DEFINE r == Recovered(w, u)
              q == Unfailed(r)
              v == Finished(q, u)
  <2>1. u \in w.g.tickets
    BY <1>1, <1>8 DEF Clean, Answering
  <2>2. Newest(w, r) /\ Fine(r) /\ r.g.tickets = w.g.tickets
    BY <1>1, RecoveredKeepsNewest DEF SameGate, SameQueue
  <2>3. Commit(d, v)
    BY <1>8 DEF Clean, FinishedClean, Finished
  <2>. HIDE DEF r
  <2>4. Newest(w, q) /\ Fine(q) /\ q.g.tickets = w.g.tickets
    BY <1>1, <2>2, UnfailedKeepsNewest DEF SameGate, SameQueue
  <2>. HIDE DEF q
  <2>5. Fine(v) /\ Newest(w, v) /\ v.unread = FALSE
    BY <1>1, <2>1, <2>4, FinishedFine, FinishedKeepsNewest
  <2>. QED
    BY <2>3, <2>5, CommitNewest
<1>9. CASE GiveBack(d, u)
  <2>1. u \in w.g.tickets
    BY <1>1, <1>9 DEF GiveBack
  <2>2. Fine(Finished(w, u)) /\ Newest(w, Finished(w, u)) /\ Finished(w, u).unread = FALSE
    BY <1>1, <2>1, FinishedFine, FinishedKeepsNewest
  <2>. QED
    BY <1>9, <2>2, CommitNewest DEF GiveBack
<1>10. CASE Fail(d, u)
  <2>. DEFINE f == FailureRecorded(w, w.g.admittedAt[u])
              v == Finished(f, u)
  <2>1. u \in w.g.tickets
    BY <1>1, <1>10 DEF Fail, Answering
  <2>2. Newest(w, f) /\ Fine(f) /\ u \in f.g.tickets
    BY <1>1, <1>3, <2>1, FailureKeepsNewest
  <2>3. Commit(d, v)
    BY <1>1, <1>10 DEF Fail
  <2>. HIDE DEF f
  <2>4. Fine(v) /\ Newest(w, v) /\ v.unread = FALSE
    BY <1>1, <2>2, FinishedFine, FinishedKeepsNewest
  <2>. QED
    BY <2>3, <2>4, CommitNewest
<1>11. CASE RateLimited(d, u)
  <2>. DEFINE f == RateLimitRecorded(w, w.g.admittedAt[u])
              v == Finished(f, u)
              q == Awaited(Unadmitted(Pumped(Released(f, u)), u), u)
  <2>1. u \in w.g.tickets
    BY <1>1, <1>11 DEF RateLimited, Answering
  <2>2. Newest(w, f) /\ Fine(f) /\ u \in f.g.tickets
    BY <1>1, <1>3, <2>1, RateLimitKeepsNewest
  <2>3. Commit(d, v) \/ Commit(d, q)
    BY <1>1, <1>11 DEF RateLimited, Unadmitted
  <2>. HIDE DEF f
  <2>4. Fine(v) /\ Newest(w, v) /\ v.unread = FALSE
    BY <1>1, <2>2, FinishedFine, FinishedKeepsNewest
  <2>5. Fine(q) /\ Newest(w, q) /\ q.unread = FALSE
    BY <1>1, <2>2, RequeuedFine, RequeuedKeepsNewest
  <2>. HIDE DEF v, q
  <2>. QED
    BY <2>3, <2>4, <2>5, CommitNewest
<1>12. CASE SeeHold(d, u)
  <2>. DEFINE f == HoldRecorded(w)
              v == Finished(f, u)
  <2>1. u \in w.g.tickets
    BY <1>1, <1>12 DEF SeeHold, Answering
  <2>2. Newest(w, f) /\ Fine(f) /\ u \in f.g.tickets
    BY <1>1, <2>1, HoldKeepsNewest
  <2>3. Commit(d, v)
    BY <1>12 DEF SeeHold
  <2>. HIDE DEF f
  <2>4. Fine(v) /\ Newest(w, v) /\ v.unread = FALSE
    BY <1>1, <2>2, FinishedFine, FinishedKeepsNewest
  <2>. QED
    BY <2>3, <2>4, CommitNewest
<1>. QED
  BY <1>4, <1>5, <1>6, <1>7, <1>8, <1>9, <1>10, <1>11, <1>12 DEF TurnStep

LEMMA StepNewest ==
  ASSUME TypeInv, SeenOK, [GateNext]_gateVars
  PROVE  SeenOK' /\ [NewerPauseStep]_gateVars
<1>1. ASSUME NEW d \in Daemons, NEW u \in Turns, TurnStep(d, u)
      PROVE  SeenOK' /\ NewerPauseStep
  BY <1>1, TurnStepNewest
<1>2. ASSUME NEW d \in Daemons, ClearHold(d)
      PROVE  SeenOK' /\ NewerPauseStep
  <2>. DEFINE w == View(d)
              r == Refreshed(w)
              s == HeldState(r.g.state, FALSE)
              v == Saved(r, s)
  <2>1. /\ Fine(w) /\ Newest(w, w) /\ now \in Nat \ {0}
    BY ViewNewest
  <2>2. Newest(w, r) /\ Fine(r) /\ r.unread = FALSE /\ SameGate(w.g, r.g)
    BY <2>1, RefreshedKeepsNewest
  <2>3. [r EXCEPT !.g.state.held = FALSE] = [r EXCEPT !.g.state = s]
    BY DEF HeldState
  <2>4. Commit(d, IF r.g.state.held THEN Pumped(v) ELSE r)
    BY <1>2, <2>3 DEF ClearHold, Saved
  <2>. HIDE DEF r
  <2>5. s \in State
    BY <2>2, StateOf, HeldStateFields
  <2>6. r.g.tickets \subseteq w.g.tickets
    BY <2>2 DEF SameGate, SameQueue
  <2>. HIDE DEF s
  <2>7. Newest(w, v) /\ Fine(v)
    BY <2>1, <2>2, <2>5, <2>6, SavedKeepsNewest
  <2>. HIDE DEF v
  <2>8. Newest(w, Pumped(v)) /\ Fine(Pumped(v)) /\ Pumped(v).unread = FALSE
    BY <2>1, <2>7, PumpedKeepsNewest
  <2>9. CASE r.g.state.held
    BY <2>4, <2>8, <2>9, CommitNewest
  <2>10. CASE ~r.g.state.held
    BY <2>2, <2>4, <2>10, CommitNewest
  <2>. QED
    BY <2>9, <2>10
<1>3. ASSUME NEW d \in Daemons, Look(d)
      PROVE  SeenOK' /\ NewerPauseStep
  <2>1. /\ Fine(View(d)) /\ Newest(View(d), View(d)) /\ now \in Nat \ {0}
    BY ViewNewest
  <2>2. /\ Newest(View(d), Current(View(d))) /\ Fine(Current(View(d)))
        /\ Current(View(d)).unread = FALSE
    BY <2>1, CurrentKeepsNewest
  <2>. QED
    BY <1>3, <2>2, CommitNewest DEF Look
<1>4. ASSUME NEW d \in Daemons, Wake(d)
      PROVE  SeenOK' /\ NewerPauseStep
  <2>. DEFINE w == View(d)
              v == [w EXCEPT !.g.timerAt = Never]
  <2>1. /\ Fine(w) /\ Newest(w, w) /\ now \in Nat \ {0} /\ w.g \in Gate
    BY ViewNewest, StateOf
  <2>2. /\ Fine(v) /\ v.g = [w.g EXCEPT !.timerAt = Never]
        /\ v.file = w.file /\ v.unread = w.unread /\ v.wrote = w.wrote
    BY <2>1, TimerEdited, Constants
  <2>3. Commit(d, Pumped(v))
    BY <1>4 DEF Wake
  <2>. HIDE DEF v
  <2>4. v.g.state = w.g.state /\ v.g.tickets = w.g.tickets
    BY <2>1, <2>2 DEF Gate
  <2>5. Newest(w, v)
    BY <2>1, <2>2, <2>4, EditKeepsNewest
  <2>6. Newest(w, Pumped(v)) /\ Fine(Pumped(v)) /\ Pumped(v).unread = FALSE
    BY <2>1, <2>2, <2>5, PumpedKeepsNewest
  <2>. QED
    BY <2>3, <2>6, CommitNewest
<1>5. ASSUME NEW d \in Daemons, Restart(d)
      PROVE  SeenOK' /\ NewerPauseStep
  <2>. DEFINE lost == gate[d].over \cup gate[d].waiters \cup gate[d].tickets
              r == Refreshed(RestartedWork(lost))
  <2>1. /\ Whole(gate[d]) /\ now \in Nat /\ file \in State /\ gate \in [Daemons -> Gate]
    BY ViewFine DEF TypeInv, GateTypeOK
  <2>2. lost \in SUBSET Turns
    BY <2>1 DEF Whole, Gate
  <2>3. /\ gate' = [gate EXCEPT ![d] = r.g] /\ stale' = stale \ {d} /\ file' = file
    BY <1>5 DEF Restart, RestartedWork
  <2>. HIDE DEF lost
  <2>4. /\ r.g.tickets = {}
        /\ r.g.state = IF file.updatedAt > 0 THEN Normalized(file) ELSE emptyState
    BY <2>1, <2>2, RestartedFields
  <2>. HIDE DEF r
  <2>5. \A e \in Daemons : gate'[e] = IF e = d THEN r.g ELSE gate[e]
    BY <2>1, <2>3
  <2>6. file.updatedAt <= r.g.state.updatedAt
    <3>1. file.updatedAt \in Nat
      BY <2>1 DEF State
    <3>2. Normalized(file).updatedAt = file.updatedAt
      BY <2>1, NormalizedFields
    <3>3. emptyState.updatedAt = 0
      BY DEF emptyState
    <3>. QED
      BY <2>4, <3>1, <3>2, <3>3
  <2>7. SeenOK'
    BY <2>3, <2>5, <2>6 DEF SeenOK
  <2>8. \A e \in Daemons : gate'[e].tickets \subseteq gate[e].tickets
    BY <2>4, <2>5
  <2>. QED
    BY <2>7, <2>8 DEF NewerPauseStep
<1>6. CASE Tick
  BY <1>6 DEF Tick, SeenOK, NewerPauseStep
<1>7. CASE SetClockBack
  <2>1. PICK k \in 1 .. MaxClockSetBack :
          /\ gate' = [d \in Daemons |->
               [gate[d] EXCEPT !.timerAt = IF @ = Never THEN @ ELSE IF @ <= k THEN 0 ELSE @ - k]]
          /\ file' = file /\ stale' = stale
    BY <1>7 DEF SetClockBack
  <2>2. gate \in [Daemons -> Gate]
    BY DEF TypeInv, GateTypeOK
  <2>3. ASSUME NEW d \in Daemons
        PROVE  gate'[d].state = gate[d].state /\ gate'[d].tickets = gate[d].tickets
    <3>. DEFINE t == Earlier(gate[d].timerAt, k)
    <3>1. gate'[d] = [gate[d] EXCEPT !.timerAt = t] /\ gate[d] \in Gate
      BY <2>1, <2>2 DEF Earlier
    <3>. HIDE DEF t
    <3>. QED
      BY <3>1 DEF Gate
  <2>. QED
    BY <2>1, <2>3 DEF SeenOK, NewerPauseStep
<1>8. CASE UNCHANGED gateVars
  BY <1>8 DEF gateVars, SeenOK
<1>. QED
  BY <1>1, <1>2, <1>3, <1>4, <1>5, <1>6, <1>7, <1>8 DEF GateNext

\* For any number of daemons, restarts and corrections of the clock: no daemon sends into a pause
\* that another daemon saved after the daemon's own record (refreshFromDisk before every pump,
\* the file's time that tells a daemon to read it again, persist's updatedAt).
THEOREM NewerPausesAreRespected == GateSpec => NewerPauseRespected
<1>1. GateInit => TypeInv /\ SeenOK
  <2>1. GateInit => SeenOK
    <3>. SUFFICES ASSUME GateInit, NEW d \in Daemons
                  PROVE  file.updatedAt <= gate[d].state.updatedAt
      BY DEF SeenOK
    <3>1. file = emptyState /\ gate[d].state = emptyState
      BY NewGateFields DEF GateInit
    <3>2. emptyState.updatedAt = 0
      BY DEF emptyState
    <3>. QED
      BY <3>1, <3>2
  <2>. QED
    BY <2>1, InitTypes
<1>2. TypeInv /\ SeenOK /\ [GateNext]_gateVars
        => TypeInv' /\ SeenOK' /\ [NewerPauseStep]_gateVars
  BY StepTypes, StepNewest
<1>3. NewerPauseStep =>
        \A d \in Daemons : \/ gate'[d].tickets \subseteq gate[d].tickets
                           \/ now >= Max({file'.until, file'.stoppedUntil})
                           \/ LET own == gate[d].state
                              IN own.updatedAt >= file'.updatedAt
                                 /\ now >= Max({own.until, own.stoppedUntil})
  BY DEF NewerPauseStep
<1>. QED
  BY <1>1, <1>2, <1>3, PTL DEF GateSpec, NewerPauseRespected
=============================================================================
