---------------------- MODULE CredentialScheduler_proofs ----------------------
(***************************************************************************)
(* A removed credential stays removed, every record keeps its type, a      *)
(* quota of a credential's own is not cut short, failures only prolong     *)
(* cooldowns, recoveries only shorten them, and the scheduler ends in      *)
(* agreement with the manager: for any models, tokens and bounds.          *)
(*                                                                         *)
(* The first argument is about registration epochs alone.  A removal takes *)
(* an epoch of its own, so whatever is in flight about the credential is   *)
(* older than its tombstone; once the scheduler has seen an epoch, nothing *)
(* older brings anything in.  What the cooldown operators compute does not *)
(* matter there.                                                           *)
(*                                                                         *)
(* The second is about what they compute.  Each operator of                *)
(* CredentialState has a lemma that says what it keeps: its type (Auths),  *)
(* the ceiling of a quota of the credential's own (Capped), and that quota *)
(* itself (Outlasts).  The ceiling is what makes the quota stay: a later   *)
(* 429 in the credential's scope sets the later of two deadlines, cut to   *)
(* the ceiling, which is no earlier than the present one only because that *)
(* one is below the ceiling, too.                                          *)
(*                                                                         *)
(* The third compares what two credentials may serve, at any later time.   *)
(* It needs to know which deadlines decide for a model (Sound), and        *)
(* that a credential whose models are all down is marked as such (Alert),  *)
(* or a recovery could bring a refusal to bear that did not count before.  *)
(*                                                                         *)
(* The fourth is about the order in which publications arrive.  What the   *)
(* scheduler has taken in for a shard serves it as what the manager holds  *)
(* would (Like), or something newer that concerns the shard is in flight   *)
(* (Current).  A publication may leave shards out, because a result        *)
(* changes what the credential may serve for its own model only, unless a  *)
(* 401 refuses the credential as a whole.                                  *)
(***************************************************************************)
EXTENDS CredentialScheduler, FiniteSetTheorems, WellFoundedInduction, TLAPS

Kind == {"lifecycle", "result", "tombstone", "rebuild"}

\* The records have their fields, and epochs are numbers.
SnapshotOK(s) ==
  /\ DOMAIN s = {"epoch", "generation", "updatedAt", "auth"}
  /\ s.epoch \in Nat

MirrorOK(m) ==
  /\ DOMAIN m = {"provider", "meta", "seen", "shards"}
  /\ m.seen.epoch \in Nat
  /\ DOMAIN m.shards = Shards

\* No shard offers the credential, and none will be built from what is known of it.
Gone(m) == m.meta = Absent /\ \A s \in Shards : m.shards[s] \in {Unbuilt, Absent}

ShapesOK ==
  /\ epoch \in Nat \ {0}
  /\ SnapshotOK(held)
  /\ MirrorOK(mirror)
  /\ \A p \in inFlight : SnapshotOK(p.snapshot) /\ p.kind \in Kind

\* Nobody is ahead of the manager.
EpochsOK ==
  /\ Held => held.epoch = epoch
  /\ mirror.seen.epoch <= epoch
  /\ \A p \in inFlight : p.snapshot.epoch <= epoch

\* The tombstone of the last removal is in flight or has been seen, and everything else in
\* flight is older.
RemovalOK ==
  ~Held =>
    /\ \A p \in inFlight : p.kind = "tombstone" \/ p.snapshot.epoch < epoch
    /\ \/ mirror.seen.epoch = epoch /\ Gone(mirror)
       \/ \E p \in inFlight : p.kind = "tombstone" /\ p.snapshot.epoch = epoch

EpochInvariant == ShapesOK /\ EpochsOK /\ RemovalOK

-----------------------------------------------------------------------------
(***************************************************************************)
(* The scheduler's operators.                                              *)
(***************************************************************************)
\* What a publication may do to the scheduler, as far as epochs tell.
Moves(m, n, e) ==
  /\ MirrorOK(n)
  /\ n.seen.epoch \in {m.seen.epoch, e}
  /\ n.seen.epoch >= m.seen.epoch

LEMMA RemoveShape ==
  ASSUME NEW m, MirrorOK(m)
  PROVE  /\ MirrorOK(removeAuthFromProviders(m))
         /\ removeAuthFromProviders(m).seen = m.seen
         /\ Gone(removeAuthFromProviders(m))
BY DEF MirrorOK, Gone, removeAuthFromProviders

LEMMA UpsertShape ==
  ASSUME NEW m, MirrorOK(m), NEW snapshot, NEW shards
  PROVE  /\ MirrorOK(upsertAuthForModels(m, snapshot, shards))
         /\ upsertAuthForModels(m, snapshot, shards).seen = m.seen
BY DEF MirrorOK, upsertAuthForModels

LEMMA SeenShape ==
  ASSUME NEW m, MirrorOK(m), NEW snapshot, SnapshotOK(snapshot)
  PROVE  MirrorOK(Seen(m, snapshot)) /\ Seen(m, snapshot).seen.epoch = snapshot.epoch
BY DEF MirrorOK, SnapshotOK, Seen

\* A snapshot that is not late is not older than what was seen.
LEMMA NotStale ==
  ASSUME NEW m, MirrorOK(m), NEW snapshot, SnapshotOK(snapshot)
  PROVE  /\ ~isStaleScheduledAuth(m, snapshot) => snapshot.epoch >= m.seen.epoch
         /\ snapshot.epoch < m.seen.epoch => isStaleScheduledAuth(m, snapshot)
BY DEF MirrorOK, SnapshotOK, isStaleScheduledAuth

LEMMA LifecycleMoves ==
  ASSUME NEW m, MirrorOK(m), NEW snapshot, SnapshotOK(snapshot)
  PROVE  /\ Moves(m, upsertAuthLifecycle(m, snapshot), snapshot.epoch)
         /\ snapshot.epoch < m.seen.epoch => upsertAuthLifecycle(m, snapshot) = m
<1> DEFINE seen == Seen(m, snapshot)
<1>1. MirrorOK(seen) /\ seen.seen.epoch = snapshot.epoch
  BY SeenShape
<1>2. m.seen.epoch \in Nat /\ snapshot.epoch \in Nat
  BY DEF MirrorOK, SnapshotOK
<1>3. CASE isStaleScheduledAuth(m, snapshot)
  BY <1>2, <1>3 DEF upsertAuthLifecycle, Moves
<1>4. CASE ~isStaleScheduledAuth(m, snapshot)
  <2>1. snapshot.epoch >= m.seen.epoch
    BY <1>4, NotStale
  <2> HIDE DEF seen
  <2>2. upsertAuthLifecycle(m, snapshot)
          \in {removeAuthFromProviders(seen), upsertAuthForModels(seen, snapshot, Shards)}
    BY <1>4 DEF upsertAuthLifecycle, seen
  <2>3. \A n \in {removeAuthFromProviders(seen), upsertAuthForModels(seen, snapshot, Shards)} :
          MirrorOK(n) /\ n.seen = seen.seen
    BY <1>1, RemoveShape, UpsertShape
  <2> QED  BY <1>1, <1>2, <2>1, <2>2, <2>3 DEF Moves
<1> QED  BY <1>3, <1>4

LEMMA ResultMoves ==
  ASSUME NEW m, MirrorOK(m), NEW p, SnapshotOK(p.snapshot)
  PROVE  /\ Moves(m, upsertAuthResult(m, p), p.snapshot.epoch)
         /\ p.snapshot.epoch < m.seen.epoch /\ m.meta = Absent => upsertAuthResult(m, p) = m
<1> DEFINE seen == Seen(m, p.snapshot)
<1>1. MirrorOK(seen) /\ seen.seen.epoch = p.snapshot.epoch
  BY SeenShape
<1>2. m.seen.epoch \in Nat /\ p.snapshot.epoch \in Nat
  BY DEF MirrorOK, SnapshotOK
<1>3. CASE isStaleScheduledAuth(m, p.snapshot)
  <2>1. CASE m.meta = Absent
    BY <1>2, <1>3, <2>1 DEF upsertAuthResult, Moves
  <2>2. CASE m.meta # Absent
    <3> DEFINE late == [auth |-> m.meta]
    <3> DEFINE targets == IF p.targets = {} THEN Shards ELSE p.targets \cup {NoModel}
    <3>1. upsertAuthResult(m, p) = upsertAuthForModels(m, late, targets)
      BY <1>3, <2>2 DEF upsertAuthResult
    <3> HIDE DEF late, targets
    <3>2. /\ MirrorOK(upsertAuthForModels(m, late, targets))
          /\ upsertAuthForModels(m, late, targets).seen = m.seen
      BY UpsertShape
    <3> QED  BY <1>2, <2>2, <3>1, <3>2 DEF Moves
  <2> QED  BY <2>1, <2>2
<1>4. CASE ~isStaleScheduledAuth(m, p.snapshot)
  <2>1. p.snapshot.epoch >= m.seen.epoch
    BY <1>4, NotStale
  <2> DEFINE targets == ResultShards(m, p)
  <2>2. upsertAuthResult(m, p)
          \in {removeAuthFromProviders(seen), upsertAuthForModels(seen, p.snapshot, targets)}
    BY <1>4 DEF upsertAuthResult
  <2> HIDE DEF seen, targets
  <2>3. \A n \in {removeAuthFromProviders(seen), upsertAuthForModels(seen, p.snapshot, targets)} :
          MirrorOK(n) /\ n.seen = seen.seen
    BY <1>1, RemoveShape, UpsertShape
  <2> QED  BY <1>1, <1>2, <2>1, <2>2, <2>3 DEF Moves
<1> QED  BY <1>3, <1>4

LEMMA TombstoneMoves ==
  ASSUME NEW m, MirrorOK(m), NEW snapshot, SnapshotOK(snapshot)
  PROVE  /\ Moves(m, recordRemovalTombstone(m, snapshot), snapshot.epoch)
         /\ snapshot.epoch >= m.seen.epoch =>
              /\ recordRemovalTombstone(m, snapshot).seen.epoch = snapshot.epoch
              /\ Gone(recordRemovalTombstone(m, snapshot))
         /\ snapshot.epoch < m.seen.epoch => recordRemovalTombstone(m, snapshot) = m
<1> DEFINE seen == Seen(m, snapshot)
<1>1. MirrorOK(seen) /\ seen.seen.epoch = snapshot.epoch
  BY SeenShape
<1>2. m.seen.epoch \in Nat /\ snapshot.epoch \in Nat
  BY DEF MirrorOK, SnapshotOK
<1>3. recordRemovalTombstone(m, snapshot)
        = IF snapshot.epoch < m.seen.epoch THEN m ELSE removeAuthFromProviders(seen)
  BY DEF recordRemovalTombstone
<1> HIDE DEF seen
<1>4. /\ MirrorOK(removeAuthFromProviders(seen))
      /\ removeAuthFromProviders(seen).seen = seen.seen
      /\ Gone(removeAuthFromProviders(seen))
  BY <1>1, RemoveShape
<1> QED  BY <1>1, <1>2, <1>3, <1>4 DEF Moves

LEMMA RebuildMoves ==
  ASSUME NEW m, MirrorOK(m), NEW snapshot, SnapshotOK(snapshot)
  PROVE  /\ Moves(m, rebuild(m, snapshot), snapshot.epoch)
         /\ snapshot.epoch < m.seen.epoch =>
              rebuild(m, snapshot).seen = m.seen /\ Gone(rebuild(m, snapshot))
<1> DEFINE f == [s \in Shards |-> Unbuilt]
<1> DEFINE empty == [m EXCEPT !.provider = FALSE, !.meta = Absent, !.shards = f]
<1>1. MirrorOK(empty) /\ empty.seen = m.seen /\ Gone(empty)
  BY DEF MirrorOK, Gone
<1>3. rebuild(m, snapshot)
        = IF snapshot = NoSnapshot THEN empty ELSE upsertAuthLifecycle(empty, snapshot)
  BY DEF rebuild
<1> HIDE DEF f, empty
<1>5. /\ Moves(empty, upsertAuthLifecycle(empty, snapshot), snapshot.epoch)
      /\ snapshot.epoch < empty.seen.epoch => upsertAuthLifecycle(empty, snapshot) = empty
  BY <1>1, LifecycleMoves
<1>6. m.seen.epoch \in Nat /\ snapshot.epoch \in Nat
  BY DEF MirrorOK, SnapshotOK
<1> QED  BY <1>1, <1>3, <1>5, <1>6 DEF Moves

\* Whatever arrives: only an epoch that is at least as new replaces the one seen; what is older
\* brings nothing in; and a tombstone that is not older empties the shards.
LEMMA ReceiveMoves ==
  ASSUME NEW m, MirrorOK(m), NEW p, SnapshotOK(p.snapshot), p.kind \in Kind
  PROVE  /\ Moves(m, Receive(m, p), p.snapshot.epoch)
         /\ p.snapshot.epoch < m.seen.epoch /\ Gone(m) =>
              Receive(m, p).seen.epoch = m.seen.epoch /\ Gone(Receive(m, p))
         /\ p.kind = "tombstone" /\ p.snapshot.epoch >= m.seen.epoch =>
              Receive(m, p).seen.epoch = p.snapshot.epoch /\ Gone(Receive(m, p))
<1>1. CASE p.kind = "lifecycle"
  <2>1. Receive(m, p) = upsertAuthLifecycle(m, p.snapshot)
    BY <1>1 DEF Receive
  <2> QED  BY <1>1, <2>1, LifecycleMoves
<1>2. CASE p.kind = "result"
  <2>1. Receive(m, p) = upsertAuthResult(m, p)
    BY <1>2 DEF Receive
  <2> QED  BY <1>2, <2>1, ResultMoves DEF Gone
<1>3. CASE p.kind = "tombstone"
  <2>1. Receive(m, p) = recordRemovalTombstone(m, p.snapshot)
    BY <1>3 DEF Receive
  <2> QED  BY <2>1, TombstoneMoves
<1>4. CASE p.kind = "rebuild"
  <2>1. Receive(m, p) = rebuild(m, p.snapshot)
    BY <1>4 DEF Receive
  <2> QED  BY <1>4, <2>1, RebuildMoves
<1> QED  BY <1>1, <1>2, <1>3, <1>4 DEF Kind

-----------------------------------------------------------------------------
(***************************************************************************)
(* The steps.  The first lemmas are about a step that publishes what the   *)
(* manager holds afterwards and leaves the scheduler alone.                *)
(***************************************************************************)
LEMMA SnapshotShape ==
  ASSUME NEW auth, NEW e \in Nat, NEW g, NEW u
  PROVE  SnapshotOK(Snapshot(auth, e, g, u)) /\ Snapshot(auth, e, g, u).epoch = e
BY DEF Snapshot, SnapshotOK

LEMMA EpochOfNothing == SnapshotOK(NoSnapshot) /\ NoSnapshot.epoch = 0
BY SnapshotShape DEF NoSnapshot

\* The publications in flight after a step are those before it and one of kind k.
Publishes(k, snapshot) ==
  \A p \in inFlight' : p \in inFlight \/ (p.kind = k /\ p.snapshot = snapshot)

LEMMA PublishAdds ==
  ASSUME NEW k, NEW snapshot, NEW targets, Publish(k, snapshot, targets)
  PROVE  Publishes(k, snapshot) /\ inFlight \subseteq inFlight'
                                /\ \E p \in inFlight' : p.kind = k /\ p.snapshot = snapshot
<1> DEFINE new == [kind |-> k, snapshot |-> snapshot, targets |-> targets]
<1>1. new.kind = k /\ new.snapshot = snapshot
  OBVIOUS
<1>2. inFlight' = inFlight \cup {new}
  BY DEF Publish
<1> HIDE DEF new
<1> QED  BY <1>1, <1>2 DEF Publishes

\* A step that keeps the registration, whatever it publishes about it.
LEMMA KeptRegistration ==
  ASSUME EpochInvariant, Held, UNCHANGED <<epoch, mirror>>,
         SnapshotOK(held'), held'.epoch = held.epoch,
         NEW k \in Kind, Publishes(k, held')
  PROVE  EpochInvariant'
<1>1. epoch \in Nat \ {0} /\ held.epoch = epoch
  BY DEF EpochInvariant, ShapesOK, EpochsOK
<1>2. Held'
  BY <1>1, EpochOfNothing DEF Held, NoSnapshot
<1>3. ShapesOK'
  BY DEF EpochInvariant, ShapesOK, Publishes
<1>4. EpochsOK'
  BY <1>1 DEF EpochInvariant, EpochsOK, Publishes
<1> QED  BY <1>2, <1>3, <1>4 DEF EpochInvariant, RemovalOK

\* A step that touches neither the manager's copy nor the scheduler, and publishes nothing.
LEMMA Untouched ==
  ASSUME EpochInvariant, UNCHANGED <<held, epoch, inFlight, mirror>>
  PROVE  EpochInvariant'
BY DEF EpochInvariant, ShapesOK, EpochsOK, RemovalOK, Held, NoSnapshot

LEMMA RegisterKeeps == EpochInvariant /\ Register => EpochInvariant'
<1> SUFFICES ASSUME EpochInvariant, Register PROVE EpochInvariant'
  OBVIOUS
<1>1. epoch \in Nat \ {0} /\ epoch' = epoch + 1 /\ mirror' = mirror
  BY DEF EpochInvariant, ShapesOK, Register
<1>2. SnapshotOK(held') /\ held'.epoch = epoch'
  BY <1>1, SnapshotShape DEF Register
<1>3. Publishes("lifecycle", held')
  BY PublishAdds DEF Register
<1>4. Held'
  BY <1>1, <1>2, EpochOfNothing DEF Held, NoSnapshot
<1>5. ShapesOK'
  BY <1>1, <1>2, <1>3 DEF EpochInvariant, ShapesOK, Publishes, Kind
<1>6. EpochsOK'
  <2>1. mirror.seen.epoch \in Nat /\ mirror.seen.epoch <= epoch
    BY DEF EpochInvariant, ShapesOK, MirrorOK, EpochsOK
  <2>2. \A p \in inFlight : p.snapshot.epoch \in Nat /\ p.snapshot.epoch <= epoch
    BY DEF EpochInvariant, ShapesOK, SnapshotOK, EpochsOK
  <2> QED  BY <1>1, <1>2, <1>3, <2>1, <2>2 DEF EpochsOK, Publishes
<1> QED  BY <1>4, <1>5, <1>6 DEF EpochInvariant, RemovalOK

\* The removal takes an epoch of its own, and everything else in flight is older.
LEMMA RemoveKeeps == EpochInvariant /\ Remove => EpochInvariant'
<1> SUFFICES ASSUME EpochInvariant, Remove PROVE EpochInvariant'
  OBVIOUS
<1> DEFINE tombstone == Snapshot(Absent, epoch + 1, 0, 0)
<1>1. epoch \in Nat \ {0} /\ epoch' = epoch + 1 /\ mirror' = mirror /\ held' = NoSnapshot
  BY DEF EpochInvariant, ShapesOK, Remove
<1>2. SnapshotOK(tombstone) /\ tombstone.epoch = epoch + 1
  BY <1>1, SnapshotShape
<1>3. /\ Publishes("tombstone", tombstone)
      /\ \E p \in inFlight' : p.kind = "tombstone" /\ p.snapshot = tombstone
  BY PublishAdds DEF Remove
<1> HIDE DEF tombstone
<1>4. mirror.seen.epoch \in Nat /\ mirror.seen.epoch <= epoch
  BY DEF EpochInvariant, ShapesOK, MirrorOK, EpochsOK
<1>5. \A p \in inFlight : p.snapshot.epoch \in Nat /\ p.snapshot.epoch <= epoch
  BY DEF EpochInvariant, ShapesOK, SnapshotOK, EpochsOK
<1>6. ShapesOK'
  BY <1>1, <1>2, <1>3, EpochOfNothing DEF EpochInvariant, ShapesOK, Publishes, Kind
<1>7. EpochsOK'
  BY <1>1, <1>2, <1>3, <1>4, <1>5 DEF EpochsOK, Publishes, Held, NoSnapshot
<1>8. RemovalOK'
  BY <1>1, <1>2, <1>3, <1>5 DEF RemovalOK, Publishes
<1> QED  BY <1>6, <1>7, <1>8 DEF EpochInvariant

\* Update, a result, a reset: the registration's next generation.
LEMMA ChangeShape ==
  ASSUME EpochInvariant, Held, NEW auth, Change(auth)
  PROVE  SnapshotOK(held') /\ held'.epoch = held.epoch
<1>1. held.epoch \in Nat
  BY DEF EpochInvariant, ShapesOK, SnapshotOK
<1> QED  BY <1>1, SnapshotShape DEF Change

LEMMA UpdateKeeps == EpochInvariant /\ Update => EpochInvariant'
<1> SUFFICES ASSUME EpochInvariant, Update PROVE EpochInvariant'
  OBVIOUS
<1>1. Held /\ UNCHANGED <<epoch, mirror>> /\ Publishes("lifecycle", held')
  BY PublishAdds DEF Update
<1>2. SnapshotOK(held') /\ held'.epoch = held.epoch
  BY <1>1, ChangeShape DEF Update
<1> QED  BY <1>1, <1>2, KeptRegistration DEF Kind

LEMMA ResultKeeps ==
  ASSUME EpochInvariant, NEW result, Result(result)
  PROVE  EpochInvariant'
<1>1. Held /\ UNCHANGED <<epoch, mirror>> /\ Publishes("result", held')
  BY PublishAdds DEF Result
<1>2. SnapshotOK(held') /\ held'.epoch = held.epoch
  BY <1>1, ChangeShape DEF Result
<1> QED  BY <1>1, <1>2, KeptRegistration DEF Kind

LEMMA NeutralResultKeeps == EpochInvariant /\ NeutralResult => EpochInvariant'
<1> SUFFICES ASSUME EpochInvariant, NeutralResult PROVE EpochInvariant'
  OBVIOUS
<1>1. Held /\ UNCHANGED <<epoch, mirror>> /\ Publishes("result", held')
  BY DEF NeutralResult, Publishes
<1>2. SnapshotOK(held') /\ held'.epoch = held.epoch
  BY <1>1, ChangeShape DEF NeutralResult
<1> QED  BY <1>1, <1>2, KeptRegistration DEF Kind

LEMMA OperatorResetKeeps == EpochInvariant /\ OperatorReset => EpochInvariant'
<1> SUFFICES ASSUME EpochInvariant, OperatorReset PROVE EpochInvariant'
  OBVIOUS
<1>1. Held /\ UNCHANGED <<epoch, mirror>> /\ Publishes("lifecycle", held')
  BY PublishAdds DEF OperatorReset
<1>2. SnapshotOK(held') /\ held'.epoch = held.epoch
  BY <1>1, ChangeShape DEF OperatorReset
<1> QED  BY <1>1, <1>2, KeptRegistration DEF Kind

LEMMA RefreshKeeps == EpochInvariant /\ RefreshSchedulerEntry => EpochInvariant'
<1> SUFFICES ASSUME EpochInvariant, RefreshSchedulerEntry PROVE EpochInvariant'
  OBVIOUS
<1>1. Held /\ UNCHANGED <<held, epoch, mirror>> /\ Publishes("lifecycle", held')
  BY PublishAdds DEF RefreshSchedulerEntry
<1>2. SnapshotOK(held')
  BY <1>1 DEF EpochInvariant, ShapesOK
<1> QED  BY <1>1, <1>2, KeptRegistration DEF Kind

\* The snapshot of a removed credential holds nothing, and is older than every registration.
LEMMA SyncKeeps == EpochInvariant /\ SyncScheduler => EpochInvariant'
<1> SUFFICES ASSUME EpochInvariant, SyncScheduler PROVE EpochInvariant'
  OBVIOUS
<1>1. /\ UNCHANGED <<held, epoch, mirror>> /\ Publishes("rebuild", held')
      /\ inFlight \subseteq inFlight'
  BY PublishAdds DEF SyncScheduler
<1>2. SnapshotOK(held) /\ epoch \in Nat \ {0}
  BY DEF EpochInvariant, ShapesOK
<1>3. CASE Held
  BY <1>1, <1>2, <1>3, KeptRegistration DEF Kind
<1>4. CASE ~Held
  <2>1. held.epoch < epoch /\ ~Held'
    BY <1>1, <1>2, <1>4, EpochOfNothing DEF Held, NoSnapshot
  <2>2. ShapesOK'
    BY <1>1, <1>2 DEF EpochInvariant, ShapesOK, Publishes, Kind
  <2>3. EpochsOK'
    BY <1>1, <1>2, <2>1 DEF EpochInvariant, EpochsOK, SnapshotOK, Publishes
  <2>4. RemovalOK'
    BY <1>1, <1>4, <2>1 DEF EpochInvariant, RemovalOK, Publishes
  <2> QED  BY <2>2, <2>3, <2>4 DEF EpochInvariant
<1> QED  BY <1>3, <1>4

LEMMA ApplyAnswerKeeps == EpochInvariant /\ ApplyAnswer => EpochInvariant'
<1> SUFFICES ASSUME EpochInvariant, ApplyAnswer PROVE EpochInvariant'
  OBVIOUS
<1>1. UNCHANGED <<epoch, mirror>>
  BY DEF ApplyAnswer
<1>2. CASE UNCHANGED <<held, inFlight>>
  BY <1>1, <1>2, Untouched
<1>3. ASSUME Held, NEW auth, Recovered(auth)
      PROVE  EpochInvariant'
  <2>1. SnapshotOK(held') /\ held'.epoch = held.epoch
    BY <1>3 DEF Recovered, EpochInvariant, ShapesOK, SnapshotOK
  <2>2. Publishes("lifecycle", held')
    BY <1>3, PublishAdds DEF Recovered
  <2> QED  BY <1>1, <1>3, <2>1, <2>2, KeptRegistration DEF Kind
<1>4. UNCHANGED <<held, inFlight>> \/ (Held /\ \E auth : Recovered(auth))
  BY DEF ApplyAnswer, Enabled
<1> QED  BY <1>2, <1>3, <1>4

\* What arrives is taken out of flight; the scheduler moves as ReceiveMoves says.
LEMMA DeliverKeeps ==
  ASSUME EpochInvariant, NEW p \in inFlight, Deliver(p)
  PROVE  EpochInvariant'
<1>1. /\ MirrorOK(mirror) /\ SnapshotOK(p.snapshot) /\ p.kind \in Kind
      /\ epoch \in Nat /\ mirror.seen.epoch <= epoch /\ p.snapshot.epoch <= epoch
  BY DEF EpochInvariant, ShapesOK, EpochsOK
<1>2. /\ UNCHANGED <<held, epoch>> /\ mirror' = Receive(mirror, p)
      /\ inFlight' = inFlight \ {p} /\ (Held' <=> Held)
  BY DEF Deliver, Held, NoSnapshot
<1>3. /\ Moves(mirror, mirror', p.snapshot.epoch)
      /\ p.snapshot.epoch < mirror.seen.epoch /\ Gone(mirror) =>
           mirror'.seen.epoch = mirror.seen.epoch /\ Gone(mirror')
      /\ p.kind = "tombstone" /\ p.snapshot.epoch >= mirror.seen.epoch =>
           mirror'.seen.epoch = p.snapshot.epoch /\ Gone(mirror')
  BY <1>1, <1>2, ReceiveMoves
<1>4. ShapesOK'
  BY <1>2, <1>3 DEF EpochInvariant, ShapesOK, Moves
<1>5. EpochsOK'
  BY <1>1, <1>2, <1>3 DEF EpochInvariant, EpochsOK, Moves
<1>6. RemovalOK'
  <2> SUFFICES ASSUME ~Held PROVE RemovalOK'
    BY <1>2 DEF RemovalOK
  <2>1. \A q \in inFlight' : q.kind = "tombstone" \/ q.snapshot.epoch < epoch'
    BY <1>2 DEF EpochInvariant, RemovalOK
  <2>2. mirror.seen.epoch \in Nat /\ p.snapshot.epoch \in Nat
    BY <1>1 DEF MirrorOK, SnapshotOK
  \* The tombstone of the last removal itself, or its twin ...
  <2>3. CASE p.kind = "tombstone" /\ p.snapshot.epoch = epoch
    BY <1>1, <1>2, <1>3, <2>1, <2>3 DEF RemovalOK
  \* ... or something older.
  <2>4. CASE p.snapshot.epoch < epoch
    <3>1. CASE mirror.seen.epoch = epoch /\ Gone(mirror)
      BY <1>2, <1>3, <2>1, <2>4, <3>1 DEF RemovalOK
    <3>2. CASE \E q \in inFlight : q.kind = "tombstone" /\ q.snapshot.epoch = epoch
      BY <1>1, <1>2, <2>1, <2>2, <2>4, <3>2 DEF RemovalOK
    <3> QED  BY <3>1, <3>2 DEF EpochInvariant, RemovalOK
  <2>5. p.kind = "tombstone" \/ p.snapshot.epoch < epoch
    BY DEF EpochInvariant, RemovalOK
  <2> QED  BY <1>1, <2>2, <2>3, <2>4, <2>5
<1> QED  BY <1>4, <1>5, <1>6 DEF EpochInvariant

\* A shard that is built from no metadata offers nothing.
LEMMA PickKeeps ==
  ASSUME EpochInvariant, NEW shard, Pick(shard)
  PROVE  EpochInvariant'
<1> DEFINE entry == IF mirror.shards[shard] = Unbuilt
                    THEN IF mirror.meta = Absent THEN Absent ELSE upsertEntry(mirror.meta, shard)
                    ELSE IF mirror.shards[shard] = Absent THEN Absent
                    ELSE promoteExpired(mirror.shards[shard], shard)
<1>1. mirror' = [mirror EXCEPT !.shards[shard] = entry]
  BY DEF Pick
<1>2. Gone(mirror) /\ shard \in Shards => entry = Absent
  BY DEF Gone
<1> HIDE DEF entry
<1>3. MirrorOK(mirror)
  BY DEF EpochInvariant, ShapesOK
<1>4. MirrorOK(mirror') /\ mirror'.seen = mirror.seen /\ (Gone(mirror) => Gone(mirror'))
  BY <1>1, <1>2, <1>3 DEF MirrorOK, Gone
<1>5. UNCHANGED <<held, epoch, inFlight>> /\ (Held' <=> Held)
  BY DEF Pick, Held, NoSnapshot
<1>6. ShapesOK' /\ EpochsOK'
  BY <1>4, <1>5 DEF EpochInvariant, ShapesOK, EpochsOK
<1>7. RemovalOK'
  BY <1>4, <1>5 DEF EpochInvariant, RemovalOK
<1> QED  BY <1>6, <1>7 DEF EpochInvariant

-----------------------------------------------------------------------------
(***************************************************************************)
(* The theorem.                                                            *)
(***************************************************************************)
LEMMA InitEpochs == Init => EpochInvariant
<1> SUFFICES ASSUME Init PROVE EpochInvariant
  OBVIOUS
<1>1. SnapshotOK(held) /\ held.epoch = 1 /\ epoch = 1 /\ inFlight = {}
  BY SnapshotShape DEF Init
<1>2. MirrorOK(mirror) /\ mirror.seen.epoch = 1
  BY DEF Init, MirrorOK
<1>3. Held
  BY <1>1, EpochOfNothing DEF Held
<1> QED  BY <1>1, <1>2, <1>3 DEF EpochInvariant, ShapesOK, EpochsOK, RemovalOK

LEMMA StepEpochs == EpochInvariant /\ [Next]_vars => EpochInvariant'
<1> SUFFICES ASSUME EpochInvariant, [Next]_vars PROVE EpochInvariant'
  OBVIOUS
<1>1. CASE Register              BY <1>1, RegisterKeeps
<1>2. CASE Update                BY <1>2, UpdateKeeps
<1>3. CASE Remove                BY <1>3, RemoveKeeps
<1>4. CASE \E result \in Results : Result(result)
                                 BY <1>4, ResultKeeps
<1>5. CASE NeutralResult         BY <1>5, NeutralResultKeeps
<1>6. CASE OperatorReset         BY <1>6, OperatorResetKeeps
<1>7. CASE RefreshSchedulerEntry BY <1>7, RefreshKeeps
<1>8. CASE SyncScheduler         BY <1>8, SyncKeeps
<1>9. CASE TimeAnswer            BY <1>9, Untouched DEF TimeAnswer
<1>10. CASE ApplyAnswer          BY <1>10, ApplyAnswerKeeps
<1>11. CASE Tick                 BY <1>11, Untouched DEF Tick
<1>12. CASE \E p \in inFlight : Deliver(p)
                                 BY <1>12, DeliverKeeps
<1>13. CASE \E shard \in PickModels : Pick(shard)
                                 BY <1>13, PickKeeps
<1>14. CASE UNCHANGED vars       BY <1>14, Untouched DEF vars
<1> QED
  BY <1>1, <1>2, <1>3, <1>4, <1>5, <1>6, <1>7, <1>8, <1>9, <1>10, <1>11, <1>12, <1>13, <1>14
  DEF Next

\* What is in flight, what the scheduler has seen and what the manager holds agree about the
\* epochs of the registrations, in every reachable state.
THEOREM EpochsAgree == Spec => []EpochInvariant
BY InitEpochs, StepEpochs, PTL DEF Spec

\* A removed credential stays out of every shard once its tombstone has arrived, for any
\* models, tokens and number of publications (Manager.Remove and the scheduler's tombstones).
THEOREM RemovedStaysRemoved == Spec => []NoResurrection
<1>1. EpochInvariant => NoResurrection
  BY DEF EpochInvariant, RemovalOK, NoResurrection, Gone
<1> QED  BY <1>1, EpochsAgree, PTL

-----------------------------------------------------------------------------
(***************************************************************************)
(* Types: what a credential and the states of its models can be.           *)
(***************************************************************************)
Statuses == {"active", "error"}
Errors == {"none", "unauthorized", "other"}
Reasons == {"", "quota", "credential_quota", "cloudflare challenge"}

Quotas == [exceeded : BOOLEAN, reason : Reasons, nextRecoverAt : Nat, backoffLevel : Nat]

ModelStates ==
  [unavailable : BOOLEAN, status : Statuses, lastError : Errors, nextRetryAfter : Nat,
   quota : Quotas]

\* The maps of model states, whose domain grows with the models that have served a request.
ModelMaps == UNION {[S -> ModelStates] : S \in SUBSET Models}

Auths ==
  [disabled : BOOLEAN, token : Tokens, expiry : Expiries, unavailable : BOOLEAN,
   status : Statuses, lastError : Errors, nextRetryAfter : Nat, quota : Quotas,
   models : ModelMaps]

\* A result that is a failure, of the model or of the credential.
Failures == {"unauthorized", "refused", "missing", "quota", "challenge", "transient"}

LEMMA Times ==
  /\ QuotaBase \in Nat /\ QuotaMax \in Nat /\ QuotaFloor \in Nat /\ QuotaCeiling \in Nat
  /\ TransientCooldown \in Nat /\ RefusedCooldown \in Nat /\ MissingCooldown \in Nat
  /\ \A t, u \in Nat : Later(t, u) \in Nat /\ Later(t, u) >= t /\ Later(t, u) >= u
                       /\ Later(t, u) \in {t, u}
  /\ Zero \in Nat /\ Zero = 0
BY CooldownAssumption DEF Later, Zero

LEMMA MapType ==
  /\ \A f \in ModelMaps : /\ DOMAIN f \subseteq Models /\ f = [m \in DOMAIN f |-> f[m]]
                          /\ \A m \in DOMAIN f : f[m] \in ModelStates
  /\ \A S \in SUBSET Models : [S -> ModelStates] \subseteq ModelMaps
BY DEF ModelMaps

LEMMA FreshTypes ==
  /\ NoQuota \in Quotas
  /\ resetModelState \in ModelStates
  /\ \A token \in Tokens, expiry \in Expiries : NewAuth(token, expiry) \in Auths
<1>1. NoQuota \in Quotas
  BY Times DEF NoQuota, Quotas, Reasons
<1>2. resetModelState \in ModelStates
  BY <1>1, Times DEF resetModelState, ModelStates, Statuses, Errors
<1>3. [m \in {} |-> resetModelState] \in ModelMaps
  BY MapType
<1>4. ASSUME NEW token \in Tokens, NEW expiry \in Expiries
      PROVE  NewAuth(token, expiry) \in Auths
  BY <1>1, <1>3, Times DEF NewAuth, Auths, Statuses, Errors
<1> QED  BY <1>1, <1>2, <1>4

-----------------------------------------------------------------------------
(***************************************************************************)
(* Types: the ladder, and what a failure leaves.                           *)
(***************************************************************************)
LEMMA Rung ==
  ASSUME NEW level \in Nat
  PROVE  nextQuotaCooldown(level).cooldown \in Nat /\ nextQuotaCooldown(level).level \in Nat
<1> DEFINE cooldown == QuotaBase * 2^level
<1>1. nextQuotaCooldown(level) = IF cooldown \in QuotaBase .. QuotaMax - 1
                                 THEN [cooldown |-> cooldown, level |-> level + 1]
                                 ELSE [cooldown |-> QuotaMax, level |-> level]
  BY DEF nextQuotaCooldown
<1> HIDE DEF cooldown
<1>2. QuotaBase \in Nat /\ QuotaMax \in Nat
  BY Times
<1> QED  BY <1>1, <1>2

\* The deadline after a 429 is a time, and never further away than the ceiling.
LEMMA WindowType ==
  ASSUME NEW quota \in Quotas, NEW hint \in Hints, NEW t \in Nat
  PROVE  LET w == QuotaWindow(quota, hint, t)
         IN  w.next \in Nat /\ w.level \in Nat /\ w.next <= t + QuotaCeiling
<1> DEFINE rung == nextQuotaCooldown(quota.backoffLevel)
           climbed == quotaCooldownAfterFailure(quota, t)
           asked == IF hint = NoHint THEN climbed
                    ELSE [next |-> t + Later(hint, QuotaFloor), level |-> quota.backoffLevel]
           kept == IF quota.exceeded THEN Later(asked.next, quota.nextRecoverAt) ELSE asked.next
<1>1. quota.nextRecoverAt \in Nat /\ quota.backoffLevel \in Nat
  BY DEF Quotas
<1>2. rung.cooldown \in Nat /\ rung.level \in Nat
  BY <1>1, Rung
<1>3. climbed = IF quota.nextRecoverAt > t
                THEN [next |-> quota.nextRecoverAt, level |-> quota.backoffLevel]
                ELSE [next |-> t + rung.cooldown, level |-> rung.level]
  BY DEF quotaCooldownAfterFailure
<1> HIDE DEF rung
<1>4. climbed.next \in Nat /\ climbed.level \in Nat
  BY <1>1, <1>2, <1>3
<1> HIDE DEF climbed
<1>5. hint # NoHint => hint \in Nat
  BY SchedulerAssumption
<1>6. hint # NoHint => Later(hint, QuotaFloor) \in Nat
  BY <1>5, Times
<1>7. asked.next \in Nat /\ asked.level \in Nat
  BY <1>1, <1>4, <1>6
<1>8. QuotaWindow(quota, hint, t) =
        IF CoolingDisabled THEN [next |-> Zero, level |-> quota.backoffLevel]
        ELSE [next |-> clampQuotaCooldown(kept, t), level |-> asked.level]
  BY DEF QuotaWindow, climbed, rung
<1> HIDE DEF asked
<1>9. kept \in Nat
  BY <1>1, <1>7, Times
<1> HIDE DEF kept
<1>10. clampQuotaCooldown(kept, t) \in Nat /\ clampQuotaCooldown(kept, t) <= t + QuotaCeiling
  BY <1>9, Times DEF clampQuotaCooldown
<1>11. CASE CoolingDisabled
  <2>1. QuotaWindow(quota, hint, t) = [next |-> Zero, level |-> quota.backoffLevel]
    BY <1>8, <1>11
  <2> QED  BY <1>1, <2>1, Times
<1>12. CASE ~CoolingDisabled
  <2>1. QuotaWindow(quota, hint, t) = [next |-> clampQuotaCooldown(kept, t), level |-> asked.level]
    BY <1>8, <1>12
  <2> QED  BY <1>7, <1>10, <2>1
<1> QED  BY <1>11, <1>12

LEMMA CloudflareType ==
  ASSUME NEW level \in Nat, NEW t \in Nat
  PROVE  LET w == nextCloudflareCooldown(level, t) IN w.next \in Nat /\ w.level \in Nat
<1> DEFINE rung == nextQuotaCooldown(level)
<1>1. rung.cooldown \in Nat /\ rung.level \in Nat
  BY Rung
<1>2. nextCloudflareCooldown(level, t) =
        IF CoolingDisabled THEN [next |-> Zero, level |-> level]
        ELSE [next |-> t + Later(rung.cooldown, QuotaFloor), level |-> rung.level]
  BY DEF nextCloudflareCooldown
<1> HIDE DEF rung
<1>3. Later(rung.cooldown, QuotaFloor) \in Nat
  BY <1>1, Times
<1> QED  BY <1>1, <1>2, <1>3, Times

LEMMA PenaltyType ==
  ASSUME NEW retry \in Nat, NEW quota \in Quotas, NEW kind \in Failures, NEW hint \in Hints,
         NEW t \in Nat
  PROVE  LET p == Penalty(retry, quota, kind, hint, t)
         IN  /\ p.retry \in Nat /\ p.quota \in Quotas
             /\ kind \notin {"quota", "challenge"} => p.quota = quota
             /\ kind \in {"quota", "challenge"} => p.quota.reason # "credential_quota"
<1> DEFINE window == QuotaWindow(quota, hint, t)
           gate == nextCloudflareCooldown(quota.backoffLevel, t)
           limited == [exceeded |-> TRUE, reason |-> "quota",
                       nextRecoverAt |-> window.next, backoffLevel |-> window.level]
           challenged == [exceeded |-> TRUE, reason |-> "cloudflare challenge",
                          nextRecoverAt |-> gate.next, backoffLevel |-> gate.level]
           Extended(next) ==
             IF next # Zero /\ retry > next /\ retry > t THEN retry ELSE next
<1>1. window.next \in Nat /\ window.level \in Nat
  BY WindowType
<1>2. gate.next \in Nat /\ gate.level \in Nat
  BY CloudflareType DEF Quotas
<1>3. /\ RefusedUntil(t) \in Nat /\ MissingUntil(t) \in Nat
      /\ recoverableFailureRetryAfter(hint, t) \in Nat
  <2>1. hint # NoHint => hint \in Nat
    BY SchedulerAssumption
  <2> QED  BY <2>1, Times DEF RefusedUntil, MissingUntil, recoverableFailureRetryAfter
<1>4. Penalty(retry, quota, kind, hint, t) =
        CASE kind \in {"unauthorized", "refused"} ->
               [retry |-> Extended(RefusedUntil(t)), quota |-> quota]
          [] kind = "missing" -> [retry |-> Extended(MissingUntil(t)), quota |-> quota]
          [] kind = "transient" ->
               [retry |-> Extended(recoverableFailureRetryAfter(hint, t)), quota |-> quota]
          [] kind = "quota" ->
               [retry |-> Extended(window.next), quota |-> limited]
          [] kind = "challenge" ->
               [retry |-> Extended(gate.next), quota |-> challenged]
  BY DEF Penalty
<1> HIDE DEF window, gate
<1>5. /\ limited \in Quotas /\ challenged \in Quotas
      /\ limited.reason # "credential_quota" /\ challenged.reason # "credential_quota"
  BY <1>1, <1>2 DEF Quotas, Reasons
<1>6. \A next \in Nat : Extended(next) \in Nat
  OBVIOUS
<1> HIDE DEF limited, challenged, Extended
<1>7. CASE kind \in {"unauthorized", "refused"}
  <2>1. Penalty(retry, quota, kind, hint, t) =
          [retry |-> Extended(RefusedUntil(t)), quota |-> quota]
    BY <1>4, <1>7
  <2> QED  BY <1>3, <1>6, <1>7, <2>1
<1>8. CASE kind = "missing"
  <2>1. Penalty(retry, quota, kind, hint, t) =
          [retry |-> Extended(MissingUntil(t)), quota |-> quota]
    BY <1>4, <1>8
  <2> QED  BY <1>3, <1>6, <1>8, <2>1
<1>9. CASE kind = "transient"
  <2>1. Penalty(retry, quota, kind, hint, t) =
          [retry |-> Extended(recoverableFailureRetryAfter(hint, t)), quota |-> quota]
    BY <1>4, <1>9
  <2> QED  BY <1>3, <1>6, <1>9, <2>1
<1>10. CASE kind = "quota"
  <2>1. Penalty(retry, quota, kind, hint, t) =
          [retry |-> Extended(window.next), quota |-> limited]
    BY <1>4, <1>10
  <2>2. Extended(window.next) \in Nat
    BY <1>1, <1>6
  <2> QED  BY <1>5, <1>10, <2>1, <2>2
<1>11. CASE kind = "challenge"
  <2>1. Penalty(retry, quota, kind, hint, t) =
          [retry |-> Extended(gate.next), quota |-> challenged]
    BY <1>4, <1>11
  <2>2. Extended(gate.next) \in Nat
    BY <1>2, <1>6
  <2> QED  BY <1>5, <1>11, <2>1, <2>2
<1> QED  BY <1>7, <1>8, <1>9, <1>10, <1>11 DEF Failures

LEMMA FailedType ==
  ASSUME NEW kind \in Failures, NEW hint \in Hints, NEW t \in Nat
  PROVE  /\ \A s \in ModelStates : Failed(s, kind, hint, t) \in ModelStates
         /\ \A a \in Auths :
              /\ Failed(a, kind, hint, t) \in Auths
              /\ Failed(a, kind, hint, t).disabled = a.disabled
              /\ kind \notin {"quota", "challenge"} =>
                   /\ Failed(a, kind, hint, t).quota.reason = a.quota.reason
                   /\ Failed(a, kind, hint, t).quota.nextRecoverAt = a.quota.nextRecoverAt
                   /\ a.quota.nextRecoverAt # 0 => Failed(a, kind, hint, t).quota = a.quota
              /\ kind \in {"quota", "challenge"} =>
                   Failed(a, kind, hint, t).quota.reason # "credential_quota"
<1>0. ErrorOf(kind) \in Errors
  BY DEF ErrorOf, Errors
<1>1. ASSUME NEW s \in ModelStates
      PROVE  Failed(s, kind, hint, t) \in ModelStates
  <2> DEFINE p == Penalty(s.nextRetryAfter, s.quota, kind, hint, t)
             f == [s EXCEPT !.unavailable = kind # "transient" \/ p.retry # Zero,
                            !.status = "error", !.lastError = ErrorOf(kind),
                            !.nextRetryAfter = p.retry, !.quota = p.quota]
  <2>1. p.retry \in Nat /\ p.quota \in Quotas
    BY PenaltyType DEF ModelStates
  <2>2. Failed(s, kind, hint, t) = Uncooled(f)
    BY DEF Failed
  <2> HIDE DEF p
  <2>3. f \in ModelStates
    BY <1>0, <2>1 DEF ModelStates, Statuses
  <2> HIDE DEF f
  <2>4. Uncooled(f) \in {f, [f EXCEPT !.unavailable = FALSE, !.quota.exceeded = FALSE]}
    BY DEF Uncooled
  <2>5. [f EXCEPT !.unavailable = FALSE, !.quota.exceeded = FALSE] \in ModelStates
    BY <2>3 DEF ModelStates, Quotas
  <2> QED  BY <2>2, <2>3, <2>4, <2>5
<1>2. ASSUME NEW a \in Auths
      PROVE  /\ Failed(a, kind, hint, t) \in Auths
             /\ Failed(a, kind, hint, t).disabled = a.disabled
             /\ kind \notin {"quota", "challenge"} =>
                   /\ Failed(a, kind, hint, t).quota.reason = a.quota.reason
                   /\ Failed(a, kind, hint, t).quota.nextRecoverAt = a.quota.nextRecoverAt
                   /\ a.quota.nextRecoverAt # 0 => Failed(a, kind, hint, t).quota = a.quota
             /\ kind \in {"quota", "challenge"} =>
                   Failed(a, kind, hint, t).quota.reason # "credential_quota"
  <2> DEFINE p == Penalty(a.nextRetryAfter, a.quota, kind, hint, t)
             f == [a EXCEPT !.unavailable = kind # "transient" \/ p.retry # Zero,
                            !.status = "error", !.lastError = ErrorOf(kind),
                            !.nextRetryAfter = p.retry, !.quota = p.quota]
             u == [f EXCEPT !.unavailable = FALSE, !.quota.exceeded = FALSE]
  <2>1. p.retry \in Nat /\ p.quota \in Quotas
        /\ (kind \notin {"quota", "challenge"} => p.quota = a.quota)
        /\ (kind \in {"quota", "challenge"} => p.quota.reason # "credential_quota")
    BY PenaltyType DEF Auths
  <2>2. Failed(a, kind, hint, t) = Uncooled(f)
    BY DEF Failed
  <2> HIDE DEF p
  <2>3. f \in Auths /\ f.quota = p.quota /\ f.disabled = a.disabled
    BY <1>0, <2>1 DEF Auths, Statuses
  <2> HIDE DEF f
  <2>4. Uncooled(f) = f \/ (Uncooled(f) = u /\ f.quota.nextRecoverAt = 0)
    BY DEF Uncooled, Zero
  <2>5. /\ u \in Auths /\ u.disabled = f.disabled
        /\ u.quota.reason = f.quota.reason /\ u.quota.nextRecoverAt = f.quota.nextRecoverAt
    BY <2>3 DEF Auths, Quotas
  <2> QED  BY <2>1, <2>2, <2>3, <2>4, <2>5
<1> QED  BY <1>1, <1>2

-----------------------------------------------------------------------------
(***************************************************************************)
(* Types: the least and the greatest of a credential's times and rungs.    *)
(***************************************************************************)
LEMMA SomethingIsLeast ==
  ASSUME NEW S \in SUBSET Nat, S # {}
  PROVE  \E x \in S : \A y \in S : x <= y
<1>1. PICK x \in S : \A y \in S : <<y, x>> \notin OpToRel(<, Nat)
  BY WFMin, NatLessThanWellFounded, Zenon
<1>2. \A y \in S : <<y, x>> \in Nat \X Nat /\ <<y, x>>[1] = y /\ <<y, x>>[2] = x
  OBVIOUS
<1>3. \A y \in S : ~(y < x)
  BY <1>1, <1>2 DEF OpToRel
<1> QED  BY <1>3

LEMMA LeastType ==
  ASSUME NEW S \in SUBSET Nat, S # {}
  PROVE  Min(S) \in S
BY SomethingIsLeast DEF Min

\* A finite set of numbers is bounded by one of its own: a least set without a greatest number
\* would have a lesser one.
LEMMA SomethingIsGreatest ==
  ASSUME NEW S \in SUBSET Nat, S # {}, IsFiniteSet(S)
  PROVE  \E x \in S : \A y \in S : x >= y
<1> DEFINE Great(T) == \E x \in T : \A y \in T : x >= y
           bad == {T \in FiniteSubsetsOf(Nat) : T # {} /\ ~Great(T)}
<1>1. SUFFICES ASSUME bad # {} PROVE FALSE
  BY DEF FiniteSubsetsOf
<1>2. bad \subseteq FiniteSubsetsOf(Nat)
  OBVIOUS
<1>3. PICK T \in bad : \A U \in bad : <<U, T>> \notin StrictSubsetOrdering(Nat)
  <2> HIDE DEF bad
  <2> QED  BY <1>1, <1>2, WFMin, FS_StrictSubsetOrderingWellFounded, Zenon
<1>4. T \in SUBSET Nat /\ IsFiniteSet(T) /\ T # {} /\ ~Great(T)
  BY DEF FiniteSubsetsOf
<1>5. PICK x \in T : TRUE
  BY <1>4
<1> DEFINE U == T \ {x}
<1>6. IsFiniteSet(U)
  BY <1>4, FS_RemoveElement
<1>7. U \subseteq T /\ U # T /\ U \in SUBSET Nat
  BY <1>4, <1>5
<1>8. <<U, T>> \in StrictSubsetOrdering(Nat)
  <2>1. <<U, T>> \in (SUBSET Nat) \X (SUBSET Nat) /\ <<U, T>>[1] = U /\ <<U, T>>[2] = T
    BY <1>4, <1>7
  <2> QED  BY <1>7, <2>1 DEF StrictSubsetOrdering
<1>9. U = {} \/ Great(U)
  BY <1>3, <1>6, <1>7, <1>8 DEF FiniteSubsetsOf
<1>10. CASE U = {}
  BY <1>4, <1>5, <1>10
<1>11. CASE Great(U)
  <2>1. PICK y \in U : \A z \in U : y >= z
    BY <1>11
  <2>2. x \in Nat /\ y \in Nat /\ y \in T /\ \A z \in T : z \in Nat /\ (z = x \/ z \in U)
    BY <1>4, <1>5, <1>7, <2>1
  <2>3. CASE x >= y
    BY <1>4, <1>5, <2>1, <2>2, <2>3
  <2>4. CASE y >= x
    BY <1>4, <2>1, <2>2, <2>4
  <2> QED  BY <2>2, <2>3, <2>4
<1> QED  BY <1>9, <1>10, <1>11

LEMMA GreatestType ==
  ASSUME NEW S \in SUBSET Nat, S # {}, IsFiniteSet(S)
  PROVE  Max(S) \in S
BY SomethingIsGreatest DEF Max

-----------------------------------------------------------------------------
(***************************************************************************)
(* Types: the credential as the aggregate of its models.                   *)
(***************************************************************************)
\* The states of a credential's models are finitely many, and so are their rungs.
LEMMA RungsAreFinite ==
  ASSUME NEW f \in ModelMaps, NEW S \in SUBSET {f[m] : m \in DOMAIN f}
  PROVE  IsFiniteSet({s.quota.backoffLevel : s \in S})
<1> DEFINE T == {s.quota.backoffLevel : s \in S}
           D == {m \in DOMAIN f : f[m] \in S}
           g == [m \in D |-> f[m].quota.backoffLevel]
<1>1. IsFiniteSet(D)
  <2>1. D \in SUBSET Models
    BY MapType
  <2> HIDE DEF D
  <2> QED  BY <2>1, CooldownAssumption, FS_Subset
<1>2. g \in Surjection(D, T)
  <2>1. g \in [D -> T]
    OBVIOUS
  <2>2. \A x \in T : \E m \in D : g[m] = x
    OBVIOUS
  <2> HIDE DEF g, D, T
  <2> QED  BY <2>1, <2>2 DEF Surjection
<1> HIDE DEF g, D
<1> QED  BY <1>1, <1>2, FS_Surjection

LEMMA AggregatedQuotaType ==
  ASSUME NEW quota \in Quotas, NEW f \in ModelMaps, NEW t \in Nat
  PROVE  LET q == AggregatedQuota(quota, {f[m] : m \in DOMAIN f}, t)
         IN  q \in Quotas /\ (q.reason = "credential_quota" => q = quota)
<1> DEFINE states == {f[m] : m \in DOMAIN f}
           limited == {s \in states : s.quota.exceeded}
           recovers == {s.quota.nextRecoverAt : s \in limited} \ {Zero}
           earliest == IF recovers = {} THEN Zero ELSE Min(recovers)
           rungs == {s.quota.backoffLevel : s \in limited}
           merged == [exceeded |-> TRUE, reason |-> "quota",
                      nextRecoverAt |-> Later(earliest, quota.nextRecoverAt),
                      backoffLevel |-> Max(rungs)]
<1>1. AggregatedQuota(quota, states, t) =
        IF limited # {} THEN merged ELSE IF ActiveQuota(quota, t) THEN quota ELSE NoQuota
  BY DEF AggregatedQuota
<1>2. states \subseteq ModelStates /\ limited \subseteq states
  BY MapType
<1>3. limited # {} => merged \in Quotas
  <2> SUFFICES ASSUME limited # {} PROVE merged \in Quotas
    OBVIOUS
  <2>1. recovers \in SUBSET Nat /\ rungs \in SUBSET Nat
    BY <1>2 DEF ModelStates, Quotas
  <2>2. IsFiniteSet(rungs)
    BY RungsAreFinite
  <2>3. rungs # {}
    OBVIOUS
  <2> HIDE DEF rungs, recovers
  <2>4. earliest \in Nat
    BY <2>1, LeastType, Times
  <2>5. Max(rungs) \in Nat
    BY <2>1, <2>2, <2>3, GreatestType
  <2> HIDE DEF earliest
  <2>6. Later(earliest, quota.nextRecoverAt) \in Nat
    BY <2>4, Times DEF Quotas
  <2> QED  BY <2>5, <2>6 DEF Quotas, Reasons
<1>4. merged.reason = "quota" /\ NoQuota.reason = ""
  BY DEF NoQuota
<1> HIDE DEF merged, limited, states
<1>5. AggregatedQuota(quota, states, t) \in Quotas
      /\ (AggregatedQuota(quota, states, t).reason = "credential_quota"
            => AggregatedQuota(quota, states, t) = quota)
  BY <1>1, <1>3, <1>4, FreshTypes
<1> QED  BY <1>5 DEF states

LEMMA ExpireType ==
  ASSUME NEW s \in ModelStates, NEW t \in Nat
  PROVE  Expire(s, t) \in ModelStates
BY DEF Expire, ModelStates, Zero

LEMMA ClearedType ==
  ASSUME NEW a \in Auths
  PROVE  LET c == clearAggregatedAvailability(a)
         IN  /\ c \in Auths /\ c.disabled = a.disabled /\ c.models = a.models
             /\ c.quota = NoQuota
BY FreshTypes, Times DEF clearAggregatedAvailability, Auths

\* An aggregation keeps a quota of the credential's own, and makes none.
LEMMA AggregatedType ==
  ASSUME NEW a \in Auths, NEW t \in Nat
  PROVE  LET u == updateAggregatedAvailability(a, t)
         IN  /\ u \in Auths /\ u.disabled = a.disabled
             /\ u.quota.reason = "credential_quota" => u.quota = a.quota
             /\ CredentialQuota(a, t) => u.quota = a.quota
<1> DEFINE known == DOMAIN a.models
           states == {a.models[m] : m \in known}
           all == states = {s \in states : Down(s, t)}
           expired == [m \in known |-> Expire(a.models[m], t)]
           retry == IF all THEN Min({s.nextRetryAfter : s \in states}) ELSE Zero
           quota == AggregatedQuota(a.quota, states, t)
           held1 == [a EXCEPT !.unavailable = TRUE]
           merged == [a EXCEPT !.models = expired, !.unavailable = all,
                               !.nextRetryAfter = retry, !.quota = quota]
           u == updateAggregatedAvailability(a, t)
<1>1. u = IF CredentialQuota(a, t) THEN held1
          ELSE IF known = {} THEN clearAggregatedAvailability(a) ELSE merged
  BY DEF updateAggregatedAvailability
<1>2. held1 \in Auths /\ held1.disabled = a.disabled /\ held1.quota = a.quota
  BY DEF Auths
<1>3. NoQuota.reason = ""
  BY DEF NoQuota
<1>4. ASSUME known # {}
      PROVE  /\ merged \in Auths /\ merged.disabled = a.disabled
             /\ merged.quota.reason = "credential_quota" => merged.quota = a.quota
  <2>1. a.models \in ModelMaps /\ a.quota \in Quotas
    BY DEF Auths
  <2>2. known \in SUBSET Models /\ \A m \in known : a.models[m] \in ModelStates
    BY <2>1, MapType
  <2>3. expired \in ModelMaps
    <3>1. \A m \in known : Expire(a.models[m], t) \in ModelStates
      BY <2>2, ExpireType
    <3>2. expired \in [known -> ModelStates]
      BY <3>1
    <3> HIDE DEF expired, known
    <3> QED  BY <2>2, <3>2, MapType
  <2>4. retry \in Nat
    <3> DEFINE times == {s.nextRetryAfter : s \in states}
    <3>1. times # {}
      BY <1>4
    <3>2. times \in SUBSET Nat
      BY <2>2 DEF ModelStates
    <3> HIDE DEF times, all
    <3>3. Min(times) \in Nat
      BY <3>1, <3>2, LeastType
    <3> QED  BY <3>3, Times DEF times
  <2>5. quota \in Quotas /\ (quota.reason = "credential_quota" => quota = a.quota)
    BY <2>1, AggregatedQuotaType
  <2>6. all \in BOOLEAN
    OBVIOUS
  <2> HIDE DEF expired, all, retry, quota, known
  <2> QED  BY <2>3, <2>4, <2>5, <2>6 DEF Auths
<1> HIDE DEF held1, merged, u, known
<1>5. CASE CredentialQuota(a, t)
  <2>1. u = held1
    BY <1>1, <1>5
  <2> QED  BY <1>2, <1>5, <2>1 DEF u
<1>6. CASE ~CredentialQuota(a, t) /\ known = {}
  <2>1. u = clearAggregatedAvailability(a)
    BY <1>1, <1>6
  <2> QED  BY <1>3, <1>6, <2>1, ClearedType DEF u
<1>7. CASE ~CredentialQuota(a, t) /\ known # {}
  <2>1. u = merged
    BY <1>1, <1>7
  <2> QED  BY <1>4, <1>7, <2>1 DEF u
<1> QED  BY <1>5, <1>6, <1>7

-----------------------------------------------------------------------------
(***************************************************************************)
(* What the manager's operations keep of a credential: its type, the       *)
(* ceiling of a quota of its own, and that quota itself.                   *)
(***************************************************************************)
\* A quota of the credential's own is never further away than the ceiling ...
Capped(auth, t) ==
  auth.quota.reason = "credential_quota" => auth.quota.nextRecoverAt <= t + QuotaCeiling

\* ... and holds in b as long as it held in a.
Outlasts(a, b, t) ==
  CredentialQuota(a, t) =>
    CredentialQuota(b, t) /\ b.quota.nextRecoverAt >= a.quota.nextRecoverAt

LEMMA SameQuota ==
  ASSUME NEW a \in Auths, NEW b \in Auths, NEW t, b.quota = a.quota
  PROVE  (Capped(a, t) => Capped(b, t)) /\ Outlasts(a, b, t)
BY DEF Capped, Outlasts, CredentialQuota, ActiveQuota, Auths, Quotas

LEMMA NoQuotaCapped ==
  ASSUME NEW a, a.quota = NoQuota, NEW t
  PROVE  Capped(a, t)
<1>1. NoQuota.reason # "credential_quota"
  BY DEF NoQuota
<1> QED  BY <1>1 DEF Capped

LEMMA ForgetType ==
  ASSUME NEW a \in Auths, NEW t \in Nat
  PROVE  LET f == ForgetError(a, t)
         IN  f \in Auths /\ f.quota = a.quota /\ f.disabled = a.disabled
BY DEF ForgetError, Auths, Statuses, Errors

\* An aggregation after which the credential's own quota is the one it had.
LEMMA AggregatedKeeps ==
  ASSUME NEW a \in Auths, NEW t \in Nat, Capped(a, t)
  PROVE  LET u == updateAggregatedAvailability(a, t)
         IN  u \in Auths /\ u.disabled = a.disabled /\ Capped(u, t) /\ Outlasts(a, u, t)
<1> DEFINE u == updateAggregatedAvailability(a, t)
<1>1. /\ u \in Auths /\ u.disabled = a.disabled
      /\ u.quota.reason = "credential_quota" => u.quota = a.quota
      /\ CredentialQuota(a, t) => u.quota = a.quota
  BY AggregatedType
<1> HIDE DEF u
<1>2. CASE u.quota = a.quota
  BY <1>1, <1>2, SameQuota DEF u
<1>3. CASE u.quota # a.quota
  BY <1>1, <1>3 DEF u, Capped, Outlasts
<1> QED  BY <1>2, <1>3

LEMMA ModelsReplaced ==
  ASSUME NEW a \in Auths, NEW f \in ModelMaps
  PROVE  LET b == [a EXCEPT !.models = f]
         IN  b \in Auths /\ b.quota = a.quota /\ b.disabled = a.disabled
BY DEF Auths

LEMMA ScopeQuotaKeeps ==
  ASSUME NEW a \in Auths, NEW m, NEW w, w.next \in Nat, w.level \in Nat, NEW t \in Nat,
         Capped(a, t)
  PROVE  LET s == ScopeQuota(a, m, w, t)
         IN  s \in Auths /\ s.disabled = a.disabled /\ Capped(s, t) /\ Outlasts(a, s, t)
<1> DEFINE Until(quota) ==
             clampQuotaCooldown(
               IF quota.exceeded THEN Later(w.next, quota.nextRecoverAt) ELSE w.next, t)
           Limit(quota) ==
             [exceeded |-> TRUE, reason |-> "credential_quota",
              nextRecoverAt |-> Until(quota), backoffLevel |-> w.level]
           Sibling(s) ==
             [s EXCEPT !.unavailable = TRUE, !.status = "error",
                       !.nextRetryAfter = Later(Until(s.quota), s.nextRetryAfter),
                       !.quota = Limit(s.quota)]
           until == clampQuotaCooldown(Later(w.next, a.quota.nextRecoverAt), t)
           models == [n \in DOMAIN a.models |->
                        IF n = m THEN a.models[n] ELSE Sibling(a.models[n])]
           q == [a.quota EXCEPT !.exceeded = TRUE, !.reason = "credential_quota",
                                !.nextRecoverAt = until]
           s == [a EXCEPT !.models = models, !.unavailable = TRUE,
                          !.nextRetryAfter = until, !.quota = q]
<1>1. \A n \in Nat : /\ clampQuotaCooldown(n, t) \in Nat
                     /\ clampQuotaCooldown(n, t) <= t + QuotaCeiling
                     /\ \A k \in Nat : k <= n /\ k <= t + QuotaCeiling
                                         => k <= clampQuotaCooldown(n, t)
  BY Times DEF clampQuotaCooldown
<1>2. \A quota \in Quotas : Until(quota) \in Nat
  <2> TAKE quota \in Quotas
  <2>1. quota.nextRecoverAt \in Nat
    BY DEF Quotas
  <2>2. (IF quota.exceeded THEN Later(w.next, quota.nextRecoverAt) ELSE w.next) \in Nat
    BY <2>1, Times
  <2> QED  BY <1>1, <2>2
<1> HIDE DEF Until
<1>3. \A quota \in Quotas : Limit(quota) \in Quotas
  BY <1>2 DEF Quotas, Reasons
<1> HIDE DEF Limit
<1>4. ASSUME NEW n \in ModelStates PROVE Sibling(n) \in ModelStates
  <2>1. n.quota \in Quotas /\ n.nextRetryAfter \in Nat
    BY DEF ModelStates
  <2>2. Limit(n.quota) \in Quotas /\ Later(Until(n.quota), n.nextRetryAfter) \in Nat
    BY <1>2, <1>3, <2>1, Times
  <2> QED  BY <2>2 DEF ModelStates, Statuses
<1> HIDE DEF Sibling
<1>5. a.quota \in Quotas /\ a.quota.nextRecoverAt \in Nat /\ a.models \in ModelMaps
  BY DEF Auths, Quotas
<1>6. models \in ModelMaps
  <2>1. DOMAIN a.models \in SUBSET Models /\ \A n \in DOMAIN a.models : a.models[n] \in ModelStates
    BY <1>5, MapType
  <2>2. \A n \in DOMAIN a.models : models[n] \in ModelStates
    BY <1>4, <2>1
  <2>3. models \in [DOMAIN a.models -> ModelStates]
    BY <2>2
  <2> HIDE DEF models
  <2> QED  BY <2>1, <2>3, MapType
<1>7. /\ Later(w.next, a.quota.nextRecoverAt) \in Nat
      /\ a.quota.nextRecoverAt <= Later(w.next, a.quota.nextRecoverAt)
  BY <1>5, Times
<1>8. /\ until \in Nat /\ until <= t + QuotaCeiling
      /\ a.quota.nextRecoverAt <= t + QuotaCeiling => a.quota.nextRecoverAt <= until
  BY <1>1, <1>5, <1>7
<1>9. ScopeQuota(a, m, w, t) = s
  BY DEF ScopeQuota, Sibling, Until, Limit
<1> HIDE DEF models, until
<1>10. q \in Quotas /\ q.exceeded /\ q.reason = "credential_quota" /\ q.nextRecoverAt = until
  BY <1>5, <1>8 DEF Quotas, Reasons
<1> HIDE DEF q
<1>11. s \in Auths /\ s.quota = q /\ s.disabled = a.disabled
  BY <1>6, <1>8, <1>10 DEF Auths
<1> HIDE DEF s
<1>12. Capped(s, t)
  BY <1>8, <1>10, <1>11 DEF Capped
<1>13. Outlasts(a, s, t)
  <2> SUFFICES ASSUME CredentialQuota(a, t) PROVE Outlasts(a, s, t)
    BY DEF Outlasts
  <2>1. a.quota.nextRecoverAt > t /\ a.quota.nextRecoverAt <= t + QuotaCeiling
    BY DEF CredentialQuota, ActiveQuota, Capped
  <2> QED  BY <1>5, <1>8, <1>10, <1>11, <2>1 DEF Outlasts, CredentialQuota, ActiveQuota
<1> QED  BY <1>9, <1>11, <1>12, <1>13

LEMMA ResultType ==
  ASSUME NEW result \in Results
  PROVE  /\ result.model \in Models \cup {NoModel}
         /\ result.kind \in Failures \cup {"success", "skipped"}
         /\ result.hint \in Hints
<1>1. PICK kind \in Kinds :
        \/ result \in [model : ResultModels, kind : {kind}, hint : Hints, scope : Scopes]
        \/ result \in [model : ResultModels, kind : {kind}, hint : Hints, scope : {FALSE}]
        \/ result \in [model : ResultModels, kind : {kind}, hint : {NoHint}, scope : {FALSE}]
  BY DEF Results
<1>2. result.model \in ResultModels /\ result.kind \in Kinds /\ result.hint \in Hints
  BY <1>1, SchedulerAssumption
<1> QED  BY <1>2, SchedulerAssumption DEF Failures

LEMMA ModelFailedKeeps ==
  ASSUME NEW a \in Auths, NEW result \in Results, result.model \in Models,
         result.kind \in Failures, NEW t \in Nat, Capped(a, t)
  PROVE  LET f == ModelFailed(a, result, t)
         IN  f \in Auths /\ f.disabled = a.disabled /\ Capped(f, t) /\ Outlasts(a, f, t)
<1> DEFINE m == result.model
           state == ensureModelState(a, m)
           models == [n \in DOMAIN a.models \cup {m} |->
                        IF n = m THEN Failed(state, result.kind, result.hint, t)
                        ELSE a.models[n]]
           failed == [a EXCEPT !.models = models, !.lastError = ErrorOf(result.kind),
                               !.status = "error"]
           window == QuotaWindow(state.quota, result.hint, t)
           scoped == ScopeQuota(failed, m, window, t)
<1>1. a.models \in ModelMaps
  BY DEF Auths
<1>2. DOMAIN a.models \in SUBSET Models /\ \A n \in DOMAIN a.models : a.models[n] \in ModelStates
  BY <1>1, MapType
<1>3. state \in ModelStates
  BY <1>2, FreshTypes DEF ensureModelState
<1>4. result.hint \in Hints
  BY ResultType
<1> HIDE DEF state
<1>5. Failed(state, result.kind, result.hint, t) \in ModelStates
  BY <1>3, <1>4, FailedType
<1>6. models \in ModelMaps
  <2>1. \A n \in DOMAIN a.models \cup {m} : models[n] \in ModelStates
    BY <1>2, <1>5
  <2>2. DOMAIN a.models \cup {m} \in SUBSET Models
    BY <1>2
  <2>3. models \in [DOMAIN a.models \cup {m} -> ModelStates]
    BY <2>1
  <2> HIDE DEF models
  <2> QED  BY <2>2, <2>3, MapType
<1>7. window.next \in Nat /\ window.level \in Nat
  BY <1>3, <1>4, WindowType DEF ModelStates
<1>8. ModelFailed(a, result, t) = updateAggregatedAvailability(scoped, t)
      \/ ModelFailed(a, result, t) = updateAggregatedAvailability(failed, t)
  BY DEF ModelFailed, state
<1> HIDE DEF models, window
<1>9. failed \in Auths /\ failed.quota = a.quota /\ failed.disabled = a.disabled
  BY <1>6 DEF Auths, Statuses, ErrorOf, Errors
<1> HIDE DEF failed
<1>10. Capped(failed, t) /\ Outlasts(a, failed, t)
  BY <1>9, SameQuota
<1>11. scoped \in Auths /\ scoped.disabled = a.disabled /\ Capped(scoped, t)
       /\ Outlasts(failed, scoped, t)
  BY <1>7, <1>9, <1>10, ScopeQuotaKeeps
<1> HIDE DEF scoped
<1>12. ASSUME NEW b \in Auths, b.disabled = a.disabled, Capped(b, t),
              CredentialQuota(a, t) =>
                CredentialQuota(b, t) /\ b.quota.nextRecoverAt >= a.quota.nextRecoverAt
       PROVE  LET u == updateAggregatedAvailability(b, t)
              IN  u \in Auths /\ u.disabled = a.disabled /\ Capped(u, t) /\ Outlasts(a, u, t)
  <2> DEFINE u == updateAggregatedAvailability(b, t)
  <2>1. u \in Auths /\ u.disabled = b.disabled /\ Capped(u, t) /\ Outlasts(b, u, t)
    BY <1>12, AggregatedKeeps
  <2> HIDE DEF u
  <2>2. /\ a.quota.nextRecoverAt \in Nat /\ b.quota.nextRecoverAt \in Nat
        /\ u.quota.nextRecoverAt \in Nat
    BY <2>1 DEF Auths, Quotas
  <2> QED  BY <1>12, <2>1, <2>2 DEF Outlasts, u
<1>13. Outlasts(a, scoped, t)
  <2>1. /\ a.quota.nextRecoverAt \in Nat /\ failed.quota.nextRecoverAt \in Nat
        /\ scoped.quota.nextRecoverAt \in Nat
    BY <1>9, <1>11 DEF Auths, Quotas
  <2> QED  BY <1>10, <1>11, <2>1 DEF Outlasts
<1>14. CASE ModelFailed(a, result, t) = updateAggregatedAvailability(scoped, t)
  BY <1>11, <1>12, <1>13, <1>14 DEF Outlasts
<1>15. CASE ModelFailed(a, result, t) = updateAggregatedAvailability(failed, t)
  BY <1>9, <1>10, <1>12, <1>15 DEF Outlasts
<1> QED  BY <1>8, <1>14, <1>15

LEMMA ModelSucceededType ==
  ASSUME NEW a \in Auths, NEW m \in Models, NEW t \in Nat, Capped(a, t)
  PROVE  LET s == ModelSucceeded(a, m, t)
         IN  s \in Auths /\ s.disabled = a.disabled /\ Capped(s, t)
<1> DEFINE models == [n \in DOMAIN a.models \cup {m} |->
                        IF n = m THEN resetModelState ELSE a.models[n]]
           b == [a EXCEPT !.models = models]
           u == updateAggregatedAvailability(b, t)
           s == ForgetError(u, t)
<1>1. a.models \in ModelMaps
  BY DEF Auths
<1>2. DOMAIN a.models \in SUBSET Models /\ \A n \in DOMAIN a.models : a.models[n] \in ModelStates
  BY <1>1, MapType
<1>3. models \in ModelMaps
  <2>1. \A n \in DOMAIN a.models \cup {m} : models[n] \in ModelStates
    BY <1>2, FreshTypes
  <2>2. models \in [DOMAIN a.models \cup {m} -> ModelStates]
    BY <2>1
  <2>3. DOMAIN a.models \cup {m} \in SUBSET Models
    BY <1>2
  <2> HIDE DEF models
  <2> QED  BY <2>2, <2>3, MapType
<1>4. ModelSucceeded(a, m, t) = s
  BY DEF ModelSucceeded
<1> HIDE DEF models
<1>5. b \in Auths /\ b.quota = a.quota /\ b.disabled = a.disabled
  BY <1>3, ModelsReplaced
<1> HIDE DEF b
<1>6. Capped(b, t)
  BY <1>5, SameQuota
<1>7. u \in Auths /\ u.disabled = b.disabled /\ Capped(u, t)
  BY <1>5, <1>6, AggregatedKeeps
<1> HIDE DEF u
<1>8. s \in Auths /\ s.quota = u.quota /\ s.disabled = u.disabled
  BY <1>7, ForgetType
<1> HIDE DEF s
<1>9. Capped(s, t)
  BY <1>7, <1>8, SameQuota
<1> QED  BY <1>4, <1>5, <1>7, <1>8, <1>9

\* A result keeps the types and the ceiling; a quota of the credential's own outlasts it unless a
\* request without a model was answered with a quota.
LEMMA MarkResultKeeps ==
  ASSUME NEW a \in Auths, NEW result \in Results, NEW t \in Nat, Capped(a, t)
  PROVE  LET r == MarkResult(a, result, t)
         IN  /\ r \in Auths /\ r.disabled = a.disabled /\ Capped(r, t)
             /\ \/ result.model = NoModel /\ result.kind \in {"quota", "challenge"}
                \/ Outlasts(a, r, t)
<1> DEFINE r == MarkResult(a, result, t)
<1>1. /\ result.model \in Models \cup {NoModel} /\ result.hint \in Hints
      /\ result.kind \in Failures \cup {"success", "skipped"}
  BY ResultType
<1>2. CASE result.kind = "skipped"
  <2>1. r = a
    BY <1>2 DEF MarkResult
  <2> QED  BY <2>1, SameQuota
<1>3. CASE result.kind = "success"
  <2>1. CASE a.quota.reason = "credential_quota" /\ a.quota.nextRecoverAt > t
    <3>1. r = a
      BY <1>3, <2>1 DEF MarkResult
    <3> QED  BY <3>1, SameQuota
  <2>2. CASE ~(a.quota.reason = "credential_quota" /\ a.quota.nextRecoverAt > t)
    <3>1. Outlasts(a, r, t)
      BY <2>2 DEF Outlasts, CredentialQuota, ActiveQuota
    <3>2. CASE result.model = NoModel
      <4>1. r = clearAuthStateOnSuccess(a)
        BY <1>3, <2>2, <3>2 DEF MarkResult
      <4> DEFINE c == clearAggregatedAvailability(a)
      <4>2. r = [c EXCEPT !.status = "active", !.lastError = "none"]
        BY <4>1 DEF clearAuthStateOnSuccess
      <4>3. c \in Auths /\ c.disabled = a.disabled /\ c.quota = NoQuota
        BY ClearedType
      <4> HIDE DEF c, r
      <4>4. r \in Auths /\ r.disabled = a.disabled /\ r.quota = NoQuota
        BY <4>2, <4>3 DEF Auths, Statuses, Errors
      <4> QED  BY <3>1, <4>4, NoQuotaCapped DEF r
    <3>3. CASE result.model # NoModel
      <4>1. r = ModelSucceeded(a, result.model, t)
        BY <1>3, <2>2, <3>3 DEF MarkResult
      <4> HIDE DEF r
      <4>2. r \in Auths /\ r.disabled = a.disabled /\ Capped(r, t)
        BY <1>1, <3>3, <4>1, ModelSucceededType
      <4> QED  BY <3>1, <4>2 DEF r
    <3> QED  BY <3>2, <3>3
  <2> QED  BY <2>1, <2>2
<1>4. CASE result.kind \in Failures
  <2>1. result.kind \notin {"success", "skipped"}
    BY <1>4 DEF Failures
  <2>2. CASE result.model # NoModel
    <3>1. r = ModelFailed(a, result, t)
      BY <2>1, <2>2 DEF MarkResult
    <3> HIDE DEF r
    <3>2. r \in Auths /\ r.disabled = a.disabled /\ Capped(r, t) /\ Outlasts(a, r, t)
      BY <1>1, <1>4, <2>2, <3>1, ModelFailedKeeps
    <3> QED  BY <3>2 DEF r
  <2>3. CASE result.model = NoModel
    <3>1. r = Failed(a, result.kind, result.hint, t)
      BY <2>1, <2>3 DEF MarkResult
    <3> HIDE DEF r
    <3>2. /\ r \in Auths /\ r.disabled = a.disabled
          /\ result.kind \notin {"quota", "challenge"} =>
               /\ r.quota.reason = a.quota.reason
               /\ r.quota.nextRecoverAt = a.quota.nextRecoverAt
               /\ a.quota.nextRecoverAt # 0 => r.quota = a.quota
          /\ result.kind \in {"quota", "challenge"} => r.quota.reason # "credential_quota"
      BY <1>1, <1>4, <3>1, FailedType
    <3>3. Capped(r, t)
      BY <3>2 DEF Capped
    <3>4. CASE result.kind \in {"quota", "challenge"}
      BY <2>3, <3>2, <3>3, <3>4 DEF r
    <3>5. CASE result.kind \notin {"quota", "challenge"}
      <4>1. a.quota.nextRecoverAt # 0 => Outlasts(a, r, t)
        BY <3>2, <3>5, SameQuota
      <4>2. a.quota.nextRecoverAt = 0 => Outlasts(a, r, t)
        BY DEF Outlasts, CredentialQuota, ActiveQuota
      <4> QED  BY <3>2, <3>3, <4>1, <4>2 DEF r
    <3> QED  BY <3>4, <3>5
  <2> QED  BY <2>2, <2>3
<1> QED  BY <1>1, <1>2, <1>3, <1>4

-----------------------------------------------------------------------------
(***************************************************************************)
(* The other operations of the manager.                                    *)
(***************************************************************************)
LEMMA LiftKeeps ==
  ASSUME NEW a \in Auths, NEW keep, NEW t \in Nat
  PROVE  LET l == liftQuotaCooldownForAuth(a, keep, t)
         IN  l \in Auths /\ l.disabled = a.disabled /\ Capped(l, t)
<1> DEFINE cleared == clearAggregatedAvailability(a)
           models == [m \in DOMAIN cleared.models |->
                        IF m \in keep THEN cleared.models[m] ELSE resetModelState]
           lifted == [cleared EXCEPT !.models = models]
           u == updateAggregatedAvailability(lifted, t)
           b == IF DOMAIN a.models = {} THEN lifted ELSE u
<1>1. liftQuotaCooldownForAuth(a, keep, t) = ForgetError(b, t)
  BY DEF liftQuotaCooldownForAuth
<1>2. cleared \in Auths /\ cleared.disabled = a.disabled /\ cleared.quota = NoQuota
  BY ClearedType
<1> HIDE DEF cleared
<1>3. models \in ModelMaps
  <2>1. /\ DOMAIN cleared.models \in SUBSET Models
        /\ \A n \in DOMAIN cleared.models : cleared.models[n] \in ModelStates
    BY <1>2, MapType DEF Auths
  <2>2. \A n \in DOMAIN cleared.models : models[n] \in ModelStates
    BY <2>1, FreshTypes
  <2>3. models \in [DOMAIN cleared.models -> ModelStates]
    BY <2>2
  <2> HIDE DEF models
  <2> QED  BY <2>1, <2>3, MapType
<1> HIDE DEF models
<1>4. lifted \in Auths /\ lifted.disabled = a.disabled /\ lifted.quota = NoQuota
  BY <1>2, <1>3, ModelsReplaced
<1> HIDE DEF lifted
<1>5. Capped(lifted, t)
  BY <1>4, NoQuotaCapped
<1>6. u \in Auths /\ u.disabled = a.disabled /\ Capped(u, t)
  BY <1>4, <1>5, AggregatedKeeps
<1> HIDE DEF u
<1>7. b \in Auths /\ b.disabled = a.disabled /\ Capped(b, t)
  BY <1>4, <1>5, <1>6
<1> HIDE DEF b
<1>8. LET f == ForgetError(b, t) IN f \in Auths /\ f.disabled = b.disabled /\ f.quota = b.quota
  BY <1>7, ForgetType
<1> QED  BY <1>1, <1>7, <1>8, SameQuota

LEMMA ShortenKeeps ==
  ASSUME NEW a \in Auths, NEW resetAt \in Nat, NEW t \in Nat, Capped(a, t)
  PROVE  LET s == shortenQuotaCooldownForAuth(a, resetAt)
         IN  s \in Auths /\ s.disabled = a.disabled /\ Capped(s, t)
<1> DEFINE Sooner(r) ==
             [r EXCEPT
               !.quota.nextRecoverAt = IF r.quota.exceeded /\ @ > resetAt THEN resetAt ELSE @,
               !.nextRetryAfter = IF @ > resetAt THEN resetAt ELSE @]
           models == [m \in DOMAIN Sooner(a).models |-> Sooner(Sooner(a).models[m])]
<1>1. shortenQuotaCooldownForAuth(a, resetAt) = [Sooner(a) EXCEPT !.models = models]
  BY DEF shortenQuotaCooldownForAuth
<1>2. \A n \in ModelStates : Sooner(n) \in ModelStates
  BY DEF ModelStates, Quotas
<1>3. /\ Sooner(a) \in Auths /\ Sooner(a).disabled = a.disabled
      /\ Sooner(a).quota.reason = a.quota.reason
      /\ Sooner(a).quota.nextRecoverAt <= a.quota.nextRecoverAt
  <2> DEFINE at == IF a.quota.exceeded /\ a.quota.nextRecoverAt > resetAt
                   THEN resetAt ELSE a.quota.nextRecoverAt
             retry == IF a.nextRetryAfter > resetAt THEN resetAt ELSE a.nextRetryAfter
             q == [a.quota EXCEPT !.nextRecoverAt = at]
  <2>1. a.quota \in Quotas /\ a.nextRetryAfter \in Nat /\ a.quota.nextRecoverAt \in Nat
    BY DEF Auths, Quotas
  <2>2. at \in Nat /\ at <= a.quota.nextRecoverAt /\ retry \in Nat
    BY <2>1
  <2>3. Sooner(a) = [a EXCEPT !.quota = q, !.nextRetryAfter = retry]
    BY DEF Auths
  <2> HIDE DEF Sooner, at, retry
  <2>4. q \in Quotas /\ q.reason = a.quota.reason /\ q.nextRecoverAt = at
    BY <2>1, <2>2 DEF Quotas
  <2> HIDE DEF q
  <2>5. /\ Sooner(a) \in Auths /\ Sooner(a).disabled = a.disabled /\ Sooner(a).quota = q
    BY <2>2, <2>3, <2>4 DEF Auths
  <2> QED  BY <2>2, <2>4, <2>5
<1> DEFINE b == Sooner(a)
<1>4. b \in Auths /\ b.disabled = a.disabled /\ Capped(b, t)
  <2>1. b.quota.nextRecoverAt \in Nat /\ a.quota.nextRecoverAt \in Nat /\ t + QuotaCeiling \in Nat
    BY <1>3, Times DEF Auths, Quotas
  <2> HIDE DEF Sooner
  <2> QED  BY <1>3, <2>1 DEF Capped
<1> HIDE DEF b
<1>5. models \in ModelMaps
  <2> HIDE DEF Sooner
  <2>1. /\ DOMAIN b.models \in SUBSET Models
        /\ \A n \in DOMAIN b.models : b.models[n] \in ModelStates
    BY <1>4, MapType DEF Auths
  <2>2. \A n \in DOMAIN b.models : models[n] \in ModelStates
    BY <1>2, <2>1 DEF b
  <2>3. models \in [DOMAIN b.models -> ModelStates]
    BY <2>2 DEF b
  <2> HIDE DEF models
  <2> QED  BY <2>1, <2>3, MapType
<1> HIDE DEF models, Sooner
<1>6. LET c == [b EXCEPT !.models = models]
      IN  c \in Auths /\ c.disabled = b.disabled /\ c.quota = b.quota
  BY <1>4, <1>5, ModelsReplaced
<1> QED  BY <1>1, <1>4, <1>6, SameQuota DEF b

LEMMA ResetKeeps ==
  ASSUME NEW a \in Auths, NEW t \in Nat
  PROVE  LET r == ResetQuota(a, t)
         IN  r \in Auths /\ r.disabled = a.disabled /\ Capped(r, t)
<1> DEFINE Clear(r) == [r EXCEPT !.unavailable = FALSE, !.nextRetryAfter = Zero, !.quota = NoQuota]
           fresh == [m \in DOMAIN a.models |-> resetModelState]
           b == [a EXCEPT !.models = fresh]
           models == [m \in DOMAIN Clear(b).models |-> Clear(Clear(b).models[m])]
           c == [Clear(b) EXCEPT !.models = models]
<1>1. ResetQuota(a, t) = ForgetError(c, t)
  BY DEF ResetQuota, clearCooldownStateForAuth
<1>2. DOMAIN a.models \in SUBSET Models
  BY MapType DEF Auths
<1>3. \A n \in ModelStates : Clear(n) \in ModelStates
  BY FreshTypes, Times DEF ModelStates
<1>4. fresh \in ModelMaps /\ DOMAIN fresh = DOMAIN a.models
  BY <1>2, FreshTypes, MapType
<1> HIDE DEF fresh
<1>5. b \in Auths /\ b.disabled = a.disabled
  BY <1>4, ModelsReplaced
<1> HIDE DEF b
<1>6. Clear(b) \in Auths /\ Clear(b).disabled = a.disabled /\ Clear(b).quota = NoQuota
  BY <1>5, FreshTypes, Times DEF Auths
<1> HIDE DEF Clear
<1>7. models \in ModelMaps
  <2>1. /\ DOMAIN Clear(b).models \in SUBSET Models
        /\ \A n \in DOMAIN Clear(b).models : Clear(b).models[n] \in ModelStates
    BY <1>6, MapType DEF Auths
  <2>2. \A n \in DOMAIN Clear(b).models : models[n] \in ModelStates
    BY <1>3, <2>1
  <2>3. models \in [DOMAIN Clear(b).models -> ModelStates]
    BY <2>2
  <2> HIDE DEF models
  <2> QED  BY <2>1, <2>3, MapType
<1> HIDE DEF models
<1>8. c \in Auths /\ c.disabled = a.disabled /\ c.quota = NoQuota
  BY <1>6, <1>7, ModelsReplaced
<1> HIDE DEF c
<1>9. LET f == ForgetError(c, t) IN f \in Auths /\ f.disabled = c.disabled /\ f.quota = c.quota
  BY <1>8, ForgetType
<1> QED  BY <1>1, <1>8, <1>9, NoQuotaCapped

\* An update keeps a quota of the credential's own, unless the credential is disabled.
LEMMA UpdateAuthKeeps ==
  ASSUME NEW a \in Auths, NEW token \in Tokens, NEW expiry \in Expiries,
         NEW disabled \in BOOLEAN, NEW t \in Nat, Capped(a, t)
  PROVE  LET u == UpdateAuth(a, token, expiry, disabled, t)
         IN  /\ u \in Auths /\ Capped(u, t)
             /\ u.disabled = disabled
             /\ disabled \/ a.disabled \/ Outlasts(a, u, t)
<1> DEFINE incoming == [NewAuth(token, expiry) EXCEPT !.disabled = disabled]
           Forgiven(s) == IF s.lastError = "unauthorized" THEN resetModelState ELSE s
           kept == [incoming EXCEPT !.models = a.models]
           models == [m \in DOMAIN kept.models |-> Forgiven(kept.models[m])]
           pardoned == [kept EXCEPT !.models = models]
           aggregated == updateAggregatedAvailability(pardoned, t)
           forgiven == IF token = a.token
                         \/ \A m \in DOMAIN kept.models : kept.models[m].lastError # "unauthorized"
                       THEN kept ELSE aggregated
           restored == [forgiven EXCEPT !.unavailable = a.unavailable,
                                        !.nextRetryAfter = a.nextRetryAfter,
                                        !.quota = a.quota, !.status = a.status]
           u == UpdateAuth(a, token, expiry, disabled, t)
<1>1. u = IF disabled THEN incoming ELSE IF a.disabled THEN incoming
          ELSE IF CredentialQuota(a, t) THEN restored ELSE forgiven
  BY DEF UpdateAuth
<1>2. /\ incoming \in Auths /\ incoming.disabled = disabled /\ incoming.quota = NoQuota
  <2>1. NewAuth(token, expiry) \in Auths /\ NewAuth(token, expiry).quota = NoQuota
    BY FreshTypes DEF NewAuth
  <2> QED  BY <2>1 DEF Auths
<1> HIDE DEF incoming
<1>3. Capped(incoming, t)
  BY <1>2, NoQuotaCapped
<1>4. a.models \in ModelMaps
  BY DEF Auths
<1>5. kept \in Auths /\ kept.disabled = disabled /\ kept.quota = NoQuota
  BY <1>2, <1>4, ModelsReplaced
<1> HIDE DEF kept
<1>6. models \in ModelMaps
  <2>1. /\ DOMAIN kept.models \in SUBSET Models
        /\ \A n \in DOMAIN kept.models : kept.models[n] \in ModelStates
    BY <1>5, MapType DEF Auths
  <2>2. \A n \in DOMAIN kept.models : models[n] \in ModelStates
    BY <2>1, FreshTypes
  <2>3. models \in [DOMAIN kept.models -> ModelStates]
    BY <2>2
  <2> HIDE DEF models
  <2> QED  BY <2>1, <2>3, MapType
<1> HIDE DEF models
<1>7. pardoned \in Auths /\ pardoned.disabled = disabled /\ pardoned.quota = NoQuota
  BY <1>5, <1>6, ModelsReplaced
<1> HIDE DEF pardoned
<1>8. Capped(pardoned, t) /\ Capped(kept, t)
  BY <1>5, <1>7, NoQuotaCapped
<1>9. aggregated \in Auths /\ aggregated.disabled = disabled /\ Capped(aggregated, t)
  BY <1>7, <1>8, AggregatedKeeps
<1> HIDE DEF aggregated
<1>10. forgiven \in Auths /\ forgiven.disabled = disabled /\ Capped(forgiven, t)
  BY <1>5, <1>8, <1>9
<1> HIDE DEF forgiven
<1>11. restored \in Auths /\ restored.disabled = disabled /\ restored.quota = a.quota
  BY <1>10 DEF Auths
<1> HIDE DEF restored
<1>12. Capped(restored, t) /\ Outlasts(a, restored, t)
  BY <1>11, SameQuota
<1>13. ~CredentialQuota(a, t) => Outlasts(a, u, t)
  BY DEF Outlasts
<1> HIDE DEF u
<1>14. \/ u = incoming /\ (disabled \/ a.disabled)
       \/ u = restored
       \/ u = forgiven /\ ~CredentialQuota(a, t)
  BY <1>1
<1> QED  BY <1>2, <1>3, <1>10, <1>11, <1>12, <1>13, <1>14 DEF u

-----------------------------------------------------------------------------
(***************************************************************************)
(* The records, wherever they are: with the manager, in flight, and in the *)
(* scheduler's metadata.                                                   *)
(***************************************************************************)
InFlightOK ==
  /\ IsFiniteSet(inFlight) /\ Cardinality(inFlight) <= MaxInFlight
  /\ \A p \in inFlight :
       /\ p.kind \in {"lifecycle", "result"} => p.snapshot.auth \in Auths
       /\ p.kind = "rebuild" => p.snapshot = NoSnapshot \/ p.snapshot.auth \in Auths

MetaOK(m) == m.meta # Absent => m.provider /\ m.meta \in Auths

CredentialsOK ==
  /\ now \in 1 .. MaxTime
  /\ epoch <= MaxEpoch
  /\ Held => held.auth \in Auths /\ Capped(held.auth, now)
  /\ InFlightOK
  /\ MetaOK(mirror)

LEMMA AuthsHaveShape ==
  ASSUME NEW a \in Auths
  PROVE  AuthShape(a)
<1>1. a.models \in ModelMaps /\ a.quota \in Quotas
  BY DEF Auths
<1>2. DOMAIN a.models \subseteq Models /\ \A m \in DOMAIN a.models : a.models[m].nextRetryAfter \in Nat
  BY <1>1, MapType DEF ModelStates
<1> QED  BY <1>1, <1>2 DEF AuthShape, Auths, Quotas

LEMMA LaterCapped ==
  ASSUME NEW a \in Auths, NEW t \in Nat, NEW u \in Nat, t <= u, Capped(a, t)
  PROVE  Capped(a, u)
<1>1. a.quota.nextRecoverAt \in Nat /\ QuotaCeiling \in Nat
  BY Times DEF Auths, Quotas
<1> QED  BY <1>1 DEF Capped

LEMMA PublishKeeps ==
  ASSUME InFlightOK, NEW k, NEW snapshot, NEW targets, Publish(k, snapshot, targets),
         k \in {"lifecycle", "result"} => snapshot.auth \in Auths,
         k = "rebuild" => snapshot = NoSnapshot \/ snapshot.auth \in Auths
  PROVE  InFlightOK'
<1> DEFINE new == [kind |-> k, snapshot |-> snapshot, targets |-> targets]
<1>1. inFlight' = inFlight \cup {new} /\ Cardinality(inFlight) < MaxInFlight
  BY DEF Publish
<1>2. new.kind = k /\ new.snapshot = snapshot
  OBVIOUS
<1> HIDE DEF new
<1>3. IsFiniteSet(inFlight) /\ Cardinality(inFlight) \in Nat
  BY FS_CardinalityType DEF InFlightOK
<1>4. /\ IsFiniteSet(inFlight \cup {new})
      /\ Cardinality(inFlight \cup {new}) <= Cardinality(inFlight) + 1
  BY <1>3, FS_AddElement
<1>5. MaxInFlight \in Nat
  BY SchedulerAssumption
<1>6. Cardinality(inFlight') <= MaxInFlight
  <2>1. Cardinality(inFlight \cup {new}) \in Nat
    BY <1>4, FS_CardinalityType
  <2> QED  BY <1>1, <1>3, <1>4, <1>5, <2>1
<1>7. \A p \in inFlight' :
        /\ p.kind \in {"lifecycle", "result"} => p.snapshot.auth \in Auths
        /\ p.kind = "rebuild" => p.snapshot = NoSnapshot \/ p.snapshot.auth \in Auths
  BY <1>1, <1>2 DEF InFlightOK
<1> QED  BY <1>1, <1>4, <1>6, <1>7 DEF InFlightOK

\* The manager changes the credential and publishes it.
LEMMA ManagerKeeps ==
  ASSUME CredentialsOK, UNCHANGED <<now, mirror>>, epoch' <= MaxEpoch,
         held'.auth \in Auths, Capped(held'.auth, now),
         NEW k \in {"lifecycle", "result"}, NEW targets, Publish(k, held', targets)
  PROVE  CredentialsOK'
<1>1. InFlightOK'
  BY PublishKeeps DEF CredentialsOK
<1>2. Capped(held'.auth, now')
  OBVIOUS
<1>3. (Held => held.auth \in Auths /\ Capped(held.auth, now))'
  BY <1>2
<1> QED  BY <1>1, <1>3 DEF CredentialsOK, MetaOK

LEMMA SnapshotFields ==
  ASSUME NEW a, NEW e, NEW g, NEW u
  PROVE  Snapshot(a, e, g, u).auth = a /\ Snapshot(a, e, g, u).epoch = e
BY DEF Snapshot

LEMMA InitCredentials == Init => CredentialsOK
<1> SUFFICES ASSUME Init PROVE CredentialsOK
  OBVIOUS
<1> DEFINE auth == NewAuth(CHOOSE k \in Tokens : TRUE, Min(Expiries))
<1>1. (CHOOSE k \in Tokens : TRUE) \in Tokens
  BY SchedulerAssumption
<1>2. Min(Expiries) \in Expiries
  BY LeastType, SchedulerAssumption
<1>3. auth \in Auths /\ auth.quota = NoQuota
  BY <1>1, <1>2, FreshTypes DEF NewAuth
<1>4. /\ now = 1 /\ epoch = 1 /\ inFlight = {} /\ held.auth = auth
      /\ mirror.meta = auth /\ mirror.provider
  BY SnapshotFields DEF Init
<1> HIDE DEF auth
<1>5. Capped(auth, now)
  BY <1>3, NoQuotaCapped
<1>6. InFlightOK
  BY <1>4, FS_EmptySet, SchedulerAssumption DEF InFlightOK
<1> QED  BY <1>3, <1>4, <1>5, <1>6, SchedulerAssumption DEF CredentialsOK, MetaOK

-----------------------------------------------------------------------------
(***************************************************************************)
(* The scheduler's metadata.                                               *)
(***************************************************************************)
LEMMA TakenIn ==
  ASSUME NEW m, MirrorOK(m), NEW snapshot, snapshot.auth \in Auths, NEW shards
  PROVE  /\ MetaOK(removeAuthFromProviders(m))
         /\ MetaOK(upsertAuthForModels(m, snapshot, shards))
BY DEF MetaOK, MirrorOK, removeAuthFromProviders, upsertAuthForModels

LEMMA LifecycleMeta ==
  ASSUME NEW m, MirrorOK(m), MetaOK(m), NEW snapshot, SnapshotOK(snapshot), snapshot.auth \in Auths
  PROVE  MetaOK(upsertAuthLifecycle(m, snapshot))
<1> DEFINE seen == Seen(m, snapshot)
<1>1. upsertAuthLifecycle(m, snapshot)
        \in {m, removeAuthFromProviders(seen), upsertAuthForModels(seen, snapshot, Shards)}
  BY DEF upsertAuthLifecycle
<1>2. MirrorOK(seen)
  BY SeenShape
<1> HIDE DEF seen
<1> QED  BY <1>1, <1>2, TakenIn

LEMMA ReceiveMeta ==
  ASSUME NEW m, MirrorOK(m), MetaOK(m), NEW p, SnapshotOK(p.snapshot), p.kind \in Kind,
         p.kind \in {"lifecycle", "result"} => p.snapshot.auth \in Auths,
         p.kind = "rebuild" => p.snapshot = NoSnapshot \/ p.snapshot.auth \in Auths
  PROVE  MetaOK(Receive(m, p))
<1> DEFINE seen == Seen(m, p.snapshot)
           late == [auth |-> m.meta]
           targets == IF p.targets = {} THEN Shards ELSE p.targets \cup {NoModel}
           own == ResultShards(m, p)
           f == [s \in Shards |-> Unbuilt]
           empty == [m EXCEPT !.provider = FALSE, !.meta = Absent, !.shards = f]
<1>1. MirrorOK(seen)
  BY SeenShape
<1>2. CASE p.kind = "lifecycle"
  <2>1. Receive(m, p) = upsertAuthLifecycle(m, p.snapshot)
    BY <1>2 DEF Receive
  <2> QED  BY <1>2, <2>1, LifecycleMeta
<1>3. CASE p.kind = "result"
  <2>1. Receive(m, p) = upsertAuthResult(m, p)
    BY <1>3 DEF Receive
  <2>2. \/ upsertAuthResult(m, p) = m
        \/ m.meta # Absent /\ upsertAuthResult(m, p) = upsertAuthForModels(m, late, targets)
        \/ upsertAuthResult(m, p) = removeAuthFromProviders(seen)
        \/ upsertAuthResult(m, p) = upsertAuthForModels(seen, p.snapshot, own)
    BY DEF upsertAuthResult
  <2>3. late.auth = m.meta
    OBVIOUS
  <2> HIDE DEF seen, late, targets, own
  <2>4. m.meta # Absent => MetaOK(upsertAuthForModels(m, late, targets))
    BY <2>3, TakenIn DEF MetaOK
  <2> QED  BY <1>1, <1>3, <2>1, <2>2, <2>4, TakenIn
<1>4. CASE p.kind = "tombstone"
  <2>1. Receive(m, p) = recordRemovalTombstone(m, p.snapshot)
    BY <1>4 DEF Receive
  <2>2. recordRemovalTombstone(m, p.snapshot) \in {m, removeAuthFromProviders(seen)}
    BY DEF recordRemovalTombstone
  <2> HIDE DEF seen
  <2>3. MetaOK(removeAuthFromProviders(seen))
    BY <1>1 DEF MetaOK, MirrorOK, removeAuthFromProviders
  <2> QED  BY <2>1, <2>2, <2>3
<1>5. CASE p.kind = "rebuild"
  <2>1. Receive(m, p) = rebuild(m, p.snapshot)
    BY <1>5 DEF Receive
  <2>2. rebuild(m, p.snapshot) = IF p.snapshot = NoSnapshot THEN empty
                                 ELSE upsertAuthLifecycle(empty, p.snapshot)
    BY DEF rebuild
  <2>3. MirrorOK(empty) /\ MetaOK(empty)
    BY DEF MirrorOK, MetaOK
  <2> HIDE DEF empty
  <2> QED  BY <1>5, <2>1, <2>2, <2>3, LifecycleMeta
<1> QED  BY <1>2, <1>3, <1>4, <1>5 DEF Kind

-----------------------------------------------------------------------------
(***************************************************************************)
(* The steps.                                                              *)
(***************************************************************************)
Bookkeeping == EpochInvariant /\ CredentialsOK

\* What a change of the manager's copy is based on.
LEMMA HeldFacts ==
  ASSUME Bookkeeping
  PROVE  /\ now \in Nat /\ epoch \in Nat \ {0} /\ epoch <= MaxEpoch /\ MaxEpoch \in Nat
         /\ Held => held.auth \in Auths /\ Capped(held.auth, now) /\ held.epoch = epoch
         /\ SnapshotOK(held)
BY SchedulerAssumption DEF Bookkeeping, EpochInvariant, ShapesOK, EpochsOK, CredentialsOK

\* A step that leaves the credential and its publications alone.
LEMMA Aside ==
  ASSUME CredentialsOK, UNCHANGED <<held, epoch, inFlight, mirror>>, now' = now
  PROVE  CredentialsOK'
BY DEF CredentialsOK, InFlightOK, MetaOK, Held, NoSnapshot

LEMMA RegisterTypes == Bookkeeping /\ Register => CredentialsOK'
<1> SUFFICES ASSUME Bookkeeping, Register PROVE CredentialsOK'
  OBVIOUS
<1>1. PICK token \in Tokens, expiry \in Expiries :
        held' = Snapshot(NewAuth(token, expiry), epoch + 1, 1, 0)
  BY DEF Register
<1>2. held'.auth = NewAuth(token, expiry)
  BY <1>1, SnapshotFields
<1>3. held'.auth \in Auths /\ held'.auth.quota = NoQuota
  BY <1>2, FreshTypes DEF NewAuth
<1>4. Capped(held'.auth, now)
  BY <1>3, NoQuotaCapped
<1>5. epoch' <= MaxEpoch
  BY HeldFacts DEF Register
<1>6. CredentialsOK /\ UNCHANGED <<now, mirror>> /\ Publish("lifecycle", held', {})
  BY DEF Bookkeeping, Register
<1> QED  BY <1>3, <1>4, <1>5, <1>6, ManagerKeeps

\* The manager's copy moves to the next generation.
LEMMA ChangeTypes ==
  ASSUME Bookkeeping, UNCHANGED <<now, epoch, mirror>>,
         NEW auth \in Auths, Capped(auth, now), Change(auth),
         NEW k \in {"lifecycle", "result"}, NEW targets, Publish(k, held', targets)
  PROVE  CredentialsOK'
<1>1. held'.auth = auth
  BY SnapshotFields DEF Change
<1>2. epoch' <= MaxEpoch /\ CredentialsOK
  BY HeldFacts DEF Bookkeeping
<1> QED  BY <1>1, <1>2, ManagerKeeps

LEMMA UpdateTypes == Bookkeeping /\ Update => CredentialsOK'
<1> SUFFICES ASSUME Bookkeeping, Update PROVE CredentialsOK'
  OBVIOUS
<1>1. PICK token \in Tokens, expiry \in Expiries, disabled \in BOOLEAN :
        Change(UpdateAuth(held.auth, token, expiry, disabled, now))
  BY DEF Update
<1> DEFINE auth == UpdateAuth(held.auth, token, expiry, disabled, now)
<1>2. held.auth \in Auths /\ Capped(held.auth, now) /\ now \in Nat
  BY HeldFacts DEF Update
<1>3. auth \in Auths /\ Capped(auth, now)
  BY <1>2, UpdateAuthKeeps
<1>4. Change(auth)
  BY <1>1
<1> HIDE DEF auth
<1>5. UNCHANGED <<now, epoch, mirror>> /\ Publish("lifecycle", held', {})
  BY DEF Update
<1> QED  BY <1>3, <1>4, <1>5, ChangeTypes

LEMMA ResultTypes ==
  ASSUME Bookkeeping, NEW result \in Results, Result(result)
  PROVE  CredentialsOK'
<1> DEFINE auth == MarkResult(held.auth, result, now)
           targets == IF result.scope \/ result.model = NoModel THEN {} ELSE {result.model}
<1>1. held.auth \in Auths /\ Capped(held.auth, now) /\ now \in Nat
  BY HeldFacts DEF Result
<1>2. auth \in Auths /\ Capped(auth, now)
  BY <1>1, MarkResultKeeps
<1>3. Change(auth) /\ UNCHANGED <<now, epoch, mirror>> /\ Publish("result", held', targets)
  BY DEF Result
<1> HIDE DEF auth, targets
<1> QED  BY <1>2, <1>3, ChangeTypes

LEMMA ResetTypes == Bookkeeping /\ OperatorReset => CredentialsOK'
<1> SUFFICES ASSUME Bookkeeping, OperatorReset PROVE CredentialsOK'
  OBVIOUS
<1> DEFINE auth == ResetQuota(held.auth, now)
<1>1. held.auth \in Auths /\ now \in Nat
  BY HeldFacts DEF OperatorReset
<1>2. auth \in Auths /\ Capped(auth, now)
  BY <1>1, ResetKeeps
<1>3. Change(auth) /\ UNCHANGED <<now, epoch, mirror>> /\ Publish("lifecycle", held', {})
  BY DEF OperatorReset
<1> HIDE DEF auth
<1> QED  BY <1>2, <1>3, ChangeTypes

LEMMA AnswerTypes == Bookkeeping /\ ApplyAnswer => CredentialsOK'
<1> SUFFICES ASSUME Bookkeeping, ApplyAnswer PROVE CredentialsOK'
  OBVIOUS
<1>1. UNCHANGED <<now, epoch, mirror>> /\ CredentialsOK
  BY DEF ApplyAnswer, Bookkeeping
<1>2. CASE UNCHANGED <<held, inFlight>>
  BY <1>1, <1>2, Aside
<1>3. ASSUME NEW auth \in Auths, Capped(auth, now), Recovered(auth)
      PROVE  CredentialsOK'
  <2>1. held'.auth = auth
    <3>1. "auth" \in DOMAIN held
      BY HeldFacts DEF SnapshotOK
    <3> QED  BY <1>3, <3>1 DEF Recovered
  <2>2. Publish("lifecycle", held', {})
    BY <1>3 DEF Recovered
  <2>3. epoch' <= MaxEpoch
    BY <1>1, HeldFacts
  <2> QED  BY <1>1, <1>3, <2>1, <2>2, <2>3, ManagerKeeps
<1>4. ASSUME Enabled,
             \/ \E keep \in SUBSET Models :
                  Recovered(liftQuotaCooldownForAuth(held.auth, keep, now))
             \/ \E resetAt \in now + 1 .. MaxTime :
                  Recovered(shortenQuotaCooldownForAuth(held.auth, resetAt))
      PROVE  CredentialsOK'
  <2>1. held.auth \in Auths /\ Capped(held.auth, now) /\ now \in Nat
    BY <1>4, HeldFacts DEF Enabled
  <2>2. ASSUME NEW keep \in SUBSET Models,
               Recovered(liftQuotaCooldownForAuth(held.auth, keep, now))
        PROVE  CredentialsOK'
    <3> DEFINE auth == liftQuotaCooldownForAuth(held.auth, keep, now)
    <3>1. auth \in Auths /\ Capped(auth, now)
      BY <2>1, LiftKeeps
    <3>2. Recovered(auth)
      BY <2>2
    <3> HIDE DEF auth
    <3> QED  BY <1>3, <3>1, <3>2
  <2>3. ASSUME NEW resetAt \in now + 1 .. MaxTime,
               Recovered(shortenQuotaCooldownForAuth(held.auth, resetAt))
        PROVE  CredentialsOK'
    <3> DEFINE auth == shortenQuotaCooldownForAuth(held.auth, resetAt)
    <3>1. resetAt \in Nat
      BY <2>1
    <3>2. auth \in Auths /\ Capped(auth, now)
      BY <2>1, <3>1, ShortenKeeps
    <3>3. Recovered(auth)
      BY <2>3
    <3> HIDE DEF auth
    <3> QED  BY <1>3, <3>2, <3>3
  <2> QED  BY <1>4, <2>2, <2>3
<1> QED  BY <1>2, <1>4 DEF ApplyAnswer

LEMMA DeliverTypes ==
  ASSUME Bookkeeping, NEW p \in inFlight, Deliver(p)
  PROVE  CredentialsOK'
<1>1. UNCHANGED <<now, held, epoch>> /\ inFlight' = inFlight \ {p} /\ mirror' = Receive(mirror, p)
  BY DEF Deliver
<1>2. InFlightOK'
  <2>1. IsFiniteSet(inFlight) /\ Cardinality(inFlight) <= MaxInFlight /\ MaxInFlight \in Nat
    BY SchedulerAssumption DEF Bookkeeping, CredentialsOK, InFlightOK
  <2>2. IsFiniteSet(inFlight') /\ Cardinality(inFlight') <= Cardinality(inFlight)
    BY <1>1, <2>1, FS_Subset, inFlight' \in SUBSET inFlight
  <2>3. Cardinality(inFlight) \in Nat /\ Cardinality(inFlight') \in Nat
    BY <2>1, <2>2, FS_CardinalityType
  <2>4. Cardinality(inFlight') <= MaxInFlight
    BY <2>1, <2>2, <2>3
  <2> QED  BY <1>1, <2>2, <2>4 DEF Bookkeeping, CredentialsOK, InFlightOK
<1>3. MetaOK(mirror')
  BY <1>1, ReceiveMeta DEF Bookkeeping, CredentialsOK, InFlightOK, EpochInvariant, ShapesOK
<1>4. (Held => held.auth \in Auths /\ Capped(held.auth, now))'
  BY <1>1 DEF Bookkeeping, CredentialsOK, Held, NoSnapshot
<1> QED  BY <1>1, <1>2, <1>3, <1>4 DEF Bookkeeping, CredentialsOK

LEMMA OtherTypes ==
  /\ Bookkeeping /\ Remove => CredentialsOK'
  /\ Bookkeeping /\ NeutralResult => CredentialsOK'
  /\ Bookkeeping /\ RefreshSchedulerEntry => CredentialsOK'
  /\ Bookkeeping /\ SyncScheduler => CredentialsOK'
  /\ Bookkeeping /\ Tick => CredentialsOK'
  /\ \A shard : Bookkeeping /\ Pick(shard) => CredentialsOK'
<1>1. ASSUME Bookkeeping, Remove PROVE CredentialsOK'
  <2> DEFINE tombstone == Snapshot(Absent, epoch + 1, 0, 0)
  <2>1. Publish("tombstone", tombstone, {})
    BY <1>1 DEF Remove
  <2> HIDE DEF tombstone
  <2>2. InFlightOK'
    BY <1>1, <2>1, PublishKeeps DEF Bookkeeping, CredentialsOK
  <2>3. UNCHANGED <<now, mirror>> /\ held' = NoSnapshot /\ epoch' <= MaxEpoch
    BY <1>1, HeldFacts DEF Remove
  <2>4. ~Held'
    BY <2>3 DEF Held, NoSnapshot
  <2> QED  BY <1>1, <2>2, <2>3, <2>4 DEF Bookkeeping, CredentialsOK, MetaOK
<1>2. ASSUME Bookkeeping, NeutralResult PROVE CredentialsOK'
  <2>1. held'.auth = held.auth /\ UNCHANGED <<now, epoch, inFlight, mirror>>
    BY <1>2, SnapshotFields DEF NeutralResult, Change
  <2>2. held.auth \in Auths /\ Capped(held.auth, now)
    BY <1>2, HeldFacts DEF NeutralResult
  <2>3. Capped(held'.auth, now')
    BY <2>1, <2>2
  <2>4. (Held => held.auth \in Auths /\ Capped(held.auth, now))'
    BY <2>1, <2>2, <2>3
  <2> QED  BY <1>2, <2>1, <2>4 DEF Bookkeeping, CredentialsOK, InFlightOK, MetaOK
<1>3. ASSUME Bookkeeping, RefreshSchedulerEntry PROVE CredentialsOK'
  <2>1. UNCHANGED <<now, held, epoch, mirror>> /\ Publish("lifecycle", held', {})
    BY <1>3 DEF RefreshSchedulerEntry
  <2>2. held'.auth \in Auths /\ Capped(held'.auth, now) /\ epoch' <= MaxEpoch
    BY <1>3, <2>1, HeldFacts DEF RefreshSchedulerEntry
  <2> QED  BY <1>3, <2>1, <2>2, ManagerKeeps DEF Bookkeeping
<1>4. ASSUME Bookkeeping, SyncScheduler PROVE CredentialsOK'
  <2>1. UNCHANGED <<now, held, epoch, mirror>> /\ Publish("rebuild", held, {})
    BY <1>4 DEF SyncScheduler
  <2>2. held = NoSnapshot \/ held.auth \in Auths
    BY <1>4, HeldFacts DEF Held
  <2>3. InFlightOK'
    BY <1>4, <2>1, <2>2, PublishKeeps DEF Bookkeeping, CredentialsOK
  <2> QED  BY <1>4, <2>1, <2>3 DEF Bookkeeping, CredentialsOK, MetaOK, Held, NoSnapshot
<1>5. ASSUME Bookkeeping, Tick PROVE CredentialsOK'
  <2>1. /\ now < MaxTime /\ now' = now + 1 /\ now \in 1 .. MaxTime
        /\ UNCHANGED <<held, epoch, inFlight, mirror>>
    BY <1>5 DEF Tick, Bookkeeping, CredentialsOK
  <2>2. MaxTime \in Nat
    BY SchedulerAssumption
  <2>3. now \in Nat /\ now' \in Nat /\ now <= now' /\ now' \in 1 .. MaxTime
    BY <2>1, <2>2
  <2>4. (Held => held.auth \in Auths /\ Capped(held.auth, now))'
    <3> SUFFICES ASSUME Held PROVE held.auth \in Auths /\ Capped(held.auth, now')
      BY <2>1 DEF Held, NoSnapshot
    <3>1. held.auth \in Auths /\ Capped(held.auth, now)
      BY <1>5, HeldFacts
    <3> QED  BY <2>3, <3>1, LaterCapped
  <2> QED  BY <1>5, <2>1, <2>3, <2>4 DEF Bookkeeping, CredentialsOK, InFlightOK, MetaOK, NoSnapshot
<1>6. ASSUME NEW shard, Bookkeeping, Pick(shard) PROVE CredentialsOK'
  <2> DEFINE entry == IF mirror.shards[shard] = Unbuilt
                      THEN IF mirror.meta = Absent THEN Absent ELSE upsertEntry(mirror.meta, shard)
                      ELSE IF mirror.shards[shard] = Absent THEN Absent
                      ELSE promoteExpired(mirror.shards[shard], shard)
  <2>1. mirror' = [mirror EXCEPT !.shards[shard] = entry] /\ UNCHANGED <<now, held, epoch, inFlight>>
    BY <1>6 DEF Pick
  <2> HIDE DEF entry
  <2>2. MetaOK(mirror')
    BY <1>6, <2>1 DEF Bookkeeping, CredentialsOK, EpochInvariant, ShapesOK, MirrorOK, MetaOK
  <2> QED  BY <1>6, <2>1, <2>2 DEF Bookkeeping, CredentialsOK, InFlightOK, Held, NoSnapshot
<1> QED  BY <1>1, <1>2, <1>3, <1>4, <1>5, <1>6

LEMMA StepCredentials == Bookkeeping /\ [Next]_vars => CredentialsOK'
<1> SUFFICES ASSUME Bookkeeping, [Next]_vars PROVE CredentialsOK'
  OBVIOUS
<1>0. CredentialsOK
  BY DEF Bookkeeping
<1>1. CASE Register              BY <1>1, RegisterTypes
<1>2. CASE Update                BY <1>2, UpdateTypes
<1>3. CASE Remove                BY <1>3, OtherTypes
<1>4. CASE \E result \in Results : Result(result)
                                 BY <1>4, ResultTypes
<1>5. CASE NeutralResult         BY <1>5, OtherTypes
<1>6. CASE OperatorReset         BY <1>6, ResetTypes
<1>7. CASE RefreshSchedulerEntry BY <1>7, OtherTypes
<1>8. CASE SyncScheduler         BY <1>8, OtherTypes
<1>9. CASE TimeAnswer            BY <1>0, <1>9, Aside DEF TimeAnswer
<1>10. CASE ApplyAnswer          BY <1>10, AnswerTypes
<1>11. CASE Tick                 BY <1>11, OtherTypes
<1>12. CASE \E p \in inFlight : Deliver(p)
                                 BY <1>12, DeliverTypes
<1>13. CASE \E shard \in PickModels : Pick(shard)
                                 BY <1>13, OtherTypes
<1>14. CASE UNCHANGED vars       BY <1>0, <1>14, Aside DEF vars
<1> QED
  BY <1>1, <1>2, <1>3, <1>4, <1>5, <1>6, <1>7, <1>8, <1>9, <1>10, <1>11, <1>12, <1>13, <1>14
  DEF Next

\* What the manager holds, what is in flight and what the scheduler knows are credentials, and a
\* quota of a credential's own is never further away than the ceiling (maxQuotaCooldownCeiling).
THEOREM CredentialsStayWhole == Spec => []Bookkeeping
<1>1. Init => Bookkeeping
  BY InitEpochs, InitCredentials DEF Bookkeeping
<1>2. Bookkeeping /\ [Next]_vars => Bookkeeping'
  BY StepEpochs, StepCredentials DEF Bookkeeping
<1> QED  BY <1>1, <1>2, PTL DEF Spec

\* The manager and the scheduler keep records of the credential's shape, deadlines are times, and
\* no more is in flight than fits, for any constants.
THEOREM SchedulerTypeCorrect == Spec => []TypeOK
<1>1. Bookkeeping => TypeOK
  <2> SUFFICES ASSUME Bookkeeping PROVE TypeOK
    OBVIOUS
  <2>1. Held => AuthShape(held.auth) /\ held.epoch = epoch
    BY HeldFacts, AuthsHaveShape
  <2>2. mirror.meta # Absent => mirror.provider /\ AuthShape(mirror.meta)
    BY AuthsHaveShape DEF Bookkeeping, CredentialsOK, MetaOK
  <2>3. epoch \in 0 .. MaxEpoch /\ mirror.seen.epoch <= epoch
    BY HeldFacts DEF Bookkeeping, EpochInvariant, EpochsOK
  <2> QED  BY <2>1, <2>2, <2>3 DEF Bookkeeping, CredentialsOK, InFlightOK, TypeOK
<1> QED  BY <1>1, CredentialsStayWhole, PTL

\* A quota is the answer to a request for a model.
QuotasNameModels ==
  \A result \in Results : result.model = NoModel => result.kind \notin {"quota", "challenge"}

\* What a step may do to a quota of the credential's own.
QuotaStep ==
  (Held /\ held' # NoSnapshot /\ CredentialQuota(held.auth, now))
    => \/ CredentialQuota(held'.auth, now)
            /\ held'.auth.quota.nextRecoverAt >= held.auth.quota.nextRecoverAt
       \/ held'.epoch # held.epoch
       \/ held.auth.disabled \/ held'.auth.disabled
       \/ OperatorReset
       \/ ApplyAnswer

LEMMA StepHoldsQuota ==
  ASSUME QuotasNameModels, Bookkeeping, [Next]_vars
  PROVE  QuotaStep \/ UNCHANGED held
<1>1. SUFFICES ASSUME Held, held' # NoSnapshot, CredentialQuota(held.auth, now), held' # held
               PROVE  QuotaStep
  BY DEF QuotaStep
<1>2. /\ held.auth \in Auths /\ Capped(held.auth, now) /\ held.epoch = epoch
      /\ now \in Nat /\ epoch \in Nat
  BY <1>1, HeldFacts
<1>3. ASSUME held'.auth.disabled \/ held.auth.disabled \/ Outlasts(held.auth, held'.auth, now)
      PROVE  QuotaStep
  BY <1>1, <1>3 DEF Outlasts, QuotaStep
<1>4. CASE Register
  <2>1. held'.epoch = epoch + 1
    BY <1>4, SnapshotFields DEF Register
  <2> QED  BY <1>2, <2>1 DEF QuotaStep
<1>5. CASE Update
  <2>1. PICK token \in Tokens, expiry \in Expiries, disabled \in BOOLEAN :
          Change(UpdateAuth(held.auth, token, expiry, disabled, now))
    BY <1>5 DEF Update
  <2>2. held'.auth = UpdateAuth(held.auth, token, expiry, disabled, now)
    BY <2>1, SnapshotFields DEF Change
  <2>3. held'.auth.disabled \/ held.auth.disabled \/ Outlasts(held.auth, held'.auth, now)
    BY <1>2, <2>2, UpdateAuthKeeps
  <2> QED  BY <1>3, <2>3
<1>6. CASE Remove
  BY <1>1, <1>6 DEF Remove
<1>7. ASSUME NEW result \in Results, Result(result) PROVE QuotaStep
  <2>1. held'.auth = MarkResult(held.auth, result, now)
    BY <1>7, SnapshotFields DEF Result, Change
  <2>2. Outlasts(held.auth, held'.auth, now)
    BY <1>2, <2>1, MarkResultKeeps DEF QuotasNameModels
  <2> QED  BY <1>3, <2>2
<1>8. CASE NeutralResult
  <2>1. held'.auth = held.auth
    BY <1>8, SnapshotFields DEF NeutralResult, Change
  <2> QED  BY <1>2, <1>3, <2>1, SameQuota
<1>9. CASE OperatorReset \/ ApplyAnswer
  BY <1>9 DEF QuotaStep
<1>10. CASE RefreshSchedulerEntry \/ SyncScheduler \/ TimeAnswer \/ Tick
  BY <1>1, <1>10 DEF RefreshSchedulerEntry, SyncScheduler, TimeAnswer, Tick
<1>11. CASE (\E p \in inFlight : Deliver(p)) \/ (\E shard \in PickModels : Pick(shard))
  BY <1>1, <1>11 DEF Deliver, Pick
<1>12. CASE UNCHANGED vars
  BY <1>1, <1>12 DEF vars
<1> QED
  BY <1>4, <1>5, <1>6, <1>7, <1>8, <1>9, <1>10, <1>11, <1>12 DEF Next

\* A quota the provider reported for the whole credential ends only at its deadline, by an
\* operator's reset, by a recovery answer, or as the credential is disabled or registered anew;
\* results and updates never cut it short, in whatever order they come (Manager.MarkResult,
\* Manager.Update, applyCredentialQuotaCooldown).
THEOREM CredentialQuotaIsKept ==
  ASSUME QuotasNameModels
  PROVE  Spec => CredentialQuotaHolds
<1>1. Bookkeeping /\ [Next]_vars => [QuotaStep]_held
  BY StepHoldsQuota
<1>2. Spec => [][QuotaStep]_held
  BY <1>1, CredentialsStayWhole, PTL DEF Spec
<1> QED  BY <1>2 DEF CredentialQuotaHolds, QuotaStep

-----------------------------------------------------------------------------
(***************************************************************************)
(* When a credential is kept from serving a model.                         *)
(***************************************************************************)
Barred(r, t) ==
  /\ r.unavailable \/ r.quota.exceeded
  /\ \/ r.nextRetryAfter > t \/ r.quota.nextRecoverAt > t
     \/ r.nextRetryAfter = 0 /\ r.quota.nextRecoverAt = 0

LEMMA BlockIsBar ==
  ASSUME NEW r, r.unavailable \in BOOLEAN, r.quota.exceeded \in BOOLEAN,
         r.nextRetryAfter \in Nat, r.quota.nextRecoverAt \in Nat, NEW t \in Nat
  PROVE  availabilityBlock(r.unavailable, r.quota.exceeded, r.nextRetryAfter,
                           r.quota.nextRecoverAt, t).state # "ready" <=> Barred(r, t)
<1> DEFINE retry == r.nextRetryAfter
           recover == r.quota.nextRecoverAt
           block == availabilityBlock(r.unavailable, r.quota.exceeded, retry, recover, t)
           ahead == {x \in {retry, recover} : x > t}
           due == [state |-> IF r.quota.exceeded THEN "cooldown" ELSE "blocked",
                   next |-> Max(ahead)]
<1>1. block = IF ~r.unavailable /\ ~r.quota.exceeded THEN Ready
              ELSE IF ahead # {} THEN due
              ELSE IF {retry, recover} = {Zero} THEN Blocked ELSE Ready
  BY DEF availabilityBlock
<1>2. Ready.state = "ready" /\ Blocked.state # "ready"
  BY DEF Ready, Blocked
<1>3. due.state # "ready"
  OBVIOUS
<1>4. ahead # {} <=> retry > t \/ recover > t
  OBVIOUS
<1>5. {retry, recover} = {Zero} <=> retry = 0 /\ recover = 0
  BY DEF Zero
<1>6. Barred(r, t) <=> /\ r.unavailable \/ r.quota.exceeded
                       /\ retry > t \/ recover > t \/ (retry = 0 /\ recover = 0)
  BY DEF Barred
<1> HIDE DEF block, due, ahead, retry, recover
<1>7. block.state # "ready"
        <=> (r.unavailable \/ r.quota.exceeded) /\ (ahead # {} \/ {retry, recover} = {Zero})
  BY <1>1, <1>2, <1>3
<1>8. block.state # "ready" <=> Barred(r, t)
  BY <1>4, <1>5, <1>6, <1>7
<1> QED  BY <1>8 DEF block, retry, recover

LEMMA WhenBlocked ==
  ASSUME NEW a \in Auths, NEW m \in Models, NEW t \in Nat
  PROVE  isAuthBlockedForModel(a, m, t).state # "ready"
           <=> \/ a.disabled \/ hasUnauthorizedAuthFailure(a) \/ TokenExpired(a, t)
               \/ CredentialQuota(a, t)
               \/ m \in DOMAIN a.models /\ Barred(a.models[m], t)
               \/ DOMAIN a.models = {} /\ Barred(a, t)
<1> DEFINE b == isAuthBlockedForModel(a, m, t)
           s == a.models[m]
           own == availabilityBlock(s.unavailable, s.quota.exceeded,
                                    s.nextRetryAfter, s.quota.nextRecoverAt, t)
           whole == CredentialBlock(a, m, t)
           off == [state |-> "disabled", next |-> Zero]
           cool == [state |-> "cooldown", next |-> a.quota.nextRecoverAt]
<1>1. b = IF a.disabled THEN off
          ELSE IF hasUnauthorizedAuthFailure(a) \/ TokenExpired(a, t) THEN Blocked
          ELSE IF CredentialQuota(a, t) THEN cool
          ELSE IF m \in DOMAIN a.models THEN own
          ELSE IF m # NoModel /\ DOMAIN a.models # {} THEN Ready
          ELSE whole
  BY DEF isAuthBlockedForModel
<1>2. m # NoModel
  BY CooldownAssumption
<1>3. off.state # "ready" /\ cool.state # "ready" /\ Ready.state = "ready" /\ Blocked.state # "ready"
  BY DEF Ready, Blocked
<1>4. a.models \in ModelMaps /\ a.quota \in Quotas /\ a.unavailable \in BOOLEAN
      /\ a.nextRetryAfter \in Nat
  BY DEF Auths
<1>5. ASSUME m \in DOMAIN a.models
      PROVE  own.state # "ready" <=> Barred(s, t)
  <2>1. s \in ModelStates
    BY <1>4, <1>5, MapType
  <2>2. /\ s.unavailable \in BOOLEAN /\ s.quota.exceeded \in BOOLEAN
        /\ s.nextRetryAfter \in Nat /\ s.quota.nextRecoverAt \in Nat
    BY <2>1 DEF ModelStates, Quotas
  <2> HIDE DEF s
  <2> QED  BY <2>2, BlockIsBar
<1>6. whole.state # "ready" <=> Barred(a, t)
  <2>1. whole = availabilityBlock(a.unavailable, a.quota.exceeded, a.nextRetryAfter,
                                  a.quota.nextRecoverAt, t)
    <3>1. a.quota.exceeded \in BOOLEAN
      BY <1>4 DEF Quotas
    <3>2. (a.quota.exceeded /\ TRUE) = a.quota.exceeded
      BY <3>1
    <3> QED  BY <1>2, <3>1, <3>2 DEF CredentialBlock
  <2>2. a.quota.exceeded \in BOOLEAN /\ a.quota.nextRecoverAt \in Nat
    BY <1>4 DEF Quotas
  <2> HIDE DEF whole
  <2> QED  BY <1>4, <2>1, <2>2, BlockIsBar
<1> HIDE DEF own, whole, off, cool, b
<1> QED  BY <1>1, <1>2, <1>3, <1>5, <1>6 DEF b

-----------------------------------------------------------------------------
(***************************************************************************)
(* Sound states of a model.  A model is held back exactly until the later  *)
(* of its deadline and its quota's, however they were set; and that is its *)
(* own deadline, unless the transient cooldown is turned off: a failure    *)
(* that sets no deadline then takes the model's away, and not the quota's. *)
(***************************************************************************)
Sound(s, t) ==
  /\ s.unavailable <=> s.nextRetryAfter # 0
  /\ s.quota.exceeded <=> s.quota.nextRecoverAt # 0
  /\ TransientCooldown # 0 /\ s.quota.nextRecoverAt > t
       => s.nextRetryAfter >= s.quota.nextRecoverAt
  /\ s.quota.nextRecoverAt <= t + QuotaCeiling
  /\ CoolingDisabled => s.nextRetryAfter = 0 /\ s.quota.nextRecoverAt = 0

Waits(s, u) == s.nextRetryAfter > u \/ s.quota.nextRecoverAt > u

LEMMA SoundBar ==
  ASSUME NEW s \in ModelStates, NEW t \in Nat, Sound(s, t), NEW u \in Nat, t <= u
  PROVE  /\ Barred(s, u) <=> Waits(s, u)
         /\ TransientCooldown # 0 => (Waits(s, u) <=> s.nextRetryAfter > u)
<1>1. s.nextRetryAfter \in Nat /\ s.quota.nextRecoverAt \in Nat
  BY DEF ModelStates, Quotas
<1> QED  BY <1>1 DEF Sound, Barred, Waits

LEMMA SoundReset == \A t \in Nat : Sound(resetModelState, t)
<1>1. /\ resetModelState.unavailable = FALSE /\ resetModelState.nextRetryAfter = 0
      /\ resetModelState.quota.exceeded = FALSE /\ resetModelState.quota.nextRecoverAt = 0
  BY DEF resetModelState, NoQuota, Zero
<1> QED  BY <1>1, Times DEF Sound

LEMMA SoundLater ==
  ASSUME NEW s \in ModelStates, NEW t \in Nat, Sound(s, t), NEW u \in Nat, t <= u
  PROVE  Sound(s, u)
<1>1. s.nextRetryAfter \in Nat /\ s.quota.nextRecoverAt \in Nat /\ QuotaCeiling \in Nat
  BY Times DEF ModelStates, Quotas
<1>2. /\ TransientCooldown # 0 /\ s.quota.nextRecoverAt > t
           => s.nextRetryAfter >= s.quota.nextRecoverAt
      /\ s.quota.nextRecoverAt <= t + QuotaCeiling
  BY DEF Sound
<1>3. /\ TransientCooldown # 0 /\ s.quota.nextRecoverAt > u
           => s.nextRetryAfter >= s.quota.nextRecoverAt
      /\ s.quota.nextRecoverAt <= u + QuotaCeiling
  BY <1>1, <1>2
<1> QED  BY <1>3 DEF Sound

LEMMA SoundExpire ==
  ASSUME NEW s \in ModelStates, NEW t \in Nat, Sound(s, t)
  PROVE  /\ Sound(Expire(s, t), t)
         /\ \A u \in Nat : t <= u =>
              /\ Expire(s, t).nextRetryAfter > u <=> s.nextRetryAfter > u
              /\ Waits(Expire(s, t), u) <=> Waits(s, u)
<1> DEFINE e == [s EXCEPT !.unavailable = FALSE, !.nextRetryAfter = Zero]
<1>1. s.nextRetryAfter \in Nat /\ s.quota.nextRecoverAt \in Nat
  BY DEF ModelStates, Quotas
<1>2. e.unavailable = FALSE /\ e.nextRetryAfter = 0 /\ e.quota = s.quota
  BY DEF ModelStates, Zero
<1>3. \/ Expire(s, t) = s
      \/ Expire(s, t) = e /\ s.nextRetryAfter <= t
  BY DEF Expire
<1> HIDE DEF e
<1>4. CASE Expire(s, t) = s
  BY <1>4
<1>5. CASE Expire(s, t) = e /\ s.nextRetryAfter <= t
  <2>1. TransientCooldown # 0 => s.quota.nextRecoverAt <= t
    BY <1>1, <1>5 DEF Sound
  <2>2. TransientCooldown # 0 /\ e.quota.nextRecoverAt > t
          => e.nextRetryAfter >= e.quota.nextRecoverAt
    BY <1>1, <1>2, <2>1
  <2>3. Sound(e, t)
    BY <1>2, <2>2 DEF Sound
  <2> QED  BY <1>1, <1>2, <1>5, <2>3 DEF Waits
<1> QED  BY <1>3, <1>4, <1>5

-----------------------------------------------------------------------------
(***************************************************************************)
(* A failure leaves a sound state, and never an earlier deadline.          *)
(***************************************************************************)
LEMMA RungBounds ==
  ASSUME NEW level \in Nat
  PROVE  nextQuotaCooldown(level).cooldown \in 1 .. QuotaMax
<1> DEFINE cooldown == QuotaBase * 2^level
<1>1. nextQuotaCooldown(level) = IF cooldown \in QuotaBase .. QuotaMax - 1
                                 THEN [cooldown |-> cooldown, level |-> level + 1]
                                 ELSE [cooldown |-> QuotaMax, level |-> level]
  BY DEF nextQuotaCooldown
<1> HIDE DEF cooldown
<1>2. QuotaBase \in Nat /\ QuotaMax \in Nat /\ QuotaBase > 0 /\ QuotaBase <= QuotaMax
  BY CooldownAssumption
<1> QED  BY <1>1, <1>2

\* The deadlines that failures set lie ahead, unless cooling is disabled.
LEMMA WindowAhead ==
  ASSUME NEW quota \in Quotas, NEW hint \in Hints, NEW t \in Nat
  PROVE  LET w == QuotaWindow(quota, hint, t)
         IN  /\ CoolingDisabled => w.next = 0
             /\ ~CoolingDisabled => w.next > t
             /\ ~CoolingDisabled /\ quota.exceeded /\ quota.nextRecoverAt <= t + QuotaCeiling
                  => w.next >= quota.nextRecoverAt
<1> DEFINE rung == nextQuotaCooldown(quota.backoffLevel)
           climbed == quotaCooldownAfterFailure(quota, t)
           asked == IF hint = NoHint THEN climbed
                    ELSE [next |-> t + Later(hint, QuotaFloor), level |-> quota.backoffLevel]
           kept == IF quota.exceeded THEN Later(asked.next, quota.nextRecoverAt) ELSE asked.next
<1>1. quota.nextRecoverAt \in Nat /\ quota.backoffLevel \in Nat
  BY DEF Quotas
<1>2. rung.cooldown \in Nat /\ rung.cooldown > 0
  <2>1. rung.cooldown \in 1 .. QuotaMax
    BY <1>1, RungBounds
  <2> HIDE DEF rung
  <2> QED  BY <2>1, Times
<1>3. climbed = IF quota.nextRecoverAt > t
                THEN [next |-> quota.nextRecoverAt, level |-> quota.backoffLevel]
                ELSE [next |-> t + rung.cooldown, level |-> rung.level]
  BY DEF quotaCooldownAfterFailure
<1>4. QuotaWindow(quota, hint, t) =
        IF CoolingDisabled THEN [next |-> Zero, level |-> quota.backoffLevel]
        ELSE [next |-> clampQuotaCooldown(kept, t), level |-> asked.level]
  BY DEF QuotaWindow
<1> HIDE DEF rung, climbed
<1>5. climbed.next \in Nat /\ climbed.next > t
  BY <1>1, <1>2, <1>3
<1>6. hint # NoHint => Later(hint, QuotaFloor) \in Nat /\ Later(hint, QuotaFloor) > 0
  <2>1. hint # NoHint => hint \in Nat
    BY SchedulerAssumption
  <2>2. QuotaFloor \in Nat /\ QuotaFloor > 0
    BY CooldownAssumption
  <2>3. hint # NoHint => Later(hint, QuotaFloor) \in Nat /\ Later(hint, QuotaFloor) >= QuotaFloor
    BY <2>1, <2>2, Times
  <2> QED  BY <2>2, <2>3
<1>7. asked.next \in Nat /\ asked.next > t
  BY <1>5, <1>6
<1> HIDE DEF asked
<1>8. kept \in Nat /\ kept > t /\ (quota.exceeded => kept >= quota.nextRecoverAt)
  <2>1. LET l == Later(asked.next, quota.nextRecoverAt)
        IN  l \in Nat /\ l >= asked.next /\ l >= quota.nextRecoverAt
    BY <1>1, <1>7, Times
  <2> QED  BY <1>1, <1>7, <2>1
<1> HIDE DEF kept
<1>9. /\ clampQuotaCooldown(kept, t) > t
      /\ quota.exceeded /\ quota.nextRecoverAt <= t + QuotaCeiling
           => clampQuotaCooldown(kept, t) >= quota.nextRecoverAt
  <2>1. QuotaCeiling \in Nat /\ QuotaCeiling > 0
    BY CooldownAssumption
  <2> QED  BY <1>1, <1>8, <2>1 DEF clampQuotaCooldown
<1>10. CASE CoolingDisabled
  BY <1>4, <1>10 DEF Zero
<1>11. CASE ~CoolingDisabled
  BY <1>4, <1>9, <1>11
<1> QED  BY <1>10, <1>11

LEMMA CloudflareAhead ==
  ASSUME NEW level \in Nat, NEW t \in Nat
  PROVE  LET w == nextCloudflareCooldown(level, t)
         IN  /\ CoolingDisabled => w.next = 0
             /\ ~CoolingDisabled => w.next > t /\ w.next <= t + QuotaCeiling
<1> DEFINE rung == nextQuotaCooldown(level)
           pause == Later(rung.cooldown, QuotaFloor)
<1>1. nextCloudflareCooldown(level, t) =
        IF CoolingDisabled THEN [next |-> Zero, level |-> level]
        ELSE [next |-> t + pause, level |-> rung.level]
  BY DEF nextCloudflareCooldown
<1>2. rung.cooldown \in 1 .. QuotaMax
  BY RungBounds
<1> HIDE DEF rung
<1>3. /\ QuotaMax \in Nat /\ QuotaFloor \in Nat /\ QuotaCeiling \in Nat
      /\ QuotaMax <= QuotaCeiling /\ QuotaFloor <= QuotaCeiling
  BY CooldownAssumption
<1>4. pause \in Nat /\ pause > 0 /\ pause <= QuotaCeiling
  <2>1. rung.cooldown \in Nat /\ rung.cooldown > 0 /\ rung.cooldown <= QuotaCeiling
    BY <1>2, <1>3
  <2>2. pause \in {rung.cooldown, QuotaFloor} /\ pause >= rung.cooldown
    BY <1>3, <2>1, Times
  <2> QED  BY <1>3, <2>1, <2>2
<1> HIDE DEF pause
<1>5. CASE CoolingDisabled
  BY <1>1, <1>5 DEF Zero
<1>6. CASE ~CoolingDisabled
  BY <1>1, <1>3, <1>4, <1>6
<1> QED  BY <1>5, <1>6

\* A failure that sets no deadline.
Uncooling(kind) == CoolingDisabled \/ (kind = "transient" /\ TransientCooldown = 0)

\* A penalty in one form: the deadline x of the failure, or a later one that is still ahead; and
\* the quota as it was, or one that ends at x.
Extends(p, retry, quota, kind, x, t) ==
  /\ p.retry = IF x # 0 /\ retry > x /\ retry > t THEN retry ELSE x
  /\ Uncooling(kind) <=> x = 0
  /\ \/ p.quota = quota
     \/ /\ kind # "transient"
        /\ p.quota.exceeded = TRUE /\ p.quota.nextRecoverAt = x /\ x <= t + QuotaCeiling

LEMMA PenaltyForm ==
  ASSUME NEW retry \in Nat, NEW quota \in Quotas, NEW kind \in Failures, NEW hint \in Hints,
         NEW t \in Nat, t > 0
  PROVE  \E x \in Nat : Extends(Penalty(retry, quota, kind, hint, t), retry, quota, kind, x, t)
<1> DEFINE window == QuotaWindow(quota, hint, t)
           gate == nextCloudflareCooldown(quota.backoffLevel, t)
           limited == [exceeded |-> TRUE, reason |-> "quota",
                       nextRecoverAt |-> window.next, backoffLevel |-> window.level]
           challenged == [exceeded |-> TRUE, reason |-> "cloudflare challenge",
                          nextRecoverAt |-> gate.next, backoffLevel |-> gate.level]
           Extended(next) ==
             IF next # Zero /\ retry > next /\ retry > t THEN retry ELSE next
           p == Penalty(retry, quota, kind, hint, t)
<1>1. /\ window.next \in Nat /\ window.next <= t + QuotaCeiling
      /\ CoolingDisabled <=> window.next = 0
  BY WindowType, WindowAhead
<1>2. /\ gate.next \in Nat /\ gate.next <= t + QuotaCeiling
      /\ CoolingDisabled <=> gate.next = 0
  <2>1. quota.backoffLevel \in Nat /\ t + QuotaCeiling \in Nat
    BY Times DEF Quotas
  <2> QED  BY <2>1, CloudflareType, CloudflareAhead
<1>3. /\ RefusedUntil(t) \in Nat /\ (CoolingDisabled <=> RefusedUntil(t) = 0)
      /\ MissingUntil(t) \in Nat /\ (CoolingDisabled <=> MissingUntil(t) = 0)
      /\ recoverableFailureRetryAfter(hint, t) \in Nat
      /\ (CoolingDisabled \/ TransientCooldown = 0 <=> recoverableFailureRetryAfter(hint, t) = 0)
  <2>1. hint # NoHint => hint \in Nat
    BY SchedulerAssumption
  <2>2. RefusedCooldown \in Nat /\ MissingCooldown \in Nat /\ TransientCooldown \in Nat /\ Zero = 0
    BY Times
  <2> QED  BY <2>1, <2>2 DEF RefusedUntil, MissingUntil, recoverableFailureRetryAfter
<1>4. p = CASE kind \in {"unauthorized", "refused"} ->
                 [retry |-> Extended(RefusedUntil(t)), quota |-> quota]
            [] kind = "missing" -> [retry |-> Extended(MissingUntil(t)), quota |-> quota]
            [] kind = "transient" ->
                 [retry |-> Extended(recoverableFailureRetryAfter(hint, t)), quota |-> quota]
            [] kind = "quota" -> [retry |-> Extended(window.next), quota |-> limited]
            [] kind = "challenge" -> [retry |-> Extended(gate.next), quota |-> challenged]
  BY DEF Penalty
<1>5. /\ limited.exceeded = TRUE /\ limited.nextRecoverAt = window.next
      /\ challenged.exceeded = TRUE /\ challenged.nextRecoverAt = gate.next
  OBVIOUS
<1>6. \A x \in Nat : Extended(x) = IF x # 0 /\ retry > x /\ retry > t THEN retry ELSE x
  BY DEF Zero
<1> HIDE DEF window, gate, limited, challenged, Extended, p
<1>7. ASSUME NEW x \in Nat, Uncooling(kind) <=> x = 0, NEW q,
             p = [retry |-> Extended(x), quota |-> q],
             \/ q = quota
             \/ /\ kind # "transient"
                /\ q.exceeded = TRUE /\ q.nextRecoverAt = x /\ x <= t + QuotaCeiling
      PROVE  \E y \in Nat : Extends(p, retry, quota, kind, y, t)
  <2>1. p.retry = Extended(x) /\ p.quota = q
    BY <1>7
  <2>2. Extends(p, retry, quota, kind, x, t)
    BY <1>6, <1>7, <2>1 DEF Extends
  <2> QED  BY <2>2
<1>8. CASE kind \in {"unauthorized", "refused"}
  <2>1. p = [retry |-> Extended(RefusedUntil(t)), quota |-> quota]
    BY <1>4, <1>8
  <2> QED  BY <1>8, <1>3, <1>7, <2>1 DEF p, Uncooling
<1>9. CASE kind = "missing"
  <2>1. p = [retry |-> Extended(MissingUntil(t)), quota |-> quota]
    BY <1>4, <1>9
  <2> QED  BY <1>9, <1>3, <1>7, <2>1 DEF p, Uncooling
<1>10. CASE kind = "transient"
  <2>1. p = [retry |-> Extended(recoverableFailureRetryAfter(hint, t)), quota |-> quota]
    BY <1>4, <1>10
  <2> QED  BY <1>10, <1>3, <1>7, <2>1 DEF p, Uncooling
<1>11. CASE kind = "quota"
  <2>1. p = [retry |-> Extended(window.next), quota |-> limited]
    BY <1>4, <1>11
  <2> QED  BY <1>11, <1>1, <1>5, <1>7, <2>1 DEF p, Uncooling
<1>12. CASE kind = "challenge"
  <2>1. p = [retry |-> Extended(gate.next), quota |-> challenged]
    BY <1>4, <1>12
  <2> QED  BY <1>12, <1>2, <1>5, <1>7, <2>1 DEF p, Uncooling
<1> QED  BY <1>8, <1>9, <1>10, <1>11, <1>12 DEF Failures

LEMMA FailedSound ==
  ASSUME NEW s \in ModelStates, NEW kind \in Failures, NEW hint \in Hints, NEW t \in Nat, t > 0,
         Sound(s, t)
  PROVE  /\ Sound(Failed(s, kind, hint, t), t)
         /\ TransientCooldown # 0 /\ s.nextRetryAfter > t
              => Failed(s, kind, hint, t).nextRetryAfter >= s.nextRetryAfter
<1> DEFINE p == Penalty(s.nextRetryAfter, s.quota, kind, hint, t)
           f == [s EXCEPT !.unavailable = kind # "transient" \/ p.retry # Zero,
                          !.status = "error", !.lastError = ErrorOf(kind),
                          !.nextRetryAfter = p.retry, !.quota = p.quota]
           u == [f EXCEPT !.unavailable = FALSE, !.quota.exceeded = FALSE]
<1>1. /\ s.nextRetryAfter \in Nat /\ s.quota \in Quotas /\ s.quota.nextRecoverAt \in Nat
      /\ QuotaCeiling \in Nat
  BY Times DEF ModelStates, Quotas
<1>2. p.quota \in Quotas
  BY <1>1, PenaltyType
<1>3. PICK x \in Nat : Extends(p, s.nextRetryAfter, s.quota, kind, x, t)
  BY <1>1, PenaltyForm
<1>4. Failed(s, kind, hint, t) = Uncooled(f)
  BY DEF Failed
<1> HIDE DEF p
<1>5. /\ f.unavailable = (kind # "transient" \/ p.retry # 0)
      /\ f.nextRetryAfter = p.retry /\ f.quota = p.quota
  BY DEF ModelStates, Zero
<1>6. /\ u.unavailable = FALSE /\ u.nextRetryAfter = p.retry
      /\ u.quota.exceeded = FALSE /\ u.quota.nextRecoverAt = p.quota.nextRecoverAt
  BY <1>2 DEF ModelStates, Quotas
<1> HIDE DEF f, u
<1>7. Uncooled(f) = IF CoolingDisabled /\ f.nextRetryAfter = Zero /\ f.quota.nextRecoverAt = Zero
                    THEN u ELSE f
  BY DEF Uncooled, u
<1>8. CASE CoolingDisabled
  <2>1. s.quota.nextRecoverAt = 0 /\ s.nextRetryAfter = 0
    BY <1>8 DEF Sound
  <2>2. p.retry = 0 /\ p.quota.nextRecoverAt = 0
    BY <1>3, <1>8, <2>1 DEF Extends, Uncooling
  <2>3. Failed(s, kind, hint, t) = u
    BY <1>4, <1>5, <1>7, <1>8, <2>2 DEF Zero
  <2>4. Sound(u, t)
    BY <1>1, <1>6, <2>2 DEF Sound
  <2> QED  BY <2>1, <2>3, <2>4
<1>9. CASE ~CoolingDisabled /\ Uncooling(kind)
  <2>1. Failed(s, kind, hint, t) = f
    BY <1>4, <1>7, <1>9
  <2>2. kind = "transient" /\ TransientCooldown = 0
    BY <1>9 DEF Uncooling
  <2>3. p.retry = 0 /\ p.quota = s.quota
    BY <1>3, <1>9, <2>2 DEF Extends
  <2>4. f.unavailable = FALSE /\ f.nextRetryAfter = 0 /\ f.quota = s.quota
    BY <1>5, <2>2, <2>3
  <2>5. Sound(f, t)
    BY <1>9, <2>2, <2>4 DEF Sound
  <2> QED  BY <2>1, <2>2, <2>5
<1>10. CASE ~CoolingDisabled /\ ~Uncooling(kind)
  <2>1. Failed(s, kind, hint, t) = f
    BY <1>4, <1>7, <1>10
  <2>2. x \in Nat /\ x > 0
    BY <1>3, <1>10 DEF Extends
  <2>3. /\ p.retry \in Nat /\ p.retry > 0 /\ p.retry >= x
        /\ s.nextRetryAfter > t => p.retry >= s.nextRetryAfter
    BY <1>1, <1>3, <2>2 DEF Extends
  <2>4. f.unavailable = TRUE
    <3>1. p.retry # 0
      BY <2>3
    <3>2. (kind # "transient" \/ p.retry # 0) = TRUE
      BY <3>1
    <3> QED  BY <1>5, <3>2
  <2>5. ASSUME p.quota = s.quota PROVE Sound(f, t)
    <3>1. /\ s.quota.exceeded <=> s.quota.nextRecoverAt # 0
          /\ TransientCooldown # 0 /\ s.quota.nextRecoverAt > t
               => s.nextRetryAfter >= s.quota.nextRecoverAt
          /\ s.quota.nextRecoverAt <= t + QuotaCeiling
      BY DEF Sound
    <3>2. TransientCooldown # 0 /\ s.quota.nextRecoverAt > t => p.retry >= s.quota.nextRecoverAt
      BY <1>1, <2>3, <3>1
    <3> QED  BY <1>5, <1>10, <2>3, <2>4, <2>5, <3>1, <3>2 DEF Sound
  <2>6. ASSUME p.quota.exceeded = TRUE, p.quota.nextRecoverAt = x, x <= t + QuotaCeiling
        PROVE  Sound(f, t)
    BY <1>5, <1>10, <2>2, <2>3, <2>4, <2>6 DEF Sound
  <2> QED  BY <1>3, <1>5, <2>1, <2>3, <2>5, <2>6 DEF Extends
<1> QED  BY <1>8, <1>9, <1>10

-----------------------------------------------------------------------------
(***************************************************************************)
(* Sound credentials.                                                      *)
(***************************************************************************)
SoundModels(a, t) == \A m \in DOMAIN a.models : Sound(a.models[m], t)

\* What holds a model back in a holds it back in b for as long.
HoldsBack(a, b, t) ==
  \A m \in DOMAIN a.models :
    /\ m \in DOMAIN b.models
    /\ \A u \in Nat : t <= u =>
         /\ a.models[m].nextRetryAfter > u => b.models[m].nextRetryAfter > u
         /\ Waits(a.models[m], u) => Waits(b.models[m], u)

\* A refusal of the credential counts while all of its models are down, and it
\* is taken for unavailable then.
AllDown(a, t) == DOMAIN a.models # {} /\ \A m \in DOMAIN a.models : Down(a.models[m], t)

Alert(a, t) ==
  AllDown(a, t) /\ a.status = "error" /\ a.lastError = "unauthorized" => a.unavailable

Fit(a, t) == SoundModels(a, t) /\ Alert(a, t)

\* The parts of a credential that an aggregation leaves alone.
SameFace(a, b) ==
  /\ b.disabled = a.disabled /\ b.expiry = a.expiry
  /\ b.status = a.status /\ b.lastError = a.lastError

LEMMA AggregatedForm ==
  ASSUME NEW a \in Auths, NEW t \in Nat
  PROVE  LET u == updateAggregatedAvailability(a, t)
         IN  /\ SameFace(a, u)
             /\ DOMAIN u.models = DOMAIN a.models
             /\ \A m \in DOMAIN a.models : u.models[m] \in {a.models[m], Expire(a.models[m], t)}
             /\ CredentialQuota(a, t) => u.unavailable
             /\ ~CredentialQuota(a, t) /\ DOMAIN a.models # {} => u.unavailable = AllDown(a, t)
             /\ ~CredentialQuota(a, t) /\ DOMAIN a.models = {} =>
                  u.unavailable = FALSE /\ u.quota = NoQuota
<1> DEFINE known == DOMAIN a.models
           states == {a.models[m] : m \in known}
           all == states = {s \in states : Down(s, t)}
           expired == [m \in known |-> Expire(a.models[m], t)]
           retry == IF all THEN Min({s.nextRetryAfter : s \in states}) ELSE Zero
           quota == AggregatedQuota(a.quota, states, t)
           held1 == [a EXCEPT !.unavailable = TRUE]
           merged == [a EXCEPT !.models = expired, !.unavailable = all,
                               !.nextRetryAfter = retry, !.quota = quota]
           u == updateAggregatedAvailability(a, t)
<1>1. u = IF CredentialQuota(a, t) THEN held1
          ELSE IF known = {} THEN clearAggregatedAvailability(a) ELSE merged
  BY DEF updateAggregatedAvailability
<1>2. SameFace(a, held1) /\ held1.models = a.models /\ held1.unavailable = TRUE
  BY DEF Auths, SameFace
<1>3. LET c == clearAggregatedAvailability(a)
      IN  SameFace(a, c) /\ c.models = a.models /\ c.unavailable = FALSE /\ c.quota = NoQuota
  BY DEF Auths, SameFace, clearAggregatedAvailability
<1>4. all <=> \A m \in known : Down(a.models[m], t)
  OBVIOUS
<1>5. /\ DOMAIN expired = known
      /\ \A m \in known : expired[m] = Expire(a.models[m], t)
  OBVIOUS
<1>6. all \in BOOLEAN
  OBVIOUS
<1> HIDE DEF all, expired, retry, quota
<1>7. SameFace(a, merged) /\ merged.models = expired /\ merged.unavailable = all
  BY DEF Auths, SameFace
<1>8. known # {} => all = AllDown(a, t)
  BY <1>4, <1>6 DEF AllDown
<1> HIDE DEF held1, merged, u
<1>9. CASE CredentialQuota(a, t)
  <2>1. u = held1
    BY <1>1, <1>9
  <2> QED  BY <1>2, <1>9, <2>1 DEF u
<1>10. CASE ~CredentialQuota(a, t) /\ known = {}
  <2>1. u = clearAggregatedAvailability(a)
    BY <1>1, <1>10
  <2> QED  BY <1>3, <1>10, <2>1 DEF u
<1>11. CASE ~CredentialQuota(a, t) /\ known # {}
  <2>1. u = merged
    BY <1>1, <1>11
  <2>2. u.unavailable = AllDown(a, t)
    BY <1>7, <1>8, <1>11, <2>1
  <2> QED  BY <1>5, <1>7, <1>11, <2>1, <2>2 DEF u
<1> QED  BY <1>9, <1>10, <1>11

LEMMA AuthFields ==
  ASSUME NEW a \in Auths
  PROVE  /\ a.disabled \in BOOLEAN /\ a.unavailable \in BOOLEAN /\ a.nextRetryAfter \in Nat
         /\ a.models \in ModelMaps /\ DOMAIN a.models \in SUBSET Models
         /\ \A m \in DOMAIN a.models : a.models[m] \in ModelStates
         /\ a.quota \in Quotas /\ a.quota.nextRecoverAt \in Nat /\ a.quota.exceeded \in BOOLEAN
<1>1. a.models \in ModelMaps /\ a.quota \in Quotas
  BY DEF Auths
<1> QED  BY <1>1, MapType DEF Auths, Quotas

LEMMA SoundDown ==
  ASSUME NEW s \in ModelStates, NEW t \in Nat, Sound(s, t)
  PROVE  Down(s, t) <=> s.nextRetryAfter > t
<1>1. s.nextRetryAfter \in Nat
  BY DEF ModelStates
<1> QED  BY <1>1 DEF Down, Sound

LEMMA DownWithIt ==
  ASSUME NEW a \in Auths, NEW b \in Auths, NEW t \in Nat, SoundModels(a, t), SoundModels(b, t),
         HoldsBack(a, b, t), DOMAIN b.models = DOMAIN a.models, AllDown(a, t)
  PROVE  AllDown(b, t)
<1> SUFFICES ASSUME NEW m \in DOMAIN b.models PROVE Down(b.models[m], t)
  BY DEF AllDown
<1>1. /\ a.models[m] \in ModelStates /\ Sound(a.models[m], t)
      /\ b.models[m] \in ModelStates /\ Sound(b.models[m], t)
  BY AuthFields DEF SoundModels
<1>2. a.models[m].nextRetryAfter > t
  BY <1>1, SoundDown DEF AllDown
<1>3. b.models[m].nextRetryAfter > t
  BY <1>2 DEF HoldsBack
<1> QED  BY <1>1, <1>3, SoundDown

LEMMA HoldsOn ==
  ASSUME NEW a, NEW b, NEW c, NEW t \in Nat, HoldsBack(a, b, t), HoldsBack(b, c, t)
  PROVE  HoldsBack(a, c, t)
BY DEF HoldsBack

\* An aggregation changes no model's deadline, and sounds the alert.
LEMMA AggregatedFit ==
  ASSUME NEW a \in Auths, NEW t \in Nat, SoundModels(a, t),
         NEW u \in Auths, u = updateAggregatedAvailability(a, t)
  PROVE  Fit(u, t) /\ HoldsBack(a, u, t) /\ HoldsBack(u, a, t)
<1>1. /\ SameFace(a, u)
      /\ DOMAIN u.models = DOMAIN a.models
      /\ \A m \in DOMAIN a.models : u.models[m] \in {a.models[m], Expire(a.models[m], t)}
      /\ CredentialQuota(a, t) => u.unavailable
      /\ ~CredentialQuota(a, t) /\ DOMAIN a.models # {} => u.unavailable = AllDown(a, t)
  BY AggregatedForm
<1>2. ASSUME NEW m \in DOMAIN a.models
      PROVE  /\ Sound(u.models[m], t)
             /\ \A v \in Nat : t <= v =>
                  /\ u.models[m].nextRetryAfter > v <=> a.models[m].nextRetryAfter > v
                  /\ Waits(u.models[m], v) <=> Waits(a.models[m], v)
  <2>1. a.models[m] \in ModelStates /\ Sound(a.models[m], t)
    BY AuthFields DEF SoundModels
  <2>2. u.models[m] = a.models[m] \/ u.models[m] = Expire(a.models[m], t)
    BY <1>1
  <2> QED  BY <2>1, <2>2, SoundExpire
<1>3. SoundModels(u, t) /\ HoldsBack(a, u, t) /\ HoldsBack(u, a, t)
  BY <1>1, <1>2 DEF SoundModels, HoldsBack
<1>4. ASSUME AllDown(u, t) PROVE u.unavailable
  <2>1. AllDown(a, t) /\ DOMAIN a.models # {}
    BY <1>1, <1>3, <1>4, DownWithIt DEF AllDown
  <2> QED  BY <1>1, <2>1
<1> QED  BY <1>3, <1>4 DEF Fit, Alert

LEMMA ForgetFit ==
  ASSUME NEW a \in Auths, NEW t \in Nat
  PROVE  LET f == ForgetError(a, t)
         IN  /\ f.models = a.models /\ f.disabled = a.disabled /\ f.expiry = a.expiry
             /\ f.unavailable = a.unavailable /\ f.quota = a.quota
             /\ f = a \/ f.lastError = "none"
             /\ Fit(a, t) => Fit(f, t)
<1> DEFINE f == ForgetError(a, t)
           g == [a EXCEPT !.lastError = "none", !.status = "active"]
<1>1. f = a \/ f = g
  BY DEF ForgetError
<1>2. /\ g.models = a.models /\ g.disabled = a.disabled /\ g.expiry = a.expiry
      /\ g.unavailable = a.unavailable /\ g.quota = a.quota /\ g.lastError = "none"
  BY DEF Auths
<1> HIDE DEF f, g
<1>3. /\ f.models = a.models /\ f.disabled = a.disabled /\ f.expiry = a.expiry
      /\ f.unavailable = a.unavailable /\ f.quota = a.quota
      /\ f = a \/ f.lastError = "none"
  BY <1>1, <1>2
<1>4. Fit(a, t) => Fit(f, t)
  BY <1>3 DEF Fit, SoundModels, Alert
<1> QED  BY <1>3, <1>4 DEF f

LEMMA ModelsSet ==
  ASSUME NEW a \in Auths, NEW f
  PROVE  LET b == [a EXCEPT !.models = f]
         IN  SameFace(a, b) /\ b.models = f /\ b.unavailable = a.unavailable /\ b.quota = a.quota
BY DEF Auths, SameFace

LEMMA ScopeQuotaModels ==
  ASSUME NEW a \in Auths, NEW m, NEW w, w.next \in Nat, NEW t \in Nat, w.next > t,
         ~CoolingDisabled, SoundModels(a, t)
  PROVE  LET s == ScopeQuota(a, m, w, t)
         IN  SameFace(a, s) /\ DOMAIN s.models = DOMAIN a.models /\ SoundModels(s, t)
             /\ HoldsBack(a, s, t)
<1> DEFINE Until(quota) ==
             clampQuotaCooldown(
               IF quota.exceeded THEN Later(w.next, quota.nextRecoverAt) ELSE w.next, t)
           Limit(quota) ==
             [exceeded |-> TRUE, reason |-> "credential_quota",
              nextRecoverAt |-> Until(quota), backoffLevel |-> w.level]
           Sibling(s) ==
             [s EXCEPT !.unavailable = TRUE, !.status = "error",
                       !.nextRetryAfter = Later(Until(s.quota), s.nextRetryAfter),
                       !.quota = Limit(s.quota)]
           until == clampQuotaCooldown(Later(w.next, a.quota.nextRecoverAt), t)
           models == [n \in DOMAIN a.models |->
                        IF n = m THEN a.models[n] ELSE Sibling(a.models[n])]
           s == ScopeQuota(a, m, w, t)
<1>1. \A quota \in Quotas :
        /\ Until(quota) \in Nat /\ Until(quota) > t /\ Until(quota) <= t + QuotaCeiling
        /\ quota.exceeded /\ quota.nextRecoverAt <= t + QuotaCeiling
             => Until(quota) >= quota.nextRecoverAt
  <2> TAKE quota \in Quotas
  <2> DEFINE x == IF quota.exceeded THEN Later(w.next, quota.nextRecoverAt) ELSE w.next
  <2>1. quota.nextRecoverAt \in Nat
    BY DEF Quotas
  <2>2. LET l == Later(w.next, quota.nextRecoverAt)
        IN  l \in Nat /\ l >= w.next /\ l >= quota.nextRecoverAt
    BY <2>1, Times
  <2>3. x \in Nat /\ x > t /\ (quota.exceeded => x >= quota.nextRecoverAt)
    BY <2>2
  <2> HIDE DEF x
  <2>4. QuotaCeiling \in Nat /\ QuotaCeiling > 0
    BY CooldownAssumption
  <2>5. LET c == clampQuotaCooldown(x, t)
        IN  /\ c \in Nat /\ c > t /\ c <= t + QuotaCeiling
            /\ quota.exceeded /\ quota.nextRecoverAt <= t + QuotaCeiling
                 => c >= quota.nextRecoverAt
    BY <2>1, <2>3, <2>4 DEF clampQuotaCooldown
  <2> QED  BY <2>5 DEF x
<1> HIDE DEF Until
<1>2. \A quota : Limit(quota).exceeded = TRUE /\ Limit(quota).nextRecoverAt = Until(quota)
  OBVIOUS
<1> HIDE DEF Limit
<1>3. ASSUME NEW n \in ModelStates
      PROVE  /\ Sound(Sibling(n), t) /\ Sibling(n).nextRetryAfter >= n.nextRetryAfter
             /\ Sound(n, t) => Sibling(n).quota.nextRecoverAt >= n.quota.nextRecoverAt
  <2>1. n.quota \in Quotas /\ n.nextRetryAfter \in Nat
    BY DEF ModelStates
  <2>2. /\ Sibling(n).unavailable = TRUE /\ Sibling(n).quota = Limit(n.quota)
        /\ Sibling(n).nextRetryAfter = Later(Until(n.quota), n.nextRetryAfter)
    BY DEF ModelStates
  <2> HIDE DEF Sibling
  <2>3. /\ Until(n.quota) \in Nat /\ Until(n.quota) > t /\ Until(n.quota) <= t + QuotaCeiling
    BY <1>1, <2>1
  <2>4. /\ Sibling(n).nextRetryAfter \in Nat /\ Sibling(n).nextRetryAfter >= Until(n.quota)
        /\ Sibling(n).nextRetryAfter >= n.nextRetryAfter
    <3> DEFINE x == Until(n.quota)
               y == n.nextRetryAfter
    <3>1. x \in Nat /\ y \in Nat /\ Sibling(n).nextRetryAfter = Later(x, y)
      BY <2>1, <2>2, <2>3
    <3> HIDE DEF x, y
    <3>2. Later(x, y) \in Nat /\ Later(x, y) >= x /\ Later(x, y) >= y
      BY <3>1, Times
    <3> QED  BY <3>1, <3>2 DEF x, y
  <2>5. Sibling(n).quota.exceeded = TRUE /\ Sibling(n).quota.nextRecoverAt = Until(n.quota)
    BY <1>2, <2>2
  <2>6. Sibling(n).nextRetryAfter # 0 /\ Until(n.quota) # 0
    BY <2>3, <2>4
  <2>7. Sound(Sibling(n), t)
    BY <2>2, <2>3, <2>4, <2>5, <2>6 DEF Sound
  <2>8. ASSUME Sound(n, t) PROVE Until(n.quota) >= n.quota.nextRecoverAt
    <3>1. n.quota.nextRecoverAt \in Nat
      BY <2>1 DEF Quotas
    <3>2. n.quota.nextRecoverAt <= t + QuotaCeiling
      BY <2>8 DEF Sound
    <3>3. CASE n.quota.exceeded
      BY <1>1, <2>1, <3>2, <3>3
    <3>4. CASE ~n.quota.exceeded
      <4>1. n.quota.nextRecoverAt = 0
        BY <2>8, <3>4 DEF Sound
      <4> QED  BY <2>3, <4>1
    <3> QED  BY <3>3, <3>4
  <2> QED  BY <2>4, <2>5, <2>7, <2>8
<1>4. s.models = models /\ SameFace(a, s)
  <2> DEFINE q == [a.quota EXCEPT !.exceeded = TRUE, !.reason = "credential_quota",
                                  !.nextRecoverAt = until]
             r == [a EXCEPT !.models = models, !.unavailable = TRUE,
                            !.nextRetryAfter = until, !.quota = q]
  <2>1. s = r
    BY DEF ScopeQuota, Sibling, Until, Limit
  <2> HIDE DEF models, until, q
  <2>2. r.models = models /\ SameFace(a, r)
    BY DEF Auths, SameFace
  <2> QED  BY <2>1, <2>2
<1> HIDE DEF Sibling, s
<1>5. DOMAIN models = DOMAIN a.models
  OBVIOUS
<1>6. ASSUME NEW n \in DOMAIN a.models
      PROVE  /\ Sound(models[n], t) /\ models[n].nextRetryAfter >= a.models[n].nextRetryAfter
             /\ models[n].nextRetryAfter \in Nat /\ models[n].quota.nextRecoverAt \in Nat
             /\ models[n].quota.nextRecoverAt >= a.models[n].quota.nextRecoverAt
  <2>1. a.models[n] \in ModelStates /\ Sound(a.models[n], t)
    BY AuthFields DEF SoundModels
  <2>2. a.models[n].nextRetryAfter \in Nat /\ a.models[n].quota.nextRecoverAt \in Nat
    BY <2>1 DEF ModelStates, Quotas
  <2>3. CASE n = m
    BY <2>1, <2>2, <2>3
  <2>4. CASE n # m
    <3>1. models[n] = Sibling(a.models[n])
      BY <2>4
    <3>2. /\ Sibling(a.models[n]).nextRetryAfter \in Nat
          /\ Sibling(a.models[n]).quota.nextRecoverAt \in Nat
      <4>1. a.models[n].quota \in Quotas
        BY <2>1 DEF ModelStates
      <4>2. Sibling(a.models[n]).nextRetryAfter =
              Later(Until(a.models[n].quota), a.models[n].nextRetryAfter)
        BY <2>1 DEF ModelStates, Sibling
      <4>3. Sibling(a.models[n]).quota = Limit(a.models[n].quota)
        BY <2>1 DEF ModelStates, Sibling
      <4> QED  BY <1>1, <1>2, <2>2, <4>1, <4>2, <4>3, Times
    <3> QED  BY <1>3, <2>1, <3>1, <3>2
  <2> QED  BY <2>3, <2>4
<1> HIDE DEF models
<1>7. SoundModels(s, t)
  BY <1>4, <1>5, <1>6 DEF SoundModels
<1>8. HoldsBack(a, s, t)
  <2> SUFFICES ASSUME NEW n \in DOMAIN a.models, NEW u \in Nat
               PROVE  /\ a.models[n].nextRetryAfter > u => models[n].nextRetryAfter > u
                      /\ Waits(a.models[n], u) => Waits(models[n], u)
    BY <1>4, <1>5 DEF HoldsBack
  <2>1. a.models[n].nextRetryAfter \in Nat /\ a.models[n].quota.nextRecoverAt \in Nat
    BY AuthFields DEF ModelStates, Quotas
  <2> QED  BY <1>6, <2>1 DEF Waits
<1> QED  BY <1>4, <1>5, <1>7, <1>8 DEF s

-----------------------------------------------------------------------------
(***************************************************************************)
(* What results do to a fit credential.                                    *)
(***************************************************************************)
\* Where its own deadline decides for a model, it is enough to compare those.
LEMMA HeldByDeadline ==
  ASSUME TransientCooldown # 0, NEW a \in Auths, NEW b \in Auths, NEW t \in Nat,
         SoundModels(a, t), SoundModels(b, t), DOMAIN a.models \subseteq DOMAIN b.models,
         \A n \in DOMAIN a.models : \A u \in Nat :
           t <= u /\ a.models[n].nextRetryAfter > u => b.models[n].nextRetryAfter > u
  PROVE  HoldsBack(a, b, t)
<1> SUFFICES ASSUME NEW n \in DOMAIN a.models, NEW u \in Nat, t <= u, Waits(a.models[n], u)
             PROVE  Waits(b.models[n], u)
  BY DEF HoldsBack
<1>1. /\ a.models[n] \in ModelStates /\ Sound(a.models[n], t)
      /\ b.models[n] \in ModelStates /\ Sound(b.models[n], t)
  BY AuthFields DEF SoundModels
<1>2. a.models[n].nextRetryAfter > u
  BY <1>1, SoundBar
<1>3. b.models[n].nextRetryAfter > u
  BY <1>2
<1> QED  BY <1>3 DEF Waits

\* A model's failure leaves the credential fit, and holds every model back for as long as it was.
LEMMA ModelFailedFit ==
  ASSUME NEW a \in Auths, NEW result \in Results, result.model \in Models,
         result.kind \in Failures, NEW t \in Nat, t > 0, Capped(a, t), SoundModels(a, t)
  PROVE  LET f == ModelFailed(a, result, t)
         IN  /\ Fit(f, t) /\ (TransientCooldown # 0 => HoldsBack(a, f, t))
             /\ f.expiry = a.expiry /\ DOMAIN f.models # {}
             /\ f.lastError = ErrorOf(result.kind)
<1> DEFINE m == result.model
           state == ensureModelState(a, m)
           after == Failed(state, result.kind, result.hint, t)
           models == [n \in DOMAIN a.models \cup {m} |-> IF n = m THEN after ELSE a.models[n]]
           failed == [a EXCEPT !.models = models, !.lastError = ErrorOf(result.kind),
                               !.status = "error"]
           window == QuotaWindow(state.quota, result.hint, t)
           scoped == result.kind = "quota" /\ result.scope /\ ~CoolingDisabled
           held1 == ScopeQuota(failed, m, window, t)
           before == IF scoped THEN held1 ELSE failed
           f == ModelFailed(a, result, t)
<1>1. result.hint \in Hints
  BY ResultType
<1>2. /\ state \in ModelStates /\ Sound(state, t)
      /\ m \in DOMAIN a.models => state = a.models[m]
  BY AuthFields, FreshTypes, SoundReset DEF ensureModelState, SoundModels
<1>3. f = updateAggregatedAvailability(before, t)
  BY DEF ModelFailed
<1> HIDE DEF state
<1>4. /\ after \in ModelStates /\ Sound(after, t)
      /\ TransientCooldown # 0 /\ state.nextRetryAfter > t
           => after.nextRetryAfter >= state.nextRetryAfter
  BY <1>1, <1>2, FailedType, FailedSound
<1> HIDE DEF after
<1>5. models \in ModelMaps /\ DOMAIN models = DOMAIN a.models \cup {m}
  <2>1. \A n \in DOMAIN a.models \cup {m} : models[n] \in ModelStates
    BY <1>4, AuthFields
  <2>2. DOMAIN a.models \cup {m} \in SUBSET Models
    BY AuthFields
  <2>3. models \in [DOMAIN a.models \cup {m} -> ModelStates]
    BY <2>1
  <2> HIDE DEF models
  <2> QED  BY <2>2, <2>3, MapType
<1>6. \A n \in DOMAIN models : Sound(models[n], t)
  BY <1>4 DEF SoundModels
<1>7. ASSUME TransientCooldown # 0,
             NEW n \in DOMAIN a.models, NEW u \in Nat, t <= u, a.models[n].nextRetryAfter > u
      PROVE  models[n].nextRetryAfter > u
  <2>1. CASE n # m
    BY <1>7, <2>1
  <2>2. CASE n = m
    <3>1. models[n] = after /\ state = a.models[n]
      BY <1>2, <2>2
    <3>2. after.nextRetryAfter \in Nat /\ state.nextRetryAfter \in Nat
      BY <1>2, <1>4 DEF ModelStates
    <3> QED  BY <1>4, <1>7, <3>1, <3>2
  <2> QED  BY <2>1, <2>2
<1> HIDE DEF models
<1>8. ErrorOf(result.kind) \in Errors
  BY DEF ErrorOf, Errors
<1>9. /\ failed \in Auths /\ failed.models = models /\ failed.expiry = a.expiry
      /\ failed.lastError = ErrorOf(result.kind) /\ failed.quota = a.quota
  BY <1>5, <1>8 DEF Auths, Statuses
<1> HIDE DEF failed
<1>10. /\ SoundModels(failed, t) /\ Capped(failed, t)
       /\ TransientCooldown # 0 => HoldsBack(a, failed, t)
  <2>1. SoundModels(failed, t) /\ Capped(failed, t)
    BY <1>5, <1>6, <1>9, SameQuota DEF SoundModels
  <2>2. ASSUME TransientCooldown # 0 PROVE HoldsBack(a, failed, t)
    BY <1>5, <1>7, <1>9, <2>1, <2>2, HeldByDeadline
  <2> QED  BY <2>1, <2>2
<1>11. window.next \in Nat /\ window.level \in Nat /\ (~CoolingDisabled => window.next > t)
  BY <1>1, <1>2, WindowType, WindowAhead DEF ModelStates
<1> HIDE DEF window
<1>12. ASSUME scoped
       PROVE  /\ held1 \in Auths /\ SameFace(failed, held1) /\ SoundModels(held1, t)
              /\ DOMAIN held1.models = DOMAIN failed.models /\ HoldsBack(failed, held1, t)
  <2>1. ~CoolingDisabled /\ window.next > t
    BY <1>11, <1>12
  <2>2. held1 \in Auths
    BY <1>9, <1>10, <1>11, ScopeQuotaKeeps
  <2> QED  BY <1>9, <1>10, <1>11, <2>1, <2>2, ScopeQuotaModels
<1> HIDE DEF held1, scoped
<1>13. /\ before \in Auths /\ SoundModels(before, t)
       /\ TransientCooldown # 0 => HoldsBack(a, before, t)
       /\ DOMAIN before.models = DOMAIN models
       /\ before.expiry = a.expiry /\ before.lastError = ErrorOf(result.kind)
  <2>1. CASE scoped
    BY <1>9, <1>10, <1>12, <2>1, HoldsOn DEF SameFace
  <2>2. CASE ~scoped
    BY <1>9, <1>10, <2>2
  <2> QED  BY <2>1, <2>2
<1> HIDE DEF before, f
<1>14. f \in Auths
  BY <1>3, <1>13, AggregatedType
<1>15. Fit(f, t) /\ HoldsBack(before, f, t)
  BY <1>3, <1>13, <1>14, AggregatedFit
<1>16. f.expiry = a.expiry /\ DOMAIN f.models = DOMAIN models /\ f.lastError = before.lastError
  BY <1>3, <1>13, AggregatedForm DEF SameFace
<1> QED  BY <1>5, <1>13, <1>15, <1>16, HoldsOn DEF f

LEMMA ModelSucceededFit ==
  ASSUME NEW a \in Auths, NEW m \in Models, NEW t \in Nat, SoundModels(a, t)
  PROVE  LET s == ModelSucceeded(a, m, t)
         IN  /\ Fit(s, t) /\ s.lastError \in {a.lastError, "none"} /\ DOMAIN s.models # {}
<1> DEFINE models == [n \in DOMAIN a.models \cup {m} |->
                        IF n = m THEN resetModelState ELSE a.models[n]]
           b == [a EXCEPT !.models = models]
           u == updateAggregatedAvailability(b, t)
           s == ForgetError(u, t)
<1>1. \A n \in DOMAIN models : models[n] \in ModelStates /\ Sound(models[n], t)
  BY AuthFields, FreshTypes, SoundReset DEF SoundModels
<1>2. models \in ModelMaps /\ DOMAIN models # {}
  <2>1. models \in [DOMAIN a.models \cup {m} -> ModelStates]
    BY <1>1
  <2>2. DOMAIN a.models \cup {m} \in SUBSET Models
    BY AuthFields
  <2>3. DOMAIN models = DOMAIN a.models \cup {m}
    OBVIOUS
  <2> HIDE DEF models
  <2> QED  BY <2>1, <2>2, <2>3, MapType
<1>3. ModelSucceeded(a, m, t) = s
  BY DEF ModelSucceeded
<1> HIDE DEF models
<1>4. b \in Auths /\ b.models = models /\ b.lastError = a.lastError
  BY <1>2, ModelsReplaced, ModelsSet DEF SameFace
<1> HIDE DEF b
<1>5. SoundModels(b, t)
  BY <1>1, <1>4 DEF SoundModels
<1>6. /\ u \in Auths /\ Fit(u, t) /\ DOMAIN u.models # {} /\ u.lastError = a.lastError
  <2>1. u \in Auths
    BY <1>4, AggregatedType
  <2>2. SameFace(b, u) /\ DOMAIN u.models = DOMAIN b.models
    BY <1>4, AggregatedForm
  <2> HIDE DEF u
  <2>3. u = updateAggregatedAvailability(b, t) => Fit(u, t)
    BY <1>4, <1>5, <2>1, AggregatedFit
  <2> QED  BY <1>2, <1>4, <2>1, <2>2, <2>3 DEF SameFace, u
<1> HIDE DEF u
<1>7. s.models = u.models /\ (s = u \/ s.lastError = "none") /\ Fit(s, t)
  BY <1>6, ForgetFit
<1> QED  BY <1>3, <1>6, <1>7

\* A failure without a model leaves the models as they are, and sounds the alert if one of them
\* can still be down.
LEMMA FailedFit ==
  ASSUME NEW a \in Auths, NEW kind \in Failures, NEW hint \in Hints, NEW t \in Nat, Fit(a, t)
  PROVE  Fit(Failed(a, kind, hint, t), t)
<1> DEFINE p == Penalty(a.nextRetryAfter, a.quota, kind, hint, t)
           f == [a EXCEPT !.unavailable = kind # "transient" \/ p.retry # Zero,
                          !.status = "error", !.lastError = ErrorOf(kind),
                          !.nextRetryAfter = p.retry, !.quota = p.quota]
           u == [f EXCEPT !.unavailable = FALSE, !.quota.exceeded = FALSE]
           r == Failed(a, kind, hint, t)
<1>1. r = IF CoolingDisabled /\ f.nextRetryAfter = Zero /\ f.quota.nextRecoverAt = Zero
          THEN u ELSE f
  BY DEF Failed, Uncooled
<1> HIDE DEF p
<1>2. /\ f.models = a.models /\ f.lastError = ErrorOf(kind)
      /\ f.unavailable = (kind # "transient" \/ p.retry # Zero)
  BY DEF Auths
<1>3. u.models = a.models
  BY DEF Auths
<1> HIDE DEF f, u, r
<1>4. SoundModels(r, t)
  BY <1>1, <1>2, <1>3 DEF Fit, SoundModels
<1>5. CASE r = f
  <2>1. f.lastError = "unauthorized" => f.unavailable
    BY <1>2 DEF ErrorOf
  <2> QED  BY <1>4, <1>5, <2>1 DEF Fit, Alert, r
<1>6. CASE r = u /\ CoolingDisabled
  <2>1. ASSUME NEW m \in DOMAIN a.models PROVE ~Down(a.models[m], t)
    <3>1. Sound(a.models[m], t)
      BY DEF Fit, SoundModels
    <3> QED  BY <1>6, <3>1 DEF Sound, Down
  <2>2. ~AllDown(r, t)
    BY <1>3, <1>6, <2>1 DEF AllDown
  <2> QED  BY <1>4, <2>2 DEF Fit, Alert, r
<1> QED  BY <1>1, <1>5, <1>6

-----------------------------------------------------------------------------
(***************************************************************************)
(* What the other operations do to a fit credential.                       *)
(***************************************************************************)
\* Nothing but a failure leaves a credential that has served no model blocked.
FreeUntilServed(a) == DOMAIN a.models = {} => ~a.unavailable /\ ~a.quota.exceeded

LEMMA LiftFit ==
  ASSUME NEW a \in Auths, NEW keep, NEW t \in Nat, Fit(a, t)
  PROVE  LET l == liftQuotaCooldownForAuth(a, keep, t)
         IN  /\ Fit(l, t) /\ HoldsBack(l, a, t) /\ FreeUntilServed(l)
             /\ DOMAIN l.models = DOMAIN a.models
             /\ l.expiry = a.expiry /\ l.lastError \in {a.lastError, "none"}
             /\ l.quota.reason # "credential_quota"
             /\ hasUnauthorizedAuthFailure(l) => hasUnauthorizedAuthFailure(a)
<1> DEFINE cleared == clearAggregatedAvailability(a)
           models == [m \in DOMAIN cleared.models |->
                        IF m \in keep THEN cleared.models[m] ELSE resetModelState]
           lifted == [cleared EXCEPT !.models = models]
           u == updateAggregatedAvailability(lifted, t)
           b == IF DOMAIN a.models = {} THEN lifted ELSE u
           l == liftQuotaCooldownForAuth(a, keep, t)
<1>1. l = ForgetError(b, t)
  BY DEF liftQuotaCooldownForAuth
<1>2. /\ cleared \in Auths /\ cleared.quota = NoQuota /\ cleared.models = a.models
      /\ cleared.unavailable = FALSE /\ SameFace(a, cleared)
  BY ClearedType DEF clearAggregatedAvailability, Auths, SameFace
<1> HIDE DEF cleared
<1>3. DOMAIN models = DOMAIN a.models
  BY <1>2
<1>4. \A m \in DOMAIN a.models : models[m] = a.models[m] \/ models[m] = resetModelState
  BY <1>2
<1>5. models \in ModelMaps
  <2>1. \A n \in DOMAIN a.models : models[n] \in ModelStates
    BY <1>4, AuthFields, FreshTypes
  <2>2. models \in [DOMAIN a.models -> ModelStates]
    BY <1>3, <2>1
  <2> HIDE DEF models
  <2> QED  BY <2>2, AuthFields, MapType
<1> HIDE DEF models
<1>6. /\ lifted \in Auths /\ lifted.models = models /\ lifted.quota = NoQuota
      /\ lifted.unavailable = FALSE /\ SameFace(a, lifted)
  <2>1. LET c == [cleared EXCEPT !.models = models]
        IN  c \in Auths /\ c.models = models /\ c.quota = cleared.quota
            /\ c.unavailable = cleared.unavailable /\ SameFace(cleared, c)
    BY <1>2, <1>5, ModelsReplaced, ModelsSet
  <2> QED  BY <1>2, <2>1 DEF SameFace
<1> HIDE DEF lifted
<1>7. resetModelState.nextRetryAfter = 0 /\ resetModelState.quota.nextRecoverAt = 0
  BY DEF resetModelState, NoQuota, Zero
<1>8. SoundModels(lifted, t) /\ HoldsBack(lifted, a, t)
  BY <1>3, <1>4, <1>6, <1>7, SoundReset DEF Fit, SoundModels, HoldsBack, Waits
<1>9. NoQuota.exceeded = FALSE /\ NoQuota.reason # "credential_quota"
  BY DEF NoQuota
<1>10. ~CredentialQuota(lifted, t)
  BY <1>6, <1>9 DEF CredentialQuota
<1> HIDE DEF u
<1>11. /\ u \in Auths /\ SameFace(lifted, u) /\ DOMAIN u.models = DOMAIN lifted.models
       /\ DOMAIN a.models # {} => u.unavailable = AllDown(lifted, t)
       /\ u.quota.reason # "credential_quota"
  <2>1. u = updateAggregatedAvailability(lifted, t)
    BY DEF u
  <2>2. u \in Auths /\ (u.quota.reason = "credential_quota" => u.quota = lifted.quota)
    BY <1>6, <2>1, AggregatedType
  <2>3. /\ SameFace(lifted, u) /\ DOMAIN u.models = DOMAIN lifted.models
        /\ DOMAIN lifted.models # {} => u.unavailable = AllDown(lifted, t)
    BY <1>6, <1>10, <2>1, AggregatedForm
  <2> QED  BY <1>3, <1>6, <1>9, <2>2, <2>3
<1>12. Fit(u, t) /\ HoldsBack(u, lifted, t)
  BY <1>6, <1>8, <1>11, AggregatedFit DEF u
<1>13. ASSUME AllDown(lifted, t) PROVE AllDown(a, t)
  BY <1>3, <1>6, <1>8, <1>13, DownWithIt DEF Fit
<1>14. /\ b \in Auths /\ Fit(b, t) /\ HoldsBack(b, a, t) /\ FreeUntilServed(b)
       /\ DOMAIN b.models = DOMAIN a.models /\ SameFace(a, b)
       /\ b.quota.reason # "credential_quota"
       /\ b.unavailable => AllDown(a, t)
  <2>1. CASE DOMAIN a.models = {}
    <3>1. b = lifted
      BY <2>1
    <3>2. ~AllDown(lifted, t)
      BY <1>3, <1>6, <2>1 DEF AllDown
    <3> QED  BY <1>3, <1>6, <1>8, <1>9, <3>1, <3>2 DEF Fit, Alert, FreeUntilServed
  <2>2. CASE DOMAIN a.models # {}
    <3>1. b = u
      BY <2>2
    <3>2. HoldsBack(u, a, t)
      BY <1>8, <1>12, HoldsOn
    <3>3. SameFace(a, u)
      BY <1>6, <1>11 DEF SameFace
    <3> QED  BY <1>3, <1>6, <1>11, <1>12, <1>13, <2>2, <3>1, <3>2, <3>3 DEF FreeUntilServed
  <2> QED  BY <2>1, <2>2
<1> HIDE DEF b, l
<1>15. /\ l.models = b.models /\ l.expiry = b.expiry /\ l.unavailable = b.unavailable
       /\ l.quota = b.quota /\ (l = b \/ l.lastError = "none") /\ Fit(l, t)
  BY <1>1, <1>14, ForgetFit
<1>16. HoldsBack(l, a, t) /\ FreeUntilServed(l)
  BY <1>14, <1>15 DEF HoldsBack, FreeUntilServed
<1>17. ASSUME hasUnauthorizedAuthFailure(l) PROVE hasUnauthorizedAuthFailure(a)
  <2>1. l = b /\ l.unavailable /\ l.status = "error" /\ l.lastError = "unauthorized"
    BY <1>15, <1>17 DEF hasUnauthorizedAuthFailure
  <2>2. a.status = "error" /\ a.lastError = "unauthorized" /\ AllDown(a, t)
    BY <1>14, <2>1 DEF SameFace
  <2> QED  BY <2>2 DEF Fit, Alert, hasUnauthorizedAuthFailure
<1> QED  BY <1>14, <1>15, <1>16, <1>17 DEF l, SameFace

\* A deadline is brought forward, and never set.
Sooner(r, s) ==
  /\ s.unavailable = r.unavailable /\ s.quota.exceeded = r.quota.exceeded
  /\ s.nextRetryAfter <= r.nextRetryAfter
  /\ s.quota.nextRecoverAt <= r.quota.nextRecoverAt
  /\ s.nextRetryAfter = 0 => r.nextRetryAfter = 0
  /\ s.quota.nextRecoverAt = 0 => r.quota.nextRecoverAt = 0

LEMMA ShortenFit ==
  ASSUME NEW a \in Auths, NEW resetAt \in Nat, NEW t \in Nat, resetAt > t, Fit(a, t)
  PROVE  LET s == shortenQuotaCooldownForAuth(a, resetAt)
         IN  /\ Fit(s, t) /\ HoldsBack(s, a, t) /\ Sooner(a, s)
             /\ DOMAIN s.models = DOMAIN a.models
             /\ s.expiry = a.expiry /\ s.lastError = a.lastError /\ s.status = a.status
             /\ s.quota.reason = a.quota.reason
<1> DEFINE S(r) ==
             [r EXCEPT
               !.quota.nextRecoverAt = IF r.quota.exceeded /\ @ > resetAt THEN resetAt ELSE @,
               !.nextRetryAfter = IF @ > resetAt THEN resetAt ELSE @]
           models == [m \in DOMAIN S(a).models |-> S(S(a).models[m])]
           s == shortenQuotaCooldownForAuth(a, resetAt)
<1>1. s = [S(a) EXCEPT !.models = models]
  BY DEF shortenQuotaCooldownForAuth
<1>2. ASSUME NEW n \in ModelStates
      PROVE  /\ Sooner(n, S(n)) /\ S(n).nextRetryAfter \in Nat /\ S(n).quota.nextRecoverAt \in Nat
             /\ S(n).nextRetryAfter \in {n.nextRetryAfter, resetAt}
             /\ n.nextRetryAfter > t => S(n).nextRetryAfter > t
             /\ Sound(n, t) => Sound(S(n), t)
  <2> DEFINE at == IF n.quota.exceeded /\ n.quota.nextRecoverAt > resetAt
                   THEN resetAt ELSE n.quota.nextRecoverAt
             retry == IF n.nextRetryAfter > resetAt THEN resetAt ELSE n.nextRetryAfter
  <2>1. /\ n.nextRetryAfter \in Nat /\ n.quota.nextRecoverAt \in Nat /\ QuotaCeiling \in Nat
        /\ n.quota.exceeded \in BOOLEAN /\ n.unavailable \in BOOLEAN
    BY Times DEF ModelStates, Quotas
  <2>2. /\ S(n).unavailable = n.unavailable /\ S(n).quota.exceeded = n.quota.exceeded
        /\ S(n).nextRetryAfter = retry /\ S(n).quota.nextRecoverAt = at
    BY DEF ModelStates, Quotas
  <2> HIDE DEF S
  <2>3. /\ retry \in Nat /\ at \in Nat /\ retry <= n.nextRetryAfter /\ at <= n.quota.nextRecoverAt
        /\ retry = 0 <=> n.nextRetryAfter = 0
        /\ at = 0 <=> n.quota.nextRecoverAt = 0
        /\ n.nextRetryAfter > t => retry > t
    BY <2>1
  <2>4. Sooner(n, S(n))
    BY <2>2, <2>3 DEF Sooner
  <2>5. ASSUME Sound(n, t) PROVE Sound(S(n), t)
    <3>1. /\ n.unavailable <=> n.nextRetryAfter # 0
          /\ n.quota.exceeded <=> n.quota.nextRecoverAt # 0
          /\ TransientCooldown # 0 /\ n.quota.nextRecoverAt > t
               => n.nextRetryAfter >= n.quota.nextRecoverAt
          /\ n.quota.nextRecoverAt <= t + QuotaCeiling
          /\ CoolingDisabled => n.nextRetryAfter = 0 /\ n.quota.nextRecoverAt = 0
      BY <2>5 DEF Sound
    <3>2. TransientCooldown # 0 /\ at > t => retry >= at
      BY <2>1, <3>1
    <3>3. at <= t + QuotaCeiling
      BY <2>1, <2>3, <3>1
    <3> HIDE DEF at, retry
    <3>4. CoolingDisabled => retry = 0 /\ at = 0
      BY <2>3, <3>1
    <3> QED  BY <2>2, <2>3, <3>1, <3>2, <3>3, <3>4 DEF Sound
  <2>6. retry \in {n.nextRetryAfter, resetAt}
    OBVIOUS
  <2> HIDE DEF at, retry
  <2> QED  BY <2>2, <2>3, <2>4, <2>5, <2>6
<1>3. /\ S(a).models = a.models /\ S(a).expiry = a.expiry /\ S(a).lastError = a.lastError
      /\ S(a).status = a.status /\ S(a).quota.reason = a.quota.reason
      /\ S(a) \in Auths /\ Sooner(a, S(a))
  <2> DEFINE at == IF a.quota.exceeded /\ a.quota.nextRecoverAt > resetAt
                   THEN resetAt ELSE a.quota.nextRecoverAt
             retry == IF a.nextRetryAfter > resetAt THEN resetAt ELSE a.nextRetryAfter
             q == [a.quota EXCEPT !.nextRecoverAt = at]
  <2>1. S(a) = [a EXCEPT !.quota = q, !.nextRetryAfter = retry]
    BY DEF Auths
  <2>2. /\ at \in Nat /\ retry \in Nat /\ at <= a.quota.nextRecoverAt /\ retry <= a.nextRetryAfter
        /\ retry = 0 => a.nextRetryAfter = 0
        /\ at = 0 => a.quota.nextRecoverAt = 0
    BY AuthFields
  <2> HIDE DEF S, at, retry
  <2>3. /\ q \in Quotas /\ q.exceeded = a.quota.exceeded /\ q.reason = a.quota.reason
        /\ q.nextRecoverAt = at
    BY <2>2, AuthFields DEF Quotas
  <2> HIDE DEF q
  <2>4. /\ S(a) \in Auths /\ S(a).quota = q /\ S(a).nextRetryAfter = retry
        /\ S(a).unavailable = a.unavailable
        /\ S(a).models = a.models /\ S(a).expiry = a.expiry /\ S(a).lastError = a.lastError
        /\ S(a).status = a.status
    BY <2>1, <2>2, <2>3 DEF Auths
  <2> QED  BY <2>2, <2>3, <2>4 DEF Sooner
<1>4. DOMAIN models = DOMAIN a.models /\ \A m \in DOMAIN a.models : models[m] = S(a.models[m])
  <2> HIDE DEF S
  <2> QED  BY <1>3
<1> HIDE DEF models, s
<1>5. /\ s.models = models /\ s.expiry = a.expiry /\ s.lastError = a.lastError
      /\ s.status = a.status /\ s.quota = S(a).quota /\ s.unavailable = S(a).unavailable
      /\ s.nextRetryAfter = S(a).nextRetryAfter
  <2> DEFINE b == S(a)
  <2> HIDE DEF S
  <2>1. b \in Auths /\ s = [b EXCEPT !.models = models]
    BY <1>1, <1>3
  <2> HIDE DEF b
  <2>2. /\ s.models = models /\ s.expiry = b.expiry /\ s.lastError = b.lastError
        /\ s.status = b.status /\ s.quota = b.quota /\ s.unavailable = b.unavailable
        /\ s.nextRetryAfter = b.nextRetryAfter
    BY <2>1 DEF Auths
  <2> QED  BY <1>3, <2>2 DEF b
<1> HIDE DEF S
<1>6. Sooner(a, s)
  BY <1>3, <1>5 DEF Sooner
<1>7. ASSUME NEW m \in DOMAIN a.models
      PROVE  /\ a.models[m] \in ModelStates /\ Sound(models[m], t)
             /\ Sooner(a.models[m], models[m]) /\ models[m].nextRetryAfter \in Nat
             /\ a.models[m].nextRetryAfter \in Nat
             /\ models[m].quota.nextRecoverAt \in Nat /\ a.models[m].quota.nextRecoverAt \in Nat
             /\ Down(models[m], t) => Down(a.models[m], t)
  <2>1. a.models[m] \in ModelStates /\ Sound(a.models[m], t) /\ models[m] = S(a.models[m])
    BY <1>4, AuthFields DEF Fit, SoundModels
  <2>2. /\ Sooner(a.models[m], models[m]) /\ Sound(models[m], t)
        /\ models[m].nextRetryAfter \in Nat /\ a.models[m].nextRetryAfter \in Nat
        /\ models[m].quota.nextRecoverAt \in Nat /\ a.models[m].quota.nextRecoverAt \in Nat
    BY <1>2, <2>1 DEF ModelStates, Quotas
  <2>3. Down(models[m], t) => Down(a.models[m], t)
    BY <2>2 DEF Down, Sooner
  <2> QED  BY <2>1, <2>2, <2>3
<1>8. SoundModels(s, t)
  BY <1>4, <1>5, <1>7 DEF SoundModels
<1>9. HoldsBack(s, a, t)
  <2> SUFFICES ASSUME NEW m \in DOMAIN a.models, NEW u \in Nat
               PROVE  /\ models[m].nextRetryAfter > u => a.models[m].nextRetryAfter > u
                      /\ Waits(models[m], u) => Waits(a.models[m], u)
    BY <1>4, <1>5 DEF HoldsBack
  <2> QED  BY <1>7 DEF Sooner, Waits
<1>10. AllDown(s, t) => AllDown(a, t)
  BY <1>4, <1>5, <1>7 DEF AllDown
<1>11. Alert(s, t)
  BY <1>5, <1>6, <1>10 DEF Fit, Alert, Sooner
<1> QED  BY <1>3, <1>4, <1>5, <1>6, <1>8, <1>9, <1>11 DEF Fit, s

LEMMA ResetFit ==
  ASSUME NEW a \in Auths, NEW t \in Nat
  PROVE  LET r == ResetQuota(a, t)
         IN  Fit(r, t) /\ FreeUntilServed(r) /\ r.lastError \in {a.lastError, "none"}
<1> DEFINE Clear(r) == [r EXCEPT !.unavailable = FALSE, !.nextRetryAfter = Zero, !.quota = NoQuota]
           fresh == [m \in DOMAIN a.models |-> resetModelState]
           b == [a EXCEPT !.models = fresh]
           models == [m \in DOMAIN Clear(b).models |-> Clear(Clear(b).models[m])]
           c == [Clear(b) EXCEPT !.models = models]
           r == ResetQuota(a, t)
<1>1. r = ForgetError(c, t)
  BY DEF ResetQuota, clearCooldownStateForAuth
<1>2. Clear(resetModelState) = resetModelState
  <2>1. \A s \in ModelStates : s.unavailable = FALSE /\ s.nextRetryAfter = Zero /\ s.quota = NoQuota
                                => Clear(s) = s
    BY DEF ModelStates
  <2>2. /\ resetModelState.unavailable = FALSE /\ resetModelState.nextRetryAfter = Zero
        /\ resetModelState.quota = NoQuota
    BY DEF resetModelState
  <2> QED  BY <2>1, <2>2, FreshTypes
<1>3. fresh \in ModelMaps
  BY AuthFields, FreshTypes, MapType
<1> HIDE DEF fresh
<1>4. b \in Auths /\ b.models = fresh /\ b.lastError = a.lastError
  BY <1>3, ModelsReplaced, ModelsSet DEF SameFace
<1> HIDE DEF b
<1>5. /\ Clear(b) \in Auths /\ Clear(b).models = fresh /\ Clear(b).quota = NoQuota
      /\ Clear(b).unavailable = FALSE /\ Clear(b).lastError = a.lastError
  BY <1>4, FreshTypes, Times DEF Auths
<1> HIDE DEF Clear
<1>6. DOMAIN models = DOMAIN a.models /\ \A m \in DOMAIN models : models[m] = resetModelState
  BY <1>2, <1>5 DEF fresh
<1>7. models \in ModelMaps
  <2>1. models \in [DOMAIN a.models -> ModelStates]
    <3>1. DOMAIN Clear(b).models = DOMAIN a.models
      BY <1>5 DEF fresh
    <3>2. \A m \in DOMAIN a.models : Clear(Clear(b).models[m]) \in ModelStates
      BY <1>2, <1>5, FreshTypes DEF fresh
    <3> QED  BY <3>1, <3>2
  <2> HIDE DEF models
  <2> QED  BY <2>1, AuthFields, MapType
<1> HIDE DEF models
<1>8. /\ c \in Auths /\ c.models = models /\ c.quota = NoQuota /\ c.unavailable = FALSE
      /\ c.lastError = a.lastError
  <2> DEFINE d == Clear(b)
  <2>1. d \in Auths
    BY <1>5
  <2> HIDE DEF d
  <2>2. LET e == [d EXCEPT !.models = models]
        IN  e \in Auths /\ e.models = models /\ e.quota = d.quota /\ e.unavailable = d.unavailable
            /\ e.lastError = d.lastError
    BY <1>7, <2>1, ModelsReplaced, ModelsSet DEF SameFace
  <2> QED  BY <1>5, <2>2 DEF d
<1> HIDE DEF c
<1>9. SoundModels(c, t)
  BY <1>6, <1>8, SoundReset DEF SoundModels
<1>10. ~AllDown(c, t)
  <2>1. ~Down(resetModelState, t)
    BY DEF Down, resetModelState
  <2> QED  BY <1>6, <1>8, <2>1 DEF AllDown
<1>11. Fit(c, t)
  BY <1>9, <1>10 DEF Fit, Alert
<1> HIDE DEF r
<1>12. /\ r.models = c.models /\ r.unavailable = c.unavailable /\ r.quota = c.quota
       /\ (r = c \/ r.lastError = "none") /\ Fit(r, t)
  BY <1>1, <1>8, <1>11, ForgetFit
<1>13. NoQuota.exceeded = FALSE
  BY DEF NoQuota
<1> QED  BY <1>8, <1>12, <1>13 DEF r, FreeUntilServed

LEMMA FreshFit ==
  ASSUME NEW token \in Tokens, NEW expiry \in Expiries, NEW t
  PROVE  /\ NewAuth(token, expiry).lastError = "none"
         /\ Fit(NewAuth(token, expiry), t) /\ FreeUntilServed(NewAuth(token, expiry))
<1> DEFINE a == NewAuth(token, expiry)
<1>1. /\ a.lastError = "none" /\ DOMAIN a.models = {} /\ a.unavailable = FALSE
      /\ a.quota.exceeded = FALSE
  BY DEF NewAuth, NoQuota
<1> HIDE DEF a
<1> QED  BY <1>1 DEF a, Fit, SoundModels, Alert, AllDown, FreeUntilServed

\* An update forgets the credential's error, and keeps its models' deadlines or forgives them.
LEMMA UpdateAuthFit ==
  ASSUME NEW a \in Auths, NEW token \in Tokens, NEW expiry \in Expiries,
         NEW disabled \in BOOLEAN, NEW t \in Nat, Fit(a, t)
  PROVE  LET u == UpdateAuth(a, token, expiry, disabled, t)
         IN  Fit(u, t) /\ u.lastError = "none" /\ (FreeUntilServed(a) => FreeUntilServed(u))
<1> DEFINE incoming == [NewAuth(token, expiry) EXCEPT !.disabled = disabled]
           Forgiven(s) == IF s.lastError = "unauthorized" THEN resetModelState ELSE s
           kept == [incoming EXCEPT !.models = a.models]
           models == [m \in DOMAIN kept.models |-> Forgiven(kept.models[m])]
           pardoned == [kept EXCEPT !.models = models]
           aggregated == updateAggregatedAvailability(pardoned, t)
           forgiven == IF token = a.token
                         \/ \A m \in DOMAIN kept.models : kept.models[m].lastError # "unauthorized"
                       THEN kept ELSE aggregated
           restored == [forgiven EXCEPT !.unavailable = a.unavailable,
                                        !.nextRetryAfter = a.nextRetryAfter,
                                        !.quota = a.quota, !.status = a.status]
           u == UpdateAuth(a, token, expiry, disabled, t)
<1>1. \/ u = incoming
      \/ u = restored /\ CredentialQuota(a, t)
      \/ u = forgiven
  BY DEF UpdateAuth
<1>2. /\ incoming \in Auths /\ incoming.lastError = "none" /\ incoming.quota = NoQuota
      /\ incoming.unavailable = FALSE /\ DOMAIN incoming.models = {}
  <2>1. /\ NewAuth(token, expiry) \in Auths /\ NewAuth(token, expiry).lastError = "none"
        /\ NewAuth(token, expiry).quota = NoQuota /\ NewAuth(token, expiry).unavailable = FALSE
        /\ DOMAIN NewAuth(token, expiry).models = {}
    BY FreshTypes DEF NewAuth
  <2> QED  BY <2>1 DEF Auths
<1> HIDE DEF incoming
<1>3. NoQuota.exceeded = FALSE
  BY DEF NoQuota
<1>4. Fit(incoming, t) /\ FreeUntilServed(incoming)
  BY <1>2, <1>3 DEF Fit, SoundModels, Alert, FreeUntilServed
<1>5. /\ kept \in Auths /\ kept.lastError = "none" /\ kept.quota = NoQuota
      /\ kept.unavailable = FALSE /\ kept.models = a.models
  <2>1. a.models \in ModelMaps
    BY AuthFields
  <2> QED  BY <1>2, <2>1, ModelsReplaced, ModelsSet DEF SameFace
<1> HIDE DEF kept
<1>6. Fit(kept, t) /\ FreeUntilServed(kept)
  BY <1>3, <1>5 DEF Fit, SoundModels, Alert, FreeUntilServed
<1>7. /\ DOMAIN models = DOMAIN a.models /\ models \in ModelMaps
      /\ \A m \in DOMAIN models : Sound(models[m], t)
  <2>1. ASSUME NEW m \in DOMAIN a.models
        PROVE  Forgiven(a.models[m]) \in ModelStates /\ Sound(Forgiven(a.models[m]), t)
    <3>1. a.models[m] \in ModelStates /\ Sound(a.models[m], t)
      BY AuthFields DEF Fit, SoundModels
    <3> QED  BY <3>1, FreshTypes, SoundReset
  <2> HIDE DEF Forgiven
  <2>2. /\ DOMAIN models = DOMAIN a.models
        /\ \A m \in DOMAIN a.models : models[m] = Forgiven(a.models[m])
    BY <1>5
  <2>3. models \in [DOMAIN a.models -> ModelStates]
    BY <1>5, <2>1
  <2> HIDE DEF models
  <2> QED  BY <2>1, <2>2, <2>3, AuthFields, MapType
<1> HIDE DEF models
<1>8. pardoned \in Auths /\ pardoned.lastError = "none" /\ pardoned.models = models
  BY <1>5, <1>7, ModelsReplaced, ModelsSet DEF SameFace
<1> HIDE DEF pardoned
<1>9. SoundModels(pardoned, t)
  BY <1>7, <1>8 DEF SoundModels
<1>10. /\ aggregated \in Auths /\ aggregated.lastError = "none" /\ Fit(aggregated, t)
       /\ DOMAIN aggregated.models = DOMAIN a.models
       /\ DOMAIN a.models = {} => kept = forgiven
  <2>1. aggregated \in Auths
    BY <1>8, AggregatedType
  <2>2. SameFace(pardoned, aggregated) /\ DOMAIN aggregated.models = DOMAIN pardoned.models
    BY <1>8, AggregatedForm
  <2> HIDE DEF aggregated
  <2>3. Fit(aggregated, t)
    BY <1>8, <1>9, <2>1, AggregatedFit DEF aggregated
  <2> QED  BY <1>5, <1>7, <1>8, <2>1, <2>2, <2>3 DEF SameFace
<1> HIDE DEF aggregated
<1>11. /\ forgiven \in Auths /\ forgiven.lastError = "none" /\ Fit(forgiven, t)
       /\ DOMAIN forgiven.models = DOMAIN a.models /\ FreeUntilServed(forgiven)
  <2>1. forgiven = kept \/ (forgiven = aggregated /\ DOMAIN a.models # {})
    BY <1>10
  <2> HIDE DEF forgiven
  <2> QED  BY <1>5, <1>6, <1>10, <2>1 DEF FreeUntilServed
<1> HIDE DEF forgiven
<1>12. /\ restored.models = forgiven.models /\ restored.lastError = "none"
       /\ restored.unavailable = a.unavailable /\ restored.quota = a.quota
  BY <1>11 DEF Auths
<1> HIDE DEF restored
<1>13. Fit(restored, t) /\ (FreeUntilServed(a) => FreeUntilServed(restored))
  BY <1>11, <1>12 DEF Fit, SoundModels, Alert, FreeUntilServed
<1> HIDE DEF u
<1> QED  BY <1>1, <1>2, <1>4, <1>11, <1>12, <1>13 DEF u

-----------------------------------------------------------------------------
(***************************************************************************)
(* Cooldowns: failures never end one early, recoveries never prolong one.  *)
(***************************************************************************)
\* A result leaves a fit credential fit; and one that has served no model is not blocked by it,
\* nor refused, as long as failures name their models and none is unauthorized.
LEMMA MarkResultFit ==
  ASSUME NEW a \in Auths, NEW result \in Results, NEW t \in Nat, t > 0, Capped(a, t), Fit(a, t)
  PROVE  LET r == MarkResult(a, result, t)
         IN  /\ Fit(r, t)
             /\ \/ result.kind \in Failures /\ result.model = NoModel
                \/ FreeUntilServed(a) => FreeUntilServed(r)
             /\ \/ result.kind = "unauthorized"
                \/ a.lastError # "unauthorized" => r.lastError # "unauthorized"
<1> DEFINE r == MarkResult(a, result, t)
<1>1. /\ result.model \in Models \cup {NoModel} /\ result.hint \in Hints
      /\ result.kind \in Failures \cup {"success", "skipped"}
  BY ResultType
<1>2. ASSUME r = a PROVE Fit(r, t) /\ (FreeUntilServed(a) => FreeUntilServed(r))
  BY <1>2
<1>3. CASE result.kind = "skipped"
  BY <1>3 DEF MarkResult
<1>4. CASE result.kind = "success"
  <2>1. \/ r = a
        \/ r = clearAuthStateOnSuccess(a)
        \/ r = ModelSucceeded(a, result.model, t) /\ result.model # NoModel
    BY <1>4 DEF MarkResult
  <2>2. CASE r = a
    BY <2>2
  <2>3. CASE r = clearAuthStateOnSuccess(a)
    <3> DEFINE c == clearAggregatedAvailability(a)
               s == [c EXCEPT !.status = "active", !.lastError = "none"]
    <3>1. clearAuthStateOnSuccess(a) = s
      BY DEF clearAuthStateOnSuccess
    <3>2. /\ c \in Auths /\ c.models = a.models /\ c.quota = NoQuota /\ c.unavailable = FALSE
      BY ClearedType DEF clearAggregatedAvailability, Auths
    <3> HIDE DEF c
    <3>3. /\ s.models = a.models /\ s.quota = NoQuota /\ s.unavailable = FALSE
          /\ s.lastError = "none"
      BY <3>2 DEF Auths
    <3>4. NoQuota.exceeded = FALSE
      BY DEF NoQuota
    <3> HIDE DEF s, r
    <3>5. Fit(r, t) /\ FreeUntilServed(r) /\ r.lastError = "none"
      BY <2>3, <3>1, <3>3, <3>4 DEF Fit, SoundModels, Alert, FreeUntilServed
    <3> QED  BY <3>5 DEF r
  <2>4. CASE r = ModelSucceeded(a, result.model, t) /\ result.model # NoModel
    <3> HIDE DEF r
    <3>1. Fit(r, t) /\ r.lastError \in {a.lastError, "none"} /\ DOMAIN r.models # {}
      BY <1>1, <2>4, ModelSucceededFit DEF Fit
    <3> QED  BY <3>1 DEF r, FreeUntilServed
  <2> QED  BY <2>1, <2>2, <2>3, <2>4
<1>5. CASE result.kind \in Failures
  <2>1. result.kind \notin {"success", "skipped"}
    BY <1>5 DEF Failures
  <2>2. result.kind # "unauthorized" => ErrorOf(result.kind) # "unauthorized"
    BY DEF ErrorOf
  <2>3. CASE result.model # NoModel
    <3>1. r = ModelFailed(a, result, t)
      BY <2>1, <2>3 DEF MarkResult
    <3> HIDE DEF r
    <3>2. Fit(r, t) /\ DOMAIN r.models # {} /\ r.lastError = ErrorOf(result.kind)
      BY <1>1, <1>5, <2>3, <3>1, ModelFailedFit DEF Fit
    <3> QED  BY <2>2, <3>2 DEF r, FreeUntilServed
  <2>4. CASE result.model = NoModel
    <3>1. r = Failed(a, result.kind, result.hint, t)
      BY <2>1, <2>4 DEF MarkResult
    <3> HIDE DEF r
    <3>2. Fit(r, t)
      BY <1>1, <1>5, <3>1, FailedFit
    <3>3. r.lastError = ErrorOf(result.kind)
      BY <3>1 DEF Failed, Uncooled, Auths
    <3> QED  BY <1>5, <2>2, <2>4, <3>2, <3>3 DEF r
  <2> QED  BY <2>3, <2>4
<1> QED  BY <1>1, <1>3, <1>4, <1>5

LEMMA LaterFit ==
  ASSUME NEW a \in Auths, NEW t \in Nat, NEW u \in Nat, t <= u, Fit(a, t)
  PROVE  Fit(a, u)
<1>1. \A m \in DOMAIN a.models : a.models[m] \in ModelStates /\ Sound(a.models[m], t)
  BY AuthFields DEF Fit, SoundModels
<1>2. SoundModels(a, u)
  BY <1>1, SoundLater DEF SoundModels
<1>3. \A m \in DOMAIN a.models : Down(a.models[m], u) => Down(a.models[m], t)
  BY <1>1 DEF Down, ModelStates
<1>4. AllDown(a, u) => AllDown(a, t)
  BY <1>3 DEF AllDown
<1> QED  BY <1>2, <1>4 DEF Fit, Alert

\* The credential as the manager holds it.
HeldFit == Held => Fit(held.auth, now)

\* What holds while failures name their models, and while none is unauthorized.
HeldFree == Held => FreeUntilServed(held.auth)
HeldUnrefused == Held => held.auth.lastError # "unauthorized"

\* A failure is the answer to a request for a model.
FailuresNameModels ==
  \A result \in Results : result.kind \in Failures => result.model # NoModel

\* No request is answered with a 401.
NoneUnauthorized == \A result \in Results : result.kind # "unauthorized"

LEMMA RecoveredAuth ==
  ASSUME Bookkeeping, NEW auth, Recovered(auth)
  PROVE  held'.auth = auth
<1>1. "auth" \in DOMAIN held
  BY HeldFacts DEF SnapshotOK
<1> QED  BY <1>1 DEF Recovered

LEMMA InitFit == Init => HeldFit /\ HeldFree /\ HeldUnrefused
<1> SUFFICES ASSUME Init PROVE HeldFit /\ HeldFree /\ HeldUnrefused
  OBVIOUS
<1> DEFINE auth == NewAuth(CHOOSE k \in Tokens : TRUE, Min(Expiries))
<1>1. (CHOOSE k \in Tokens : TRUE) \in Tokens /\ Min(Expiries) \in Expiries
  BY LeastType, SchedulerAssumption
<1>2. held.auth = auth
  BY SnapshotFields DEF Init
<1> HIDE DEF auth
<1>3. Fit(auth, now) /\ FreeUntilServed(auth) /\ auth.lastError # "unauthorized"
  BY <1>1, FreshFit DEF auth
<1> QED  BY <1>2, <1>3 DEF HeldFit, HeldFree, HeldUnrefused

LEMMA StepFit ==
  ASSUME Bookkeeping, HeldFit, [Next]_vars
  PROVE  /\ HeldFit'
         /\ FailuresNameModels /\ HeldFree => HeldFree'
         /\ NoneUnauthorized /\ HeldUnrefused => HeldUnrefused'
<1> DEFINE Kept(b) ==
             /\ FailuresNameModels /\ HeldFree => FreeUntilServed(b)
             /\ NoneUnauthorized /\ HeldUnrefused => b.lastError # "unauthorized"
           Goal ==
             /\ HeldFit'
             /\ FailuresNameModels /\ HeldFree => HeldFree'
             /\ NoneUnauthorized /\ HeldUnrefused => HeldUnrefused'
<1>1. now \in Nat /\ now > 0 /\ epoch \in Nat
  BY DEF Bookkeeping, CredentialsOK, EpochInvariant, ShapesOK
<1>2. Held => held.auth \in Auths /\ Capped(held.auth, now) /\ Fit(held.auth, now)
  BY HeldFacts DEF HeldFit
<1>3. ASSUME now' = now, held'.auth = held.auth, Held' => Held
      PROVE  Goal
  BY <1>3 DEF HeldFit, HeldFree, HeldUnrefused
<1>4. ASSUME now' = now, Fit(held'.auth, now), Kept(held'.auth)
      PROVE  Goal
  BY <1>4 DEF HeldFit, HeldFree, HeldUnrefused
<1>5. CASE Register
  <2>1. PICK token \in Tokens, expiry \in Expiries :
          held' = Snapshot(NewAuth(token, expiry), epoch + 1, 1, 0)
    BY <1>5 DEF Register
  <2>2. held'.auth = NewAuth(token, expiry) /\ now' = now
    BY <1>5, <2>1, SnapshotFields DEF Register
  <2>3. Fit(held'.auth, now) /\ Kept(held'.auth)
    BY <2>2, FreshFit
  <2> HIDE DEF Kept
  <2> QED  BY <1>4, <2>2, <2>3
<1>6. CASE Update
  <2>1. PICK token \in Tokens, expiry \in Expiries, disabled \in BOOLEAN :
          Change(UpdateAuth(held.auth, token, expiry, disabled, now))
    BY <1>6 DEF Update
  <2>2. held'.auth = UpdateAuth(held.auth, token, expiry, disabled, now) /\ now' = now /\ Held
    BY <1>6, <2>1, SnapshotFields DEF Update, Change
  <2>3. /\ Fit(held'.auth, now) /\ held'.auth.lastError = "none"
        /\ FreeUntilServed(held.auth) => FreeUntilServed(held'.auth)
    BY <1>1, <1>2, <2>2, UpdateAuthFit
  <2>4. Kept(held'.auth)
    BY <2>2, <2>3 DEF HeldFree, HeldUnrefused
  <2> HIDE DEF Kept
  <2> QED  BY <1>4, <2>2, <2>3, <2>4
<1>7. CASE Remove
  BY <1>7 DEF Remove, Held, HeldFit, HeldFree, HeldUnrefused
<1>8. ASSUME NEW result \in Results, Result(result) PROVE Goal
  <2>1. held'.auth = MarkResult(held.auth, result, now) /\ now' = now /\ Held
    BY <1>8, SnapshotFields DEF Result, Change
  <2>2. /\ Fit(held'.auth, now)
        /\ \/ result.kind \in Failures /\ result.model = NoModel
           \/ FreeUntilServed(held.auth) => FreeUntilServed(held'.auth)
        /\ \/ result.kind = "unauthorized"
           \/ held.auth.lastError # "unauthorized" => held'.auth.lastError # "unauthorized"
    BY <1>1, <1>2, <2>1, MarkResultFit
  <2>3. Kept(held'.auth)
    BY <2>1, <2>2 DEF HeldFree, HeldUnrefused, FailuresNameModels, NoneUnauthorized
  <2> HIDE DEF Kept
  <2> QED  BY <1>4, <2>1, <2>2, <2>3
<1>9. CASE NeutralResult
  <2>1. held'.auth = held.auth /\ now' = now /\ Held
    BY <1>9, SnapshotFields DEF NeutralResult, Change
  <2> QED  BY <1>3, <2>1
<1>10. CASE OperatorReset
  <2>1. held'.auth = ResetQuota(held.auth, now) /\ now' = now /\ Held
    BY <1>10, SnapshotFields DEF OperatorReset, Change
  <2>2. /\ Fit(held'.auth, now) /\ FreeUntilServed(held'.auth)
        /\ held'.auth.lastError \in {held.auth.lastError, "none"}
    BY <1>1, <1>2, <2>1, ResetFit
  <2>3. Kept(held'.auth)
    BY <2>1, <2>2 DEF HeldFree, HeldUnrefused
  <2> HIDE DEF Kept
  <2> QED  BY <1>4, <2>1, <2>2, <2>3
<1>11. CASE ApplyAnswer
  <2>1. now' = now
    BY <1>11 DEF ApplyAnswer
  <2>2. CASE UNCHANGED held
    BY <1>3, <2>1, <2>2 DEF Held
  <2>3. ASSUME NEW keep \in SUBSET Models, Enabled,
               Recovered(liftQuotaCooldownForAuth(held.auth, keep, now))
        PROVE  Goal
    <3>1. Held /\ held'.auth = liftQuotaCooldownForAuth(held.auth, keep, now)
      BY <2>3, RecoveredAuth DEF Enabled
    <3>2. /\ Fit(held'.auth, now) /\ FreeUntilServed(held'.auth)
          /\ held'.auth.lastError \in {held.auth.lastError, "none"}
      BY <1>1, <1>2, <3>1, LiftFit
    <3>3. Kept(held'.auth)
      BY <3>1, <3>2 DEF HeldFree, HeldUnrefused
    <3> HIDE DEF Kept
    <3> QED  BY <1>4, <2>1, <3>2, <3>3
  <2>4. ASSUME NEW resetAt \in now + 1 .. MaxTime, Enabled,
               Recovered(shortenQuotaCooldownForAuth(held.auth, resetAt))
        PROVE  Goal
    <3>1. Held /\ held'.auth = shortenQuotaCooldownForAuth(held.auth, resetAt)
      BY <2>4, RecoveredAuth DEF Enabled
    <3>2. resetAt \in Nat /\ resetAt > now
      BY <1>1, SchedulerAssumption
    <3>3. /\ Fit(held'.auth, now) /\ Sooner(held.auth, held'.auth)
          /\ DOMAIN held'.auth.models = DOMAIN held.auth.models
          /\ held'.auth.lastError = held.auth.lastError
      BY <1>1, <1>2, <3>1, <3>2, ShortenFit
    <3>4. Kept(held'.auth)
      BY <3>1, <3>3 DEF HeldFree, HeldUnrefused, FreeUntilServed, Sooner
    <3> HIDE DEF Kept
    <3> QED  BY <1>4, <2>1, <3>3, <3>4
  <2> QED  BY <1>11, <2>2, <2>3, <2>4 DEF ApplyAnswer
<1>12. CASE Tick
  <2>1. held' = held /\ now' = now + 1
    BY <1>12 DEF Tick
  <2>2. Held => Fit(held.auth, now + 1)
    BY <1>1, <1>2, LaterFit
  <2> QED  BY <2>1, <2>2 DEF HeldFit, HeldFree, HeldUnrefused, Held
<1>13. CASE RefreshSchedulerEntry \/ SyncScheduler \/ TimeAnswer
  BY <1>3, <1>13 DEF RefreshSchedulerEntry, SyncScheduler, TimeAnswer, Held
<1>14. CASE (\E p \in inFlight : Deliver(p)) \/ (\E shard \in PickModels : Pick(shard))
  BY <1>3, <1>14 DEF Deliver, Pick, Held
<1>15. CASE UNCHANGED vars
  BY <1>3, <1>15 DEF vars, Held
<1> QED
  BY <1>5, <1>6, <1>7, <1>8, <1>9, <1>10, <1>11, <1>12, <1>13, <1>14, <1>15 DEF Next

LEMMA BarredAsLong ==
  ASSUME NEW a \in Auths, NEW b \in Auths, NEW t \in Nat, SoundModels(a, t), SoundModels(b, t),
         HoldsBack(a, b, t), NEW m \in DOMAIN a.models, NEW u \in Nat, t <= u,
         Barred(a.models[m], u)
  PROVE  m \in DOMAIN b.models /\ Barred(b.models[m], u)
<1>1. m \in DOMAIN b.models
  BY DEF HoldsBack
<1>2. /\ a.models[m] \in ModelStates /\ Sound(a.models[m], t)
      /\ b.models[m] \in ModelStates /\ Sound(b.models[m], t)
  BY <1>1, AuthFields DEF SoundModels
<1>3. Waits(a.models[m], u)
  BY <1>2, SoundBar
<1>4. Waits(b.models[m], u)
  BY <1>3 DEF HoldsBack
<1> QED  BY <1>1, <1>2, <1>4, SoundBar

\* A credential is blocked for a model at a time.
BlockedFor(a, m, u) == isAuthBlockedForModel(a, m, u).state # "ready"

LEMMA LiftNeverBlocks ==
  ASSUME NEW a \in Auths, NEW keep, NEW t \in Nat, Fit(a, t), NEW m \in Models,
         NEW u \in Nat, t <= u, BlockedFor(liftQuotaCooldownForAuth(a, keep, t), m, u)
  PROVE  BlockedFor(a, m, u)
<1> DEFINE l == liftQuotaCooldownForAuth(a, keep, t)
<1>1. l \in Auths /\ l.disabled = a.disabled
  BY LiftKeeps
<1>2. /\ Fit(l, t) /\ HoldsBack(l, a, t) /\ FreeUntilServed(l)
      /\ DOMAIN l.models = DOMAIN a.models /\ l.expiry = a.expiry
      /\ l.quota.reason # "credential_quota"
      /\ hasUnauthorizedAuthFailure(l) => hasUnauthorizedAuthFailure(a)
  BY LiftFit
<1>3. BlockedFor(l, m, u)
  OBVIOUS
<1> HIDE DEF l
<1>4. \/ l.disabled \/ hasUnauthorizedAuthFailure(l) \/ TokenExpired(l, u)
      \/ CredentialQuota(l, u)
      \/ m \in DOMAIN l.models /\ Barred(l.models[m], u)
      \/ DOMAIN l.models = {} /\ Barred(l, u)
  BY <1>1, <1>3, WhenBlocked DEF BlockedFor
<1>5. ~CredentialQuota(l, u)
  BY <1>2 DEF CredentialQuota
<1>6. ~(DOMAIN l.models = {} /\ Barred(l, u))
  BY <1>2 DEF FreeUntilServed, Barred
<1>7. TokenExpired(l, u) => TokenExpired(a, u)
  BY <1>2 DEF TokenExpired
<1>8. m \in DOMAIN l.models /\ Barred(l.models[m], u) =>
        m \in DOMAIN a.models /\ Barred(a.models[m], u)
  BY <1>1, <1>2, BarredAsLong DEF Fit
<1>9. \/ a.disabled \/ hasUnauthorizedAuthFailure(a) \/ TokenExpired(a, u)
      \/ m \in DOMAIN a.models /\ Barred(a.models[m], u)
  BY <1>1, <1>2, <1>4, <1>5, <1>6, <1>7, <1>8
<1> QED  BY <1>9, WhenBlocked DEF BlockedFor

LEMMA ShortenNeverBlocks ==
  ASSUME NEW a \in Auths, NEW resetAt \in Nat, NEW t \in Nat, resetAt > t, Fit(a, t),
         Capped(a, t), NEW m \in Models,
         NEW u \in Nat, t <= u, BlockedFor(shortenQuotaCooldownForAuth(a, resetAt), m, u)
  PROVE  BlockedFor(a, m, u)
<1> DEFINE s == shortenQuotaCooldownForAuth(a, resetAt)
<1>1. s \in Auths /\ s.disabled = a.disabled
  BY ShortenKeeps
<1>2. /\ Fit(s, t) /\ HoldsBack(s, a, t) /\ Sooner(a, s)
      /\ DOMAIN s.models = DOMAIN a.models
      /\ s.expiry = a.expiry /\ s.lastError = a.lastError /\ s.status = a.status
      /\ s.quota.reason = a.quota.reason
  BY ShortenFit
<1>3. BlockedFor(s, m, u)
  OBVIOUS
<1> HIDE DEF s
<1>4. \/ s.disabled \/ hasUnauthorizedAuthFailure(s) \/ TokenExpired(s, u)
      \/ CredentialQuota(s, u)
      \/ m \in DOMAIN s.models /\ Barred(s.models[m], u)
      \/ DOMAIN s.models = {} /\ Barred(s, u)
  BY <1>1, <1>3, WhenBlocked DEF BlockedFor
<1>5. /\ a.nextRetryAfter \in Nat /\ a.quota.nextRecoverAt \in Nat
      /\ s.nextRetryAfter \in Nat /\ s.quota.nextRecoverAt \in Nat
  BY <1>1, AuthFields
<1>6. /\ CredentialQuota(s, u) => CredentialQuota(a, u)
      /\ Barred(s, u) => Barred(a, u)
  BY <1>2, <1>5 DEF Sooner, CredentialQuota, ActiveQuota, Barred
<1>7. /\ TokenExpired(s, u) => TokenExpired(a, u)
      /\ hasUnauthorizedAuthFailure(s) => hasUnauthorizedAuthFailure(a)
  BY <1>2 DEF TokenExpired, hasUnauthorizedAuthFailure, Sooner
<1>8. m \in DOMAIN s.models /\ Barred(s.models[m], u) =>
        m \in DOMAIN a.models /\ Barred(a.models[m], u)
  BY <1>1, <1>2, BarredAsLong DEF Fit
<1>9. \/ a.disabled \/ hasUnauthorizedAuthFailure(a) \/ TokenExpired(a, u)
      \/ CredentialQuota(a, u)
      \/ m \in DOMAIN a.models /\ Barred(a.models[m], u)
      \/ DOMAIN a.models = {} /\ Barred(a, u)
  BY <1>1, <1>2, <1>4, <1>6, <1>7, <1>8
<1> QED  BY <1>9, WhenBlocked DEF BlockedFor

\* A failure of a model unblocks no model, unless the credential was refused as a whole before: the
\* later failure then replaces the error that says so.
LEMMA FailureNeverUnblocks ==
  ASSUME TransientCooldown # 0, NEW a \in Auths, NEW result \in Results, result.kind # "success",
         result.kind \in Failures => result.model # NoModel,
         NEW t \in Nat, t > 0, Capped(a, t), Fit(a, t), FreeUntilServed(a),
         ~hasUnauthorizedAuthFailure(a),
         NEW m \in Models, NEW u \in Nat, t <= u, BlockedFor(a, m, u)
  PROVE  BlockedFor(MarkResult(a, result, t), m, u)
<1> DEFINE r == MarkResult(a, result, t)
<1>1. /\ result.model \in Models \cup {NoModel}
      /\ result.kind \in Failures \cup {"success", "skipped"}
  BY ResultType
<1>2. CASE result.kind = "skipped"
  <2>1. r = a
    BY <1>2 DEF MarkResult
  <2> QED  BY <2>1
<1>3. CASE result.kind \in Failures
  <2>1. result.model \in Models /\ result.model # NoModel
    BY <1>1, <1>3
  <2>2. r = ModelFailed(a, result, t)
    BY <1>3, <2>1 DEF MarkResult, Failures
  <2> HIDE DEF r
  <2>3. r \in Auths /\ r.disabled = a.disabled /\ Outlasts(a, r, t)
    BY <1>3, <2>1, <2>2, ModelFailedKeeps
  <2>4. Fit(r, t) /\ HoldsBack(a, r, t) /\ r.expiry = a.expiry
    BY <1>3, <2>1, <2>2, ModelFailedFit DEF Fit
  <2>5. \/ a.disabled \/ TokenExpired(a, u)
        \/ CredentialQuota(a, u)
        \/ m \in DOMAIN a.models /\ Barred(a.models[m], u)
        \/ DOMAIN a.models = {} /\ Barred(a, u)
    BY WhenBlocked DEF BlockedFor
  <2>6. ~(DOMAIN a.models = {} /\ Barred(a, u))
    BY DEF FreeUntilServed, Barred
  <2>7. TokenExpired(a, u) => TokenExpired(r, u)
    BY <2>4 DEF TokenExpired
  <2>8. CredentialQuota(a, u) => CredentialQuota(r, u)
    <3>1. a.quota.nextRecoverAt \in Nat /\ r.quota.nextRecoverAt \in Nat
      BY <2>3, AuthFields
    <3> QED  BY <2>3, <3>1 DEF Outlasts, CredentialQuota, ActiveQuota
  <2>9. m \in DOMAIN a.models /\ Barred(a.models[m], u) =>
          m \in DOMAIN r.models /\ Barred(r.models[m], u)
    BY <2>3, <2>4, BarredAsLong DEF Fit
  <2>10. \/ r.disabled \/ TokenExpired(r, u) \/ CredentialQuota(r, u)
         \/ m \in DOMAIN r.models /\ Barred(r.models[m], u)
    BY <2>3, <2>5, <2>6, <2>7, <2>8, <2>9
  <2>11. BlockedFor(r, m, u)
    BY <2>3, <2>10, WhenBlocked DEF BlockedFor
  <2> QED  BY <2>11 DEF r
<1> QED  BY <1>1, <1>2, <1>3

-----------------------------------------------------------------------------
(***************************************************************************)
(* The two properties, as steps, and the theorems.                         *)
(***************************************************************************)
RecoveryStep ==
  Held /\ ApplyAnswer =>
    \A m \in Models : BlockedAt(held'.auth, m) \subseteq BlockedAt(held.auth, m)

FailureStep ==
  \A result \in Results :
    Result(result) /\ result.kind # "success"
      => \A m \in Models : BlockedAt(held.auth, m) \subseteq BlockedAt(held'.auth, m)

\* A credential refused as a whole is blocked by its error, which a later failure replaces.
UnlessRefused == ~hasUnauthorizedAuthFailure(held.auth) => FailureStep

LEMMA BlockedTimes ==
  ASSUME Bookkeeping, NEW a, NEW m, NEW u \in BlockedAt(a, m)
  PROVE  u \in Nat /\ now <= u /\ BlockedFor(a, m, u)
<1>1. now \in Nat /\ MaxTime + MissingCooldown \in Nat
  <2>1. MaxTime \in Nat
    BY SchedulerAssumption
  <2>2. MissingCooldown \in Nat
    BY Times
  <2> QED  BY <2>1, <2>2, HeldFacts
<1>2. u \in now .. MaxTime + MissingCooldown /\ isAuthBlockedForModel(a, m, u).state # "ready"
  BY DEF BlockedAt
<1> QED  BY <1>1, <1>2 DEF BlockedFor

LEMMA RecoveryOnlyFrees ==
  ASSUME Bookkeeping, HeldFit
  PROVE  RecoveryStep
<1> SUFFICES ASSUME Held, ApplyAnswer, NEW m \in Models, NEW u \in BlockedAt(held'.auth, m)
             PROVE  BlockedFor(held.auth, m, u)
  BY DEF RecoveryStep, BlockedAt, BlockedFor
<1>1. /\ held.auth \in Auths /\ Capped(held.auth, now) /\ Fit(held.auth, now) /\ now \in Nat
  BY HeldFacts DEF HeldFit
<1>2. u \in Nat /\ now <= u /\ BlockedFor(held'.auth, m, u)
  BY BlockedTimes
<1>3. CASE UNCHANGED held
  BY <1>2, <1>3
<1>4. ASSUME NEW keep \in SUBSET Models,
             Recovered(liftQuotaCooldownForAuth(held.auth, keep, now))
      PROVE  BlockedFor(held.auth, m, u)
  <2>1. held'.auth = liftQuotaCooldownForAuth(held.auth, keep, now)
    BY <1>4, RecoveredAuth
  <2> QED  BY <1>1, <1>2, <2>1, LiftNeverBlocks
<1>5. ASSUME NEW resetAt \in now + 1 .. MaxTime,
             Recovered(shortenQuotaCooldownForAuth(held.auth, resetAt))
      PROVE  BlockedFor(held.auth, m, u)
  <2>1. held'.auth = shortenQuotaCooldownForAuth(held.auth, resetAt)
    BY <1>5, RecoveredAuth
  <2>2. resetAt \in Nat /\ resetAt > now
    BY <1>1, SchedulerAssumption
  <2> QED  BY <1>1, <1>2, <2>1, <2>2, ShortenNeverBlocks
<1> QED  BY <1>3, <1>4, <1>5 DEF ApplyAnswer

LEMMA FailureOnlyBlocks ==
  ASSUME FailuresNameModels, TransientCooldown # 0, Bookkeeping, HeldFit, HeldFree
  PROVE  UnlessRefused
<1> SUFFICES ASSUME ~hasUnauthorizedAuthFailure(held.auth),
                    NEW result \in Results, Result(result), result.kind # "success",
                    NEW m \in Models, NEW u \in BlockedAt(held.auth, m)
             PROVE  BlockedFor(held'.auth, m, u)
  BY DEF UnlessRefused, FailureStep, BlockedAt, BlockedFor
<1>1. Held /\ held'.auth = MarkResult(held.auth, result, now)
  BY SnapshotFields DEF Result, Change
<1>2. /\ held.auth \in Auths /\ Capped(held.auth, now) /\ Fit(held.auth, now)
      /\ FreeUntilServed(held.auth)
  BY <1>1, HeldFacts DEF HeldFit, HeldFree
<1>3. now \in Nat /\ now > 0
  BY DEF Bookkeeping, CredentialsOK
<1>4. u \in Nat /\ now <= u /\ BlockedFor(held.auth, m, u)
  BY BlockedTimes
<1> QED  BY <1>1, <1>2, <1>3, <1>4, FailureNeverUnblocks DEF FailuresNameModels

LEMMA CredentialsStayFit == Spec => []HeldFit
<1>1. Init => HeldFit
  BY InitFit
<1>2. Bookkeeping /\ HeldFit /\ [Next]_vars => HeldFit'
  BY StepFit
<1> QED  BY <1>1, <1>2, CredentialsStayWhole, PTL DEF Spec

\* Whatever a recovery probe learns, and whatever happened to the credential while it asked, its
\* answer never has a model wait longer than before (RunQuotaRecovery,
\* liftQuotaCooldownForAuth, shortenQuotaCooldownForAuth).
THEOREM RecoveryOnlyShortens == Spec => RecoveryNeverExtends
<1>1. Bookkeeping /\ HeldFit => [RecoveryStep]_held
  BY RecoveryOnlyFrees
<1>2. Spec => [][RecoveryStep]_held
  BY <1>1, CredentialsStayWhole, CredentialsStayFit, PTL
<1> QED  BY <1>2 DEF RecoveryNeverExtends, RecoveryStep

LEMMA CredentialsStayFree ==
  ASSUME FailuresNameModels
  PROVE  Spec => []HeldFree
<1>1. Init => HeldFree
  BY InitFit
<1>2. Bookkeeping /\ HeldFit /\ HeldFree /\ [Next]_vars => HeldFree'
  BY StepFit
<1> QED  BY <1>1, <1>2, CredentialsStayWhole, CredentialsStayFit, PTL DEF Spec

\* No failure lets any model be used earlier than it could be before, whatever cooldowns earlier
\* failures, hints and scopes have set, except that a failure of a credential that was refused as
\* a whole (a 401, with every model down) replaces the error it was refused for
\* (Manager.MarkResult, isAuthBlockedForModel).  The transient cooldown must not be turned off: a
\* 408 or a 5xx then takes a model's deadline away (recoverableFailureRetryAfterWithHint).
THEOREM FailuresOnlyProlong ==
  ASSUME FailuresNameModels, TransientCooldown # 0
  PROVE  Spec => [][~hasUnauthorizedAuthFailure(held.auth) => FailureStep]_held
<1>1. Bookkeeping /\ HeldFit /\ HeldFree => [UnlessRefused]_held
  BY FailureOnlyBlocks
<1>2. Spec => [][UnlessRefused]_held
  BY <1>1, CredentialsStayWhole, CredentialsStayFit, CredentialsStayFree, PTL
<1> QED  BY <1>2 DEF UnlessRefused

\* Where no request is answered with a 401, that is FailureKeepsCooldown itself.
THEOREM FailuresKeepCooldowns ==
  ASSUME FailuresNameModels, NoneUnauthorized, TransientCooldown # 0
  PROVE  Spec => FailureKeepsCooldown
<1>1. Init => HeldUnrefused
  BY InitFit
<1>2. Bookkeeping /\ HeldFit /\ HeldUnrefused /\ [Next]_vars => HeldUnrefused'
  BY StepFit
<1>3. Spec => []HeldUnrefused
  BY <1>1, <1>2, CredentialsStayWhole, CredentialsStayFit, PTL DEF Spec
<1>4. Bookkeeping /\ HeldFit /\ HeldFree /\ HeldUnrefused => [FailureStep]_held
  <2> SUFFICES ASSUME Bookkeeping, HeldFit, HeldFree, HeldUnrefused PROVE FailureStep
    OBVIOUS
  <2>1. UnlessRefused
    BY FailureOnlyBlocks
  <2>2. CASE ~Held
    BY <2>2 DEF FailureStep, Result
  <2>3. CASE Held
    BY <2>1, <2>3 DEF UnlessRefused, HeldUnrefused, hasUnauthorizedAuthFailure
  <2> QED  BY <2>2, <2>3
<1>5. Spec => [][FailureStep]_held
  BY <1>3, <1>4, CredentialsStayWhole, CredentialsStayFit, CredentialsStayFree, PTL
<1> QED  BY <1>5 DEF FailureKeepsCooldown, FailureStep

-----------------------------------------------------------------------------
(***************************************************************************)
(* A shard's entry keeps the availability of the moment it was computed,   *)
(* and is computed again only when it says itself that it is due.          *)
(***************************************************************************)
LEMMA BlockLater ==
  ASSUME NEW un, NEW ex, NEW retry \in Nat, NEW recover \in Nat, NEW t \in Nat, NEW u \in Nat, t <= u,
         LET b == availabilityBlock(un, ex, retry, recover, t) IN ~(b.next # 0 /\ b.next <= u)
  PROVE  availabilityBlock(un, ex, retry, recover, u).state = "ready"
           <=> availabilityBlock(un, ex, retry, recover, t).state = "ready"
<1> DEFINE ahead(v) == {x \in {retry, recover} : x > v}
           due(v) == [state |-> IF ex THEN "cooldown" ELSE "blocked", next |-> Max(ahead(v))]
<1>1. \A v : availabilityBlock(un, ex, retry, recover, v)
               = IF ~un /\ ~ex THEN Ready
                 ELSE IF ahead(v) # {} THEN due(v)
                 ELSE IF {retry, recover} = {Zero} THEN Blocked ELSE Ready
  BY DEF availabilityBlock
<1>2. Ready.state = "ready"
  BY DEF Ready
<1>3. \A v : due(v).state # "ready" /\ due(v).next = Max(ahead(v))
  OBVIOUS
<1>4. ahead(u) # {} => ahead(t) # {}
  OBVIOUS
<1>5. ASSUME ahead(t) # {}, ~(~un /\ ~ex) PROVE ahead(u) # {}
  <2>1. Max(ahead(t)) \in ahead(t)
    <3>1. IsFiniteSet(ahead(t)) /\ ahead(t) \in SUBSET Nat
      <4>1. IsFiniteSet({retry, recover}) /\ ahead(t) \in SUBSET {retry, recover}
        <5>1. IsFiniteSet({retry})
          BY FS_Singleton
        <5>2. IsFiniteSet({retry} \cup {recover})
          BY <5>1, FS_AddElement
        <5>3. {retry, recover} = {retry} \cup {recover}
          OBVIOUS
        <5>4. IsFiniteSet({retry, recover})
          BY <5>2, <5>3
        <5> QED  BY <5>4
      <4> QED  BY <4>1, FS_Subset
    <3> HIDE DEF ahead
    <3> QED  BY <1>5, <3>1, GreatestType
  <2>2. Max(ahead(t)) > t /\ Max(ahead(t)) \in {retry, recover}
    BY <2>1
  <2>3. availabilityBlock(un, ex, retry, recover, t).next = Max(ahead(t))
    BY <1>1, <1>3, <1>5
  <2>4. Max(ahead(t)) > u
    BY <2>2, <2>3
  <2> QED  BY <2>2, <2>4
<1> HIDE DEF ahead, due
<1> QED  BY <1>1, <1>2, <1>3, <1>4, <1>5

\* What a shard says of a credential when it is asked is what the credential itself would say then.
LEMMA LazyIsExact ==
  ASSUME NEW a \in Auths, ~a.disabled, NEW s, NEW t \in Nat, now \in Nat, t <= now
  PROVE  LET entry == [auth |-> a, block |-> isAuthBlockedForModel(a, s, t)]
         IN  promoteExpired(entry, s).block.state = "ready"
               <=> isAuthBlockedForModel(a, s, now).state = "ready"
<1> DEFINE b == isAuthBlockedForModel(a, s, t)
           c == isAuthBlockedForModel(a, s, now)
           entry == [auth |-> a, block |-> b]
           anew == [auth |-> a, block |-> c]
           due == b.next # Zero /\ b.next <= now
           expired == b.state = "ready" /\ TokenExpired(a, now)
           x == a.models[s]
           own(u) == availabilityBlock(x.unavailable, x.quota.exceeded,
                                       x.nextRetryAfter, x.quota.nextRecoverAt, u)
           cool == [state |-> "cooldown", next |-> a.quota.nextRecoverAt]
           hasState == s \in DOMAIN a.models
           unserved == s # NoModel /\ DOMAIN a.models # {}
           refused == hasUnauthorizedAuthFailure(a)
           aggregate == s = NoModel /\ DOMAIN a.models # {}
                          /\ a.quota.reason # "credential_quota" /\ ~a.unavailable
           exceeded == a.quota.exceeded /\ ~aggregate
           whole(u) == availabilityBlock(a.unavailable, exceeded, a.nextRetryAfter,
                                         a.quota.nextRecoverAt, u)
<1>1. promoteExpired(entry, s) = IF due \/ expired THEN anew ELSE entry
  BY DEF promoteExpired, upsertEntry
<1>2. \A u : isAuthBlockedForModel(a, s, u)
               = IF refused \/ TokenExpired(a, u) THEN Blocked
                 ELSE IF CredentialQuota(a, u) THEN cool
                 ELSE IF hasState THEN own(u)
                 ELSE IF unserved THEN Ready
                 ELSE whole(u)
  BY DEF isAuthBlockedForModel, CredentialBlock
<1>3. /\ Ready.state = "ready" /\ Blocked.state # "ready"
      /\ cool.state # "ready" /\ cool.next = a.quota.nextRecoverAt
  BY DEF Ready, Blocked
<1>4. /\ a.nextRetryAfter \in Nat /\ a.quota.nextRecoverAt \in Nat /\ a.expiry \in Nat
      /\ hasState => x.nextRetryAfter \in Nat /\ x.quota.nextRecoverAt \in Nat
  <2>1. a.nextRetryAfter \in Nat /\ a.quota.nextRecoverAt \in Nat
    BY AuthFields
  <2>2. a.expiry \in Nat
    BY SchedulerAssumption DEF Auths
  <2>3. hasState => x \in ModelStates
    BY AuthFields
  <2> HIDE DEF x
  <2> QED  BY <2>1, <2>2, <2>3 DEF ModelStates, Quotas
<1>5. TokenExpired(a, t) => TokenExpired(a, now)
  BY <1>4 DEF TokenExpired
<1>6. CredentialQuota(a, now) => CredentialQuota(a, t)
  BY <1>4 DEF CredentialQuota, ActiveQuota
<1>7. CredentialQuota(a, t) /\ a.quota.nextRecoverAt > now => CredentialQuota(a, now)
  BY DEF CredentialQuota, ActiveQuota
<1>8. CredentialQuota(a, t) => a.quota.nextRecoverAt # 0
  BY <1>4 DEF CredentialQuota, ActiveQuota
<1>9. ASSUME hasState, ~(own(t).next # 0 /\ own(t).next <= now)
      PROVE  own(now).state = "ready" <=> own(t).state = "ready"
  BY <1>4, <1>9, BlockLater
<1>10. ASSUME ~(whole(t).next # 0 /\ whole(t).next <= now)
       PROVE  whole(now).state = "ready" <=> whole(t).state = "ready"
  BY <1>4, <1>10, BlockLater
<1>11. entry.block = b /\ anew.block = c
  OBVIOUS
<1>12. /\ b = IF refused \/ TokenExpired(a, t) THEN Blocked
              ELSE IF CredentialQuota(a, t) THEN cool
              ELSE IF hasState THEN own(t)
              ELSE IF unserved THEN Ready
              ELSE whole(t)
       /\ c = IF refused \/ TokenExpired(a, now) THEN Blocked
              ELSE IF CredentialQuota(a, now) THEN cool
              ELSE IF hasState THEN own(now)
              ELSE IF unserved THEN Ready
              ELSE whole(now)
  BY <1>2
<1> SUFFICES promoteExpired(entry, s).block.state = "ready" <=> c.state = "ready"
  OBVIOUS
<1> HIDE DEF entry, anew, own, whole, cool, hasState, unserved, refused, b, c, x
<1>13. CASE due \/ expired
  BY <1>1, <1>11, <1>13
<1>14. CASE ~due /\ ~expired
  <2>1. promoteExpired(entry, s).block = b
    BY <1>1, <1>11, <1>14
  <2>2. b.state = "ready" <=> c.state = "ready"
    <3>1. CASE refused \/ TokenExpired(a, t)
      BY <1>3, <1>5, <1>12, <3>1
    <3>2. CASE ~refused /\ ~TokenExpired(a, t) /\ TokenExpired(a, now)
      BY <1>3, <1>12, <1>14, <3>2
    <3>3. CASE ~refused /\ ~TokenExpired(a, now) /\ CredentialQuota(a, t)
      <4>1. b = cool
        BY <1>5, <1>12, <3>3
      <4>2. a.quota.nextRecoverAt # 0 /\ ~(a.quota.nextRecoverAt <= now)
        BY <1>3, <1>8, <1>14, <3>3, <4>1 DEF Zero
      <4>3. CredentialQuota(a, now)
        BY <1>4, <1>7, <3>3, <4>2
      <4> QED  BY <1>3, <1>12, <3>3, <4>1, <4>3
    <3>4. CASE ~refused /\ ~TokenExpired(a, now) /\ ~CredentialQuota(a, t) /\ hasState
      <4>1. b = own(t) /\ c = own(now)
        BY <1>5, <1>6, <1>12, <3>4
      <4>2. ~(own(t).next # 0 /\ own(t).next <= now)
        BY <1>14, <4>1 DEF Zero
      <4> QED  BY <1>9, <3>4, <4>1, <4>2
    <3>5. CASE ~refused /\ ~TokenExpired(a, now) /\ ~CredentialQuota(a, t) /\ ~hasState /\ unserved
      BY <1>3, <1>5, <1>6, <1>12, <3>5
    <3>6. CASE ~refused /\ ~TokenExpired(a, now) /\ ~CredentialQuota(a, t) /\ ~hasState /\ ~unserved
      <4>1. b = whole(t) /\ c = whole(now)
        BY <1>5, <1>6, <1>12, <3>6
      <4>2. ~(whole(t).next # 0 /\ whole(t).next <= now)
        BY <1>14, <4>1 DEF Zero
      <4> QED  BY <1>10, <4>1, <4>2
    <3> QED  BY <1>5, <3>1, <3>2, <3>3, <3>4, <3>5, <3>6
  <2> QED  BY <2>1, <2>2
<1> QED  BY <1>13, <1>14
-----------------------------------------------------------------------------
(***************************************************************************)
(* The result of a request for one model leaves the others as they are.    *)
(***************************************************************************)
\* In b, the models other than m are as they were in a.
OnlyModel(a, b, m, t) ==
  /\ b.disabled = a.disabled /\ b.token = a.token /\ b.expiry = a.expiry
  /\ DOMAIN b.models = DOMAIN a.models \cup {m}
  /\ \A n \in DOMAIN a.models \ {m} : b.models[n] \in {a.models[n], Expire(a.models[n], t)}
  /\ b.quota = a.quota \/ (~CredentialQuota(a, t) /\ b.quota.reason # "credential_quota")

LEMMA OthersAlike ==
  ASSUME NEW a \in Auths, NEW b \in Auths, NEW t \in Nat, NEW m \in Models, OnlyModel(a, b, m, t),
         SoundModels(a, t), FreeUntilServed(a),
         a.lastError # "unauthorized", b.lastError # "unauthorized",
         NEW n \in Models \ {m}, NEW u \in Nat, t <= u
  PROVE  BlockedFor(b, n, u) <=> BlockedFor(a, n, u)
<1>1. /\ BlockedFor(a, n, u) <=>
           \/ a.disabled \/ hasUnauthorizedAuthFailure(a) \/ TokenExpired(a, u)
           \/ CredentialQuota(a, u)
           \/ n \in DOMAIN a.models /\ Barred(a.models[n], u)
           \/ DOMAIN a.models = {} /\ Barred(a, u)
      /\ BlockedFor(b, n, u) <=>
           \/ b.disabled \/ hasUnauthorizedAuthFailure(b) \/ TokenExpired(b, u)
           \/ CredentialQuota(b, u)
           \/ n \in DOMAIN b.models /\ Barred(b.models[n], u)
           \/ DOMAIN b.models = {} /\ Barred(b, u)
  BY WhenBlocked DEF BlockedFor
<1>2. ~hasUnauthorizedAuthFailure(a) /\ ~hasUnauthorizedAuthFailure(b)
  BY DEF hasUnauthorizedAuthFailure
<1>3. TokenExpired(a, u) <=> TokenExpired(b, u)
  BY DEF OnlyModel, TokenExpired
<1>4. CredentialQuota(a, u) <=> CredentialQuota(b, u)
  <2>1. CredentialQuota(a, u) => CredentialQuota(a, t)
    <3>1. a.quota.nextRecoverAt \in Nat
      BY AuthFields
    <3> QED  BY <3>1 DEF CredentialQuota, ActiveQuota
  <2>2. b.quota = a.quota => (CredentialQuota(a, u) <=> CredentialQuota(b, u))
    BY DEF CredentialQuota, ActiveQuota
  <2>3. b.quota.reason # "credential_quota" => ~CredentialQuota(b, u)
    BY DEF CredentialQuota
  <2> QED  BY <2>1, <2>2, <2>3 DEF OnlyModel
<1>5. n \in DOMAIN b.models <=> n \in DOMAIN a.models
  BY DEF OnlyModel
<1>6. ASSUME n \in DOMAIN a.models
      PROVE  Barred(a.models[n], u) <=> Barred(b.models[n], u)
  <2>1. a.models[n] \in ModelStates /\ b.models[n] \in ModelStates /\ Sound(a.models[n], t)
    BY <1>5, <1>6, AuthFields DEF SoundModels
  <2>2. b.models[n] \in {a.models[n], Expire(a.models[n], t)}
    BY <1>6 DEF OnlyModel
  <2>3. /\ Sound(Expire(a.models[n], t), t)
        /\ Waits(Expire(a.models[n], t), u) <=> Waits(a.models[n], u)
    BY <2>1, SoundExpire
  <2>4. Sound(b.models[n], t) /\ (Waits(b.models[n], u) <=> Waits(a.models[n], u))
    BY <2>1, <2>2, <2>3
  <2> QED  BY <2>1, <2>4, SoundBar
<1>7. ~(DOMAIN a.models = {} /\ Barred(a, u)) /\ DOMAIN b.models # {}
  BY DEF FreeUntilServed, Barred, OnlyModel
<1> QED  BY <1>1, <1>2, <1>3, <1>4, <1>5, <1>6, <1>7 DEF OnlyModel

LEMMA AggregatedToken ==
  ASSUME NEW a \in Auths, NEW t
  PROVE  updateAggregatedAvailability(a, t).token = a.token
BY DEF updateAggregatedAvailability, clearAggregatedAvailability, Auths

\* An aggregation changes no more than what has run out.
LEMMA AggregatedOnly ==
  ASSUME NEW a \in Auths, NEW b \in Auths, NEW t \in Nat, NEW m \in Models,
         b.disabled = a.disabled, b.token = a.token, b.expiry = a.expiry, b.quota = a.quota,
         DOMAIN b.models = DOMAIN a.models \cup {m},
         \A n \in DOMAIN a.models \ {m} : b.models[n] = a.models[n]
  PROVE  OnlyModel(a, updateAggregatedAvailability(b, t), m, t)
<1> DEFINE u == updateAggregatedAvailability(b, t)
<1>1. /\ SameFace(b, u) /\ DOMAIN u.models = DOMAIN b.models
      /\ \A n \in DOMAIN b.models : u.models[n] \in {b.models[n], Expire(b.models[n], t)}
  BY AggregatedForm
<1>2. u.token = b.token
  BY AggregatedToken
<1>3. /\ u.quota.reason = "credential_quota" => u.quota = b.quota
      /\ CredentialQuota(b, t) => u.quota = b.quota
  BY AggregatedType
<1>4. CredentialQuota(a, t) <=> CredentialQuota(b, t)
  BY DEF CredentialQuota, ActiveQuota
<1> HIDE DEF u
<1>5. u.disabled = a.disabled /\ u.token = a.token /\ u.expiry = a.expiry
  BY <1>1, <1>2 DEF SameFace
<1>6. \A n \in DOMAIN a.models \ {m} : u.models[n] \in {a.models[n], Expire(a.models[n], t)}
  BY <1>1
<1>7. u.quota = a.quota \/ (~CredentialQuota(a, t) /\ u.quota.reason # "credential_quota")
  BY <1>3, <1>4
<1> QED  BY <1>1, <1>5, <1>6, <1>7 DEF OnlyModel, u

LEMMA FailureConcernsItsModel ==
  ASSUME NEW a \in Auths, NEW result \in Results, result.model \in Models, ~result.scope,
         result.kind \in Failures, NEW t \in Nat, t > 0, SoundModels(a, t)
  PROVE  OnlyModel(a, ModelFailed(a, result, t), result.model, t)
<1> DEFINE m == result.model
           state == ensureModelState(a, m)
           after == Failed(state, result.kind, result.hint, t)
           models == [n \in DOMAIN a.models \cup {m} |-> IF n = m THEN after ELSE a.models[n]]
           failed == [a EXCEPT !.models = models, !.lastError = ErrorOf(result.kind),
                               !.status = "error"]
<1>1. ModelFailed(a, result, t) = updateAggregatedAvailability(failed, t)
  BY DEF ModelFailed
<1>2. state \in ModelStates
  BY AuthFields, FreshTypes DEF ensureModelState
<1> HIDE DEF state
<1>3. after \in ModelStates
  BY <1>2, ResultType, FailedType
<1> HIDE DEF after
<1>4. models \in ModelMaps /\ DOMAIN models = DOMAIN a.models \cup {m}
  <2>1. \A n \in DOMAIN a.models \cup {m} : models[n] \in ModelStates
    BY <1>3, AuthFields
  <2>2. DOMAIN a.models \cup {m} \in SUBSET Models
    BY AuthFields
  <2>3. models \in [DOMAIN a.models \cup {m} -> ModelStates]
    BY <2>1
  <2> HIDE DEF models
  <2> QED  BY <2>2, <2>3, MapType
<1>5. \A n \in DOMAIN a.models \ {m} : models[n] = a.models[n]
  OBVIOUS
<1> HIDE DEF models
<1>6. ErrorOf(result.kind) \in Errors
  BY DEF ErrorOf, Errors
<1>7. /\ failed \in Auths /\ failed.models = models /\ failed.expiry = a.expiry
      /\ failed.quota = a.quota /\ failed.token = a.token /\ failed.disabled = a.disabled
  BY <1>4, <1>6 DEF Auths, Statuses
<1> HIDE DEF failed
<1> QED  BY <1>1, <1>4, <1>5, <1>7, AggregatedOnly

LEMMA SuccessConcernsItsModel ==
  ASSUME NEW a \in Auths, NEW m \in Models, NEW t \in Nat
  PROVE  OnlyModel(a, ModelSucceeded(a, m, t), m, t)
<1> DEFINE models == [n \in DOMAIN a.models \cup {m} |->
                        IF n = m THEN resetModelState ELSE a.models[n]]
           b == [a EXCEPT !.models = models]
           u == updateAggregatedAvailability(b, t)
           s == ForgetError(u, t)
<1>1. models \in ModelMaps /\ DOMAIN models = DOMAIN a.models \cup {m}
  <2>1. \A n \in DOMAIN a.models \cup {m} : models[n] \in ModelStates
    BY AuthFields, FreshTypes
  <2>2. DOMAIN a.models \cup {m} \in SUBSET Models
    BY AuthFields
  <2>3. models \in [DOMAIN a.models \cup {m} -> ModelStates]
    BY <2>1
  <2> HIDE DEF models
  <2> QED  BY <2>2, <2>3, MapType
<1>2. \A n \in DOMAIN a.models \ {m} : models[n] = a.models[n]
  OBVIOUS
<1>3. ModelSucceeded(a, m, t) = s
  BY DEF ModelSucceeded
<1> HIDE DEF models
<1>4. /\ b \in Auths /\ b.models = models /\ b.quota = a.quota
      /\ b.disabled = a.disabled /\ b.expiry = a.expiry /\ b.token = a.token
  BY <1>1 DEF Auths
<1> HIDE DEF b
<1>5. u \in Auths
  BY <1>4, AggregatedType
<1>6. OnlyModel(a, u, m, t)
  BY <1>1, <1>2, <1>4, AggregatedOnly
<1> HIDE DEF u
<1>7. /\ s.models = u.models /\ s.disabled = u.disabled /\ s.expiry = u.expiry
      /\ s.quota = u.quota
  BY <1>5, ForgetFit
<1>8. s.token = u.token
  BY <1>5 DEF ForgetError, Auths
<1> HIDE DEF s
<1> QED  BY <1>3, <1>6, <1>7, <1>8 DEF OnlyModel

\* What a result does to the models it does not name, and to whether the credential is on.
LEMMA ResultConcernsItsModel ==
  ASSUME NEW a \in Auths, NEW result \in Results, result.model \in Models, ~result.scope,
         result.kind # "unauthorized", NEW t \in Nat, t > 0, Capped(a, t), Fit(a, t),
         FreeUntilServed(a), a.lastError # "unauthorized", NEW n \in Models \ {result.model}
  PROVE  LET r == MarkResult(a, result, t)
         IN  /\ r.disabled = a.disabled /\ r.token = a.token
             /\ \A u \in Nat : t <= u => (BlockedFor(r, n, u) <=> BlockedFor(a, n, u))
<1> DEFINE r == MarkResult(a, result, t)
<1>1. /\ result.model # NoModel /\ result.hint \in Hints
      /\ result.kind \in Failures \cup {"success", "skipped"}
  BY ResultType, CooldownAssumption
<1>2. r \in Auths /\ r.lastError # "unauthorized"
  BY MarkResultKeeps, MarkResultFit
<1>3. r = a \/ OnlyModel(a, r, result.model, t)
  <2>1. CASE result.kind = "skipped"
    BY <2>1 DEF MarkResult
  <2>2. CASE result.kind = "success"
    <3>1. r = a \/ r = ModelSucceeded(a, result.model, t)
      BY <1>1, <2>2 DEF MarkResult
    <3> HIDE DEF r
    <3> QED  BY <3>1, SuccessConcernsItsModel
  <2>3. CASE result.kind \in Failures
    <3>1. r = ModelFailed(a, result, t)
      BY <1>1, <2>3 DEF MarkResult, Failures
    <3> HIDE DEF r
    <3> QED  BY <2>3, <3>1, FailureConcernsItsModel DEF Fit
  <2> QED  BY <1>1, <2>1, <2>2, <2>3
<1> HIDE DEF r
<1>4. CASE r = a
  BY <1>4 DEF r
<1>5. CASE OnlyModel(a, r, result.model, t)
  <2>1. r.disabled = a.disabled /\ r.token = a.token
    BY <1>5 DEF OnlyModel
  <2>2. \A u \in Nat : t <= u => (BlockedFor(r, n, u) <=> BlockedFor(a, n, u))
    BY <1>2, <1>5, OthersAlike DEF Fit
  <2> QED  BY <2>1, <2>2 DEF r
<1> QED  BY <1>3, <1>4, <1>5
-----------------------------------------------------------------------------
(***************************************************************************)
(* What is in flight.  The fourth argument is about the order in which     *)
(* publications arrive: whatever the scheduler takes in is current, or     *)
(* something newer that concerns the shard is still on its way.            *)
(***************************************************************************)
\* The order of publications, by which isStaleScheduledAuth tells a late one.
Before(x, y) ==
  \/ x.epoch < y.epoch
  \/ /\ x.epoch = y.epoch
     /\ \/ x.generation < y.generation
        \/ x.generation = y.generation /\ x.updatedAt < y.updatedAt

Stamps(x) == x.epoch \in Nat /\ x.generation \in Nat /\ x.updatedAt \in Int

SameStamps(x, y) ==
  x.epoch = y.epoch /\ x.generation = y.generation /\ x.updatedAt = y.updatedAt

LEMMA Order ==
  /\ \A x, y, z : Stamps(x) /\ Stamps(y) /\ Stamps(z) =>
       /\ ~Before(x, x)
       /\ Before(x, y) => ~Before(y, x)
       /\ Before(x, y) /\ Before(y, z) => Before(x, z)
       /\ ~Before(x, y) /\ Before(x, z) => Before(y, z)
       /\ ~Before(x, y) /\ ~Before(y, z) => ~Before(x, z)
       /\ ~Before(x, y) /\ ~Before(y, x) => SameStamps(x, y)
  /\ \A x, y, z : SameStamps(x, y) =>
       (Before(x, z) <=> Before(y, z)) /\ (Before(z, x) <=> Before(z, y))
BY DEF Before, Stamps, SameStamps

LEMMA StaleIsBefore ==
  ASSUME NEW m, NEW snapshot, Stamps(m.seen), Stamps(snapshot)
  PROVE  isStaleScheduledAuth(m, snapshot) <=> Before(snapshot, m.seen)
BY DEF isStaleScheduledAuth, Before, Stamps

\* A credential that is out of rotation, and two that serve a model alike from a time on.
Off(a) == a = Absent \/ a.disabled

Like(a, b, s, t) ==
  \/ Off(a) /\ Off(b)
  \/ /\ ~Off(a) /\ ~Off(b) /\ a.token = b.token
     /\ \A u \in Nat : t <= u => (BlockedFor(a, s, u) <=> BlockedFor(b, s, u))

LEMMA LikeOrder ==
  /\ \A a, s, t : Like(a, a, s, t)
  /\ \A a, b, c, s, t : Like(a, b, s, t) /\ Like(b, c, s, t) => Like(a, c, s, t)
  /\ \A a, b, s, t, u : t \in Nat /\ u \in Nat /\ t <= u /\ Like(a, b, s, t) => Like(a, b, s, u)
<1>1. \A a, s, t : Like(a, a, s, t)
  BY DEF Like
<1>2. \A a, b, c, s, t : Like(a, b, s, t) /\ Like(b, c, s, t) => Like(a, c, s, t)
  BY DEF Like
<1>3. \A t, u \in Nat : t <= u => \A v \in Nat : u <= v => t <= v
  OBVIOUS
<1>4. \A a, b, s, t, u : t \in Nat /\ u \in Nat /\ t <= u /\ Like(a, b, s, t) => Like(a, b, s, u)
  BY <1>3 DEF Like
<1> QED  BY <1>1, <1>2, <1>4

\* An absent credential is neither a credential nor an entry.
NullsApart ==
  /\ Absent \notin Auths
  /\ \A auth \in Auths : \A block : [auth |-> auth, block |-> block] # Absent

\* A publication that has a shard computed again.
Concerns(q, s) == q.kind # "result" \/ q.targets = {} \/ s \in q.targets \cup {NoModel}

\* Something newer about the shard is in flight.
Awaited(x, s) == \E q \in inFlight : Before(x, q.snapshot) /\ Concerns(q, s)

\* What is taken in as auth is what the manager holds, or will be replaced.
Reaches(x, auth, s) == Like(auth, held.auth, s, now) \/ Awaited(x, s)

\* A late publication has the shard computed again, too, but a late tombstone does nothing.
Pending(q, s) == Concerns(q, s) /\ (q.kind = "tombstone" => Before(mirror.seen, q.snapshot))

FreshOK ==
  \A p \in inFlight : p.snapshot # NoSnapshot /\ ~Before(p.snapshot, mirror.seen) =>
    \A s \in Shards : Reaches(p.snapshot, p.snapshot.auth, s)

MetaCurrent == \A s \in Shards : Reaches(mirror.seen, mirror.meta, s)

EntriesCurrent ==
  mirror.meta # Absent =>
    \A s \in Shards : Built(mirror.shards, s) =>
      \/ Like(mirror.shards[s].auth, held.auth, s, now)
      \/ \E q \in inFlight : Pending(q, s)

Current == ~overtaken => FreshOK /\ MetaCurrent /\ EntriesCurrent

-----------------------------------------------------------------------------
(***************************************************************************)
(* What the argument rests on, dropped publications or not.                *)
(***************************************************************************)
\* Nothing is ahead of what the manager holds.
Behind(x) ==
  x.epoch = held.epoch =>
    /\ x.generation <= held.generation
    /\ x.generation = held.generation => Rank(x.updatedAt) <= Rank(held.updatedAt)

Latest(x) ==
  /\ x.epoch = held.epoch /\ x.generation = held.generation
  /\ Rank(x.updatedAt) = Rank(held.updatedAt)

StampsOK ==
  /\ Stamps(held) /\ Stamps(mirror.seen) /\ mirror.seen.epoch > 0
  /\ \A p \in inFlight : Stamps(p.snapshot)
  /\ Held => /\ Behind(mirror.seen)
             /\ \A p \in inFlight : Behind(p.snapshot) /\ (Latest(p.snapshot) => p.snapshot = held)

\* A tombstone has an epoch of its own.
TombstonesOK ==
  \A p \in inFlight : p.kind = "tombstone" =>
    /\ p.snapshot.auth = Absent /\ p.snapshot.generation = 0 /\ p.snapshot.epoch > 0
    /\ mirror.seen.epoch # p.snapshot.epoch
    /\ Held => p.snapshot.epoch < held.epoch
    /\ \A q \in inFlight : q.snapshot.epoch = p.snapshot.epoch => q = p

\* A registration the scheduler has not seen is still to be announced by Register.
Announced(e) ==
  e > mirror.seen.epoch => \E r \in inFlight : r.kind = "lifecycle" /\ r.snapshot.epoch = e

AnnouncedOK ==
  /\ Held => Announced(held.epoch)
  /\ \A p \in inFlight : p.kind # "tombstone" => Announced(p.snapshot.epoch)

\* An entry is what the availability of an enabled credential was at some time.
Entry(entry, s, t) ==
  /\ entry.auth \in Auths /\ ~entry.auth.disabled
  /\ \E u \in Nat :
       u <= t /\ entry = [auth |-> entry.auth, block |-> isAuthBlockedForModel(entry.auth, s, u)]

EntriesOK(m, t) ==
  /\ m.meta = Absent => Gone(m)
  /\ m.meta # Absent =>
       ~m.meta.disabled /\ \A s \in Shards : Built(m.shards, s) => Entry(m.shards[s], s, t)

Orderly == StampsOK /\ TombstonesOK /\ AnnouncedOK /\ EntriesOK(mirror, now)
-----------------------------------------------------------------------------
(***************************************************************************)
(* What the scheduler does with a publication: it takes it in, passes over *)
(* it as late, or drops what it knows.                                     *)
(***************************************************************************)
Adopts(m, n, p) ==
  /\ ~Before(p.snapshot, m.seen) /\ SameStamps(n.seen, p.snapshot)
  /\ n.meta = IF Off(p.snapshot.auth) THEN Absent ELSE p.snapshot.auth
  /\ n.meta = Absent => Gone(n)
  /\ n.meta # Absent => \A s \in Shards : Built(n.shards, s) =>
       \/ n.shards[s] = upsertEntry(n.meta, s)
       \/ /\ n.shards[s] = m.shards[s] /\ m.meta # Absent /\ p.kind = "result"
          /\ ~Concerns(p, s) /\ s \notin ResultShards(m, p)

Passes(m, n, p) ==
  /\ Before(p.snapshot, m.seen) /\ n.seen = m.seen /\ n.meta = m.meta
  /\ m.meta = Absent => n = m
  /\ m.meta # Absent => \A s \in Shards : Built(n.shards, s) =>
       \/ n.shards[s] = upsertEntry(m.meta, s)
       \/ /\ n.shards[s] = m.shards[s]
          /\ ~Concerns(p, s) \/ p.kind \in {"lifecycle", "tombstone"}

Clears(m, n, p) ==
  /\ p.kind = "rebuild" /\ n.seen = m.seen /\ Gone(n)
  /\ p.snapshot = NoSnapshot \/ Before(p.snapshot, m.seen)

LEMMA UpsertTakes ==
  ASSUME NEW m, MirrorOK(m), NEW snapshot, NEW shards
  PROVE  LET n == upsertAuthForModels(m, snapshot, shards)
         IN  /\ n.seen = m.seen /\ n.meta = snapshot.auth
             /\ \A s \in Shards : Built(n.shards, s) =>
                  \/ s \in shards /\ n.shards[s] = upsertEntry(snapshot.auth, s)
                  \/ s \notin shards /\ n.shards[s] = m.shards[s]
<1> DEFINE f == [s \in Shards |-> IF s \in shards /\ m.shards[s] # Unbuilt
                                  THEN upsertEntry(snapshot.auth, s) ELSE m.shards[s]]
           n == upsertAuthForModels(m, snapshot, shards)
<1>1. n.seen = m.seen /\ n.meta = snapshot.auth /\ n.shards = f
  BY DEF upsertAuthForModels, MirrorOK, Built
<1>2. ASSUME NEW s \in Shards, f[s] # Unbuilt
      PROVE  \/ s \in shards /\ f[s] = upsertEntry(snapshot.auth, s)
             \/ s \notin shards /\ f[s] = m.shards[s]
  BY <1>2
<1> HIDE DEF f, n
<1>3. \A s \in Shards : Built(n.shards, s) =>
        \/ s \in shards /\ n.shards[s] = upsertEntry(snapshot.auth, s)
        \/ s \notin shards /\ n.shards[s] = m.shards[s]
  BY <1>1, <1>2 DEF Built
<1> QED  BY <1>1, <1>3 DEF n

LEMMA SeenFields ==
  ASSUME NEW m, MirrorOK(m), NEW snapshot
  PROVE  /\ SameStamps(Seen(m, snapshot).seen, snapshot)
         /\ Seen(m, snapshot).meta = m.meta /\ Seen(m, snapshot).shards = m.shards
BY DEF MirrorOK, Seen, SameStamps

\* A credential is taken in for some shards, or taken out of all of them.
TakenFor(m, n, p, shards) ==
  /\ SameStamps(n.seen, p.snapshot)
  /\ n.meta = IF Off(p.snapshot.auth) THEN Absent ELSE p.snapshot.auth
  /\ n.meta = Absent => Gone(n)
  /\ n.meta # Absent => \A s \in Shards : Built(n.shards, s) =>
       \/ s \in shards /\ n.shards[s] = upsertEntry(n.meta, s)
       \/ s \notin shards /\ n.shards[s] = m.shards[s]

LEMMA Adopted ==
  ASSUME NullsApart, NEW m, MirrorOK(m), NEW p, SnapshotOK(p.snapshot),
         p.snapshot.auth \in Auths, NEW shards, NEW n,
         n = IF p.snapshot.auth.disabled THEN removeAuthFromProviders(Seen(m, p.snapshot))
             ELSE upsertAuthForModels(Seen(m, p.snapshot), p.snapshot, shards)
  PROVE  TakenFor(m, n, p, shards)
<1> DEFINE seen == Seen(m, p.snapshot)
<1>1. /\ MirrorOK(seen) /\ SameStamps(seen.seen, p.snapshot)
      /\ seen.meta = m.meta /\ seen.shards = m.shards
  BY SeenShape, SeenFields
<1>2. p.snapshot.auth # Absent
  BY DEF NullsApart
<1> HIDE DEF seen
<1>3. CASE p.snapshot.auth.disabled
  <2>1. n = removeAuthFromProviders(seen) /\ Off(p.snapshot.auth)
    BY <1>3 DEF seen, Off
  <2>2. n.seen = seen.seen /\ Gone(n)
    BY <1>1, <2>1, RemoveShape
  <2> QED  BY <1>1, <2>1, <2>2 DEF Gone, TakenFor
<1>4. CASE ~p.snapshot.auth.disabled
  <2>1. n = upsertAuthForModels(seen, p.snapshot, shards) /\ ~Off(p.snapshot.auth)
    BY <1>2, <1>4 DEF seen, Off
  <2>2. /\ n.seen = seen.seen /\ n.meta = p.snapshot.auth
        /\ \A s \in Shards : Built(n.shards, s) =>
             \/ s \in shards /\ n.shards[s] = upsertEntry(p.snapshot.auth, s)
             \/ s \notin shards /\ n.shards[s] = seen.shards[s]
    BY <1>1, <2>1, UpsertTakes
  <2> QED  BY <1>1, <1>2, <2>1, <2>2 DEF TakenFor
<1> QED  BY <1>3, <1>4

LEMMA LifecycleOutcome ==
  ASSUME NullsApart, NEW m, MirrorOK(m), Stamps(m.seen), NEW p, SnapshotOK(p.snapshot),
         Stamps(p.snapshot), p.snapshot.auth \in Auths
  PROVE  LET n == upsertAuthLifecycle(m, p.snapshot)
         IN  (Before(p.snapshot, m.seen) /\ n = m) \/ (~Before(p.snapshot, m.seen) /\ Adopts(m, n, p))
<1> DEFINE n == upsertAuthLifecycle(m, p.snapshot)
<1>1. isStaleScheduledAuth(m, p.snapshot) <=> Before(p.snapshot, m.seen)
  BY StaleIsBefore
<1>2. CASE Before(p.snapshot, m.seen)
  BY <1>1, <1>2 DEF upsertAuthLifecycle
<1>3. CASE ~Before(p.snapshot, m.seen)
  <2>1. n = IF p.snapshot.auth.disabled THEN removeAuthFromProviders(Seen(m, p.snapshot))
            ELSE upsertAuthForModels(Seen(m, p.snapshot), p.snapshot, Shards)
    BY <1>1, <1>3 DEF upsertAuthLifecycle
  <2> HIDE DEF n
  <2>2. TakenFor(m, n, p, Shards)
    BY <2>1, Adopted
  <2>3. Adopts(m, n, p)
    BY <1>3, <2>2 DEF Adopts, TakenFor
  <2> QED  BY <1>3, <2>3 DEF n
<1> QED  BY <1>2, <1>3

LEMMA ResultOutcome ==
  ASSUME NullsApart, NEW m, MirrorOK(m), Stamps(m.seen), NEW p, SnapshotOK(p.snapshot),
         Stamps(p.snapshot), p.snapshot.auth \in Auths, p.kind = "result"
  PROVE  LET n == upsertAuthResult(m, p) IN Adopts(m, n, p) \/ Passes(m, n, p)
<1> DEFINE n == upsertAuthResult(m, p)
           targets == IF p.targets = {} THEN Shards ELSE p.targets \cup {NoModel}
<1>1. isStaleScheduledAuth(m, p.snapshot) <=> Before(p.snapshot, m.seen)
  BY StaleIsBefore
<1>2. CASE Before(p.snapshot, m.seen) /\ m.meta = Absent
  <2>1. n = m
    BY <1>1, <1>2 DEF upsertAuthResult
  <2> HIDE DEF n
  <2>2. Passes(m, n, p)
    BY <1>2, <2>1 DEF Passes
  <2> QED  BY <2>2 DEF n
<1>3. CASE Before(p.snapshot, m.seen) /\ m.meta # Absent
  <2> DEFINE late == [auth |-> m.meta]
  <2>1. n = upsertAuthForModels(m, late, targets) /\ late.auth = m.meta
    BY <1>1, <1>3 DEF upsertAuthResult
  <2>2. \A s \in Shards : s \notin targets => ~Concerns(p, s)
    BY DEF Concerns
  <2> HIDE DEF n, late, targets
  <2>3. /\ n.seen = m.seen /\ n.meta = m.meta
        /\ \A s \in Shards : Built(n.shards, s) =>
             \/ s \in targets /\ n.shards[s] = upsertEntry(m.meta, s)
             \/ s \notin targets /\ n.shards[s] = m.shards[s]
    BY <2>1, UpsertTakes
  <2>4. Passes(m, n, p)
    BY <1>3, <2>2, <2>3 DEF Passes
  <2> QED  BY <2>4 DEF n
<1>4. CASE ~Before(p.snapshot, m.seen)
  <2>0. PICK own : own = ResultShards(m, p)
    OBVIOUS
  <2>1. n = IF p.snapshot.auth.disabled THEN removeAuthFromProviders(Seen(m, p.snapshot))
            ELSE upsertAuthForModels(Seen(m, p.snapshot), p.snapshot, own)
    BY <1>1, <1>4, <2>0 DEF upsertAuthResult
  <2>2. \A s \in Shards : s \notin own => ~Concerns(p, s) /\ m.meta # Absent
    BY <2>0 DEF Concerns, ResultShards, AvailabilityChanged
  <2> HIDE DEF n
  <2>3. TakenFor(m, n, p, own)
    BY <2>1, Adopted
  <2>4. Adopts(m, n, p)
    BY <1>4, <2>0, <2>2, <2>3 DEF Adopts, TakenFor
  <2> QED  BY <2>4 DEF n
<1> QED  BY <1>2, <1>3, <1>4

LEMMA TombstoneOutcome ==
  ASSUME NEW m, MirrorOK(m), Stamps(m.seen), NEW p, SnapshotOK(p.snapshot),
         Stamps(p.snapshot), p.kind = "tombstone", p.snapshot.auth = Absent,
         m.seen.epoch # p.snapshot.epoch
  PROVE  LET n == recordRemovalTombstone(m, p.snapshot) IN Adopts(m, n, p) \/ Passes(m, n, p)
<1> DEFINE n == recordRemovalTombstone(m, p.snapshot)
           seen == Seen(m, p.snapshot)
<1>1. CASE p.snapshot.epoch < m.seen.epoch
  <2>1. n = m
    BY <1>1 DEF recordRemovalTombstone
  <2>2. Before(p.snapshot, m.seen)
    BY <1>1 DEF Before
  <2> HIDE DEF n
  <2>3. Passes(m, n, p)
    BY <2>1, <2>2 DEF Passes
  <2> QED  BY <2>3 DEF n
<1>2. CASE ~(p.snapshot.epoch < m.seen.epoch)
  <2>1. n = removeAuthFromProviders(seen)
    BY <1>2 DEF recordRemovalTombstone
  <2>2. ~Before(p.snapshot, m.seen)
    BY <1>2 DEF Before
  <2>3. MirrorOK(seen) /\ SameStamps(seen.seen, p.snapshot)
    BY SeenShape, SeenFields
  <2> HIDE DEF n, seen
  <2>4. n.seen = seen.seen /\ Gone(n)
    BY <2>1, <2>3, RemoveShape
  <2>5. Adopts(m, n, p)
    BY <2>2, <2>3, <2>4 DEF Adopts, Gone, Off
  <2> QED  BY <2>5 DEF n
<1> QED  BY <1>1, <1>2

LEMMA RebuildOutcome ==
  ASSUME NullsApart, NEW m, MirrorOK(m), Stamps(m.seen), NEW p, SnapshotOK(p.snapshot),
         Stamps(p.snapshot), p.kind = "rebuild",
         p.snapshot = NoSnapshot \/ p.snapshot.auth \in Auths
  PROVE  LET n == rebuild(m, p.snapshot) IN Adopts(m, n, p) \/ Clears(m, n, p)
<1> DEFINE f == [s \in Shards |-> Unbuilt]
           empty == [m EXCEPT !.provider = FALSE, !.meta = Absent, !.shards = f]
           n == rebuild(m, p.snapshot)
<1>1. MirrorOK(empty) /\ empty.seen = m.seen /\ Gone(empty)
  BY DEF MirrorOK, Gone
<1>2. n = IF p.snapshot = NoSnapshot THEN empty ELSE upsertAuthLifecycle(empty, p.snapshot)
  BY DEF rebuild
<1> HIDE DEF f, empty, n
<1>3. CASE p.snapshot = NoSnapshot
  <2>1. Clears(m, n, p)
    BY <1>1, <1>2, <1>3 DEF Clears
  <2> QED  BY <2>1 DEF n
<1>4. CASE p.snapshot # NoSnapshot
  <2>1. n = upsertAuthLifecycle(empty, p.snapshot)
    BY <1>2, <1>4
  <2>2. \/ Before(p.snapshot, empty.seen) /\ n = empty
        \/ ~Before(p.snapshot, empty.seen) /\ Adopts(empty, n, p)
    BY <1>1, <1>4, <2>1, LifecycleOutcome
  <2>3. CASE Before(p.snapshot, empty.seen) /\ n = empty
    <3>1. Clears(m, n, p)
      BY <1>1, <2>3 DEF Clears
    <3> QED  BY <3>1 DEF n
  <2>4. CASE Adopts(empty, n, p)
    <3>1. Adopts(m, n, p)
      BY <1>1, <2>4 DEF Adopts, Gone
    <3> QED  BY <3>1 DEF n
  <2> QED  BY <2>2, <2>3, <2>4
<1> QED  BY <1>3, <1>4
\* What the invariants say of a publication that arrives.
LEMMA Arrival ==
  ASSUME Bookkeeping, Orderly, NEW p \in inFlight
  PROVE  /\ MirrorOK(mirror) /\ Stamps(mirror.seen) /\ SnapshotOK(p.snapshot) /\ Stamps(p.snapshot)
         /\ p.kind \in Kind
         /\ p.kind \in {"lifecycle", "result"} => p.snapshot.auth \in Auths
         /\ p.kind = "rebuild" => p.snapshot = NoSnapshot \/ p.snapshot.auth \in Auths
         /\ p.kind = "tombstone" => p.snapshot.auth = Absent /\ mirror.seen.epoch # p.snapshot.epoch
BY DEF Bookkeeping, CredentialsOK, InFlightOK, EpochInvariant, ShapesOK, Orderly, StampsOK, TombstonesOK

LEMMA DeliverOutcome ==
  ASSUME NullsApart, Bookkeeping, Orderly, NEW p \in inFlight, Deliver(p)
  PROVE  \/ Adopts(mirror, mirror', p) \/ Passes(mirror, mirror', p) \/ Clears(mirror, mirror', p)
<1>1. /\ MirrorOK(mirror) /\ Stamps(mirror.seen) /\ SnapshotOK(p.snapshot) /\ Stamps(p.snapshot)
      /\ p.kind \in Kind
      /\ p.kind \in {"lifecycle", "result"} => p.snapshot.auth \in Auths
      /\ p.kind = "rebuild" => p.snapshot = NoSnapshot \/ p.snapshot.auth \in Auths
      /\ p.kind = "tombstone" => p.snapshot.auth = Absent /\ mirror.seen.epoch # p.snapshot.epoch
  BY Arrival
<1>2. mirror' = Receive(mirror, p)
  BY DEF Deliver
<1>3. CASE p.kind = "lifecycle"
  <2>1. mirror' = upsertAuthLifecycle(mirror, p.snapshot)
    BY <1>2, <1>3 DEF Receive
  <2>2. \/ Before(p.snapshot, mirror.seen) /\ mirror' = mirror
        \/ Adopts(mirror, mirror', p)
    BY <1>1, <1>3, <2>1, LifecycleOutcome
  <2>3. Before(p.snapshot, mirror.seen) /\ mirror' = mirror => Passes(mirror, mirror', p)
    BY <1>3 DEF Passes
  <2> QED  BY <2>2, <2>3
<1>4. CASE p.kind = "result"
  <2>1. mirror' = upsertAuthResult(mirror, p)
    BY <1>2, <1>4 DEF Receive
  <2> QED  BY <1>1, <1>4, <2>1, ResultOutcome
<1>5. CASE p.kind = "tombstone"
  <2>1. mirror' = recordRemovalTombstone(mirror, p.snapshot)
    BY <1>2, <1>5 DEF Receive
  <2> QED  BY <1>1, <1>5, <2>1, TombstoneOutcome
<1>6. CASE p.kind = "rebuild"
  <2>1. mirror' = rebuild(mirror, p.snapshot)
    BY <1>2, <1>6 DEF Receive
  <2> QED  BY <1>1, <1>6, <2>1, RebuildOutcome
<1> QED  BY <1>1, <1>3, <1>4, <1>5, <1>6 DEF Kind

LEMMA EntryBuilt ==
  ASSUME NEW a \in Auths, ~a.disabled, NEW s, now \in Nat
  PROVE  Entry(upsertEntry(a, s), s, now)
<1> DEFINE block == isAuthBlockedForModel(a, s, now)
           entry == [auth |-> a, block |-> block]
<1>1. upsertEntry(a, s) = entry /\ entry.auth = a
  BY DEF upsertEntry
<1>2. now <= now
  OBVIOUS
<1>3. \E u \in Nat : u <= now /\ entry = [auth |-> a, block |-> isAuthBlockedForModel(a, s, u)]
  BY <1>2
<1> HIDE DEF entry, block
<1> QED  BY <1>1, <1>3 DEF Entry

\* The scheduler's view of the epochs and entries, after a delivery.
LEMMA DeliverOrderly ==
  ASSUME NullsApart, Bookkeeping, Orderly, NEW p \in inFlight, Deliver(p)
  PROVE  Orderly'
<1>1. /\ UNCHANGED <<now, held, epoch>> /\ inFlight' = inFlight \ {p} /\ now \in Nat
      /\ Held' <=> Held
  BY HeldFacts DEF Deliver, Held, NoSnapshot
<1>2. \/ Adopts(mirror, mirror', p) \/ Passes(mirror, mirror', p) \/ Clears(mirror, mirror', p)
  BY DeliverOutcome
<1>3. /\ Stamps(mirror.seen) /\ Stamps(p.snapshot) /\ mirror.seen.epoch > 0
      /\ p.kind \in Kind
      /\ p.kind \in {"lifecycle", "result"} => p.snapshot.auth \in Auths
      /\ p.kind = "rebuild" => p.snapshot = NoSnapshot \/ p.snapshot.auth \in Auths
      /\ p.kind = "tombstone" => p.snapshot.auth = Absent
  BY Arrival DEF Orderly, StampsOK
<1>4. \/ SameStamps(mirror'.seen, p.snapshot) /\ ~Before(p.snapshot, mirror.seen)
      \/ mirror'.seen = mirror.seen
  BY <1>2 DEF Adopts, Passes, Clears
<1>5. /\ Stamps(mirror'.seen) /\ mirror'.seen.epoch >= mirror.seen.epoch
      /\ mirror'.seen.epoch \in {mirror.seen.epoch, p.snapshot.epoch}
  BY <1>3, <1>4 DEF SameStamps, Stamps, Before
<1>6. StampsOK'
  <2>1. Held => Behind(mirror'.seen)
    <3>1. Held => Behind(mirror.seen) /\ Behind(p.snapshot)
      BY DEF Orderly, StampsOK
    <3> QED  BY <1>4, <3>1 DEF Behind, SameStamps
  <2>2. (Held => Behind(mirror.seen))'
    BY <1>1, <2>1 DEF Behind
  <2>3. (Held => \A q \in inFlight : Behind(q.snapshot) /\ (Latest(q.snapshot) => q.snapshot = held))'
    BY <1>1 DEF Orderly, StampsOK, Behind, Latest
  <2>4. mirror'.seen.epoch > 0
    BY <1>3, <1>5 DEF Stamps
  <2> QED  BY <1>1, <1>5, <2>2, <2>3, <2>4 DEF Orderly, StampsOK
<1>7. TombstonesOK'
  <2>1. ASSUME NEW q \in inFlight', q.kind = "tombstone"
        PROVE  mirror'.seen.epoch # q.snapshot.epoch
    BY <1>1, <1>5, <2>1 DEF Orderly, TombstonesOK
  <2> QED  BY <1>1, <2>1 DEF Orderly, TombstonesOK
<1>8. AnnouncedOK'
  <2>1. p.kind = "lifecycle" => p.snapshot.epoch <= mirror'.seen.epoch
    <3>1. CASE Adopts(mirror, mirror', p)
      BY <1>3, <3>1 DEF Adopts, SameStamps, Stamps
    <3>2. CASE Passes(mirror, mirror', p)
      BY <1>3, <3>2 DEF Passes, Before, Stamps
    <3>3. CASE Clears(mirror, mirror', p)
      BY <3>3 DEF Clears
    <3> QED  BY <1>2, <3>1, <3>2, <3>3
  <2>2. ASSUME NEW e \in Nat, Announced(e) PROVE Announced(e)'
    <3> SUFFICES ASSUME e > mirror'.seen.epoch
                 PROVE  \E r \in inFlight' : r.kind = "lifecycle" /\ r.snapshot.epoch = e
      BY DEF Announced
    <3>1. e > mirror.seen.epoch
      BY <1>3, <1>5 DEF Stamps
    <3>2. PICK r \in inFlight : r.kind = "lifecycle" /\ r.snapshot.epoch = e
      BY <2>2, <3>1 DEF Announced
    <3>3. r # p
      BY <1>5, <2>1, <3>2 DEF Stamps
    <3> QED  BY <1>1, <3>2, <3>3
  <2>3. Held => held.epoch \in Nat /\ Announced(held.epoch)
    BY DEF Orderly, StampsOK, Stamps, AnnouncedOK
  <2>4. \A q \in inFlight : q.snapshot.epoch \in Nat
                            /\ (q.kind # "tombstone" => Announced(q.snapshot.epoch))
    BY DEF Orderly, StampsOK, Stamps, AnnouncedOK
  <2>5. (Held => Announced(held.epoch))'
    <3> SUFFICES ASSUME Held PROVE Announced(held.epoch)'
      BY <1>1
    <3>1. PICK e \in Nat : e = held.epoch
      BY <2>3
    <3>2. Announced(e)
      BY <2>3, <3>1
    <3>3. Announced(e)'
      BY <2>2, <3>2
    <3> QED  BY <1>1, <3>1, <3>3 DEF Announced
  <2>6. \A q \in inFlight' : q.kind # "tombstone" => Announced(q.snapshot.epoch)'
    BY <1>1, <2>2, <2>4
  <2> QED  BY <2>5, <2>6 DEF AnnouncedOK
<1>9. EntriesOK(mirror', now)
  <2>1. EntriesOK(mirror, now) /\ MetaOK(mirror)
    BY DEF Orderly, Bookkeeping, CredentialsOK
  <2>2. CASE Adopts(mirror, mirror', p)
    <3>1. CASE mirror'.meta = Absent
      BY <2>2, <3>1 DEF Adopts, EntriesOK
    <3>2. CASE mirror'.meta # Absent
      <4>1. mirror'.meta = p.snapshot.auth /\ ~Off(p.snapshot.auth)
        BY <2>2, <3>2 DEF Adopts
      <4>2. p.snapshot.auth \in Auths /\ ~p.snapshot.auth.disabled
        BY <1>3, <4>1, SnapshotFields DEF Off, Kind, NoSnapshot
      <4>3. ASSUME NEW s \in Shards, Built(mirror'.shards, s)
            PROVE  Entry(mirror'.shards[s], s, now)
        <5>1. CASE mirror'.shards[s] = upsertEntry(mirror'.meta, s)
          BY <1>1, <4>1, <4>2, <5>1, EntryBuilt
        <5>2. CASE mirror'.shards[s] = mirror.shards[s] /\ mirror.meta # Absent
          BY <2>1, <4>3, <5>2 DEF EntriesOK, Built
        <5> QED  BY <2>2, <3>2, <4>3, <5>1, <5>2 DEF Adopts
      <4> QED  BY <3>2, <4>1, <4>2, <4>3 DEF EntriesOK
    <3> QED  BY <3>1, <3>2
  <2>3. CASE Passes(mirror, mirror', p)
    <3>1. CASE mirror.meta = Absent
      BY <2>1, <2>3, <3>1 DEF Passes
    <3>2. CASE mirror.meta # Absent
      <4>1. mirror'.meta = mirror.meta /\ mirror.meta \in Auths /\ ~mirror.meta.disabled
        BY <2>1, <2>3, <3>2 DEF Passes, MetaOK, EntriesOK
      <4>2. ASSUME NEW s \in Shards, Built(mirror'.shards, s)
            PROVE  Entry(mirror'.shards[s], s, now)
        <5>1. CASE mirror'.shards[s] = upsertEntry(mirror.meta, s)
          BY <1>1, <4>1, <5>1, EntryBuilt
        <5>2. CASE mirror'.shards[s] = mirror.shards[s]
          BY <2>1, <3>2, <4>2, <5>2 DEF EntriesOK, Built
        <5> QED  BY <2>3, <3>2, <4>2, <5>1, <5>2 DEF Passes
      <4> QED  BY <3>2, <4>1, <4>2 DEF EntriesOK
    <3> QED  BY <3>1, <3>2
  <2>4. CASE Clears(mirror, mirror', p)
    BY <2>4 DEF Clears, Gone, EntriesOK
  <2> QED  BY <1>2, <2>2, <2>3, <2>4
<1>10. EntriesOK(mirror, now)'
  BY <1>1, <1>9
<1> QED  BY <1>6, <1>7, <1>8, <1>10 DEF Orderly
-----------------------------------------------------------------------------
(***************************************************************************)
(* A publication arrives, and what is in flight without it still suffices. *)
(***************************************************************************)
\* Reaches, without p.
Still(p, x, auth, s) ==
  \/ Like(auth, held.auth, s, now)
  \/ \E q \in inFlight \ {p} : Before(x, q.snapshot) /\ Concerns(q, s)

LEMMA StillReaches ==
  ASSUME NEW p, NEW x, NEW auth, NEW s, Reaches(x, auth, s), ~Before(x, p.snapshot)
  PROVE  Still(p, x, auth, s)
BY DEF Reaches, Awaited, Still

\* What has to be shown of the scheduler's next state n.
Suffices(p, n) ==
  /\ \A q \in inFlight \ {p} : q.snapshot # NoSnapshot /\ ~Before(q.snapshot, n.seen) =>
       \A s \in Shards : Still(p, q.snapshot, q.snapshot.auth, s)
  /\ \A s \in Shards : Still(p, n.seen, n.meta, s)
  /\ n.meta # Absent =>
       \A s \in Shards : Built(n.shards, s) =>
         \/ Like(n.shards[s].auth, held.auth, s, now)
         \/ \E q \in inFlight \ {p} :
              Concerns(q, s) /\ (q.kind = "tombstone" => Before(n.seen, q.snapshot))

LEMMA SufficesIsCurrent ==
  ASSUME NEW p, UNCHANGED <<now, held>>, inFlight' = inFlight \ {p}, Suffices(p, mirror')
  PROVE  FreshOK' /\ MetaCurrent' /\ EntriesCurrent'
<1>1. FreshOK'
  BY DEF Suffices, Still, FreshOK, Reaches, Awaited
<1>2. MetaCurrent'
  BY DEF Suffices, Still, MetaCurrent, Reaches, Awaited
<1>3. EntriesCurrent'
  BY DEF Suffices, EntriesCurrent, Pending
<1> QED  BY <1>1, <1>2, <1>3

\* An entry that is computed from the metadata is as current as these are.
LEMMA Refreshed ==
  ASSUME NEW p, NEW n, NEW s, NEW entry, Still(p, n.seen, n.meta, s), entry = upsertEntry(n.meta, s)
  PROVE  \/ Like(entry.auth, held.auth, s, now)
         \/ \E q \in inFlight \ {p} :
              Concerns(q, s) /\ (q.kind = "tombstone" => Before(n.seen, q.snapshot))
<1>1. entry.auth = n.meta
  BY DEF upsertEntry
<1> QED  BY <1>1 DEF Still

LEMMA NothingIsLate ==
  ASSUME Orderly
  PROVE  Stamps(NoSnapshot) /\ Before(NoSnapshot, mirror.seen)
BY DEF Orderly, StampsOK, Stamps, NoSnapshot, Snapshot, Before

LEMMA AdoptionSuffices ==
  ASSUME NullsApart, Bookkeeping, Orderly, FreshOK, MetaCurrent, EntriesCurrent,
         NEW p \in inFlight, NEW n, Stamps(n.seen), Adopts(mirror, n, p)
  PROVE  Suffices(p, n)
<1>1. /\ Stamps(mirror.seen) /\ Stamps(p.snapshot)
      /\ \A q \in inFlight : Stamps(q.snapshot)
  BY DEF Orderly, StampsOK
<1>2. ~Before(p.snapshot, mirror.seen) /\ SameStamps(n.seen, p.snapshot)
  BY DEF Adopts
<1>3. p.snapshot # NoSnapshot
  BY <1>2, NothingIsLate
<1>4. ASSUME NEW q \in inFlight \ {p}, q.snapshot # NoSnapshot, ~Before(q.snapshot, n.seen),
             NEW s \in Shards
      PROVE  Still(p, q.snapshot, q.snapshot.auth, s)
  <2>1. ~Before(q.snapshot, p.snapshot)
    BY <1>2, <1>4, Order
  <2>2. ~Before(q.snapshot, mirror.seen)
    BY <1>1, <1>2, <2>1, Order
  <2>3. Reaches(q.snapshot, q.snapshot.auth, s)
    BY <1>4, <2>2 DEF FreshOK
  <2> QED  BY <2>1, <2>3, StillReaches
<1>5. ASSUME NEW s \in Shards PROVE Still(p, n.seen, n.meta, s)
  <2>1. Reaches(p.snapshot, p.snapshot.auth, s)
    BY <1>2, <1>3 DEF FreshOK
  <2>2. ~Before(p.snapshot, p.snapshot)
    BY <1>1, Order
  <2>3. Still(p, p.snapshot, p.snapshot.auth, s)
    BY <2>1, <2>2, StillReaches
  <2>4. Like(n.meta, p.snapshot.auth, s, now)
    BY LikeOrder DEF Adopts, Like, Off
  <2>5. Like(p.snapshot.auth, held.auth, s, now) => Like(n.meta, held.auth, s, now)
    BY <2>4, LikeOrder
  <2>6. \A q : Before(p.snapshot, q.snapshot) => Before(n.seen, q.snapshot)
    BY <1>2, Order
  <2> QED  BY <2>3, <2>5, <2>6 DEF Still
<1>6. ASSUME n.meta # Absent, NEW s \in Shards, Built(n.shards, s)
      PROVE  \/ Like(n.shards[s].auth, held.auth, s, now)
             \/ \E q \in inFlight \ {p} :
                  Concerns(q, s) /\ (q.kind = "tombstone" => Before(n.seen, q.snapshot))
  <2>1. CASE n.shards[s] = upsertEntry(n.meta, s)
    BY <1>5, <2>1, Refreshed
  <2>2. CASE /\ n.shards[s] = mirror.shards[s] /\ mirror.meta # Absent /\ p.kind = "result"
             /\ ~Concerns(p, s)
    <3>1. \/ Like(mirror.shards[s].auth, held.auth, s, now)
          \/ \E q \in inFlight : Pending(q, s)
      BY <1>6, <2>2 DEF EntriesCurrent, Built
    <3>2. ASSUME NEW q \in inFlight, Pending(q, s)
          PROVE  \E r \in inFlight \ {p} :
                   Concerns(r, s) /\ (r.kind = "tombstone" => Before(n.seen, r.snapshot))
      <4>1. q # p /\ Concerns(q, s) /\ (q.kind = "tombstone" => Before(mirror.seen, q.snapshot))
        BY <2>2, <3>2 DEF Pending
      <4>2. CASE q.kind = "tombstone" => Before(n.seen, q.snapshot)
        BY <4>1, <4>2
      <4>3. CASE q.kind = "tombstone" /\ ~Before(n.seen, q.snapshot)
        \* A newer registration is on its way, and Register announces it for every shard.
        <5>1. q.snapshot.epoch # p.snapshot.epoch
          BY <4>1, <4>3 DEF Orderly, TombstonesOK
        <5>2. p.snapshot.epoch > mirror.seen.epoch
          BY <1>1, <1>2, <4>1, <4>3, <5>1 DEF Before, SameStamps, Stamps
        <5>3. PICK r \in inFlight : r.kind = "lifecycle" /\ r.snapshot.epoch = p.snapshot.epoch
          BY <2>2, <5>2 DEF Orderly, AnnouncedOK, Announced
        <5>4. r # p /\ Concerns(r, s) /\ r.kind # "tombstone"
          BY <2>2, <5>3 DEF Concerns
        <5> QED  BY <5>4
      <4> QED  BY <4>2, <4>3
    <3> QED  BY <2>2, <3>1, <3>2
  <2> QED  BY <1>6, <2>1, <2>2 DEF Adopts
<1> QED  BY <1>4, <1>5, <1>6 DEF Suffices

\* What is late is not awaited by anything current.
LEMMA PassingSuffices ==
  ASSUME Orderly, FreshOK, MetaCurrent, NEW p \in inFlight, Before(p.snapshot, mirror.seen),
         NEW n, n.seen = mirror.seen, n.meta = mirror.meta
  PROVE  /\ \A q \in inFlight \ {p} : q.snapshot # NoSnapshot /\ ~Before(q.snapshot, n.seen) =>
              \A s \in Shards : Still(p, q.snapshot, q.snapshot.auth, s)
         /\ \A s \in Shards : Still(p, n.seen, n.meta, s)
<1>1. /\ Stamps(mirror.seen) /\ Stamps(p.snapshot)
      /\ \A q \in inFlight : Stamps(q.snapshot)
  BY DEF Orderly, StampsOK
<1>2. ASSUME NEW q \in inFlight \ {p}, q.snapshot # NoSnapshot, ~Before(q.snapshot, n.seen),
             NEW s \in Shards
      PROVE  Still(p, q.snapshot, q.snapshot.auth, s)
  <2>1. ~Before(q.snapshot, p.snapshot)
    BY <1>1, <1>2, Order
  <2>2. Reaches(q.snapshot, q.snapshot.auth, s)
    BY <1>2 DEF FreshOK
  <2> QED  BY <2>1, <2>2, StillReaches
<1>3. ASSUME NEW s \in Shards PROVE Still(p, n.seen, n.meta, s)
  <2>1. ~Before(mirror.seen, p.snapshot)
    BY <1>1, Order
  <2> QED  BY <2>1, StillReaches DEF MetaCurrent
<1> QED  BY <1>2, <1>3

\* A publication of what the manager holds that concerns every shard mends what was dropped.
LEMMA RepairSuffices ==
  ASSUME Bookkeeping, Orderly, NEW p \in inFlight, Repairs(p), NEW n, Stamps(n.seen),
         Adopts(mirror, n, p)
  PROVE  Suffices(p, n)
<1>1. /\ p.snapshot = held /\ Held /\ held.updatedAt >= 0
      /\ p.kind = "result" => ResultShards(mirror, p) = Shards
  BY DEF Repairs, Held
<1>2. SameStamps(n.seen, held)
  BY <1>1 DEF Adopts
<1>3. ASSUME NEW q \in inFlight \ {p}, ~Before(q.snapshot, n.seen), NEW s \in Shards
      PROVE  Still(p, q.snapshot, q.snapshot.auth, s)
  <2>1. ~Before(q.snapshot, held)
    BY <1>2, <1>3, Order
  <2>2. /\ Stamps(q.snapshot) /\ Stamps(held) /\ Behind(q.snapshot)
        /\ Latest(q.snapshot) => q.snapshot = held
    BY <1>1 DEF Orderly, StampsOK
  <2>3. q.snapshot.epoch <= held.epoch
    BY <1>1, HeldFacts DEF Bookkeeping, EpochInvariant, EpochsOK
  <2>4. Latest(q.snapshot)
    BY <1>1, <2>1, <2>2, <2>3 DEF Before, Stamps, Behind, Latest, Rank
  <2> QED  BY <2>2, <2>4, LikeOrder DEF Still
<1>4. ASSUME NEW s \in Shards PROVE Like(n.meta, held.auth, s, now)
  BY <1>1, LikeOrder DEF Adopts, Like, Off
<1>5. ASSUME n.meta # Absent, NEW s \in Shards, Built(n.shards, s)
      PROVE  Like(n.shards[s].auth, held.auth, s, now)
  <2>1. n.shards[s] = upsertEntry(n.meta, s)
    BY <1>1, <1>5 DEF Adopts
  <2>2. n.shards[s].auth = n.meta
    BY <2>1 DEF upsertEntry
  <2> QED  BY <1>4, <2>2
<1> QED  BY <1>3, <1>4, <1>5 DEF Suffices, Still

LEMMA DeliverCurrent ==
  ASSUME NullsApart, Bookkeeping, Orderly, Current, NEW p \in inFlight, Deliver(p)
  PROVE  Current'
<1> SUFFICES ASSUME ~overtaken' PROVE FreshOK' /\ MetaCurrent' /\ EntriesCurrent'
  BY DEF Current
<1>1. ~Dropped(p) /\ (~overtaken \/ Repairs(p))
  BY DEF Deliver
<1>2. \/ Adopts(mirror, mirror', p) \/ Passes(mirror, mirror', p) \/ Clears(mirror, mirror', p)
  BY DeliverOutcome
<1>3. /\ Stamps(mirror.seen) /\ Stamps(p.snapshot) /\ SnapshotOK(p.snapshot)
      /\ p.kind = "lifecycle" => p.snapshot.auth \in Auths
  BY Arrival
<1>4. Stamps(mirror'.seen)
  BY DeliverOrderly DEF Orderly, StampsOK
<1>5. NoSnapshot.auth = Absent
  BY SnapshotFields DEF NoSnapshot
<1>6. p.snapshot = NoSnapshot => mirror.meta = Absent
  BY <1>1 DEF Dropped
<1>7. p.snapshot # NoSnapshot /\ p.kind \in {"lifecycle", "rebuild"} =>
        ~Before(p.snapshot, mirror.seen)
  BY <1>1, <1>3, StaleIsBefore DEF Dropped
<1> SUFFICES Suffices(p, mirror')
  BY SufficesIsCurrent DEF Deliver
<1>8. PICK n : n = mirror'
  OBVIOUS
<1>9. CASE ~overtaken
  <2>1. FreshOK /\ MetaCurrent /\ EntriesCurrent
    BY <1>9 DEF Current
  <2>2. CASE Adopts(mirror, n, p)
    BY <1>4, <1>8, <2>1, <2>2, AdoptionSuffices
  <2>3. CASE Passes(mirror, n, p)
    <3>1. Before(p.snapshot, mirror.seen) /\ n.seen = mirror.seen /\ n.meta = mirror.meta
      BY <2>3 DEF Passes
    <3>2. /\ \A q \in inFlight \ {p} : q.snapshot # NoSnapshot /\ ~Before(q.snapshot, n.seen) =>
               \A s \in Shards : Still(p, q.snapshot, q.snapshot.auth, s)
          /\ \A s \in Shards : Still(p, n.seen, n.meta, s)
      BY <2>1, <3>1, PassingSuffices
    <3>3. ASSUME n.meta # Absent, NEW s \in Shards, Built(n.shards, s)
          PROVE  \/ Like(n.shards[s].auth, held.auth, s, now)
                 \/ \E q \in inFlight \ {p} :
                      Concerns(q, s) /\ (q.kind = "tombstone" => Before(n.seen, q.snapshot))
      <4>1. CASE n.shards[s] = upsertEntry(mirror.meta, s)
        BY <3>1, <3>2, <4>1, Refreshed
      <4>2. CASE n.shards[s] = mirror.shards[s] /\ (~Concerns(p, s) \/ p.kind \in {"lifecycle", "tombstone"})
        <5>1. \/ Like(mirror.shards[s].auth, held.auth, s, now)
              \/ \E q \in inFlight : Pending(q, s)
          BY <2>1, <3>1, <3>3, <4>2 DEF EntriesCurrent, Built
        <5>2. ~Pending(p, s)
          <6>1. p.kind # "lifecycle"
            BY <1>3, <1>5, <1>7, <3>1 DEF NullsApart
          <6>2. ~Before(mirror.seen, p.snapshot)
            BY <1>3, <3>1, Order
          <6> QED  BY <4>2, <6>1, <6>2 DEF Pending
        <5> QED  BY <3>1, <4>2, <5>1, <5>2 DEF Pending
      <4> QED  BY <2>3, <3>1, <3>3, <4>1, <4>2 DEF Passes
    <3>4. Suffices(p, n)
      BY <3>2, <3>3 DEF Suffices
    <3> QED  BY <1>8, <3>4
  <2>4. CASE Clears(mirror, n, p)
    <3>1. p.snapshot = NoSnapshot /\ n.seen = mirror.seen /\ n.meta = Absent
      BY <1>7, <2>4 DEF Clears, Gone
    <3>2. n.meta = mirror.meta /\ Before(p.snapshot, mirror.seen)
      BY <1>6, <3>1, NothingIsLate
    <3>3. Suffices(p, n)
      BY <2>1, <3>1, <3>2, PassingSuffices DEF Suffices
    <3> QED  BY <1>8, <3>3
  <2> QED  BY <1>2, <1>8, <2>2, <2>3, <2>4
<1>10. CASE Repairs(p)
  <2>1. p.snapshot = held /\ Held /\ held.updatedAt >= 0
    BY <1>10 DEF Repairs, Held
  <2>2. Stamps(held) /\ Behind(mirror.seen) /\ mirror.seen.epoch <= held.epoch
    BY <2>1, HeldFacts DEF Orderly, StampsOK, Bookkeeping, EpochInvariant, EpochsOK
  <2>3. ~Before(held, mirror.seen)
    BY <1>3, <2>1, <2>2 DEF Before, Stamps, Behind, Rank
  <2>4. Adopts(mirror, n, p)
    BY <1>2, <1>8, <2>1, <2>3 DEF Passes, Clears, Held
  <2> QED  BY <1>4, <1>8, <1>10, <2>4, RepairSuffices
<1> QED  BY <1>1, <1>9, <1>10
-----------------------------------------------------------------------------
(***************************************************************************)
(* The manager's steps: within a registration, to another one, and those   *)
(* that leave the credential alone.                                        *)
(***************************************************************************)
Advances ==
  /\ Held /\ UNCHANGED <<now, epoch, mirror>>
  /\ held'.epoch = held.epoch /\ held'.generation \in Nat /\ held'.updatedAt \in Int
  /\ \/ held' = held
     \/ held'.generation > held.generation
     \/ held'.generation = held.generation /\ Rank(held'.updatedAt) > Rank(held.updatedAt)
  /\ inFlight \subseteq inFlight'
  /\ \A q \in inFlight' : q \in inFlight \/ (q.snapshot = held' /\ q.kind # "tombstone")

Renews(q) ==
  /\ UNCHANGED <<now, mirror>> /\ epoch' = epoch + 1 /\ inFlight' = inFlight \cup {q}
  /\ Stamps(q.snapshot) /\ q.snapshot.epoch = epoch + 1
  /\ \/ q.kind = "lifecycle" /\ held' = q.snapshot
     \/ /\ q.kind = "tombstone" /\ held' = NoSnapshot
        /\ q.snapshot.auth = Absent /\ q.snapshot.generation = 0

Rests ==
  /\ UNCHANGED <<held, epoch, mirror>> /\ (overtaken => overtaken')
  /\ now' \in Nat /\ now <= now' /\ inFlight \subseteq inFlight'
  /\ \A q \in inFlight' : q \in inFlight \/ (q.kind = "rebuild" /\ q.snapshot = NoSnapshot)

LEMMA AdvanceKeepsHeld ==
  ASSUME Bookkeeping, Advances
  PROVE  Held' /\ held.epoch = epoch /\ epoch \in Nat /\ held.epoch > 0
<1>1. held.epoch = epoch /\ epoch \in Nat \ {0}
  BY HeldFacts DEF Advances
<1>2. NoSnapshot.epoch = 0
  BY EpochOfNothing
<1> QED  BY <1>1, <1>2 DEF Advances, Held, NoSnapshot

LEMMA AdvancesOrderly ==
  ASSUME Bookkeeping, Orderly, Advances
  PROVE  Orderly'
<1>1. Held /\ Held' /\ held.epoch = epoch /\ epoch \in Nat /\ held.epoch > 0
  BY AdvanceKeepsHeld DEF Advances
<1>2. /\ Stamps(held) /\ Stamps(mirror.seen) /\ mirror.seen.epoch > 0 /\ Behind(mirror.seen)
      /\ \A p \in inFlight : Stamps(p.snapshot) /\ Behind(p.snapshot)
                             /\ (Latest(p.snapshot) => p.snapshot = held)
  BY <1>1 DEF Orderly, StampsOK
<1>3. Stamps(held')
  BY <1>2 DEF Advances, Stamps
<1>4. UNCHANGED <<now, mirror>> /\ held'.epoch = held.epoch
  BY DEF Advances
<1>5. \A p \in inFlight' : p \in inFlight \/ (p.snapshot = held' /\ p.kind # "tombstone")
  BY DEF Advances
<1>6. ASSUME NEW x, Stamps(x), Behind(x), Latest(x) => x = held
      PROVE  /\ x.epoch = held'.epoch =>
                  /\ x.generation <= held'.generation
                  /\ x.generation = held'.generation => Rank(x.updatedAt) <= Rank(held'.updatedAt)
             /\ /\ x.epoch = held'.epoch /\ x.generation = held'.generation
                /\ Rank(x.updatedAt) = Rank(held'.updatedAt)
                => x = held'
  <2>1. /\ x.generation \in Nat /\ held.generation \in Nat /\ held'.generation \in Nat
        /\ Rank(x.updatedAt) \in Nat /\ Rank(held.updatedAt) \in Nat /\ Rank(held'.updatedAt) \in Nat
    BY <1>2, <1>3, <1>6 DEF Stamps, Rank
  <2>2. CASE held' = held
    BY <1>6, <2>2 DEF Behind, Latest
  <2>3. CASE held'.generation > held.generation
    BY <1>4, <1>6, <2>1, <2>3 DEF Behind
  <2>4. CASE held'.generation = held.generation /\ Rank(held'.updatedAt) > Rank(held.updatedAt)
    BY <1>4, <1>6, <2>1, <2>4 DEF Behind
  <2> QED  BY <2>2, <2>3, <2>4 DEF Advances
<1>7. StampsOK'
  <2>1. Behind(mirror.seen)'
    <3>1. /\ mirror.seen.generation \in Nat /\ held.generation \in Nat /\ held'.generation \in Nat
          /\ Rank(mirror.seen.updatedAt) \in Nat /\ Rank(held.updatedAt) \in Nat
          /\ Rank(held'.updatedAt) \in Nat
      BY <1>2, <1>3 DEF Stamps, Rank
    <3>2. CASE held' = held
      BY <1>2, <1>4, <3>2 DEF Behind
    <3>3. CASE held'.generation > held.generation
      BY <1>2, <1>4, <3>1, <3>3 DEF Behind
    <3>4. CASE held'.generation = held.generation /\ Rank(held'.updatedAt) > Rank(held.updatedAt)
      BY <1>2, <1>4, <3>1, <3>4 DEF Behind
    <3> QED  BY <3>2, <3>3, <3>4 DEF Advances
  <2>2. ASSUME NEW p \in inFlight'
        PROVE  Stamps(p.snapshot) /\ Behind(p.snapshot)' /\ (Latest(p.snapshot)' => p.snapshot = held')
    <3>1. CASE p \in inFlight
      BY <1>2, <1>6, <3>1 DEF Behind, Latest
    <3>2. CASE p.snapshot = held'
      <4>1. Rank(held'.updatedAt) \in Nat /\ held'.generation \in Nat
        BY <1>3 DEF Stamps, Rank
      <4> QED  BY <1>3, <3>2, <4>1 DEF Behind
    <3> QED  BY <1>5, <3>1, <3>2
  <2> QED  BY <1>2, <1>3, <1>4, <2>1, <2>2 DEF StampsOK
<1>8. TombstonesOK'
  BY <1>1, <1>4, <1>5 DEF Orderly, TombstonesOK
<1>9. AnnouncedOK'
  <2>1. \A e : Announced(e) => Announced(e)'
    BY <1>4 DEF Announced, Advances
  <2>2. PICK e : e = held.epoch
    OBVIOUS
  <2>3. Announced(e) /\ \A p \in inFlight : p.kind # "tombstone" => Announced(p.snapshot.epoch)
    BY <1>1, <2>2 DEF Orderly, AnnouncedOK
  <2>4. Announced(e)' /\ \A p \in inFlight : p.kind # "tombstone" => Announced(p.snapshot.epoch)'
    BY <2>1, <2>3
  <2>5. Announced(held.epoch)'
    BY <1>4, <2>2, <2>4 DEF Announced
  <2>6. \A p \in inFlight' : p.kind # "tombstone" => Announced(p.snapshot.epoch)'
    BY <1>4, <1>5, <2>2, <2>4
  <2> QED  BY <2>5, <2>6 DEF AnnouncedOK
<1>10. EntriesOK(mirror, now)'
  BY <1>4 DEF Orderly
<1> QED  BY <1>7, <1>8, <1>9, <1>10 DEF Orderly

\* Everything in flight, and what the scheduler has seen, is older than a change.
Ahead ==
  \/ held'.generation > held.generation
  \/ held'.generation = held.generation /\ held'.updatedAt > Rank(held.updatedAt)

LEMMA Newer ==
  ASSUME Bookkeeping, Orderly, Advances, Ahead,
         NEW x, Stamps(x), Behind(x), x.epoch <= epoch
  PROVE  Before(x, held')
<1>1. held.epoch = epoch /\ epoch \in Nat /\ held'.epoch = held.epoch
  BY AdvanceKeepsHeld DEF Advances
<1>2. Stamps(held) /\ Stamps(held')
  BY <1>1 DEF Orderly, StampsOK, Advances, Stamps
<1>3. x.updatedAt <= Rank(x.updatedAt) /\ Rank(x.updatedAt) \in Nat /\ Rank(held.updatedAt) \in Nat
  BY <1>2 DEF Stamps, Rank
<1>4. x.epoch = held.epoch /\ ~(x.generation < held'.generation) =>
        x.generation = held'.generation /\ x.updatedAt < held'.updatedAt
  BY <1>2, <1>3 DEF Behind, Ahead, Stamps
<1> QED  BY <1>1, <1>2, <1>4 DEF Before, Stamps

\* A change is published for the shards it matters to.
Told(s) ==
  \/ Like(held.auth, held'.auth, s, now)
  \/ Ahead /\ \E q \in inFlight' : q.snapshot = held' /\ q.kind # "tombstone" /\ Concerns(q, s)

LEMMA AdvancesCurrent ==
  ASSUME Bookkeeping, Orderly, Current, Advances, overtaken => overtaken',
         ~overtaken' => \A s \in Shards : Told(s)
  PROVE  Current'
<1> SUFFICES ASSUME ~overtaken' PROVE FreshOK' /\ MetaCurrent' /\ EntriesCurrent'
  BY DEF Current
<1>1. FreshOK /\ MetaCurrent /\ EntriesCurrent
  BY DEF Current
<1>2. /\ UNCHANGED <<now, mirror>> /\ Held /\ inFlight \subseteq inFlight'
      /\ \A p \in inFlight' : p \in inFlight \/ (p.snapshot = held' /\ p.kind # "tombstone")
  BY DEF Advances
<1>3. ASSUME NEW x, Stamps(x), Behind(x), x.epoch <= epoch, NEW auth, NEW s \in Shards,
             Reaches(x, auth, s)
      PROVE  Reaches(x, auth, s)'
  <2>1. CASE Awaited(x, s)
    BY <1>2, <2>1 DEF Awaited, Reaches
  <2>2. CASE Like(auth, held.auth, s, now)
    <3>1. CASE Like(held.auth, held'.auth, s, now)
      <4>1. Like(auth, held'.auth, s, now)
        BY <2>2, <3>1, LikeOrder
      <4> QED  BY <1>2, <4>1 DEF Reaches
    <3>2. CASE Ahead /\ \E q \in inFlight' : q.snapshot = held' /\ Concerns(q, s)
      <4>1. Before(x, held')
        BY <1>3, <3>2, Newer
      <4> QED  BY <3>2, <4>1 DEF Reaches, Awaited
    <3> QED  BY <3>1, <3>2 DEF Told
  <2> QED  BY <1>3, <2>1, <2>2 DEF Reaches
<1>4. /\ Stamps(mirror.seen) /\ Behind(mirror.seen) /\ mirror.seen.epoch <= epoch
      /\ \A p \in inFlight : Stamps(p.snapshot) /\ Behind(p.snapshot) /\ p.snapshot.epoch <= epoch
  BY <1>2 DEF Orderly, StampsOK, Bookkeeping, EpochInvariant, EpochsOK
<1>5. FreshOK'
  <2> SUFFICES ASSUME NEW p \in inFlight', p.snapshot # NoSnapshot,
                      ~Before(p.snapshot, mirror.seen), NEW s \in Shards
               PROVE  Reaches(p.snapshot, p.snapshot.auth, s)'
    BY <1>2 DEF FreshOK, NoSnapshot
  <2>1. CASE p \in inFlight
    <3>1. Reaches(p.snapshot, p.snapshot.auth, s)
      BY <1>1, <2>1 DEF FreshOK
    <3> QED  BY <1>3, <1>4, <2>1, <3>1
  <2>2. CASE p.snapshot = held'
    <3>1. Like(p.snapshot.auth, held'.auth, s, now')
      BY <2>2, LikeOrder
    <3> QED  BY <3>1 DEF Reaches
  <2> QED  BY <1>2, <2>1, <2>2
<1>6. MetaCurrent'
  <2>1. PICK x, auth : x = mirror.seen /\ auth = mirror.meta
    OBVIOUS
  <2>2. \A s \in Shards : Reaches(x, auth, s)
    BY <1>1, <2>1 DEF MetaCurrent
  <2>3. \A s \in Shards : Reaches(x, auth, s)'
    BY <1>3, <1>4, <2>1, <2>2
  <2> QED  BY <1>2, <2>1, <2>3 DEF MetaCurrent, Reaches, Awaited
<1>7. EntriesCurrent'
  <2> SUFFICES ASSUME mirror.meta # Absent, NEW s \in Shards, Built(mirror.shards, s)
               PROVE  \/ Like(mirror.shards[s].auth, held'.auth, s, now)
                      \/ \E q \in inFlight' : Pending(q, s)
    BY <1>2 DEF EntriesCurrent, Pending, Built
  <2>1. CASE \E q \in inFlight : Pending(q, s)
    BY <1>2, <2>1
  <2>2. CASE Like(mirror.shards[s].auth, held.auth, s, now)
    <3>1. CASE Like(held.auth, held'.auth, s, now)
      BY <2>2, <3>1, LikeOrder
    <3>2. CASE \E q \in inFlight' : q.kind # "tombstone" /\ Concerns(q, s)
      BY <3>2 DEF Pending
    <3> QED  BY <3>1, <3>2 DEF Told
  <2> QED  BY <1>1, <2>1, <2>2 DEF EntriesCurrent
<1> QED  BY <1>5, <1>6, <1>7

\* What a renewal starts from: everything known is of an earlier epoch.
LEMMA Earlier ==
  ASSUME Bookkeeping, Orderly, NEW q, Renews(q)
  PROVE  /\ epoch \in Nat /\ epoch > 0 /\ q.snapshot.epoch = epoch + 1 /\ Stamps(q.snapshot)
         /\ mirror.seen.epoch \in Nat /\ mirror.seen.epoch < q.snapshot.epoch
         /\ \A p \in inFlight : p.snapshot.epoch \in Nat /\ p.snapshot.epoch < q.snapshot.epoch
         /\ Held' <=> q.kind = "lifecycle"
<1>1. /\ epoch \in Nat /\ epoch > 0
      /\ mirror.seen.epoch \in Nat /\ mirror.seen.epoch <= epoch
      /\ \A p \in inFlight : p.snapshot.epoch \in Nat /\ p.snapshot.epoch <= epoch
  BY DEF Bookkeeping, EpochInvariant, ShapesOK, EpochsOK, MirrorOK, SnapshotOK
<1>2. q.snapshot.epoch = epoch + 1 /\ Stamps(q.snapshot)
  BY DEF Renews
<1>3. q.snapshot # NoSnapshot
  BY <1>1, <1>2, EpochOfNothing
<1>4. Held' <=> q.kind = "lifecycle"
  BY <1>3 DEF Renews, Held, NoSnapshot
<1> QED  BY <1>1, <1>2, <1>4

LEMMA RenewsOrderly ==
  ASSUME Bookkeeping, Orderly, NEW q, Renews(q)
  PROVE  Orderly'
<1>1. /\ epoch \in Nat /\ epoch > 0 /\ q.snapshot.epoch = epoch + 1 /\ Stamps(q.snapshot)
      /\ mirror.seen.epoch \in Nat /\ mirror.seen.epoch < q.snapshot.epoch
      /\ \A p \in inFlight : p.snapshot.epoch \in Nat /\ p.snapshot.epoch < q.snapshot.epoch
      /\ Held' <=> q.kind = "lifecycle"
  BY Earlier
<1>2. UNCHANGED <<now, mirror>> /\ inFlight' = inFlight \cup {q}
  BY DEF Renews
<1>3. q.kind = "lifecycle" => held' = q.snapshot
  BY DEF Renews
<1>4. StampsOK'
  <2>1. Stamps(held')
    BY <1>1, NothingIsLate DEF Renews
  <2>2. /\ Stamps(mirror.seen) /\ mirror.seen.epoch > 0
        /\ \A p \in inFlight' : Stamps(p.snapshot)
    BY <1>1, <1>2 DEF Orderly, StampsOK
  <2>3. ASSUME Held', NEW x, Stamps(x), x.epoch < q.snapshot.epoch \/ x = q.snapshot
        PROVE  Behind(x)' /\ (Latest(x)' => x = held')
    <3>1. held' = q.snapshot
      BY <1>1, <1>3, <2>3
    <3>2. Rank(x.updatedAt) \in Nat /\ Rank(q.snapshot.updatedAt) \in Nat
      BY <1>1, <2>3 DEF Stamps, Rank
    <3>3. CASE x.epoch < q.snapshot.epoch
      BY <1>1, <2>3, <3>1, <3>3 DEF Stamps, Behind, Latest
    <3>4. CASE x = q.snapshot
      BY <1>1, <3>1, <3>2, <3>4 DEF Stamps, Behind, Latest
    <3> QED  BY <2>3, <3>3, <3>4
  <2>4. PICK seen : seen = mirror.seen
    OBVIOUS
  <2>5. Held' => Behind(seen)'
    BY <1>1, <2>2, <2>3, <2>4
  <2>6. Held' => Behind(mirror.seen)'
    BY <1>2, <2>4, <2>5 DEF Behind
  <2>7. Held' => \A p \in inFlight' : Behind(p.snapshot)' /\ (Latest(p.snapshot)' => p.snapshot = held')
    BY <1>1, <1>2, <2>2, <2>3
  <2> QED  BY <1>2, <2>1, <2>2, <2>6, <2>7 DEF StampsOK
<1>5. TombstonesOK'
  <2> SUFFICES ASSUME NEW p \in inFlight', p.kind = "tombstone"
               PROVE  /\ p.snapshot.auth = Absent /\ p.snapshot.generation = 0 /\ p.snapshot.epoch > 0
                      /\ mirror.seen.epoch # p.snapshot.epoch
                      /\ Held' => p.snapshot.epoch < held'.epoch
                      /\ \A r \in inFlight' : r.snapshot.epoch = p.snapshot.epoch => r = p
    BY <1>2 DEF TombstonesOK
  <2>1. CASE p = q
    BY <1>1, <1>2, <2>1 DEF Renews
  <2>2. CASE p \in inFlight
    BY <1>1, <1>2, <1>3, <2>2 DEF Orderly, TombstonesOK
  <2> QED  BY <1>2, <2>1, <2>2
<1>6. AnnouncedOK'
  <2>1. \A e : Announced(e) => Announced(e)'
    BY <1>2 DEF Announced
  <2>2. \A p \in inFlight : p.kind # "tombstone" => Announced(p.snapshot.epoch)'
    BY <2>1 DEF Orderly, AnnouncedOK
  <2>3. q.kind # "tombstone" => Announced(q.snapshot.epoch)'
    BY <1>2 DEF Announced, Renews
  <2>4. Held' => Announced(held.epoch)'
    BY <1>1, <1>2, <1>3 DEF Announced
  <2> QED  BY <1>2, <2>2, <2>3, <2>4 DEF AnnouncedOK
<1>7. EntriesOK(mirror, now)'
  BY <1>2 DEF Orderly
<1> QED  BY <1>4, <1>5, <1>6, <1>7 DEF Orderly

\* A registration or a removal is newer than everything, and concerns every shard.
LEMMA RenewsCurrent ==
  ASSUME Bookkeeping, Orderly, NEW q, Renews(q)
  PROVE  Current'
<1>1. /\ mirror.seen.epoch < q.snapshot.epoch
      /\ \A p \in inFlight : p.snapshot.epoch < q.snapshot.epoch
  BY Earlier
<1>2. /\ UNCHANGED <<now, mirror>> /\ inFlight' = inFlight \cup {q}
      /\ q.kind \in {"lifecycle", "tombstone"}
  BY DEF Renews
<1>3. \A s : Concerns(q, s)
  BY <1>2 DEF Concerns
<1>4. q.snapshot.auth = held'.auth
  BY SnapshotFields DEF Renews, NoSnapshot
<1>5. ASSUME NEW x, x.epoch < q.snapshot.epoch, NEW auth, NEW s
      PROVE  Reaches(x, auth, s)'
  BY <1>2, <1>3, <1>5 DEF Reaches, Awaited, Before
<1>6. FreshOK'
  <2>1. ASSUME NEW s PROVE Reaches(q.snapshot, q.snapshot.auth, s)'
    BY <1>4, LikeOrder DEF Reaches
  <2> QED  BY <1>1, <1>2, <1>5, <2>1 DEF FreshOK
<1>7. MetaCurrent'
  <2>1. PICK x, auth : x = mirror.seen /\ auth = mirror.meta
    OBVIOUS
  <2>2. \A s : Reaches(x, auth, s)'
    BY <1>1, <1>5, <2>1
  <2> QED  BY <1>2, <2>1, <2>2 DEF MetaCurrent, Reaches, Awaited
<1>8. EntriesCurrent'
  <2>1. \A s : Pending(q, s)'
    BY <1>1, <1>2, <1>3 DEF Pending, Before
  <2> QED  BY <1>2, <2>1 DEF EntriesCurrent
<1> QED  BY <1>6, <1>7, <1>8 DEF Current

LEMMA RestsOrderly ==
  ASSUME Bookkeeping, Orderly, Rests
  PROVE  Orderly'
<1>1. /\ UNCHANGED <<held, epoch, mirror>> /\ now' \in Nat /\ now <= now'
      /\ inFlight \subseteq inFlight' /\ now \in Nat /\ (Held' <=> Held)
  BY HeldFacts DEF Rests, Held, NoSnapshot
<1>2. \A p \in inFlight' : p \in inFlight \/ (p.kind = "rebuild" /\ p.snapshot = NoSnapshot)
  BY DEF Rests
<1>3. /\ Stamps(NoSnapshot) /\ NoSnapshot.epoch = 0
      /\ Stamps(mirror.seen) /\ mirror.seen.epoch > 0
  BY NothingIsLate, EpochOfNothing DEF Orderly, StampsOK
<1>4. Held => held.epoch > 0
  BY HeldFacts
<1>5. StampsOK'
  <2>1. ASSUME Held, NEW p \in inFlight'
        PROVE  Behind(p.snapshot) /\ (Latest(p.snapshot) => p.snapshot = held)
    <3>1. CASE p \in inFlight
      BY <2>1, <3>1 DEF Orderly, StampsOK
    <3>2. CASE p.snapshot = NoSnapshot
      BY <1>3, <1>4, <2>1, <3>2 DEF Behind, Latest
    <3> QED  BY <1>2, <3>1, <3>2
  <2>2. \A p \in inFlight' : Stamps(p.snapshot)
    BY <1>2, <1>3 DEF Orderly, StampsOK
  <2> QED  BY <1>1, <2>1, <2>2 DEF Orderly, StampsOK, Behind, Latest
<1>6. TombstonesOK'
  <2> SUFFICES ASSUME NEW p \in inFlight', p.kind = "tombstone"
               PROVE  /\ p.snapshot.auth = Absent /\ p.snapshot.generation = 0 /\ p.snapshot.epoch > 0
                      /\ mirror.seen.epoch # p.snapshot.epoch
                      /\ Held => p.snapshot.epoch < held.epoch
                      /\ \A r \in inFlight' : r.snapshot.epoch = p.snapshot.epoch => r = p
    BY <1>1 DEF TombstonesOK
  <2>1. p \in inFlight
    BY <1>2
  <2> QED  BY <1>2, <1>3, <2>1 DEF Orderly, TombstonesOK
<1>7. AnnouncedOK'
  <2>1. \A e : Announced(e) => Announced(e)'
    BY <1>1 DEF Announced
  <2>2. PICK e : e = held.epoch
    OBVIOUS
  <2>3. Held => Announced(e)'
    BY <2>1, <2>2 DEF Orderly, AnnouncedOK
  <2>4. Held' => Announced(held.epoch)'
    BY <1>1, <2>2, <2>3 DEF Announced
  <2>5. PICK none : none = NoSnapshot.epoch
    OBVIOUS
  <2>6. Announced(none)'
    <3>1. ~(none > mirror.seen.epoch)
      BY <1>3, <2>5 DEF Stamps
    <3> QED  BY <1>1, <3>1 DEF Announced
  <2>7. \A p \in inFlight : p.kind # "tombstone" => Announced(p.snapshot.epoch)'
    BY <2>1 DEF Orderly, AnnouncedOK
  <2>8. \A p \in inFlight' : p.kind # "tombstone" => Announced(p.snapshot.epoch)'
    BY <1>2, <2>5, <2>6, <2>7
  <2> QED  BY <2>4, <2>8 DEF AnnouncedOK
<1>8. EntriesOK(mirror', now')
  <2>1. \A u \in Nat : u <= now => u <= now'
    BY <1>1
  <2>2. \A entry, s : Entry(entry, s, now) => Entry(entry, s, now')
    BY <2>1 DEF Entry
  <2> QED  BY <1>1, <2>2 DEF Orderly, EntriesOK
<1> QED  BY <1>5, <1>6, <1>7, <1>8 DEF Orderly

LEMMA RestsCurrent ==
  ASSUME Bookkeeping, Orderly, Current, Rests
  PROVE  Current'
<1> SUFFICES ASSUME ~overtaken' PROVE FreshOK' /\ MetaCurrent' /\ EntriesCurrent'
  BY DEF Current
<1>1. /\ UNCHANGED <<held, mirror>> /\ now' \in Nat /\ now <= now' /\ now \in Nat
      /\ inFlight \subseteq inFlight'
      /\ \A p \in inFlight' : p \in inFlight \/ p.snapshot = NoSnapshot
  BY HeldFacts DEF Rests
<1>2. FreshOK /\ MetaCurrent /\ EntriesCurrent
  BY DEF Current, Rests
<1>3. \A a, b, s : Like(a, b, s, now) => Like(a, b, s, now')
  BY <1>1, LikeOrder
<1>4. \A x, auth, s : Reaches(x, auth, s) => Reaches(x, auth, s)'
  BY <1>1, <1>3 DEF Reaches, Awaited
<1>5. FreshOK'
  BY <1>1, <1>2, <1>4 DEF FreshOK
<1>6. MetaCurrent'
  <2>1. PICK x, auth : x = mirror.seen /\ auth = mirror.meta
    OBVIOUS
  <2>2. \A s \in Shards : Reaches(x, auth, s)'
    BY <1>2, <1>4, <2>1 DEF MetaCurrent
  <2> QED  BY <1>1, <2>1, <2>2 DEF MetaCurrent, Reaches, Awaited
<1>7. EntriesCurrent'
  <2>1. \A p, s : Pending(p, s) => Pending(p, s)'
    BY <1>1 DEF Pending
  <2> QED  BY <1>1, <1>2, <1>3, <2>1 DEF EntriesCurrent
<1> QED  BY <1>5, <1>6, <1>7

\* A request has a shard built from the metadata, or an entry evaluated again.
LEMMA PickOutcome ==
  ASSUME NullsApart, Bookkeeping, Orderly, NEW shard \in Shards, Pick(shard)
  PROVE  /\ mirror'.seen = mirror.seen /\ mirror'.meta = mirror.meta
         /\ mirror.meta = Absent => Gone(mirror')
         /\ mirror.meta # Absent =>
              \A s \in Shards : Built(mirror'.shards, s) =>
                \/ mirror'.shards[s] = upsertEntry(mirror.meta, s)
                \/ Built(mirror.shards, s) /\ mirror'.shards[s] = mirror.shards[s]
                \/ /\ Built(mirror.shards, s)
                   /\ mirror'.shards[s] = upsertEntry(mirror.shards[s].auth, s)
<1> DEFINE old == mirror.shards[shard]
           new == IF old = Unbuilt
                  THEN IF mirror.meta = Absent THEN Absent ELSE upsertEntry(mirror.meta, shard)
                  ELSE IF old = Absent THEN Absent ELSE promoteExpired(old, shard)
<1>1. mirror' = [mirror EXCEPT !.shards[shard] = new]
  BY DEF Pick
<1>2. MirrorOK(mirror) /\ (mirror.meta = Absent => Gone(mirror))
  BY DEF Bookkeeping, EpochInvariant, ShapesOK, Orderly, EntriesOK
<1>3. mirror.meta = Absent => new = Absent
  BY <1>2 DEF Gone
<1>4. ASSUME mirror.meta # Absent
      PROVE  \/ new = upsertEntry(mirror.meta, shard)
             \/ old # Unbuilt /\ (new = old \/ new = upsertEntry(old.auth, shard))
  <2>1. CASE old = Unbuilt
    BY <1>4, <2>1
  <2>2. CASE old # Unbuilt
    <3>1. Entry(old, shard, now)
      BY <1>4, <2>2 DEF Orderly, EntriesOK, Built
    <3>2. old # Absent
      BY <3>1 DEF Entry, NullsApart
    <3>3. promoteExpired(old, shard) \in {old, upsertEntry(old.auth, shard)}
      BY DEF promoteExpired
    <3> QED  BY <2>2, <3>2, <3>3
  <2> QED  BY <2>1, <2>2
<1> HIDE DEF new
<1>5. /\ mirror'.seen = mirror.seen /\ mirror'.meta = mirror.meta /\ mirror'.shards[shard] = new
      /\ \A s \in Shards \ {shard} : mirror'.shards[s] = mirror.shards[s]
  BY <1>1, <1>2 DEF MirrorOK
<1>6. mirror.meta = Absent => Gone(mirror')
  BY <1>2, <1>3, <1>5 DEF Gone
<1>7. ASSUME mirror.meta # Absent, NEW s \in Shards, Built(mirror'.shards, s)
      PROVE  \/ mirror'.shards[s] = upsertEntry(mirror.meta, s)
             \/ Built(mirror.shards, s) /\ mirror'.shards[s] = mirror.shards[s]
             \/ /\ Built(mirror.shards, s)
                /\ mirror'.shards[s] = upsertEntry(mirror.shards[s].auth, s)
  <2>1. CASE s = shard
    BY <1>4, <1>5, <1>7, <2>1 DEF Built
  <2>2. CASE s # shard
    BY <1>5, <1>7, <2>2 DEF Built
  <2> QED  BY <2>1, <2>2
<1> QED  BY <1>5, <1>6, <1>7

LEMMA PickOrderly ==
  ASSUME NullsApart, Bookkeeping, Orderly, NEW shard \in Shards, Pick(shard)
  PROVE  Orderly'
<1>1. UNCHANGED <<now, held, inFlight>> /\ mirror'.seen = mirror.seen /\ now \in Nat
  BY PickOutcome, HeldFacts DEF Pick
<1>2. /\ mirror.meta = Absent => Gone(mirror')
      /\ mirror'.meta = mirror.meta
      /\ mirror.meta # Absent => mirror.meta \in Auths /\ ~mirror.meta.disabled
  BY PickOutcome DEF Orderly, EntriesOK, Bookkeeping, CredentialsOK, MetaOK
<1>3. ASSUME mirror.meta # Absent, NEW s \in Shards, Built(mirror'.shards, s)
      PROVE  Entry(mirror'.shards[s], s, now)
  <2>1. CASE mirror'.shards[s] = upsertEntry(mirror.meta, s)
    BY <1>1, <1>2, <1>3, <2>1, EntryBuilt
  <2>2. CASE Built(mirror.shards, s)
    <3>1. Entry(mirror.shards[s], s, now)
      BY <1>3, <2>2 DEF Orderly, EntriesOK
    <3>2. mirror.shards[s].auth \in Auths /\ ~mirror.shards[s].auth.disabled
      BY <3>1 DEF Entry
    <3>3. Entry(upsertEntry(mirror.shards[s].auth, s), s, now)
      BY <1>1, <3>2, EntryBuilt
    <3>4. \/ mirror'.shards[s] = upsertEntry(mirror.meta, s)
          \/ mirror'.shards[s] = mirror.shards[s]
          \/ mirror'.shards[s] = upsertEntry(mirror.shards[s].auth, s)
      BY <1>3, PickOutcome
    <3> QED  BY <2>1, <3>1, <3>3, <3>4
  <2> QED  BY <1>3, <2>1, <2>2, PickOutcome
<1>4. EntriesOK(mirror', now)
  BY <1>2, <1>3 DEF EntriesOK
<1>5. EntriesOK(mirror, now)'
  BY <1>1, <1>4
<1>6. StampsOK' /\ TombstonesOK' /\ AnnouncedOK'
  <2>1. StampsOK'
    BY <1>1 DEF Orderly, StampsOK, Behind, Latest, Held, NoSnapshot
  <2>2. TombstonesOK'
    BY <1>1 DEF Orderly, TombstonesOK, Held, NoSnapshot
  <2>3. AnnouncedOK'
    BY <1>1 DEF Orderly, AnnouncedOK, Announced, Held, NoSnapshot
  <2> QED  BY <2>1, <2>2, <2>3
<1> QED  BY <1>5, <1>6 DEF Orderly

LEMMA PickCurrent ==
  ASSUME NullsApart, Bookkeeping, Orderly, Current, NEW shard \in Shards, Pick(shard)
  PROVE  Current'
<1> SUFFICES ASSUME ~overtaken' PROVE FreshOK' /\ MetaCurrent' /\ EntriesCurrent'
  BY DEF Current
<1>1. /\ UNCHANGED <<now, held, inFlight, overtaken>>
      /\ mirror'.seen = mirror.seen /\ mirror'.meta = mirror.meta
  BY PickOutcome DEF Pick
<1>2. FreshOK /\ MetaCurrent /\ EntriesCurrent
  BY <1>1 DEF Current
<1>3. FreshOK'
  BY <1>1, <1>2 DEF FreshOK, Reaches, Awaited
<1>4. MetaCurrent'
  BY <1>1, <1>2 DEF MetaCurrent, Reaches, Awaited
<1>5. ASSUME mirror.meta # Absent, NEW s \in Shards, Built(mirror'.shards, s)
      PROVE  \/ Like(mirror'.shards[s].auth, held.auth, s, now)
             \/ \E q \in inFlight : Pending(q, s)
  <2>1. CASE mirror'.shards[s] = upsertEntry(mirror.meta, s)
    <3>1. mirror'.shards[s].auth = mirror.meta
      BY <2>1 DEF upsertEntry
    <3> QED  BY <1>2, <3>1 DEF MetaCurrent, Reaches, Awaited, Pending
  <2>2. CASE /\ Built(mirror.shards, s)
             /\ mirror'.shards[s] \in {mirror.shards[s], upsertEntry(mirror.shards[s].auth, s)}
    <3>1. mirror'.shards[s].auth = mirror.shards[s].auth
      BY <2>2 DEF upsertEntry
    <3> QED  BY <1>2, <1>5, <2>2, <3>1 DEF EntriesCurrent
  <2> QED  BY <1>5, <2>1, <2>2, PickOutcome
<1>6. EntriesCurrent'
  BY <1>1, <1>5 DEF EntriesCurrent, Pending
<1> QED  BY <1>3, <1>4, <1>6

-----------------------------------------------------------------------------
(***************************************************************************)
(* The manager's actions, and the theorem.                                 *)
(***************************************************************************)
LEMMA PublishNew ==
  ASSUME NEW k, NEW snapshot, NEW targets, Publish(k, snapshot, targets)
  PROVE  LET q == [kind |-> k, snapshot |-> snapshot, targets |-> targets]
         IN  inFlight' = inFlight \cup {q}
BY DEF Publish

LEMMA SnapshotStamps ==
  ASSUME NEW a, NEW e, NEW g, NEW u
  PROVE  /\ Snapshot(a, e, g, u).epoch = e /\ Snapshot(a, e, g, u).generation = g
         /\ Snapshot(a, e, g, u).updatedAt = u
BY DEF Snapshot

LEMMA RegisterSettles ==
  ASSUME Bookkeeping, Orderly, Register
  PROVE  Orderly' /\ Current'
<1> DEFINE q == [kind |-> "lifecycle", snapshot |-> held', targets |-> {}]
<1>1. PICK token \in Tokens, expiry \in Expiries :
        held' = Snapshot(NewAuth(token, expiry), epoch + 1, 1, 0)
  BY DEF Register
<1>2. inFlight' = inFlight \cup {q} /\ q.kind = "lifecycle" /\ q.snapshot = held'
  BY PublishNew DEF Register
<1>3. held'.epoch = epoch + 1 /\ Stamps(held')
  BY <1>1, SnapshotStamps, HeldFacts DEF Stamps
<1> HIDE DEF q
<1>4. Renews(q)
  BY <1>2, <1>3 DEF Renews, Register
<1> QED  BY <1>4, RenewsOrderly, RenewsCurrent

LEMMA RemoveSettles ==
  ASSUME Bookkeeping, Orderly, Remove
  PROVE  Orderly' /\ Current'
<1> DEFINE mark == Snapshot(Absent, epoch + 1, 0, 0)
           q == [kind |-> "tombstone", snapshot |-> mark, targets |-> {}]
<1>1. inFlight' = inFlight \cup {q} /\ q.kind = "tombstone" /\ q.snapshot = mark
  BY PublishNew DEF Remove
<1>2. /\ mark.epoch = epoch + 1 /\ Stamps(mark) /\ mark.generation = 0
      /\ mark.auth = Absent
  BY SnapshotStamps, SnapshotFields, HeldFacts DEF Stamps
<1> HIDE DEF q, mark
<1>3. Renews(q)
  BY <1>1, <1>2 DEF Renews, Remove
<1> QED  BY <1>3, RenewsOrderly, RenewsCurrent

\* A change makes the next generation.
LEMMA ChangeStamps ==
  ASSUME Orderly, Held, NEW auth, Change(auth)
  PROVE  /\ held'.auth = auth /\ held'.epoch = held.epoch
         /\ held'.generation \in Nat /\ held'.generation > held.generation /\ held'.updatedAt \in Int
<1>1. held.generation \in Nat
  BY DEF Orderly, StampsOK, Stamps
<1> QED  BY <1>1, SnapshotStamps, SnapshotFields DEF Change

\* ... which is published for every shard, or for those that it concerns.
LEMMA ChangeSettles ==
  ASSUME Bookkeeping, Orderly, Current, Held, UNCHANGED <<now, epoch, mirror, overtaken>>,
         NEW auth, Change(auth), NEW k \in {"lifecycle", "result"}, NEW targets,
         Publish(k, held', targets),
         k = "lifecycle" \/ \A s \in Shards : targets = {} \/ s \in targets \cup {NoModel}
                                              \/ Like(held.auth, auth, s, now)
  PROVE  Orderly' /\ Current'
<1> DEFINE q == [kind |-> k, snapshot |-> held', targets |-> targets]
<1>1. inFlight' = inFlight \cup {q} /\ q.kind = k /\ q.snapshot = held' /\ q.targets = targets
  BY PublishNew
<1> HIDE DEF q
<1>2. /\ held'.auth = auth /\ held'.epoch = held.epoch
      /\ held'.generation \in Nat /\ held'.generation > held.generation /\ held'.updatedAt \in Int
  BY ChangeStamps
<1>3. Advances
  BY <1>1, <1>2 DEF Advances
<1>4. ASSUME NEW s \in Shards PROVE Told(s)
  <2>1. Concerns(q, s) \/ Like(held.auth, auth, s, now)
    BY <1>1 DEF Concerns
  <2> QED  BY <1>1, <1>2, <2>1 DEF Told, Ahead
<1> QED  BY <1>3, <1>4, AdvancesOrderly, AdvancesCurrent

LEMMA UpdateSettles ==
  /\ Bookkeeping /\ Orderly /\ Current /\ Update => Orderly' /\ Current'
  /\ Bookkeeping /\ Orderly /\ Current /\ OperatorReset => Orderly' /\ Current'
<1>1. ASSUME Bookkeeping, Orderly, Current, Update PROVE Orderly' /\ Current'
  <2>1. PICK auth : Change(auth)
    BY <1>1 DEF Update
  <2>2. Held /\ UNCHANGED <<now, epoch, mirror, overtaken>> /\ Publish("lifecycle", held', {})
    BY <1>1 DEF Update
  <2> QED  BY <1>1, <2>1, <2>2, ChangeSettles
<1>2. ASSUME Bookkeeping, Orderly, Current, OperatorReset PROVE Orderly' /\ Current'
  <2>1. PICK auth : Change(auth)
    BY <1>2 DEF OperatorReset
  <2>2. Held /\ UNCHANGED <<now, epoch, mirror, overtaken>> /\ Publish("lifecycle", held', {})
    BY <1>2 DEF OperatorReset
  <2> QED  BY <1>2, <2>1, <2>2, ChangeSettles
<1> QED  BY <1>1, <1>2

\* What the manager knows of the credential, for what a result says of the other models.
LEMMA ResultSettles ==
  ASSUME Bookkeeping, Orderly, Current, HeldFit, HeldFree, HeldUnrefused, NoneUnauthorized,
         NullsApart, NEW result \in Results, Result(result)
  PROVE  Orderly' /\ Current'
<1> DEFINE auth == MarkResult(held.auth, result, now)
           targets == IF result.scope \/ result.model = NoModel THEN {} ELSE {result.model}
<1>1. Held /\ Change(auth) /\ Publish("result", held', targets)
  BY DEF Result
<1>2. UNCHANGED <<now, epoch, mirror, overtaken>>
  BY DEF Result
<1>3. /\ held.auth \in Auths /\ Capped(held.auth, now) /\ Fit(held.auth, now)
      /\ FreeUntilServed(held.auth) /\ held.auth.lastError # "unauthorized"
      /\ now \in Nat /\ now > 0
  BY <1>1, HeldFacts DEF HeldFit, HeldFree, HeldUnrefused, Bookkeeping, CredentialsOK
<1>4. result.kind # "unauthorized" /\ result.model \in Models \cup {NoModel}
  BY ResultType DEF NoneUnauthorized
<1>5. ASSUME NEW s \in Shards, targets # {}, s \notin targets \cup {NoModel}
      PROVE  Like(held.auth, auth, s, now)
  <2>1. /\ ~result.scope /\ result.model \in Models /\ targets = {result.model}
        /\ s \in Models \ {result.model}
    BY <1>4, <1>5 DEF Shards
  <2>2. /\ auth.disabled = held.auth.disabled /\ auth.token = held.auth.token
        /\ \A u \in Nat : now <= u => (BlockedFor(auth, s, u) <=> BlockedFor(held.auth, s, u))
    BY <1>3, <1>4, <2>1, ResultConcernsItsModel
  <2>3. auth \in Auths
    BY <1>3, MarkResultKeeps
  <2> HIDE DEF auth
  <2>4. auth # Absent /\ held.auth # Absent
    BY <1>3, <2>3 DEF NullsApart
  <2> QED  BY <2>2, <2>4 DEF Like, Off
<1> HIDE DEF auth, targets
<1>6. \A s \in Shards : targets = {} \/ s \in targets \cup {NoModel} \/ Like(held.auth, auth, s, now)
  BY <1>5
<1> QED  BY <1>1, <1>2, <1>6, ChangeSettles

LEMMA NeutralSettles ==
  ASSUME Bookkeeping, Orderly, Current, NeutralResult
  PROVE  Orderly' /\ Current'
<1>1. /\ held'.auth = held.auth /\ held'.epoch = held.epoch
      /\ held'.generation \in Nat /\ held'.generation > held.generation /\ held'.updatedAt \in Int
  BY ChangeStamps DEF NeutralResult
<1>2. Advances
  BY <1>1 DEF Advances, NeutralResult
<1>3. \A s \in Shards : Told(s)
  BY <1>1, LikeOrder DEF Told
<1> QED  BY <1>2, <1>3, AdvancesOrderly, AdvancesCurrent DEF NeutralResult

\* The credential is published as it stands.
LEMMA RefreshSettles ==
  ASSUME Bookkeeping, Orderly, Current, Held, UNCHANGED <<now, held, epoch, mirror, overtaken>>,
         NEW k \in {"lifecycle", "rebuild"}, Publish(k, held, {})
  PROVE  Orderly' /\ Current'
<1> DEFINE q == [kind |-> k, snapshot |-> held, targets |-> {}]
<1>1. inFlight' = inFlight \cup {q} /\ q.kind = k /\ q.snapshot = held
  BY PublishNew
<1> HIDE DEF q
<1>2. Stamps(held)
  BY DEF Orderly, StampsOK
<1>3. Advances
  BY <1>1, <1>2 DEF Advances, Stamps
<1>4. \A s \in Shards : Told(s)
  BY LikeOrder DEF Told
<1> QED  BY <1>3, <1>4, AdvancesOrderly, AdvancesCurrent

LEMMA RestSettles ==
  ASSUME Bookkeeping, Orderly, Current,
         TimeAnswer \/ Tick \/ UNCHANGED vars \/ (SyncScheduler /\ ~Held)
  PROVE  Orderly' /\ Current'
<1>1. now \in Nat /\ now <= now /\ now <= now + 1
  BY HeldFacts
<1>2. CASE TimeAnswer \/ Tick \/ UNCHANGED vars
  <2>1. Rests
    BY <1>1, <1>2 DEF Rests, TimeAnswer, Tick, vars
  <2> QED  BY <2>1, RestsOrderly, RestsCurrent
<1>3. CASE SyncScheduler /\ ~Held
  <2> DEFINE q == [kind |-> "rebuild", snapshot |-> held, targets |-> {}]
  <2>1. inFlight' = inFlight \cup {q} /\ q.kind = "rebuild" /\ q.snapshot = held
    BY <1>3, PublishNew DEF SyncScheduler
  <2> HIDE DEF q
  <2>2. Rests
    BY <1>1, <1>3, <2>1 DEF Rests, SyncScheduler, Held
  <2> QED  BY <2>2, RestsOrderly, RestsCurrent
<1> QED  BY <1>2, <1>3

\* An answer that was timed in time is stamped after everything else of its generation; the
\* history remembers that another one was not.
LEMMA RecoveredSettles ==
  ASSUME Bookkeeping, Orderly, Current, Held, ApplyAnswer, NEW auth, Recovered(auth)
  PROVE  Orderly' /\ Current'
<1> DEFINE q == [kind |-> "lifecycle", snapshot |-> held', targets |-> {}]
           stamp == IF probe = "late" THEN -1 - Rank(held.updatedAt) ELSE Rank(held.updatedAt) + 1
<1>1. inFlight' = inFlight \cup {q} /\ q.kind = "lifecycle" /\ q.snapshot = held'
  BY PublishNew DEF Recovered
<1>2. SnapshotOK(held) /\ Stamps(held)
  BY HeldFacts DEF Orderly, StampsOK
<1>3. held' = [held EXCEPT !.auth = auth, !.updatedAt = stamp]
  BY DEF Recovered
<1>4. Rank(held.updatedAt) \in Nat
  BY <1>2 DEF Rank, Stamps
<1>5. stamp \in Int /\ (probe # "late" => stamp > Rank(held.updatedAt))
  BY <1>4
<1>6. Rank(stamp) > Rank(held.updatedAt)
  <2>1. PICK r \in Nat : r = Rank(held.updatedAt)
    BY <1>4
  <2>2. stamp \in {-1 - r, r + 1}
    BY <2>1
  <2>3. \A x \in {-1 - r, r + 1} : Rank(x) = r + 1
    BY <2>1 DEF Rank
  <2> HIDE DEF stamp
  <2>4. Rank(stamp) = r + 1
    BY <2>2, <2>3
  <2> QED  BY <2>1, <2>4
<1> HIDE DEF stamp, q
<1>7. /\ held'.epoch = held.epoch /\ held'.generation = held.generation /\ held'.updatedAt = stamp
      /\ held'.auth = auth
  BY <1>2, <1>3 DEF SnapshotOK
<1>8. held' # held
  BY <1>7 DEF Recovered
<1>9. Advances
  BY <1>1, <1>2, <1>5, <1>6, <1>7 DEF Advances, ApplyAnswer, Stamps
<1>10. (overtaken => overtaken') /\ (~overtaken' => probe # "late")
  BY <1>8 DEF ApplyAnswer
<1>11. ~overtaken' => \A s \in Shards : Told(s)
  BY <1>1, <1>5, <1>7, <1>10 DEF Told, Ahead, Concerns
<1> QED  BY <1>9, <1>10, <1>11, AdvancesOrderly, AdvancesCurrent

LEMMA AnswerSettles ==
  ASSUME Bookkeeping, Orderly, Current, ApplyAnswer
  PROVE  Orderly' /\ Current'
<1>1. CASE UNCHANGED <<held, inFlight>>
  <2>1. now \in Nat /\ now <= now
    BY HeldFacts
  <2>2. Rests
    BY <1>1, <2>1 DEF Rests, ApplyAnswer
  <2> QED  BY <2>2, RestsOrderly, RestsCurrent
<1>2. CASE Held /\ \E auth : Recovered(auth)
  BY <1>2, RecoveredSettles
<1> QED  BY <1>1, <1>2 DEF ApplyAnswer, Enabled

LEMMA InitSettled == NullsApart /\ Init => Orderly /\ Current
<1> SUFFICES ASSUME NullsApart, Init PROVE Orderly /\ Current
  OBVIOUS
<1> DEFINE auth == NewAuth(CHOOSE k \in Tokens : TRUE, Min(Expiries))
           f == [s \in Shards |-> IF s \in PickModels THEN upsertEntry(auth, s) ELSE Unbuilt]
<1>1. (CHOOSE k \in Tokens : TRUE) \in Tokens /\ Min(Expiries) \in Expiries
  BY LeastType, SchedulerAssumption
<1>2. auth \in Auths /\ ~auth.disabled
  BY <1>1, FreshTypes DEF NewAuth
<1>3. /\ now = 1 /\ inFlight = {} /\ held = Snapshot(auth, 1, 1, 0)
      /\ mirror.meta = auth /\ mirror.shards = f
      /\ mirror.seen = [epoch |-> 1, generation |-> 1, updatedAt |-> 0]
  BY DEF Init
<1> HIDE DEF auth
<1>4. auth # Absent
  BY <1>2 DEF NullsApart
<1>5. /\ held.epoch = 1 /\ held.generation = 1 /\ held.updatedAt = 0 /\ held.auth = auth
  BY <1>3, SnapshotStamps, SnapshotFields
<1>6. \A s \in Shards : Built(mirror.shards, s) => mirror.shards[s] = upsertEntry(auth, s)
  BY <1>3 DEF Built
<1> HIDE DEF f
<1>7. StampsOK
  BY <1>3, <1>5 DEF StampsOK, Stamps, Behind, Rank
<1>8. TombstonesOK /\ AnnouncedOK
  BY <1>3, <1>5 DEF TombstonesOK, AnnouncedOK, Announced
<1>9. EntriesOK(mirror, now)
  <2>1. now \in Nat
    BY <1>3
  <2>2. \A s : Entry(upsertEntry(auth, s), s, now)
    BY <1>2, <2>1, EntryBuilt
  <2> QED  BY <1>2, <1>3, <1>4, <1>6, <2>2 DEF EntriesOK
<1>10. FreshOK /\ MetaCurrent
  BY <1>3, <1>5, LikeOrder DEF FreshOK, MetaCurrent, Reaches
<1>11. EntriesCurrent
  <2>1. \A s : upsertEntry(auth, s).auth = auth
    BY DEF upsertEntry
  <2> QED  BY <1>5, <1>6, <2>1, LikeOrder DEF EntriesCurrent
<1> QED  BY <1>7, <1>8, <1>9, <1>10, <1>11 DEF Orderly, Current

LEMMA StepSettles ==
  ASSUME NullsApart, NoneUnauthorized, Bookkeeping, HeldFit, HeldFree, HeldUnrefused,
         Orderly, Current, [Next]_vars
  PROVE  Orderly' /\ Current'
<1>1. CASE Register              BY <1>1, RegisterSettles
<1>2. CASE Update                BY <1>2, UpdateSettles
<1>3. CASE Remove                BY <1>3, RemoveSettles
<1>4. CASE \E result \in Results : Result(result)
                                 BY <1>4, ResultSettles
<1>5. CASE NeutralResult         BY <1>5, NeutralSettles
<1>6. CASE OperatorReset         BY <1>6, UpdateSettles
<1>7. CASE RefreshSchedulerEntry BY <1>7, RefreshSettles DEF RefreshSchedulerEntry
<1>8. CASE SyncScheduler
  <2>1. CASE Held                BY <1>8, <2>1, RefreshSettles DEF SyncScheduler
  <2>2. CASE ~Held               BY <1>8, <2>2, RestSettles
  <2> QED  BY <2>1, <2>2
<1>9. CASE TimeAnswer \/ Tick \/ UNCHANGED vars
                                 BY <1>9, RestSettles
<1>10. CASE ApplyAnswer          BY <1>10, AnswerSettles
<1>11. CASE \E p \in inFlight : Deliver(p)
                                 BY <1>11, DeliverOrderly, DeliverCurrent
<1>12. CASE \E shard \in PickModels : Pick(shard)
                                 BY <1>12, PickOrderly, PickCurrent, SchedulerAssumption DEF Shards
<1> QED
  BY <1>1, <1>2, <1>3, <1>4, <1>5, <1>6, <1>7, <1>8, <1>9, <1>10, <1>11, <1>12 DEF Next

\* With nothing in flight, there is nothing newer to come.
LEMMA SettledIsCurrent ==
  ASSUME NullsApart, Bookkeeping, Orderly, Current
  PROVE  SchedulerCurrent
<1> SUFFICES ASSUME inFlight = {}, ~overtaken PROVE ShardsAgree
  BY DEF SchedulerCurrent
<1>1. \A s \in Shards : Like(mirror.meta, held.auth, s, now)
  BY DEF Current, MetaCurrent, Reaches, Awaited
<1>2. \A s \in Shards : mirror.meta # Absent /\ Built(mirror.shards, s) =>
        Like(mirror.shards[s].auth, held.auth, s, now)
  BY DEF Current, EntriesCurrent
<1>3. EntriesOK(mirror, now) /\ now \in Nat
  BY HeldFacts DEF Orderly
<1>4. Off(held.auth) <=> ~Enabled
  <2>1. CASE Held
    <3>1. held.auth # Absent
      BY <2>1, HeldFacts DEF NullsApart
    <3> QED  BY <2>1, <3>1 DEF Off, Enabled
  <2>2. CASE ~Held
    BY <2>2, SnapshotFields DEF Held, NoSnapshot, Off, Enabled
  <2> QED  BY <2>1, <2>2
<1>5. Off(mirror.meta) <=> mirror.meta = Absent
  BY <1>3 DEF EntriesOK, Off
<1>6. (mirror.meta # Absent) = Enabled
  BY <1>1, <1>4, <1>5 DEF Like, Shards, Enabled
<1>7. ASSUME NEW s \in Shards, Built(mirror.shards, s) PROVE InShard(mirror.shards[s], s)
  <2>1. CASE ~Enabled
    <3>1. mirror.shards[s] \in {Unbuilt, Absent}
      BY <1>3, <1>6, <2>1 DEF EntriesOK, Gone
    <3> QED  BY <1>7, <2>1, <3>1 DEF InShard, Built
  <2>2. CASE Enabled
    <3>1. PICK entry : entry = mirror.shards[s]
      OBVIOUS
    <3>2. mirror.meta # Absent
      BY <1>6, <2>2
    <3>3. Entry(entry, s, now) /\ Like(entry.auth, held.auth, s, now)
      BY <1>2, <1>3, <1>7, <3>1, <3>2 DEF EntriesOK
    <3>4. PICK u \in Nat :
            u <= now /\ entry = [auth |-> entry.auth, block |-> isAuthBlockedForModel(entry.auth, s, u)]
      BY <3>3 DEF Entry
    <3>5. entry.auth \in Auths /\ ~entry.auth.disabled
      BY <3>3 DEF Entry
    <3>6. promoteExpired(entry, s).block.state = "ready"
            <=> isAuthBlockedForModel(entry.auth, s, now).state = "ready"
      BY <1>3, <3>4, <3>5, LazyIsExact
    <3>7. /\ entry.auth.token = held.auth.token
          /\ \A v \in Nat : now <= v => (BlockedFor(entry.auth, s, v) <=> BlockedFor(held.auth, s, v))
      BY <1>4, <2>2, <3>3 DEF Like
    <3>8. isAuthBlockedForModel(entry.auth, s, now).state = "ready"
            <=> isAuthBlockedForModel(held.auth, s, now).state = "ready"
      BY <1>3, <3>7 DEF BlockedFor
    <3>9. entry # Absent
      BY <3>4, <3>5 DEF NullsApart
    <3> QED  BY <2>2, <3>1, <3>6, <3>7, <3>8, <3>9 DEF InShard
  <2> QED  BY <2>1, <2>2
<1> QED  BY <1>6, <1>7 DEF ShardsAgree

\* In whatever order the publications of the manager arrive, the scheduler takes in what is
\* current or something newer that concerns the shard is still on its way (Manager publishes
\* after it has let its lock go; isStaleScheduledAuth, upsertAuthResult, recordRemovalTombstone).
THEOREM NothingNewerIsMissed ==
  ASSUME NullsApart, FailuresNameModels, NoneUnauthorized
  PROVE  Spec => [](Orderly /\ Current)
<1>1. Init => Orderly /\ Current /\ HeldUnrefused
  BY InitSettled, InitFit
<1>2. Bookkeeping /\ HeldFit /\ HeldUnrefused /\ [Next]_vars => HeldUnrefused'
  BY StepFit
<1>3. Bookkeeping /\ HeldFit /\ HeldFree /\ HeldUnrefused /\ Orderly /\ Current /\ [Next]_vars
        => Orderly' /\ Current'
  BY StepSettles
<1> QED
  BY <1>1, <1>2, <1>3, CredentialsStayWhole, CredentialsStayFit, CredentialsStayFree, PTL DEF Spec

\* Once nothing is in flight, and unless a publication was dropped as late or stamped too early,
\* each shard offers the credential exactly when the manager would let it serve that model, with
\* the token the manager holds: the availability that the scheduler computed when it took the
\* credential in, and computes again when a deadline it knows of has passed (promoteExpired),
\* misses no cooldown and keeps none (upsertAuthLifecycle, upsertAuthResult,
\* recordRemovalTombstone, rebuild).
THEOREM SchedulerAgreesInTheEnd ==
  ASSUME NullsApart, FailuresNameModels, NoneUnauthorized
  PROVE  Spec => []SchedulerCurrent
<1>1. Bookkeeping /\ Orderly /\ Current => SchedulerCurrent
  BY SettledIsCurrent
<1> QED  BY <1>1, CredentialsStayWhole, NothingNewerIsMissed, PTL
=============================================================================
