---------------------------- MODULE AuthWatch_proofs ----------------------------
(***************************************************************************)
(* For any number of scans, contents, changes and events: a scan never     *)
(* replaces what the watcher knows by something older, and updates arrive  *)
(* in the order they were stamped in.  For reloads that do not overlap,    *)
(* the service ends with what the file holds.                              *)
(*                                                                         *)
(* Nobody knows a version of the file that is newer than the file.  So     *)
(* what a scan reads is not older than what was published by then, and it  *)
(* is published only if nothing was published since.  The update stamped   *)
(* last is in one place at a time, and nothing older is handed over after  *)
(* it.  While what the watcher knows differs from the file, an event, a    *)
(* parsed file, a login or a scan is still to bring it there.              *)
(***************************************************************************)
EXTENDS AuthWatch, TLAPS

\* A version of the file, or of an earlier one.
Aged(snapshot) == snapshot.age \in Nat /\ snapshot.age <= file.age

ScanOK(x) ==
  /\ x.phase \in {"begun", "read"} => x.revision \in Nat /\ x.revision <= revision
  /\ x.phase = "read" =>
       Aged(x.auth) /\ (x.revision = revision => current.age <= x.auth.age)

Ages ==
  /\ file.age \in Nat
  /\ Aged(current)
  /\ handler.phase = "parsed" => Aged(handler.auth)
  /\ login.phase = "saved" => Aged(login.auth)

ScanInvariant ==
  /\ Ages
  /\ revision \in Nat
  /\ DOMAIN scan = Scans
  /\ \A s \in Scans : ScanOK(scan[s])

\* The file's age never falls.
LEMMA StillAged ==
  ASSUME NEW snapshot, Aged(snapshot), file.age \in Nat, file'.age \in Nat, file.age <= file'.age
  PROVE  snapshot.age \in Nat /\ snapshot.age <= file'.age
BY DEF Aged

\* A step that changes neither the scans nor what was published.
LEMMA ScansUntouched ==
  ASSUME ScanInvariant, UNCHANGED <<scan, current, revision>>,
         file'.age \in Nat, file.age <= file'.age
  PROVE  DOMAIN scan' = Scans /\ \A s \in Scans : ScanOK(scan[s])'
BY DEF ScanInvariant, Ages, ScanOK, Aged

\* What is published since a scan began overtakes it.
LEMMA ScansOvertaken ==
  ASSUME ScanInvariant, NEW snapshot, Published(snapshot), UNCHANGED <<scan, file>>
  PROVE  /\ revision' \in Nat
         /\ DOMAIN scan' = Scans /\ \A s \in Scans : ScanOK(scan[s])'
<1>1. revision' = revision + 1 /\ revision \in Nat
  BY DEF Published, ScanInvariant
<1>2. ASSUME NEW s \in Scans
      PROVE  ScanOK(scan[s])'
  <2>1. ScanOK(scan[s])
    BY DEF ScanInvariant
  <2> QED  BY <1>1, <2>1 DEF ScanOK, Aged
<1> QED  BY <1>1, <1>2 DEF ScanInvariant

LEMMA FileStepKeeps == ScanInvariant /\ FileStep => ScanInvariant'
<1> SUFFICES ASSUME ScanInvariant, FileStep PROVE ScanInvariant'
  OBVIOUS
<1>1. PICK content, event : UserChanges(content, event)
  BY DEF FileStep, UserWrites, UserDeletes, UserReplaces
<1>2. UNCHANGED <<handler, login, scan, current, revision>>
  BY <1>1 DEF UserChanges, stateVars, scanVars
<1>3. file.age \in Nat /\ file'.age = file.age + 1
  BY <1>1 DEF UserChanges, Write, ScanInvariant, Ages
<1>4. file'.age \in Nat /\ file.age <= file'.age
  BY <1>3
<1>5. Ages'
  BY <1>2, <1>3, <1>4, StillAged DEF ScanInvariant, Ages, Aged
<1> QED  BY <1>2, <1>4, <1>5, ScansUntouched DEF ScanInvariant

LEMMA EventStepKeeps == ScanInvariant /\ EventStep => ScanInvariant'
<1> SUFFICES ASSUME ScanInvariant, EventStep PROVE ScanInvariant'
  OBVIOUS
<1>1. UNCHANGED <<file, login, scan>>
  BY DEF EventStep, TakeEvent, CheckFile, IgnoreRemoval, RemoveClient, ReadFile, PublishFile,
         DispatchEvent, WindowPasses, fileVars, scanVars
<1>2. file.age \in Nat /\ Aged(current) /\ revision \in Nat
  BY DEF ScanInvariant, Ages
<1>3. CASE /\ UNCHANGED <<current, revision>>
           /\ handler'.phase = "parsed" =>
                handler'.auth = file \/ (handler.phase = "parsed" /\ handler' = handler)
  <2>1. Ages'
    BY <1>1, <1>3 DEF ScanInvariant, Ages, Aged
  <2>2. file'.age \in Nat /\ file.age <= file'.age
    BY <1>1, <1>2
  <2> QED  BY <1>1, <1>2, <1>3, <2>1, <2>2, ScansUntouched DEF ScanInvariant
<1>4. ASSUME NEW snapshot, Aged(snapshot), Published(snapshot), handler'.phase # "parsed"
      PROVE  ScanInvariant'
  <2>1. Ages'
    BY <1>1, <1>4 DEF ScanInvariant, Ages, Aged, Published
  <2> QED  BY <1>1, <1>4, <2>1, ScansOvertaken DEF ScanInvariant
<1>5. CASE TakeEvent
  BY <1>3, <1>5 DEF TakeEvent, stateVars
<1>6. CASE CheckFile
  BY <1>3, <1>6 DEF CheckFile, stateVars, Idle
<1>7. CASE IgnoreRemoval
  BY <1>3, <1>7 DEF IgnoreRemoval, stateVars, Idle
<1>8. CASE RemoveClient
  <2>1. Aged(file)
    BY <1>2 DEF Aged
  <2>2. CASE known
    BY <1>4, <1>8, <2>1, <2>2 DEF RemoveClient, Dispatching
  <2>3. CASE ~known
    BY <1>3, <1>8, <2>3 DEF RemoveClient, stateVars, Idle
  <2> QED  BY <2>2, <2>3
<1>9. CASE ReadFile
  BY <1>3, <1>9 DEF ReadFile, stateVars, Idle
<1>10. CASE PublishFile
  <2>1. Aged(handler.auth)
    BY <1>10 DEF PublishFile, ScanInvariant, Ages
  <2>2. CASE Differ(current, handler.auth)
    BY <1>4, <1>10, <2>1, <2>2 DEF PublishFile, Dispatching
  <2>3. CASE ~Differ(current, handler.auth)
    BY <1>3, <1>10, <2>3 DEF PublishFile, stateVars, Idle
  <2> QED  BY <2>2, <2>3
<1>11. CASE DispatchEvent
  BY <1>3, <1>11 DEF DispatchEvent, stateVars, Idle
<1>12. CASE WindowPasses
  BY <1>3, <1>12 DEF WindowPasses, stateVars
<1> QED
  BY <1>5, <1>6, <1>7, <1>8, <1>9, <1>10, <1>11, <1>12 DEF EventStep

\* One scan goes on; nothing else that the invariant is about changes, or something is published.
LEMMA OneScanMoves ==
  ASSUME ScanInvariant, NEW s \in Scans, NEW x, scan' = [scan EXCEPT ![s] = x],
         UNCHANGED <<file, handler, login>>,
         \/ /\ UNCHANGED <<current, revision>>
            /\ x.phase \in {"begun", "read"} => x.revision \in Nat /\ x.revision <= revision
            /\ x.phase = "read" =>
                 Aged(x.auth) /\ (x.revision = revision => current.age <= x.auth.age)
         \/ /\ \E snapshot : Aged(snapshot) /\ Published(snapshot)
            /\ x.phase \notin {"begun", "read"}
  PROVE  ScanInvariant'
<1>1. DOMAIN scan' = Scans /\ scan'[s] = x /\ \A t \in Scans \ {s} : scan'[t] = scan[t]
  BY DEF ScanInvariant
<1>2. revision \in Nat /\ file.age \in Nat
  BY DEF ScanInvariant, Ages
<1>3. CASE UNCHANGED <<current, revision>> /\ ScanOK(x)
  <2>1. Ages'
    BY <1>3 DEF ScanInvariant, Ages, Aged
  <2>2. \A t \in Scans : ScanOK(scan'[t])
    BY <1>1, <1>3 DEF ScanInvariant
  <2>3. \A t \in Scans : ScanOK(scan[t])'
    BY <1>3, <2>2 DEF ScanOK, Aged
  <2> QED  BY <1>1, <1>2, <1>3, <2>1, <2>3 DEF ScanInvariant
<1>4. ASSUME NEW snapshot, Aged(snapshot), Published(snapshot), x.phase \notin {"begun", "read"}
      PROVE  ScanInvariant'
  <2>1. Ages'
    BY <1>4 DEF ScanInvariant, Ages, Aged, Published
  <2>2. revision' = revision + 1
    BY <1>4 DEF Published
  <2>3. ASSUME NEW t \in Scans \ {s} PROVE ScanOK(scan[t])'
    <3>1. ScanOK(scan[t]) /\ scan'[t] = scan[t]
      BY <1>1, <2>3 DEF ScanInvariant
    <3> QED  BY <1>2, <2>2, <3>1 DEF ScanOK, Aged
  <2>4. ScanOK(scan[s])'
    BY <1>1, <1>4 DEF ScanOK
  <2> QED  BY <1>1, <1>2, <2>1, <2>2, <2>3, <2>4 DEF ScanInvariant
<1> QED  BY <1>3, <1>4 DEF ScanOK

LEMMA ReloadStepKeeps ==
  ASSUME ScanInvariant, NEW s \in Scans, ReloadStep(s)
  PROVE  ScanInvariant'
<1>1. UNCHANGED <<file, handler, login>>
  BY DEF ReloadStep, BeginCaching, FinishCaching, BeginScan, ReadScan, PublishScan, DispatchScan,
         fileVars, handlerVars
<1>2. revision \in Nat /\ file.age \in Nat /\ Aged(current) /\ ScanOK(scan[s])
  BY DEF ScanInvariant, Ages
<1>3. CASE BeginCaching(s) \/ FinishCaching(s) \/ DispatchScan(s)
  <2>1. UNCHANGED <<current, revision>>
    BY <1>3 DEF BeginCaching, FinishCaching, DispatchScan, stateVars
  <2>2. PICK x : scan' = [scan EXCEPT ![s] = x] /\ x.phase \in {"caching", "reloading", "idle"}
    <3>1. CASE BeginCaching(s)
      <4> DEFINE y == [phase |-> "caching", auth |-> file]
      <4>1. scan' = [scan EXCEPT ![s] = y]
        BY <3>1 DEF BeginCaching, ScanStep
      <4>2. y.phase = "caching"
        OBVIOUS
      <4> HIDE DEF y
      <4> QED  BY <4>1, <4>2
    <3>2. CASE FinishCaching(s)
      <4> DEFINE y == [phase |-> "reloading"]
      <4>1. scan' = [scan EXCEPT ![s] = y]
        BY <3>2 DEF FinishCaching, ScanStep
      <4>2. y.phase = "reloading"
        OBVIOUS
      <4> HIDE DEF y
      <4> QED  BY <4>1, <4>2
    <3>3. CASE DispatchScan(s)
      <4>1. scan' = [scan EXCEPT ![s] = Idle] /\ Idle.phase = "idle"
        BY <3>3 DEF DispatchScan, ScanStep, Idle
      <4> QED  BY <4>1
    <3> QED  BY <1>3, <3>1, <3>2, <3>3
  <2> QED  BY <1>1, <2>1, <2>2, OneScanMoves
<1>4. CASE BeginScan(s)
  <2> DEFINE x == [phase |-> "begun", revision |-> revision, observed |-> observed]
  <2>1. scan' = [scan EXCEPT ![s] = x] /\ UNCHANGED <<current, revision>>
    BY <1>4 DEF BeginScan, ScanStep, stateVars
  <2>2. x.phase = "begun" /\ x.revision = revision
    OBVIOUS
  <2> HIDE DEF x
  <2>3. x.revision \in Nat /\ x.revision <= revision
    BY <1>2, <2>2
  <2> QED  BY <1>1, <2>1, <2>2, <2>3, OneScanMoves
\* What it reads is not older than what was published until now.
<1>5. CASE ReadScan(s)
  <2> DEFINE x == [phase |-> "read", revision |-> scan[s].revision,
                   observed |-> scan[s].observed, auth |-> file]
  <2>1. scan' = [scan EXCEPT ![s] = x] /\ UNCHANGED <<current, revision>>
    BY <1>5 DEF ReadScan, ScanStep, stateVars
  <2>2. x.phase = "read" /\ x.revision = scan[s].revision /\ x.auth = file
    OBVIOUS
  <2> HIDE DEF x
  <2>3. x.revision \in Nat /\ x.revision <= revision
    BY <1>2, <1>5, <2>2 DEF ReadScan, ScanOK
  <2>4. Aged(x.auth) /\ current.age <= x.auth.age
    BY <1>2, <2>2 DEF Aged
  <2> QED  BY <1>1, <2>1, <2>2, <2>3, <2>4, OneScanMoves
<1>6. CASE PublishScan(s)
  <2> DEFINE auth == IF changedDuringScan(s) THEN current ELSE scan[s].auth
  <2>1. Aged(auth)
    BY <1>2, <1>6 DEF PublishScan, ScanOK
  <2>2. \/ Published(auth) /\ scan' = [scan EXCEPT ![s] = Dispatching(auth)]
        \/ UNCHANGED <<current, revision>> /\ scan' = [scan EXCEPT ![s] = Idle]
    BY <1>6 DEF PublishScan, ScanStep, stateVars
  <2> HIDE DEF auth
  <2>3. Dispatching(auth).phase = "dispatching" /\ Idle.phase = "idle"
    BY DEF Dispatching, Idle
  <2>4. CASE Published(auth) /\ scan' = [scan EXCEPT ![s] = Dispatching(auth)]
    <3> DEFINE x == Dispatching(auth)
    <3>1. scan' = [scan EXCEPT ![s] = x] /\ x.phase \notin {"begun", "read"}
      BY <2>3, <2>4
    <3> HIDE DEF x
    <3> QED  BY <1>1, <2>1, <2>4, <3>1, OneScanMoves
  <2>5. CASE UNCHANGED <<current, revision>> /\ scan' = [scan EXCEPT ![s] = Idle]
    BY <1>1, <2>3, <2>5, OneScanMoves
  <2> QED  BY <2>2, <2>4, <2>5
<1> QED  BY <1>3, <1>4, <1>5, <1>6 DEF ReloadStep

LEMMA ServiceStepKeeps == ScanInvariant /\ ServiceStep => ScanInvariant'
<1> SUFFICES ASSUME ScanInvariant, ServiceStep PROVE ScanInvariant'
  OBVIOUS
<1>1. UNCHANGED <<handler, scan>>
  BY DEF ServiceStep, SaveLogin, PublishLogin, DispatchLogin, ApplyLogin, DispatchLoop,
         ConsumeAuthUpdate, handlerVars, scanVars
<1>2. file.age \in Nat /\ revision \in Nat
  BY DEF ScanInvariant, Ages
<1>3. CASE SaveLogin
  <2>1. UNCHANGED <<current, revision>> /\ login'.auth = file'
    BY <1>3 DEF SaveLogin, stateVars
  <2>2. file'.age = file.age + 1
    BY <1>3 DEF SaveLogin, Write
  <2>3. file'.age \in Nat /\ file.age <= file'.age
    BY <1>2, <2>2
  <2>4. Ages'
    BY <1>1, <2>1, <2>3, StillAged DEF ScanInvariant, Ages, Aged
  <2> QED  BY <1>1, <1>2, <2>1, <2>3, <2>4, ScansUntouched DEF ScanInvariant
<1>4. CASE PublishLogin
  <2>1. Published(login.auth) /\ UNCHANGED file /\ login'.phase = "dispatching"
    BY <1>4 DEF PublishLogin, Dispatching, fileVars
  <2>2. Aged(login.auth)
    BY <1>4 DEF PublishLogin, ScanInvariant, Ages
  <2>3. Ages'
    BY <1>1, <2>1, <2>2 DEF ScanInvariant, Ages, Aged, Published
  <2> QED  BY <1>1, <2>1, <2>3, ScansOvertaken DEF ScanInvariant
<1>5. CASE DispatchLogin \/ ApplyLogin \/ DispatchLoop \/ ConsumeAuthUpdate
  <2>1. /\ UNCHANGED <<file, current, revision>>
        /\ login'.phase = "saved" => login' = login
    BY <1>5
       DEF DispatchLogin, ApplyLogin, DispatchLoop, ConsumeAuthUpdate, fileVars, stateVars, Idle
  <2>2. Ages'
    BY <1>1, <2>1 DEF ScanInvariant, Ages, Aged
  <2>3. file'.age \in Nat /\ file.age <= file'.age
    BY <1>2, <2>1
  <2> QED  BY <1>1, <1>2, <2>1, <2>2, <2>3, ScansUntouched DEF ScanInvariant
<1> QED  BY <1>3, <1>4, <1>5 DEF ServiceStep

-----------------------------------------------------------------------------
LEMMA InitScans == Init => ScanInvariant
<1> SUFFICES ASSUME Init PROVE ScanInvariant
  OBVIOUS
<1>1. file.age = 0 /\ current.age = 0 /\ revision = 0 /\ handler = Idle /\ login = Idle
  <2> PICK content : /\ file = [content |-> content, age |-> 0]
                     /\ Running([content |-> content, age |-> 0]) \/ Starting
                     /\ handler = Idle /\ login = Idle /\ revision = 0
    BY DEF Init
  <2>1. CASE Running([content |-> content, age |-> 0])
    BY <2>1 DEF Running
  <2>2. CASE Starting
    BY <2>2 DEF Starting
  <2> QED  BY <2>1, <2>2
<1>2. /\ DOMAIN scan = Scans
      /\ \A s \in Scans : scan[s].phase \in {"idle", "starting"}
  <2>1. CASE scan = [s \in Scans |-> Idle]
    BY <2>1 DEF Idle
  <2>2. CASE \E s \in Scans : scan = [[t \in Scans |-> Idle] EXCEPT ![s] = [phase |-> "starting"]]
    BY <2>2 DEF Idle
  <2> QED  BY <2>1, <2>2 DEF Init, Running, Starting
<1> QED  BY <1>1, <1>2 DEF ScanInvariant, Ages, Aged, ScanOK, Idle

LEMMA StepScans == ScanInvariant /\ [Next]_vars => ScanInvariant'
<1> SUFFICES ASSUME ScanInvariant, [Next]_vars PROVE ScanInvariant'
  OBVIOUS
<1>1. CASE FileStep
  BY <1>1, FileStepKeeps
<1>2. CASE EventStep
  BY <1>2, EventStepKeeps
<1>3. CASE \E s \in Scans : ReloadStep(s)
  BY <1>3, ReloadStepKeeps
<1>4. CASE ServiceStep
  BY <1>4, ServiceStepKeeps
<1>5. CASE UNCHANGED vars
  <2>1. UNCHANGED <<file, handler, login, scan, current, revision>>
    BY <1>5 DEF vars, fileVars, handlerVars, scanVars, stateVars
  <2> QED  BY <2>1 DEF ScanInvariant, Ages, Aged, ScanOK
<1> QED  BY <1>1, <1>2, <1>3, <1>4, <1>5 DEF Next

\* No version that anybody knows is newer than the file, and what a scan has read is not older
\* than what was published before it, in every reachable state.
THEOREM ScansReadNothingOlder == Spec => []ScanInvariant
BY InitScans, StepScans, PTL DEF Spec

\* A scan never replaces what the watcher knows by an older version, whatever events and logins
\* it overlaps with (refreshAuthState, changedDuringScan).
THEOREM ScansNeverGoBack == Spec => ScanNeverGoesBack
<1> DEFINE Forward == \A s \in Scans : PublishScan(s) => current'.age >= current.age
<1>1. ScanInvariant => Forward
  <2> SUFFICES ASSUME ScanInvariant, NEW s \in Scans, PublishScan(s)
               PROVE  current'.age >= current.age
    OBVIOUS
  <2> DEFINE auth == IF changedDuringScan(s) THEN current ELSE scan[s].auth
  <2>1. current' = auth \/ current' = current
    BY DEF PublishScan, Published, stateVars
  <2>2. current.age \in Nat
    BY DEF ScanInvariant, Ages, Aged
  <2>3. CASE changedDuringScan(s)
    BY <2>1, <2>2, <2>3
  <2>4. CASE ~changedDuringScan(s)
    <3>1. ScanOK(scan[s]) /\ scan[s].phase = "read" /\ scan[s].revision = revision
      BY <2>4 DEF ScanInvariant, PublishScan, changedDuringScan
    <3>2. scan[s].auth.age \in Nat /\ current.age <= scan[s].auth.age
      BY <3>1 DEF ScanOK, Aged
    <3> QED  BY <2>1, <2>2, <2>4, <3>2
  <2> QED  BY <2>3, <2>4
<1>2. ScanInvariant /\ [Next]_vars => [Forward]_vars
  BY <1>1
<1>3. ScanNeverGoesBack <=> [][Forward]_vars
  BY DEF ScanNeverGoesBack
<1> HIDE DEF Forward
<1> QED  BY <1>2, <1>3, ScansReadNothingOlder, PTL DEF Spec
-----------------------------------------------------------------------------
(***************************************************************************)
(* Updates: stamped in order, handed over once, and applied in order.      *)
(***************************************************************************)
\* Who may have an update in hand, and what they are doing.
Hands == {<<"handler", 0>>, <<"login", 0>>} \cup {<<"scan", s>> : s \in Scans}

In(h) ==
  IF h[1] = "handler" THEN handler ELSE IF h[1] = "login" THEN login ELSE scan[h[2]]

Carries(x) == x.phase = "dispatching"
Newest(h) == Carries(In(h)) /\ In(h).update.revision = revision
Older(r) ==
  /\ \A i \in 1 .. Len(queue) : queue[i].revision < r
  /\ pending # NoUpdate => pending.revision < r

\* Every update is one that was stamped; the queue is in order, and the update stamped last is
\* in one hand at most, and has not been handed over then.
UpdatesOK ==
  /\ revision \in Nat /\ processed \in Nat /\ processed <= revision
  /\ queue \in Seq(Update)
  /\ \A i \in 1 .. Len(queue) : queue[i].revision <= revision
  /\ \A i, j \in 1 .. Len(queue) : i < j => queue[i].revision < queue[j].revision
  /\ pending # NoUpdate =>
       /\ pending \in Update /\ pending.revision <= revision
       /\ \A i \in 1 .. Len(queue) : queue[i].revision < pending.revision
  /\ \A h \in Hands : Carries(In(h)) =>
       In(h).update \in Update /\ In(h).update.revision <= revision
  /\ login.phase = "applying" => login.update \in Update /\ login.update.revision <= revision
  /\ \A h \in Hands : Newest(h) => Older(revision)
  /\ \A h, k \in Hands : Newest(h) /\ Newest(k) => h = k

\* The update stamped last is what the watcher believes; it is under way, or applied.
IsCurrent(update) == update.revision = revision => update.auth = current

DeliveryOK ==
  revision # 0 =>
    /\ \/ processed = revision
       \/ \E i \in 1 .. Len(queue) : queue[i].revision = revision
       \/ pending # NoUpdate /\ pending.revision = revision
       \/ \E h \in Hands : Newest(h)
       \/ login.phase = "applying" /\ login.update.revision = revision
    /\ processed = revision => applied = current
    /\ \A i \in 1 .. Len(queue) : IsCurrent(queue[i])
    /\ pending # NoUpdate => IsCurrent(pending)
    /\ \A h \in Hands : Carries(In(h)) => IsCurrent(In(h).update)
    /\ login.phase = "applying" => IsCurrent(login.update)

FlowOK == UpdatesOK /\ DeliveryOK

LEMMA QueuedUpdates ==
  ASSUME UpdatesOK
  PROVE  \A i \in 1 .. Len(queue) : queue[i] \in Update
<1>1. queue \in Seq(Update)
  BY DEF UpdatesOK
<1> QED  BY <1>1

\* A step that stamps nothing and hands nothing over.
LEMMA FlowUntouched ==
  ASSUME FlowOK, UNCHANGED <<current, revision, applied, processed, queue, pending>>,
         \A h \in Hands : Carries(In(h)') \/ Carries(In(h)) => In(h)' = In(h),
         login'.phase = "applying" \/ login.phase = "applying" => login' = login
  PROVE  FlowOK'
<1> USE DEF FlowOK
<1>1. \A h \in Hands : (Newest(h)' <=> Newest(h)) /\ (Carries(In(h))' <=> Carries(In(h)))
  BY DEF Newest, Carries
<1>2. \A r : Older(r)' <=> Older(r)
  BY DEF Older
<1>3. UpdatesOK'
  BY <1>1, <1>2 DEF UpdatesOK, Carries
<1>4. DeliveryOK'
  BY <1>1 DEF DeliveryOK, IsCurrent, Carries
<1> QED  BY <1>3, <1>4

\* Somebody stamps an update of what they know.
LEMMA FlowPublished ==
  ASSUME FlowOK, NEW x \in Hands, NEW snapshot \in Snapshot, Published(snapshot),
         In(x)' = Dispatching(snapshot), \A h \in Hands \ {x} : In(h)' = In(h),
         UNCHANGED <<applied, processed, queue, pending>>,
         login'.phase = "applying" => login' = login
  PROVE  FlowOK'
<1> USE DEF FlowOK
<1>1. revision \in Nat /\ revision' = revision + 1 /\ current' = snapshot
  BY DEF UpdatesOK, Published
<1>2. /\ Carries(In(x)') /\ In(x)'.update = [auth |-> snapshot, revision |-> revision']
      /\ In(x)'.update \in Update /\ In(x)'.update.revision = revision'
      /\ In(x)'.update.auth = snapshot
  BY <1>1 DEF Dispatching, Carries, Update
<1>3. \A r \in Nat : r <= revision => r <= revision' /\ r < revision' /\ r # revision'
  BY <1>1
<1>4. \A i \in 1 .. Len(queue) : queue[i].revision \in Nat /\ queue[i].revision <= revision
  BY QueuedUpdates DEF UpdatesOK, Update
<1>5. pending # NoUpdate => pending.revision \in Nat /\ pending.revision <= revision
  BY DEF UpdatesOK, Update
<1>6. \A h \in Hands \ {x} : Carries(In(h)') =>
        /\ In(h)'.update \in Update /\ In(h)'.update.revision <= revision'
        /\ In(h)'.update.revision # revision'
  BY <1>3 DEF UpdatesOK, Update
<1>7. \A h \in Hands : Newest(h)' => h = x
  BY <1>6 DEF Newest, Carries
<1>8. Older(revision)'
  BY <1>3, <1>4, <1>5 DEF Older
<1>9. UpdatesOK'
  <2>1. revision' \in Nat /\ processed' \in Nat /\ processed' <= revision'
    BY <1>1, <1>3 DEF UpdatesOK
  <2>2. login'.phase = "applying" =>
          login'.update \in Update /\ login'.update.revision <= revision'
    BY <1>3 DEF UpdatesOK, Update
  <2>3. \A h \in Hands : Carries(In(h)') =>
          In(h)'.update \in Update /\ In(h)'.update.revision <= revision'
    BY <1>1, <1>2, <1>6
  <2>4. \A i \in 1 .. Len(queue') : queue'[i].revision <= revision'
    BY <1>3, <1>4
  <2>5. pending' # NoUpdate => pending' \in Update /\ pending'.revision <= revision'
    BY <1>3, <1>5 DEF UpdatesOK
  <2> QED  BY <1>7, <1>8, <2>1, <2>2, <2>3, <2>4, <2>5 DEF UpdatesOK, Carries
<1>10. DeliveryOK'
  <2>1. Newest(x)'
    BY <1>2 DEF Newest, Carries
  <2>2. processed' # revision'
    BY <1>3 DEF UpdatesOK
  <2>3. \A i \in 1 .. Len(queue') : IsCurrent(queue[i])'
    BY <1>3, <1>4 DEF IsCurrent
  <2>4. pending' # NoUpdate => IsCurrent(pending)'
    BY <1>3, <1>5 DEF IsCurrent
  <2>5. \A h \in Hands : Carries(In(h)') => IsCurrent(In(h).update)'
    BY <1>1, <1>2, <1>6 DEF IsCurrent
  <2>6. login'.phase = "applying" => IsCurrent(login.update)'
    BY <1>3 DEF UpdatesOK, IsCurrent, Update
  <2> QED  BY <2>1, <2>2, <2>3, <2>4, <2>5, <2>6 DEF DeliveryOK, Carries
<1> QED  BY <1>9, <1>10

\* Somebody hands an update over, unless a newer one is stamped.
LEMMA FlowDispatched ==
  ASSUME FlowOK, NEW x \in Hands, Carries(In(x)), Dispatched(In(x).update),
         ~Carries(In(x)'), \A h \in Hands \ {x} : In(h)' = In(h),
         UNCHANGED <<current, revision, applied, processed, queue>>,
         login'.phase = "applying" => login' = login \/ login'.update = In(x).update,
         login.phase = "applying" => login' = login
  PROVE  FlowOK'
<1> USE DEF FlowOK
<1> DEFINE u == In(x).update
<1>1. u \in Update /\ u.revision <= revision /\ u.revision \in Nat /\ revision \in Nat
  BY DEF UpdatesOK, Update
<1>2. pending' = IF u.revision < revision THEN pending ELSE u
  BY DEF Dispatched
<1>3. u.revision = revision => Newest(x) /\ Older(revision)
  BY DEF Newest, UpdatesOK
<1>4. \A h \in Hands : Newest(h)' => h # x /\ Newest(h)
  BY DEF Newest, Carries
<1>5. \A h \in Hands : Newest(h)' => pending' = pending
  BY <1>1, <1>2, <1>3, <1>4 DEF UpdatesOK
<1> HIDE DEF u
<1>6. pending' # NoUpdate =>
        /\ pending' \in Update /\ pending'.revision <= revision
        /\ \A i \in 1 .. Len(queue) : queue[i].revision < pending'.revision
  <2>1. CASE u.revision < revision
    BY <1>2, <2>1 DEF UpdatesOK
  <2>2. CASE u.revision = revision
    BY <1>1, <1>2, <1>3, <2>2 DEF Older
  <2> QED  BY <1>1, <2>1, <2>2
<1>7. \A h \in Hands : Newest(h)' => Older(revision)'
  <2> SUFFICES ASSUME NEW h \in Hands, Newest(h)' PROVE Older(revision)'
    OBVIOUS
  <2>1. Newest(h) /\ pending' = pending
    BY <1>4, <1>5
  <2> QED  BY <2>1 DEF UpdatesOK, Older
<1>8. \A h, k \in Hands : Newest(h)' /\ Newest(k)' => h = k
  BY <1>4 DEF UpdatesOK
<1>9. \A h \in Hands : Carries(In(h)') => In(h)' = In(h)
  OBVIOUS
<1>10. login'.phase = "applying" => login'.update \in Update /\ login'.update.revision <= revision
  <2>1. CASE login' = login
    BY <2>1 DEF UpdatesOK
  <2>2. CASE login'.update = u
    BY <1>1, <2>2
  <2> QED  BY <2>1, <2>2 DEF u
<1>11. UpdatesOK'
  BY <1>6, <1>7, <1>8, <1>9, <1>10 DEF UpdatesOK, Carries
<1>12. DeliveryOK'
  <2> SUFFICES ASSUME revision # 0 PROVE DeliveryOK'
    BY DEF DeliveryOK
  <2>1. IsCurrent(u)
    BY DEF DeliveryOK, u
  <2>2. pending' # NoUpdate => IsCurrent(pending)'
    BY <1>2, <2>1 DEF DeliveryOK, IsCurrent
  <2>3. login'.phase = "applying" => IsCurrent(login.update)'
    <3>1. CASE login' = login
      BY <3>1 DEF DeliveryOK, IsCurrent
    <3>2. CASE login'.update = u
      BY <2>1, <3>2 DEF IsCurrent
    <3> QED  BY <3>1, <3>2 DEF u
  <2>4. \A h \in Hands : Carries(In(h))' => IsCurrent(In(h).update)'
    BY <1>9 DEF DeliveryOK, IsCurrent, Carries
  <2>5. \A i \in 1 .. Len(queue') : IsCurrent(queue[i])'
    BY DEF DeliveryOK, IsCurrent
  <2>6. \/ processed' = revision'
        \/ \E i \in 1 .. Len(queue') : queue'[i].revision = revision'
        \/ pending' # NoUpdate /\ pending'.revision = revision'
        \/ \E h \in Hands : Newest(h)'
        \/ login'.phase = "applying" /\ login'.update.revision = revision'
    <3>1. CASE u.revision = revision
      <4>1. pending' = u /\ u # NoUpdate
        <5>1. pending' = u
          BY <1>1, <1>2, <3>1
        <5>2. u # NoUpdate
          <6>1. NoUpdate.revision = 0
            BY DEF NoUpdate
          <6> QED  BY <3>1, <6>1
        <5> QED  BY <5>1, <5>2
      <4> QED  BY <3>1, <4>1
    <3>2. CASE u.revision # revision
      <4>1. pending' = pending
        BY <1>1, <1>2, <3>2
      <4>2. \A h \in Hands : Newest(h) => Newest(h)'
        BY <3>2 DEF Newest, Carries, u
      <4> QED  BY <4>1, <4>2 DEF DeliveryOK
    <3> QED  BY <3>1, <3>2
  <2> QED  BY <2>2, <2>3, <2>4, <2>5, <2>6 DEF DeliveryOK
<1> QED  BY <1>11, <1>12

\* What has its revision is what the watcher believes, and the service takes what is newer.
LEMMA AppliedMoves ==
  ASSUME FlowOK, NEW u \in Update, u.revision <= revision, revision # 0 => IsCurrent(u), Applied(u),
         UNCHANGED <<current, revision>>
  PROVE  /\ processed' \in Nat /\ processed' <= revision /\ processed <= processed'
         /\ revision # 0 => (processed' = revision => applied' = current)
         /\ u.revision = revision => processed' = revision
         /\ revision # 0 => (processed = revision => processed' = revision)
<1> USE DEF FlowOK
<1>1. u.revision \in Nat /\ processed \in Nat /\ revision \in Nat /\ processed <= revision
  BY DEF Update, UpdatesOK
<1>2. CASE u.revision <= processed
  <2>1. processed' = processed /\ applied' = applied
    BY <1>2 DEF Applied, serviceVars
  <2> QED  BY <1>1, <1>2, <2>1 DEF DeliveryOK
<1>3. CASE ~(u.revision <= processed)
  <2>1. processed' = u.revision /\ applied' = u.auth
    BY <1>3 DEF Applied
  <2> QED  BY <1>1, <1>3, <2>1 DEF IsCurrent
<1> QED  BY <1>2, <1>3

LEMMA FlowApplyLogin ==
  ASSUME FlowOK, ApplyLogin, \A h \in Hands : Carries(In(h)') \/ Carries(In(h)) => In(h)' = In(h)
  PROVE  FlowOK'
<1> USE DEF FlowOK
<1>1. /\ login.phase = "applying" /\ Applied(login.update) /\ login'.phase = "idle"
      /\ UNCHANGED <<current, revision, queue, pending>>
  BY DEF ApplyLogin, Idle, stateVars
<1>2. login.update \in Update /\ login.update.revision <= revision
  BY <1>1 DEF UpdatesOK
<1>3. revision # 0 => IsCurrent(login.update)
  BY <1>1 DEF DeliveryOK
<1>4. /\ processed' \in Nat /\ processed' <= revision
      /\ revision # 0 => (processed' = revision => applied' = current)
      /\ login.update.revision = revision => processed' = revision
      /\ revision # 0 => (processed = revision => processed' = revision)
  BY <1>1, <1>2, <1>3, AppliedMoves
<1>5. \A h \in Hands : (Newest(h)' <=> Newest(h)) /\ (Carries(In(h))' <=> Carries(In(h)))
  BY <1>1 DEF Newest, Carries
<1>6. \A r : Older(r)' <=> Older(r)
  BY <1>1 DEF Older
<1>7. UpdatesOK'
  BY <1>1, <1>4, <1>5, <1>6 DEF UpdatesOK, Carries
<1>8. DeliveryOK'
  BY <1>1, <1>4, <1>5 DEF DeliveryOK, IsCurrent, Carries
<1> QED  BY <1>7, <1>8

LEMMA FlowConsume ==
  ASSUME FlowOK, ConsumeAuthUpdate
  PROVE  FlowOK'
<1> USE DEF FlowOK
<1> DEFINE q == queue
           u == Head(q)
<1>1. /\ q # <<>> /\ Applied(u) /\ queue' = Tail(q)
      /\ UNCHANGED <<current, revision, pending, handler, login, scan>>
  BY DEF ConsumeAuthUpdate, stateVars, handlerVars, scanVars
<1>2. q \in Seq(Update) /\ 1 \in 1 .. Len(q) /\ u = q[1]
  BY <1>1 DEF UpdatesOK
<1>3. /\ Tail(q) \in Seq(Update) /\ Len(q) \in Nat /\ Len(Tail(q)) = Len(q) - 1
      /\ \A i \in 1 .. Len(Tail(q)) : i + 1 \in 1 .. Len(q) /\ Tail(q)[i] = q[i + 1]
  BY <1>1, <1>2
<1>4. u \in Update /\ u.revision <= revision
  BY <1>2, QueuedUpdates DEF UpdatesOK
<1>5. revision # 0 => IsCurrent(u)
  BY <1>2 DEF DeliveryOK
<1>6. /\ processed' \in Nat /\ processed' <= revision
      /\ revision # 0 => (processed' = revision => applied' = current)
      /\ u.revision = revision => processed' = revision
      /\ revision # 0 => (processed = revision => processed' = revision)
  BY <1>1, <1>4, <1>5, AppliedMoves
<1>7. \A h \in Hands : In(h)' = In(h)
  BY <1>1 DEF In
<1>8. \A h \in Hands : (Newest(h)' <=> Newest(h)) /\ (Carries(In(h))' <=> Carries(In(h)))
  BY <1>1, <1>7 DEF Newest, Carries
<1>9. \A i \in 1 .. Len(queue') : \E k \in 1 .. Len(q) : queue'[i] = q[k]
  BY <1>1, <1>3
<1>10. \A i, j \in 1 .. Len(queue') : i < j => queue'[i].revision < queue'[j].revision
  <2> SUFFICES ASSUME NEW i \in 1 .. Len(Tail(q)), NEW j \in 1 .. Len(Tail(q)), i < j
               PROVE  Tail(q)[i].revision < Tail(q)[j].revision
    BY <1>1
  <2>1. i + 1 \in 1 .. Len(q) /\ j + 1 \in 1 .. Len(q) /\ i + 1 < j + 1
    BY <1>3
  <2>2. q[i + 1].revision < q[j + 1].revision
    BY <2>1 DEF UpdatesOK
  <2> QED  BY <1>3, <2>2
<1>11. \A r : Older(r) => Older(r)'
  BY <1>1, <1>9 DEF Older
<1>12. \A i \in 1 .. Len(queue') : queue'[i].revision <= revision
  BY <1>9 DEF UpdatesOK
<1>13. pending' # NoUpdate => \A i \in 1 .. Len(queue') : queue'[i].revision < pending'.revision
  BY <1>1, <1>9 DEF UpdatesOK
<1>14. queue' \in Seq(Update)
  BY <1>1, <1>3
<1>15. \A i \in 1 .. Len(q) : i = 1 \/ \E k \in 1 .. Len(queue') : queue'[k] = q[i]
  <2> SUFFICES ASSUME NEW i \in 1 .. Len(q), i # 1
               PROVE  \E k \in 1 .. Len(Tail(q)) : Tail(q)[k] = q[i]
    BY <1>1
  <2>1. i - 1 \in 1 .. Len(Tail(q)) /\ (i - 1) + 1 = i
    BY <1>3
  <2>2. Tail(q)[i - 1] = q[i]
    BY <1>3, <2>1
  <2> QED  BY <2>1, <2>2
<1> HIDE DEF q, u
<1>16. UpdatesOK'
  <2>1. \A h \in Hands : Newest(h)' => Older(revision)'
    BY <1>1, <1>8, <1>11 DEF UpdatesOK
  <2>2. \A h \in Hands : Carries(In(h))' =>
          In(h)'.update \in Update /\ In(h)'.update.revision <= revision'
    BY <1>1, <1>7, <1>8 DEF UpdatesOK
  <2> QED  BY <1>1, <1>6, <1>8, <1>10, <1>12, <1>13, <1>14, <2>1, <2>2 DEF UpdatesOK
<1>17. DeliveryOK'
  <2> SUFFICES ASSUME revision # 0 PROVE DeliveryOK'
    BY <1>1 DEF DeliveryOK
  <2>1. \A i \in 1 .. Len(queue') : IsCurrent(queue[i])'
    <3>1. \A i \in 1 .. Len(q) : IsCurrent(q[i])
      BY DEF DeliveryOK, q
    <3> QED  BY <1>1, <1>9, <3>1 DEF IsCurrent
  <2>2. \A h \in Hands : Carries(In(h))' => IsCurrent(In(h).update)'
    BY <1>1, <1>7, <1>8 DEF DeliveryOK, IsCurrent
  <2>3. \/ processed' = revision'
        \/ \E i \in 1 .. Len(queue') : queue'[i].revision = revision'
        \/ pending' # NoUpdate /\ pending'.revision = revision'
        \/ \E h \in Hands : Newest(h)'
        \/ login'.phase = "applying" /\ login'.update.revision = revision'
    <3>1. CASE \E i \in 1 .. Len(queue) : queue[i].revision = revision
      <4>1. PICK i \in 1 .. Len(q) : q[i].revision = revision
        BY <3>1 DEF q
      <4>2. CASE i = 1
        BY <1>1, <1>2, <1>6, <4>1, <4>2
      <4>3. CASE i # 1
        BY <1>1, <1>15, <4>1, <4>3
      <4> QED  BY <4>2, <4>3
    <3>2. CASE ~\E i \in 1 .. Len(queue) : queue[i].revision = revision
      BY <1>1, <1>6, <1>8, <3>2 DEF DeliveryOK
    <3> QED  BY <3>1, <3>2
  <2> QED  BY <1>1, <1>6, <2>1, <2>2, <2>3 DEF DeliveryOK, IsCurrent
<1> QED  BY <1>16, <1>17

LEMMA FlowLoop ==
  ASSUME FlowOK, DispatchLoop
  PROVE  FlowOK'
<1> USE DEF FlowOK
<1> DEFINE q == queue
<1>1. /\ pending # NoUpdate /\ queue' = Append(q, pending) /\ pending' = NoUpdate
      /\ UNCHANGED <<current, revision, applied, processed, handler, login, scan>>
  BY DEF DispatchLoop, stateVars, handlerVars, scanVars, serviceVars
<1>2. q \in Seq(Update) /\ pending \in Update /\ pending.revision <= revision
  BY <1>1 DEF UpdatesOK
<1>3. /\ Append(q, pending) \in Seq(Update) /\ Len(q) \in Nat
      /\ Len(Append(q, pending)) = Len(q) + 1
      /\ \A i \in 1 .. Len(q) : Append(q, pending)[i] = q[i]
      /\ Append(q, pending)[Len(q) + 1] = pending
  BY <1>2
<1>4. \A i \in 1 .. Len(queue') : (i \in 1 .. Len(q) /\ queue'[i] = q[i])
                                 \/ (i = Len(q) + 1 /\ queue'[i] = pending)
  BY <1>1, <1>3
<1>5. \A h \in Hands : In(h)' = In(h)
  BY <1>1 DEF In
<1>6. \A h \in Hands : (Newest(h)' <=> Newest(h)) /\ (Carries(In(h))' <=> Carries(In(h)))
  BY <1>1, <1>5 DEF Newest, Carries
<1>7. \A i, j \in 1 .. Len(queue') : i < j => queue'[i].revision < queue'[j].revision
  <2> SUFFICES ASSUME NEW i \in 1 .. Len(queue'), NEW j \in 1 .. Len(queue'), i < j
               PROVE  queue'[i].revision < queue'[j].revision
    OBVIOUS
  <2>1. i \in 1 .. Len(q) /\ queue'[i] = q[i]
    <3>1. Len(queue') = Len(q) + 1
      BY <1>1, <1>3
    <3>2. i # Len(q) + 1
      BY <1>3, <3>1
    <3> QED  BY <1>4, <3>2
  <2>2. CASE j \in 1 .. Len(q) /\ queue'[j] = q[j]
    BY <2>1, <2>2 DEF UpdatesOK
  <2>3. CASE queue'[j] = pending
    BY <1>1, <2>1, <2>3 DEF UpdatesOK
  <2> QED  BY <1>4, <2>2, <2>3
<1>8. \A i \in 1 .. Len(queue') : queue'[i].revision <= revision
  BY <1>2, <1>4 DEF UpdatesOK
<1>9. \A h \in Hands : Newest(h)' => Older(revision)'
  <2> SUFFICES ASSUME Older(revision) PROVE Older(revision)'
    BY <1>6 DEF UpdatesOK
  <2> QED  BY <1>1, <1>4 DEF Older
<1>10. \A i \in 1 .. Len(q) : i \in 1 .. Len(queue') /\ queue'[i] = q[i]
  BY <1>1, <1>3
<1>11. Len(q) + 1 \in 1 .. Len(queue') /\ queue'[Len(q) + 1] = pending
  BY <1>1, <1>3
<1>12. queue' \in Seq(Update)
  BY <1>1, <1>3
<1> HIDE DEF q
<1>13. UpdatesOK'
  <2>1. \A h \in Hands : Carries(In(h))' =>
          In(h)'.update \in Update /\ In(h)'.update.revision <= revision'
    BY <1>1, <1>5, <1>6 DEF UpdatesOK
  <2> QED  BY <1>1, <1>6, <1>7, <1>8, <1>9, <1>12, <2>1 DEF UpdatesOK
<1>14. DeliveryOK'
  <2> SUFFICES ASSUME revision # 0 PROVE DeliveryOK'
    BY <1>1 DEF DeliveryOK
  <2>1. \A i \in 1 .. Len(queue') : IsCurrent(queue[i])'
    <3>1. IsCurrent(pending) /\ \A i \in 1 .. Len(q) : IsCurrent(q[i])
      BY <1>1 DEF DeliveryOK, q
    <3> QED  BY <1>1, <1>4, <3>1 DEF IsCurrent
  <2>2. \A h \in Hands : Carries(In(h))' => IsCurrent(In(h).update)'
    BY <1>1, <1>5, <1>6 DEF DeliveryOK, IsCurrent
  <2>3. \/ processed' = revision'
        \/ \E i \in 1 .. Len(queue') : queue'[i].revision = revision'
        \/ \E h \in Hands : Newest(h)'
        \/ login'.phase = "applying" /\ login'.update.revision = revision'
    BY <1>1, <1>6, <1>10, <1>11 DEF DeliveryOK, q
  <2> QED  BY <1>1, <2>1, <2>2, <2>3 DEF DeliveryOK, IsCurrent
<1> QED  BY <1>13, <1>14

-----------------------------------------------------------------------------
(***************************************************************************)
(* Types, and which updates each step moves.                               *)
(***************************************************************************)
TypesOK ==
  /\ {file, current, applied} \subseteq Snapshot
  /\ hash \in Contents \cup {Unknown, Unparsed}
  /\ known \in BOOLEAN
  /\ handler.phase = "parsed" => handler.auth \in Snapshot /\ Present(handler.auth)
  /\ login.phase = "saved" => login.auth \in Snapshot
  /\ DOMAIN scan = Scans
  /\ \A s \in Scans : scan[s].phase \in {"caching", "read"} => scan[s].auth \in Snapshot

WatchOK == TypesOK /\ FlowOK

\* Only the handler, only the login, or only one scan goes on.
LEMMA HandlerMoves ==
  ASSUME UNCHANGED <<login, scan>>
  PROVE  /\ <<"handler", 0>> \in Hands
         /\ In(<<"handler", 0>>) = handler /\ In(<<"handler", 0>>)' = handler'
         /\ \A h \in Hands \ {<<"handler", 0>>} : In(h)' = In(h)
BY DEF Hands, In

LEMMA LoginMoves ==
  ASSUME UNCHANGED <<handler, scan>>
  PROVE  /\ <<"login", 0>> \in Hands
         /\ In(<<"login", 0>>) = login /\ In(<<"login", 0>>)' = login'
         /\ \A h \in Hands \ {<<"login", 0>>} : In(h)' = In(h)
BY DEF Hands, In

LEMMA OneHandMoves ==
  ASSUME NEW s \in Scans, NEW x, DOMAIN scan = Scans, scan' = [scan EXCEPT ![s] = x],
         UNCHANGED <<handler, login>>
  PROVE  /\ <<"scan", s>> \in Hands
         /\ In(<<"scan", s>>) = scan[s] /\ In(<<"scan", s>>)' = x
         /\ \A h \in Hands \ {<<"scan", s>>} : In(h)' = In(h)
<1>1. scan'[s] = x /\ \A t \in Scans \ {s} : scan'[t] = scan[t]
  OBVIOUS
<1>2. ASSUME NEW h \in Hands \ {<<"scan", s>>}
      PROVE  In(h)' = In(h)
  <2>1. CASE h = <<"handler", 0>>
    BY <2>1 DEF In
  <2>2. CASE h = <<"login", 0>>
    BY <2>2 DEF In
  <2>3. ASSUME NEW t \in Scans, h = <<"scan", t>>
        PROVE  In(h)' = In(h)
    BY <1>1, <1>2, <2>3 DEF In
  <2> QED  BY <1>2, <2>1, <2>2, <2>3 DEF Hands
<1>3. <<"scan", s>> \in Hands
  BY DEF Hands
<1> QED  BY <1>1, <1>2, <1>3 DEF In

LEMMA EventFlows == WatchOK /\ EventStep => FlowOK'
<1> SUFFICES ASSUME WatchOK, EventStep PROVE FlowOK'
  OBVIOUS
<1> DEFINE me == <<"handler", 0>>
<1>0. /\ UNCHANGED <<login, scan, applied, processed, queue>>
      /\ FlowOK /\ file \in Snapshot
  BY DEF WatchOK, TypesOK, EventStep, TakeEvent, CheckFile, IgnoreRemoval, RemoveClient, ReadFile,
         PublishFile, DispatchEvent, WindowPasses, scanVars, serviceVars
<1>1. /\ me \in Hands
      /\ In(me) = handler /\ In(me)' = handler'
      /\ \A h \in Hands \ {me} : In(h)' = In(h)
  BY <1>0, HandlerMoves
<1> HIDE DEF me
<1>2. CASE /\ UNCHANGED <<current, revision, pending>>
           /\ \/ handler.phase # "dispatching" /\ handler'.phase # "dispatching"
              \/ handler' = handler
  <2>1. \A h \in Hands : Carries(In(h)') \/ Carries(In(h)) => In(h)' = In(h)
    BY <1>1, <1>2 DEF Carries
  <2> QED  BY <1>0, <1>2, <2>1, FlowUntouched
<1>3. ASSUME NEW snapshot \in Snapshot, Published(snapshot), handler' = Dispatching(snapshot),
             UNCHANGED pending
      PROVE  FlowOK'
  BY <1>0, <1>1, <1>3, FlowPublished
<1>4. CASE TakeEvent
  BY <1>2, <1>4 DEF TakeEvent, stateVars
<1>5. CASE CheckFile
  BY <1>2, <1>5 DEF CheckFile, stateVars, Idle
<1>6. CASE IgnoreRemoval
  BY <1>2, <1>6 DEF IgnoreRemoval, stateVars, Idle
<1>7. CASE RemoveClient
  <2>1. CASE known
    BY <1>0, <1>3, <1>7, <2>1 DEF RemoveClient
  <2>2. CASE ~known
    BY <1>2, <1>7, <2>2 DEF RemoveClient, stateVars, Idle
  <2> QED  BY <2>1, <2>2
<1>8. CASE ReadFile
  BY <1>2, <1>8 DEF ReadFile, stateVars, Idle
<1>9. CASE PublishFile
  <2>1. handler.auth \in Snapshot
    BY <1>9 DEF PublishFile, WatchOK, TypesOK
  <2>2. CASE Differ(current, handler.auth)
    BY <1>3, <1>9, <2>1, <2>2 DEF PublishFile
  <2>3. CASE ~Differ(current, handler.auth)
    BY <1>2, <1>9, <2>3 DEF PublishFile, stateVars, Idle
  <2> QED  BY <2>2, <2>3
<1>10. CASE DispatchEvent
  <2>1. Carries(In(me)) /\ Dispatched(In(me).update) /\ ~Carries(In(me)')
    BY <1>1, <1>10 DEF DispatchEvent, Carries, Idle
  <2>2. UNCHANGED <<current, revision>>
    BY <1>10 DEF DispatchEvent, stateVars
  <2> QED  BY <1>0, <1>1, <2>1, <2>2, FlowDispatched
<1>11. CASE WindowPasses
  BY <1>2, <1>11 DEF WindowPasses, stateVars
<1> QED
  BY <1>4, <1>5, <1>6, <1>7, <1>8, <1>9, <1>10, <1>11 DEF EventStep

LEMMA FileFlows == WatchOK /\ FileStep => FlowOK'
<1> SUFFICES ASSUME WatchOK, FileStep PROVE FlowOK'
  OBVIOUS
<1>1. PICK content, event : UserChanges(content, event)
  BY DEF FileStep, UserWrites, UserDeletes, UserReplaces
<1>2. UNCHANGED <<handler, login, scan, current, revision, applied, processed, queue, pending>>
  BY <1>1 DEF UserChanges, stateVars, scanVars, serviceVars
<1>3. \A h \in Hands : In(h)' = In(h)
  BY <1>2 DEF In
<1> QED  BY <1>2, <1>3, FlowUntouched DEF WatchOK

LEMMA ReloadFlows ==
  ASSUME WatchOK, NEW s \in Scans, ReloadStep(s)
  PROVE  FlowOK'
<1> DEFINE me == <<"scan", s>>
<1>0. /\ UNCHANGED <<handler, login, applied, processed, queue>>
      /\ FlowOK /\ DOMAIN scan = Scans /\ current \in Snapshot
  BY DEF WatchOK, TypesOK, ReloadStep, BeginCaching, FinishCaching, BeginScan, ReadScan,
         PublishScan, DispatchScan, handlerVars, serviceVars
<1>1. ASSUME NEW x, ScanStep(s, x)
      PROVE  /\ me \in Hands
             /\ In(me) = scan[s] /\ In(me)' = x
             /\ \A h \in Hands \ {me} : In(h)' = In(h)
  <2>1. scan' = [scan EXCEPT ![s] = x]
    BY <1>1 DEF ScanStep
  <2> QED  BY <1>0, <2>1, OneHandMoves
<1> HIDE DEF me
<1>2. ASSUME NEW x, ScanStep(s, x), UNCHANGED <<current, revision, pending>>,
             scan[s].phase # "dispatching", x.phase # "dispatching"
      PROVE  FlowOK'
  <2>1. \A h \in Hands : Carries(In(h)') \/ Carries(In(h)) => In(h)' = In(h)
    BY <1>1, <1>2 DEF Carries
  <2> QED  BY <1>0, <1>2, <2>1, FlowUntouched
<1>3. CASE BeginCaching(s)
  <2> DEFINE x == [phase |-> "caching", auth |-> file]
  <2>1. ScanStep(s, x) /\ UNCHANGED <<current, revision, pending>> /\ scan[s].phase = "starting"
    BY <1>3 DEF BeginCaching, stateVars
  <2>2. x.phase = "caching"
    OBVIOUS
  <2> HIDE DEF x
  <2> QED  BY <1>2, <2>1, <2>2
<1>4. CASE FinishCaching(s)
  <2> DEFINE x == [phase |-> "reloading"]
  <2>1. ScanStep(s, x) /\ UNCHANGED <<current, revision, pending>> /\ scan[s].phase = "caching"
    BY <1>4 DEF FinishCaching, stateVars
  <2>2. x.phase = "reloading"
    OBVIOUS
  <2> HIDE DEF x
  <2> QED  BY <1>2, <2>1, <2>2
<1>5. CASE BeginScan(s)
  <2> DEFINE x == [phase |-> "begun", revision |-> revision, observed |-> observed]
  <2>1. /\ ScanStep(s, x) /\ UNCHANGED <<current, revision, pending>>
        /\ scan[s].phase \in {"reloading", "idle"}
    BY <1>5 DEF BeginScan, stateVars
  <2>2. x.phase = "begun"
    OBVIOUS
  <2> HIDE DEF x
  <2> QED  BY <1>2, <2>1, <2>2
<1>6. CASE ReadScan(s)
  <2> DEFINE x == [phase |-> "read", revision |-> scan[s].revision,
                   observed |-> scan[s].observed, auth |-> file]
  <2>1. ScanStep(s, x) /\ UNCHANGED <<current, revision, pending>> /\ scan[s].phase = "begun"
    BY <1>6 DEF ReadScan, stateVars
  <2>2. x.phase = "read"
    OBVIOUS
  <2> HIDE DEF x
  <2> QED  BY <1>2, <2>1, <2>2
<1>7. CASE PublishScan(s)
  <2> DEFINE auth == IF changedDuringScan(s) THEN current ELSE scan[s].auth
  <2>1. auth \in Snapshot
    <3>1. scan[s].auth \in Snapshot
      BY <1>7 DEF PublishScan, WatchOK, TypesOK
    <3> QED  BY <1>0, <3>1
  <2>2. \/ Published(auth) /\ ScanStep(s, Dispatching(auth))
        \/ UNCHANGED <<current, revision>> /\ ScanStep(s, Idle)
    BY <1>7 DEF PublishScan, stateVars
  <2>3. UNCHANGED pending /\ scan[s].phase = "read"
    BY <1>7 DEF PublishScan
  <2> HIDE DEF auth
  <2>4. CASE Published(auth) /\ ScanStep(s, Dispatching(auth))
    BY <1>0, <1>1, <2>1, <2>3, <2>4, FlowPublished
  <2>5. CASE UNCHANGED <<current, revision>> /\ ScanStep(s, Idle)
    <3>1. Idle.phase = "idle"
      BY DEF Idle
    <3> QED  BY <1>2, <2>3, <2>5, <3>1
  <2> QED  BY <2>2, <2>4, <2>5
<1>8. CASE DispatchScan(s)
  <2>1. /\ ScanStep(s, Idle) /\ Dispatched(scan[s].update) /\ scan[s].phase = "dispatching"
        /\ UNCHANGED <<current, revision>>
    BY <1>8 DEF DispatchScan, stateVars
  <2>2. /\ me \in Hands
        /\ In(me) = scan[s] /\ In(me)' = Idle
        /\ \A h \in Hands \ {me} : In(h)' = In(h)
    BY <1>1, <2>1
  <2>3. Carries(In(me)) /\ Dispatched(In(me).update) /\ ~Carries(In(me)')
    BY <2>1, <2>2 DEF Carries, Idle
  <2> QED  BY <1>0, <2>1, <2>2, <2>3, FlowDispatched
<1> QED  BY <1>3, <1>4, <1>5, <1>6, <1>7, <1>8 DEF ReloadStep

LEMMA ServiceFlows == WatchOK /\ ServiceStep => FlowOK'
<1> SUFFICES ASSUME WatchOK, ServiceStep PROVE FlowOK'
  OBVIOUS
<1> DEFINE me == <<"login", 0>>
<1>0. FlowOK /\ UNCHANGED <<handler, scan>>
  BY DEF WatchOK, ServiceStep, SaveLogin, PublishLogin, DispatchLogin, ApplyLogin, DispatchLoop,
         ConsumeAuthUpdate, handlerVars, scanVars
<1>1. /\ me \in Hands
      /\ In(me) = login /\ In(me)' = login'
      /\ \A h \in Hands \ {me} : In(h)' = In(h)
  BY <1>0, LoginMoves
<1> HIDE DEF me
<1>2. CASE SaveLogin
  <2>1. /\ login.phase = "idle" /\ login'.phase = "saved"
        /\ UNCHANGED <<current, revision, applied, processed, queue, pending>>
    BY <1>2 DEF SaveLogin, stateVars, serviceVars
  <2>2. \A h \in Hands : Carries(In(h)') \/ Carries(In(h)) => In(h)' = In(h)
    BY <1>1, <2>1 DEF Carries
  <2> QED  BY <1>0, <2>1, <2>2, FlowUntouched
<1>3. CASE PublishLogin
  <2>1. login.auth \in Snapshot
    BY <1>3 DEF PublishLogin, WatchOK, TypesOK
  <2>2. /\ Published(login.auth) /\ In(me)' = Dispatching(login.auth)
        /\ UNCHANGED <<applied, processed, queue, pending>>
    BY <1>1, <1>3 DEF PublishLogin, serviceVars
  <2>3. login'.phase # "applying"
    BY <1>3 DEF PublishLogin, Dispatching
  <2> QED  BY <1>0, <1>1, <2>1, <2>2, <2>3, FlowPublished
<1>4. CASE DispatchLogin
  <2>1. /\ login.phase = "dispatching" /\ Dispatched(login.update)
        /\ login'.phase = "applying" /\ login'.update = login.update
        /\ UNCHANGED <<current, revision, applied, processed, queue>>
    BY <1>4 DEF DispatchLogin, stateVars, serviceVars
  <2>2. Carries(In(me)) /\ ~Carries(In(me)')
    BY <1>1, <2>1 DEF Carries
  <2> QED  BY <1>0, <1>1, <2>1, <2>2, FlowDispatched
<1>5. CASE ApplyLogin
  <2>1. login.phase = "applying" /\ login'.phase = "idle"
    BY <1>5 DEF ApplyLogin, Idle
  <2>2. \A h \in Hands : Carries(In(h)') \/ Carries(In(h)) => In(h)' = In(h)
    BY <1>1, <2>1 DEF Carries
  <2> QED  BY <1>0, <1>5, <2>2, FlowApplyLogin
<1>6. CASE DispatchLoop
  BY <1>0, <1>6, FlowLoop
<1>7. CASE ConsumeAuthUpdate
  BY <1>0, <1>7, FlowConsume
<1> QED  BY <1>2, <1>3, <1>4, <1>5, <1>6, <1>7 DEF ServiceStep

LEMMA Written ==
  ASSUME TypesOK, NEW content \in Contents \cup {NoAuth}, Write(content)
  PROVE  file' \in Snapshot /\ file'.content = content /\ file'.age = file.age + 1
<1>1. file.age \in Nat
  BY DEF TypesOK, Snapshot
<1>2. file.age + 1 \in Nat
  BY <1>1
<1>3. file' = [content |-> content, age |-> file.age + 1]
  BY DEF Write
<1> QED  BY <1>2, <1>3 DEF Snapshot

LEMMA FileTypes == WatchOK /\ FileStep => TypesOK'
<1> SUFFICES ASSUME WatchOK, FileStep PROVE TypesOK'
  OBVIOUS
<1>1. PICK content \in Contents \cup {NoAuth}, event \in {"write", "remove"} :
        UserChanges(content, event)
  BY DEF FileStep, UserWrites, UserDeletes, UserReplaces
<1>2. /\ Write(content)
      /\ UNCHANGED <<handler, login, scan, current, applied, hash, known>>
  BY <1>1 DEF UserChanges, stateVars, scanVars, serviceVars, cacheVars
<1>3. file' \in Snapshot
  BY <1>2, Written DEF WatchOK
<1> QED  BY <1>2, <1>3 DEF WatchOK, TypesOK

LEMMA EventTypes == WatchOK /\ EventStep => TypesOK'
<1> SUFFICES ASSUME WatchOK, EventStep PROVE TypesOK'
  OBVIOUS
<1> USE DEF WatchOK, TypesOK
<1>1. UNCHANGED <<login, scan, file, applied>>
  BY DEF EventStep, TakeEvent, CheckFile, IgnoreRemoval, RemoveClient, ReadFile,
         PublishFile, DispatchEvent, WindowPasses, scanVars, serviceVars, fileVars
<1>2. ASSUME Observed PROVE hash' \in Contents \cup {Unknown, Unparsed}
  BY <1>2 DEF Observed
<1>3. ASSUME handler'.phase # "parsed" \/ handler' = handler, UNCHANGED <<current, known>>,
             hash' \in Contents \cup {Unknown, Unparsed}
      PROVE  TypesOK'
  BY <1>1, <1>3
<1>4. CASE TakeEvent
  BY <1>2, <1>3, <1>4 DEF TakeEvent, stateVars
<1>5. CASE CheckFile
  BY <1>2, <1>3, <1>5 DEF CheckFile, stateVars, Idle
<1>6. CASE IgnoreRemoval
  BY <1>3, <1>6 DEF IgnoreRemoval, stateVars, cacheVars, Idle
<1>7. CASE RemoveClient
  <2>1. current' \in Snapshot /\ handler'.phase # "parsed"
    BY <1>7 DEF RemoveClient, Published, stateVars, Dispatching, Idle
  <2>2. hash' = Unknown /\ known' = FALSE
    BY <1>7 DEF RemoveClient
  <2> QED  BY <1>1, <2>1, <2>2
<1>8. CASE ReadFile
  <2>1. UNCHANGED <<current, known>> 
    BY <1>8 DEF ReadFile, stateVars
  <2>2. file.content \in Contents \cup {NoAuth}
    BY DEF Snapshot
  <2>3. /\ hash' \in Contents \cup {Unknown, Unparsed}
        /\ handler'.phase = "parsed" => handler'.auth = file /\ Present(file)
    BY <1>8, <2>2 DEF ReadFile, Idle, Present
  <2> QED  BY <1>1, <2>1, <2>3 DEF Present
<1>9. CASE PublishFile
  <2>1. current' \in Snapshot /\ handler'.phase # "parsed"
    BY <1>9 DEF PublishFile, Published, stateVars, Dispatching, Idle
  <2>2. UNCHANGED hash /\ known' = TRUE
    BY <1>9 DEF PublishFile
  <2> QED  BY <1>1, <2>1, <2>2
<1>10. CASE DispatchEvent
  BY <1>3, <1>10 DEF DispatchEvent, stateVars, cacheVars, Idle
<1>11. CASE WindowPasses
  BY <1>3, <1>11 DEF WindowPasses, stateVars, cacheVars
<1> QED
  BY <1>4, <1>5, <1>6, <1>7, <1>8, <1>9, <1>10, <1>11 DEF EventStep

LEMMA ReloadTypes ==
  ASSUME WatchOK, NEW s \in Scans, ReloadStep(s)
  PROVE  TypesOK'
<1> USE DEF WatchOK, TypesOK
<1>1. UNCHANGED <<handler, login, file, applied>>
  BY DEF ReloadStep, BeginCaching, FinishCaching, BeginScan, ReadScan,
         PublishScan, DispatchScan, handlerVars, serviceVars, fileVars
<1>2. ASSUME NEW x, ScanStep(s, x), x.phase \in {"caching", "read"} => x.auth \in Snapshot,
             current' \in Snapshot, hash' \in Contents \cup {Unknown, Unparsed}, known' \in BOOLEAN
      PROVE  TypesOK'
  <2>1. scan' = [scan EXCEPT ![s] = x]
    BY <1>2 DEF ScanStep
  <2>2. DOMAIN scan' = Scans /\ \A t \in Scans : scan'[t] = IF t = s THEN x ELSE scan[t]
    BY <2>1
  <2> QED  BY <1>1, <1>2, <2>2
<1>3. CASE BeginCaching(s)
  <2> DEFINE x == [phase |-> "caching", auth |-> file]
  <2>1. ScanStep(s, x) /\ UNCHANGED <<current, hash, known>>
    BY <1>3 DEF BeginCaching, stateVars, cacheVars
  <2>2. x.auth \in Snapshot
    OBVIOUS
  <2> HIDE DEF x
  <2> QED  BY <1>2, <2>1, <2>2
<1>4. CASE FinishCaching(s)
  <2> DEFINE x == [phase |-> "reloading"]
  <2>1. ScanStep(s, x) /\ UNCHANGED current
    BY <1>4 DEF FinishCaching, stateVars
  <2>2. x.phase = "reloading"
    OBVIOUS
  <2>3. scan[s].auth \in Snapshot
    BY <1>4 DEF FinishCaching
  <2>4. hash' \in Contents \cup {Unknown, Unparsed} /\ known' \in BOOLEAN
    BY <1>4, <2>3 DEF FinishCaching, Snapshot, Present
  <2> HIDE DEF x
  <2> QED  BY <1>2, <2>1, <2>2, <2>4
<1>5. CASE BeginScan(s)
  <2> DEFINE x == [phase |-> "begun", revision |-> revision, observed |-> observed]
  <2>1. ScanStep(s, x) /\ UNCHANGED <<current, hash, known>>
    BY <1>5 DEF BeginScan, stateVars, cacheVars
  <2>2. x.phase = "begun"
    OBVIOUS
  <2> HIDE DEF x
  <2> QED  BY <1>2, <2>1, <2>2
<1>6. CASE ReadScan(s)
  <2> DEFINE x == [phase |-> "read", revision |-> scan[s].revision,
                   observed |-> scan[s].observed, auth |-> file]
  <2>1. ScanStep(s, x) /\ UNCHANGED <<current, hash, known>>
    BY <1>6 DEF ReadScan, stateVars, cacheVars
  <2>2. x.auth \in Snapshot
    OBVIOUS
  <2> HIDE DEF x
  <2> QED  BY <1>2, <2>1, <2>2
<1>7. CASE PublishScan(s)
  <2> DEFINE auth == IF changedDuringScan(s) THEN current ELSE scan[s].auth
  <2>1. auth \in Snapshot /\ UNCHANGED <<hash, known>>
    BY <1>7 DEF PublishScan, cacheVars
  <2>2. \/ Published(auth) /\ ScanStep(s, Dispatching(auth))
        \/ UNCHANGED <<current, revision>> /\ ScanStep(s, Idle)
    BY <1>7 DEF PublishScan, stateVars
  <2> HIDE DEF auth
  <2>3. Dispatching(auth).phase = "dispatching" /\ Idle.phase = "idle"
    BY DEF Dispatching, Idle
  <2> QED  BY <1>2, <2>1, <2>2, <2>3 DEF Published
<1>8. CASE DispatchScan(s)
  <2>1. ScanStep(s, Idle) /\ UNCHANGED <<current, hash, known>> /\ Idle.phase = "idle"
    BY <1>8 DEF DispatchScan, stateVars, cacheVars, Idle
  <2> QED  BY <1>2, <2>1
<1> QED  BY <1>3, <1>4, <1>5, <1>6, <1>7, <1>8 DEF ReloadStep

LEMMA ServiceTypes == WatchOK /\ ServiceStep => TypesOK'
<1> SUFFICES ASSUME WatchOK, ServiceStep PROVE TypesOK'
  OBVIOUS
<1> USE DEF WatchOK, TypesOK
<1>1. UNCHANGED <<handler, scan, hash>>
  BY DEF ServiceStep, SaveLogin, PublishLogin, DispatchLogin, ApplyLogin, DispatchLoop,
         ConsumeAuthUpdate, handlerVars, scanVars, cacheVars
<1>2. ASSUME NEW u \in Update, Applied(u)
      PROVE  applied' \in Snapshot
  BY <1>2 DEF Applied, serviceVars, Update
<1>3. CASE SaveLogin
  <2>1. PICK content \in Contents : Write(content)
    BY <1>3 DEF SaveLogin
  <2>2. file' \in Snapshot
    BY <2>1, Written
  <2>3. login'.auth = file' /\ UNCHANGED <<known, current, applied>>
    BY <1>3 DEF SaveLogin, cacheVars, stateVars, serviceVars
  <2> QED  BY <1>1, <2>2, <2>3
<1>4. CASE PublishLogin
  <2>1. /\ current' = login.auth /\ login.auth \in Snapshot
        /\ login'.phase = "dispatching" /\ known' = TRUE /\ UNCHANGED <<file, applied>>
    BY <1>4 DEF PublishLogin, Published, Dispatching, fileVars, serviceVars
  <2> QED  BY <1>1, <2>1
<1>5. ASSUME UNCHANGED <<file, current, known>>, login'.phase = "saved" => login' = login,
             applied' \in Snapshot
      PROVE  TypesOK'
  BY <1>1, <1>5
<1>6. CASE DispatchLogin
  BY <1>5, <1>6 DEF DispatchLogin, fileVars, stateVars, cacheVars, serviceVars
<1>7. CASE ApplyLogin
  <2>1. login.update \in Update /\ Applied(login.update) /\ login'.phase = "idle"
    BY <1>7 DEF ApplyLogin, FlowOK, UpdatesOK, Idle
  <2>2. UNCHANGED <<file, current, known>>
    BY <1>7 DEF ApplyLogin, fileVars, stateVars, cacheVars
  <2> QED  BY <1>2, <1>5, <2>1, <2>2
<1>8. CASE DispatchLoop
  BY <1>5, <1>8 DEF DispatchLoop, fileVars, stateVars, cacheVars, serviceVars
<1>9. CASE ConsumeAuthUpdate
  <2>1. Head(queue) \in Update
    <3>1. queue \in Seq(Update) /\ queue # <<>>
      BY <1>9 DEF ConsumeAuthUpdate, FlowOK, UpdatesOK
    <3> QED  BY <3>1
  <2>2. Applied(Head(queue)) /\ UNCHANGED <<file, current, known, login>>
    BY <1>9 DEF ConsumeAuthUpdate, fileVars, stateVars, cacheVars
  <2> QED  BY <1>2, <1>5, <2>1, <2>2
<1> QED  BY <1>3, <1>4, <1>6, <1>7, <1>8, <1>9 DEF ServiceStep

LEMMA StepWatch == WatchOK /\ [Next]_vars => WatchOK'
<1> SUFFICES ASSUME WatchOK, [Next]_vars PROVE WatchOK'
  OBVIOUS
<1>1. CASE FileStep
  BY <1>1, FileFlows, FileTypes DEF WatchOK
<1>2. CASE EventStep
  BY <1>2, EventFlows, EventTypes DEF WatchOK
<1>3. CASE \E s \in Scans : ReloadStep(s)
  BY <1>3, ReloadFlows, ReloadTypes DEF WatchOK
<1>4. CASE ServiceStep
  BY <1>4, ServiceFlows, ServiceTypes DEF WatchOK
<1>5. CASE UNCHANGED vars
  <2>1. UNCHANGED <<file, handler, login, scan, current, revision, applied, processed, hash, known,
                    queue, pending>>
    BY <1>5 DEF vars, fileVars, handlerVars, scanVars, stateVars, cacheVars, serviceVars
  <2>2. \A h \in Hands : In(h)' = In(h)
    BY <2>1 DEF In
  <2>3. FlowOK'
    BY <2>1, <2>2, FlowUntouched DEF WatchOK
  <2>4. TypesOK'
    BY <2>1 DEF WatchOK, TypesOK
  <2> QED  BY <2>3, <2>4 DEF WatchOK
<1> QED  BY <1>1, <1>2, <1>3, <1>4, <1>5 DEF Next

LEMMA InitWatch == Init => WatchOK
<1> SUFFICES ASSUME Init PROVE WatchOK
  OBVIOUS
<1>1. /\ {file, current, applied} \subseteq Snapshot
      /\ hash \in Contents \cup {Unknown, Unparsed} /\ known \in BOOLEAN
      /\ handler = Idle /\ login = Idle /\ revision = 0 /\ processed = 0
      /\ queue = <<>> /\ pending = NoUpdate
  <2> PICK content \in Contents \cup {NoAuth} :
         /\ file = [content |-> content, age |-> 0] /\ applied = [content |-> content, age |-> 0]
         /\ Running([content |-> content, age |-> 0]) \/ Starting
         /\ handler = Idle /\ login = Idle /\ revision = 0 /\ processed = 0
         /\ queue = <<>> /\ pending = NoUpdate
    BY DEF Init
  <2>1. CASE Running([content |-> content, age |-> 0])
    BY <2>1 DEF Running, Snapshot, Present
  <2>2. CASE Starting
    <3>1. /\ current = [content |-> NoAuth, age |-> 0]
          /\ hash = Unknown /\ known = FALSE
      BY <2>2 DEF Starting
    <3>2. {file, current, applied} \subseteq Snapshot
      BY <3>1 DEF Snapshot
    <3> QED  BY <3>1, <3>2
  <2> QED  BY <2>1, <2>2
<1>2. /\ DOMAIN scan = Scans
      /\ \A s \in Scans : scan[s].phase \in {"idle", "starting"}
  <2>1. CASE scan = [s \in Scans |-> Idle]
    BY <2>1 DEF Idle
  <2>2. CASE \E s \in Scans : scan = [[t \in Scans |-> Idle] EXCEPT ![s] = [phase |-> "starting"]]
    BY <2>2 DEF Idle
  <2> QED  BY <2>1, <2>2 DEF Init, Running, Starting
<1>3. \A h \in Hands : ~Carries(In(h))
  BY <1>1, <1>2 DEF Hands, In, Carries, Idle
<1>4. TypesOK
  BY <1>1, <1>2 DEF TypesOK, Idle
<1>5. FlowOK
  <2>1. Len(queue) = 0 /\ queue \in Seq(Update) /\ 1 .. Len(queue) = {}
    BY <1>1
  <2>2. UpdatesOK
    BY <1>1, <1>3, <2>1 DEF UpdatesOK, Newest, Idle
  <2>3. DeliveryOK
    BY <1>1 DEF DeliveryOK
  <2> QED  BY <2>2, <2>3 DEF FlowOK
<1> QED  BY <1>4, <1>5 DEF WatchOK

\* In every reachable state updates are in order on their way, the one stamped last is the last to
\* arrive, and it is what the watcher believes (dispatchAuthUpdates, handleAuthUpdates).
THEOREM UpdatesArriveInOrder == Spec => []WatchOK
BY InitWatch, StepWatch, PTL DEF Spec

\* Every variable has its type, and the queue is in order (queueAuthUpdate, handleAuthUpdates).
THEOREM WatchTyped == Spec => []WatchTypeOK
<1>1. WatchOK => WatchTypeOK
  <2> SUFFICES ASSUME WatchOK PROVE WatchTypeOK
    OBVIOUS
  <2>1. \A r \in Revisions(queue) : pending # NoUpdate => r < pending.revision
    BY DEF Revisions, WatchOK, FlowOK, UpdatesOK
  <2> QED  BY <2>1 DEF WatchTypeOK, WatchOK, TypesOK, FlowOK, UpdatesOK
<1> QED  BY <1>1, UpdatesArriveInOrder, PTL

-----------------------------------------------------------------------------
(***************************************************************************)
(* The file wins, when one reload at a time reads it.                      *)
(***************************************************************************)
\* A scan remembers what was observed before it.
ObservedOK ==
  /\ observed \in Nat
  /\ \A s \in Scans : scan[s].phase \in {"begun", "read"} =>
       scan[s].observed \in Nat /\ scan[s].observed <= observed

\* The last event is about the file as it is.
EventsOK ==
  /\ events \in Seq({"write", "remove"})
  /\ ~Present(file) =>
       /\ events # <<>> => events[Len(events)] = "remove"
       /\ handler.phase = "checking" /\ events = <<>> => handler.removal
       /\ handler.phase = "adding" => events # <<>>

\* What was parsed is known, and what is being published is what was parsed or saved.
CacheOK ==
  /\ \A s \in Scans : scan[s].phase = "caching" => handler.phase = "idle"
  /\ handler.phase = "parsed" =>
       hash = handler.auth.content /\ (Differ(handler.auth, file) => events # <<>>)
  /\ handler.phase # "parsed" /\ hash # Unknown => known
  /\ login.phase = "saved" /\ missed = {} => ~Differ(login.auth, file)

\* Who will publish what the file holds, or look at it.
Parsed == handler.phase = "parsed" /\ ~Differ(handler.auth, file)
Saved == login.phase = "saved"
Fresh(x) == x.revision = revision /\ x.observed = observed
WillScan(x) ==
  \/ x.phase \in {"starting", "caching", "reloading"}
  \/ x.phase = "begun" /\ Fresh(x)
  \/ x.phase = "read" /\ Fresh(x) /\ ~Differ(x.auth, file)
WillPublish == Parsed \/ Saved \/ \E s \in Scans : WillScan(scan[s])
Busy == events # <<>> \/ handler.phase \in {"checking", "adding"}

\* What a scan read and will publish although the file has changed since.
Outdated(x) == x.phase = "read" /\ Fresh(x) /\ Differ(x.auth, file)

\* A change of the file is still to be published, and what is outdated is published before it.
FollowsOK ==
  missed = {} =>
    /\ Differ(current, file) => WillPublish \/ Busy
    /\ Differ(current, file) /\ hash = file.content => WillPublish
    /\ \A s \in Scans : Outdated(scan[s]) =>
         Saved \/ (Differ(current, file) /\ (hash = file.content => Parsed))

\* Before anything is published, the service holds more than the watcher knows at the start only,
\* and if that file is gone then an event says so.
StartOK ==
  revision = 0 /\ Differ(applied, current) =>
    ~Present(current) /\ (missed = {} /\ ~Present(file) => Busy)

FollowOK == ObservedOK /\ EventsOK /\ CacheOK /\ FollowsOK /\ StartOK

OneScan == \A s, t \in Scans : s = t

LEMMA LastAppended ==
  ASSUME NEW S, NEW q \in Seq(S), NEW e \in S
  PROVE  LET p == Append(q, e)
         IN  p \in Seq(S) /\ p # <<>> /\ p[Len(p)] = e
OBVIOUS

LEMMA LastTaken ==
  ASSUME NEW S, NEW q \in Seq(S), q # <<>>
  PROVE  /\ Tail(q) \in Seq(S) /\ Head(q) \in S
         /\ Tail(q) = <<>> => q[Len(q)] = Head(q)
         /\ Tail(q) # <<>> => Tail(q)[Len(Tail(q))] = q[Len(q)]
<1>1. /\ Len(q) \in Nat /\ Len(q) >= 1 /\ Len(Tail(q)) = Len(q) - 1 /\ Tail(q) \in Seq(S)
      /\ Head(q) = q[1] /\ Head(q) \in S
      /\ \A i \in 1 .. Len(Tail(q)) : Tail(q)[i] = q[i + 1]
  <2>1. 1 \in 1 .. Len(q) /\ Len(q) \in Nat
    OBVIOUS
  <2>2. Tail(q) \in Seq(S) /\ Len(Tail(q)) = Len(q) - 1 /\ Head(q) = q[1]
    OBVIOUS
  <2>3. Head(q) \in S /\ Len(q) >= 1
    BY <2>1, <2>2
  <2>4. \A i \in 1 .. Len(Tail(q)) : Tail(q)[i] = q[i + 1]
    BY <2>1, <2>2
  <2> QED  BY <2>1, <2>2, <2>3, <2>4
<1> DEFINE t == Tail(q)
<1>2. t = <<>> => Len(t) = 0
  <2>1. Len(<<>>) = 0
    OBVIOUS
  <2> HIDE DEF t
  <2> QED  BY <2>1
<1>3. t # <<>> => Len(t) # 0
  <2>1. t \in Seq(S)
    BY <1>1
  <2> HIDE DEF t
  <2> QED  BY <2>1
<1> HIDE DEF t
<1>4. Len(t) # 0 => Len(t) \in 1 .. Len(t) /\ Len(t) + 1 = Len(q)
  BY <1>1 DEF t
<1>5. Len(t) # 0 => t[Len(t)] = q[Len(q)]
  BY <1>1, <1>4 DEF t
<1>6. Len(t) = 0 => q[Len(q)] = Head(q)
  <2>1. Len(t) = 0 => Len(q) = 1
    <3>1. Len(t) = Len(q) - 1 /\ Len(q) \in Nat
      BY <1>1 DEF t
    <3> HIDE DEF t
    <3> QED  BY <3>1
  <2> QED  BY <1>1, <2>1
<1> QED  BY <1>1, <1>2, <1>3, <1>5, <1>6 DEF t

\* The special hashes and no credential are no content.
LEMMA NoContent ==
  ASSUME TypesOK
  PROVE  /\ hash # NoAuth
         /\ file.content # Unknown /\ file.content # Unparsed
         /\ \A content \in Contents : content # NoAuth
BY NoAuthAssumption DEF TypesOK, Snapshot, Unknown, Unparsed

LEMMA FileFollows == WatchOK /\ FollowOK /\ FileStep => FollowOK'
<1> SUFFICES ASSUME WatchOK, FollowOK, FileStep PROVE FollowOK'
  OBVIOUS
<1> USE DEF WatchOK, FollowOK
<1>1. PICK content \in Contents \cup {NoAuth}, event \in {"write", "remove"} :
        UserChanges(content, event) /\ (content = NoAuth => event = "remove")
  <2>1. CASE UserWrites
    <3>1. PICK content \in Contents : UserChanges(content, "write")
      BY <2>1 DEF UserWrites
    <3> QED  BY <3>1, NoContent
  <2>2. CASE UserDeletes \/ UserReplaces
    BY <2>2 DEF UserDeletes, UserReplaces
  <2> QED  BY <2>1, <2>2 DEF FileStep
<1>2. /\ file'.content = content
      /\ events' = Append(events, event)
      /\ missed' = missed \cup Gaps(content)
      /\ UNCHANGED <<handler, hash, known, observed, current, revision, scan, login, applied>>
  BY <1>1, Written DEF UserChanges, cacheVars, stateVars, scanVars, serviceVars
<1>3. events' \in Seq({"write", "remove"}) /\ events' # <<>> /\ events'[Len(events')] = event
  <2>1. events \in Seq({"write", "remove"})
    BY DEF EventsOK
  <2> QED  BY <1>2, <2>1, LastAppended
<1>4. missed' = {} => content # hash /\ content # current.content /\ login.phase # "saved"
  BY <1>2 DEF Gaps
<1>5. ObservedOK'
  BY <1>2 DEF ObservedOK
<1>6. EventsOK'
  BY <1>1, <1>2, <1>3 DEF EventsOK, Present
<1>7. CacheOK'
  BY <1>2, <1>3, <1>4 DEF CacheOK
<1>8. FollowsOK'
  BY <1>2, <1>3, <1>4 DEF FollowsOK, Busy, Differ
<1>9. StartOK'
  BY <1>2, <1>3 DEF StartOK, Busy, Present, Differ
<1> QED  BY <1>5, <1>6, <1>7, <1>8, <1>9

\* A step that touches nothing of what is followed.
LEMMA StillFollows ==
  ASSUME FollowOK, UNCHANGED <<file, events, hash, known, observed, current, scan>>,
         UNCHANGED revision, revision = 0 => UNCHANGED applied,
         \/ UNCHANGED handler
         \/ handler.phase \in {"idle", "dispatching"} /\ handler'.phase = "idle",
         login'.phase = "saved" <=> login.phase = "saved",
         login'.phase = "saved" => login' = login, UNCHANGED missed
  PROVE  FollowOK'
<1> USE DEF FollowOK
<1>1. ObservedOK' /\ EventsOK'
  BY DEF ObservedOK, EventsOK
<1>2. CacheOK'
  BY DEF CacheOK
<1>3. /\ Parsed' <=> Parsed
      /\ Saved' <=> Saved
      /\ Busy' <=> Busy
      /\ (\E s \in Scans : WillScan(scan[s]))' <=> \E s \in Scans : WillScan(scan[s])
      /\ \A s \in Scans : Outdated(scan[s])' <=> Outdated(scan[s])
  BY DEF Parsed, Saved, Busy, WillScan, Fresh, Outdated
<1>4. FollowsOK'
  BY <1>3 DEF FollowsOK, WillPublish
<1>5. StartOK'
  BY <1>3 DEF StartOK
<1> QED  BY <1>1, <1>2, <1>4, <1>5

\* What is observed overtakes the scans, and a hash that was cached before is not trusted.
LEMMA ObservedMoves ==
  ASSUME WatchOK, FollowOK, Observed, UNCHANGED scan
  PROVE  /\ ObservedOK'
         /\ \A s \in Scans : ~Outdated(scan[s])'
         /\ hash' = file.content => hash = file.content /\ ~Scanning
         /\ hash' # Unknown => hash # Unknown
<1>1. /\ observed \in Nat /\ observed' = observed + 1
      /\ \A s \in Scans : scan[s].phase \in {"begun", "read"} =>
           scan[s].observed \in Nat /\ scan[s].observed <= observed
  BY DEF FollowOK, ObservedOK, Observed
<1>2. ObservedOK'
  BY <1>1 DEF ObservedOK
<1>3. \A s \in Scans : ~Outdated(scan[s])'
  BY <1>1 DEF Outdated, Fresh
<1>4. hash' = IF Scanning /\ hash # Unknown THEN Unparsed ELSE hash
  BY DEF Observed
<1>5. file.content # Unparsed /\ file.content # Unknown
  BY NoContent DEF WatchOK
<1> QED  BY <1>2, <1>3, <1>4, <1>5

LEMMA TakeEventFollows == WatchOK /\ FollowOK /\ TakeEvent => FollowOK'
<1> SUFFICES ASSUME WatchOK, FollowOK, TakeEvent PROVE FollowOK'
  OBVIOUS
<1> USE DEF FollowOK
<1>1. /\ handler.phase = "idle" /\ ~Rescanning /\ events # <<>> /\ events' = Tail(events)
      /\ UNCHANGED <<file, known, current, revision, scan, login, applied>>
  BY DEF TakeEvent, stateVars, scanVars, serviceVars
<1>2. \/ "debounced" \in missed' /\ handler' = handler
      \/ /\ handler' = [phase |-> "checking", removal |-> Head(events) = "remove"]
         /\ UNCHANGED missed
  BY DEF TakeEvent
<1>3. /\ events' \in Seq({"write", "remove"}) /\ Head(events) \in {"write", "remove"}
      /\ events' = <<>> => events[Len(events)] = Head(events)
      /\ events' # <<>> => events'[Len(events')] = events[Len(events)]
  <2>1. events \in Seq({"write", "remove"})
    BY DEF EventsOK
  <2> QED  BY <1>1, <2>1, LastTaken
<1>4. /\ ObservedOK'
      /\ \A s \in Scans : ~Outdated(scan[s])'
      /\ hash' = file.content => hash = file.content /\ ~Scanning
      /\ hash' # Unknown => hash # Unknown
  BY <1>1, ObservedMoves DEF TakeEvent
<1>5. EventsOK'
  <2>1. ~Present(file) => events[Len(events)] = "remove"
    BY <1>1 DEF EventsOK
  <2>2. handler'.phase \in {"idle", "checking"}
    BY <1>1, <1>2
  <2>3. handler'.phase = "checking" => handler'.removal = (Head(events) = "remove")
    BY <1>1, <1>2
  <2>4. ~Present(file) => (handler'.phase = "checking" /\ events' = <<>> => handler'.removal)
    BY <1>3, <2>1, <2>3
  <2>5. ~Present(file) => (events' # <<>> => events'[Len(events')] = "remove")
    BY <1>3, <2>1
  <2> QED  BY <1>1, <1>3, <2>2, <2>4, <2>5 DEF EventsOK
<1>6. /\ handler'.phase \in {"idle", "checking"}
      /\ missed' = {} => missed = {} /\ handler'.phase = "checking"
  <2>1. CASE "debounced" \in missed' /\ handler' = handler
    BY <1>1, <2>1
  <2>2. CASE /\ handler' = [phase |-> "checking", removal |-> Head(events) = "remove"]
             /\ UNCHANGED missed
    <3>1. handler'.phase = "checking"
      BY <2>2
    <3> QED  BY <2>2, <3>1
  <2> QED  BY <1>2, <2>1, <2>2
<1>7. CacheOK'
  BY <1>1, <1>4, <1>6 DEF CacheOK, Rescanning
<1>8. FollowsOK'
  <2> SUFFICES ASSUME missed' = {} PROVE FollowsOK'
    BY DEF FollowsOK
  <2>1. missed = {} /\ Busy'
    BY <1>6 DEF Busy
  <2>2. ASSUME Differ(current, file), hash' = file.content
        PROVE  WillPublish'
    <3>1. hash = file.content /\ ~Scanning /\ WillPublish
      BY <1>4, <2>1, <2>2 DEF FollowsOK
    <3>2. ~Parsed
      BY <1>1 DEF Parsed
    <3>3. \A s \in Scans : WillScan(scan[s]) => WillScan(scan[s])'
      BY <1>1, <3>1 DEF WillScan, Scanning
    <3> QED  BY <1>1, <3>1, <3>2, <3>3 DEF WillPublish, Saved
  <2> QED  BY <1>1, <1>4, <2>1, <2>2 DEF FollowsOK, Differ
<1>9. StartOK'
  BY <1>1, <1>6 DEF StartOK, Busy, Differ, Present
<1> QED  BY <1>4, <1>5, <1>7, <1>8, <1>9

LEMMA CheckFileFollows == WatchOK /\ FollowOK /\ CheckFile => FollowOK'
<1> SUFFICES ASSUME WatchOK, FollowOK, CheckFile PROVE FollowOK'
  OBVIOUS
<1> USE DEF FollowOK
<1>1. /\ handler.phase = "checking" /\ (~handler.removal \/ Present(file))
      /\ UNCHANGED <<file, events, missed, known, current, revision, scan, login, applied>>
  BY DEF CheckFile, fileVars, stateVars, scanVars, serviceVars
<1>2. /\ hash # NoAuth
      /\ ~Present(file) => events # <<>>
      /\ \A s \in Scans : scan[s].phase # "caching"
      /\ ~Parsed
  BY <1>1, NoContent DEF WatchOK, EventsOK, CacheOK, Parsed
<1>3. CASE hash = file.content
  <2>1. handler'.phase = "idle" /\ UNCHANGED <<hash, observed>>
    BY <1>3 DEF CheckFile, Idle
  <2>2. ObservedOK' /\ EventsOK' /\ CacheOK'
    BY <1>1, <1>2, <2>1 DEF ObservedOK, EventsOK, CacheOK
  <2>3. /\ \A s \in Scans : WillScan(scan[s])' <=> WillScan(scan[s])
        /\ \A s \in Scans : Outdated(scan[s])' <=> Outdated(scan[s])
        /\ ~Parsed'
    BY <1>1, <2>1 DEF WillScan, Fresh, Outdated, Parsed
  <2>4. FollowsOK'
    BY <1>1, <1>2, <1>3, <2>1, <2>3 DEF FollowsOK, WillPublish, Saved, Differ
  <2>5. StartOK'
    BY <1>1, <1>2, <1>3, <2>1 DEF StartOK, Present, Differ
  <2> QED  BY <2>2, <2>4, <2>5
<1>4. CASE hash # file.content
  <2>1. handler'.phase = "adding" /\ Observed
    BY <1>4 DEF CheckFile
  <2>2. /\ ObservedOK'
        /\ \A s \in Scans : ~Outdated(scan[s])'
        /\ hash' # file.content
        /\ hash' # Unknown => hash # Unknown
    BY <1>1, <1>4, <2>1, ObservedMoves
  <2>3. EventsOK' /\ CacheOK'
    BY <1>1, <1>2, <2>1, <2>2 DEF EventsOK, CacheOK
  <2>4. Busy'
    BY <2>1 DEF Busy
  <2>5. FollowsOK'
    BY <1>1, <2>2, <2>4 DEF FollowsOK, Differ
  <2>6. StartOK'
    BY <1>1, <2>4 DEF StartOK, Present, Differ
  <2> QED  BY <2>2, <2>3, <2>5, <2>6
<1> QED  BY <1>3, <1>4

LEMMA IgnoreRemovalFollows == WatchOK /\ FollowOK /\ IgnoreRemoval => FollowOK'
<1> SUFFICES ASSUME WatchOK, FollowOK, IgnoreRemoval PROVE FollowOK'
  OBVIOUS
<1> USE DEF FollowOK
<1>1. /\ handler.phase = "checking" /\ ~Present(file) /\ hash = Unknown /\ handler'.phase = "idle"
      /\ UNCHANGED <<file, events, hash, known, observed, current, revision, scan, login, applied>>
  BY DEF IgnoreRemoval, fileVars, cacheVars, stateVars, scanVars, serviceVars, Idle
<1>2. /\ missed' = {} => missed = {} /\ ~Present(current)
      /\ missed' = {} => ~(Present(applied) /\ revision = 0)
  BY DEF IgnoreRemoval
<1>3. ObservedOK' /\ EventsOK' /\ CacheOK'
  BY <1>1, <1>2 DEF ObservedOK, EventsOK, CacheOK
<1>4. FollowsOK'
  <2> SUFFICES ASSUME missed' = {} PROVE FollowsOK'
    BY DEF FollowsOK
  <2>1. ~Differ(current, file) /\ missed = {}
    BY <1>1, <1>2 DEF Present, Differ
  <2>2. \A s \in Scans : Outdated(scan[s])' => Outdated(scan[s])
    BY <1>1 DEF Outdated, Fresh
  <2> QED  BY <1>1, <2>1, <2>2 DEF FollowsOK, Differ, Saved
<1>5. StartOK'
  BY <1>1, <1>2 DEF StartOK, Present, Differ
<1> QED  BY <1>3, <1>4, <1>5

LEMMA RemoveClientFollows == WatchOK /\ FollowOK /\ RemoveClient => FollowOK'
<1> SUFFICES ASSUME WatchOK, FollowOK, RemoveClient PROVE FollowOK'
  OBVIOUS
<1> USE DEF FollowOK
<1>1. /\ handler.phase = "checking" /\ ~Present(file) /\ hash # Unknown /\ hash' = Unknown
      /\ observed' = observed + 1
      /\ UNCHANGED <<file, events, missed, scan, login, applied>>
  BY DEF RemoveClient, fileVars, scanVars, serviceVars
\* What is known is published.
<1>2. /\ known
      /\ current' = file /\ revision' = revision + 1 /\ handler'.phase = "dispatching"
  <2>1. known
    BY <1>1 DEF CacheOK
  <2> QED  BY <2>1 DEF RemoveClient, Published, Dispatching
<1>3. observed \in Nat /\ revision \in Nat
  BY DEF ObservedOK, WatchOK, FlowOK, UpdatesOK
<1>4. ObservedOK' /\ \A s \in Scans : ~Outdated(scan[s])'
  BY <1>1, <1>3 DEF ObservedOK, Outdated, Fresh
<1>5. EventsOK' /\ CacheOK'
  BY <1>1, <1>2 DEF EventsOK, CacheOK
<1>6. FollowsOK'
  BY <1>1, <1>2, <1>4 DEF FollowsOK, Differ
<1>7. StartOK'
  BY <1>2, <1>3 DEF StartOK
<1> QED  BY <1>4, <1>5, <1>6, <1>7

LEMMA ReadFileFollows == WatchOK /\ FollowOK /\ ReadFile => FollowOK'
<1> SUFFICES ASSUME WatchOK, FollowOK, ReadFile PROVE FollowOK'
  OBVIOUS
<1> USE DEF FollowOK
<1>1. /\ handler.phase = "adding"
      /\ UNCHANGED <<file, events, missed, known, observed, current, revision>>
      /\ UNCHANGED <<scan, login, applied>>
  BY DEF ReadFile, fileVars, stateVars, scanVars, serviceVars
<1>2. /\ ~Present(file) => events # <<>>
      /\ \A s \in Scans : scan[s].phase # "caching"
      /\ ~Parsed
  BY <1>1 DEF EventsOK, CacheOK, Parsed
<1>3. /\ \A s \in Scans : WillScan(scan[s])' <=> WillScan(scan[s])
      /\ \A s \in Scans : Outdated(scan[s])' <=> Outdated(scan[s])
      /\ Saved' <=> Saved
  BY <1>1 DEF WillScan, Fresh, Outdated, Saved
<1>4. ObservedOK'
  BY <1>1 DEF ObservedOK
<1>5. CASE Present(file) /\ hash # file.content
  <2>1. /\ hash' = file.content /\ handler'.phase = "parsed" /\ handler'.auth = file
    BY <1>5 DEF ReadFile
  <2>2. EventsOK' /\ CacheOK' /\ Parsed'
    BY <1>1, <1>2, <1>5, <2>1 DEF EventsOK, CacheOK, Parsed, Differ
  <2>3. FollowsOK'
    BY <1>1, <1>2, <1>3, <2>2 DEF FollowsOK, WillPublish, Differ
  <2>4. StartOK'
    BY <1>1, <1>5 DEF StartOK, Differ, Present
  <2> QED  BY <1>4, <2>2, <2>3, <2>4
<1>6. CASE ~(Present(file) /\ hash # file.content)
  <2>1. handler'.phase = "idle" /\ hash' = hash
    BY <1>6 DEF ReadFile, Idle
  <2>2. EventsOK' /\ CacheOK' /\ ~Parsed'
    BY <1>1, <1>2, <2>1 DEF EventsOK, CacheOK, Parsed
  <2>3. FollowsOK'
    BY <1>1, <1>2, <1>3, <1>6, <2>1, <2>2 DEF FollowsOK, WillPublish, Differ, Busy
  <2>4. StartOK'
    BY <1>1, <1>2 DEF StartOK, Differ, Present, Busy
  <2> QED  BY <1>4, <2>2, <2>3, <2>4
<1> QED  BY <1>5, <1>6

LEMMA PublishFileFollows == WatchOK /\ ScanInvariant /\ FollowOK /\ PublishFile => FollowOK'
<1> SUFFICES ASSUME WatchOK, ScanInvariant, FollowOK, PublishFile PROVE FollowOK'
  OBVIOUS
<1> USE DEF FollowOK
<1>1. /\ handler.phase = "parsed" /\ known' = TRUE /\ handler'.phase \in {"idle", "dispatching"}
      /\ UNCHANGED <<file, events, missed, hash, observed, scan, login, applied>>
  BY DEF PublishFile, fileVars, scanVars, serviceVars, Dispatching, Idle
<1>2. /\ hash = handler.auth.content
      /\ Differ(handler.auth, file) => events # <<>>
      /\ \A s \in Scans : scan[s].phase # "caching"
      /\ Present(handler.auth)
  BY <1>1 DEF CacheOK, WatchOK, TypesOK
<1>3. /\ ~Differ(current', handler.auth)
      /\ \/ UNCHANGED <<current, revision>>
         \/ revision' = revision + 1
  BY DEF PublishFile, Published, stateVars, Differ
<1>4. revision \in Nat
  BY DEF WatchOK, FlowOK, UpdatesOK
<1>5. ObservedOK' /\ EventsOK' /\ CacheOK'
  BY <1>1, <1>2 DEF ObservedOK, EventsOK, CacheOK
<1>6. FollowsOK'
  <2> SUFFICES ASSUME missed = {} PROVE FollowsOK'
    BY <1>1 DEF FollowsOK
  <2>1. Differ(current', file') => Busy' /\ hash' # file'.content
    BY <1>1, <1>2, <1>3 DEF Differ, Busy
  <2>2. ASSUME NEW s \in Scans, Outdated(scan[s])'
        PROVE  Saved' \/ (Differ(current', file') /\ hash' # file'.content)
    <3>1. ScanOK(scan[s])
      BY DEF ScanInvariant
    <3>2. scan[s].phase = "read" /\ scan[s].revision = revision' /\ scan[s].revision <= revision
      BY <1>1, <2>2, <3>1 DEF Outdated, Fresh, ScanOK
    <3>3. UNCHANGED <<current, revision>>
      BY <1>3, <1>4, <3>2
    <3>4. Outdated(scan[s])
      BY <1>1, <2>2, <3>3 DEF Outdated, Fresh
    <3> QED  BY <1>1, <2>1, <3>3, <3>4 DEF FollowsOK, Saved
  <2> QED  BY <1>1, <2>1, <2>2 DEF FollowsOK
<1>7. StartOK'
  <2> SUFFICES ASSUME UNCHANGED <<current, revision>> PROVE StartOK'
    BY <1>3, <1>4 DEF StartOK
  <2> QED  BY <1>1, <1>2, <1>3 DEF StartOK, Differ, Present, Busy
<1> QED  BY <1>5, <1>6, <1>7

LEMMA EventFollows == WatchOK /\ ScanInvariant /\ FollowOK /\ EventStep => FollowOK'
<1> SUFFICES ASSUME WatchOK, ScanInvariant, FollowOK, EventStep PROVE FollowOK'
  OBVIOUS
<1>1. CASE DispatchEvent
  BY <1>1, StillFollows
     DEF DispatchEvent, fileVars, cacheVars, stateVars, scanVars, serviceVars, Idle
<1>2. CASE WindowPasses
  BY <1>2, StillFollows DEF WindowPasses, fileVars, cacheVars, stateVars, scanVars, serviceVars
<1> QED
  BY <1>1, <1>2, TakeEventFollows, CheckFileFollows, IgnoreRemovalFollows, RemoveClientFollows,
     ReadFileFollows, PublishFileFollows DEF EventStep

\* One scan goes on and publishes nothing; a hash may be cached.
LEMMA ScanMoves ==
  ASSUME WatchOK, FollowOK, OneScan, NEW s \in Scans, NEW x, ScanStep(s, x),
         UNCHANGED <<file, events, handler, missed, observed, current, revision, login, applied>>,
         UNCHANGED <<hash, known>> \/ ((hash' # Unknown => known') /\ handler.phase # "parsed"),
         x.phase = "caching" => handler.phase = "idle",
         x.phase \in {"begun", "read"} => x.observed \in Nat /\ x.observed <= observed,
         ~Outdated(x),
         WillScan(x) \/ (UNCHANGED <<hash, known>> /\ ~WillScan(scan[s]))
  PROVE  FollowOK'
<1> USE DEF FollowOK
<1>1. \A t \in Scans : t = s
  BY DEF OneScan
<1>2. scan' = [scan EXCEPT ![s] = x] /\ scan'[s] = x
  BY DEF ScanStep, WatchOK, TypesOK
<1>3. ObservedOK' /\ EventsOK' /\ CacheOK'
  BY <1>1, <1>2 DEF ObservedOK, EventsOK, CacheOK
<1>4. /\ (\E t \in Scans : WillScan(scan[t]))' <=> WillScan(x)
      /\ (\A t \in Scans : Outdated(scan[t])' => Outdated(x))
      /\ (\E t \in Scans : WillScan(scan[t])) => WillScan(scan[s])
      /\ Parsed' <=> Parsed
      /\ Saved' <=> Saved
      /\ Busy' <=> Busy
  BY <1>1, <1>2 DEF WillScan, Outdated, Fresh, Parsed, Saved, Busy
<1>5. FollowsOK'
  BY <1>1, <1>2, <1>4 DEF FollowsOK, WillPublish, Differ
<1>6. StartOK'
  BY <1>4 DEF StartOK
<1> QED  BY <1>3, <1>5, <1>6

LEMMA PublishScanFollows ==
  ASSUME WatchOK, FollowOK, OneScan, NEW s \in Scans, PublishScan(s)
  PROVE  FollowOK'
<1> USE DEF FollowOK
<1> DEFINE auth == IF changedDuringScan(s) THEN current ELSE scan[s].auth
<1>1. /\ scan[s].phase = "read"
      /\ UNCHANGED <<file, events, handler, missed, hash, known, observed, login, applied>>
      /\ \A t \in Scans : t = s
  BY DEF PublishScan, fileVars, handlerVars, cacheVars, serviceVars, OneScan
<1>2. /\ ~Differ(current', auth)
      /\ \/ UNCHANGED <<current, revision>>
         \/ revision' = revision + 1
  BY DEF PublishScan, Published, stateVars, Differ
<1>3. scan'[s].phase \in {"idle", "dispatching"}
  <2>1. \E next \in {Dispatching(auth), Idle} : scan' = [scan EXCEPT ![s] = next]
    BY DEF PublishScan, ScanStep
  <2>2. Dispatching(auth).phase = "dispatching" /\ Idle.phase = "idle"
    BY DEF Dispatching, Idle
  <2> QED  BY <2>1, <2>2 DEF WatchOK, TypesOK
<1>4. revision \in Nat
  BY DEF WatchOK, FlowOK, UpdatesOK
<1>5. changedDuringScan(s) <=> ~Fresh(scan[s])
  BY DEF changedDuringScan, Fresh
<1> HIDE DEF auth
<1>6. ObservedOK' /\ EventsOK' /\ CacheOK'
  BY <1>1, <1>3 DEF ObservedOK, EventsOK, CacheOK
<1>7. /\ \A t \in Scans : ~Outdated(scan[t])' /\ ~WillScan(scan[t])'
      /\ Parsed' <=> Parsed
      /\ Saved' <=> Saved
      /\ Busy' <=> Busy
  BY <1>1, <1>3 DEF Outdated, WillScan, Parsed, Saved, Busy
<1>8. FollowsOK'
  <2> SUFFICES ASSUME missed = {} PROVE FollowsOK'
    BY <1>1 DEF FollowsOK
\* Overtaken: it publishes what is known already.
  <2>1. CASE ~Fresh(scan[s])
    <3>1. ~Differ(current', current) /\ \A t \in Scans : ~WillScan(scan[t])
      BY <1>1, <1>2, <1>5, <2>1 DEF auth, Differ, WillScan
    <3> QED  BY <1>1, <1>7, <3>1 DEF FollowsOK, WillPublish, Differ
\* Outdated: somebody else publishes after it.
  <2>2. CASE Outdated(scan[s])
    <3>1. \A t \in Scans : ~WillScan(scan[t])
      BY <1>1, <2>2 DEF WillScan, Outdated
    <3>2. Saved \/ (Differ(current, file) /\ (hash = file.content => Parsed))
      BY <2>2 DEF FollowsOK
    <3>3. CASE Saved
      BY <1>7, <3>3 DEF FollowsOK, WillPublish
    <3>4. CASE Differ(current, file) /\ (hash = file.content => Parsed)
      BY <1>1, <1>7, <3>1, <3>4 DEF FollowsOK, WillPublish
    <3> QED  BY <3>2, <3>3, <3>4
  <2>3. CASE Fresh(scan[s]) /\ ~Differ(scan[s].auth, file)
    <3>1. ~Differ(current', file)
      BY <1>2, <1>5, <2>3 DEF auth, Differ
    <3> QED  BY <1>1, <1>7, <3>1 DEF FollowsOK
  <2> QED  BY <1>1, <2>1, <2>2, <2>3 DEF Outdated
<1>9. StartOK'
  <2> SUFFICES ASSUME UNCHANGED <<current, revision>> PROVE StartOK'
    BY <1>2, <1>4 DEF StartOK
  <2> QED  BY <1>1, <1>7 DEF StartOK
<1> QED  BY <1>6, <1>8, <1>9

LEMMA ReloadFollows ==
  ASSUME WatchOK, FollowOK, OneScan, NEW s \in Scans, ReloadStep(s)
  PROVE  FollowOK'
<1>1. UNCHANGED <<file, events, handler, missed, observed, login, applied>>
  BY DEF ReloadStep, BeginCaching, FinishCaching, BeginScan, ReadScan, PublishScan, DispatchScan,
         fileVars, handlerVars, cacheVars, serviceVars
<1>2. observed \in Nat
  BY DEF FollowOK, ObservedOK
<1>3. CASE BeginCaching(s)
  <2> DEFINE x == [phase |-> "caching", auth |-> file]
  <2>1. ScanStep(s, x) /\ UNCHANGED <<hash, known, current, revision>> /\ handler.phase = "idle"
    BY <1>3 DEF BeginCaching, cacheVars, stateVars
  <2>2. x.phase = "caching"
    OBVIOUS
  <2> HIDE DEF x
  <2>3. WillScan(x) /\ ~Outdated(x)
    BY <2>2 DEF WillScan, Outdated
  <2> QED  BY <1>1, <2>1, <2>2, <2>3, ScanMoves
<1>4. CASE FinishCaching(s)
  <2> DEFINE x == [phase |-> "reloading"]
  <2>1. ScanStep(s, x) /\ UNCHANGED <<current, revision>> /\ handler.phase = "idle"
    BY <1>4 DEF FinishCaching, stateVars, FollowOK, CacheOK
  <2>2. hash' # Unknown => known'
    BY <1>4 DEF FinishCaching
  <2>3. x.phase = "reloading"
    OBVIOUS
  <2> HIDE DEF x
  <2>4. WillScan(x) /\ ~Outdated(x)
    BY <2>3 DEF WillScan, Outdated
  <2> QED  BY <1>1, <2>1, <2>2, <2>3, <2>4, ScanMoves
<1>5. CASE BeginScan(s)
  <2> DEFINE x == [phase |-> "begun", revision |-> revision, observed |-> observed]
  <2>1. ScanStep(s, x) /\ UNCHANGED <<hash, known, current, revision>>
    BY <1>5 DEF BeginScan, cacheVars, stateVars
  <2>2. x.phase = "begun" /\ x.revision = revision /\ x.observed = observed
    OBVIOUS
  <2> HIDE DEF x
  <2>3. WillScan(x) /\ ~Outdated(x) /\ x.observed <= observed
    BY <1>2, <2>2 DEF WillScan, Outdated, Fresh
  <2> QED  BY <1>1, <1>2, <2>1, <2>2, <2>3, ScanMoves
<1>6. CASE ReadScan(s)
  <2> DEFINE x == [phase |-> "read", revision |-> scan[s].revision,
                   observed |-> scan[s].observed, auth |-> file]
  <2>1. /\ ScanStep(s, x) /\ UNCHANGED <<hash, known, current, revision>>
        /\ scan[s].phase = "begun"
    BY <1>6 DEF ReadScan, cacheVars, stateVars
  <2>2. /\ x.phase = "read" /\ x.revision = scan[s].revision /\ x.observed = scan[s].observed
        /\ x.auth = file
    OBVIOUS
  <2> HIDE DEF x
  <2>3. /\ WillScan(x) \/ ~WillScan(scan[s])
        /\ ~Outdated(x)
        /\ x.observed \in Nat /\ x.observed <= observed
    BY <2>1, <2>2 DEF WillScan, Outdated, Fresh, Differ, FollowOK, ObservedOK
  <2> QED  BY <1>1, <2>1, <2>2, <2>3, ScanMoves
<1>7. CASE PublishScan(s)
  BY <1>7, PublishScanFollows
<1>8. CASE DispatchScan(s)
  <2>1. /\ ScanStep(s, Idle) /\ UNCHANGED <<hash, known, current, revision>>
        /\ scan[s].phase = "dispatching" /\ Idle.phase = "idle"
    BY <1>8 DEF DispatchScan, cacheVars, stateVars, Idle
  <2>2. ~WillScan(scan[s]) /\ ~Outdated(Idle)
    BY <2>1 DEF WillScan, Outdated
  <2> QED  BY <1>1, <2>1, <2>2, ScanMoves
<1> QED  BY <1>3, <1>4, <1>5, <1>6, <1>7, <1>8 DEF ReloadStep

LEMMA ServiceFollows == WatchOK /\ ScanInvariant /\ FollowOK /\ ServiceStep => FollowOK'
<1> SUFFICES ASSUME WatchOK, ScanInvariant, FollowOK, ServiceStep PROVE FollowOK'
  OBVIOUS
<1> USE DEF FollowOK
<1>1. UNCHANGED <<handler, scan, hash, observed, missed>>
  BY DEF ServiceStep, SaveLogin, PublishLogin, DispatchLogin, ApplyLogin, DispatchLoop,
         ConsumeAuthUpdate, handlerVars, scanVars, cacheVars
<1>2. revision \in Nat /\ processed \in Nat
  BY DEF WatchOK, FlowOK, UpdatesOK
<1>3. ObservedOK'
  BY <1>1 DEF ObservedOK
<1>4. CASE SaveLogin
  <2>1. PICK content \in Contents : Write(content)
    BY <1>4 DEF SaveLogin
  <2>2. Present(file')
    BY <2>1, NoContent, Written DEF Present, WatchOK
  <2>3. /\ login'.phase = "saved" /\ login'.auth = file' /\ events' = Append(events, "write")
        /\ UNCHANGED <<known, current, revision, applied>>
    BY <1>4 DEF SaveLogin, cacheVars, stateVars, serviceVars
  <2>4. events' \in Seq({"write", "remove"}) /\ events' # <<>>
    <3>1. events \in Seq({"write", "remove"})
      BY DEF EventsOK
    <3> QED  BY <2>3, <3>1, LastAppended
  <2>5. EventsOK' /\ CacheOK'
    BY <1>1, <2>2, <2>3, <2>4 DEF EventsOK, CacheOK, Differ
  <2>6. FollowsOK'
    BY <2>3 DEF FollowsOK, WillPublish, Saved
  <2>7. StartOK'
    BY <1>1, <2>2, <2>3 DEF StartOK
  <2> QED  BY <1>3, <2>5, <2>6, <2>7
<1>5. CASE PublishLogin
  <2>1. /\ login.phase = "saved" /\ login'.phase = "dispatching"
        /\ current' = login.auth /\ revision' = revision + 1 /\ known' = TRUE
        /\ UNCHANGED <<file, events, applied>>
    BY <1>5 DEF PublishLogin, Published, Dispatching, fileVars, serviceVars
  <2>2. EventsOK' /\ CacheOK'
    BY <1>1, <2>1 DEF EventsOK, CacheOK
  <2>3. \A s \in Scans : ~Outdated(scan[s])'
    <3> SUFFICES ASSUME NEW s \in Scans, scan[s].phase = "read" PROVE scan[s].revision # revision'
      BY <1>1 DEF Outdated, Fresh
    <3>1. ScanOK(scan[s])
      BY DEF ScanInvariant
    <3>2. scan[s].revision \in Nat /\ scan[s].revision <= revision
      BY <3>1 DEF ScanOK
    <3> QED  BY <1>2, <2>1, <3>2
  <2>4. FollowsOK'
    BY <1>1, <2>1, <2>3 DEF FollowsOK, CacheOK, Differ
  <2>5. StartOK'
    BY <1>2, <2>1 DEF StartOK
  <2> QED  BY <1>3, <2>2, <2>4, <2>5
<1>6. ASSUME UNCHANGED <<file, events, known, current, revision>>,
             revision = 0 => UNCHANGED applied,
             login'.phase = "saved" <=> login.phase = "saved",
             login'.phase = "saved" => login' = login
      PROVE  FollowOK'
  BY <1>1, <1>6, StillFollows
\* Nothing is applied before something is published.
<1>7. ASSUME NEW u \in Update, u.revision <= revision, Applied(u)
      PROVE  revision = 0 => UNCHANGED applied
  <2>1. u.revision \in Nat
    BY DEF Update
  <2>2. revision = 0 => u.revision <= processed
    BY <1>2, <1>7, <2>1
  <2> QED  BY <1>7, <2>2 DEF Applied, serviceVars
<1>8. CASE DispatchLogin
  BY <1>6, <1>8 DEF DispatchLogin, fileVars, cacheVars, stateVars, serviceVars
<1>9. CASE ApplyLogin
  <2>1. /\ login.phase = "applying" /\ login'.phase = "idle" /\ Applied(login.update)
        /\ UNCHANGED <<file, events, known, current, revision>>
    BY <1>9 DEF ApplyLogin, Idle, fileVars, cacheVars, stateVars
  <2>2. login.update \in Update /\ login.update.revision <= revision
    BY <2>1 DEF WatchOK, FlowOK, UpdatesOK
  <2> QED  BY <1>6, <1>7, <2>1, <2>2
<1>10. CASE DispatchLoop
  BY <1>6, <1>10 DEF DispatchLoop, fileVars, cacheVars, stateVars, serviceVars
<1>11. CASE ConsumeAuthUpdate
  <2>1. /\ queue # <<>> /\ Applied(Head(queue))
        /\ UNCHANGED <<file, events, known, current, revision, login>>
    BY <1>11 DEF ConsumeAuthUpdate, fileVars, cacheVars, stateVars
  <2>2. queue \in Seq(Update) /\ \A i \in 1 .. Len(queue) : queue[i].revision <= revision
    BY DEF WatchOK, FlowOK, UpdatesOK
  <2>3. 1 \in 1 .. Len(queue) /\ Head(queue) = queue[1]
    BY <2>1, <2>2
  <2>4. Head(queue) \in Update /\ Head(queue).revision <= revision
    BY <2>2, <2>3
  <2> QED  BY <1>6, <1>7, <2>1, <2>4
<1> QED  BY <1>4, <1>5, <1>8, <1>9, <1>10, <1>11 DEF ServiceStep

LEMMA StepFollows ==
  ASSUME OneScan
  PROVE  WatchOK /\ ScanInvariant /\ FollowOK /\ [Next]_vars => FollowOK'
<1> SUFFICES ASSUME WatchOK, ScanInvariant, FollowOK, [Next]_vars PROVE FollowOK'
  OBVIOUS
<1>1. CASE \E s \in Scans : ReloadStep(s)
  BY <1>1, ReloadFollows
<1>2. CASE UNCHANGED vars
  BY <1>2, StillFollows
     DEF vars, fileVars, handlerVars, scanVars, stateVars, cacheVars, serviceVars
<1> QED  BY <1>1, <1>2, FileFollows, EventFollows, ServiceFollows DEF Next

LEMMA InitFollows == Init => FollowOK
<1> SUFFICES ASSUME Init PROVE FollowOK
  OBVIOUS
<1>1. /\ events = <<>> /\ handler.phase = "idle" /\ login.phase = "idle" /\ observed = 0
      /\ revision = 0 /\ applied = file /\ file.content \in Contents \cup {NoAuth}
  BY DEF Init, Idle
<1>2. \/ /\ current = file /\ known = (hash # Unknown)
         /\ \A s \in Scans : scan[s].phase = "idle"
      \/ /\ current.content = NoAuth /\ hash = Unknown
         /\ \E s \in Scans : scan[s].phase = "starting"
         /\ \A s \in Scans : scan[s].phase \in {"idle", "starting"}
  <2>1. CASE Starting
    <3>1. current.content = NoAuth /\ hash = Unknown
      BY <2>1 DEF Starting
    <3>2. PICK s \in Scans : scan = [[t \in Scans |-> Idle] EXCEPT ![s] = [phase |-> "starting"]]
      BY <2>1 DEF Starting
    <3>3. scan[s].phase = "starting" /\ \A t \in Scans \ {s} : scan[t].phase = "idle"
      BY <3>2 DEF Idle
    <3> QED  BY <3>1, <3>3
  <2>2. CASE Running(file)
    <3>1. current = file /\ \A s \in Scans : scan[s].phase = "idle"
      BY <2>2 DEF Running, Idle
    <3>2. known = (hash # Unknown)
      BY <1>1, <2>2, NoAuthAssumption DEF Running, Present, Unknown
    <3> QED  BY <3>1, <3>2
  <2> QED  BY <2>1, <2>2 DEF Init
<1>3. events \in Seq({"write", "remove"})
  BY <1>1
<1>4. \A s \in Scans : scan[s].phase \in {"idle", "starting"}
  BY <1>2
<1>5. ObservedOK /\ EventsOK /\ CacheOK
  BY <1>1, <1>2, <1>3, <1>4 DEF ObservedOK, EventsOK, CacheOK
<1>6. FollowsOK
  BY <1>1, <1>2, <1>4 DEF FollowsOK, WillPublish, WillScan, Outdated, Differ
<1>7. StartOK
  BY <1>1, <1>2 DEF StartOK, Differ, Present
<1> QED  BY <1>5, <1>6, <1>7 DEF FollowOK

\* Whatever events and logins overlap the reloads, one at a time, the service ends with what the
\* file holds, but for the changes that the history names (handleEvent, refreshAuthState,
\* handleAuthUpdates).
THEOREM FileWinsInTheEnd ==
  ASSUME OneScan
  PROVE  Spec => []FileWins
<1>1. WatchOK /\ FollowOK => FileWins
  <2> SUFFICES ASSUME WatchOK, FollowOK, Settled, missed = {} PROVE ~Differ(applied, file)
    BY DEF FileWins
  <2> USE DEF FollowOK
  <2>1. /\ events = <<>> /\ handler.phase = "idle" /\ login.phase = "idle"
        /\ pending = NoUpdate /\ queue = <<>>
        /\ \A s \in Scans : scan[s].phase = "idle"
    BY DEF Settled, Idle
  <2>2. ~Busy /\ ~WillPublish
    BY <2>1 DEF Busy, WillPublish, Parsed, Saved, WillScan
  <2>3. ~Differ(current, file)
    BY <2>2 DEF FollowsOK
  <2>4. CASE revision = 0
    BY <2>2, <2>3, <2>4 DEF StartOK, Differ, Present
  <2>5. CASE revision # 0
    <3>1. \A h \in Hands : ~Newest(h)
      BY <2>1 DEF Hands, In, Newest, Carries
    <3>2. 1 .. Len(queue) = {}
      <4>1. Len(<<>>) = 0
        OBVIOUS
      <4> QED  BY <2>1, <4>1
    <3>3. applied = current
      BY <2>1, <2>5, <3>1, <3>2 DEF WatchOK, FlowOK, DeliveryOK
    <3> QED  BY <2>3, <3>3
  <2> QED  BY <2>4, <2>5
<1>2. Init => FollowOK
  BY InitFollows
<1>3. WatchOK /\ ScanInvariant /\ FollowOK /\ [Next]_vars => FollowOK'
  BY StepFollows
<1> QED
  BY <1>1, <1>2, <1>3, UpdatesArriveInOrder, ScansReadNothingOlder, PTL DEF Spec
=============================================================================
