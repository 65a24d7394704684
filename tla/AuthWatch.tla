------------------------------- MODULE AuthWatch -------------------------------
(***************************************************************************)
(* How the Go proxy follows one auth file: file system events, full scans  *)
(* after a reload and logins of the management API each read the file and  *)
(* publish what they read; revisions order what they publish; a dispatcher *)
(* hands the newest update to a channel, and the service applies it.       *)
(*                                                                         *)
(* A snapshot of the file carries its age, which is history: the code      *)
(* compares contents only.                                                 *)
(***************************************************************************)
EXTENDS Integers, Sequences

CONSTANTS
  Scans,       \* goroutines in reloadClients
  Contents,    \* what the file may hold
  NoAuth,      \* no file, or no credential
  MaxChanges,  \* bound on changes of the file
  MaxReloads   \* bound on scans

ASSUME NoAuthAssumption ==
  NoAuth \notin Contents /\ {"unknown", "unparsed"} \cap (Contents \cup {NoAuth}) = {}
ASSUME WatchBounds == {MaxChanges, MaxReloads} \subseteq Nat

VARIABLES
  file,       \* the file
  events,     \* fsnotify's events, not yet handled
  handler,    \* handleEvent, one event at a time
  removedLately, \* lastRemoveTimes: a removal was seen less than a second ago
  hash,       \* lastAuthHashes: the content read last, or a special hash
  known,      \* the ID is in fileAuthsByPath
  observed,   \* fileObservations
  current,    \* currentAuths: what the watcher believes
  revision,   \* authRevisions: the last update it stamped
  scan,       \* the reloads
  reloads,    \* how many there were, the start included
  login,      \* a login that has saved the file and publishes it
  pending,    \* pendingUpdates: the update that waits for the dispatcher
  queue,      \* authUpdates, the channel to the service
  applied,    \* what the service's manager holds
  processed,  \* Service.authRevisions: the newest update it has seen
  missed      \* history: why a change of the file may not be followed

fileVars == <<file, events>>
handlerVars == <<handler, removedLately, missed>>
cacheVars == <<hash, known, observed>>
stateVars == <<current, revision>>
scanVars == <<scan, reloads>>
serviceVars == <<applied, processed>>
vars == <<fileVars, handlerVars, cacheVars, stateVars, scanVars, login, pending, queue,
          serviceVars>>

Unknown == "unknown"   \* no hash is kept
Unparsed == "unparsed" \* the file is known, but its hash matches nothing

Snapshot == [content : Contents \cup {NoAuth}, age : Nat]
Update == [auth : Snapshot, revision : Nat]
NoUpdate == [revision |-> 0]

Idle == [phase |-> "idle"]
Present(snapshot) == snapshot.content # NoAuth
Differ(s, t) == s.content # t.content

(***************************************************************************)
(* What changes the file.                                                  *)
(***************************************************************************)
Write(content) ==
  /\ file.age < MaxChanges
  /\ file' = [content |-> content, age |-> file.age + 1]

\* The user puts back what the watcher knows, or replaces what a login is about to publish.
Gaps(content) ==
  (IF content \in {hash, current.content} THEN {"restored"} ELSE {})
    \cup (IF login.phase = "saved" THEN {"login replaced"} ELSE {})

UserChanges(content, event) ==
  /\ Write(content)
  /\ events' = Append(events, event)
  /\ missed' = missed \cup Gaps(content)
  /\ UNCHANGED <<handler, removedLately>>
  /\ UNCHANGED <<cacheVars, stateVars, scanVars, login, pending, queue, serviceVars>>

UserWrites == \E content \in Contents : UserChanges(content, "write")

\* Saved by a rename, which may look like a removal.
UserReplaces ==
  /\ Present(file)
  /\ \E content \in Contents : UserChanges(content, "remove")

UserDeletes == Present(file) /\ UserChanges(NoAuth, "remove")

(***************************************************************************)
(* What every publisher does: it stamps its update under clientsMutex and  *)
(* hands it to the dispatcher later, unless a newer one is stamped by then. *)
(***************************************************************************)
Published(snapshot) ==
  /\ current' = snapshot
  /\ revision' = revision + 1

Dispatching(snapshot) ==
  [phase |-> "dispatching", update |-> [auth |-> snapshot, revision |-> revision + 1]]

\* Mutant: a late update is dispatched too.
DispatchedLate(update) == pending' = update

\* dispatchAuthUpdates.
Dispatched(update) ==
  pending' = IF update.revision < revision THEN pending ELSE update

(***************************************************************************)
(* handleEvent, under authRescanMu.                                        *)
(***************************************************************************)
Scanning == \E s \in Scans : scan[s].phase \in {"begun", "read"}
Rescanning == \E s \in Scans : scan[s].phase = "caching"

\* Mutant: the cached hash stays.
ObservedOnly == observed' = observed + 1 /\ UNCHANGED hash

\* observeAuthFile: scans under way are overtaken, and the hash that a reload cached is not
\* trusted before its scan is published.
Observed ==
  /\ observed' = observed + 1
  /\ hash' = IF Scanning /\ hash # Unknown THEN Unparsed ELSE hash

TakeEvent ==
  /\ handler.phase = "idle" /\ ~Rescanning
  /\ events # <<>>
  /\ events' = Tail(events)
  /\ Observed
  /\ LET removal == Head(events) = "remove"
     IN  IF removal /\ removedLately
         THEN /\ missed' = missed \cup {"debounced"}
              /\ UNCHANGED <<handler, removedLately>>
         ELSE /\ handler' = [phase |-> "checking", removal |-> removal]
              /\ removedLately' = (removedLately \/ removal)
              /\ UNCHANGED missed
  /\ UNCHANGED <<file, known, stateVars, scanVars, login, pending, queue, serviceVars>>

\* The file is there: it is parsed unless its hash is the one that is kept.
CheckFile ==
  /\ handler.phase = "checking"
  /\ ~handler.removal \/ Present(file)
  /\ IF hash = file.content
     THEN handler' = Idle /\ UNCHANGED <<hash, observed>>
     ELSE handler' = [phase |-> "adding"] /\ Observed
  /\ UNCHANGED <<fileVars, removedLately, missed, known, stateVars, scanVars, login, pending,
                 queue, serviceVars>>

\* The file is gone, and it is one that was never parsed.
IgnoreRemoval ==
  /\ handler.phase = "checking" /\ handler.removal
  /\ ~Present(file)
  /\ hash = Unknown
  /\ handler' = Idle
  /\ missed' = missed \cup (IF Present(current) THEN {"unknown"} ELSE {})
                     \cup (IF Present(applied) /\ revision = 0 THEN {"removed at start"} ELSE {})
  /\ UNCHANGED <<fileVars, removedLately, cacheVars, stateVars, scanVars, login, pending, queue,
                 serviceVars>>

\* removeClientLocked.
RemoveClient ==
  /\ handler.phase = "checking" /\ handler.removal
  /\ ~Present(file)
  /\ hash # Unknown
  /\ hash' = Unknown /\ known' = FALSE /\ observed' = observed + 1
  /\ IF known THEN Published(file) /\ handler' = Dispatching(file)
     ELSE handler' = Idle /\ UNCHANGED stateVars
  /\ UNCHANGED <<fileVars, removedLately, missed, scanVars, login, pending, queue, serviceVars>>

\* addOrUpdateClientLocked reads the file again, ...
ReadFile ==
  /\ handler.phase = "adding"
  /\ IF Present(file) /\ hash # file.content
     THEN hash' = file.content /\ handler' = [phase |-> "parsed", auth |-> file]
     ELSE handler' = Idle /\ UNCHANGED hash
  /\ UNCHANGED <<fileVars, removedLately, missed, known, observed, stateVars, scanVars, login,
                 pending, queue, serviceVars>>

\* ... and publishes what it read after another lock.
PublishFile ==
  /\ handler.phase = "parsed"
  /\ known' = TRUE
  /\ IF Differ(current, handler.auth)
     THEN Published(handler.auth) /\ handler' = Dispatching(handler.auth)
     ELSE handler' = Idle /\ UNCHANGED stateVars
  /\ UNCHANGED <<fileVars, removedLately, missed, hash, observed, scanVars, login, pending, queue,
                 serviceVars>>

DispatchEvent ==
  /\ handler.phase = "dispatching"
  /\ Dispatched(handler.update)
  /\ handler' = Idle
  /\ UNCHANGED <<fileVars, removedLately, missed, cacheVars, stateVars, scanVars, login, queue,
                 serviceVars>>

WindowPasses ==
  /\ removedLately
  /\ removedLately' = FALSE
  /\ UNCHANGED <<fileVars, handler, missed, cacheVars, stateVars, scanVars, login, pending, queue,
                 serviceVars>>

(***************************************************************************)
(* reloadClients.  At the start the hashes of all files are cached before  *)
(* the scan; a change of the configuration only scans.                     *)
(***************************************************************************)
ScanStep(s, next) == scan' = [scan EXCEPT ![s] = next]

BeginCaching(s) ==
  /\ scan[s].phase = "starting"
  /\ handler.phase = "idle" /\ ~Rescanning
  /\ ScanStep(s, [phase |-> "caching", auth |-> file])
  /\ UNCHANGED <<fileVars, handlerVars, cacheVars, stateVars, reloads, login, pending,
                 queue, serviceVars>>

FinishCaching(s) ==
  /\ scan[s].phase = "caching"
  /\ hash' = IF Present(scan[s].auth) THEN scan[s].auth.content ELSE Unknown
  /\ known' = Present(scan[s].auth)
  /\ ScanStep(s, [phase |-> "reloading"])
  /\ UNCHANGED <<fileVars, handlerVars, observed, stateVars, reloads, login, pending, queue,
                 serviceVars>>

\* refreshAuthState notes what the watcher knows, ...
BeginScan(s) ==
  /\ \/ scan[s].phase = "reloading" /\ UNCHANGED reloads
     \/ scan[s].phase = "idle" /\ reloads < MaxReloads /\ reloads' = reloads + 1
  /\ ScanStep(s, [phase |-> "begun", revision |-> revision, observed |-> observed])
  /\ UNCHANGED <<fileVars, handlerVars, cacheVars, stateVars, login, pending, queue, serviceVars>>

\* ... reads the directory without a lock, ...
ReadScan(s) ==
  /\ scan[s].phase = "begun"
  /\ ScanStep(s, [phase |-> "read", revision |-> scan[s].revision,
                  observed |-> scan[s].observed, auth |-> file])
  /\ UNCHANGED <<fileVars, handlerVars, cacheVars, stateVars, reloads, login, pending, queue,
                 serviceVars>>

\* Mutant: what the watcher published meanwhile does not count.
ChangedByEvent(s) == scan[s].observed # observed

changedDuringScan(s) == scan[s].revision # revision \/ scan[s].observed # observed

\* ... and publishes what it read, unless something newer may have come.
PublishScan(s) ==
  /\ scan[s].phase = "read"
  /\ LET auth == IF changedDuringScan(s) THEN current ELSE scan[s].auth
     IN  \E force \in BOOLEAN :
           IF Differ(current, auth) \/ (force /\ Present(auth))
           THEN Published(auth) /\ ScanStep(s, Dispatching(auth))
           ELSE UNCHANGED stateVars /\ ScanStep(s, Idle)
  /\ UNCHANGED <<fileVars, handlerVars, cacheVars, reloads, login, pending, queue, serviceVars>>

DispatchScan(s) ==
  /\ scan[s].phase = "dispatching"
  /\ Dispatched(scan[s].update)
  /\ ScanStep(s, Idle)
  /\ UNCHANGED <<fileVars, handlerVars, cacheVars, stateVars, reloads, login, queue, serviceVars>>

(***************************************************************************)
(* The service.  An update that is not newer than the newest one it has    *)
(* seen is dropped, from whomever it comes.                                *)
(***************************************************************************)
\* handleAuthUpdates.
Applied(update) ==
  IF update.revision <= processed THEN UNCHANGED serviceVars
  ELSE applied' = update.auth /\ processed' = update.revision

\* A login saves the file, publishes what it saved without parsing it, ...
SaveLogin ==
  /\ login.phase = "idle"
  /\ \E content \in Contents : Write(content)
  /\ events' = Append(events, "write")
  /\ login' = [phase |-> "saved", auth |-> file']
  /\ UNCHANGED <<handlerVars, cacheVars, stateVars, scanVars, pending, queue, serviceVars>>

\* (dispatchPersistedAuthUpdateWithRevision)
PublishLogin ==
  /\ login.phase = "saved"
  /\ known' = TRUE
  /\ Published(login.auth)
  /\ login' = Dispatching(login.auth)
  /\ UNCHANGED <<fileVars, handlerVars, hash, observed, scanVars, pending, queue, serviceVars>>

DispatchLogin ==
  /\ login.phase = "dispatching"
  /\ Dispatched(login.update)
  /\ login' = [phase |-> "applying", update |-> login.update]
  /\ UNCHANGED <<fileVars, handlerVars, cacheVars, stateVars, scanVars, queue, serviceVars>>

\* ... and applies it before it answers.
ApplyLogin ==
  /\ login.phase = "applying"
  /\ Applied(login.update)
  /\ login' = Idle
  /\ UNCHANGED <<fileVars, handlerVars, cacheVars, stateVars, scanVars, pending, queue>>

DispatchLoop ==
  /\ pending # NoUpdate
  /\ queue' = Append(queue, pending)
  /\ pending' = NoUpdate
  /\ UNCHANGED <<fileVars, handlerVars, cacheVars, stateVars, scanVars, login, serviceVars>>

ConsumeAuthUpdate ==
  /\ queue # <<>>
  /\ Applied(Head(queue))
  /\ queue' = Tail(queue)
  /\ UNCHANGED <<fileVars, handlerVars, cacheVars, stateVars, scanVars, login, pending>>

-----------------------------------------------------------------------------
\* The watcher and the service agree on the file, ...
Running(auth) ==
  /\ current = auth
  /\ hash = IF Present(auth) THEN auth.content ELSE Unknown
  /\ known = Present(auth)
  /\ scan = [s \in Scans |-> Idle]
  /\ reloads = 0

\* ... or the manager has loaded it, and the watcher starts.
Starting ==
  /\ current = [content |-> NoAuth, age |-> 0]
  /\ hash = Unknown
  /\ known = FALSE
  /\ \E s \in Scans : scan = [[t \in Scans |-> Idle] EXCEPT ![s] = [phase |-> "starting"]]
  /\ reloads = 1

Init ==
  \E content \in Contents \cup {NoAuth} :
    LET auth == [content |-> content, age |-> 0]
    IN  /\ file = auth /\ applied = auth
        /\ Running(auth) \/ Starting
        /\ events = <<>> /\ queue = <<>>
        /\ handler = Idle /\ login = Idle
        /\ removedLately = FALSE
        /\ observed = 0 /\ revision = 0 /\ processed = 0
        /\ pending = NoUpdate
        /\ missed = {}

FileStep == UserWrites \/ UserDeletes \/ UserReplaces

EventStep ==
  \/ TakeEvent \/ CheckFile \/ IgnoreRemoval \/ RemoveClient
  \/ ReadFile \/ PublishFile \/ DispatchEvent \/ WindowPasses

ReloadStep(s) ==
  \/ BeginCaching(s) \/ FinishCaching(s)
  \/ BeginScan(s) \/ ReadScan(s) \/ PublishScan(s) \/ DispatchScan(s)

ServiceStep ==
  \/ SaveLogin \/ PublishLogin \/ DispatchLogin \/ ApplyLogin
  \/ DispatchLoop \/ ConsumeAuthUpdate

Next == FileStep \/ EventStep \/ (\E s \in Scans : ReloadStep(s)) \/ ServiceStep

Spec == Init /\ [][Next]_vars

-----------------------------------------------------------------------------
(***************************************************************************)
(* Properties.                                                             *)
(***************************************************************************)
Revisions(updates) == {updates[i].revision : i \in 1 .. Len(updates)}

WatchTypeOK ==
  /\ {file, current, applied} \subseteq Snapshot
  /\ hash \in Contents \cup {Unknown, Unparsed}
  /\ known \in BOOLEAN
  /\ queue \in Seq(Update)
  /\ \A i, j \in 1 .. Len(queue) : i < j => queue[i].revision < queue[j].revision
  /\ pending # NoUpdate => pending \in Update /\ \A r \in Revisions(queue) : r < pending.revision
  /\ processed <= revision

\* Everything that happened to the file has been looked at and applied.
Settled ==
  /\ events = <<>> /\ handler = Idle /\ login = Idle
  /\ \A s \in Scans : scan[s] = Idle
  /\ pending = NoUpdate /\ queue = <<>>

\* Whatever events, scans and logins overlap, the service ends with what the file holds, unless a
\* removal was passed over, the content known last was put back, or a login's file was replaced
\* before the login was published (handleEvent, refreshAuthState, handleAuthUpdates).
FileWins == Settled /\ missed = {} => ~Differ(applied, file)

\* "A full scan may finish after a newer file or persisted-auth update. Keep those concurrent
\* changes, including deletions, instead of publishing stale data" (dispatcher.go): a scan never
\* replaces what the watcher knows by something older.
ScanNeverGoesBack == [][\A s \in Scans : PublishScan(s) => current'.age >= current.age]_vars

\* "Hot reload: changes to `config.yaml` and `auths/` are picked up automatically" (sdk-usage.md):
\* once the watcher runs, no credential outlives its file because a login or a scan published it
\* and the file was gone before an event of it was parsed (handleEvent, isKnownAuthFile).
NoGhost == Settled /\ missed \subseteq {"unknown"} => (Present(applied) => Present(file))
=============================================================================
