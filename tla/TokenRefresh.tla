----------------------------- MODULE TokenRefresh -----------------------------
(***************************************************************************)
(* One OAuth credential of the Go proxy in its three places: the upstream  *)
(* that issued it, the Manager's memory and the file.  Refreshers (the     *)
(* refresh loop's workers, an operator, requests that got a 401) exchange  *)
(* the refresh token one at a time; results, an operator's change and the  *)
(* file watcher change the credential meanwhile, each with its own locks,  *)
(* and each saves or reads the file after the manager's lock is let go.    *)
(*                                                                         *)
(* A token stands for the pair of an access and a refresh token; tokens    *)
(* are numbered as they are issued, and an exchange consumes one of them.  *)
(* A request may fail before it reaches the upstream, or after: then the   *)
(* token is consumed, nobody hears of its successor, and it is presented   *)
(* again.  A save may fail too.                                            *)
(***************************************************************************)
EXTENDS Naturals, FiniteSets, Sequences

CONSTANTS
  Refreshers,     \* the goroutines in refreshAuthForRequest
  NoAuth,         \* the credential is not registered
  NoFile,         \* there is no file
  NoToken,        \* a refresh that no failed access token caused
  Nobody,         \* the refresh lock is free
  Operations,     \* what this instance exercises beside refreshes
  MaxTries,       \* maxRetries: how often a refresh presents its token
  MaxToken,       \* bound on tokens issued
  MaxGeneration,  \* bound on the generations that start a new operation
  MaxEdits        \* bound on what the user does to the file

ASSUME TokenAssumption ==
  /\ Nobody \notin Refreshers
  /\ {MaxTries, MaxToken, MaxGeneration, MaxEdits} \subseteq Nat
  /\ NoFile \notin [token : Nat, disabled : BOOLEAN]
  /\ NoAuth \notin [epoch : Nat, generation : Nat, token : Nat, disabled : BOOLEAN,
                    error : {"none", "refresh", "result"}]

VARIABLES
  held,       \* Manager.auths[id]: version and content, or NoAuth
  epoch,      \* Manager.authEpochs[id]
  file,       \* the file's content, or NoFile
  guard,      \* authPersistLock: the version saved last
  unsaved,    \* history: the save that came last failed
  holder,     \* who holds the credential's refresh lock
  refresher,  \* the refreshers
  patch,      \* the operator's request
  event,      \* the watcher has not looked at the file since it changed
  parsed,     \* the content the watcher parsed last
  queued,     \* contents on their way from the watcher to the manager
  reload,     \* the service's goroutine that applies them
  issued,     \* how many tokens the upstream issued
  live,       \* the refresh tokens it still accepts
  stray,      \* tokens in requests whose caller gave up
  lost,       \* history: tokens that such a request consumed
  edits,      \* what the user did to the file so far
  disturbed   \* history: what happened that the code does not guard against

vars == <<held, epoch, file, guard, unsaved, holder, refresher, patch, event, parsed,
          queued, reload, issued, live, stray, lost, edits, disturbed>>

Content(auth) == [token |-> auth.token, disabled |-> auth.disabled]

Auth(e, g, content) ==
  [epoch |-> e, generation |-> g, token |-> content.token,
   disabled |-> content.disabled, error |-> "none"]

Held == held # NoAuth
Idle == [phase |-> "idle"]

\* A change of the manager's, and of what it remembers of lost tokens.
Install(auth) ==
  /\ held' = auth
  /\ disturbed' = disturbed \cup
       (IF Held /\ auth.token < held.token THEN {"older token"} ELSE {})

(***************************************************************************)
(* persist: under a lock of its own, after the manager's is let go.  A     *)
(* save that was overtaken is left out, and an update that comes from the  *)
(* file is not written back.  An error is dropped by every caller, and the *)
(* version counts as saved all the same.                                   *)
(***************************************************************************)
\* Mutant: a save is never left out.
OvertakenByNone(auth) == FALSE

Overtaken(auth) ==
  \/ auth.epoch < guard.epoch
  \/ auth.epoch = guard.epoch /\ auth.generation < guard.generation

\* FileTokenStore.Save: an unchanged file is not written, and the file of a
\* disabled credential is not created anew.
Saved(auth) ==
  IF file = NoFile /\ auth.disabled THEN NoFile ELSE Content(auth)

persist(auth, skip) ==
  IF Overtaken(auth) THEN UNCHANGED <<guard, file, event, unsaved>>
  ELSE /\ guard' = [epoch |-> auth.epoch, generation |-> auth.generation]
       /\ \/ ~skip /\ file' = Saved(auth) /\ unsaved' = FALSE
          \/ ~skip /\ UNCHANGED file /\ unsaved' = TRUE
          \/ skip /\ UNCHANGED <<file, unsaved>>
       /\ event' = (event \/ file' # file)

\* What a goroutine that has changed the credential still has to save.
Saving(auth) == [phase |-> "saving", auth |-> auth]

SaveOf(actor, skip) == actor.phase = "saving" /\ persist(actor.auth, skip)

(***************************************************************************)
(* refreshAuthForRequest, under the credential's refresh lock.             *)
(***************************************************************************)
fileVars == <<file, guard, event, unsaved>>
watchVars == <<parsed, queued, reload>>
upstreamVars == <<issued, live, stray, lost>>

\* The loop or an operator asks for a refresh, or a request that was served with
\* the token held now comes back with a 401.
Begin(r) ==
  /\ refresher[r].phase = "idle"
  /\ Held /\ held.generation < MaxGeneration
  /\ \E failed \in {NoToken, held.token} :
       refresher' = [refresher EXCEPT ![r] = [phase |-> "waiting", failed |-> failed]]
  /\ UNCHANGED <<held, epoch, holder, patch, edits, disturbed>>
  /\ UNCHANGED <<fileVars, watchVars, upstreamVars>>

Return(r) == refresher' = [refresher EXCEPT ![r] = Idle]
\* Mutant: the lock is not let go.
UnlockNever(r) == Return(r) /\ UNCHANGED holder

Unlock(r) == Return(r) /\ holder' = Nobody

\* Another refresh may have replaced the token that failed.
Replaced(failed) == failed # NoToken /\ held.token # failed

\* RefreshTokensWithRetry presents the token of base for the try-th time.
Asking(base, try) == [phase |-> "asking", base |-> base, try |-> try]

\* Mutant: two refreshes of one credential run at a time.
LockShared(r) ==
  /\ refresher[r].phase = "waiting"
  /\ IF ~Held \/ Replaced(refresher[r].failed)
     THEN Unlock(r)
     ELSE /\ refresher' = [refresher EXCEPT ![r] = Asking(held, 1)]
          /\ holder' = r
  /\ UNCHANGED <<held, epoch, patch, edits, disturbed>>
  /\ UNCHANGED <<fileVars, watchVars, upstreamVars>>

Lock(r) ==
  /\ refresher[r].phase = "waiting"
  /\ holder = Nobody
  /\ IF ~Held \/ Replaced(refresher[r].failed)
     THEN Unlock(r)
     ELSE /\ refresher' = [refresher EXCEPT ![r] = Asking(held, 1)]
          /\ holder' = r
  /\ UNCHANGED <<held, epoch, patch, edits, disturbed>>
  /\ UNCHANGED <<fileVars, watchVars, upstreamVars>>

Answered(r, outcome, token) ==
  refresher' = [refresher EXCEPT ![r] =
    [phase |-> "answered", base |-> @.base, outcome |-> outcome, token |-> token]]

Rotate(token) ==
  /\ issued < MaxToken
  /\ issued' = issued + 1
  /\ live' = (live \ {token}) \cup {issued'}
  /\ UNCHANGED stray

\* The upstream exchanges a token it knows, and refuses any other; its answer arrives.
Exchange(r) ==
  /\ refresher[r].phase = "asking"
  /\ LET token == refresher[r].base.token
     IN  IF token \in live
         THEN Rotate(token) /\ Answered(r, "refreshed", issued') /\ UNCHANGED lost
         ELSE Answered(r, "refused", NoToken) /\ UNCHANGED upstreamVars
  /\ UNCHANGED <<held, epoch, holder, patch, edits, disturbed>>
  /\ UNCHANGED <<fileVars, watchVars>>

\* A try ends without its answer: an error before or after the request was sent, or
\* the timeout.  The token is presented again, unless the caller gives up in between.
\* (So it is after a refusal in other words than refresh_token_reused; that token is
\* refused again.)
TryFails(r) ==
  /\ refresher[r].phase = "asking"
  /\ stray' = stray \cup {refresher[r].base.token}
  /\ \/ /\ refresher[r].try < MaxTries
        /\ refresher' = [refresher EXCEPT ![r] = Asking(@.base, @.try + 1)]
        /\ UNCHANGED holder
     \/ refresher[r].try < MaxTries /\ Unlock(r)
     \/ Answered(r, "unreachable", NoToken) /\ UNCHANGED holder
  /\ UNCHANGED <<held, epoch, patch, edits, disturbed, issued, live, lost>>
  /\ UNCHANGED <<fileVars, watchVars>>

\* The request of a try that failed was, or is now, served: nobody hears the answer.
ExchangeUnheard ==
  /\ \E token \in stray \cap live : Rotate(token) /\ lost' = lost \cup {token}
  /\ UNCHANGED <<held, epoch, holder, refresher, patch, edits, disturbed>>
  /\ UNCHANGED <<fileVars, watchVars>>

\* Mutant: the answer counts only if nothing changed meanwhile.
SameGeneration(r) == Held /\ held.generation = refresher[r].base.generation

\* The credential may have been removed, or registered anew, meanwhile.
SameRegistration(r) == Held /\ held.epoch = refresher[r].base.epoch

\* An error is kept in memory only.
Failed(r) ==
  /\ refresher[r].phase = "answered" /\ refresher[r].outcome # "refreshed"
  /\ IF SameRegistration(r)
     THEN Install([held EXCEPT !.generation = @ + 1, !.error = "refresh"])
     ELSE UNCHANGED <<held, disturbed>>
  /\ Unlock(r)
  /\ UNCHANGED <<epoch, patch, edits>>
  /\ UNCHANGED <<fileVars, watchVars, upstreamVars>>

\* Mutant: the refreshed credential replaces the one in use.
ReplaceByRefreshedAuth(base, current, updated) ==
  [updated EXCEPT !.generation = current.generation]

\* The token is the executor's; what somebody else changed meanwhile, and an
\* error that is new, stay.
MergeRefreshedAuth(base, current, updated) ==
  LET byUser == current.disabled # base.disabled
      byExecutor == updated.disabled # base.disabled
      newError == current.error \notin {"none", base.error}
  IN  [current EXCEPT
        !.token = updated.token,
        !.disabled = IF byExecutor /\ ~byUser THEN updated.disabled ELSE @,
        !.error = IF newError \/ current.disabled THEN @ ELSE updated.error]

\* UpdateRefreshedAuth; the save follows.
Succeeded(r) ==
  /\ refresher[r].phase = "answered" /\ refresher[r].outcome = "refreshed"
  /\ LET base == refresher[r].base
         updated == [base EXCEPT !.token = refresher[r].token, !.error = "none"]
         merged == [MergeRefreshedAuth(base, held, updated) EXCEPT !.generation = @ + 1]
     IN  IF SameRegistration(r)
         THEN /\ Install(merged)
              /\ refresher' = [refresher EXCEPT ![r] = Saving(merged)]
              /\ UNCHANGED holder
         ELSE /\ Unlock(r)
              /\ UNCHANGED <<held, disturbed>>
  /\ UNCHANGED <<epoch, patch, edits>>
  /\ UNCHANGED <<fileVars, watchVars, upstreamVars>>

Save(r) ==
  /\ SaveOf(refresher[r], FALSE)
  /\ Unlock(r)
  /\ UNCHANGED <<held, epoch, patch, edits, disturbed>>
  /\ UNCHANGED <<watchVars, upstreamVars>>

(***************************************************************************)
(* What changes the credential meanwhile.                                  *)
(***************************************************************************)

\* MarkResult saves before it lets the manager's lock go.
Result ==
  /\ "result" \in Operations
  /\ Held /\ held.generation < MaxGeneration
  /\ \E error \in {"none", "result"} :
       Install([held EXCEPT !.generation = @ + 1, !.error = error])
  /\ persist(held', FALSE)
  /\ UNCHANGED <<epoch, holder, refresher, patch, edits>>
  /\ UNCHANGED <<watchVars, upstreamVars>>

\* PatchAuthFileStatus works on a clone, ...
PatchRead ==
  /\ "patch" \in Operations
  /\ patch.phase = "idle"
  /\ Held /\ held.generation < MaxGeneration
  /\ patch' = [phase |-> "read", auth |-> [held EXCEPT !.disabled = ~@]]
  /\ UNCHANGED <<held, epoch, holder, refresher, edits, disturbed>>
  /\ UNCHANGED <<fileVars, watchVars, upstreamVars>>

\* ... which replaces the credential, whatever happened to that since.
PatchUpdate ==
  /\ patch.phase = "read"
  /\ IF Held /\ patch.auth.epoch >= epoch
     THEN LET auth == [patch.auth EXCEPT !.generation = held.generation + 1]
          IN  Install(auth) /\ patch' = Saving(auth)
     ELSE patch' = Idle /\ UNCHANGED <<held, disturbed>>
  /\ UNCHANGED <<epoch, holder, refresher, edits>>
  /\ UNCHANGED <<fileVars, watchVars, upstreamVars>>

PatchSave ==
  /\ SaveOf(patch, FALSE)
  /\ patch' = Idle
  /\ UNCHANGED <<held, epoch, holder, refresher, edits, disturbed>>
  /\ UNCHANGED <<watchVars, upstreamVars>>

\* The user signs in again, edits the file or deletes it.
UserEdit(content) ==
  /\ edits < MaxEdits
  /\ file' = content
  /\ file' # file
  /\ event' = TRUE
  /\ edits' = edits + 1
  /\ disturbed' = disturbed \cup
       (IF event /\ content = parsed THEN {"restored file"} ELSE {})
  /\ UNCHANGED <<held, epoch, guard, unsaved, holder, refresher, patch>>
  /\ UNCHANGED watchVars

SignIn ==
  /\ "signIn" \in Operations
  /\ issued < MaxToken
  /\ issued' = issued + 1
  /\ live' = live \cup {issued'}
  /\ UNCHANGED <<stray, lost>>
  /\ UserEdit([token |-> issued', disabled |-> FALSE])

EditFile ==
  /\ "edit" \in Operations
  /\ file # NoFile
  /\ UserEdit([file EXCEPT !.disabled = ~@])
  /\ UNCHANGED upstreamVars

DeleteFile ==
  /\ "delete" \in Operations
  /\ UserEdit(NoFile)
  /\ UNCHANGED upstreamVars

\* The watcher parses a file that changed.  An update that is still waiting for
\* the service gives way to the new one.
Look ==
  /\ event
  /\ event' = FALSE
  /\ parsed' = file
  /\ IF file = parsed THEN UNCHANGED queued
     ELSE \/ Len(queued) < 2 /\ queued' = Append(queued, file)
          \/ queued # <<>> /\ queued' = [queued EXCEPT ![Len(queued)] = file]
  /\ UNCHANGED <<held, epoch, file, guard, unsaved, holder, refresher, patch, reload,
                 edits, disturbed>>
  /\ UNCHANGED upstreamVars

\* The service updates, registers or removes the credential.
Reload ==
  /\ reload.phase = "idle"
  /\ queued # <<>>
  /\ LET content == Head(queued)
         auth == IF Held THEN Auth(epoch, held.generation + 1, content)
                 ELSE Auth(epoch + 1, 1, content)
     IN  IF content = NoFile
         THEN /\ held' = NoAuth
              /\ epoch' = IF Held THEN epoch + 1 ELSE epoch
              /\ UNCHANGED <<reload, disturbed>>
         ELSE /\ Install(auth)
              /\ epoch' = auth.epoch
              /\ reload' = Saving(auth)
  /\ queued' = Tail(queued)
  /\ UNCHANGED <<holder, refresher, patch, parsed, edits>>
  /\ UNCHANGED <<fileVars, upstreamVars>>

ReloadSave ==
  /\ SaveOf(reload, TRUE)
  /\ reload' = Idle
  /\ UNCHANGED <<held, epoch, holder, refresher, patch, parsed, queued, edits, disturbed>>
  /\ UNCHANGED upstreamVars

Init ==
  LET content == [token |-> 1, disabled |-> FALSE]
  IN  /\ held = Auth(1, 1, content)
      /\ epoch = 1
      /\ file = content
      /\ guard = [epoch |-> 1, generation |-> 1]
      /\ unsaved = FALSE
      /\ holder = Nobody
      /\ refresher = [r \in Refreshers |-> Idle]
      /\ patch = Idle
      /\ event = FALSE
      /\ parsed = content
      /\ queued = <<>>
      /\ reload = Idle
      /\ issued = 1
      /\ live = {1}
      /\ stray = {}
      /\ lost = {}
      /\ edits = 0
      /\ disturbed = {}

Step(r) ==
  \/ Lock(r)
  \/ Exchange(r) \/ TryFails(r)
  \/ Failed(r) \/ Succeeded(r)
  \/ Save(r)

Next ==
  \/ \E r \in Refreshers : Begin(r) \/ Step(r)
  \/ ExchangeUnheard
  \/ Result
  \/ PatchRead \/ PatchUpdate \/ PatchSave
  \/ SignIn \/ EditFile \/ DeleteFile
  \/ Look \/ Reload \/ ReloadSave

Spec == Init /\ [][Next]_vars

(***************************************************************************)
(* Properties.                                                             *)
(***************************************************************************)
RefreshTypeOK ==
  /\ Held => held.epoch = epoch
  /\ held # NoAuth => held.token \in 1 .. issued
  /\ live \cup stray \cup lost \subseteq 1 .. issued
  /\ (holder = Nobody) = (\A r \in Refreshers : refresher[r].phase \in {"idle", "waiting"})
  /\ \A r \in Refreshers : refresher[r].phase \notin {"idle", "waiting"} => holder = r
  /\ guard.epoch <= epoch

\* Once nobody has anything left to save or to read, the file holds what the
\* manager holds: no save that was overtaken lands late, and a save that failed is
\* made up for by the next one (persist).  Except while that next one is still to
\* come, and that the watcher passes over a file that the user edits back to what
\* it parsed last.
Settled ==
  /\ \A r \in Refreshers : refresher[r].phase # "saving"
  /\ patch.phase # "saving" /\ reload.phase # "saving"
  /\ ~event /\ queued = <<>>

FileAgrees ==
  Settled /\ ~unsaved /\ "restored file" \notin disturbed =>
    file = (IF Held THEN Content(held) ELSE NoFile)

\* A reload or an operator's change that brings back an older token, and a new
\* registration, are beyond what the code guards against.
Undisturbed == "older token" \notin disturbed /\ epoch = 1

\* A refresh presents a consumed token only if the answer that replaced it was lost
\* on its way: refreshers, results and sign-ins never spend a token twice between
\* them, whatever fails (refreshLocks, RefreshTokensWithRetry).
SpentOnce ==
  Undisturbed => \A r \in Refreshers :
    refresher[r].phase = "answered" /\ refresher[r].outcome = "refused" =>
      refresher[r].base.token \in lost

\* The token that is held is good, or its successor is on its way to the manager, or
\* was lost on its way from the upstream: once an answer has arrived the manager
\* does not drop it, and a newer sign-in makes up for one that did not
\* (refreshAuthForRequest, UpdateRefreshedAuth).
TokenKept ==
  Undisturbed =>
    \/ held.token \in live \cup lost
    \/ \E r \in Refreshers : refresher[r].phase = "answered" /\ refresher[r].token \in live

\* A refresh never turns a credential on that was turned off while it ran, nor
\* hides an error that a request met meanwhile.
RefreshKeepsChanges ==
  [][ \A r \in Refreshers : Succeeded(r) /\ Held /\ held' # held =>
        LET base == refresher[r].base
        IN  /\ held'.disabled = held.disabled
            /\ held.error # base.error /\ held.error # "none" => held'.error = held.error
    ]_vars
=============================================================================
