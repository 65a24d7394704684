-------------------------- MODULE TokenRefresh_proofs --------------------------
(***************************************************************************)
(* One refresh at a time, no token presented twice once its answer has     *)
(* arrived, and a file that ends up with what the manager holds, for any   *)
(* number of refreshers, tries, tokens, generations and edits.             *)
(*                                                                         *)
(* The refresh lock makes the refresher that asks or was answered the only *)
(* one that can consume a token, but for the requests it gave up itself,   *)
(* and what those consume is lost.  As long as nothing brings back an      *)
(* older token, whatever else the upstream has consumed is older than the  *)
(* token held, but for the token of the exchange that was just answered.   *)
(*                                                                         *)
(* With nothing queued, the manager holds what the watcher parsed last, or *)
(* has a newer change whose save is on its way and will overtake every     *)
(* other, or was the last to write the file, or to fail to.                *)
(***************************************************************************)
EXTENDS TokenRefresh, TLAPS

Errors == {"none", "refresh", "result"}

\* The credentials and the files there can be by now.
Auths == [epoch : 1 .. epoch, generation : Nat, token : 1 .. issued,
          disabled : BOOLEAN, error : Errors]
Contents == [token : 1 .. issued, disabled : BOOLEAN]
Files == Contents \cup {NoFile}

Resting == {"idle", "waiting"}

Refreshed(a) == a.phase = "answered" /\ a.outcome = "refreshed"

RefresherOK(a) ==
  /\ a.phase \in {"idle", "waiting", "asking", "answered", "saving"}
  /\ a.phase \in {"asking", "answered"} => a.base \in Auths
  /\ Refreshed(a) => a.token \in live \ stray
  /\ a.phase = "saving" => a.auth \in Auths

CountsOK ==
  /\ issued \in Nat \ {0}
  /\ epoch \in Nat \ {0}
  /\ live \subseteq 1 .. issued
  /\ stray \cup lost \subseteq 1 .. issued

Types ==
  /\ CountsOK
  /\ Held => held \in Auths /\ held.epoch = epoch
  /\ file \in Files
  /\ queued \in Seq(Files)
  /\ guard.epoch \in 1 .. epoch
  /\ patch.phase \in {"read", "saving"} => patch.auth \in Auths
  /\ reload.phase = "saving" => reload.auth \in Auths
  /\ DOMAIN refresher = Refreshers
  /\ \A r \in Refreshers : RefresherOK(refresher[r])

\* Whoever asks the upstream, was answered or saves holds the lock.
LockOK ==
  /\ holder \in Refreshers \cup {Nobody}
  /\ \A r \in Refreshers : refresher[r].phase \notin Resting <=> holder = r

Presents(a, token) ==
  /\ a.phase = "asking" => a.base.token \in live \cup lost /\ a.base.token <= token
  /\ a.phase = "answered" /\ a.outcome = "refused" => a.base.token \in lost

\* A consumed token is older than the one held, or its successor is on its way to the manager, or
\* was lost; what is presented is accepted, or was consumed by an answer that was lost.
TokensOK ==
  Undisturbed =>
    /\ Held
    /\ \A t \in (1 .. issued) \ live :
         \/ t < held.token
         \/ t = held.token /\ \E r \in Refreshers : Refreshed(refresher[r])
         \/ t \in lost
    /\ \A r \in Refreshers : Presents(refresher[r], held.token)

RefreshInvariant == Types /\ LockOK /\ TokensOK

-----------------------------------------------------------------------------
(***************************************************************************)
(* Records.                                                                *)
(***************************************************************************)
\* More tokens and epochs, more credentials.
LEMMA Growth ==
  ASSUME CountsOK, issued' \in Nat, epoch' \in Nat, issued' >= issued, epoch' >= epoch
  PROVE  Auths \subseteq Auths' /\ Files \subseteq Files'
<1>1. 1 .. issued \subseteq 1 .. issued' /\ 1 .. epoch \subseteq 1 .. epoch'
  BY DEF CountsOK
<1> QED  BY <1>1 DEF Auths, Contents, Files

\* A credential is not the absence of one.
LEMMA AuthIsHeld ==
  ASSUME NEW e \in Nat, NEW n \in Nat,
         NEW a \in [epoch : 1 .. e, generation : Nat, token : 1 .. n,
                    disabled : BOOLEAN, error : Errors]
  PROVE  a # NoAuth
<1>1. 1 .. n \subseteq Nat /\ 1 .. e \subseteq Nat
  OBVIOUS
<1>2. a \in [epoch : Nat, generation : Nat, token : Nat, disabled : BOOLEAN, error : Errors]
  BY <1>1
<1> QED  BY <1>2, TokenAssumption DEF Errors

\* The same registration in another generation.
LEMMA NextGeneration ==
  ASSUME NEW a \in Auths, NEW e \in Errors, NEW b,
         b = [a EXCEPT !.generation = @ + 1, !.error = e]
  PROVE  b \in Auths /\ b.token = a.token /\ b.epoch = a.epoch
<1>1. b = [epoch |-> a.epoch, generation |-> a.generation + 1, token |-> a.token,
           disabled |-> a.disabled, error |-> e]
  BY DEF Auths
<1> QED  BY <1>1 DEF Auths

LEMMA SavedFile ==
  ASSUME NEW a \in Auths
  PROVE  Saved(a) \in Files
<1>1. Content(a) \in Contents
  BY DEF Auths, Contents, Content
<1> QED  BY <1>1 DEF Saved, Files

\* persist keeps the guard and the file what they are.
LEMMA PersistKeeps ==
  ASSUME Types, NEW a \in Auths, NEW skip, persist(a, skip)
  PROVE  file' \in Files /\ guard'.epoch \in 1 .. epoch
<1>1. Saved(a) \in Files /\ a.epoch \in 1 .. epoch /\ file \in Files
  BY SavedFile DEF Auths, Types
<1>2. CASE Overtaken(a)
  BY <1>1, <1>2 DEF persist, Types
<1>3. CASE ~Overtaken(a)
  BY <1>1, <1>3 DEF persist
<1> QED  BY <1>2, <1>3

-----------------------------------------------------------------------------
(***************************************************************************)
(* Steps beside the refreshers.                                            *)
(***************************************************************************)
\* They leave the lock and the refreshers alone.
LEMMA LockUntouched ==
  ASSUME LockOK, UNCHANGED <<holder, refresher>>
  PROVE  LockOK'
BY DEF LockOK

\* What the refreshers remember stays true as tokens and epochs are added.
LEMMA RefreshersGrow ==
  ASSUME Types, CountsOK', issued' >= issued, epoch' >= epoch, live \subseteq live',
         UNCHANGED <<stray, refresher>>
  PROVE  DOMAIN refresher' = Refreshers /\ \A r \in Refreshers : RefresherOK(refresher[r])'
<1>1. Auths \subseteq Auths'
  BY Growth DEF Types, CountsOK
<1> QED  BY <1>1 DEF Types, RefresherOK, Refreshed

\* A step that neither changes what is held nor what the upstream accepts.
LEMMA TokensUntouched ==
  ASSUME TokensOK, UNCHANGED <<held, epoch, issued, live, lost, refresher>>,
         disturbed \subseteq disturbed'
  PROVE  TokensOK'
BY DEF TokensOK, Undisturbed, Held, Presents

\* Installing a credential that is not older.
LEMMA TokensInstall ==
  ASSUME Types, TokensOK, NEW a, a \in Auths', CountsOK', Install(a), epoch' >= epoch,
         UNCHANGED <<issued, live, stray, lost, refresher>>
  PROVE  TokensOK'
<1> SUFFICES ASSUME Undisturbed' PROVE TokensOK'
  BY DEF TokensOK
<1>1. disturbed \subseteq disturbed' /\ held' = a
  BY DEF Install
<1>2. Undisturbed
  <2>1. epoch \in Nat
    BY DEF Types, CountsOK
  <2>2. epoch # 0
    BY DEF Types, CountsOK
  <2>3. epoch' = 1
    BY DEF Undisturbed
  <2>4. epoch = 1
    BY <2>1, <2>2, <2>3
  <2>5. "older token" \notin disturbed
    BY <1>1 DEF Undisturbed
  <2> QED  BY <2>4, <2>5 DEF Undisturbed
<1>3. Held /\ held.token \in 1 .. issued
  BY <1>2 DEF TokensOK, Types, Auths
<1>4. Held'
  <2>1. epoch' \in Nat /\ issued' \in Nat
    BY DEF CountsOK
  <2> QED  BY <1>1, <2>1, AuthIsHeld DEF Held, Auths
<1>5. a.token \in 1 .. issued /\ ~(a.token < held.token)
  BY <1>3 DEF Install, Undisturbed, Auths
<1>6. issued \in Nat
  BY DEF Types, CountsOK
<1>7. \A t \in (1 .. issued') \ live' :
        \/ t < held'.token
        \/ t = held'.token /\ \E r \in Refreshers : Refreshed(refresher'[r])
        \/ t \in lost'
  BY <1>1, <1>2, <1>3, <1>5, <1>6 DEF TokensOK
<1>8. \A r \in Refreshers : Presents(refresher[r], held.token)'
  <2> SUFFICES ASSUME NEW r \in Refreshers, refresher[r].phase = "asking"
               PROVE  refresher[r].base.token <= a.token
    BY <1>1, <1>2 DEF TokensOK, Presents
  <2>1. refresher[r].base.token \in Nat
    BY <1>6 DEF Types, RefresherOK, Auths
  <2>2. refresher[r].base.token <= held.token
    BY <1>2 DEF TokensOK, Presents
  <2> QED  BY <1>3, <1>5, <1>6, <2>1, <2>2
<1> QED  BY <1>4, <1>7, <1>8 DEF TokensOK, Refreshed

LEMMA SameCounts ==
  ASSUME Types, UNCHANGED <<issued, live, stray, lost, epoch>>
  PROVE  CountsOK' /\ Auths' = Auths /\ Files' = Files
BY DEF Types, CountsOK, Auths, Contents, Files

LEMMA SameRefreshers ==
  ASSUME Types, UNCHANGED <<issued, live, stray, lost, epoch, refresher>>
  PROVE  DOMAIN refresher' = Refreshers /\ \A r \in Refreshers : RefresherOK(refresher[r])'
<1>1. Auths' = Auths
  BY SameCounts
<1> QED  BY <1>1 DEF Types, RefresherOK, Refreshed

LEMMA ResultKeeps == RefreshInvariant /\ Result => RefreshInvariant'
<1> SUFFICES ASSUME RefreshInvariant, Result PROVE RefreshInvariant'
  OBVIOUS
<1> USE DEF RefreshInvariant
<1>1. UNCHANGED <<issued, live, stray, lost, epoch, holder, refresher, patch, reload, queued>>
  BY DEF Result, watchVars, upstreamVars
<1>2. CountsOK' /\ Auths' = Auths /\ Files' = Files
  BY <1>1, SameCounts
<1>3. held \in Auths /\ held.epoch = epoch /\ held.token \in 1 .. issued
  BY DEF Result, Types, Auths
<1>4. PICK error \in {"none", "result"} :
        Install([held EXCEPT !.generation = @ + 1, !.error = error])
  BY DEF Result
<1>5. held' \in Auths /\ held'.token = held.token /\ held'.epoch = held.epoch
  BY <1>3, <1>4, NextGeneration DEF Install, Errors
<1>6. file' \in Files /\ guard'.epoch \in 1 .. epoch
  BY <1>5, PersistKeeps DEF Result
<1>7. Types'
  BY <1>1, <1>2, <1>3, <1>5, <1>6, SameRefreshers DEF Types
<1>8. PICK auth : Install(auth)
  BY <1>4
<1>9. auth \in Auths'
  BY <1>2, <1>5, <1>8 DEF Install
<1>10. epoch' >= epoch
  BY <1>1 DEF Types, CountsOK
<1>11. TokensOK'
  BY <1>1, <1>2, <1>8, <1>9, <1>10, TokensInstall
<1> QED  BY <1>1, <1>7, <1>11, LockUntouched

LEMMA PatchReadKeeps == RefreshInvariant /\ PatchRead => RefreshInvariant'
<1> SUFFICES ASSUME RefreshInvariant, PatchRead PROVE RefreshInvariant'
  OBVIOUS
<1> USE DEF RefreshInvariant
<1>1. UNCHANGED <<issued, live, stray, lost, epoch, holder, refresher, held, reload, queued, file,
                  guard, disturbed>>
  BY DEF PatchRead, fileVars, watchVars, upstreamVars
<1>2. CountsOK' /\ Auths' = Auths /\ Files' = Files
  BY <1>1, SameCounts
<1>3. held \in Auths
  BY DEF PatchRead, Types
<1> DEFINE auth == [held EXCEPT !.disabled = ~@]
<1>4. auth = [epoch |-> held.epoch, generation |-> held.generation, token |-> held.token,
              disabled |-> ~held.disabled, error |-> held.error]
  BY <1>3 DEF Auths
<1>5. auth \in Auths
  BY <1>3, <1>4 DEF Auths
<1>6. patch' = [phase |-> "read", auth |-> auth]
  BY DEF PatchRead
<1> HIDE DEF auth
<1>7. patch'.auth \in Auths
  BY <1>5, <1>6
<1>8. Types'
  BY <1>1, <1>2, <1>7, SameRefreshers DEF Types, Held
<1> QED  BY <1>1, <1>8, LockUntouched, TokensUntouched

LEMMA PatchUpdateKeeps == RefreshInvariant /\ PatchUpdate => RefreshInvariant'
<1> SUFFICES ASSUME RefreshInvariant, PatchUpdate PROVE RefreshInvariant'
  OBVIOUS
<1> USE DEF RefreshInvariant
<1>1. UNCHANGED <<issued, live, stray, lost, epoch, holder, refresher, reload, queued, file, guard>>
  BY DEF PatchUpdate, fileVars, watchVars, upstreamVars
<1>2. CountsOK' /\ Auths' = Auths /\ Files' = Files
  BY <1>1, SameCounts
<1>3. patch.auth \in Auths
  BY DEF PatchUpdate, Types
<1>4. CASE Held /\ patch.auth.epoch >= epoch
  <2> DEFINE auth == [patch.auth EXCEPT !.generation = held.generation + 1]
  <2>1. Install(auth) /\ patch' = Saving(auth)
    BY <1>4 DEF PatchUpdate
  <2>2. held \in Auths
    BY <1>4 DEF Types
  <2>3. held.generation + 1 \in Nat
    BY <2>2 DEF Auths
  <2>4. auth \in Auths /\ auth.epoch = patch.auth.epoch
    BY <1>3, <2>3 DEF Auths
  <2>5. patch.auth.epoch = epoch
    BY <1>3, <1>4 DEF Auths, Types, CountsOK
  <2> HIDE DEF auth
  <2>6. held' = auth /\ patch'.auth = auth
    BY <2>1 DEF Install, Saving
  <2>7. Types'
    BY <1>1, <1>2, <2>4, <2>5, <2>6, SameRefreshers DEF Types
  <2>8. epoch' >= epoch
    BY <1>1 DEF Types, CountsOK
  <2>9. TokensOK'
    BY <1>1, <1>2, <2>1, <2>4, <2>8, TokensInstall
  <2> QED  BY <1>1, <2>7, <2>9, LockUntouched
<1>5. CASE ~(Held /\ patch.auth.epoch >= epoch)
  <2>1. patch' = Idle /\ UNCHANGED <<held, disturbed>>
    BY <1>5 DEF PatchUpdate
  <2>2. Types'
    BY <1>1, <1>2, <2>1, SameRefreshers DEF Types, Held, Idle
  <2> QED  BY <1>1, <2>1, <2>2, LockUntouched, TokensUntouched
<1> QED  BY <1>4, <1>5

LEMMA PatchSaveKeeps == RefreshInvariant /\ PatchSave => RefreshInvariant'
<1> SUFFICES ASSUME RefreshInvariant, PatchSave PROVE RefreshInvariant'
  OBVIOUS
<1> USE DEF RefreshInvariant
<1>1. UNCHANGED <<issued, live, stray, lost, epoch, holder, refresher, held, reload, queued,
                  disturbed>>
  BY DEF PatchSave, watchVars, upstreamVars
<1>2. CountsOK' /\ Auths' = Auths /\ Files' = Files
  BY <1>1, SameCounts
<1>3. patch.auth \in Auths /\ persist(patch.auth, FALSE) /\ patch' = Idle
  BY DEF PatchSave, SaveOf, Types
<1>4. file' \in Files /\ guard'.epoch \in 1 .. epoch
  BY <1>3, PersistKeeps
<1>5. Types'
  BY <1>1, <1>2, <1>3, <1>4, SameRefreshers DEF Types, Held, Idle
<1> QED  BY <1>1, <1>5, LockUntouched, TokensUntouched

LEMMA ReloadSaveKeeps == RefreshInvariant /\ ReloadSave => RefreshInvariant'
<1> SUFFICES ASSUME RefreshInvariant, ReloadSave PROVE RefreshInvariant'
  OBVIOUS
<1> USE DEF RefreshInvariant
<1>1. UNCHANGED <<issued, live, stray, lost, epoch, holder, refresher, held, patch, queued,
                  disturbed>>
  BY DEF ReloadSave, upstreamVars
<1>2. CountsOK' /\ Auths' = Auths /\ Files' = Files
  BY <1>1, SameCounts
<1>3. reload.auth \in Auths /\ persist(reload.auth, TRUE) /\ reload' = Idle
  BY DEF ReloadSave, SaveOf, Types
<1>4. file' \in Files /\ guard'.epoch \in 1 .. epoch
  BY <1>3, PersistKeeps
<1>5. Types'
  BY <1>1, <1>2, <1>3, <1>4, SameRefreshers DEF Types, Held, Idle
<1> QED  BY <1>1, <1>5, LockUntouched, TokensUntouched

\* The user's edits add tokens, and the file they leave names one of them.
LEMMA UserEditKeeps ==
  ASSUME RefreshInvariant, NEW content, content \in Files', UserEdit(content),
         CountsOK', issued' >= issued, live \subseteq live',
         UNCHANGED <<stray, holder, refresher, reload>>
  PROVE  Types' /\ LockOK'
<1> USE DEF RefreshInvariant
<1>1. UNCHANGED <<held, epoch, guard, patch, queued>> /\ file' = content
  BY DEF UserEdit, watchVars
<1>2. epoch' >= epoch /\ Auths \subseteq Auths' /\ Files \subseteq Files'
  BY <1>1, Growth DEF Types, CountsOK
<1>3. DOMAIN refresher' = Refreshers /\ \A r \in Refreshers : RefresherOK(refresher[r])'
  BY <1>2, RefreshersGrow
<1>4. queued' \in Seq(Files')
  <2>1. queued \in Seq(Files)
    BY DEF Types
  <2>2. Len(queued) \in Nat /\ queued \in [1 .. Len(queued) -> Files']
    BY <1>2, <2>1
  <2> QED  BY <1>1, <2>2
<1>5. Types'
  BY <1>1, <1>2, <1>3, <1>4 DEF Types, Held
<1> QED  BY <1>5, LockUntouched

LEMMA SignInKeeps == RefreshInvariant /\ SignIn => RefreshInvariant'
<1> SUFFICES ASSUME RefreshInvariant, SignIn PROVE RefreshInvariant'
  OBVIOUS
<1> USE DEF RefreshInvariant
<1> DEFINE content == [token |-> issued', disabled |-> FALSE]
<1>1. issued' = issued + 1 /\ live' = live \cup {issued'} /\ UserEdit(content)
  BY DEF SignIn
<1>2. /\ issued \in Nat /\ issued # 0
      /\ live \subseteq 1 .. issued /\ stray \cup lost \subseteq 1 .. issued
  BY DEF Types, CountsOK
<1>3. /\ UNCHANGED <<held, epoch, stray, lost, holder, refresher, reload>>
      /\ disturbed \subseteq disturbed'
  BY <1>1 DEF UserEdit, watchVars, SignIn
<1>4. CountsOK'
  <2>1. 1 .. issued \subseteq 1 .. issued' /\ issued' \in 1 .. issued' /\ issued' \in Nat \ {0}
    BY <1>1, <1>2
  <2>2. live' \subseteq 1 .. issued' /\ stray' \cup lost' \subseteq 1 .. issued'
    BY <1>1, <1>2, <1>3, <2>1
  <2> QED  BY <1>3, <2>1, <2>2 DEF Types, CountsOK
<1>5. content \in Files'
  BY <1>1, <1>2 DEF Files, Contents
<1> HIDE DEF content
<1>6. issued' >= issued /\ live \subseteq live'
  BY <1>1, <1>2
<1>7. Types' /\ LockOK'
  BY <1>1, <1>3, <1>4, <1>5, <1>6, UserEditKeeps
<1>8. TokensOK'
  <2> SUFFICES ASSUME Undisturbed' PROVE TokensOK'
    BY DEF TokensOK
  <2>1. Undisturbed
    BY <1>3 DEF Undisturbed
  <2>2. \A t \in (1 .. issued') \ live' : t \in (1 .. issued) \ live
    BY <1>1, <1>2
  <2> QED  BY <1>3, <1>6, <2>1, <2>2 DEF TokensOK, Held, Presents
<1> QED  BY <1>7, <1>8

LEMMA EditFileKeeps == RefreshInvariant /\ EditFile => RefreshInvariant'
<1> SUFFICES ASSUME RefreshInvariant, EditFile PROVE RefreshInvariant'
  OBVIOUS
<1> USE DEF RefreshInvariant
<1> DEFINE content == [file EXCEPT !.disabled = ~@]
<1>1. UserEdit(content) /\ UNCHANGED <<issued, live, stray, lost>> /\ file \in Contents
  BY DEF EditFile, upstreamVars, Types, Files
<1>2. content = [token |-> file.token, disabled |-> ~file.disabled]
  BY <1>1 DEF Contents
<1>3. content \in Contents
  BY <1>1, <1>2 DEF Contents
<1> HIDE DEF content
<1>4. /\ UNCHANGED <<held, epoch, holder, refresher, reload>>
      /\ disturbed \subseteq disturbed'
  BY <1>1 DEF UserEdit, watchVars, EditFile
<1>5. CountsOK' /\ content \in Files'
  BY <1>1, <1>3, <1>4, SameCounts DEF Files
<1>6. issued' >= issued /\ live \subseteq live'
  BY <1>1 DEF Types, CountsOK
<1>7. Types' /\ LockOK'
  BY <1>1, <1>4, <1>5, <1>6, UserEditKeeps
<1> QED  BY <1>1, <1>4, <1>7, TokensUntouched

LEMMA DeleteFileKeeps == RefreshInvariant /\ DeleteFile => RefreshInvariant'
<1> SUFFICES ASSUME RefreshInvariant, DeleteFile PROVE RefreshInvariant'
  OBVIOUS
<1> USE DEF RefreshInvariant
<1>1. UserEdit(NoFile) /\ UNCHANGED <<issued, live, stray, lost>>
  BY DEF DeleteFile, upstreamVars
<1>2. /\ UNCHANGED <<held, epoch, holder, refresher, reload>>
      /\ disturbed \subseteq disturbed'
  BY <1>1 DEF UserEdit, watchVars, DeleteFile
<1>3. CountsOK' /\ NoFile \in Files'
  BY <1>1, <1>2, SameCounts DEF Files
<1>4. issued' >= issued /\ live \subseteq live'
  BY <1>1 DEF Types, CountsOK
<1>5. Types' /\ LockOK'
  BY <1>1, <1>2, <1>3, <1>4, UserEditKeeps
<1> QED  BY <1>1, <1>2, <1>5, TokensUntouched

LEMMA LookKeeps == RefreshInvariant /\ Look => RefreshInvariant'
<1> SUFFICES ASSUME RefreshInvariant, Look PROVE RefreshInvariant'
  OBVIOUS
<1> USE DEF RefreshInvariant
<1>1. UNCHANGED <<issued, live, stray, lost, epoch, holder, refresher, held, patch, reload, file,
                  guard, disturbed>>
  BY DEF Look, upstreamVars
<1>2. CountsOK' /\ Auths' = Auths /\ Files' = Files
  BY <1>1, SameCounts
<1>3. file \in Files /\ queued \in Seq(Files)
  BY DEF Types
<1>4. queued' \in Seq(Files)
  <2>1. CASE UNCHANGED queued
    BY <1>3, <2>1
  <2>2. CASE queued' = Append(queued, file)
    BY <1>3, <2>2
  <2>3. CASE queued # <<>> /\ queued' = [queued EXCEPT ![Len(queued)] = file]
    BY <1>3, <2>3
  <2> QED  BY <2>1, <2>2, <2>3 DEF Look
<1>5. Types'
  BY <1>1, <1>2, <1>4, SameRefreshers DEF Types, Held
<1> QED  BY <1>1, <1>5, LockUntouched, TokensUntouched

\* The service takes the next content: a removal, an update, or a registration of its own epoch.
LEMMA ReloadKeeps == RefreshInvariant /\ Reload => RefreshInvariant'
<1> SUFFICES ASSUME RefreshInvariant, Reload PROVE RefreshInvariant'
  OBVIOUS
<1> USE DEF RefreshInvariant
<1> DEFINE content == Head(queued)
           auth == IF Held THEN Auth(epoch, held.generation + 1, content)
                   ELSE Auth(epoch + 1, 1, content)
<1>1. UNCHANGED <<issued, live, stray, lost, holder, refresher, patch, file, guard>>
  BY DEF Reload, fileVars, upstreamVars
<1>2. issued \in Nat /\ epoch \in Nat /\ epoch # 0
  BY DEF Types, CountsOK
<1>3. content \in Files /\ queued' \in Seq(Files)
  BY DEF Reload, Types
<1>4. CASE content = NoFile
  <2>1. /\ held' = NoAuth /\ UNCHANGED <<reload, disturbed>>
        /\ epoch' = IF Held THEN epoch + 1 ELSE epoch
    BY <1>4 DEF Reload
  <2>2. epoch' \in Nat /\ epoch' >= epoch /\ epoch' # 0
    BY <1>2, <2>1
  <2>3. CountsOK'
    BY <1>1, <1>2, <2>2 DEF Types, CountsOK
  <2>4. Auths \subseteq Auths' /\ Files' = Files /\ 1 .. epoch \subseteq 1 .. epoch'
    BY <1>1, <1>2, <2>2, Growth DEF Types, Files, Contents
  <2>5. DOMAIN refresher' = Refreshers /\ \A r \in Refreshers : RefresherOK(refresher[r])'
    BY <1>1, <1>2, <2>2, <2>3, RefreshersGrow
  <2>6. Types'
    BY <1>1, <1>3, <2>1, <2>3, <2>4, <2>5 DEF Types, Held
  <2>7. ~Undisturbed'
    <3>1. CASE Held
      <4>1. epoch' = epoch + 1
        BY <2>1, <3>1
      <4>2. epoch \in Nat
        BY <1>2
      <4>3. epoch # 0
        BY <1>2
      <4>4. epoch' # 1
        BY <4>1, <4>2, <4>3
      <4> QED  BY <4>4 DEF Undisturbed
    <3>2. CASE ~Held
      BY <2>1, <3>2 DEF TokensOK, Undisturbed
    <3> QED  BY <3>1, <3>2
  <2> QED  BY <1>1, <2>6, <2>7, LockUntouched DEF TokensOK
<1>5. CASE content # NoFile
  <2>1. Install(auth) /\ epoch' = auth.epoch /\ reload' = Saving(auth)
    BY <1>5 DEF Reload
  <2>2. content \in Contents
    BY <1>3, <1>5 DEF Files
  <2>3. Held => held.generation + 1 \in Nat
    BY DEF Types, Auths
  <2>4. auth.epoch = IF Held THEN epoch ELSE epoch + 1
    BY DEF Auth
  <2>5. epoch' \in Nat /\ epoch' >= epoch /\ epoch' # 0
    BY <1>2, <2>1, <2>4
  <2>6. CountsOK'
    BY <1>1, <1>2, <2>5 DEF Types, CountsOK
  <2>7. Auths \subseteq Auths' /\ Files' = Files /\ 1 .. epoch \subseteq 1 .. epoch'
    BY <1>1, <1>2, <2>5, Growth DEF Types, Files, Contents
  <2>8. auth \in Auths'
    <3>1. \A e \in 1 .. epoch', g \in Nat : Auth(e, g, content) \in Auths'
      BY <1>1, <2>2 DEF Auth, Auths, Contents, Errors
    <3>2. CASE Held
      <4>1. epoch \in 1 .. epoch'
        BY <1>2, <2>5
      <4> QED  BY <2>3, <3>1, <3>2, <4>1
    <3>3. CASE ~Held
      <4>1. epoch + 1 \in 1 .. epoch'
        BY <1>2, <2>1, <2>4, <3>3
      <4> QED  BY <3>1, <3>3, <4>1
    <3> QED  BY <3>2, <3>3
  <2> HIDE DEF auth, content
  <2>9. held' = auth /\ reload'.auth = auth
    BY <2>1 DEF Install, Saving
  <2>10. DOMAIN refresher' = Refreshers /\ \A r \in Refreshers : RefresherOK(refresher[r])'
    BY <1>1, <1>2, <2>5, <2>6, RefreshersGrow
  <2>11. Types'
    BY <1>1, <1>3, <2>1, <2>6, <2>7, <2>8, <2>9, <2>10 DEF Types
  <2>12. TokensOK'
    BY <1>1, <2>1, <2>5, <2>6, <2>8, TokensInstall
  <2> QED  BY <1>1, <2>11, <2>12, LockUntouched
<1> QED  BY <1>4, <1>5

-----------------------------------------------------------------------------
(***************************************************************************)
(* Steps of a refresher.                                                   *)
(***************************************************************************)
\* The refresher r goes on to x; the others are where they were.
Becomes(r, x) == refresher' = [refresher EXCEPT ![r] = x]

LEMMA OneMoves ==
  ASSUME DOMAIN refresher = Refreshers, NEW r \in Refreshers, NEW x, Becomes(r, x)
  PROVE  /\ DOMAIN refresher' = Refreshers
         /\ refresher'[r] = x
         /\ \A q \in Refreshers \ {r} : refresher'[q] = refresher[q]
BY DEF Becomes

\* Whoever is not resting holds the lock, so the others are not being answered.
LEMMA OthersRest ==
  ASSUME LockOK, NEW r \in Refreshers, holder \in {r, Nobody}
  PROVE  \A q \in Refreshers \ {r} : refresher[q].phase \in Resting
BY TokenAssumption DEF LockOK

LEMMA RefreshersMove ==
  ASSUME Types, LockOK, NEW r \in Refreshers, holder \in {r, Nobody}, NEW x, Becomes(r, x),
         CountsOK', issued' >= issued, epoch' = epoch, RefresherOK(x)'
  PROVE  DOMAIN refresher' = Refreshers /\ \A q \in Refreshers : RefresherOK(refresher[q])'
<1>1. \A q \in Refreshers \ {r} : refresher[q].phase \in Resting
  BY OthersRest
<1>2. /\ DOMAIN refresher' = Refreshers /\ refresher'[r] = x
      /\ \A q \in Refreshers \ {r} : refresher'[q] = refresher[q]
  BY OneMoves DEF Types
<1>3. \A q \in Refreshers \ {r} : RefresherOK(refresher[q])'
  BY <1>1, <1>2 DEF RefresherOK, Refreshed, Resting
<1>4. RefresherOK(refresher[r])'
  BY <1>2 DEF RefresherOK, Refreshed
<1> QED  BY <1>2, <1>3, <1>4

LEMMA LockTaken ==
  ASSUME Types, LockOK, NEW r \in Refreshers, holder \in {r, Nobody}, NEW x, Becomes(r, x),
         x.phase \notin Resting, holder' = r
  PROVE  LockOK'
<1>1. \A q \in Refreshers \ {r} : refresher[q].phase \in Resting
  BY OthersRest
<1> QED  BY <1>1, OneMoves DEF LockOK, Types

LEMMA LockFreed ==
  ASSUME Types, LockOK, NEW r \in Refreshers, holder \in {r, Nobody}, NEW x, Becomes(r, x),
         x.phase \in Resting, holder' = Nobody
  PROVE  LockOK'
<1>1. \A q \in Refreshers \ {r} : refresher[q].phase \in Resting
  BY OthersRest
<1> QED  BY <1>1, OneMoves, TokenAssumption DEF LockOK, Types

\* A step of a refresher that consumes nothing and installs no other token.
LEMMA TokensQuiet ==
  ASSUME Types, TokensOK, NEW r \in Refreshers, NEW x, Becomes(r, x),
         ~Refreshed(refresher[r]), UNCHANGED <<epoch, issued, live, lost>>,
         disturbed \subseteq disturbed', Held => Held' /\ held'.token = held.token,
         Undisturbed => Presents(x, held.token)
  PROVE  TokensOK'
<1> SUFFICES ASSUME Undisturbed' PROVE TokensOK'
  BY DEF TokensOK
<1>1. Undisturbed
  BY DEF Undisturbed
<1>2. /\ refresher'[r] = x
      /\ \A q \in Refreshers \ {r} : refresher'[q] = refresher[q]
  BY OneMoves DEF Types
<1>3. Held' /\ held'.token = held.token
  BY <1>1 DEF TokensOK
<1>4. \A t \in (1 .. issued') \ live' :
        \/ t < held'.token
        \/ t = held'.token /\ \E q \in Refreshers : Refreshed(refresher'[q])
        \/ t \in lost'
  <2>1. \A q \in Refreshers : Refreshed(refresher[q]) => Refreshed(refresher'[q])
    BY <1>2
  <2> QED  BY <1>1, <1>3, <2>1 DEF TokensOK
<1>5. \A q \in Refreshers : Presents(refresher[q], held.token)'
  BY <1>1, <1>2, <1>3 DEF TokensOK, Presents
<1> QED  BY <1>3, <1>4, <1>5 DEF TokensOK, Refreshed

LEMMA BeginKeeps ==
  ASSUME RefreshInvariant, NEW r \in Refreshers, Begin(r)
  PROVE  RefreshInvariant'
<1> USE DEF RefreshInvariant
<1>1. UNCHANGED <<issued, live, stray, lost, epoch, holder, held, patch, reload, queued, file,
                  guard, disturbed>>
  BY DEF Begin, fileVars, watchVars, upstreamVars
<1>2. CountsOK' /\ Auths' = Auths /\ Files' = Files
  BY <1>1, SameCounts
<1>3. PICK failed : Becomes(r, [phase |-> "waiting", failed |-> failed])
  BY DEF Begin, Becomes
<1> DEFINE x == [phase |-> "waiting", failed |-> failed]
<1>4. x.phase = "waiting" /\ Becomes(r, x)
  BY <1>3
<1> HIDE DEF x
<1>5. /\ DOMAIN refresher' = Refreshers /\ refresher'[r] = x
      /\ \A q \in Refreshers \ {r} : refresher'[q] = refresher[q]
  BY <1>4, OneMoves DEF Types
<1>6. refresher[r].phase = "idle"
  BY DEF Begin
<1>7. \A q \in Refreshers : RefresherOK(refresher[q])'
  BY <1>1, <1>2, <1>4, <1>5 DEF Types, RefresherOK, Refreshed
<1>8. Types'
  BY <1>1, <1>2, <1>5, <1>7 DEF Types, Held
<1>9. LockOK'
  BY <1>1, <1>4, <1>5, <1>6 DEF LockOK, Resting
<1>10. ~Refreshed(refresher[r])
  BY <1>6 DEF Refreshed
<1>11. TokensOK'
  BY <1>1, <1>4, <1>10, TokensQuiet DEF Held, Presents
<1> QED  BY <1>8, <1>9, <1>11

LEMMA LockKeeps ==
  ASSUME RefreshInvariant, NEW r \in Refreshers, Lock(r)
  PROVE  RefreshInvariant'
<1> USE DEF RefreshInvariant
<1>1. UNCHANGED <<issued, live, stray, lost, epoch, held, patch, reload, queued, file, guard,
                  disturbed>>
  BY DEF Lock, fileVars, watchVars, upstreamVars
<1>2. CountsOK' /\ Auths' = Auths /\ Files' = Files
  BY <1>1, SameCounts
<1>3. issued' >= issued /\ holder \in {r, Nobody} /\ ~Refreshed(refresher[r])
  BY <1>1 DEF Lock, Types, CountsOK, Refreshed
<1>4. CASE Unlock(r)
  <2>1. Becomes(r, Idle) /\ holder' = Nobody
    BY <1>4 DEF Unlock, Return, Becomes
  <2>2. Idle.phase = "idle"
    BY DEF Idle
  <2>3. RefresherOK(Idle)' /\ LockOK'
    BY <1>3, <2>1, <2>2, LockFreed DEF RefresherOK, Refreshed, Resting, Idle
  <2>4. Types'
    BY <1>1, <1>2, <1>3, <2>1, <2>3, RefreshersMove DEF Types, Held
  <2>5. TokensOK'
    BY <1>1, <1>3, <2>1, <2>2, TokensQuiet DEF Held, Presents
  <2> QED  BY <2>3, <2>4, <2>5
<1>5. CASE ~Unlock(r)
  <2>1. holder' = r /\ Held
    BY <1>5 DEF Lock
  <2>2. PICK x : Becomes(r, x) /\ x.phase = "asking" /\ x.base = held
    <3>1. Becomes(r, Asking(held, 1))
      BY <1>5 DEF Lock, Becomes
    <3>2. Asking(held, 1).phase = "asking" /\ Asking(held, 1).base = held
      BY DEF Asking
    <3> QED  BY <3>1, <3>2
  <2>3. RefresherOK(x)'
    <3>1. held \in Auths'
      BY <1>2, <2>1 DEF Types
    <3> QED  BY <2>2, <3>1 DEF RefresherOK, Refreshed
  <2>4. LockOK'
    BY <1>3, <2>1, <2>2, LockTaken DEF Resting
  <2>5. Types'
    BY <1>1, <1>2, <1>3, <2>1, <2>2, <2>3, RefreshersMove DEF Types, Held
  \* Nobody is being answered, so the token that is held is still accepted, or its successor lost.
  <2>6. Undisturbed => held.token \in live \cup lost /\ held.token <= held.token
    <3>1. holder = Nobody
      BY DEF Lock
    <3>2. \A q \in Refreshers : ~Refreshed(refresher[q])
      BY <3>1, TokenAssumption DEF LockOK, Resting, Refreshed
    <3>3. held.token \in 1 .. issued /\ issued \in Nat
      BY <2>1 DEF Types, Auths, CountsOK
    <3>4. ~(held.token < held.token) /\ held.token <= held.token
      BY <3>3
    <3> QED  BY <3>2, <3>3, <3>4 DEF TokensOK
  <2>7. TokensOK'
    BY <1>1, <1>3, <2>1, <2>2, <2>6, TokensQuiet DEF Held, Presents
  <2> QED  BY <2>4, <2>5, <2>7
<1> QED  BY <1>4, <1>5

\* Whoever asks, was answered or saves holds the lock, and frees it as it ends.
LEMMA Ends ==
  ASSUME Types, LockOK, NEW r \in Refreshers, refresher[r].phase \notin Resting, Unlock(r),
         CountsOK', issued' >= issued, epoch' = epoch
  PROVE  /\ Becomes(r, Idle)
         /\ DOMAIN refresher' = Refreshers /\ \A q \in Refreshers : RefresherOK(refresher[q])'
         /\ LockOK'
<1>1. Becomes(r, Idle) /\ holder' = Nobody /\ holder \in {r, Nobody}
  BY DEF Unlock, Return, Becomes, LockOK
<1>2. Idle.phase = "idle" /\ RefresherOK(Idle)'
  BY DEF Idle, RefresherOK, Refreshed
<1> QED  BY <1>1, <1>2, RefreshersMove, LockFreed DEF Resting

\* And keeps it as it goes on.
LEMMA GoesOn ==
  ASSUME Types, LockOK, NEW r \in Refreshers, refresher[r].phase \notin Resting, holder' = holder,
         NEW x, Becomes(r, x), x.phase \notin Resting, RefresherOK(x)',
         CountsOK', issued' >= issued, epoch' = epoch
  PROVE  /\ DOMAIN refresher' = Refreshers /\ \A q \in Refreshers : RefresherOK(refresher[q])'
         /\ LockOK'
<1>1. holder = r /\ holder' = r
  BY DEF LockOK
<1> QED  BY <1>1, RefreshersMove, LockTaken

LEMMA ExchangeKeeps ==
  ASSUME RefreshInvariant, NEW r \in Refreshers, Exchange(r)
  PROVE  RefreshInvariant'
<1> USE DEF RefreshInvariant
<1>1. UNCHANGED <<epoch, holder, held, patch, reload, queued, file, guard, disturbed>>
  BY DEF Exchange, fileVars, watchVars
<1>2. refresher[r].phase = "asking" /\ refresher[r].base \in Auths
  BY DEF Exchange, Types, RefresherOK
<1>3. /\ issued \in Nat /\ issued # 0 /\ epoch \in Nat /\ epoch # 0
      /\ live \subseteq 1 .. issued /\ stray \cup lost \subseteq 1 .. issued
  BY DEF Types, CountsOK
<1>4. refresher[r].phase \notin Resting /\ ~Refreshed(refresher[r])
  BY <1>2 DEF Resting, Refreshed
<1>5. CASE refresher[r].base.token \in live
  <2> DEFINE token == refresher[r].base.token
  <2>1. /\ issued' = issued + 1 /\ live' = (live \ {token}) \cup {issued'}
        /\ UNCHANGED <<stray, lost>>
    BY <1>5 DEF Exchange, Rotate
  <2>2. PICK x : Becomes(r, x) /\ x.phase = "answered" /\ x.base = refresher[r].base
                 /\ x.outcome = "refreshed" /\ x.token = issued'
    <3> DEFINE y == [phase |-> "answered", base |-> refresher[r].base,
                    outcome |-> "refreshed", token |-> issued']
    <3>1. Becomes(r, y)
      BY <1>5 DEF Exchange, Answered, Becomes
    <3>2. y.phase = "answered" /\ y.base = refresher[r].base
          /\ y.outcome = "refreshed" /\ y.token = issued'
      OBVIOUS
    <3> HIDE DEF y
    <3> QED  BY <3>1, <3>2
  <2>3. issued' >= issued /\ epoch' >= epoch
    BY <1>1, <1>3, <2>1
  <2>4. CountsOK'
    <3>1. issued' \in Nat \ {0}
      BY <1>3, <2>1
    <3>2. live' \subseteq 1 .. issued' /\ stray' \cup lost' \subseteq 1 .. issued'
      <4>1. issued \in Nat
        BY <1>3
      <4>2. issued' = issued + 1
        BY <2>1
      <4>3. 1 .. issued \subseteq 1 .. issued' /\ issued' \in 1 .. issued'
        BY <4>1, <4>2
      <4> QED  BY <1>3, <2>1, <4>3
    <3>3. epoch' \in Nat \ {0}
      BY <1>1 DEF Types, CountsOK
    <3> QED  BY <3>1, <3>2, <3>3 DEF CountsOK
  <2>5. Auths \subseteq Auths' /\ Files \subseteq Files'
    BY <1>1, <1>3, <2>1, <2>3, Growth DEF Types
  <2>6. RefresherOK(x)'
    <3>1. issued' \notin stray'
      BY <1>3, <2>1
    <3> QED  BY <1>2, <2>1, <2>2, <2>5, <3>1 DEF RefresherOK, Refreshed
  <2>7. /\ DOMAIN refresher' = Refreshers /\ \A q \in Refreshers : RefresherOK(refresher[q])'
        /\ LockOK'
    BY <1>1, <1>4, <2>2, <2>3, <2>4, <2>6, GoesOn DEF Resting
  <2>8. queued' \in Seq(Files')
    <3>1. queued \in Seq(Files)
      BY DEF Types
    <3>2. Len(queued) \in Nat /\ queued \in [1 .. Len(queued) -> Files']
      BY <2>5, <3>1
    <3> QED  BY <1>1, <3>2
  <2>9. Types'
    BY <1>1, <2>4, <2>5, <2>7, <2>8 DEF Types, Held
  <2>10. TokensOK'
    <3> SUFFICES ASSUME Undisturbed' PROVE TokensOK'
      BY DEF TokensOK
    <3>1. Undisturbed
      BY <1>1 DEF Undisturbed
    <3>2. /\ refresher'[r] = x
          /\ \A q \in Refreshers \ {r} : refresher'[q] = refresher[q]
      BY <2>2, OneMoves DEF Types
    <3>3. Held' /\ held' = held /\ held.token \in 1 .. issued
      BY <1>1, <3>1 DEF TokensOK, Held, Types, Auths
    <3>4. Refreshed(refresher'[r])
      BY <2>2, <3>2 DEF Refreshed
    \* What is consumed now was held when the lock was taken, and nothing older came back since.
    <3>5. token \in 1 .. issued /\ token <= held.token
      BY <1>2, <3>1 DEF TokensOK, Presents, Auths
    <3> HIDE DEF token
    <3>6. \A t \in (1 .. issued') \ live' :
            \/ t < held.token
            \/ t = held.token /\ \E q \in Refreshers : Refreshed(refresher'[q])
            \/ t \in lost'
      <4>1. \A t \in (1 .. issued') \ live' : t \in 1 .. issued /\ (t = token \/ t \notin live)
        BY <1>3, <2>1
      <4>2. \A t \in 1 .. issued : t = token \/ t \notin live =>
               t < held.token \/ t = held.token \/ t \in lost
        BY <3>1, <3>3, <3>5 DEF TokensOK
      <4> QED  BY <2>1, <3>4, <4>1, <4>2
    <3>7. \A q \in Refreshers \ {r} : refresher[q].phase \in Resting
      BY <1>4, OthersRest DEF LockOK
    <3>8. \A q \in Refreshers : Presents(refresher[q], held.token)'
      BY <2>2, <3>2, <3>7 DEF Presents, Resting
    <3> QED  BY <3>3, <3>6, <3>8 DEF TokensOK, Refreshed
  <2> QED  BY <2>7, <2>9, <2>10
<1>6. CASE refresher[r].base.token \notin live
  <2>1. UNCHANGED <<issued, live, stray, lost>>
    BY <1>6 DEF Exchange, upstreamVars
  <2>2. PICK x : Becomes(r, x) /\ x.phase = "answered" /\ x.outcome = "refused"
                 /\ x.base = refresher[r].base
    <3> DEFINE y == [phase |-> "answered", base |-> refresher[r].base,
                    outcome |-> "refused", token |-> NoToken]
    <3>1. Becomes(r, y)
      BY <1>6 DEF Exchange, Answered, Becomes
    <3>2. y.phase = "answered" /\ y.base = refresher[r].base /\ y.outcome = "refused"
      OBVIOUS
    <3> HIDE DEF y
    <3> QED  BY <3>1, <3>2
  <2>3. CountsOK' /\ Auths' = Auths /\ Files' = Files
    BY <1>1, <2>1, SameCounts
  <2>4. RefresherOK(x)'
    BY <1>2, <2>2, <2>3 DEF RefresherOK, Refreshed
  <2>5. issued' >= issued
    BY <1>3, <2>1
  <2>6. /\ DOMAIN refresher' = Refreshers /\ \A q \in Refreshers : RefresherOK(refresher[q])'
        /\ LockOK'
    BY <1>1, <1>4, <2>2, <2>3, <2>4, <2>5, GoesOn DEF Resting
  <2>7. Types'
    BY <1>1, <2>3, <2>6 DEF Types, Held
  \* Only an answer that was lost can have consumed what is presented.
  <2>8. Undisturbed => refresher[r].base.token \in lost
    BY <1>2, <1>6 DEF TokensOK, Presents
  <2>9. TokensOK'
    BY <1>1, <1>4, <2>1, <2>2, <2>8, TokensQuiet DEF Held, Presents
  <2> QED  BY <2>6, <2>7, <2>9
<1> QED  BY <1>5, <1>6

\* A try that failed leaves its token behind; nobody is being answered meanwhile.
LEMMA TryFailsKeeps ==
  ASSUME RefreshInvariant, NEW r \in Refreshers, TryFails(r)
  PROVE  RefreshInvariant'
<1> USE DEF RefreshInvariant
<1>1. UNCHANGED <<issued, live, lost, epoch, held, patch, reload, queued, file, guard, disturbed>>
  BY DEF TryFails, fileVars, watchVars
<1>2. refresher[r].phase = "asking" /\ refresher[r].base \in Auths
  BY DEF TryFails, Types, RefresherOK
<1>3. CountsOK' /\ Auths' = Auths /\ Files' = Files
  <2>1. stray' = stray \cup {refresher[r].base.token} /\ refresher[r].base.token \in 1 .. issued
    BY <1>2 DEF TryFails, Auths
  <2> QED  BY <1>1, <2>1 DEF Types, CountsOK, Auths, Contents, Files
<1>4. refresher[r].phase \notin Resting /\ ~Refreshed(refresher[r])
  BY <1>2 DEF Resting, Refreshed
<1>5. issued' >= issued
  BY <1>1 DEF Types, CountsOK
<1>6. Undisturbed => Presents(refresher[r], held.token)
  BY DEF TokensOK
<1>7. ASSUME NEW x, Becomes(r, x), UNCHANGED holder,
             x.phase \in {"asking", "answered"}, x.base = refresher[r].base,
             x.phase = "answered" => x.outcome = "unreachable"
      PROVE  RefreshInvariant'
  <2>1. RefresherOK(x)'
    BY <1>2, <1>3, <1>7 DEF RefresherOK, Refreshed
  <2>2. /\ DOMAIN refresher' = Refreshers /\ \A q \in Refreshers : RefresherOK(refresher[q])'
        /\ LockOK'
    BY <1>1, <1>3, <1>4, <1>5, <1>7, <2>1, GoesOn DEF Resting
  <2>3. Types'
    BY <1>1, <1>3, <2>2 DEF Types, Held
  <2>4. Undisturbed => Presents(x, held.token)
    BY <1>2, <1>6, <1>7 DEF Presents
  <2>5. TokensOK'
    BY <1>1, <1>4, <1>7, <2>4, TokensQuiet DEF Held
  <2> QED  BY <2>2, <2>3, <2>5
<1>8. CASE Answered(r, "unreachable", NoToken) /\ UNCHANGED holder
  <2> DEFINE y == [phase |-> "answered", base |-> refresher[r].base,
                  outcome |-> "unreachable", token |-> NoToken]
  <2>1. Becomes(r, y)
    BY <1>8 DEF Answered, Becomes
  <2>2. y.phase = "answered" /\ y.base = refresher[r].base /\ y.outcome = "unreachable"
    OBVIOUS
  <2> HIDE DEF y
  <2> QED  BY <1>7, <1>8, <2>1, <2>2
<1>9. CASE /\ refresher' = [refresher EXCEPT ![r] = Asking(@.base, @.try + 1)]
           /\ UNCHANGED holder
  <2> DEFINE y == Asking(refresher[r].base, refresher[r].try + 1)
  <2>1. Becomes(r, y)
    BY <1>9 DEF Becomes
  <2>2. y.phase = "asking" /\ y.base = refresher[r].base
    BY DEF Asking
  <2> HIDE DEF y
  <2> QED  BY <1>7, <1>9, <2>1, <2>2
<1>10. CASE Unlock(r)
  <2>1. /\ Becomes(r, Idle)
        /\ DOMAIN refresher' = Refreshers /\ \A q \in Refreshers : RefresherOK(refresher[q])'
        /\ LockOK'
    BY <1>1, <1>3, <1>4, <1>5, <1>10, Ends
  <2>2. Types'
    BY <1>1, <1>3, <2>1 DEF Types, Held
  <2>3. Idle.phase = "idle"
    BY DEF Idle
  <2>4. TokensOK'
    BY <1>1, <1>4, <2>1, <2>3, TokensQuiet DEF Held, Presents
  <2> QED  BY <2>1, <2>2, <2>4
<1> QED  BY <1>8, <1>9, <1>10 DEF TryFails

\* What a request that was given up consumes is lost; the answer that is on its way is newer than
\* every such request.
LEMMA ExchangeUnheardKeeps == RefreshInvariant /\ ExchangeUnheard => RefreshInvariant'
<1> SUFFICES ASSUME RefreshInvariant, ExchangeUnheard PROVE RefreshInvariant'
  OBVIOUS
<1> USE DEF RefreshInvariant
<1>1. UNCHANGED <<held, epoch, holder, refresher, patch, reload, queued, file, guard, disturbed>>
  BY DEF ExchangeUnheard, fileVars, watchVars
<1>2. PICK token \in stray \cap live : Rotate(token) /\ lost' = lost \cup {token}
  BY DEF ExchangeUnheard
<1>3. issued' = issued + 1 /\ live' = (live \ {token}) \cup {issued'} /\ UNCHANGED stray
  BY <1>2 DEF Rotate
<1>4. /\ issued \in Nat /\ issued # 0
      /\ live \subseteq 1 .. issued /\ stray \cup lost \subseteq 1 .. issued
  BY DEF Types, CountsOK
<1>5. issued' \in Nat /\ issued' >= issued /\ epoch' \in Nat /\ epoch' >= epoch
  BY <1>1, <1>3, <1>4 DEF Types, CountsOK
<1>6. CountsOK'
  <2>1. 1 .. issued \subseteq 1 .. issued' /\ issued' \in 1 .. issued' /\ issued' # 0
    BY <1>3, <1>4
  <2>2. live' \subseteq 1 .. issued' /\ stray' \cup lost' \subseteq 1 .. issued'
    BY <1>2, <1>3, <1>4, <2>1
  <2> QED  BY <1>1, <1>5, <2>1, <2>2 DEF Types, CountsOK
<1>7. Auths \subseteq Auths' /\ Files \subseteq Files'
  BY <1>5, Growth DEF Types
<1>8. \A q \in Refreshers : RefresherOK(refresher[q])'
  BY <1>1, <1>2, <1>3, <1>7 DEF Types, RefresherOK, Refreshed
<1>9. queued' \in Seq(Files')
  <2>1. queued \in Seq(Files)
    BY DEF Types
  <2>2. Len(queued) \in Nat /\ queued \in [1 .. Len(queued) -> Files']
    BY <1>7, <2>1
  <2> QED  BY <1>1, <2>2
<1>10. Types'
  BY <1>1, <1>6, <1>7, <1>8, <1>9 DEF Types, Held
<1>11. TokensOK'
  <2> SUFFICES ASSUME Undisturbed' PROVE TokensOK'
    BY DEF TokensOK
  <2>1. Undisturbed
    BY <1>1 DEF Undisturbed
  <2>2. Held' /\ held' = held
    BY <1>1, <2>1 DEF TokensOK, Held
  <2>3. \A t \in (1 .. issued') \ live' : t \in (1 .. issued) \ live \/ t \in lost'
    BY <1>2, <1>3, <1>4
  <2>4. \A t \in (1 .. issued') \ live' :
          \/ t < held'.token
          \/ t = held'.token /\ \E q \in Refreshers : Refreshed(refresher'[q])
          \/ t \in lost'
    BY <1>1, <1>2, <2>1, <2>3 DEF TokensOK
  <2>5. \A q \in Refreshers : Presents(refresher[q], held.token)'
    BY <1>1, <1>2, <1>3, <2>1 DEF TokensOK, Presents
  <2> QED  BY <2>2, <2>4, <2>5 DEF TokensOK, Refreshed
<1> QED  BY <1>1, <1>10, <1>11, LockUntouched

\* An error of the exchange leaves the token as it is.
LEMMA FailedKeeps ==
  ASSUME RefreshInvariant, NEW r \in Refreshers, Failed(r)
  PROVE  RefreshInvariant'
<1> USE DEF RefreshInvariant
<1>1. /\ UNCHANGED <<issued, live, stray, lost, epoch, patch, reload, queued, file, guard>>
      /\ Unlock(r)
  BY DEF Failed, fileVars, watchVars, upstreamVars
<1>2. CountsOK' /\ Auths' = Auths /\ Files' = Files
  BY <1>1, SameCounts
<1>3. refresher[r].phase \notin Resting /\ ~Refreshed(refresher[r])
  BY DEF Failed, Resting, Refreshed
<1>4. issued' >= issued
  BY <1>1 DEF Types, CountsOK
<1>5. /\ Becomes(r, Idle)
      /\ DOMAIN refresher' = Refreshers /\ \A q \in Refreshers : RefresherOK(refresher[q])'
      /\ LockOK'
  BY <1>1, <1>2, <1>3, <1>4, Ends
<1>6. /\ disturbed \subseteq disturbed'
      /\ Held => held' \in Auths /\ held'.token = held.token /\ held'.epoch = held.epoch
      /\ ~Held => held' = held
  <2>1. CASE SameRegistration(r)
    <3> DEFINE auth == [held EXCEPT !.generation = @ + 1, !.error = "refresh"]
    <3>1. Install(auth)
      BY <2>1 DEF Failed
    <3>2. Held /\ held \in Auths
      BY <2>1 DEF SameRegistration, Types
    <3>3. auth \in Auths /\ auth.token = held.token /\ auth.epoch = held.epoch
      BY <3>2, NextGeneration DEF Errors
    <3> HIDE DEF auth
    <3> QED  BY <3>1, <3>2, <3>3 DEF Install
  <2>2. CASE ~SameRegistration(r)
    <3>1. UNCHANGED <<held, disturbed>>
      BY <2>2 DEF Failed
    <3> QED  BY <3>1 DEF Types
  <2> QED  BY <2>1, <2>2
<1>7. Held => Held'
  <2>1. issued \in Nat /\ epoch \in Nat
    BY DEF Types, CountsOK
  <2> QED  BY <1>6, <2>1, AuthIsHeld DEF Held, Auths
<1>8. Types'
  BY <1>1, <1>2, <1>5, <1>6 DEF Types, Held
<1>9. Idle.phase = "idle"
  BY DEF Idle
<1>10. TokensOK'
  BY <1>1, <1>3, <1>5, <1>6, <1>7, <1>9, TokensQuiet DEF Presents
<1> QED  BY <1>5, <1>8, <1>10

LEMMA SaveKeeps ==
  ASSUME RefreshInvariant, NEW r \in Refreshers, Save(r)
  PROVE  RefreshInvariant'
<1> USE DEF RefreshInvariant
<1>1. /\ UNCHANGED <<issued, live, stray, lost, epoch, held, patch, reload, queued, disturbed>>
      /\ Unlock(r) /\ refresher[r].phase = "saving" /\ persist(refresher[r].auth, FALSE)
  BY DEF Save, SaveOf, watchVars, upstreamVars
<1>2. CountsOK' /\ Auths' = Auths /\ Files' = Files
  BY <1>1, SameCounts
<1>3. refresher[r].phase \notin Resting /\ ~Refreshed(refresher[r])
  BY <1>1 DEF Resting, Refreshed
<1>4. issued' >= issued
  BY <1>1 DEF Types, CountsOK
<1>5. /\ Becomes(r, Idle)
      /\ DOMAIN refresher' = Refreshers /\ \A q \in Refreshers : RefresherOK(refresher[q])'
      /\ LockOK'
  BY <1>1, <1>2, <1>3, <1>4, Ends
<1>6. refresher[r].auth \in Auths
  BY <1>1 DEF Types, RefresherOK
<1>7. file' \in Files /\ guard'.epoch \in 1 .. epoch
  BY <1>1, <1>6, PersistKeeps
<1>8. Types'
  BY <1>1, <1>2, <1>5, <1>7 DEF Types, Held
<1>9. Idle.phase = "idle"
  BY DEF Idle
<1>10. TokensOK'
  BY <1>1, <1>3, <1>5, <1>9, TokensQuiet DEF Held, Presents
<1> QED  BY <1>5, <1>8, <1>10

LEMMA ThreeFields ==
  ASSUME NEW a \in Auths, NEW t, NEW d, NEW e
  PROVE  [a EXCEPT !.token = t, !.disabled = d, !.error = e]
           = [epoch |-> a.epoch, generation |-> a.generation,
              token |-> t, disabled |-> d, error |-> e]
<1> DEFINE one == [a EXCEPT !.token = t]
           two == [one EXCEPT !.disabled = d]
           three == [two EXCEPT !.error = e]
<1>1. one = [epoch |-> a.epoch, generation |-> a.generation,
             token |-> t, disabled |-> a.disabled, error |-> a.error]
  BY DEF Auths
<1>2. two = [epoch |-> a.epoch, generation |-> a.generation,
             token |-> t, disabled |-> d, error |-> a.error]
  <2> HIDE DEF one
  <2> QED  BY <1>1
<1>3. three = [epoch |-> a.epoch, generation |-> a.generation,
               token |-> t, disabled |-> d, error |-> e]
  <2> HIDE DEF two
  <2> QED  BY <1>2
<1> QED  BY <1>3

\* The refreshed credential: the token is the executor's, and the registration stays.
LEMMA MergeShape ==
  ASSUME NEW base \in Auths, NEW current \in Auths, NEW updated \in Auths
  PROVE  LET merged == [MergeRefreshedAuth(base, current, updated) EXCEPT !.generation = @ + 1]
         IN  /\ merged \in Auths /\ merged.token = updated.token
             /\ merged.epoch = current.epoch /\ merged.generation = current.generation + 1
<1> DEFINE disabled == IF (updated.disabled # base.disabled) /\ ~(current.disabled # base.disabled)
                       THEN updated.disabled ELSE current.disabled
           error == IF current.error \notin {"none", base.error} \/ current.disabled
                    THEN current.error ELSE updated.error
           merged == [MergeRefreshedAuth(base, current, updated) EXCEPT !.generation = @ + 1]
<1> DEFINE first == [current EXCEPT !.token = updated.token, !.disabled = disabled, !.error = error]
<1>4. MergeRefreshedAuth(base, current, updated) = first
  BY DEF MergeRefreshedAuth
<1>5. first = [epoch |-> current.epoch, generation |-> current.generation,
               token |-> updated.token, disabled |-> disabled, error |-> error]
  <2> HIDE DEF disabled, error
  <2> QED  BY ThreeFields
<1>1. merged = [epoch |-> current.epoch, generation |-> current.generation + 1,
                token |-> updated.token, disabled |-> disabled, error |-> error]
  <2>1. merged = [first EXCEPT !.generation = @ + 1]
    BY <1>4
  <2> HIDE DEF merged, first, disabled, error
  <2> QED  BY <1>5, <2>1
<1>2. disabled \in BOOLEAN /\ error \in Errors
  BY DEF Auths
<1> HIDE DEF disabled, error, merged
<1>3. /\ merged \in Auths /\ merged.token = updated.token
      /\ merged.epoch = current.epoch /\ merged.generation = current.generation + 1
  BY <1>1, <1>2 DEF Auths
<1> QED  BY <1>3 DEF merged

\* The new token replaces one that is not newer, or "older token" says otherwise; the one it
\* replaces is consumed, and older.
LEMMA SucceededKeeps ==
  ASSUME RefreshInvariant, NEW r \in Refreshers, Succeeded(r)
  PROVE  RefreshInvariant'
<1> USE DEF RefreshInvariant
<1>1. UNCHANGED <<issued, live, stray, lost, epoch, patch, reload, queued, file, guard>>
  BY DEF Succeeded, fileVars, watchVars, upstreamVars
<1>2. CountsOK' /\ Auths' = Auths /\ Files' = Files
  BY <1>1, SameCounts
<1>3. Refreshed(refresher[r]) /\ refresher[r].phase \notin Resting
  BY DEF Succeeded, Resting, Refreshed
<1>4. refresher[r].base \in Auths /\ refresher[r].token \in live
  BY <1>3 DEF Types, RefresherOK, Refreshed
<1>5. issued' >= issued /\ issued \in Nat /\ refresher[r].token \in 1 .. issued
  <2>1. issued' >= issued /\ issued \in Nat
    BY <1>1 DEF Types, CountsOK
  <2>2. refresher[r].token \in 1 .. issued
    BY <1>4 DEF Types, CountsOK
  <2> QED  BY <2>1, <2>2
<1>6. CASE SameRegistration(r)
  <2> DEFINE base == refresher[r].base
             updated == [base EXCEPT !.token = refresher[r].token, !.error = "none"]
             merged == [MergeRefreshedAuth(base, held, updated) EXCEPT !.generation = @ + 1]
  <2>1. Install(merged) /\ Becomes(r, Saving(merged)) /\ UNCHANGED holder
    BY <1>6 DEF Succeeded, Becomes
  <2>2. Held /\ held \in Auths /\ held.epoch = epoch
    BY <1>6 DEF SameRegistration, Types
  <2>3. updated \in Auths /\ updated.token = refresher[r].token
    BY <1>4, <1>5 DEF Auths, Errors
  <2>4. merged \in Auths /\ merged.token = refresher[r].token /\ merged.epoch = epoch
    <3> HIDE DEF updated
    <3> QED  BY <1>4, <2>2, <2>3, MergeShape
  <2> HIDE DEF base, updated, merged
  <2>5. PICK x : Becomes(r, x) /\ x.phase = "saving" /\ x.auth = merged
    <3>1. Saving(merged).phase = "saving" /\ Saving(merged).auth = merged
      BY DEF Saving
    <3> QED  BY <2>1, <3>1
  <2>6. RefresherOK(x)'
    BY <1>2, <2>4, <2>5 DEF RefresherOK, Refreshed
  <2>7. /\ DOMAIN refresher' = Refreshers /\ \A q \in Refreshers : RefresherOK(refresher[q])'
        /\ LockOK'
    BY <1>1, <1>2, <1>3, <1>5, <2>1, <2>5, <2>6, GoesOn DEF Resting
  <2>8. held' = merged /\ disturbed \subseteq disturbed'
    BY <2>1 DEF Install
  <2>9. Types'
    BY <1>1, <1>2, <2>4, <2>7, <2>8 DEF Types
  <2>10. TokensOK'
    <3> SUFFICES ASSUME Undisturbed' PROVE TokensOK'
      BY DEF TokensOK
    <3>1. Undisturbed
      BY <1>1, <2>8 DEF Undisturbed
    <3>2. Held'
      <4>1. issued \in Nat /\ epoch \in Nat
        BY DEF Types, CountsOK
      <4> QED  BY <2>4, <2>8, <4>1, AuthIsHeld DEF Held, Auths
    <3>3. held'.token = refresher[r].token /\ ~(held'.token < held.token)
      BY <2>1, <2>2, <2>4, <2>8 DEF Install, Undisturbed
    <3>4. held.token \in 1 .. issued
      BY <2>2 DEF Auths
    <3>5. \A t \in (1 .. issued') \ live' : t < held'.token \/ t \in lost'
      <4> SUFFICES ASSUME NEW t \in (1 .. issued) \ live, t \notin lost PROVE t < held'.token
        BY <1>1
      <4>1. t < held.token \/ t = held.token
        BY <3>1 DEF TokensOK
      <4>2. t # held'.token
        BY <1>4, <3>3
      <4>3. held'.token \in 1 .. issued
        BY <1>5, <3>3
      <4> QED  BY <1>5, <3>3, <3>4, <4>1, <4>2, <4>3
    <3>6. /\ refresher'[r] = x
          /\ \A q \in Refreshers \ {r} : refresher'[q] = refresher[q]
      BY <2>5, OneMoves DEF Types
    <3>7. \A q \in Refreshers \ {r} : refresher[q].phase \in Resting
      <4>1. holder \in {r, Nobody}
        BY <1>3 DEF LockOK
      <4> QED  BY <4>1, OthersRest
    <3>8. \A q \in Refreshers : refresher'[q].phase \notin {"asking", "answered"}
      BY <2>5, <3>6, <3>7 DEF Resting
    <3> QED  BY <3>2, <3>5, <3>8 DEF TokensOK, Presents
  <2> QED  BY <2>7, <2>9, <2>10
<1>7. CASE ~SameRegistration(r)
  <2>1. Unlock(r) /\ UNCHANGED <<held, disturbed>>
    BY <1>7 DEF Succeeded
  <2>2. /\ DOMAIN refresher' = Refreshers /\ \A q \in Refreshers : RefresherOK(refresher[q])'
        /\ LockOK'
    BY <1>1, <1>2, <1>3, <1>5, <2>1, Ends
  <2>3. Types'
    BY <1>1, <1>2, <2>1, <2>2 DEF Types, Held
  \* There is but one registration as long as nothing is disturbed.
  <2>4. ~Undisturbed'
    <3> SUFFICES ASSUME Undisturbed PROVE FALSE
      BY <1>1, <2>1 DEF Undisturbed
    <3>1. Held /\ held.epoch = 1
      BY DEF TokensOK, Types, Undisturbed
    <3>2. refresher[r].base.epoch \in 1 .. 1
      BY <1>4 DEF Auths, Undisturbed
    <3>3. refresher[r].base.epoch = 1
      BY <3>2
    <3> QED  BY <1>7, <3>1, <3>3 DEF SameRegistration
  <2> QED  BY <2>2, <2>3, <2>4 DEF TokensOK
<1> QED  BY <1>6, <1>7

-----------------------------------------------------------------------------
(***************************************************************************)
(* The file.                                                               *)
(***************************************************************************)
\* What the refreshers and the operator have still to write, and the service to account for.
Saves == {refresher[r].auth : r \in {q \in Refreshers : refresher[q].phase = "saving"}}
           \cup (IF patch.phase = "saving" THEN {patch.auth} ELSE {})
Reloads == IF reload.phase = "saving" THEN {reload.auth} ELSE {}

\* What the file should hold.
Target == IF Held THEN Content(held) ELSE NoFile

\* Nothing that waits to be saved, and nothing that was, is newer than what is held.
VersionsOK ==
  /\ guard.generation \in Nat
  /\ guard.epoch = epoch => Held /\ guard.generation <= held.generation
  /\ \A a \in Saves \cup Reloads : a.epoch = epoch => Held /\ a.generation <= held.generation

\* What the watcher parsed last is the file, unless an event says otherwise, and the end of its
\* queue.
WatchOK ==
  /\ parsed \in Files
  /\ ~event => file = parsed
  /\ queued # <<>> => queued[Len(queued)] = parsed
  /\ queued = <<>> /\ parsed = NoFile => ~Held

\* This save will be written, it holds what the manager holds, and none comes after it.
Newest(p) ==
  /\ p.epoch = epoch
  /\ Held
  /\ ~Overtaken(p)
  /\ Content(p) = Content(held)
  /\ \A a \in (Saves \cup Reloads) \ {p} : a.epoch = epoch => a.generation < p.generation

\* With nothing queued, the manager holds what the watcher parsed last; or the save that will
\* make the file agree is on its way; or it was written, or failed, and every other one is left out.
AgreementOK ==
  "restored file" \notin disturbed /\ queued = <<>> =>
    \/ Target = parsed
    \/ \E p \in Saves : Newest(p)
    \/ (\A a \in Saves : Overtaken(a)) /\ (file = parsed /\ ~unsaved => file = Target)

FileOK == VersionsOK /\ WatchOK /\ AgreementOK

FileInvariant == RefreshInvariant /\ FileOK

LEMMA PendingAuths ==
  ASSUME Types
  PROVE  Saves \subseteq Auths /\ Reloads \subseteq Auths
<1>1. \A r \in Refreshers : refresher[r].phase = "saving" => refresher[r].auth \in Auths
  BY DEF Types, RefresherOK
<1>2. patch.phase = "saving" => patch.auth \in Auths
  BY DEF Types
<1>3. reload.phase = "saving" => reload.auth \in Auths
  BY DEF Types
<1> QED  BY <1>1, <1>2, <1>3 DEF Saves, Reloads

\* What the versions are made of.
LEMMA Numbers ==
  ASSUME Types, VersionsOK
  PROVE  /\ epoch \in Nat /\ guard.epoch \in Nat /\ guard.epoch <= epoch /\ guard.generation \in Nat
         /\ \A a \in Auths : a.epoch \in Nat /\ a.epoch <= epoch /\ a.generation \in Nat
         /\ Held => held.epoch = epoch /\ held.generation \in Nat
<1>1. epoch \in Nat
  BY DEF Types, CountsOK
<1>2. guard.epoch \in 1 .. epoch /\ guard.generation \in Nat
  BY DEF Types, VersionsOK
<1>3. \A a \in Auths : a.epoch \in 1 .. epoch /\ a.generation \in Nat
  BY DEF Auths
<1>4. Held => held.epoch = epoch /\ held \in Auths
  BY DEF Types
<1> QED  BY <1>1, <1>2, <1>3, <1>4

\* The next generation of the same content.
LEMMA BumpedShape ==
  ASSUME NEW a \in Auths, NEW e \in Errors, NEW b, b = [a EXCEPT !.generation = @ + 1, !.error = e]
  PROVE  b \in Auths /\ Content(b) = Content(a) /\ b.generation = a.generation + 1
<1>1. b = [epoch |-> a.epoch, generation |-> a.generation + 1, token |-> a.token,
           disabled |-> a.disabled, error |-> e]
  BY DEF Auths
<1> QED  BY <1>1 DEF Auths, Content

\* A step that saves nothing, reads nothing and installs no other content.
LEMMA FileUntouched ==
  ASSUME Types, FileOK,
         Files \subseteq Files', UNCHANGED <<epoch, guard, file, event, unsaved, parsed, queued,
                                             Saves, Reloads>>,
         disturbed \subseteq disturbed',
         \/ held' = held
         \/ /\ Held /\ Held' /\ Content(held') = Content(held)
            /\ held'.generation = held.generation + 1
  PROVE  FileOK'
<1> USE DEF FileOK
<1>1. Target' = Target /\ (Held' <=> Held)
  BY DEF Target, Held
<1>2. Held => held'.generation >= held.generation /\ held'.generation \in Nat /\ held.generation \in Nat
  BY Numbers DEF Held
<1>3. VersionsOK'
  <2>1. guard.epoch = epoch => Held /\ guard.generation <= held'.generation
    BY <1>2, Numbers DEF VersionsOK
  <2>2. \A a \in Saves \cup Reloads : a.epoch = epoch => Held /\ a.generation <= held'.generation
    BY <1>2, Numbers, PendingAuths DEF VersionsOK
  <2> QED  BY <1>1, <2>1, <2>2 DEF VersionsOK
<1>4. WatchOK'
  BY <1>1 DEF WatchOK
<1>5. \A a : Overtaken(a)' <=> Overtaken(a)
  BY DEF Overtaken
<1>6. \A p : Newest(p) => Newest(p)'
  BY <1>1, <1>5 DEF Newest, Held
<1>7. AgreementOK'
  BY <1>1, <1>5, <1>6 DEF AgreementOK
<1> QED  BY <1>3, <1>4, <1>7

\* The change of a refresh, or of the operator's: its save is the newest.
LEMMA SaveAdded ==
  ASSUME Types, FileOK, NEW p \in Auths, Held, Held', held' = p,
         p.epoch = epoch, p.generation = held.generation + 1,
         Saves' = Saves \cup {p},
         Files \subseteq Files', UNCHANGED <<epoch, guard, file, event, unsaved, parsed, queued,
                                             Reloads>>,
         disturbed \subseteq disturbed'
  PROVE  FileOK'
<1> USE DEF FileOK
<1>1. held.generation \in Nat /\ \A a \in Saves \cup Reloads : a.generation \in Nat
  BY Numbers, PendingAuths
<1>2. \A a \in Saves \cup Reloads : a.epoch = epoch => a.generation < p.generation
  BY <1>1 DEF VersionsOK
<1>3. guard.epoch = epoch => guard.generation < p.generation /\ guard.generation <= p.generation
  BY <1>1 DEF VersionsOK
<1>4. VersionsOK'
  <2>1. \A a \in (Saves \cup Reloads)' : a.epoch = epoch => a.generation <= p.generation
    <3>1. p.generation \in Nat
      BY <1>1
    <3> QED  BY <1>1, <1>2, <3>1
  <2> QED  BY <1>3, <2>1 DEF VersionsOK
<1>5. WatchOK'
  BY DEF WatchOK
<1>6. ~Overtaken(p)'
  <2>1. /\ epoch \in Nat /\ guard.epoch \in Nat /\ guard.epoch <= epoch
        /\ guard.generation \in Nat /\ p.generation \in Nat
    BY <1>1, Numbers
  <2> QED  BY <1>3, <2>1 DEF Overtaken
<1>7. Newest(p)'
  BY <1>2, <1>6 DEF Newest
<1> QED  BY <1>4, <1>5, <1>7 DEF AgreementOK

\* persist, written out.
LEMMA PersistCases ==
  ASSUME NEW q, NEW skip \in BOOLEAN, persist(q, skip)
  PROVE  /\ Overtaken(q) => UNCHANGED <<guard, file, event, unsaved>>
         /\ ~Overtaken(q) => guard'.epoch = q.epoch /\ guard'.generation = q.generation
         /\ ~Overtaken(q) /\ ~skip => file' = Saved(q) \/ unsaved'
         /\ skip => UNCHANGED <<file, unsaved>>
         /\ ~event' => ~event /\ file' = file
<1>1. CASE Overtaken(q)
  <2>1. UNCHANGED <<guard, file, event, unsaved>>
    BY <1>1 DEF persist
  <2>2. ~event' => ~event
    BY <1>1, Zenon DEF persist
  <2> QED  BY <1>1, <2>1, <2>2
<1>2. CASE ~Overtaken(q)
  <2>1. /\ guard' = [epoch |-> q.epoch, generation |-> q.generation]
        /\ event' = (event \/ file' # file)
    BY <1>2, Zenon DEF persist
  <2>2. \/ ~skip /\ (file' = Saved(q) \/ unsaved')
        \/ skip /\ UNCHANGED <<file, unsaved>>
    BY <1>2 DEF persist
  <2>3. ~event' => ~event /\ file' = file
    BY <2>1
  <2>4. guard'.epoch = q.epoch /\ guard'.generation = q.generation
    BY <2>1
  <2> QED  BY <1>2, <2>2, <2>3, <2>4
<1> QED  BY <1>1, <1>2

\* What persist makes of the guard and the file.
LEMMA PersistMoves ==
  ASSUME Types, FileOK, NEW q \in Auths, NEW skip \in BOOLEAN, persist(q, skip),
         UNCHANGED epoch, q.epoch = epoch => Held' /\ q.generation <= held'.generation,
         guard.epoch = epoch => Held' /\ guard.generation <= held'.generation
  PROVE  /\ guard'.generation \in Nat
         /\ guard'.epoch = epoch => Held' /\ guard'.generation <= held'.generation
         /\ \A a \in Auths : Overtaken(a) => Overtaken(a)'
<1> USE DEF FileOK
<1>1. CASE Overtaken(q)
  <2>1. guard' = guard
    BY <1>1, PersistCases
  <2> QED  BY <2>1, Numbers DEF Overtaken
<1>2. CASE ~Overtaken(q)
  <2>1. guard'.epoch = q.epoch /\ guard'.generation = q.generation
    BY <1>2, PersistCases
  <2>2. \A a \in Auths : Overtaken(a) => Overtaken(a)'
    <3> SUFFICES ASSUME NEW a \in Auths, Overtaken(a) PROVE Overtaken(a)'
      OBVIOUS
    <3>1. /\ a.epoch \in Nat /\ q.epoch \in Nat /\ guard.epoch \in Nat
          /\ a.generation \in Nat /\ q.generation \in Nat /\ guard.generation \in Nat
      BY Numbers
    <3> QED  BY <1>2, <2>1, <3>1 DEF Overtaken
  <2> QED  BY <2>1, <2>2, Numbers
<1> QED  BY <1>1, <1>2

\* A save that is written holds what the manager holds, if it is the newest.
LEMMA WrittenContent ==
  ASSUME WatchOK, Held, queued = <<>>, NEW q, Content(q) = Content(held),
         file' = Saved(q), UNCHANGED parsed
  PROVE  file' = parsed => file' = Content(held)
BY DEF WatchOK, Saved

\* Whatever else is saved is older than the newest, ...
LEMMA NewestStays ==
  ASSUME Types, VersionsOK, NEW p \in Saves, Newest(p), NEW q \in Saves \cup Reloads,
         NEW skip \in BOOLEAN, persist(q, skip)
  PROVE  ~Overtaken(p)'
<1>1. p.epoch = epoch /\ ~Overtaken(p) /\ (q # p => (q.epoch = epoch => q.generation < p.generation))
  BY DEF Newest
<1>2. p.generation \in Nat /\ q.epoch \in Nat /\ q.generation \in Nat
      /\ q.epoch <= epoch /\ epoch \in Nat
  BY PendingAuths, Numbers
<1>3. CASE Overtaken(q)
  BY <1>1, <1>3, PersistCases DEF Overtaken
<1>4. CASE ~Overtaken(q)
  <2>1. guard'.epoch = q.epoch /\ guard'.generation = q.generation
    BY <1>4, PersistCases
  <2> QED  BY <1>1, <1>2, <2>1 DEF Overtaken
<1> QED  BY <1>3, <1>4

\* ... and once that is written, is left out.
LEMMA NewestSaved ==
  ASSUME Types, VersionsOK, NEW p \in Saves, Newest(p), NEW skip \in BOOLEAN, persist(p, skip),
         NEW a \in Saves \ {p}
  PROVE  Overtaken(a)'
<1>1. p.epoch = epoch /\ ~Overtaken(p) /\ (a.epoch = epoch => a.generation < p.generation)
  BY DEF Newest
<1>2. a.epoch \in Nat /\ a.epoch <= epoch /\ epoch \in Nat
  BY PendingAuths, Numbers
<1>3. guard'.epoch = p.epoch /\ guard'.generation = p.generation
  BY <1>1, PersistCases
<1> QED  BY <1>1, <1>2, <1>3 DEF Overtaken

\* A save of a refresher or of the operator.
LEMMA SaveDone ==
  ASSUME Types, FileOK, NEW q \in Saves, persist(q, FALSE),
         Saves' \subseteq Saves, Saves \ {q} \subseteq Saves',
         Files \subseteq Files', UNCHANGED <<held, epoch, parsed, queued, Reloads, disturbed>>
  PROVE  FileOK'
<1> USE DEF FileOK
<1>1. Saves \subseteq Auths /\ Reloads \subseteq Auths /\ q \in Auths
  BY PendingAuths
<1>2. Target' = Target /\ (Held' <=> Held)
  BY DEF Target, Held
<1>3. /\ guard'.generation \in Nat
      /\ guard'.epoch = epoch => Held' /\ guard'.generation <= held'.generation
      /\ \A a \in Auths : Overtaken(a) => Overtaken(a)'
  BY <1>1, <1>2, PersistMoves DEF VersionsOK
<1>4. VersionsOK'
  BY <1>2, <1>3 DEF VersionsOK
<1>5. WatchOK'
  <2>1. ~event' => file' = parsed
    BY PersistCases DEF WatchOK
  <2> QED  BY <1>2, <2>1 DEF WatchOK
<1>6. AgreementOK'
  <2> SUFFICES ASSUME "restored file" \notin disturbed, queued = <<>>
               PROVE  \/ Target = parsed
                      \/ \E p \in Saves' : Newest(p)'
                      \/ /\ \A a \in Saves' : Overtaken(a)'
                         /\ file' = parsed /\ ~unsaved' => file' = Target
    BY <1>2 DEF AgreementOK
  <2>1. CASE \E p \in Saves : Newest(p)
    <3>1. PICK p \in Saves : Newest(p)
      BY <2>1
    <3>2. p.epoch = epoch /\ Held /\ ~Overtaken(p) /\ Content(p) = Content(held)
      BY <3>1 DEF Newest
    <3>4. ~Overtaken(p)'
      BY <3>1, NewestStays
    <3>5. p \in Saves' => Newest(p)'
      BY <1>2, <3>1, <3>2, <3>4 DEF Newest
    <3>6. CASE p \notin Saves'
      <4>1. q = p
        BY <3>6
      <4>2. guard'.epoch = epoch /\ guard'.generation = p.generation
            /\ (file' = Saved(p) \/ unsaved')
        BY <3>2, <4>1, PersistCases
      <4>3. \A a \in Saves' : Overtaken(a)'
        BY <3>1, <3>6, <4>1, NewestSaved
      <4>4. file' = parsed /\ ~unsaved' => file' = Target
        BY <3>2, <4>2, WrittenContent DEF Target
      <4> QED  BY <4>3, <4>4
    <3> QED  BY <3>5, <3>6
  <2>2. CASE (\A a \in Saves : Overtaken(a)) /\ (file = parsed /\ ~unsaved => file = Target)
    <3>1. file' = file /\ unsaved' = unsaved
      BY <2>2, <1>1, PersistCases
    <3>2. \A a \in Saves' : Overtaken(a)'
      BY <1>1, <1>3, <2>2
    <3> QED  BY <2>2, <3>1, <3>2
  <2> QED  BY <2>1, <2>2 DEF AgreementOK
<1> QED  BY <1>4, <1>5, <1>6

\* What the service loaded from the file is not written, but counts as saved.
LEMMA ReloadDone ==
  ASSUME Types, FileOK, NEW q \in Reloads, persist(q, TRUE), Reloads' = {},
         Files \subseteq Files', UNCHANGED <<held, epoch, parsed, queued, Saves, disturbed>>
  PROVE  FileOK'
<1> USE DEF FileOK
<1>1. Saves \subseteq Auths /\ Reloads \subseteq Auths /\ q \in Auths
  BY PendingAuths
<1>2. Target' = Target /\ (Held' <=> Held)
  BY DEF Target, Held
<1>3. /\ guard'.generation \in Nat
      /\ guard'.epoch = epoch => Held' /\ guard'.generation <= held'.generation
      /\ \A a \in Auths : Overtaken(a) => Overtaken(a)'
  BY <1>1, <1>2, PersistMoves DEF VersionsOK
<1>4. VersionsOK'
  BY <1>2, <1>3 DEF VersionsOK
<1>5. UNCHANGED <<file, unsaved>> /\ (~event' => ~event)
  BY PersistCases
<1>6. WatchOK'
  BY <1>2, <1>5 DEF WatchOK
<1>7. \A p \in Saves : Newest(p) => Newest(p)'
  <2> SUFFICES ASSUME NEW p \in Saves, Newest(p) PROVE Newest(p)'
    OBVIOUS
  <2>1. p.epoch = epoch /\ Held /\ ~Overtaken(p) /\ Content(p) = Content(held)
    BY DEF Newest
  <2>3. ~Overtaken(p)'
    BY NewestStays
  <2> QED  BY <1>2, <2>1, <2>3 DEF Newest
<1>8. AgreementOK'
  BY <1>1, <1>2, <1>3, <1>5, <1>7 DEF AgreementOK
<1> QED  BY <1>4, <1>6, <1>8

\* A change that is saved before anybody else can change the credential.
LEMMA SavedAtOnce ==
  ASSUME Types, FileOK, Held, held' \in Auths, Held', held'.epoch = epoch,
         held'.generation = held.generation + 1, Content(held') = Content(held),
         persist(held', FALSE),
         Files \subseteq Files', UNCHANGED <<epoch, parsed, queued, Saves, Reloads>>,
         disturbed \subseteq disturbed'
  PROVE  FileOK'
<1> USE DEF FileOK
<1>1. Saves \subseteq Auths /\ Reloads \subseteq Auths
  BY PendingAuths
<1>2. Target' = Target /\ (Held' <=> Held)
  BY DEF Target, Held
<1>3. held.generation \in Nat /\ held'.generation \in Nat /\ held.generation < held'.generation
  BY Numbers
<1>4. \A a \in Saves \cup Reloads : a.epoch = epoch => a.generation < held'.generation
  BY <1>1, <1>3, Numbers DEF VersionsOK
<1>5. /\ guard'.generation \in Nat
      /\ guard'.epoch = epoch => guard'.generation <= held'.generation
  <2>1. guard.epoch = epoch => guard.generation <= held'.generation
    BY <1>3, Numbers DEF VersionsOK
  <2>2. held'.generation <= held'.generation
    BY <1>3
  <2> QED  BY <2>1, <2>2, PersistMoves
<1>6. VersionsOK'
  <2>1. \A a \in Saves \cup Reloads : a.generation \in Nat
    BY <1>1, Numbers
  <2> QED  BY <1>3, <1>4, <1>5, <2>1 DEF VersionsOK
<1>7. WatchOK'
  <2>1. ~event' => file' = parsed
    BY PersistCases DEF WatchOK
  <2> QED  BY <1>2, <2>1 DEF WatchOK
<1>8. ~Overtaken(held')
  <2>1. /\ epoch \in Nat /\ guard.epoch \in Nat /\ guard.epoch <= epoch /\ guard.generation \in Nat
        /\ guard.epoch = epoch => guard.generation <= held.generation
    BY Numbers DEF VersionsOK
  <2>2. ~(held'.epoch < guard.epoch)
    BY <2>1
  <2>3. ~(held'.epoch = guard.epoch /\ held'.generation < guard.generation)
    BY <1>3, <2>1
  <2> QED  BY <2>2, <2>3 DEF Overtaken
<1>9. /\ guard'.epoch = epoch /\ guard'.generation = held'.generation
      /\ file' = Saved(held') \/ unsaved'
  BY <1>8, PersistCases
<1>10. \A a \in Saves : Overtaken(a)'
  <2> SUFFICES ASSUME NEW a \in Saves PROVE Overtaken(a)'
    OBVIOUS
  <2>1. a.epoch \in Nat /\ a.epoch <= epoch /\ epoch \in Nat
    BY <1>1, Numbers
  <2> QED  BY <1>4, <1>9, <2>1 DEF Overtaken
<1>11. queued = <<>> => (file' = parsed /\ ~unsaved' => file' = Target)
  BY <1>9, WrittenContent DEF Target
<1>12. AgreementOK'
  BY <1>2, <1>10, <1>11 DEF AgreementOK
<1> QED  BY <1>6, <1>7, <1>12

\* What a refresher's step does to the saves that are waiting.
LEMMA SavesOf ==
  ASSUME DOMAIN refresher = Refreshers, NEW r \in Refreshers, NEW x, Becomes(r, x), UNCHANGED patch
  PROVE  /\ \A a \in Saves' : a \in Saves \/ (x.phase = "saving" /\ a = x.auth)
         /\ \A a \in Saves :
              a \in Saves' \/ (refresher[r].phase = "saving" /\ a = refresher[r].auth)
         /\ x.phase = "saving" => x.auth \in Saves'
<1>1. /\ DOMAIN refresher' = Refreshers /\ refresher'[r] = x
      /\ \A q \in Refreshers \ {r} : refresher'[q] = refresher[q]
  BY OneMoves
<1> QED  BY <1>1 DEF Saves

LEMMA SavesQuiet ==
  ASSUME Types, NEW r \in Refreshers, NEW x, Becomes(r, x), UNCHANGED patch,
         refresher[r].phase # "saving", x.phase # "saving"
  PROVE  Saves' = Saves
<1>1. DOMAIN refresher = Refreshers
  BY DEF Types
<1> QED  BY <1>1, SavesOf

LEMMA BeginFile ==
  ASSUME FileInvariant, NEW r \in Refreshers, Begin(r)
  PROVE  FileOK'
<1>1. UNCHANGED <<issued, live, stray, lost, epoch, held, patch, reload, queued, file, guard,
                  event, unsaved, parsed, disturbed>>
  BY DEF Begin, fileVars, watchVars, upstreamVars
<1>2. PICK failed : Becomes(r, [phase |-> "waiting", failed |-> failed])
  BY DEF Begin, Becomes
<1>3. refresher[r].phase # "saving" /\ [phase |-> "waiting", failed |-> failed].phase # "saving"
  BY DEF Begin
<1>4. Saves' = Saves
  BY <1>1, <1>2, <1>3, SavesQuiet DEF FileInvariant, RefreshInvariant
<1>5. Reloads' = Reloads /\ Files \subseteq Files'
  BY <1>1, SameCounts DEF Reloads, FileInvariant, RefreshInvariant
<1> QED  BY <1>1, <1>4, <1>5, FileUntouched DEF FileInvariant, RefreshInvariant

LEMMA LockFile ==
  ASSUME FileInvariant, NEW r \in Refreshers, Lock(r)
  PROVE  FileOK'
<1>1. UNCHANGED <<issued, live, stray, lost, epoch, held, patch, reload, queued, file, guard,
                  event, unsaved, parsed, disturbed>>
  BY DEF Lock, fileVars, watchVars, upstreamVars
<1>2. \E x : Becomes(r, x) /\ x.phase # "saving"
  <2>1. CASE Unlock(r)
    <3>1. Becomes(r, Idle) /\ Idle.phase # "saving"
      BY <2>1 DEF Unlock, Return, Becomes, Idle
    <3> QED  BY <3>1
  <2>2. CASE ~Unlock(r)
    <3>1. Becomes(r, Asking(held, 1)) /\ Asking(held, 1).phase # "saving"
      BY <2>2 DEF Lock, Becomes, Asking
    <3> QED  BY <3>1
  <2> QED  BY <2>1, <2>2
<1>3. refresher[r].phase # "saving"
  BY DEF Lock
<1>4. Saves' = Saves
  BY <1>1, <1>2, <1>3, SavesQuiet DEF FileInvariant, RefreshInvariant
<1>5. Reloads' = Reloads /\ Files \subseteq Files'
  BY <1>1, SameCounts DEF Reloads, FileInvariant, RefreshInvariant
<1> QED  BY <1>1, <1>4, <1>5, FileUntouched DEF FileInvariant, RefreshInvariant

LEMMA AnsweredSaves ==
  ASSUME Types, NEW r \in Refreshers, NEW outcome, NEW token, Answered(r, outcome, token),
         UNCHANGED patch, refresher[r].phase = "asking"
  PROVE  Saves' = Saves
<1> DEFINE y == [phase |-> "answered", base |-> refresher[r].base,
                 outcome |-> outcome, token |-> token]
<1>1. Becomes(r, y) /\ y.phase # "saving" /\ refresher[r].phase # "saving"
  BY DEF Answered, Becomes
<1> HIDE DEF y
<1> QED  BY <1>1, SavesQuiet

LEMMA UnlockSaves ==
  ASSUME Types, NEW r \in Refreshers, Unlock(r), UNCHANGED patch, refresher[r].phase # "saving"
  PROVE  Saves' = Saves
<1>1. Becomes(r, Idle) /\ Idle.phase # "saving"
  BY DEF Unlock, Return, Becomes, Idle
<1> QED  BY <1>1, SavesQuiet

LEMMA TryFailsFile ==
  ASSUME FileInvariant, NEW r \in Refreshers, TryFails(r)
  PROVE  FileOK'
<1> USE DEF FileInvariant, RefreshInvariant
<1>1. UNCHANGED <<issued, epoch, held, patch, reload, queued, file, guard, event, unsaved, parsed,
                  disturbed>>
  BY DEF TryFails, fileVars, watchVars
<1>2. Saves' = Saves
  <2>1. refresher[r].phase = "asking" /\ refresher[r].phase # "saving"
    BY DEF TryFails
  <2>2. CASE Answered(r, "unreachable", NoToken) \/ Unlock(r)
    BY <1>1, <2>1, <2>2, AnsweredSaves, UnlockSaves
  <2>3. CASE refresher' = [refresher EXCEPT ![r] = Asking(@.base, @.try + 1)]
    <3> DEFINE y == Asking(refresher[r].base, refresher[r].try + 1)
    <3>1. Becomes(r, y) /\ y.phase # "saving"
      BY <2>3 DEF Becomes, Asking
    <3> HIDE DEF y
    <3> QED  BY <1>1, <2>1, <3>1, SavesQuiet
  <2> QED  BY <2>2, <2>3 DEF TryFails
<1>3. Reloads' = Reloads /\ Files \subseteq Files'
  BY <1>1 DEF Reloads, Files, Contents
<1> QED  BY <1>1, <1>2, <1>3, FileUntouched

LEMMA ExchangeUnheardFile == FileInvariant /\ ExchangeUnheard => FileOK'
<1> SUFFICES ASSUME FileInvariant, ExchangeUnheard PROVE FileOK'
  OBVIOUS
<1> USE DEF FileInvariant, RefreshInvariant
<1>1. UNCHANGED <<epoch, held, refresher, patch, reload, queued, file, guard, event, unsaved,
                  parsed, disturbed>>
  BY DEF ExchangeUnheard, fileVars, watchVars
<1>2. Saves' = Saves /\ Reloads' = Reloads
  BY <1>1 DEF Saves, Reloads
<1>3. Files \subseteq Files'
  <2>1. issued \in Nat /\ issued' = issued + 1
    BY DEF ExchangeUnheard, Rotate, Types, CountsOK
  <2>2. issued' \in Nat /\ issued' >= issued /\ epoch' \in Nat /\ epoch' >= epoch
    BY <1>1, <2>1 DEF Types, CountsOK
  <2> QED  BY <2>2, Growth DEF Types
<1> QED  BY <1>1, <1>2, <1>3, FileUntouched

LEMMA FailedFile ==
  ASSUME FileInvariant, NEW r \in Refreshers, Failed(r)
  PROVE  FileOK'
<1> USE DEF FileInvariant, RefreshInvariant
<1>1. /\ UNCHANGED <<issued, live, stray, lost, epoch, patch, reload, queued, file, guard, event,
                     unsaved, parsed>>
      /\ Unlock(r)
  BY DEF Failed, fileVars, watchVars, upstreamVars
<1>2. Saves' = Saves
  <2>1. refresher[r].phase # "saving"
    BY DEF Failed
  <2> QED  BY <1>1, <2>1, UnlockSaves
<1>3. Reloads' = Reloads /\ Files \subseteq Files'
  BY <1>1, SameCounts DEF Reloads, FileInvariant, RefreshInvariant
<1>4. CASE SameRegistration(r)
  <2> DEFINE auth == [held EXCEPT !.generation = @ + 1, !.error = "refresh"]
  <2>1. Install(auth) /\ Held /\ held \in Auths
    BY <1>4 DEF Failed, SameRegistration, Types
  <2>2. auth \in Auths /\ Content(auth) = Content(held) /\ auth.generation = held.generation + 1
    BY <2>1, BumpedShape DEF Errors
  <2> HIDE DEF auth
  <2>3. Held' /\ held' = auth /\ disturbed \subseteq disturbed'
    <3>1. issued \in Nat /\ epoch \in Nat
      BY DEF Types, CountsOK
    <3> QED  BY <2>1, <2>2, <3>1, AuthIsHeld DEF Held, Install, Auths
  <2> QED  BY <1>1, <1>2, <1>3, <2>1, <2>2, <2>3, FileUntouched
<1>5. CASE ~SameRegistration(r)
  <2>1. UNCHANGED <<held, disturbed>>
    BY <1>5 DEF Failed
  <2> QED  BY <1>1, <1>2, <1>3, <2>1, FileUntouched
<1> QED  BY <1>4, <1>5

LEMMA ExchangeFile ==
  ASSUME FileInvariant, NEW r \in Refreshers, Exchange(r)
  PROVE  FileOK'
<1> USE DEF FileInvariant, RefreshInvariant
<1>1. UNCHANGED <<epoch, held, patch, reload, queued, file, guard, event, unsaved, parsed,
                  disturbed>>
  BY DEF Exchange, fileVars, watchVars
<1>2. Saves' = Saves
  <2>1. refresher[r].phase = "asking"
    BY DEF Exchange
  <2>2. \E outcome, token : Answered(r, outcome, token)
    BY DEF Exchange
  <2> QED  BY <1>1, <2>1, <2>2, AnsweredSaves
<1>3. Reloads' = Reloads
  BY <1>1 DEF Reloads
<1>4. Files \subseteq Files'
  <2>1. issued \in Nat /\ (issued' = issued + 1 \/ issued' = issued)
    BY DEF Exchange, Rotate, upstreamVars, Types, CountsOK
  <2>2. issued' \in Nat /\ issued' >= issued /\ epoch' \in Nat /\ epoch' >= epoch
    BY <1>1, <2>1 DEF Types, CountsOK
  <2> QED  BY <2>2, Growth DEF Types
<1> QED  BY <1>1, <1>2, <1>3, <1>4, FileUntouched

LEMMA SucceededFile ==
  ASSUME FileInvariant, NEW r \in Refreshers, Succeeded(r)
  PROVE  FileOK'
<1> USE DEF FileInvariant, RefreshInvariant
<1>1. UNCHANGED <<issued, live, stray, lost, epoch, patch, reload, queued, file, guard, event,
                  unsaved, parsed>>
  BY DEF Succeeded, fileVars, watchVars, upstreamVars
<1>2. refresher[r].phase # "saving"
  BY DEF Succeeded
<1>3. Reloads' = Reloads /\ Files \subseteq Files'
  BY <1>1, SameCounts DEF Reloads
<1>4. CASE SameRegistration(r)
  <2> DEFINE base == refresher[r].base
             updated == [base EXCEPT !.token = refresher[r].token, !.error = "none"]
             merged == [MergeRefreshedAuth(base, held, updated) EXCEPT !.generation = @ + 1]
  <2>1. Install(merged) /\ Becomes(r, Saving(merged))
    BY <1>4 DEF Succeeded, Becomes
  <2>2. Held /\ held \in Auths /\ held.epoch = epoch
    BY <1>4 DEF SameRegistration, Types
  <2>3. Refreshed(refresher[r]) /\ refresher[r].base \in Auths /\ refresher[r].token \in live
    BY DEF Succeeded, Refreshed, Types, RefresherOK
  <2>4. refresher[r].token \in 1 .. issued
    BY <2>3 DEF Types, CountsOK
  <2>5. updated \in Auths
    BY <2>3, <2>4 DEF Auths, Errors
  <2>6. merged \in Auths /\ merged.epoch = epoch /\ merged.generation = held.generation + 1
    <3> HIDE DEF updated
    <3> QED  BY <2>2, <2>3, <2>5, MergeShape
  <2> HIDE DEF base, updated, merged
  <2>7. Saves' = Saves \cup {merged}
    <3>1. Saving(merged).phase = "saving" /\ Saving(merged).auth = merged
      BY DEF Saving
    <3>2. DOMAIN refresher = Refreshers
      BY DEF Types
    <3>3. /\ \A a \in Saves' : a \in Saves \/ a = merged
          /\ \A a \in Saves : a \in Saves'
          /\ merged \in Saves'
      BY <1>1, <1>2, <2>1, <3>1, <3>2, SavesOf
    <3> QED  BY <3>3
  <2>8. Held' /\ held' = merged /\ disturbed \subseteq disturbed'
    <3>1. issued \in Nat /\ epoch \in Nat
      BY DEF Types, CountsOK
    <3> QED  BY <2>1, <2>6, <3>1, AuthIsHeld DEF Held, Install, Auths
  <2> QED  BY <1>1, <1>3, <2>2, <2>6, <2>7, <2>8, SaveAdded
<1>5. CASE ~SameRegistration(r)
  <2>1. Unlock(r) /\ UNCHANGED <<held, disturbed>>
    BY <1>5 DEF Succeeded
  <2>2. Saves' = Saves
    BY <1>1, <1>2, <2>1, UnlockSaves
  <2> QED  BY <1>1, <1>3, <2>1, <2>2, FileUntouched
<1> QED  BY <1>4, <1>5

LEMMA SaveFile ==
  ASSUME FileInvariant, NEW r \in Refreshers, Save(r)
  PROVE  FileOK'
<1> USE DEF FileInvariant, RefreshInvariant
<1>1. /\ UNCHANGED <<issued, live, stray, lost, epoch, held, patch, reload, queued, parsed,
                     disturbed>>
      /\ Becomes(r, Idle) /\ refresher[r].phase = "saving" /\ persist(refresher[r].auth, FALSE)
  BY DEF Save, SaveOf, watchVars, upstreamVars, Unlock, Return, Becomes
<1>2. Reloads' = Reloads /\ Files \subseteq Files'
  BY <1>1, SameCounts DEF Reloads
<1>3. refresher[r].auth \in Saves
  BY <1>1 DEF Saves
<1>4. Saves' \subseteq Saves /\ Saves \ {refresher[r].auth} \subseteq Saves'
  <2>1. Idle.phase # "saving" /\ DOMAIN refresher = Refreshers
    BY DEF Idle, Types
  <2> QED  BY <1>1, <2>1, SavesOf
<1> QED  BY <1>1, <1>2, <1>3, <1>4, SaveDone

LEMMA ResultFile == FileInvariant /\ Result => FileOK'
<1> SUFFICES ASSUME FileInvariant, Result PROVE FileOK'
  OBVIOUS
<1> USE DEF FileInvariant, RefreshInvariant
<1>1. UNCHANGED <<issued, live, stray, lost, epoch, refresher, patch, reload, queued, parsed>>
  BY DEF Result, watchVars, upstreamVars
<1>2. Reloads' = Reloads /\ Saves' = Saves /\ Files \subseteq Files'
  BY <1>1, SameCounts DEF Reloads, Saves
<1>3. Held /\ held \in Auths /\ held.epoch = epoch
  BY DEF Result, Types
<1>4. PICK error \in {"none", "result"} :
        Install([held EXCEPT !.generation = @ + 1, !.error = error])
  BY DEF Result
<1>5. held' = [held EXCEPT !.generation = @ + 1, !.error = error] /\ disturbed \subseteq disturbed'
  BY <1>4 DEF Install
<1>6. error \in Errors
  BY DEF Errors
<1>7. held' \in Auths /\ Content(held') = Content(held) /\ held'.generation = held.generation + 1
  BY <1>3, <1>5, <1>6, BumpedShape
<1>8. held'.epoch = held.epoch
  BY <1>3, <1>5, <1>6, NextGeneration
<1>9. Held'
  <2>1. issued \in Nat /\ epoch \in Nat
    BY DEF Types, CountsOK
  <2> QED  BY <1>7, <2>1, AuthIsHeld DEF Held, Auths
<1>10. persist(held', FALSE)
  BY DEF Result
<1> QED  BY <1>1, <1>2, <1>3, <1>5, <1>7, <1>8, <1>9, <1>10, SavedAtOnce

LEMMA PatchReadFile == FileInvariant /\ PatchRead => FileOK'
<1> SUFFICES ASSUME FileInvariant, PatchRead PROVE FileOK'
  OBVIOUS
<1> USE DEF FileInvariant, RefreshInvariant
<1>1. UNCHANGED <<issued, live, stray, lost, epoch, refresher, held, reload, queued, file, guard,
                  event, unsaved, parsed, disturbed>>
  BY DEF PatchRead, fileVars, watchVars, upstreamVars
<1>2. patch.phase # "saving" /\ patch'.phase # "saving"
  BY DEF PatchRead
<1>3. Reloads' = Reloads /\ Saves' = Saves /\ Files \subseteq Files'
  BY <1>1, <1>2, SameCounts DEF Reloads, Saves
<1> QED  BY <1>1, <1>3, FileUntouched

LEMMA PatchUpdateFile == FileInvariant /\ PatchUpdate => FileOK'
<1> SUFFICES ASSUME FileInvariant, PatchUpdate PROVE FileOK'
  OBVIOUS
<1> USE DEF FileInvariant, RefreshInvariant
<1>1. UNCHANGED <<issued, live, stray, lost, epoch, refresher, reload, queued, file, guard, event,
                  unsaved, parsed>>
  BY DEF PatchUpdate, fileVars, watchVars, upstreamVars
<1>2. patch.phase = "read" /\ patch.auth \in Auths
  BY DEF PatchUpdate, Types
<1>3. Reloads' = Reloads /\ Files \subseteq Files'
  BY <1>1, SameCounts DEF Reloads
<1>4. CASE Held /\ patch.auth.epoch >= epoch
  <2> DEFINE auth == [patch.auth EXCEPT !.generation = held.generation + 1]
  <2>1. Install(auth) /\ patch' = Saving(auth)
    BY <1>4 DEF PatchUpdate
  <2>2. held.generation + 1 \in Nat
    <3>1. held.generation \in Nat
      BY <1>4, Numbers DEF FileOK
    <3> QED  BY <3>1
  <2>3. auth \in Auths /\ auth.epoch = patch.auth.epoch /\ auth.generation = held.generation + 1
    BY <1>2, <2>2 DEF Auths
  <2>4. patch.auth.epoch = epoch
    BY <1>2, <1>4 DEF Auths, Types, CountsOK
  <2> HIDE DEF auth
  <2>5. held' = auth /\ patch'.phase = "saving" /\ patch'.auth = auth /\ disturbed \subseteq disturbed'
    BY <2>1 DEF Install, Saving
  <2>6. Saves' = Saves \cup {auth}
    BY <1>1, <1>2, <2>5 DEF Saves
  <2>7. Held'
    <3>1. issued \in Nat /\ epoch \in Nat
      BY DEF Types, CountsOK
    <3> QED  BY <2>3, <2>5, <3>1, AuthIsHeld DEF Held, Auths
  <2> QED  BY <1>1, <1>3, <1>4, <2>3, <2>4, <2>5, <2>6, <2>7, SaveAdded
<1>5. CASE ~(Held /\ patch.auth.epoch >= epoch)
  <2>1. patch' = Idle /\ UNCHANGED <<held, disturbed>>
    BY <1>5 DEF PatchUpdate
  <2>2. Saves' = Saves
    BY <1>1, <1>2, <2>1 DEF Saves, Idle
  <2> QED  BY <1>1, <1>3, <2>1, <2>2, FileUntouched
<1> QED  BY <1>4, <1>5

LEMMA PatchSaveFile == FileInvariant /\ PatchSave => FileOK'
<1> SUFFICES ASSUME FileInvariant, PatchSave PROVE FileOK'
  OBVIOUS
<1> USE DEF FileInvariant, RefreshInvariant
<1>1. UNCHANGED <<issued, live, stray, lost, epoch, refresher, held, reload, queued, parsed,
                  disturbed>>
  BY DEF PatchSave, watchVars, upstreamVars
<1>2. patch.phase = "saving" /\ persist(patch.auth, FALSE) /\ patch' = Idle
  BY DEF PatchSave, SaveOf
<1>3. Reloads' = Reloads /\ Files \subseteq Files'
  BY <1>1, SameCounts DEF Reloads
<1>4. /\ patch.auth \in Saves /\ Saves' \subseteq Saves /\ Saves \ {patch.auth} \subseteq Saves'
  BY <1>1, <1>2 DEF Saves, Idle
<1> QED  BY <1>1, <1>2, <1>3, <1>4, SaveDone

LEMMA ReloadSaveFile == FileInvariant /\ ReloadSave => FileOK'
<1> SUFFICES ASSUME FileInvariant, ReloadSave PROVE FileOK'
  OBVIOUS
<1> USE DEF FileInvariant, RefreshInvariant
<1>1. UNCHANGED <<issued, live, stray, lost, epoch, refresher, held, patch, queued, parsed,
                  disturbed>>
  BY DEF ReloadSave, upstreamVars
<1>2. reload.phase = "saving" /\ persist(reload.auth, TRUE) /\ reload' = Idle
  BY DEF ReloadSave, SaveOf
<1>3. Saves' = Saves /\ Files \subseteq Files'
  BY <1>1, SameCounts DEF Saves
<1>4. reload.auth \in Reloads /\ Reloads' = {}
  BY <1>2 DEF Reloads, Idle
<1> QED  BY <1>1, <1>2, <1>3, <1>4, ReloadDone

\* The user's edits: what the watcher has parsed comes back only while it has not looked.
LEMMA UserEditFile ==
  ASSUME FileInvariant, NEW content, UserEdit(content), Files \subseteq Files',
         UNCHANGED <<refresher, reload>>
  PROVE  FileOK'
<1> USE DEF FileInvariant, RefreshInvariant, FileOK
<1>1. /\ UNCHANGED <<held, epoch, guard, unsaved, patch, parsed, queued>>
      /\ file' = content /\ file' # file /\ event' = TRUE
      /\ disturbed \subseteq disturbed'
      /\ event /\ content = parsed => "restored file" \in disturbed'
  BY DEF UserEdit, watchVars
<1>2. Target' = Target /\ (Held' <=> Held) /\ Saves' = Saves /\ Reloads' = Reloads
  BY <1>1 DEF Target, Held, Saves, Reloads
<1>3. VersionsOK'
  BY <1>1, <1>2 DEF VersionsOK
<1>4. WatchOK'
  BY <1>1, <1>2 DEF WatchOK
<1>5. \A p : (Overtaken(p)' <=> Overtaken(p)) /\ (Newest(p) => Newest(p)')
  BY <1>1, <1>2 DEF Overtaken, Newest
<1>6. file' = parsed => "restored file" \in disturbed'
  BY <1>1 DEF WatchOK
<1>7. AgreementOK'
  BY <1>1, <1>2, <1>5, <1>6 DEF AgreementOK
<1> QED  BY <1>3, <1>4, <1>7

LEMMA EditFileFile == FileInvariant /\ (EditFile \/ DeleteFile) => FileOK'
<1> SUFFICES ASSUME FileInvariant, EditFile \/ DeleteFile PROVE FileOK'
  OBVIOUS
<1>1. UNCHANGED <<issued, live, stray, lost>> /\ \E content : UserEdit(content)
  BY DEF EditFile, DeleteFile, upstreamVars
<1>2. UNCHANGED <<epoch, refresher, reload>>
  BY <1>1 DEF UserEdit, EditFile, DeleteFile, watchVars
<1>3. Files \subseteq Files'
  BY <1>1, <1>2, SameCounts DEF FileInvariant, RefreshInvariant
<1> QED  BY <1>1, <1>2, <1>3, UserEditFile

LEMMA SignInFile == FileInvariant /\ SignIn => FileOK'
<1> SUFFICES ASSUME FileInvariant, SignIn PROVE FileOK'
  OBVIOUS
<1>1. issued' = issued + 1 /\ \E content : UserEdit(content)
  BY DEF SignIn
<1>2. UNCHANGED <<epoch, refresher, reload>>
  BY <1>1 DEF UserEdit, SignIn, watchVars
<1>3. Files \subseteq Files'
  <2>1. CountsOK
    BY DEF FileInvariant, RefreshInvariant, Types
  <2>2. issued' \in Nat /\ issued' >= issued /\ epoch' \in Nat /\ epoch' >= epoch
    BY <1>1, <1>2, <2>1 DEF CountsOK
  <2> QED  BY <2>1, <2>2, Growth
<1> QED  BY <1>1, <1>2, <1>3, UserEditFile

LEMMA LookFile == FileInvariant /\ Look => FileOK'
<1> SUFFICES ASSUME FileInvariant, Look PROVE FileOK'
  OBVIOUS
<1> USE DEF FileInvariant, RefreshInvariant, FileOK
<1>1. UNCHANGED <<issued, live, stray, lost, epoch, refresher, held, patch, reload, file, guard,
                  unsaved, disturbed>>
  BY DEF Look, upstreamVars
<1>2. event' = FALSE /\ parsed' = file
  BY DEF Look
<1>3. /\ Target' = Target /\ (Held' <=> Held) /\ Saves' = Saves /\ Reloads' = Reloads
      /\ Files' = Files
  BY <1>1, SameCounts DEF Target, Held, Saves, Reloads
<1>4. VersionsOK'
  BY <1>1, <1>3 DEF VersionsOK
<1>5. file \in Files /\ queued \in Seq(Files)
  BY DEF Types
<1>6. CASE file = parsed
  <2>1. parsed' = parsed /\ queued' = queued
    BY <1>2, <1>6 DEF Look
  <2>2. WatchOK'
    BY <1>1, <1>2, <1>3, <1>6, <2>1 DEF WatchOK
  <2>3. \A p : (Overtaken(p)' <=> Overtaken(p)) /\ (Newest(p) => Newest(p)')
    BY <1>1, <1>3 DEF Overtaken, Newest
  <2>4. AgreementOK'
    BY <1>1, <1>3, <2>1, <2>3 DEF AgreementOK
  <2> QED  BY <1>4, <2>2, <2>4
<1>7. CASE file # parsed
  <2>1. queued' # <<>> /\ queued'[Len(queued')] = file
    <3>1. CASE queued' = Append(queued, file)
      BY <1>5, <3>1
    <3>2. CASE queued # <<>> /\ queued' = [queued EXCEPT ![Len(queued)] = file]
      <4>1. Len(queued) \in 1 .. Len(queued) /\ Len(queued') = Len(queued)
        BY <1>5, <3>2
      <4> QED  BY <1>5, <3>2, <4>1
    <3> QED  BY <1>7, <3>1, <3>2 DEF Look
  <2>2. WatchOK'
    BY <1>1, <1>2, <1>3, <1>5, <2>1 DEF WatchOK
  <2>3. AgreementOK'
    BY <2>1 DEF AgreementOK
  <2> QED  BY <1>4, <2>2, <2>3
<1> QED  BY <1>6, <1>7

\* The service loads what is at the head of the queue; the last of it is what was parsed last.
LEMMA ReloadFile ==
  ASSUME FileInvariant, Reload, RefreshInvariant'
  PROVE  FileOK'
<1> USE DEF FileInvariant, RefreshInvariant, FileOK
<1> DEFINE content == Head(queued)
           auth == IF Held THEN Auth(epoch, held.generation + 1, content)
                   ELSE Auth(epoch + 1, 1, content)
<1>1. /\ UNCHANGED <<issued, live, stray, lost, refresher, patch, file, guard, event, unsaved,
                     parsed>>
      /\ queued' = Tail(queued)
      /\ reload.phase # "saving" /\ queued # <<>>
  BY DEF Reload, fileVars, upstreamVars
<1>2. content \in Files /\ queued \in Seq(Files)
  BY <1>1 DEF Types
<1>3. Saves' = Saves /\ Reloads = {} /\ Saves \subseteq Auths /\ Files' = Files
  BY <1>1, PendingAuths DEF Saves, Reloads, Files, Contents
<1>4. IF queued' = <<>> THEN content = parsed ELSE queued'[Len(queued')] = parsed
  <2>1. queued[Len(queued)] = parsed
    BY <1>1 DEF WatchOK
  <2>2. CASE Len(queued) = 1
    BY <1>1, <1>2, <2>1, <2>2
  <2>3. CASE Len(queued) # 1
    <3> DEFINE q == queued
    <3>1. q \in Seq(Files) /\ q # <<>> /\ Len(q) # 1
      BY <1>1, <1>2, <2>3
    <3> HIDE DEF q
    <3>2. Len(Tail(q)) \in 1 .. Len(Tail(q)) /\ Len(Tail(q)) = Len(q) - 1 /\ Tail(q) # <<>>
      <4>1. Len(q) \in Nat /\ Len(q) # 0
        BY <3>1
      <4>2. Len(Tail(q)) = Len(q) - 1
        BY <3>1
      <4>3. Len(q) - 1 \in Nat /\ Len(q) - 1 # 0
        BY <3>1, <4>1
      <4>4. Tail(q) # <<>>
        BY <4>2, <4>3
      <4> QED  BY <4>2, <4>3, <4>4
    <3>3. Tail(q)[Len(Tail(q))] = q[Len(q)]
      BY <3>1, <3>2
    <3>4. queued' = Tail(q) /\ queued = q
      BY <1>1 DEF q
    <3> QED  BY <2>1, <3>2, <3>3, <3>4
  <2> QED  BY <2>2, <2>3
<1>5. /\ epoch \in Nat /\ guard.generation \in Nat /\ guard.epoch \in Nat /\ guard.epoch <= epoch
      /\ \A a \in Saves : a.epoch \in Nat /\ a.epoch <= epoch /\ a.generation \in Nat
      /\ Held => held.generation \in Nat
  BY <1>3, Numbers
<1>6. CASE content = NoFile
  <2>1. /\ held' = NoAuth /\ UNCHANGED <<reload, disturbed>>
        /\ epoch' = IF Held THEN epoch + 1 ELSE epoch
    BY <1>6 DEF Reload
  <2>2. ~Held' /\ Target' = NoFile /\ Reloads' = {}
    BY <1>1, <2>1 DEF Held, Target, Reloads
  <2>3. guard.epoch # epoch' /\ \A a \in Saves : a.epoch # epoch'
    <3>1. CASE Held
      <4>1. epoch' = epoch + 1
        BY <2>1, <3>1
      <4> QED  BY <1>5, <4>1
    <3>2. CASE ~Held
      BY <2>1, <3>2 DEF VersionsOK
    <3> QED  BY <3>1, <3>2
  <2>4. VersionsOK'
    BY <1>1, <1>3, <1>5, <2>2, <2>3 DEF VersionsOK
  <2>5. WatchOK'
    BY <1>1, <1>3, <1>4, <2>2 DEF WatchOK
  <2>6. AgreementOK'
    BY <1>1, <1>4, <1>6, <2>2 DEF AgreementOK
  <2> QED  BY <2>4, <2>5, <2>6
<1>7. CASE content # NoFile
  <2>1. Install(auth) /\ epoch' = auth.epoch /\ reload' = Saving(auth)
    BY <1>7 DEF Reload
  <2>2. /\ auth.epoch = IF Held THEN epoch ELSE epoch + 1
        /\ auth.generation = IF Held THEN held.generation + 1 ELSE 1
    BY DEF Auth
  <2>3. Content(auth) = content
    <3>1. content \in Contents
      BY <1>2, <1>7 DEF Files
    <3>2. auth.token = content.token /\ auth.disabled = content.disabled
      BY DEF Auth
    <3> HIDE DEF auth, content
    <3> QED  BY <3>1, <3>2 DEF Content, Contents
  <2> HIDE DEF auth, content
  <2>4. held' = auth /\ Reloads' = {auth}
    BY <2>1 DEF Install, Saving, Reloads
  <2>5. Held'
    <3>1. auth \in Auths'
      BY <2>1 DEF Saving, Types
    <3>2. issued' \in Nat /\ epoch' \in Nat
      BY DEF Types, CountsOK
    <3> QED  BY <2>4, <3>1, <3>2, AuthIsHeld DEF Held, Auths
  <2>6. Target' = content
    BY <2>3, <2>4, <2>5 DEF Target
  <2>7. VersionsOK'
    <3>1. CASE Held
      <4>1. epoch' = epoch /\ auth.generation = held.generation + 1 /\ held.generation \in Nat
        BY <1>5, <2>1, <2>2, <3>1
      <4>2. guard.epoch = epoch => guard.generation <= auth.generation
        BY <1>5, <4>1 DEF VersionsOK
      <4>3. \A a \in Saves : a.epoch = epoch => a.generation <= auth.generation
        BY <1>5, <4>1 DEF VersionsOK
      <4>4. auth.generation <= auth.generation
        BY <4>1
      <4> QED  BY <1>1, <1>3, <1>5, <2>4, <2>5, <4>1, <4>2, <4>3, <4>4 DEF VersionsOK
    <3>2. CASE ~Held
      <4>1. epoch' = epoch + 1 /\ auth.generation = 1
        BY <2>1, <2>2, <3>2
      <4>2. guard.epoch # epoch' /\ \A a \in Saves : a.epoch # epoch'
        BY <1>5, <4>1
      <4> QED  BY <1>1, <1>3, <1>5, <2>4, <2>5, <4>1, <4>2 DEF VersionsOK
    <3> QED  BY <3>1, <3>2
  <2>8. WatchOK'
    BY <1>1, <1>3, <1>4, <1>7, <2>5 DEF WatchOK
  <2>9. AgreementOK'
    BY <1>1, <1>4, <2>6 DEF AgreementOK
  <2> QED  BY <2>7, <2>8, <2>9
<1> QED  BY <1>6, <1>7

-----------------------------------------------------------------------------
(***************************************************************************)
(* The theorems.                                                           *)
(***************************************************************************)
LEMMA InitRefresh == Init => RefreshInvariant
<1> SUFFICES ASSUME Init PROVE RefreshInvariant
  OBVIOUS
<1>1. CountsOK /\ issued = 1 /\ epoch = 1 /\ live = {1} /\ stray = {} /\ lost = {}
  BY DEF Init, CountsOK
<1>2. held \in Auths /\ held.epoch = 1
  BY <1>1 DEF Init, Auths, Auth, Errors
<1>3. file \in Files
  BY <1>1 DEF Init, Files, Contents
<1>4. \A r \in Refreshers : refresher[r] = Idle
  BY DEF Init
<1>5. \A r \in Refreshers : RefresherOK(refresher[r])
  BY <1>4 DEF RefresherOK, Refreshed, Idle
<1>6. Types
  BY <1>1, <1>2, <1>3, <1>5 DEF Init, Types, Idle
<1>7. LockOK
  BY <1>4, TokenAssumption DEF Init, LockOK, Resting, Idle
<1>8. Held
  BY <1>1, <1>2, AuthIsHeld DEF Held, Auths
<1>9. TokensOK
  BY <1>1, <1>4, <1>8 DEF TokensOK, Presents, Idle
<1> QED  BY <1>6, <1>7, <1>9 DEF RefreshInvariant

LEMMA StepRefresh == RefreshInvariant /\ [Next]_vars => RefreshInvariant'
<1> SUFFICES ASSUME RefreshInvariant, [Next]_vars PROVE RefreshInvariant'
  OBVIOUS
<1>1. CASE \E r \in Refreshers : Begin(r)
  BY <1>1, BeginKeeps
<1>2. CASE \E r \in Refreshers : Step(r)
  BY <1>2, LockKeeps, ExchangeKeeps, TryFailsKeeps, FailedKeeps, SucceededKeeps, SaveKeeps
  DEF Step
<1>3. CASE ExchangeUnheard \/ Result
  BY <1>3, ExchangeUnheardKeeps, ResultKeeps
<1>4. CASE PatchRead \/ PatchUpdate \/ PatchSave
  BY <1>4, PatchReadKeeps, PatchUpdateKeeps, PatchSaveKeeps
<1>5. CASE SignIn \/ EditFile \/ DeleteFile
  BY <1>5, SignInKeeps, EditFileKeeps, DeleteFileKeeps
<1>6. CASE Look \/ Reload \/ ReloadSave
  BY <1>6, LookKeeps, ReloadKeeps, ReloadSaveKeeps
<1>7. CASE UNCHANGED vars
  <2>1. UNCHANGED <<issued, live, stray, lost, epoch, holder, refresher, held, patch, reload,
                    queued, file, guard, disturbed>>
    BY <1>7 DEF vars
  <2>2. CountsOK' /\ Auths' = Auths /\ Files' = Files
    BY <2>1, SameCounts DEF RefreshInvariant
  <2>3. Types'
    BY <2>1, <2>2, SameRefreshers DEF RefreshInvariant, Types, Held
  <2> QED  BY <2>1, <2>3, LockUntouched, TokensUntouched DEF RefreshInvariant
<1> QED  BY <1>1, <1>2, <1>3, <1>4, <1>5, <1>6, <1>7 DEF Next

LEMMA InitFile == Init => FileOK
<1> SUFFICES ASSUME Init PROVE FileOK
  OBVIOUS
<1> DEFINE content == [token |-> 1, disabled |-> FALSE]
<1>1. /\ held = Auth(1, 1, content) /\ epoch = 1 /\ file = content /\ parsed = content
      /\ guard = [epoch |-> 1, generation |-> 1] /\ queued = <<>> /\ ~event /\ issued = 1
  BY DEF Init
<1>2. content \in Contents /\ content # NoFile
  <2>1. content \in Contents
    BY <1>1 DEF Contents
  <2>2. content \in [token : Nat, disabled : BOOLEAN]
    OBVIOUS
  <2> QED  BY <2>1, <2>2, TokenAssumption
<1>3. held.generation = 1 /\ Content(held) = content
  BY <1>1 DEF Auth, Content
<1>4. Held
  <2>1. held \in Auths
    BY <1>1 DEF Auths, Auth, Errors
  <2> QED  BY <1>1, <2>1, AuthIsHeld DEF Auths, Held
<1>5. Saves = {} /\ Reloads = {}
  BY DEF Init, Saves, Reloads, Idle
<1> HIDE DEF content
<1>6. VersionsOK
  <2>1. guard.generation = 1
    BY <1>1
  <2> QED  BY <1>3, <1>4, <1>5, <2>1 DEF VersionsOK
<1>7. WatchOK
  BY <1>1, <1>2 DEF WatchOK, Files
<1>8. AgreementOK
  BY <1>1, <1>3, <1>4 DEF AgreementOK, Target
<1> QED  BY <1>6, <1>7, <1>8 DEF FileOK

LEMMA StepFile == FileInvariant /\ [Next]_vars => FileInvariant'
<1> SUFFICES ASSUME FileInvariant, [Next]_vars PROVE FileInvariant'
  OBVIOUS
<1>1. RefreshInvariant'
  BY StepRefresh DEF FileInvariant
<1>2. FileOK'
  <2>1. CASE \E r \in Refreshers : Begin(r) \/ Step(r)
    BY <2>1, BeginFile, LockFile, ExchangeFile, TryFailsFile, FailedFile, SucceededFile, SaveFile
    DEF Step
  <2>2. CASE ExchangeUnheard \/ Result \/ PatchRead \/ PatchUpdate \/ PatchSave
    BY <2>2, ExchangeUnheardFile, ResultFile, PatchReadFile, PatchUpdateFile, PatchSaveFile
  <2>3. CASE SignIn \/ EditFile \/ DeleteFile
    BY <2>3, SignInFile, EditFileFile
  <2>4. CASE Look \/ Reload \/ ReloadSave
    BY <1>1, <2>4, LookFile, ReloadFile, ReloadSaveFile
  <2>5. CASE UNCHANGED vars
    <3>1. UNCHANGED <<issued, live, stray, lost, epoch, held, guard, file, event, unsaved, parsed,
                      queued, disturbed, refresher, patch, reload>>
      BY <2>5 DEF vars
    <3>2. Saves' = Saves /\ Reloads' = Reloads /\ Files \subseteq Files'
      BY <3>1, SameCounts DEF Saves, Reloads, FileInvariant, RefreshInvariant
    <3> QED  BY <3>1, <3>2, FileUntouched DEF FileInvariant, RefreshInvariant
  <2> QED  BY <2>1, <2>2, <2>3, <2>4, <2>5 DEF Next
<1> QED  BY <1>1, <1>2 DEF FileInvariant

\* The types, the refresh lock and the account of consumed tokens hold in every reachable state.
THEOREM RefreshInvariantHolds == Spec => []RefreshInvariant
BY InitRefresh, StepRefresh, PTL DEF Spec

\* The manager, the file's guard and the upstream agree about epochs and tokens, and whoever
\* refreshes holds the credential's refresh lock (refreshAuthForRequest, persist).
THEOREM RefreshTyped == Spec => []RefreshTypeOK
<1>1. RefreshInvariant => RefreshTypeOK
  <2> SUFFICES ASSUME RefreshInvariant PROVE RefreshTypeOK
    OBVIOUS
  <2>1. Held => held.epoch = epoch /\ held.token \in 1 .. issued
    BY DEF RefreshInvariant, Types, Auths
  <2>2. (holder = Nobody) = (\A r \in Refreshers : refresher[r].phase \in {"idle", "waiting"})
    BY TokenAssumption DEF RefreshInvariant, LockOK, Resting
  <2>3. \A r \in Refreshers : refresher[r].phase \notin {"idle", "waiting"} => holder = r
    BY DEF RefreshInvariant, LockOK, Resting
  <2>4. guard.epoch <= epoch
    BY DEF RefreshInvariant, Types, CountsOK
  <2>5. live \cup stray \cup lost \subseteq 1 .. issued
    <3>1. live \subseteq 1 .. issued /\ stray \cup lost \subseteq 1 .. issued
      BY DEF RefreshInvariant, Types, CountsOK
    <3> HIDE DEF RefreshInvariant
    <3> QED  BY <3>1
  <2> QED  BY <2>1, <2>2, <2>3, <2>4, <2>5 DEF RefreshTypeOK, Held
<1> QED  BY <1>1, RefreshInvariantHolds, PTL

\* The upstream refuses a token that a refresher presents only if it consumed that token for a
\* request whose answer was lost: no number of refreshers, results, edits and sign-ins makes one
\* credential's token be spent twice (refreshLocks, RefreshTokensWithRetry).
THEOREM TokensSpentOnce == Spec => []SpentOnce
<1>1. RefreshInvariant => SpentOnce
  BY DEF RefreshInvariant, TokensOK, Presents, SpentOnce
<1> QED  BY <1>1, RefreshInvariantHolds, PTL

\* The token that is held is accepted by the upstream, or its successor is on its way to the
\* manager, or was lost with the answer that brought it (refreshTokensSingleFlight).
THEOREM TokenIsKept == Spec => []TokenKept
<1>1. RefreshInvariant => TokenKept
  <2> SUFFICES ASSUME RefreshInvariant, Undisturbed, held.token \notin live \cup lost
               PROVE  \E r \in Refreshers :
                        refresher[r].phase = "answered" /\ refresher[r].token \in live
    BY DEF TokenKept
  <2>1. held.token \in 1 .. issued /\ issued \in Nat
    BY DEF RefreshInvariant, TokensOK, Types, Auths, CountsOK
  <2>2. ~(held.token < held.token)
    BY <2>1
  <2>3. PICK r \in Refreshers : Refreshed(refresher[r])
    BY <2>1, <2>2 DEF RefreshInvariant, TokensOK
  <2> QED  BY <2>3 DEF RefreshInvariant, Types, RefresherOK, Refreshed
<1> QED  BY <1>1, RefreshInvariantHolds, PTL

\* What the merge makes of the switch and of the error.
LEMMA MergeKeeps ==
  ASSUME Types, NEW r \in Refreshers, Succeeded(r), Held, held' # held
  PROVE  LET base == refresher[r].base
         IN  /\ held'.disabled = held.disabled
             /\ held.error # base.error /\ held.error # "none" => held'.error = held.error
<1> DEFINE base == refresher[r].base
           updated == [base EXCEPT !.token = refresher[r].token, !.error = "none"]
           first == MergeRefreshedAuth(base, held, updated)
<1>1. base \in Auths /\ held \in Auths
  BY DEF Succeeded, Types, RefresherOK
<1>2. Install([first EXCEPT !.generation = @ + 1])
  BY DEF Succeeded, Install
<1>3. updated.disabled = base.disabled
  BY <1>1 DEF Auths
<1> HIDE DEF updated
<1> DEFINE token == updated.token
           disabled == IF (updated.disabled # base.disabled) /\ ~(held.disabled # base.disabled)
                       THEN updated.disabled ELSE held.disabled
           error == IF held.error \notin {"none", base.error} \/ held.disabled
                    THEN held.error ELSE updated.error
<1>4. first = [held EXCEPT !.token = token, !.disabled = disabled, !.error = error]
  BY DEF MergeRefreshedAuth
<1>5. disabled = held.disabled
  BY <1>3
<1>6. held.error # base.error /\ held.error # "none" => error = held.error
  OBVIOUS
<1> HIDE DEF token, disabled, error
<1>7. first = [epoch |-> held.epoch, generation |-> held.generation,
               token |-> token, disabled |-> disabled, error |-> error]
  BY <1>1, <1>4, ThreeFields
<1> HIDE DEF first
<1>8. held' = [first EXCEPT !.generation = @ + 1]
  BY <1>2 DEF Install
<1>9. held'.disabled = disabled /\ held'.error = error
  BY <1>7, <1>8
<1> QED  BY <1>5, <1>6, <1>9

\* A refresh neither undoes a switch of the operator's nor hides an error it has not seen
\* (UpdateRefreshedAuth merges, it does not replace).
THEOREM RefreshMerges == Spec => RefreshKeepsChanges
<1> DEFINE Kept ==
      \A r \in Refreshers : Succeeded(r) /\ Held /\ held' # held =>
        LET base == refresher[r].base
        IN  /\ held'.disabled = held.disabled
            /\ held.error # base.error /\ held.error # "none" => held'.error = held.error
<1>1. RefreshInvariant => Kept
  BY MergeKeeps DEF RefreshInvariant
<1>2. RefreshInvariant /\ [Next]_vars => [Kept]_vars
  BY <1>1
<1>3. RefreshKeepsChanges <=> [][Kept]_vars
  BY DEF RefreshKeepsChanges
<1> HIDE DEF Kept
<1> QED  BY <1>2, <1>3, RefreshInvariantHolds, PTL DEF Spec

\* Saves are written in the order of the changes they stand for, whoever makes them, so the file
\* ends up with what the manager holds (persist, FileTokenStore.Save and the watcher's reload).
THEOREM FileAgreesInTheEnd == Spec => []FileAgrees
<1>1. Init => FileInvariant
  BY InitRefresh, InitFile DEF FileInvariant
<1>2. FileInvariant => FileAgrees
  <2> SUFFICES ASSUME FileInvariant, Settled, ~unsaved, "restored file" \notin disturbed
               PROVE  file = Target
    BY DEF FileAgrees, Target
  <2>1. file = parsed /\ queued = <<>>
    BY DEF FileInvariant, FileOK, WatchOK, Settled
  <2>2. Saves = {}
    BY DEF Saves, Settled
  <2> QED  BY <2>1, <2>2 DEF FileInvariant, FileOK, AgreementOK
<1> QED  BY <1>1, <1>2, StepFile, PTL DEF Spec
=============================================================================
