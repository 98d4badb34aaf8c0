-------------------------- MODULE AvatarWishProofs --------------------------
(***************************************************************************)
(* What the user wished for last is what is saved and what the session     *)
(* works for; what it reports is that wish, and is true of the server.     *)
(***************************************************************************)
EXTENDS AvatarProofs

-----------------------------------------------------------------------------
(* The store                                                               *)

\* The saving of wishes takes turns; a wish that passed its test is not older than
\* what it will replace.
Orderly ==
    /\ \A a, b \in Selections : wishes[a].at \in Saving /\ wishes[b].at \in Saving => a = b
    /\ \A k \in Selections : k > store.selection => wishes[k].at = "none"
    /\ store.file.of <= store.selection
    /\ store.file.kind = "image" =>
         store.file.of <= store.saved \/ wishes[store.file.of].at = "renamed"
    /\ \A k \in Selections : wishes[k].at = "tested" =>
         k >= store.file.of \/ (wishes[k].kind = "clear" /\ store.file.kind = "clear")
    /\ \A k \in Selections : wishes[k].at = "renamed" => store.file = Reference(k)

-----------------------------------------------------------------------------
(* What the session knows of the store                                     *)

\* A revision the session has not seen is announced to it.
IsTold == sync.revision <= store.revision /\ (sync.revision # store.revision => Notifies)

Bounded ==
    link.subscribed /\ ~sync.blocked /\ sync.pending /\ ~sync.draining =>
        sync.deadline \/ Notifies

Picture(n) == [kind |-> "image", of |-> n]

\* What an AvatarSync s that knows the saved wish works for, and what its tasks
\* bring it.
Wanted(s, dn) ==
    s.revision = store.revision /\ Announced =>
        /\ s.upload # NoUpload /\ ~s.draining => store.file = Picture(s.upload.content.of)
        /\ s.choices # 0 => store.file = Picture(s.choices)
        /\ s.clear => store.file.kind = "clear"
        /\ s.deleting # 0 /\ ~s.draining => store.file.kind = "clear"
        /\ s.stage = "cleared" /\ s.retry => store.file.kind = "clear"
        /\ \A i \in DOMAIN dn : dn[i].kind = "load" /\ dn[i].token = s.token =>
              dn[i].result = store.file \/ dn[i].result.kind = "error"

WantedInv == Wanted(sync, done)

LEMMA OrderlyInit ==
    ASSUME Init
    PROVE  Orderly
  BY DEF Init, StoreInit, Orderly, NoFile, Saving

\* A step of a wish moves no other.
LEMMA MovesOne ==
    ASSUME StoreTypeOK, NEW s \in Selections, NEW from, NEW to, Moves(s, from, to)
    PROVE  /\ wishes[s].at = from /\ wishes'[s].at = to /\ wishes'[s].kind = wishes[s].kind
           /\ \A k \in Selections \ {s} : wishes'[k] = wishes[k]
  BY DEF StoreTypeOK, Moves, Wish, Selections

LEMMA ReferenceKept ==
    ASSUME NEW k \in Selections, wishes'[k].kind = wishes[k].kind
    PROVE  Reference(k)' = Reference(k)
  BY DEF Reference

LEMMA OrderlyStep ==
    ASSUME StoreTypeOK, Orderly, StoreNext \/ UNCHANGED <<store, wishes>>
    PROVE  Orderly'
<1>1. StoreTypeOK /\ Orderly
  OBVIOUS
<1>3. /\ store.selection \in Nat /\ store.saved \in Nat
      /\ store.file.of \in Nat /\ (store.file.kind = "image" => store.file.of \in Selections)
      /\ \A k \in Selections : k \in Nat
  BY <1>1, AvatarStoreAssumption DEF StoreTypeOK, References, NoFile, Selections
<1>4. ASSUME NEW kind \in Kinds, Choose(kind) PROVE Orderly'
  BY <1>1, <1>3, <1>4, AvatarStoreAssumption, ReferenceKept DEF Choose, Orderly, Selections,
     StoreTypeOK, Saving
<1>5. CASE Cancel
  BY <1>1, <1>5, <1>3 DEF Cancel, StoreTypeOK, Reference, Orderly
<1>6. ASSUME NEW s \in Selections, GiveUp(s) \/ Write(s) \/ Finish(s) PROVE Orderly'
  <2>1. PICK from \in Steps, to \in {"over", "written"} :
          Moves(s, from, to) /\ (to = "written" => Free) /\ from # "none"
    BY <1>6 DEF GiveUp, Write, Finish, Steps, Saving
  <2>2. store' = store
    BY <1>6 DEF GiveUp, Write, Finish
  <2>3. /\ wishes[s].at # "none" /\ wishes'[s].at = to /\ wishes'[s].kind = wishes[s].kind
        /\ \A k \in Selections \ {s} : wishes'[k] = wishes[k]
    BY <1>1, <2>1, MovesOne
  <2>4. \A k \in Selections : Reference(k)' = Reference(k)
    BY <2>3, ReferenceKept
  <2>5. wishes[s].at # "renamed"
    BY <1>1, <1>6 DEF GiveUp, Write, Finish, Moves
  <2> QED BY <1>1, <1>3, <2>1, <2>2, <2>3, <2>4, <2>5 DEF Orderly, Saving, Free
<1>7. ASSUME NEW s \in Selections, Test(s) PROVE Orderly'
  BY <1>7, <1>1, MovesOne, ReferenceKept, <1>3 DEF Test, Cancelled, Orderly, StoreTypeOK,
     Wish, Kinds, Saving, NoFile, References
<1>8. ASSUME NEW s \in Selections, Commit(s) PROVE Orderly'
  BY <1>8, <1>1, MovesOne, <1>3 DEF Commit, StoreTypeOK, Reference, Orderly, Saving
<1>9. ASSUME NEW s \in Selections, Announce(s) PROVE Orderly'
  <2>1. Moves(s, "renamed", "announced")
        /\ store' = [store EXCEPT !.revision = @ + 1,
                                  !.saved = IF wishes[s].kind = "image" THEN s ELSE @]
    BY <1>9 DEF Announce
  <2>2. /\ wishes[s].at = "renamed" /\ wishes'[s].at = "announced"
        /\ wishes'[s].kind = wishes[s].kind
        /\ \A k \in Selections \ {s} : wishes'[k] = wishes[k]
    BY <1>1, <2>1, MovesOne
  <2>3. store'.file = store.file /\ store'.selection = store.selection
        /\ (wishes[s].kind = "image" => store'.saved = s)
    BY <1>1, <2>1 DEF StoreTypeOK
  <2>4. store.file.of = s /\ store.file.kind = wishes[s].kind
    <3>1. store.file = Reference(s)
      BY <1>1, <2>2 DEF Orderly
    <3> QED BY <3>1 DEF Reference
  <2>5. \A k \in Selections : wishes'[k].at \in Saving => k = s
    BY <1>1, <2>2 DEF Orderly, Saving
  <2> QED BY <1>1, <1>3, <2>2, <2>3, <2>4, <2>5 DEF Orderly, Saving
<1>10. CASE UNCHANGED <<store, wishes>>
  BY <1>10, <1>1 DEF Reference, Orderly
<1> QED BY <1>4, <1>5, <1>6, <1>7, <1>8, <1>9, <1>10 DEF StoreNext

\* Every step is one of the store, or leaves it.
LEMMA StoreSteps ==
    ASSUME [Next]_vars
    PROVE  StoreNext \/ UNCHANGED <<store, wishes>>
<1>1. CASE SaveStep
  BY <1>1 DEF SaveStep
<1>2. CASE TakeMessage
  BY <1>2 DEF TakeMessage, Rest
<1>3. ASSUME NEW t \in ready, TakeTransfer(t) PROVE UNCHANGED <<store, wishes>>
  BY <1>3 DEF TakeTransfer
<1>4. CASE TakeCompletion \/ TakeAvatarChanged \/ Subscribe
  BY <1>4 DEF TakeCompletion, TakeAvatarChanged, Subscribe, Rest
<1>5. CASE Expire \/ Interrupted \/ EndSession
  BY <1>5 DEF Expire, Interrupted, EndSession, Lose
<1>6. CASE TaskStep
  BY <1>6 DEF TaskStep, Load, Compare, storeVars
<1>7. CASE Serve
  BY <1>7 DEF Serve, storeVars
<1>8. ASSUME NEW x \in server.live, ReceiveFile(x) \/ DropTransfer(x)
      PROVE  UNCHANGED <<store, wishes>>
  BY <1>8 DEF ReceiveFile, DropTransfer, storeVars
<1>9. CASE ChangeForeign
  BY <1>9 DEF ChangeForeign, storeVars
<1>10. CASE UNCHANGED vars
  BY <1>10 DEF vars, storeVars
<1> QED BY <1>1, <1>2, <1>3, <1>4, <1>5, <1>6, <1>7, <1>8, <1>9, <1>10
        DEF Next, SessionStep, ServerStep

LEMMA OrderIsInvariant == Spec => [](AvatarInv /\ Orderly)
<1>1. Init => AvatarInv /\ Orderly
  BY AvatarInit, OrderlyInit
<1>2. AvatarInv /\ Orderly /\ [Next]_vars => (AvatarInv /\ Orderly)'
  BY AvatarStep, OrderlyStep, StoreSteps DEF AvatarInv, AvatarTypes
<1> QED BY <1>1, <1>2, PTL DEF Spec

\* A wish that was saved is never replaced by an older one, in whatever order the
\* workers prepare and save what the user chose (avatar.rs, durable_reference).
THEOREM SavedWishesAreNewer == Spec => NewerWishWins
<1>1. AvatarInv /\ Orderly /\ [Next]_vars =>
        [\/ store'.file.of >= store.file.of
         \/ store'.file.kind = "clear" /\ store.file.kind = "clear"]_store
  <2> SUFFICES ASSUME AvatarInv, Orderly, StoreNext, store' # store
               PROVE  \/ store'.file.of >= store.file.of
                      \/ store'.file.kind = "clear" /\ store.file.kind = "clear"
    BY StoreSteps
  <2>1. StoreTypeOK /\ store.file.of \in Nat
    BY AvatarStoreAssumption DEF AvatarInv, AvatarTypes, StoreTypeOK, References, NoFile, Selections
  <2>2. ASSUME NEW s \in Selections, Commit(s)
        PROVE  \/ store'.file.of >= store.file.of
               \/ store'.file.kind = "clear" /\ store.file.kind = "clear"
    BY <2>1, <2>2 DEF Commit, Moves, StoreTypeOK, Reference, Orderly
  <2>3. CASE store'.file = store.file
    BY <2>1, <2>3
  <2>4. \A kind \in Kinds : Choose(kind) => store'.file = store.file
    BY <2>1 DEF Choose, StoreTypeOK
  <2>5. Cancel => store'.file = store.file
    BY <2>1 DEF Cancel, StoreTypeOK
  <2>6. \A s \in Selections :
          GiveUp(s) \/ Write(s) \/ Test(s) \/ Announce(s) \/ Finish(s) => store'.file = store.file
    BY <2>1 DEF GiveUp, Write, Test, Announce, Finish, StoreTypeOK
  <2> QED BY <2>2, <2>3, <2>4, <2>5, <2>6 DEF StoreNext
<1> QED BY <1>1, OrderIsInvariant, PTL DEF Spec, NewerWishWins

-----------------------------------------------------------------------------
(* The operations take up no wish of their own                             *)

\* From s to t nothing is taken up that s did not work for.
Tame(s, t) ==
    /\ t.revision = s.revision /\ t.token = s.token /\ t.clear = s.clear
    /\ t.choices \in {0, s.choices}
    /\ t.upload # NoUpload /\ ~t.draining =>
         s.upload # NoUpload /\ ~s.draining /\ t.upload.content = s.upload.content
    /\ t.deleting # 0 /\ ~t.draining => s.deleting # 0 /\ ~s.draining
    /\ t.stage = "cleared" /\ t.retry => s.stage = "cleared" /\ s.retry

LEMMA TameStays ==
    ASSUME NEW s, NEW t, NEW dn, Tame(s, t), Wanted(s, dn)
    PROVE  Wanted(t, dn)
  BY DEF Tame, Wanted

LEMMA TameTwice ==
    /\ \A s : Tame(s, s)
    /\ \A s, t, u : Tame(s, t) /\ Tame(t, u) => Tame(s, u)
  BY DEF Tame

LEMMA FailedTame ==
    ASSUME NEW s \in Syncs, NEW timeout \in BOOLEAN
    PROVE  Tame(s, Failed(s, timeout))
  BY FailedMoves DEF Else, Fields, Tame

LEMMA DrainedTame ==
    ASSUME NEW s \in Syncs
    PROVE  Tame(s, Drained(s))
  BY DrainedMoves DEF Else, Fields, Tame

\* The stage, the timer, the task and the questions are not part of a wish.
LEMMA PassingTame ==
    ASSUME NEW s, NEW t,
           Else(t, s, {"stage", "deadline", "worker", "query", "queryTimedOut", "missing",
                       "drainQuery", "drainId", "next", "pending", "sent"}),
           t.stage # "cleared" \/ t.stage = s.stage
    PROVE  Tame(s, t)
  BY DEF Else, Fields, Tame

LEMMA EnterTame ==
    ASSUME NEW s \in Syncs, NEW stage \in Stages, stage # "cleared"
    PROVE  Tame(s, Enter(s, stage))
  BY EnterMoves, PassingTame DEF Else

LEMMA SendTame ==
    ASSUME NEW s \in Syncs, NEW c \in AvatarCommand
    PROVE  Tame(s, Send(s, c))
  BY SendMoves, PassingTame DEF Else, Fields

LEMMA VerifyTame ==
    ASSUME NEW s \in Syncs, Local(s), s.upload # NoUpload
    PROVE  Tame(s, Verify(s))
<1> DEFINE h == s.handles + 1
           x == [s.upload EXCEPT !.download = h]
           t == Fetching(s, h, x)
           c == [op |-> "download", handle |-> h]
<1>1. h \in Nat /\ s.upload \in Uploads
  BY DEF Syncs
<1>2. x \in Uploads /\ x.content = s.upload.content
  BY <1>1 DEF Uploads
<1>3. c \in AvatarCommand
  BY <1>1, CommandsMade
<1> HIDE DEF h, x
<1>4. /\ t \in Syncs /\ t.upload = x /\ t.stage = "download"
      /\ Else(t, s, {"stage", "deadline", "handles", "upload"})
  BY <1>1, <1>2, FetchingMoves
<1>5. Verify(s) = Send(t, c)
  BY EnterMoves DEF Fetching, x, Enter, Syncs, Verify, h
<1> HIDE DEF t, c
<1>6. /\ t.revision = s.revision /\ t.token = s.token /\ t.clear = s.clear
      /\ t.choices = s.choices /\ t.retry = s.retry
      /\ t.draining = s.draining /\ t.deleting = s.deleting
  BY <1>4 DEF Else, Fields
<1>7. Tame(s, t)
  BY <1>2, <1>4, <1>6 DEF Tame
<1> QED BY <1>3, <1>4, <1>5, <1>7, SendTame, TameTwice

LEMMA RequestTame ==
    ASSUME NEW s \in Syncs, Local(s)
    PROVE  Tame(s, RequestInfo(s))
<1> DEFINE n == IF s.deleting # 0 THEN s.deleting ELSE s.token
           q == [NoQuery EXCEPT !.token = n]
           t == [s EXCEPT !.query = q]
           c == [op |-> "info", token |-> n]
<1>1. CASE s.queryTimedOut
  BY <1>1, FailedTame DEF RequestInfo
<1>2. CASE ~s.queryTimedOut
  <2>1. n \in Nat
    BY DEF Syncs
  <2> HIDE DEF n
  <2>2. q \in Queries /\ c \in AvatarCommand
    BY <2>1, Nothings, CommandsMade DEF Queries
  <2>3. RequestInfo(s) = Send(t, c)
    BY <1>2 DEF RequestInfo, n
  <2> HIDE DEF q, c
  <2>4. t \in Syncs /\ Else(t, s, {"query"})
    BY <2>2, QueryingMoves
  <2> HIDE DEF t
  <2>5. Else(t, s, {"stage", "deadline", "worker", "query", "queryTimedOut", "missing",
                    "drainQuery", "drainId", "next", "pending", "sent"}) /\ t.stage = s.stage
    BY <2>4 DEF Else, Fields
  <2> QED BY <2>2, <2>3, <2>4, <2>5, PassingTame, SendTame, TameTwice
<1> QED BY <1>1, <1>2

LEMMA CheckDrainTame ==
    ASSUME NEW s \in Syncs
    PROVE  Tame(s, CheckDrain(s))
<1> DEFINE n == IF s.upload # NoUpload THEN s.upload.token ELSE s.previous.token
           t == [s EXCEPT !.drainQuery = n]
           c == [op |-> "list", token |-> n]
<1>1. n \in Nat
  BY DEF Syncs, Uploads, Transfers
<1>2. CheckDrain(s) = Send(t, c) \/ CheckDrain(s) = s
  BY DEF CheckDrain
<1> HIDE DEF n
<1>3. c \in AvatarCommand
  BY <1>1, CommandsMade
<1> HIDE DEF c
<1>4. t \in Syncs /\ Else(t, s, {"drainQuery"})
  BY <1>1, AskingMoves
<1> HIDE DEF t
<1>5. Else(t, s, {"stage", "deadline", "worker", "query", "queryTimedOut", "missing",
                  "drainQuery", "drainId", "next", "pending", "sent"}) /\ t.stage = s.stage
  BY <1>4 DEF Else, Fields
<1> QED BY <1>2, <1>3, <1>4, <1>5, PassingTame, SendTame, TameTwice

\* Confirmed is what was wished for.
LEMMA ConfirmedWanted ==
    ASSUME NEW s \in Syncs, NEW dn, Wanted(s, dn), s.deleting # 0
    PROVE  Wanted(ClearConfirmed(s), dn) /\ ClearConfirmed(s).revision = s.revision
<1>1. CASE s.draining
  BY <1>1, DrainedTame, TameStays DEF ClearConfirmed, Tame
<1>2. CASE ~s.draining
  <2> DEFINE t == [s EXCEPT !.deleting = 0, !.stage = "cleared", !.deadline = FALSE]
  <2>1. ClearConfirmed(s) = t
    BY <1>2 DEF ClearConfirmed
  <2>2. t.deleting = 0 /\ Else(t, s, {"deleting", "stage", "deadline"})
    BY ConfirmedMoves
  <2> HIDE DEF t
  <2>3. /\ t.revision = s.revision /\ t.token = s.token /\ t.clear = s.clear
        /\ t.choices = s.choices /\ t.upload = s.upload /\ t.draining = s.draining
    BY <2>2 DEF Else, Fields
  <2> QED BY <1>2, <2>1, <2>2, <2>3 DEF Wanted
<1> QED BY <1>1, <1>2

LEMMA CheckClearWanted ==
    ASSUME NEW s \in Syncs, Local(s), NEW hash, NEW dn, Wanted(s, dn)
    PROVE  Wanted(CheckClear(s, hash), dn) /\ CheckClear(s, hash).revision = s.revision
  BY RequestTame, TameStays, ConfirmedWanted DEF Tame, CheckClear

LEMMA CheckHashTame ==
    ASSUME NEW s \in Syncs, Local(s), NEW hash
    PROVE  Tame(s, CheckHash(s, hash))
  BY TameTwice, RequestTame, VerifyTame DEF CheckHash

\* What is started is what the session has loaded.
LEMMA StartWanted ==
    ASSUME NEW s \in Syncs, Local(s), NEW hash, NEW dn, Wanted(s, dn)
    PROVE  /\ Wanted(Start(s, hash), dn) /\ Start(s, hash).revision = s.revision
           /\ MayStart(s) =>
                Start(s, hash).deadline \/ ~Start(s, hash).pending
<1>1. CASE ~MayStart(s)
  BY <1>1 DEF Start
<1>2. CASE MayStart(s) /\ s.choices = 0 /\ ~s.clear
  <2> DEFINE t == [Enter(s, "load") EXCEPT !.worker = "load"]
  <2>1. Start(s, hash) = t
    BY <1>2 DEF Start
  <2>2. t.stage = "load" /\ t.deadline /\ Else(t, s, {"stage", "deadline", "worker"})
    BY LoadMoves
  <2> HIDE DEF t
  <2>3. Else(t, s, {"stage", "deadline", "worker", "query", "queryTimedOut", "missing",
                    "drainQuery", "drainId", "next", "pending", "sent"})
    BY <2>2 DEF Else
  <2>4. Tame(s, t)
    BY <2>2, <2>3, PassingTame
  <2> QED BY <2>1, <2>2, <2>4, TameStays DEF Tame
<1>3. CASE MayStart(s) /\ s.clear /\ hash = NoContent
  <2> DEFINE t == [s EXCEPT !.pending = FALSE, !.stage = "cleared", !.deadline = FALSE]
  <2>1. Start(s, hash) = t
    BY <1>3 DEF Start, StartClear
  <2>2. ~t.pending /\ Else(t, s, {"pending", "stage", "deadline"})
    BY EmptyMoves
  <2> HIDE DEF t
  <2>3. /\ t.revision = s.revision /\ t.token = s.token /\ t.clear = s.clear
        /\ t.choices = s.choices /\ t.upload = s.upload /\ t.draining = s.draining
        /\ t.deleting = s.deleting
    BY <2>2 DEF Else, Fields
  <2> QED BY <1>3, <2>1, <2>2, <2>3 DEF Wanted
<1>4. CASE MayStart(s) /\ s.clear /\ hash # NoContent
  <2> DEFINE t == [Enter(s, "delete") EXCEPT !.pending = FALSE, !.missing = FALSE,
                                             !.deleting = s.token]
             c == [op |-> "delete", token |-> s.token]
             u == Send(t, c)
  <2>1. Start(s, hash) = u
    BY <1>4 DEF Start, StartClear
  <2>2. t \in Syncs /\ ~t.pending /\ t.stage = "delete"
        /\ Else(t, s, {"stage", "deadline", "pending", "missing", "deleting"})
    BY DeletingMoves
  <2>3. c \in AvatarCommand
    BY CommandsMade DEF Syncs
  <2> HIDE DEF t, c
  <2>4. Else(u, t, {"sent"})
    BY <2>2, <2>3, SendMoves
  <2> HIDE DEF u
  <2>5. /\ u.revision = s.revision /\ u.token = s.token /\ u.clear = s.clear
        /\ u.choices = s.choices /\ u.upload = s.upload /\ u.draining = s.draining
        /\ u.stage = "delete" /\ ~u.pending
    BY <2>2, <2>4 DEF Else, Fields
  <2> QED BY <1>4, <2>1, <2>5 DEF Wanted
<1>5. CASE MayStart(s) /\ s.choices # 0 /\ ~s.clear
  <2>1. CASE Start(s, hash) = [s EXCEPT !.pending = FALSE, !.deadline = FALSE]
    <3> DEFINE t == [s EXCEPT !.pending = FALSE, !.deadline = FALSE]
    <3>1. ~t.pending /\ Else(t, s, {"pending", "deadline"})
      BY SettledMoves
    <3> HIDE DEF t
    <3>2. Else(t, s, {"stage", "deadline", "worker", "query", "queryTimedOut", "missing",
                      "drainQuery", "drainId", "next", "pending", "sent"}) /\ t.stage = s.stage
      BY <3>1 DEF Else, Fields
    <3>3. Tame(s, t)
      BY <3>2, PassingTame
    <3> QED BY <2>1, <3>1, <3>3, TameStays DEF Tame, t
  <2>2. CASE Start(s, hash) = Failed(s, FALSE)
    <3>1. Tame(s, Failed(s, FALSE)) /\ ~Failed(s, FALSE).pending
      BY FailedTame, FailedMoves
    <3> QED BY <2>2, <3>1, TameStays DEF Tame
  <2>3. CASE Start(s, hash) = StartUpload(s) /\ s.next <= Candidates
    <3> DEFINE h == s.handles + 1
               content == [of |-> s.choices, size |-> s.next]
               x == [handle |-> h, token |-> s.token, content |-> content, download |-> 0]
               t == Connecting(s, h, x)
               c == [op |-> "upload", handle |-> h, content |-> content]
               u == Send(t, c)
    <3>1. StartUpload(s) = u
      BY DEF StartUpload, Connecting
    <3>2. h \in Nat /\ s.token \in Nat /\ content \in File /\ content.of = s.choices
      BY <1>5, <2>3, Numbers DEF Syncs, File, Selections, Sizes, Chosen
    <3>3. x \in Uploads /\ x.content = content /\ c \in AvatarCommand
      BY <3>2, CommandsMade DEF Uploads, Contents
    <3> HIDE DEF h, content, x, c
    <3>4. t \in Syncs /\ ~t.pending /\ t.upload = x /\ t.stage = "connect"
          /\ Else(t, s, {"stage", "deadline", "pending", "handles", "upload"})
      BY <3>2, <3>3, ConnectingMoves
    <3> HIDE DEF t
    <3>5. Else(u, t, {"sent"})
      BY <3>3, <3>4, SendMoves
    <3> HIDE DEF u
    <3>6. /\ u.revision = s.revision /\ u.token = s.token /\ u.clear = s.clear
          /\ u.choices = s.choices /\ u.upload = x /\ u.draining = s.draining
          /\ u.stage = "connect" /\ ~u.pending /\ u.deleting = s.deleting
      BY <3>4, <3>5 DEF Else, Fields
    <3> QED BY <1>5, <2>3, <3>1, <3>2, <3>3, <3>6 DEF Wanted, Picture
  <2>4. Start(s, hash) = StartImage(s, hash)
    BY <1>5 DEF Start
  <2>5. s.next > Candidates \/ s.next <= Candidates
    BY AvatarSyncAssumption DEF Syncs, Sizes
  <2> QED BY <2>1, <2>2, <2>3, <2>4, <2>5 DEF StartImage
<1> QED BY <1>1, <1>2, <1>3, <1>4, <1>5

\* After a check either nothing is left to be started, or a timer runs.
LEMMA CheckWanted ==
    ASSUME NEW s, NEW hash, NEW p, NEW back, NEW live, NEW rdy, NEW dn,
           Holding(s, p, back, live, rdy, dn), Wanted(s, dn)
    PROVE  LET t == Check(s, hash) IN
           /\ Wanted(t, dn) /\ t.revision = s.revision
           /\ t.pending /\ ~t.blocked /\ ~t.draining => t.deadline
<1> DEFINE a == CheckDrain(s)
           b == CheckClear(a, hash)
           u == CheckHash(b, hash)
           t == Start(u, hash)
<1>1. s \in Syncs
  BY DEF Holding
<1>2. Holding(a, p, back, live, rdy, dn)
  BY CheckDrainHolds
<1>3. a \in Syncs /\ Local(a) /\ Wanted(a, dn) /\ a.revision = s.revision
  BY <1>1, <1>2, CheckDrainTame, TameStays DEF Holding, World, Tame
<1> HIDE DEF a
<1>4. Holding(b, p, back, live, rdy, dn)
  BY <1>2, CheckClearHolds
<1>5. b \in Syncs /\ Local(b) /\ Wanted(b, dn) /\ b.revision = s.revision
  BY <1>3, <1>4, CheckClearWanted DEF Holding, World
<1> HIDE DEF b
<1>6. Holding(u, p, back, live, rdy, dn)
  BY <1>4, CheckHashHolds
<1>7. u \in Syncs /\ Local(u) /\ Wanted(u, dn) /\ u.revision = s.revision
  BY <1>5, <1>6, CheckHashTame, TameStays DEF Holding, World, Tame
<1>8. t = Check(s, hash)
  BY DEF Check, a, b
<1> HIDE DEF u
<1>9. Wanted(t, dn) /\ t.revision = s.revision /\ (MayStart(u) => t.deadline \/ ~t.pending)
  BY <1>7, StartWanted
<1>10. ~MayStart(u) => t = u
  BY DEF Start
<1> HIDE DEF t
<1>11. u.pending /\ ~u.blocked /\ ~u.draining => MayStart(u) \/ u.deadline
  BY <1>7 DEF Local, Working, MayStart
<1> QED BY <1>8, <1>9, <1>10, <1>11

-----------------------------------------------------------------------------
(* The handlers                                                            *)

LEMMA UploadConnectedTame ==
    ASSUME NEW s \in Syncs, NEW h
    PROVE  Tame(s, UploadConnected(s, h))
  BY WriteMoves, PassingTame, TameTwice DEF UploadConnected, Else

LEMMA DownloadConnectedTame ==
    ASSUME NEW s \in Syncs, NEW fits
    PROVE  Tame(s, DownloadConnected(s, fits))
  BY VerifyingMoves, FailedTame, PassingTame DEF DownloadConnected, Else

LEMMA ShrinkingTame ==
    ASSUME NEW s \in Syncs, NEW n \in Sizes, NEW q \in BOOLEAN
    PROVE  Shrinking(s, n, q) \in Syncs /\ Tame(s, Shrinking(s, n, q))
  BY ShrinkingMoves DEF Else, Fields, Tame

LEMMA TransferFailedTame ==
    ASSUME NEW s \in Syncs, Local(s), NEW h, NEW why
    PROVE  Tame(s, TransferFailed(s, h, why))
<1>1. CASE s.draining
  BY <1>1, TameTwice DEF TransferFailed
<1>2. CASE ~s.draining /\ (h # s.upload.handle \/ s.stage # "connect" \/ why # "size")
  BY <1>2, FailedTame DEF TransferFailed
<1>3. CASE ~s.draining /\ ~(h # s.upload.handle \/ s.stage # "connect" \/ why # "size")
  <2> DEFINE n == s.next + 1
  <2>1. CASE n <= Candidates
    <3>1. n \in Sizes
      BY <2>1, Numbers DEF Syncs
    <3>2. TransferFailed(s, h, why) = Shrinking(s, n, TRUE)
      BY StopMoves, <1>3, <2>1 DEF Else, Fields, TransferFailed, Shrinking
    <3> QED BY <3>1, <3>2, ShrinkingTame
  <2>2. CASE ~(n <= Candidates)
    BY <1>3, <2>2 DEF TransferFailed, Failed, Stop, Syncs, Tame
  <2> QED BY <2>1, <2>2
<1> QED BY <1>1, <1>2, <1>3

LEMMA UpdatedTame ==
    ASSUME NEW s \in Syncs, NEW token, NEW ok
    PROVE  Tame(s, Updated(s, token, ok))
<1> DEFINE t == [s EXCEPT !.drainQuery = 0]
<1>1. Updated(s, token, ok) \in {s, Enter(t, "drain"), Enter(s, "hash"), Failed(s, FALSE)}
  BY DEF Updated
<1>2. t \in Syncs /\ Else(t, s, {"drainQuery"})
  BY AskingMoves
<1> HIDE DEF t
<1>3. Else(t, s, {"stage", "deadline", "worker", "query", "queryTimedOut", "missing",
                  "drainQuery", "drainId", "next", "pending", "sent"}) /\ t.stage = s.stage
  BY <1>2 DEF Else, Fields
<1>4. Tame(s, t)
  BY <1>3, PassingTame
<1>5. Tame(t, Enter(t, "drain")) /\ Tame(s, Enter(s, "hash")) /\ Tame(s, Failed(s, FALSE))
  BY <1>2, EnterTame, FailedTame DEF Stages
<1>6. Tame(s, Enter(t, "drain")) /\ Tame(s, s)
  BY <1>4, <1>5, TameTwice
<1> QED BY <1>1, <1>5, <1>6

LEMMA ListedTame ==
    ASSUME NEW s \in Syncs, NEW ids
    PROVE  Tame(s, Listed(s, ids))
  BY FoundMoves, PassingTame, TameTwice DEF Listed, Syncs, Uploads, Transfers, Else, Fields

LEMMA ListEndedTame ==
    ASSUME NEW s \in Syncs, NEW token \in Nat, NEW ok
    PROVE  Tame(s, ListEnded(s, token, ok))
  BY EnterMoves, EnterTame, CommandsMade, SendTame, TameTwice, FailedTame, DrainedTame DEF
     ListEnded, Stages, Syncs

LEMMA DeletedTame ==
    ASSUME NEW s \in Syncs, NEW token, NEW result
    PROVE  Tame(s, Deleted(s, token, result))
<1> DEFINE m == s.missing \/ result = "missing"
           t == [Enter(s, "clear_hash") EXCEPT !.missing = m]
<1>1. Deleted(s, token, result) \in {s, Drained(s), Failed(s, FALSE), t}
  BY DEF Enter, Syncs, Deleted
<1>2. m \in BOOLEAN
  BY DEF Syncs
<1> HIDE DEF m
<1>3. t.stage = "clear_hash" /\ Else(t, s, {"stage", "deadline", "missing"})
  BY <1>2, ClearingMoves
<1> HIDE DEF t
<1>4. Else(t, s, {"stage", "deadline", "worker", "query", "queryTimedOut", "missing",
                  "drainQuery", "drainId", "next", "pending", "sent"})
  BY <1>3 DEF Else
<1>5. Tame(s, Failed(s, FALSE)) /\ Tame(s, Drained(s)) /\ Tame(s, s) /\ Tame(s, t)
  BY <1>3, <1>4, FailedTame, DrainedTame, PassingTame, TameTwice
<1> QED BY <1>1, <1>5

\* A question that is put or answered leaves the rest in order.
LEMMA QueryLocal ==
    ASSUME NEW s \in Syncs, NEW t \in Syncs, Local(s), Else(t, s, {"query"}),
           t.query = NoQuery \/ t.query.token > 0
    PROVE  Local(t) /\ Tame(s, t)
  BY PassingTame DEF Else, Fields, Own, Local, Underway, Waiting, Working, Timed, Known

LEMMA FinishQueryWanted ==
    ASSUME NEW s \in Syncs, Local(s), NEW dn, Wanted(s, dn)
    PROVE  Wanted(FinishQuery(s), dn) /\ FinishQuery(s).revision = s.revision
<1> DEFINE q == s.query
           t == [s EXCEPT !.query = NoQuery]
<1>1. t \in Syncs /\ t.query = NoQuery /\ Else(t, s, {"query"})
  BY Nothings, QueryingMoves
<1>2. \/ FinishQuery(s) = s
      \/ FinishQuery(s) = ClearConfirmed(t) /\ q.result # "none" /\ t.deleting = q.token
      \/ FinishQuery(s) \in {Failed(t, FALSE), t}
      \/ FinishQuery(s) = Verify(t) /\ t.upload # NoUpload
  BY DEF FinishQuery
<1> HIDE DEF t
<1>4. Tame(s, t) /\ Local(t)
  BY <1>1, QueryLocal
<1>5. Wanted(t, dn) /\ t.revision = s.revision
  BY <1>4, TameStays DEF Tame
<1>7. q.result # "none" => q.token > 0
  BY Nothings DEF Local, Known
<1>8. Tame(t, Failed(t, FALSE))
  BY <1>1, FailedTame
<1>9. t.upload # NoUpload => Tame(t, Verify(t))
  BY <1>1, <1>4, VerifyTame
<1>10. t.deleting # 0 => Wanted(ClearConfirmed(t), dn) /\ ClearConfirmed(t).revision = t.revision
  BY <1>1, <1>5, ConfirmedWanted
<1>11. q.result # "none" /\ t.deleting = q.token => t.deleting # 0
  BY <1>7
<1> HIDE DEF q
<1> QED BY <1>2, <1>5, <1>8, <1>9, <1>10, <1>11, TameStays DEF Tame

LEMMA InformedWanted ==
    ASSUME NEW s \in Syncs, Local(s), NEW hash \in Contents, NEW dn, Wanted(s, dn)
    PROVE  Wanted(Informed(s, hash), dn) /\ Informed(s, hash).revision = s.revision
<1>1. CASE s.query = NoQuery
  BY <1>1 DEF Informed
<1>2. CASE s.query # NoQuery
  <2> DEFINE q == [s.query EXCEPT !.hash = hash, !.answered = TRUE]
             t == [s EXCEPT !.query = q]
  <2>1. s.query \in Queries
    BY DEF Syncs
  <2>2. q \in Queries /\ q.token > 0
    BY <1>2, <2>1 DEF Queries, Local, Known
  <2>3. [s EXCEPT !.query.hash = hash, !.query.answered = TRUE] = t
    BY <2>1 DEF Syncs, Queries
  <2>4. Informed(s, hash) = FinishQuery(t)
    BY <1>2, <2>3 DEF Informed
  <2> HIDE DEF q
  <2>5. t \in Syncs /\ t.query = q /\ Else(t, s, {"query"})
    BY <2>2, QueryingMoves
  <2> HIDE DEF t
  <2>6. Local(t) /\ Tame(s, t)
    BY <2>2, <2>5, QueryLocal
  <2>7. Wanted(t, dn) /\ t.revision = s.revision
    BY <2>6, TameStays DEF Tame
  <2> QED BY <2>4, <2>5, <2>6, <2>7, FinishQueryWanted
<1> QED BY <1>1, <1>2

LEMMA InfoEndedWanted ==
    ASSUME NEW s \in Syncs, Local(s), NEW token, NEW result \in {"ok", "no"}, NEW dn, Wanted(s, dn)
    PROVE  Wanted(InfoEnded(s, token, result), dn)
           /\ InfoEnded(s, token, result).revision = s.revision
  BY FinishQueryWanted, QueryingMoves, QueryLocal, TameStays DEF InfoEnded, Syncs, Queries,
     Local, Known, Tame

LEMMA TakeWanted ==
    ASSUME NEW s \in Syncs, Local(s), NEW m \in AvatarMessage, m.kind # "refused",
           NEW dn, Wanted(s, dn)
    PROVE  Wanted(Take(s, m), dn) /\ Take(s, m).revision = s.revision
<1>1. CASE m.kind = "book"
  <2>1. Take(s, m) = HashChanged(s, m.hash)
    BY <1>1 DEF Take
  <2>2. HashChanged(s, m.hash) \in {s, Failed(s, FALSE)}
    BY DEF HashChanged
  <2>3. Tame(s, s) /\ Tame(s, Failed(s, FALSE))
    BY FailedTame, TameTwice
  <2> QED BY <2>1, <2>2, <2>3, TameStays DEF Tame
<1>2. CASE m.kind = "info"
  BY <1>2, InformedWanted DEF Take, AvatarMessage
<1>3. CASE m.kind = "transfers"
  BY <1>3, ListedTame, TameStays DEF Take, Tame
<1>4. CASE m.kind = "reply"
  <2>1. Take(s, m) = Answer(s, m) /\ m.token \in Nat
    BY <1>4 DEF Take, AvatarMessage
  <2>2. m.op \in {"sethash", "list", "stop", "delete", "info"}
        /\ (m.op = "info" => m.result \in {"ok", "no"})
    BY <1>4 DEF AvatarMessage
  <2>3. CASE m.op = "sethash"
    BY <2>1, <2>3, UpdatedTame, TameStays DEF Answer, Tame
  <2>4. CASE m.op = "list"
    BY <2>1, <2>4, ListEndedTame, TameStays DEF Answer, Tame
  <2>5. CASE m.op = "stop"
    <3>1. Take(s, m) = TransferStopped(s, m.token, m.result = "ok")
      BY <2>1, <2>5 DEF Answer
    <3>2. Take(s, m) \in {s, Drained(s), Failed(s, FALSE)}
      BY <3>1 DEF TransferStopped
    <3>3. Tame(s, s) /\ Tame(s, Failed(s, FALSE)) /\ Tame(s, Drained(s))
      BY FailedTame, DrainedTame, TameTwice
    <3> QED BY <3>2, <3>3, TameStays DEF Tame
  <2>6. CASE m.op = "delete"
    BY <2>1, <2>6, DeletedTame, TameStays DEF Answer, Tame
  <2>7. CASE m.op = "info"
    BY <2>1, <2>7, <2>2, InfoEndedWanted DEF Answer
  <2> QED BY <2>2, <2>3, <2>4, <2>5, <2>6, <2>7
<1> QED BY <1>1, <1>2, <1>3, <1>4 DEF AvatarMessage

-----------------------------------------------------------------------------
(* Tasks that have ended                                                   *)

LEMMA IdleTame ==
    ASSUME NEW s \in Syncs
    PROVE  LET t == [s EXCEPT !.worker = "none"] IN
           t \in Syncs /\ Tame(s, t) /\ t.stage = s.stage /\ t.deleting = s.deleting
<1> DEFINE t == [s EXCEPT !.worker = "none"]
<1>1. t \in Syncs /\ Else(t, s, {"worker"})
  BY IdleMoves DEF Workers
<1> HIDE DEF t
<1>2. Else(t, s, {"stage", "deadline", "worker", "query", "queryTimedOut", "missing",
                  "drainQuery", "drainId", "next", "pending", "sent"}) /\ t.stage = s.stage
      /\ t.deleting = s.deleting
  BY <1>1 DEF Else, Fields
<1> QED BY <1>1, <1>2, PassingTame DEF t

\* The wish is taken over as it was read.
LEMMA ChoosingWanted ==
    ASSUME NEW s \in Syncs, NEW b \in BOOLEAN, NEW n \in Chosen, NEW dn, Wanted(s, dn),
           s.revision = store.revision /\ Announced =>
             /\ b => store.file.kind = "clear"
             /\ n # 0 => store.file = Picture(n)
    PROVE  Wanted(Choosing(s, b, n), dn) /\ Choosing(s, b, n).revision = s.revision
  BY ChoosingMoves DEF Else, Fields, Wanted

LEMMA LoadedWanted ==
    ASSUME NEW s \in Syncs, NEW token, NEW result \in References \cup {[kind |-> "error", of |-> 0]},
           NEW dn, Wanted(s, dn),
           s.revision = store.revision /\ Announced /\ token = s.token =>
                result = store.file \/ result.kind = "error"
    PROVE  Wanted(Loaded(s, token, result), dn) /\ Loaded(s, token, result).revision = s.revision
<1> DEFINE u == [s EXCEPT !.worker = "none"]
<1>1. u \in Syncs /\ Tame(s, u)
  BY IdleTame
<1>2. CASE token # s.token \/ s.stage # "load" \/ s.worker = "none"
  BY <1>2 DEF Loaded
<1>3. CASE ~(token # s.token \/ s.stage # "load" \/ s.worker = "none")
  <2>1. Loaded(s, token, result) =
         CASE result.kind = "image" -> Choosing(u, FALSE, result.of)
           [] result.kind = "clear" -> Choosing(u, TRUE, 0)
           [] result.kind = "unset" -> [u EXCEPT !.deadline = FALSE, !.pending = FALSE]
           [] OTHER -> Failed(u, FALSE)
    BY <1>3 DEF Loaded, Choosing
  <2> HIDE DEF u
  <2>2. Wanted(u, dn) /\ u.revision = s.revision
    BY <1>1, TameStays DEF Tame
  <2>3. CASE result.kind = "image"
    <3>1. Loaded(s, token, result) = Choosing(u, FALSE, result.of)
      BY <2>1, <2>3
    <3>2. result \in [kind : Kinds, of : Selections]
      BY <2>3 DEF References, NoFile
    <3>3. result.of \in Chosen /\ result = Picture(result.of)
      BY <2>3, <3>2 DEF Chosen, Selections, Picture
    <3>4. u.revision = store.revision /\ Announced => store.file = Picture(result.of)
      BY <1>3, <2>2, <2>3, <3>3
    <3> QED BY <1>1, <2>2, <3>1, <3>3, <3>4, ChoosingWanted
  <2>4. CASE result.kind = "clear"
    BY <2>1, <2>4, <1>3, <2>2, <1>1, Firsts, ChoosingWanted
  <2>5. CASE result.kind = "unset"
    <3> DEFINE t == [u EXCEPT !.deadline = FALSE, !.pending = FALSE]
    <3>1. Loaded(s, token, result) = t
      BY <2>1, <2>5
    <3>2. /\ t.revision = u.revision /\ t.token = u.token /\ t.clear = u.clear
          /\ t.choices = u.choices /\ t.retry = u.retry /\ t.upload = u.upload
          /\ t.draining = u.draining /\ t.deleting = u.deleting /\ t.stage = u.stage
      BY <1>1 DEF Syncs
    <3> HIDE DEF t
    <3>3. Tame(u, t)
      BY <3>2 DEF Tame
    <3> QED BY <2>2, <3>1, <3>3, TameStays DEF Tame
  <2>6. CASE result.kind \notin {"image", "clear", "unset"}
    <3>1. Loaded(s, token, result) = Failed(u, FALSE)
      BY <2>1, <2>6
    <3>2. Tame(u, Failed(u, FALSE))
      BY <1>1, FailedTame
    <3> QED BY <2>2, <3>1, <3>2, TameStays DEF Tame
  <2> QED BY <2>3, <2>4, <2>5, <2>6
<1> QED BY <1>2, <1>3

LEMMA WrittenTame ==
    ASSUME NEW s \in Syncs, NEW token, NEW h, NEW ok
    PROVE  Tame(s, Written(s, token, h, ok))
<1> DEFINE u == [s EXCEPT !.worker = "none"]
           e == Enter(u, "update")
           c == [op |-> "sethash", token |-> s.token, hash |-> s.upload.content]
<1>1. u \in Syncs /\ Tame(s, u)
  BY IdleTame
<1>2. Written(s, token, h, ok) \in {s, u, Failed(u, FALSE), Send(e, c)}
  BY DEF Written
<1>3. c \in AvatarCommand
  BY CommandsMade DEF Syncs, Uploads
<1> HIDE DEF u, c
<1>4. e \in Syncs /\ Tame(u, e)
  BY <1>1, EnterMoves, EnterTame DEF Stages
<1> HIDE DEF e
<1>5. Tame(e, Send(e, c)) /\ Tame(u, Failed(u, FALSE))
  BY <1>1, <1>3, <1>4, SendTame, FailedTame
<1>6. Tame(s, Send(e, c)) /\ Tame(s, Failed(u, FALSE)) /\ Tame(s, s)
  BY <1>1, <1>4, <1>5, TameTwice
<1> QED BY <1>1, <1>2, <1>6

LEMMA VerifiedTame ==
    ASSUME NEW s \in Syncs, NEW token, NEW h, NEW ok
    PROVE  Tame(s, Verified(s, token, h, ok))
<1> DEFINE u == [s EXCEPT !.worker = "none"]
           t == [u EXCEPT !.stage = "synced", !.deadline = FALSE, !.choices = 0]
<1>1. u \in Syncs /\ Tame(s, u)
  BY IdleTame
<1>2. Verified(s, token, h, ok) \in {s, Failed(u, FALSE), Drained(u), t}
  BY DEF Verified
<1> HIDE DEF u
<1>3. /\ t.stage = "synced" /\ t.choices = 0
      /\ t.revision = u.revision /\ t.token = u.token /\ t.clear = u.clear
      /\ t.retry = u.retry /\ t.upload = u.upload
      /\ t.draining = u.draining /\ t.deleting = u.deleting
  BY <1>1 DEF Syncs
<1> HIDE DEF t
<1>4. Tame(u, t) /\ Tame(u, Failed(u, FALSE)) /\ Tame(u, Drained(u))
  BY <1>1, <1>3, FailedTame, DrainedTame DEF Tame
<1>5. Tame(s, t) /\ Tame(s, Failed(u, FALSE)) /\ Tame(s, Drained(u)) /\ Tame(s, s)
  BY <1>1, <1>4, TameTwice
<1> QED BY <1>2, <1>5

LEMMA CompletedWanted ==
    ASSUME NEW s \in Syncs, NEW dn \in Seq(AvatarResult), dn # << >>, Wanted(s, dn)
    PROVE  /\ Wanted(Completed(s, Head(dn)), Tail(dn))
           /\ Completed(s, Head(dn)).revision = s.revision
  BY Tailed, LoadedWanted, WrittenTame, TameStays, VerifiedTame DEF Wanted, Completed,
     AvatarResult, Tame

\* A new revision ends what was wanted before it.
LEMMA ObserveWanted ==
    ASSUME NEW s, NEW p, NEW back, NEW live, NEW rdy, NEW dn,
           Holding(s, p, back, live, rdy, dn), Wanted(s, dn), store.revision \in Nat
    PROVE  Wanted(Observe(s), dn) /\ Observe(s).revision = store.revision
<1>1. s \in Syncs /\ World(s, p \o s.sent, back, live, rdy, dn)
  BY DEF Holding
<1>2. CASE s.revision = store.revision
  BY <1>2 DEF Observe
<1>3. CASE s.revision # store.revision
  <2> DEFINE r == [s EXCEPT !.revision = store.revision]
             t == Changed(r)
  <2>1. r \in Syncs /\ r.revision = store.revision /\ Else(r, s, {"revision"})
    BY <1>1, RevisedMoves
  <2>2. Observe(s) = t
    BY <1>3 DEF Observe
  <2> HIDE DEF r
  <2>3. Else(r, s, {"revision", "clear", "missing", "choices", "query", "queryTimedOut", "sent"})
        /\ r.query = s.query /\ r.token = s.token
    BY <2>1 DEF Else, Fields
  <2>4. Local(r)
    BY <1>1, <2>1, <2>3, PlainWorld DEF World
  <2>5. /\ t \in Syncs /\ t.token = r.token + 1 /\ t.choices = 0 /\ ~t.clear
        /\ Holds(r) => t.draining /\ IF r.stage \in Answered THEN t.stage = r.stage
                                                            ELSE t.stage = "drain"
        /\ ~Holds(r) => t.upload = NoUpload /\ t.deleting = 0 /\ t.stage = "load"
        /\ Else(t, r, {"token", "pending", "retry", "choices", "clear", "next", "draining",
                       "upload", "previous", "deleting", "stage", "deadline", "worker"})
    BY <2>1, <2>4, ChangedMoves
  <2> HIDE DEF t
  <2>6. t.revision = r.revision
    BY <2>5 DEF Else, Fields
  <2>7. \A i \in DOMAIN dn : dn[i].token # t.token
    <3>1. \A i \in DOMAIN dn : dn[i].token <= s.token /\ dn[i].token \in Nat
      BY <1>1 DEF World, Given, AvatarResult
    <3>2. s.token \in Nat /\ t.token = s.token + 1
      BY <1>1, <2>3, <2>5 DEF Syncs
    <3> QED BY <3>1, <3>2
  <2>8. t.stage # "cleared"
    BY <2>5 DEF Answered
  <2>9. /\ t.upload = NoUpload \/ t.draining
        /\ t.deleting = 0 \/ t.draining
    BY <2>5
  <2>10. Wanted(t, dn)
    BY <2>5, <2>7, <2>8, <2>9 DEF Wanted
  <2> QED BY <2>1, <2>2, <2>6, <2>10
<1> QED BY <1>2, <1>3

-----------------------------------------------------------------------------
(* A step of the session                                                   *)

\* What the session works for after its step, and that it does.
Served(dn) ==
    /\ sync'.revision = store.revision
    /\ Wanted(sync', dn)
    /\ link.subscribed /\ sync'.pending /\ ~sync'.blocked /\ ~sync'.draining => sync'.deadline

LEMMA HandedWanted ==
    ASSUME NEW s \in Syncs, NEW dn, Commanded(s), Wanted(s, dn)
    PROVE  /\ Wanted(sync', dn) /\ sync'.revision = s.revision
           /\ sync'.pending = s.pending /\ sync'.blocked = s.blocked
           /\ sync'.draining = s.draining /\ sync'.deadline = s.deadline
<1> DEFINE t == [s EXCEPT !.sent = << >>]
<1>1. sync' = t
  BY DEF Commanded
<1>2. Else(t, s, {"sent"})
  <2>1. << >> \in Seq(AvatarCommand)
    OBVIOUS
  <2> QED BY <2>1, HandedMoves
<1> HIDE DEF t
<1>3. Else(t, s, {"stage", "deadline", "worker", "query", "queryTimedOut", "missing",
                  "drainQuery", "drainId", "next", "pending", "sent"})
      /\ t.stage = s.stage /\ t.pending = s.pending /\ t.blocked = s.blocked
      /\ t.draining = s.draining /\ t.deadline = s.deadline
  BY <1>2 DEF Else, Fields
<1>4. Tame(s, t)
  BY <1>3, PassingTame
<1> QED BY <1>1, <1>3, <1>4, TameStays DEF Tame

LEMMA EndsServed ==
    ASSUME NEW s, NEW hash, NEW p, NEW back, NEW live, NEW rdy, NEW dn,
           Holding(s, p, back, live, rdy, dn), Ends(s, hash), Wanted(s, dn),
           s.revision = store.revision
    PROVE  Served(dn)
  BY CheckHolds, CheckWanted, HandedWanted DEF Holding, Ends, Served

\* Of the session, its connection and its tasks.
WishInv == IsTold /\ Bounded /\ WantedInv

\* Where the store rests and the notice of it.
LEMMA StoreRests ==
    ASSUME UNCHANGED <<wishes, store>>
    PROVE  /\ \A s, dn : Wanted(s, dn) => Wanted(s, dn)'
           /\ Announced' = Announced
           /\ notified' = notified => Notifies' = Notifies
  BY DEF Wanted, Announced, Picture, Notifies

LEMMA ServedKeeps ==
    ASSUME AvatarInv, UNCHANGED <<wishes, store>>, Served(done'),
           link'.subscribed = link.subscribed
    PROVE  WishInv'
  BY Began DEF IsTold, Served, Bounded, WantedInv, Wanted, Announced, Picture, WishInv

\* Nothing of the avatar's: what the session has not seen is still announced to it.
LEMMA UncheckedKeeps ==
    ASSUME AvatarInv, WishInv, UNCHANGED <<wishes, store, notified>>,
           Commanded(Observe(sync)), done' = done, link'.subscribed = link.subscribed
    PROVE  WishInv'
<1> DEFINE s == Observe(sync)
<1>1. Holding(sync, toServer, toClient, server.live, ready, done) /\ store.revision \in Nat
  BY Began
<1>2. s \in Syncs /\ Commanded(s)
  BY <1>1, ObserveMoves
<1>3. Wanted(s, done) /\ s.revision = store.revision
  BY <1>1, ObserveWanted DEF WishInv, WantedInv
<1>4. s = sync \/ Notifies
  BY DEF Observe, WishInv, IsTold
<1> HIDE DEF s
<1>5. /\ Wanted(sync', done) /\ sync'.revision = s.revision
      /\ sync'.pending = s.pending /\ sync'.blocked = s.blocked
      /\ sync'.draining = s.draining /\ sync'.deadline = s.deadline
  BY <1>2, <1>3, HandedWanted
<1>6. Notifies' = Notifies /\ store' = store /\ wishes' = wishes
  BY StoreRests
<1>7. IsTold'
  BY <1>1, <1>3, <1>5, <1>6 DEF IsTold
<1>8. Bounded'
  BY <1>4, <1>5, <1>6 DEF Bounded, WishInv
<1>9. WantedInv'
  BY <1>5, <1>6 DEF WantedInv, Wanted, Announced, Picture
<1> QED BY <1>7, <1>8, <1>9 DEF WishInv

LEMMA FailureKeepsWish ==
    ASSUME AvatarInv, WishInv, UNCHANGED <<wishes, store, notified>>, NEW h \in Nat, NEW why,
           NEW back, NEW rdy,
           Holding(Observe(sync), toServer, back, server.live, rdy, done),
           FailureTaken(Observe(sync), h, why),
           why = "size" => Gone(h, toServer \o Observe(sync).sent, server.live),
           done' = done, link'.subscribed = link.subscribed
    PROVE  WishInv'
<1> DEFINE s == Observe(sync)
           t == TransferFailed(s, h, why)
<1>1. CASE ~Owns(s, h)
  BY <1>1, UncheckedKeeps DEF FailureTaken
<1>2. CASE Owns(s, h)
  <2>1. Wanted(s, done) /\ s.revision = store.revision
    BY Began, ObserveWanted DEF WishInv, WantedInv
  <2>2. Holding(s, toServer, back, server.live, rdy, done) /\ s \in Syncs /\ Local(s)
    BY DEF Holding, World
  <2>3. Ends(t, link.hash)
    BY <1>2 DEF FailureTaken
  <2>4. s.upload # NoUpload /\ (why = "size" => Gone(h, toServer \o s.sent, server.live))
    BY <1>2 DEF Owns
  <2> HIDE DEF s
  <2>5. Holding(t, toServer, back, server.live, rdy, done)
    BY <1>2, <2>2, <2>4, TransferFailedHolds DEF Owns
  <2>6. Tame(s, t)
    BY <2>2, TransferFailedTame
  <2>7. Wanted(t, done) /\ t.revision = store.revision
    BY <2>1, <2>6, TameStays DEF Tame
  <2> HIDE DEF t
  <2>8. Served(done)
    BY <2>3, <2>5, <2>7, EndsServed
  <2> QED BY <2>8, ServedKeeps
<1> QED BY <1>1, <1>2

LEMMA TakeMessageKeepsWish ==
    ASSUME AvatarInv, WishInv, TakeMessage
    PROVE  WishInv'
<1> DEFINE s == Observe(sync)
           m == Head(toClient)
           hash == IF m.kind = "book" THEN m.hash ELSE link.hash
<1>1. Holding(s, toServer, toClient, server.live, ready, done)
  BY Began, ObserveHolds
<1>2. m \in AvatarMessage /\ toClient # << >> /\ toClient \in Seq(AvatarMessage)
      /\ 1 \in DOMAIN toClient /\ m = toClient[1]
  BY Tailed DEF AvatarInv, World, TakeMessage
<1>3. /\ UNCHANGED <<wishes, store, notified>> /\ done' = done
      /\ link' = [link EXCEPT !.hash = hash]
  BY DEF TakeMessage, Rest
<1>4. link'.subscribed = link.subscribed
  BY <1>3 DEF AvatarInv, AvatarTypes
<1>5. CASE m.kind = "refused"
  <2>1. Holding(s, toServer, Tail(toClient), server.live, ready, done)
    BY <1>1, <1>2, <1>5, TakenHolds
  <2>2. m.handle \in Nat
    BY <1>2, <1>5 DEF AvatarMessage
  <2>3. m.why = "size" => Gone(m.handle, toServer \o s.sent, server.live)
    BY <1>1, <1>2, <1>5 DEF Holding, World, HasEnded
  <2>4. FailureTaken(s, m.handle, m.why)
    BY <1>5 DEF TakeMessage
  <2> HIDE DEF m
  <2> QED BY <1>3, <1>4, <2>1, <2>2, <2>3, <2>4, FailureKeepsWish
<1>6. CASE m.kind # "refused"
  <2> DEFINE t == Take(s, m)
  <2>1. Holding(t, toServer, Tail(toClient), server.live, ready, done)
    BY <1>1, <1>2, <1>6, TakeHolds
  <2>2. Ends(t, hash)
    BY <1>6 DEF TakeMessage
  <2>3. Wanted(s, done) /\ s.revision = store.revision /\ s \in Syncs /\ Local(s)
    BY <1>1, Began, ObserveWanted DEF WishInv, WantedInv, Holding, World
  <2> HIDE DEF s, m
  <2>4. Wanted(t, done) /\ t.revision = store.revision
    BY <1>2, <1>6, <2>3, TakeWanted
  <2> HIDE DEF t, hash
  <2>5. Served(done)
    BY <2>1, <2>2, <2>4, EndsServed
  <2> QED BY <1>3, <1>4, <2>5, ServedKeeps
<1> QED BY <1>5, <1>6

LEMMA TakeTransferKeepsWish ==
    ASSUME AvatarInv, WishInv, NEW t \in ready, TakeTransfer(t)
    PROVE  WishInv'
<1> DEFINE s == Observe(sync)
<1>1. Holding(s, toServer, toClient, server.live, ready, done) /\ s \in Syncs
  BY Began, ObserveHolds DEF Holding
<1>2. UNCHANGED <<wishes, store, notified, link>> /\ done' = done
  BY DEF TakeTransfer
<1>3. t \in [way : {"up", "down"}, handle : Nat] /\ t.handle > 0
  BY <1>1 DEF AvatarInv, World, Given
<1>4. Wanted(s, done) /\ s.revision = store.revision
  BY Began, ObserveWanted DEF WishInv, WantedInv
<1>5. CASE t.way = "up" /\ Ends(UploadConnected(s, t.handle), link.hash)
  BY <1>1, <1>5, UploadConnectedHolds, UploadConnectedTame, <1>4, TameStays, EndsServed, <1>2,
     ServedKeeps DEF Tame
<1>6. CASE \E fits \in BOOLEAN :
             /\ s.upload.download = t.handle /\ s.stage = "download"
             /\ Ends(DownloadConnected(s, fits), link.hash)
  <2>1. PICK fits \in BOOLEAN : Ends(DownloadConnected(s, fits), link.hash)
    BY <1>6
  <2> DEFINE r == DownloadConnected(s, fits)
  <2>2. s.upload # NoUpload
    BY <1>3, <1>6, Nothings
  <2>3. Holding(r, toServer, toClient, server.live, ready, done)
    BY <1>1, <1>6, <2>2, DownloadConnectedHolds
  <2>4. Tame(s, r)
    BY <1>1, DownloadConnectedTame
  <2>5. Wanted(r, done) /\ r.revision = store.revision
    BY <1>4, <2>4, TameStays DEF Tame
  <2>6. Ends(r, link.hash)
    BY <2>1
  <2> HIDE DEF r
  <2>7. Served(done)
    BY <2>3, <2>5, <2>6, EndsServed
  <2> QED BY <1>2, <2>7, ServedKeeps
<1>7. CASE Commanded(s)
  BY <1>2, <1>7, UncheckedKeeps
<1>8. CASE FailureTaken(s, t.handle, "other")
  BY <1>3, <1>1, <1>2, <1>8, FailureKeepsWish
<1>9. \A fits \in {server.file = s.upload.content, TRUE} : fits \in BOOLEAN
  OBVIOUS
<1> QED BY <1>5, <1>6, <1>7, <1>8, <1>9 DEF TakeTransfer

LEMMA TakeCompletionKeepsWish ==
    ASSUME AvatarInv, WishInv, TakeCompletion
    PROVE  WishInv'
<1> DEFINE s == Observe(sync)
           t == Completed(s, Head(done))
<1>1. Holding(s, toServer, toClient, server.live, ready, done) /\ s \in Syncs
      /\ done \in Seq(AvatarResult)
  BY Began, ObserveHolds DEF Holding, World
<1>2. done # << >> /\ Ends(t, link.hash) /\ done' = Tail(done)
      /\ UNCHANGED <<wishes, store, link>>
  BY DEF TakeCompletion, Rest
<1>3. Wanted(s, done) /\ s.revision = store.revision
  BY Began, ObserveWanted DEF WishInv, WantedInv
<1>4. Holding(t, toServer, toClient, server.live, ready, Tail(done))
  BY <1>1, <1>2, CompletedHolds
<1> HIDE DEF s
<1>5. Wanted(t, Tail(done)) /\ t.revision = store.revision
  BY <1>1, <1>2, <1>3, CompletedWanted
<1> HIDE DEF t
<1>6. Served(Tail(done))
  BY <1>2, <1>4, <1>5, EndsServed
<1> QED BY <1>2, <1>6, ServedKeeps

LEMMA TakeAvatarChangedKeepsWish ==
    ASSUME AvatarInv, WishInv, TakeAvatarChanged
    PROVE  WishInv'
  BY Began, ObserveHolds, ObserveWanted, EndsServed, ServedKeeps DEF WishInv, WantedInv,
     TakeAvatarChanged, Rest

LEMMA ExpireKeepsWish ==
    ASSUME AvatarInv, WishInv, Expire
    PROVE  WishInv'
<1> DEFINE due == (IF sync.query # NoQuery THEN {"query"} ELSE {})
                  \cup (IF sync.deadline THEN {"stage"} ELSE {})
           s == Observe(sync)
           Asked(late) == IF "query" \in late
                          THEN [s EXCEPT !.query = NoQuery, !.queryTimedOut = TRUE] ELSE s
<1>1. Holding(s, toServer, toClient, server.live, ready, done) /\ s \in Syncs
  BY Began, ObserveHolds DEF Holding
<1>2. PICK late \in (SUBSET due) \ {{}} :
         Ends(IF "stage" \in late /\ s.deadline /\ s.stage = sync.stage
              THEN Failed(Asked(late), TRUE) ELSE Asked(late), link.hash)
  BY DEF Expire
<1>3. Wanted(s, done) /\ s.revision = store.revision
  BY Began, ObserveWanted DEF WishInv, WantedInv
<1> DEFINE t == Asked(late)
<1>4. /\ Holding(t, toServer, toClient, server.live, ready, done) /\ t.deadline = s.deadline
      /\ Tame(s, t)
  <2>1. CASE "query" \in late
    <3> DEFINE q == [s EXCEPT !.query = NoQuery, !.queryTimedOut = TRUE]
    <3>1. q \in Syncs /\ q.query = NoQuery /\ Else(q, s, {"query", "queryTimedOut"})
      BY <1>1, Nothings, QueryMoves
    <3>2. t = q
      BY <2>1
    <3> HIDE DEF q, t, s
    <3>3. Holding(q, toServer, toClient, server.live, ready, done)
      BY <1>1, <3>1, PlainHolds
    <3>4. q.deadline = s.deadline /\ q.stage = s.stage
          /\ Else(q, s, {"stage", "deadline", "worker", "query", "queryTimedOut", "missing",
                         "drainQuery", "drainId", "next", "pending", "sent"})
      BY <3>1 DEF Else, Fields
    <3>5. Tame(s, q)
      BY <3>4, PassingTame
    <3> QED BY <3>2, <3>3, <3>4, <3>5
  <2>2. CASE "query" \notin late
    BY <1>1, <2>2, TameTwice
  <2> QED BY <2>1, <2>2
<1>5. Ends(IF "stage" \in late /\ s.deadline /\ s.stage = sync.stage
           THEN Failed(t, TRUE) ELSE t, link.hash)
  BY <1>2
<1> HIDE DEF s, t
<1>6. s.deadline => Holding(Failed(t, TRUE), toServer, toClient, server.live, ready, done)
  BY <1>4, FailedHolds DEF Holding, World, Local, Underway, Unconfirmed
<1>7. t \in Syncs /\ Tame(t, Failed(t, TRUE))
  BY <1>4, FailedTame DEF Holding
<1>8. Wanted(t, done) /\ t.revision = store.revision
  BY <1>3, <1>4, TameStays DEF Tame
<1>9. Wanted(Failed(t, TRUE), done) /\ Failed(t, TRUE).revision = store.revision
  BY <1>7, <1>8, TameStays DEF Tame
<1>10. Served(done)
  BY <1>4, <1>5, <1>6, <1>8, <1>9, EndsServed
<1>11. UNCHANGED <<wishes, store, link>> /\ done' = done
  BY DEF Expire
<1> QED BY <1>10, <1>11, ServedKeeps

-----------------------------------------------------------------------------
(* A connection ends, a session begins                                     *)

LEMMA InterruptedKeepsWish ==
    ASSUME AvatarInv, WishInv, Interrupted
    PROVE  WishInv'
<1> DEFINE s == Observe(sync)
           t == Disconnected(s)
<1>1. Holding(s, toServer, toClient, server.live, ready, done) /\ s \in Syncs
      /\ store.revision \in Nat
  BY Began, ObserveHolds DEF Holding
<1>2. Wanted(s, done) /\ s.revision = store.revision
  BY Began, ObserveWanted DEF WishInv, WantedInv
<1>3. sync' = t /\ done' = done /\ ~link'.subscribed /\ UNCHANGED <<wishes, store>>
  BY DEF Interrupted, Lose, AvatarInv, AvatarTypes
<1> HIDE DEF s
<1>4. /\ t.revision = s.revision /\ t.token = s.token + 1 /\ t.upload = NoUpload
      /\ t.choices = 0 /\ ~t.clear /\ t.deleting = 0 /\ t.stage = s.stage /\ t.retry = s.retry
  BY <1>1 DEF Disconnected, Stop, Syncs
<1> HIDE DEF t
<1>5. \A i \in DOMAIN done : done[i].token # t.token
  BY <1>1, <1>4 DEF Holding, World, Given, AvatarResult, Syncs
<1>6. Wanted(t, done) /\ t.revision = store.revision
  BY <1>2, <1>4, <1>5 DEF Wanted
<1>7. IsTold' /\ Bounded'
  BY <1>1, <1>3, <1>6 DEF IsTold, Bounded
<1> QED BY <1>3, <1>6, <1>7 DEF WishInv, WantedInv, Wanted, Announced, Picture

LEMMA EndSessionKeepsWish ==
    ASSUME AvatarInv, EndSession
    PROVE  WishInv'
<1> DEFINE f == Fresh(sync.token + 1, sync.handles)
           s == Observe(f)
<1>1. sync.token + 1 \in Nat /\ sync.token + 1 > 0 /\ sync.handles \in Nat
      /\ store.revision \in Nat
  BY Began DEF AvatarInv, AvatarTypes, Syncs
<1>2. f \in Syncs /\ f.sent = << >> /\ World(f, << >>, << >>, {}, {}, << >>)
  BY <1>1, FreshWorld
<1>3. Wanted(f, << >>)
  BY DEF Wanted, Fresh
<1>4. sync' = s /\ done' = << >> /\ ~link'.subscribed /\ UNCHANGED <<wishes, store>>
  BY DEF EndSession, Lose, AvatarInv, AvatarTypes
<1> HIDE DEF f
<1>5. Holding(f, << >>, << >>, {}, {}, << >>)
  BY <1>2 DEF Holding
<1>6. Wanted(s, << >>) /\ s.revision = store.revision
  BY <1>1, <1>3, <1>5, ObserveWanted
<1> HIDE DEF s
<1>7. IsTold' /\ Bounded'
  BY <1>1, <1>4, <1>6 DEF IsTold, Bounded
<1> QED BY <1>4, <1>6, <1>7 DEF WishInv, WantedInv, Wanted, Announced, Picture

LEMMA SubscribeKeepsWish ==
    ASSUME AvatarInv, WishInv, Subscribe
    PROVE  WishInv'
<1> DEFINE s == Observe(sync)
           t == Check(s, server.avatar)
<1>1. Holding(s, toServer, toClient, server.live, ready, done) /\ store.revision \in Nat
  BY Began, ObserveHolds
<1>2. Wanted(s, done) /\ s.revision = store.revision
  BY Began, ObserveWanted DEF WishInv, WantedInv
<1>3. Commanded(t) /\ UNCHANGED <<wishes, store>> /\ done' = done
  BY DEF Subscribe, Rest
<1> HIDE DEF s
<1>4. t \in Syncs
  BY <1>1, CheckHolds DEF Holding
<1>5. Wanted(t, done) /\ t.revision = store.revision
      /\ (t.pending /\ ~t.blocked /\ ~t.draining => t.deadline)
  BY <1>1, <1>2, CheckWanted
<1> HIDE DEF t
<1>6. /\ Wanted(sync', done) /\ sync'.revision = store.revision
      /\ (sync'.pending /\ ~sync'.blocked /\ ~sync'.draining => sync'.deadline)
  BY <1>3, <1>4, <1>5, HandedWanted
<1>7. IsTold' /\ Bounded'
  BY <1>1, <1>3, <1>6 DEF IsTold, Bounded
<1> QED BY <1>3, <1>6, <1>7 DEF WishInv, WantedInv, Wanted, Announced, Picture

-----------------------------------------------------------------------------
(* Tasks and the server                                                    *)

LEMMA RestingKeepsWish ==
    ASSUME WishInv, UNCHANGED <<wishes, store, notified, sync, link, done>>
    PROVE  WishInv'
  BY DEF WishInv, IsTold, Bounded, WantedInv, Wanted, Announced, Notifies, Picture

\* A task ends and leaves what it has found.
LEMMA TaskKeepsWish ==
    ASSUME AvatarInv, WishInv, UNCHANGED <<wishes, store, notified, link>>,
           sync' = [sync EXCEPT !.worker = "ended"],
           NEW c \in AvatarResult, done' = Append(done, c),
           c.kind = "load" => c.result = store.file \/ c.result.kind = "error"
    PROVE  WishInv'
<1>1. UNCHANGED <<wishes, store, notified>> /\ link' = link
  OBVIOUS
<1>2. /\ sync'.revision = sync.revision /\ sync'.token = sync.token
      /\ sync'.clear = sync.clear /\ sync'.choices = sync.choices
      /\ sync'.retry = sync.retry /\ sync'.upload = sync.upload
      /\ sync'.draining = sync.draining /\ sync'.deleting = sync.deleting
      /\ sync'.stage = sync.stage /\ sync'.pending = sync.pending
      /\ sync'.blocked = sync.blocked /\ sync'.deadline = sync.deadline
  BY DEF AvatarInv, AvatarTypes, Syncs
<1>3. \A i \in DOMAIN done' : done'[i] = c \/ (i \in DOMAIN done /\ done'[i] = done[i])
  BY DEF AvatarInv, World
<1>4. IsTold' /\ Bounded'
  BY <1>1, <1>2 DEF WishInv, IsTold, Bounded, Notifies
<1>5. Announced' = Announced /\ store' = store
  BY <1>1 DEF Announced
<1>6. WantedInv'
  BY <1>2, <1>3, <1>5 DEF WishInv, WantedInv, Wanted, Picture
<1> QED BY <1>4, <1>6 DEF WishInv

LEMMA TaskStepKeepsWish ==
    ASSUME AvatarInv, WishInv, TaskStep
    PROVE  WishInv'
<1>1. sync \in Syncs /\ store.file \in References
  BY DEF AvatarInv, AvatarTypes, StoreTypeOK
<1>2. CASE Load
  BY <1>2, <1>1, TaskKeepsWish DEF Load, AvatarResult, Syncs, storeVars
<1>3. CASE Compare
  <2> DEFINE c == [kind |-> "verify", token |-> sync.upload.token,
                   handle |-> sync.upload.download,
                   result |-> server.file = sync.upload.content]
  <2>1. c \in AvatarResult /\ c.kind = "verify"
    BY <1>1 DEF AvatarResult, Syncs, Uploads
  <2>2. /\ UNCHANGED <<wishes, store, notified, link>> /\ done' = Append(done, c)
        /\ sync' = [sync EXCEPT !.worker = "ended"]
    BY <1>3 DEF Compare, storeVars
  <2> HIDE DEF c
  <2> QED BY <2>1, <2>2, TaskKeepsWish
<1> QED BY <1>2, <1>3 DEF TaskStep

LEMMA ClosedKeepsWish ==
    ASSUME AvatarInv, WishInv, NEW h \in Nat, NEW ok \in BOOLEAN, Closed(h, ok),
           UNCHANGED <<wishes, store, notified, link>>
    PROVE  WishInv'
  BY TaskKeepsWish, RestingKeepsWish DEF AvatarResult, AvatarInv, AvatarTypes, Syncs, Uploads,
     Closed

LEMMA ServerStepKeepsWish ==
    ASSUME AvatarInv, WishInv, ServerStep
    PROVE  WishInv'
<1>1. \A x \in server.live : x.handle \in Nat
  BY DEF AvatarInv, AvatarTypes, Transfer
<1>2. CASE Serve
  BY <1>2, RestingKeepsWish DEF Serve, storeVars
<1>3. CASE ChangeForeign
  BY <1>3, RestingKeepsWish DEF ChangeForeign, storeVars
<1>4. ASSUME NEW x \in server.live, ReceiveFile(x)
      PROVE  WishInv'
  BY <1>4, <1>1, ClosedKeepsWish DEF ReceiveFile, storeVars
<1>5. ASSUME NEW x \in server.live, DropTransfer(x)
      PROVE  WishInv'
  BY <1>5, <1>1, ClosedKeepsWish DEF DropTransfer, storeVars
<1> QED BY <1>2, <1>3, <1>4, <1>5 DEF ServerStep

-----------------------------------------------------------------------------
(* A wish is saved                                                         *)

\* A notice stays until it is taken; the file and the revision change one after the
\* other, and between them nothing is announced.
LEMMA SaveMoves ==
    ASSUME StoreTypeOK, Orderly, StoreNext
    PROVE  /\ Notifies => Notifies'
           /\ \/ /\ store'.revision = store.revision /\ store'.file = store.file
                 /\ Announced' => Announced
              \/ store'.revision = store.revision /\ ~Announced'
              \/ store'.revision = store.revision + 1 /\ Notifies'
<1>1. /\ wishes \in [Selections -> Wish] /\ store.selection \in Nat
      /\ store \in [selection : 0 .. MaxSelection, saved : 0 .. MaxSelection,
                    revision : Nat, file : References]
  BY DEF StoreTypeOK
<1>2. ASSUME NEW kind \in Kinds, Choose(kind)
      PROVE  /\ Notifies => Notifies'
             /\ store'.revision = store.revision /\ store'.file = store.file
             /\ Announced' => Announced
  BY <1>1, <1>2 DEF Orderly, Choose, Notifies, Announced
<1>3. CASE Cancel
  BY <1>1, <1>3 DEF Cancel, Notifies, Announced
<1>4. ASSUME NEW s \in Selections, NEW from, NEW to, Moves(s, from, to), to # "none"
      PROVE  /\ wishes[s].at = from /\ wishes'[s].at = to
             /\ \A w \in Selections : w # s => wishes'[w] = wishes[w]
  BY <1>1, <1>4 DEF Moves, Wish
<1>5. ASSUME NEW s \in Selections, GiveUp(s) \/ Write(s) \/ Test(s)
      PROVE  /\ Notifies => Notifies'
             /\ store'.revision = store.revision /\ store'.file = store.file
             /\ Announced' => Announced
  BY <1>5, <1>4 DEF GiveUp, Write, Test, Notifies, Announced
<1>6. ASSUME NEW s \in Selections, Commit(s)
      PROVE  (Notifies => Notifies') /\ store'.revision = store.revision /\ ~Announced'
  BY <1>4, <1>6, <1>1 DEF Commit, Notifies, Announced
<1>7. ASSUME NEW s \in Selections, Announce(s)
      PROVE  store'.revision = store.revision + 1 /\ Notifies'
  BY <1>4, <1>7, <1>1 DEF Announce, Notifies
<1>8. ASSUME NEW s \in Selections, Finish(s)
      PROVE  /\ Notifies' /\ store' = store
             /\ Announced' => Announced
  BY <1>4, <1>8 DEF Finish, Notifies, Announced
<1> QED BY <1>2, <1>3, <1>5, <1>6, <1>7, <1>8 DEF StoreNext

LEMMA SaveKeepsWish ==
    ASSUME AvatarInv, Orderly, WishInv, SaveStep
    PROVE  WishInv'
<1>1. sync' = sync /\ link' = link /\ done' = done /\ StoreNext
  BY DEF SaveStep
<1>2. StoreTypeOK /\ store.revision \in Nat /\ sync.revision \in Nat
  BY Began DEF AvatarInv, AvatarTypes, Syncs
<1>3. /\ Notifies => Notifies'
      /\ \/ /\ store'.revision = store.revision /\ store'.file = store.file
            /\ Announced' => Announced
         \/ store'.revision = store.revision /\ ~Announced'
         \/ store'.revision = store.revision + 1 /\ Notifies'
  BY <1>1, <1>2, SaveMoves
<1>4. IsTold'
  BY <1>1, <1>2, <1>3 DEF WishInv, IsTold
<1>5. Bounded'
  BY <1>1, <1>3 DEF WishInv, Bounded
<1>6. WantedInv'
  BY <1>1, <1>2, <1>3 DEF WishInv, WantedInv, Wanted, IsTold, Picture
<1> QED BY <1>4, <1>5, <1>6 DEF WishInv

-----------------------------------------------------------------------------
(* The invariant, and what it says                                         *)

LEMMA WishBegins ==
    ASSUME Init
    PROVE  WishInv
  BY DEF Init, StoreInit, Fresh, WishInv, IsTold, Bounded, WantedInv, Wanted

LEMMA WishStep ==
    ASSUME AvatarInv, Orderly, WishInv, [Next]_vars
    PROVE  WishInv'
<1>1. CASE SaveStep
  BY <1>1, SaveKeepsWish
<1>2. CASE SessionStep
  BY <1>2, TakeMessageKeepsWish, TakeTransferKeepsWish, TakeCompletionKeepsWish,
     TakeAvatarChangedKeepsWish, ExpireKeepsWish, InterruptedKeepsWish, EndSessionKeepsWish,
     SubscribeKeepsWish DEF SessionStep
<1>3. CASE TaskStep
  BY <1>3, TaskStepKeepsWish
<1>4. CASE ServerStep
  BY <1>4, ServerStepKeepsWish
<1>5. CASE UNCHANGED vars
  BY <1>5, RestingKeepsWish DEF vars, storeVars
<1> QED BY <1>1, <1>2, <1>3, <1>4, <1>5 DEF Next

LEMMA WishIsInvariant == Spec => [](AvatarInv /\ Orderly /\ WishInv)
<1>1. Init => WishInv
  BY WishBegins
<1>2. AvatarInv /\ Orderly /\ WishInv /\ [Next]_vars => WishInv'
  BY WishStep
<1> QED BY <1>1, <1>2, OrderIsInvariant, PTL DEF Spec

\* Whatever the session waits for has a timer, or the notice of a new wish is still to
\* come; the one exception is a barrier behind an answer that came before it
\* (avatar.rs, changed, check, enter; persist's reserved command slot).
THEOREM WaitsAreBounded == Spec => []WaitIsBoundedElsewhere
<1>1. AvatarInv /\ WishInv => WaitIsBoundedElsewhere
  BY DEF WaitIsBoundedElsewhere, WaitIsBounded, WishInv, Bounded, AvatarInv, World, Local,
     Timed, Unanswerable
<1> QED BY <1>1, WishIsInvariant, PTL

\* What the session reports as done is what was wished for last and saved, never what a
\* slow task, a late answer or an overtaken upload brought (avatar.rs, observe, changed,
\* completed and check).
THEOREM ReportsAreWanted == Spec => []SuccessIsWanted
<1>1. AvatarInv /\ WishInv => SuccessIsWanted
  <2> SUFFICES ASSUME AvatarInv, WishInv, sync.revision = store.revision, Announced
               PROVE  /\ SaysSynced => store.file = Picture(sync.upload.content.of)
                      /\ SaysUpToDate => store.file = Picture(sync.choices)
                      /\ SaysCleared => store.file.kind = "clear"
    BY DEF SuccessIsWanted, Picture
  <2>1. /\ sync.upload # NoUpload /\ ~sync.draining =>
              store.file = Picture(sync.upload.content.of)
        /\ sync.choices # 0 => store.file = Picture(sync.choices)
        /\ sync.stage = "cleared" /\ sync.retry => store.file.kind = "clear"
    BY DEF WishInv, WantedInv, Wanted
  <2>2. sync.stage = "synced" /\ sync.upload # NoUpload => ~sync.draining
    BY DEF AvatarInv, World, Local, Underway, Draining
  <2> QED BY <2>1, <2>2 DEF SaysSynced, SaysUpToDate, SaysCleared
<1> QED BY <1>1, WishIsInvariant, PTL

-----------------------------------------------------------------------------
(* What is reported is what the server has                                 *)

Silent(back) == \A i \in DOMAIN back : back[i].kind # "book"

\* The pictures of the stages in which the server's hash and file are those uploaded.
Reporting == {"download", "verify", "synced"}
Reports(s) == s.upload # NoUpload /\ ~s.draining /\ s.stage \in Reporting
Clears(s) == s.stage = "cleared" /\ s.retry /\ ~s.pending

\* A picture that is still to be uploaded, or is being so.
Picks(s) ==
    s.choices # 0 => s.stage \in Uploading \cup {"own"} /\ ~s.clear /\ ~s.draining

\* The book follows the server; a notice of a hash of the own precedes the answer to it,
\* and what a clientinfo says holds until the next notice.
Follows(back, hash, avatar) ==
    /\ Silent(back) => hash = avatar
    /\ \A i \in DOMAIN back : back[i].kind = "book" =>
        /\ \/ \E j \in DOMAIN back : j > i /\ back[j].kind = "book"
           \/ back[i].hash = avatar
        /\ back[i].hash \in File => \E j \in Replies(back, {"sethash"}) : j > i
    /\ \A i \in DOMAIN back : back[i].kind = "info" =>
        /\ i + 1 \in Replies(back, {"info"})
        /\ \/ \E j \in DOMAIN back : j > i /\ back[j].kind = "book"
           \/ back[i].hash = avatar

\* One clientinfo is on its way, that of the query; none once it has been answered.
Asks(s, out, back) ==
    /\ \A i, j \in At(out, {"info"}) : i = j
    /\ \A i, j \in Replies(back, {"info"}) : i = j
    /\ At(out, {"info"}) = {} \/ Replies(back, {"info"}) = {}
    /\ s.queryTimedOut => s.query = NoQuery
    /\ s.query = NoQuery /\ ~s.queryTimedOut =>
            At(out, {"info"}) = {} /\ Replies(back, {"info"}) = {}
    /\ s.query # NoQuery =>
        /\ \A i \in At(out, {"info"}) : out[i].token = s.query.token
        /\ \A i \in Replies(back, {"info"}) : back[i].token = s.query.token
    /\ s.query.result # "none" => At(out, {"info"}) = {} /\ Replies(back, {"info"}) = {}

\* Half an answer: the other half comes next.
Hears(s, back, avatar) ==
    s.query.answered =>
        /\ 1 \in Replies(back, {"info"})
        /\ Silent(back) => s.query.hash = avatar

\* What is reported or about to be, and what a comparison has found.
Claims(s, back, avatar, file, dn) ==
    Silent(back) =>
        /\ Reports(s) => avatar = s.upload.content
        /\ Reports(s) /\ s.stage = "synced" => file = s.upload.content
        /\ Clears(s) => avatar = NoContent
        /\ \A i \in DOMAIN dn :
              dn[i].kind = "verify" /\ dn[i].result /\ Reports(s)
              /\ dn[i].handle = s.upload.download => file = s.upload.content

Truth(s, out, back, hash, avatar, file, dn) ==
    /\ Follows(back, hash, avatar)
    /\ Asks(s, out, back)
    /\ Hears(s, back, avatar)
    /\ Claims(s, back, avatar, file, dn)
    /\ Picks(s)

\* Without a connection nothing is under way, and what was wished for is still to be done.
Idle(s) ==
    /\ s.upload = NoUpload /\ s.deleting = 0 /\ s.previous = NoTransfer /\ ~s.draining
    /\ s.query = NoQuery /\ ~s.queryTimedOut /\ ~s.blocked /\ ~s.deadline
    /\ s.worker = "none" /\ s.pending = s.retry /\ s.choices = 0

TruthInv ==
    IF link.subscribed
    THEN Truth(sync, toServer, toClient, link.hash, server.avatar, server.file, done)
    ELSE Idle(sync) /\ toServer = << >> /\ toClient = << >> /\ ready = {} /\ server.live = {}

-----------------------------------------------------------------------------
(* Operations that report nothing new                                      *)

\* The fields that the truth of a report does not depend on.
Beside == {"token", "next", "revision", "deleting", "blocked", "missing", "drainQuery",
           "drainId", "previous", "worker", "deadline", "handles"}

\* From s to t nothing is reported anew, nothing picked up and nothing asked.
Modest(s, t) ==
    /\ t.query = s.query /\ t.queryTimedOut = s.queryTimedOut
    /\ Reports(t) => /\ Reports(s) /\ t.upload = s.upload
                     /\ t.stage = "synced" => s.stage = "synced"
    /\ Clears(t) => Clears(s)
    /\ Picks(s) => Picks(t)
    /\ \A i \in DOMAIN t.sent :
          t.sent[i].op = "info" => i \in DOMAIN s.sent /\ s.sent[i] = t.sent[i]

LEMMA ModestTwice ==
    /\ \A s : Modest(s, s)
    /\ \A s, t, u : Modest(s, t) /\ Modest(t, u) => Modest(s, u)
  BY DEF Modest

\* Fewer questions and answers are still in order.
LEMMA AsksLess ==
    ASSUME NEW s, NEW t, NEW out, NEW more, NEW back, Asks(s, more, back),
           t.query = s.query, t.queryTimedOut = s.queryTimedOut,
           \A i \in DOMAIN out : out[i].op = "info" => i \in DOMAIN more /\ more[i] = out[i]
    PROVE  Asks(t, out, back)
  BY DEF At, Asks

\* What a step has sent comes after what was on its way.
LEMMA Joined ==
    ASSUME NEW p \in Seq(AvatarCommand), NEW q \in Seq(AvatarCommand)
    PROVE  /\ p \o q \in Seq(AvatarCommand) /\ Len(p) \in Nat
           /\ \A i \in DOMAIN (p \o q) :
                IF i \in DOMAIN p THEN (p \o q)[i] = p[i]
                                  ELSE i - Len(p) \in DOMAIN q /\ (p \o q)[i] = q[i - Len(p)]
           /\ \A i \in DOMAIN p : i \in DOMAIN (p \o q) /\ (p \o q)[i] = p[i]
           /\ \A i \in DOMAIN q : i + Len(p) \in DOMAIN (p \o q) /\ (p \o q)[i + Len(p)] = q[i]
                                  /\ i + Len(p) \notin DOMAIN p
           /\ \A i \in DOMAIN (p \o q) : i \in Nat
  OBVIOUS

LEMMA ModestAsks ==
    ASSUME NEW s \in Syncs, NEW t \in Syncs, NEW p \in Seq(AvatarCommand), NEW back,
           Modest(s, t), Asks(s, p \o s.sent, back)
    PROVE  Asks(t, p \o t.sent, back)
<1> DEFINE q == s.sent
           r == t.sent
<1>1. q \in Seq(AvatarCommand) /\ r \in Seq(AvatarCommand)
  BY DEF Syncs
<1>2. \A i \in DOMAIN r : r[i].op = "info" => i \in DOMAIN q /\ q[i] = r[i]
  BY DEF Modest
<1> HIDE DEF q, r
<1>3. ASSUME NEW i \in DOMAIN (p \o r), (p \o r)[i].op = "info"
      PROVE  i \in DOMAIN (p \o q) /\ (p \o q)[i] = (p \o r)[i]
  BY <1>1, <1>3, Joined, <1>2
<1>4. Asks(s, p \o q, back) => Asks(t, p \o r, back)
  BY <1>3, AsksLess DEF Modest
<1> QED BY <1>4 DEF q, r

LEMMA ModestStays ==
    ASSUME NEW s \in Syncs, NEW t \in Syncs, NEW p \in Seq(AvatarCommand), NEW back, NEW hash,
           NEW avatar, NEW file, NEW dn,
           Modest(s, t), Truth(s, p \o s.sent, back, hash, avatar, file, dn)
    PROVE  Truth(t, p \o t.sent, back, hash, avatar, file, dn)
  BY ModestAsks DEF Truth, Modest, Hears, Claims

LEMMA BesideModest ==
    ASSUME NEW s, NEW t, Else(t, s, Beside)
    PROVE  Modest(s, t)
  BY DEF Else, Fields, Beside, Modest, Reports, Clears, Picks

\* What reports nothing is modest.
LEMMA SilentModest ==
    ASSUME NEW s, NEW t,
           t.query = s.query, t.queryTimedOut = s.queryTimedOut, t.sent = s.sent,
           ~Reports(t), ~Clears(t), Picks(s) => Picks(t)
    PROVE  Modest(s, t)
  BY DEF Modest

\* Another stage, which is none that reports.
LEMMA StageModest ==
    ASSUME NEW s, NEW t, Else(t, s, Beside \cup {"stage"}),
           t.stage \notin Reporting \cup {"cleared"},
           t.stage \in Uploading \cup {"own"} \/ s.choices = 0 \/ ~Picks(s)
    PROVE  Modest(s, t)
  BY SilentModest DEF Else, Fields, Beside, Picks, Reports, Clears

LEMMA EnterModest ==
    ASSUME NEW s \in Syncs, NEW stage \in Stages, stage \notin Reporting \cup {"cleared"},
           stage \in Uploading \cup {"own"} \/ s.choices = 0 \/ ~Picks(s)
    PROVE  Modest(s, Enter(s, stage))
  BY EnterMoves, StageModest DEF Else, Beside

LEMMA SendModest ==
    ASSUME NEW s \in Syncs, NEW c \in AvatarCommand, c.op # "info"
    PROVE  Modest(s, Send(s, c))
<1> DEFINE t == Send(s, c)
<1>1. t.sent = Append(s.sent, c) /\ Else(t, s, {"sent"})
  BY SendMoves
<1> HIDE DEF t
<1>2. /\ t.query = s.query /\ t.queryTimedOut = s.queryTimedOut
      /\ t.upload = s.upload /\ t.draining = s.draining /\ t.stage = s.stage
      /\ t.retry = s.retry /\ t.pending = s.pending /\ t.choices = s.choices
      /\ t.clear = s.clear
  BY <1>1 DEF Else, Fields
<1>3. \A i \in DOMAIN t.sent : (i \in DOMAIN s.sent /\ s.sent[i] = t.sent[i]) \/ t.sent[i] = c
  BY <1>1, Appended DEF Syncs
<1> QED BY <1>2, <1>3 DEF Modest, Reports, Clears, Picks, t

LEMMA FailedModest ==
    ASSUME NEW s \in Syncs, NEW timeout \in BOOLEAN
    PROVE  Modest(s, Failed(s, timeout))
  BY FailedMoves, SilentModest DEF Else, Fields, Reports, Clears, Picks

\* A barrier holds nothing that was picked.
LEMMA DrainedModest ==
    ASSUME NEW s \in Syncs, s.draining
    PROVE  Modest(s, Drained(s))
  BY DrainedMoves, SilentModest DEF Else, Fields, Reports, Clears, Picks

-----------------------------------------------------------------------------
(* What check does to the truth                                            *)

\* A report of no picture, where the book knows of none.
LEMMA ClearTruth ==
    ASSUME NEW s, NEW t, NEW out, NEW back, NEW hash, NEW avatar, NEW file, NEW dn,
           Truth(s, out, back, hash, avatar, file, dn),
           t.query = s.query, t.queryTimedOut = s.queryTimedOut,
           ~Reports(t), Picks(s) => Picks(t), Silent(back) => avatar = NoContent
    PROVE  Truth(t, out, back, hash, avatar, file, dn)
  BY AsksLess DEF Truth, Hears, Claims

LEMMA RequestTruth ==
    ASSUME NEW s, NEW p, NEW back, NEW live, NEW rdy, NEW hash, NEW avatar, NEW file, NEW dn,
           Holding(s, p, back, live, rdy, dn),
           Truth(s, p \o s.sent, back, hash, avatar, file, dn), s.query = NoQuery
    PROVE  Truth(RequestInfo(s), p \o RequestInfo(s).sent, back, hash, avatar, file, dn)
<1> DEFINE n == IF s.deleting # 0 THEN s.deleting ELSE s.token
           q == [NoQuery EXCEPT !.token = n]
           t == [s EXCEPT !.query = q]
           c == [op |-> "info", token |-> n]
           u == Send(t, c)
           out == p \o s.sent
<1>1. s \in Syncs /\ p \in Seq(AvatarCommand) /\ Local(s)
  BY DEF Holding, World
<1>2. CASE s.queryTimedOut
  BY <1>2, <1>1, FailedModest, FailedMoves, ModestStays DEF RequestInfo
<1>3. CASE ~s.queryTimedOut
  <2>1. n \in Nat /\ n > 0
    BY <1>1 DEF Syncs, Local, Known
  <2>2. RequestInfo(s) = u
    BY <1>3 DEF RequestInfo
  <2> HIDE DEF n
  <2>3. q \in Queries /\ q.token = n /\ ~q.answered /\ q.result = "none" /\ q # NoQuery
    BY <2>1, Nothings DEF Queries
  <2>4. c \in AvatarCommand /\ c.op = "info" /\ c.token = n
    BY <2>1, CommandsMade
  <2> HIDE DEF q, c
  <2>5. t \in Syncs /\ t.query = q /\ Else(t, s, {"query"})
    BY <1>1, <2>3, QueryingMoves
  <2> HIDE DEF t
  <2>6. u.sent = Append(t.sent, c) /\ Else(u, t, {"sent"})
    BY <2>4, <2>5, SendMoves
  <2> HIDE DEF u
  <2>7. /\ u.query = q /\ u.queryTimedOut = s.queryTimedOut
        /\ u.upload = s.upload /\ u.draining = s.draining /\ u.stage = s.stage
        /\ u.retry = s.retry /\ u.pending = s.pending /\ u.choices = s.choices
        /\ u.clear = s.clear /\ t.sent = s.sent
    BY <2>5, <2>6 DEF Else, Fields
  <2>8. out \in Seq(AvatarCommand) /\ p \o u.sent = Append(out, c)
    BY <1>1, <2>4, <2>6, <2>7, AppendedOut, Joined DEF Syncs
  <2>9. Asks(s, out, back)
    BY DEF Truth
  <2> HIDE DEF out
  <2>10. At(out, {"info"}) = {} /\ Replies(back, {"info"}) = {}
    BY <1>3, <2>9 DEF Asks
  <2>11. \A i \in At(Append(out, c), {"info"}) : i = Len(out) + 1 /\ Append(out, c)[i] = c
    BY <2>4, <2>8, <2>10, Appended DEF At
  <2>12. Asks(u, Append(out, c), back)
    BY <1>3, <2>3, <2>4, <2>7, <2>10, <2>11 DEF Asks
  <2>13. Hears(u, back, avatar) /\ Picks(u) /\ Claims(u, back, avatar, file, dn)
    BY <2>3, <2>7 DEF Truth, Hears, Picks, Claims, Reports, Clears
  <2> QED BY <2>2, <2>8, <2>12, <2>13 DEF Truth
<1> QED BY <1>2, <1>3

\* The hash is there: a file is fetched that no task has compared yet.
LEMMA VerifyTruth ==
    ASSUME NEW s, NEW p, NEW back, NEW live, NEW rdy, NEW hash, NEW avatar, NEW file, NEW dn,
           Holding(s, p, back, live, rdy, dn),
           Truth(s, p \o s.sent, back, hash, avatar, file, dn), s.upload # NoUpload,
           Silent(back) => avatar = s.upload.content
    PROVE  Truth(Verify(s), p \o Verify(s).sent, back, hash, avatar, file, dn)
<1> DEFINE h == s.handles + 1
           x == [s.upload EXCEPT !.download = h]
           t == Fetching(s, h, x)
           c == [op |-> "download", handle |-> h]
<1>1. s \in Syncs /\ p \in Seq(AvatarCommand) /\ World(s, p \o s.sent, back, live, rdy, dn)
  BY DEF Holding
<1>2. h \in Nat /\ s.upload \in Uploads
  BY <1>1 DEF Syncs
<1>3. x \in Uploads /\ x.content = s.upload.content /\ x.download = h
  BY <1>2 DEF Uploads
<1>4. c \in AvatarCommand /\ c.op # "info"
  BY <1>2, CommandsMade
<1>5. \A i \in DOMAIN dn : dn[i].kind = "verify" => dn[i].handle # h
  BY <1>1 DEF World, Given, Syncs
<1> HIDE DEF h, x
<1>6. /\ t \in Syncs /\ t.upload = x /\ t.stage = "download"
      /\ Else(t, s, {"stage", "deadline", "handles", "upload"})
  BY <1>1, <1>2, <1>3, FetchingMoves
<1>7. Verify(s) = Send(t, c)
  BY <1>1, EnterMoves DEF Fetching, x, Enter, Syncs, Verify, h
<1> HIDE DEF t, c
<1>8. /\ t.query = s.query /\ t.queryTimedOut = s.queryTimedOut /\ t.sent = s.sent
      /\ t.draining = s.draining /\ t.choices = s.choices /\ t.clear = s.clear
  BY <1>6 DEF Else, Fields
<1>9. Asks(t, p \o t.sent, back)
  BY <1>8, AsksLess DEF Truth
<1>10. Hears(t, back, avatar) /\ Picks(t)
  BY <1>6, <1>8 DEF Truth, Hears, Picks, Uploading
<1>11. Claims(t, back, avatar, file, dn)
  BY <1>3, <1>5, <1>6 DEF Claims, Reports, Clears
<1>12. Truth(t, p \o t.sent, back, hash, avatar, file, dn)
  BY <1>9, <1>10, <1>11 DEF Truth
<1>13. Modest(t, Send(t, c)) /\ Send(t, c) \in Syncs
  BY <1>4, <1>6, SendModest, SendMoves
<1> QED BY <1>1, <1>6, <1>7, <1>12, <1>13, ModestStays

LEMMA CheckDrainModest ==
    ASSUME NEW s \in Syncs
    PROVE  Modest(s, CheckDrain(s))
<1> DEFINE n == IF s.upload # NoUpload THEN s.upload.token ELSE s.previous.token
           t == [s EXCEPT !.drainQuery = n]
           c == [op |-> "list", token |-> n]
<1>1. n \in Nat
  BY DEF Syncs, Uploads, Transfers
<1>2. CheckDrain(s) = Send(t, c) \/ CheckDrain(s) = s
  BY DEF CheckDrain
<1> HIDE DEF n
<1>3. c \in AvatarCommand /\ c.op # "info"
  BY <1>1, CommandsMade
<1> HIDE DEF c
<1>4. t \in Syncs /\ Else(t, s, {"drainQuery"})
  BY <1>1, AskingMoves
<1> HIDE DEF t
<1>5. Else(t, s, Beside)
  BY <1>4 DEF Else, Beside
<1>6. Modest(s, t) /\ Modest(t, Send(t, c))
  BY <1>3, <1>4, <1>5, BesideModest, SendModest
<1> QED BY <1>2, <1>6, ModestTwice

LEMMA ConfirmedTruth ==
    ASSUME NEW s \in Syncs, NEW p, NEW back, NEW hash, NEW avatar, NEW file, NEW dn,
           Truth(s, p \o s.sent, back, hash, avatar, file, dn), Local(s),
           s.stage = "clear_hash", s.deleting # 0, Silent(back) => avatar = NoContent
    PROVE  Truth(ClearConfirmed(s), p \o ClearConfirmed(s).sent, back, hash, avatar, file, dn)
<1> DEFINE t == [s EXCEPT !.deleting = 0, !.stage = "cleared", !.deadline = FALSE]
<1>1. ClearConfirmed(s) = t
  BY DEF ClearConfirmed, Local, Underway
<1>2. t.stage = "cleared" /\ Else(t, s, {"deleting", "stage", "deadline"})
  BY ConfirmedMoves
<1> HIDE DEF t
<1>3. /\ t.query = s.query /\ t.queryTimedOut = s.queryTimedOut /\ t.sent = s.sent
      /\ t.choices = s.choices
  BY <1>2 DEF Else, Fields
<1>4. ~Reports(t) /\ (Picks(s) => Picks(t))
  BY <1>2, <1>3 DEF Reports, Reporting, Picks, Uploading
<1> QED BY <1>1, <1>3, <1>4, ClearTruth

LEMMA CheckClearTruth ==
    ASSUME NEW s, NEW p, NEW back, NEW live, NEW rdy, NEW hash, NEW avatar, NEW file, NEW dn,
           Holding(s, p, back, live, rdy, dn),
           Truth(s, p \o s.sent, back, hash, avatar, file, dn)
    PROVE  LET t == CheckClear(s, hash) IN Truth(t, p \o t.sent, back, hash, avatar, file, dn)
<1>1. CASE CheckClear(s, hash) = s
  BY <1>1
<1>2. CASE CheckClear(s, hash) = RequestInfo(s) /\ s.query = NoQuery
  BY <1>2, RequestTruth
<1>3. CASE /\ CheckClear(s, hash) = ClearConfirmed(s) /\ hash = NoContent
           /\ s.stage = "clear_hash" /\ s.deleting # 0
  <2>1. Silent(back) => avatar = NoContent
    BY <1>3 DEF Truth, Follows
  <2> QED BY <1>3, <2>1, ConfirmedTruth DEF Holding, World
<1> QED BY <1>1, <1>2, <1>3 DEF CheckClear

LEMMA CheckHashTruth ==
    ASSUME NEW s, NEW p, NEW back, NEW live, NEW rdy, NEW hash, NEW avatar, NEW file, NEW dn,
           Holding(s, p, back, live, rdy, dn),
           Truth(s, p \o s.sent, back, hash, avatar, file, dn)
    PROVE  LET t == CheckHash(s, hash) IN Truth(t, p \o t.sent, back, hash, avatar, file, dn)
<1>1. CASE CheckHash(s, hash) = s
  BY <1>1
<1>2. CASE CheckHash(s, hash) = RequestInfo(s) /\ s.query = NoQuery
  BY <1>2, RequestTruth
<1>3. CASE CheckHash(s, hash) = Verify(s) /\ s.upload # NoUpload /\ hash = s.upload.content
  <2>1. Silent(back) => avatar = s.upload.content
    BY <1>3 DEF Truth, Follows
  <2> QED BY <1>3, <2>1, VerifyTruth
<1> QED BY <1>1, <1>2, <1>3 DEF CheckHash

\* What is started is not yet reported, save where nothing is wished and nothing is there.
LEMMA StartTruth ==
    ASSUME NEW s, NEW p, NEW back, NEW live, NEW rdy, NEW hash, NEW avatar, NEW file, NEW dn,
           Holding(s, p, back, live, rdy, dn),
           Truth(s, p \o s.sent, back, hash, avatar, file, dn)
    PROVE  LET t == Start(s, hash) IN Truth(t, p \o t.sent, back, hash, avatar, file, dn)
<1>1. s \in Syncs /\ p \in Seq(AvatarCommand) /\ Picks(s)
  BY DEF Holding, Truth
<1>2. CASE ~MayStart(s)
  BY <1>2 DEF Start
<1>3. CASE MayStart(s) /\ s.choices = 0 /\ ~s.clear
  <2> DEFINE t == [Enter(s, "load") EXCEPT !.worker = "load"]
  <2>1. Start(s, hash) = t
    BY <1>3 DEF Start
  <2>2. t \in Syncs /\ t.stage = "load" /\ Else(t, s, {"stage", "deadline", "worker"})
    BY <1>1, LoadMoves
  <2> HIDE DEF t
  <2>3. Else(t, s, Beside \cup {"stage"}) /\ t.stage \notin Reporting \cup {"cleared"}
    BY <2>2 DEF Else, Beside, Reporting
  <2>4. Modest(s, t)
    BY <1>3, <2>3, StageModest
  <2> QED BY <1>1, <2>1, <2>2, <2>4, ModestStays
<1>4. CASE MayStart(s) /\ s.clear /\ hash = NoContent
  <2> DEFINE t == [s EXCEPT !.pending = FALSE, !.stage = "cleared", !.deadline = FALSE]
  <2>1. Start(s, hash) = t
    BY <1>4 DEF Start, StartClear
  <2>2. t.stage = "cleared" /\ Else(t, s, {"pending", "stage", "deadline"})
    BY <1>1, EmptyMoves
  <2> HIDE DEF t
  <2>3. /\ t.query = s.query /\ t.queryTimedOut = s.queryTimedOut /\ t.sent = s.sent
        /\ t.choices = s.choices
    BY <2>2 DEF Else, Fields
  <2>4. ~Reports(t) /\ Picks(t)
    BY <1>1, <1>4, <2>2, <2>3 DEF Reports, Reporting, Picks
  <2>5. Silent(back) => avatar = NoContent
    BY <1>4 DEF Truth, Follows
  <2> QED BY <2>1, <2>3, <2>4, <2>5, ClearTruth
<1>5. CASE MayStart(s) /\ s.clear /\ hash # NoContent
  <2> DEFINE t == [Enter(s, "delete") EXCEPT !.pending = FALSE, !.missing = FALSE,
                                             !.deleting = s.token]
             c == [op |-> "delete", token |-> s.token]
             u == Send(t, c)
  <2>1. Start(s, hash) = u
    BY <1>5 DEF Start, StartClear
  <2>2. t \in Syncs /\ t.stage = "delete"
        /\ Else(t, s, {"stage", "deadline", "pending", "missing", "deleting"})
    BY <1>1, DeletingMoves
  <2>3. c \in AvatarCommand /\ c.op # "info"
    BY <1>1, CommandsMade DEF Syncs
  <2> HIDE DEF t, c
  <2>4. /\ t.query = s.query /\ t.queryTimedOut = s.queryTimedOut /\ t.sent = s.sent
        /\ t.choices = s.choices
    BY <2>2 DEF Else, Fields
  <2>5. ~Reports(t) /\ ~Clears(t) /\ Picks(t)
    BY <1>1, <1>5, <2>2, <2>4 DEF Reports, Reporting, Clears, Picks
  <2>6. Modest(s, t)
    BY <2>4, <2>5, SilentModest
  <2>7. Modest(t, u) /\ u \in Syncs
    BY <2>2, <2>3, SendModest, SendMoves
  <2> HIDE DEF u
  <2>8. Modest(s, u)
    BY <2>6, <2>7, ModestTwice
  <2> QED BY <1>1, <2>1, <2>7, <2>8, ModestStays
<1>6. CASE MayStart(s) /\ s.choices # 0 /\ ~s.clear
  <2>1. s.stage \in Uploading \cup {"own"} /\ ~s.draining /\ s.upload = NoUpload
    BY <1>1, <1>6 DEF Picks, MayStart
  <2>2. CASE Start(s, hash) = [s EXCEPT !.pending = FALSE, !.deadline = FALSE]
    <3> DEFINE t == [s EXCEPT !.pending = FALSE, !.deadline = FALSE]
    <3>1. t \in Syncs /\ Else(t, s, {"pending", "deadline"})
      BY <1>1, SettledMoves
    <3> HIDE DEF t
    <3>2. /\ t.query = s.query /\ t.queryTimedOut = s.queryTimedOut /\ t.sent = s.sent
          /\ t.choices = s.choices /\ t.stage = s.stage /\ t.draining = s.draining
          /\ t.clear = s.clear /\ t.upload = s.upload
      BY <3>1 DEF Else, Fields
    <3>3. ~Reports(t) /\ ~Clears(t) /\ Picks(t)
      BY <1>1, <2>1, <3>2 DEF Reports, Clears, Picks, Uploading
    <3>4. Modest(s, t)
      BY <3>2, <3>3, SilentModest
    <3> QED BY <1>1, <2>2, <3>1, <3>4, ModestStays DEF t
  <2>3. CASE Start(s, hash) = Failed(s, FALSE)
    <3>1. Modest(s, Failed(s, FALSE)) /\ Failed(s, FALSE) \in Syncs
      BY <1>1, FailedModest, FailedMoves
    <3> QED BY <1>1, <2>3, <3>1, ModestStays
  <2>4. CASE Start(s, hash) = StartUpload(s) /\ s.next <= Candidates
    <3> DEFINE h == s.handles + 1
               content == [of |-> s.choices, size |-> s.next]
               x == [handle |-> h, token |-> s.token, content |-> content, download |-> 0]
               t == Connecting(s, h, x)
               c == [op |-> "upload", handle |-> h, content |-> content]
               u == Send(t, c)
    <3>1. StartUpload(s) = u
      BY DEF StartUpload, Connecting
    <3>2. h \in Nat /\ s.token \in Nat /\ content \in File
      BY <1>1, <1>6, <2>4, Numbers DEF Syncs, File, Selections, Sizes, Chosen
    <3>3. x \in Uploads /\ c \in AvatarCommand /\ c.op # "info"
      BY <3>2, CommandsMade DEF Uploads, Contents
    <3> HIDE DEF h, content, x, c
    <3>4. t \in Syncs /\ t.stage = "connect"
          /\ Else(t, s, {"stage", "deadline", "pending", "handles", "upload"})
      BY <1>1, <3>2, <3>3, ConnectingMoves
    <3> HIDE DEF t
    <3>5. /\ t.query = s.query /\ t.queryTimedOut = s.queryTimedOut /\ t.sent = s.sent
          /\ t.choices = s.choices /\ t.clear = s.clear /\ t.draining = s.draining
      BY <3>4 DEF Else, Fields
    <3>6. ~Reports(t) /\ ~Clears(t) /\ Picks(t)
      BY <1>6, <2>1, <3>4, <3>5 DEF Reports, Reporting, Clears, Picks, Uploading
    <3>7. Modest(s, t) /\ Modest(t, u) /\ u \in Syncs
      BY <3>3, <3>4, <3>5, <3>6, SilentModest, SendModest, SendMoves
    <3> HIDE DEF u
    <3>8. Modest(s, u)
      BY <3>7, ModestTwice
    <3> QED BY <1>1, <2>4, <3>1, <3>7, <3>8, ModestStays
  <2>5. Start(s, hash) = StartImage(s, hash)
    BY <1>6 DEF Start
  <2>6. s.next > Candidates \/ s.next <= Candidates
    BY <1>1, AvatarSyncAssumption DEF Syncs, Sizes
  <2> QED BY <2>2, <2>3, <2>4, <2>5, <2>6 DEF StartImage
<1> QED BY <1>2, <1>3, <1>4, <1>5, <1>6

LEMMA CheckTruth ==
    ASSUME NEW s, NEW p, NEW back, NEW live, NEW rdy, NEW hash, NEW avatar, NEW file, NEW dn,
           Holding(s, p, back, live, rdy, dn),
           Truth(s, p \o s.sent, back, hash, avatar, file, dn)
    PROVE  LET t == Check(s, hash) IN Truth(t, p \o t.sent, back, hash, avatar, file, dn)
<1> DEFINE a == CheckDrain(s)
           b == CheckClear(a, hash)
           u == CheckHash(b, hash)
<1>1. Holding(a, p, back, live, rdy, dn)
  BY CheckDrainHolds
<1>2. Truth(a, p \o a.sent, back, hash, avatar, file, dn)
  BY <1>1, CheckDrainModest, ModestStays DEF Holding
<1> HIDE DEF a
<1>3. Holding(b, p, back, live, rdy, dn)
      /\ Truth(b, p \o b.sent, back, hash, avatar, file, dn)
  BY <1>1, <1>2, CheckClearHolds, CheckClearTruth
<1> HIDE DEF b
<1>4. Holding(u, p, back, live, rdy, dn)
      /\ Truth(u, p \o u.sent, back, hash, avatar, file, dn)
  BY <1>3, CheckHashHolds, CheckHashTruth
<1>5. Check(s, hash) = Start(u, hash)
  BY DEF Check, u, b, a
<1> HIDE DEF u
<1> QED BY <1>4, <1>5, StartTruth

-----------------------------------------------------------------------------
(* What the handlers report                                                *)

LEMMA UploadConnectedModest ==
    ASSUME NEW s \in Syncs, NEW h
    PROVE  Modest(s, UploadConnected(s, h))
<1> DEFINE t == [Enter(s, "write") EXCEPT !.worker = "write"]
<1>1. UploadConnected(s, h) \in {s, t}
  BY DEF UploadConnected
<1>2. t.stage = "write" /\ Else(t, s, {"stage", "deadline", "worker"})
  BY WriteMoves
<1> HIDE DEF t
<1>3. Else(t, s, Beside \cup {"stage"}) /\ t.stage \notin Reporting \cup {"cleared"}
      /\ t.stage \in Uploading
  BY <1>2 DEF Else, Beside, Reporting, Uploading
<1>4. Modest(s, t) /\ Modest(s, s)
  BY <1>3, StageModest, ModestTwice
<1> QED BY <1>1, <1>4

LEMMA DownloadConnectedModest ==
    ASSUME NEW s \in Syncs, NEW fits, s.stage = "download"
    PROVE  Modest(s, DownloadConnected(s, fits))
<1> DEFINE t == [Enter(s, "verify") EXCEPT !.worker = "verify"]
<1>1. DownloadConnected(s, fits) \in {Failed(s, FALSE), t}
  BY DEF DownloadConnected
<1>2. t.stage = "verify" /\ Else(t, s, {"stage", "deadline", "worker"})
  BY VerifyingMoves
<1> HIDE DEF t
<1>3. /\ t.query = s.query /\ t.queryTimedOut = s.queryTimedOut /\ t.sent = s.sent
      /\ t.upload = s.upload /\ t.draining = s.draining
      /\ t.choices = s.choices /\ t.clear = s.clear
  BY <1>2 DEF Else, Fields
<1>4. Modest(s, t)
  BY <1>2, <1>3 DEF Modest, Reports, Reporting, Clears, Picks, Uploading
<1>5. Modest(s, Failed(s, FALSE))
  BY FailedModest
<1> QED BY <1>1, <1>4, <1>5

LEMMA TransferFailedModest ==
    ASSUME NEW s \in Syncs, NEW h, NEW why
    PROVE  Modest(s, TransferFailed(s, h, why))
<1> DEFINE u == [Stop(s) EXCEPT !.next = @ + 1, !.pending = TRUE]
           v == Failed([Stop(s) EXCEPT !.next = @ + 1], FALSE)
<1>1. TransferFailed(s, h, why) \in {s, Failed(s, FALSE), u, v}
  BY DEF TransferFailed
<1>2. Modest(s, u)
  <2>1. /\ u.query = s.query /\ u.queryTimedOut = s.queryTimedOut /\ u.sent = s.sent
        /\ u.upload = NoUpload /\ u.pending /\ u.choices = s.choices /\ u.stage = s.stage
        /\ u.clear = s.clear /\ u.draining = s.draining
    BY DEF Stop, Syncs
  <2> HIDE DEF u
  <2> QED BY <2>1, SilentModest DEF Reports, Clears, Picks
<1>3. Modest(s, v)
  <2>1. /\ v.query = s.query /\ v.queryTimedOut = s.queryTimedOut /\ v.sent = s.sent
        /\ v.upload = NoUpload /\ ~v.retry /\ v.choices = 0
    BY DEF Failed, Stop, Syncs
  <2> HIDE DEF v
  <2> QED BY <2>1, SilentModest DEF Reports, Clears, Picks
<1>4. Modest(s, s) /\ Modest(s, Failed(s, FALSE))
  BY ModestTwice, FailedModest
<1> HIDE DEF u, v
<1> QED BY <1>1, <1>2, <1>3, <1>4

LEMMA UpdatedModest ==
    ASSUME NEW s \in Syncs, NEW token, NEW ok
    PROVE  Modest(s, Updated(s, token, ok))
<1> DEFINE t == [s EXCEPT !.drainQuery = 0]
<1>1. \/ Updated(s, token, ok) \in {s, Enter(s, "hash"), Failed(s, FALSE)}
      \/ Updated(s, token, ok) = Enter(t, "drain") /\ s.draining
  BY DEF Updated
<1>2. t \in Syncs /\ Else(t, s, {"drainQuery"})
  BY AskingMoves
<1> HIDE DEF t
<1>3. Else(t, s, Beside) /\ t.draining = s.draining
  BY <1>2 DEF Else, Beside, Fields
<1>4. Modest(s, t) /\ Modest(s, s) /\ Modest(s, Failed(s, FALSE))
  BY <1>3, BesideModest, ModestTwice, FailedModest
<1>5. Modest(s, Enter(s, "hash"))
  BY EnterModest DEF Stages, Reporting, Uploading
<1>6. s.draining => Modest(t, Enter(t, "drain"))
  BY <1>2, <1>3, EnterModest DEF Stages, Reporting, Picks
<1>7. s.draining => Modest(s, Enter(t, "drain"))
  BY <1>4, <1>6, ModestTwice
<1> QED BY <1>1, <1>4, <1>5, <1>7

LEMMA ListedModest ==
    ASSUME NEW s \in Syncs, NEW ids
    PROVE  Modest(s, Listed(s, ids))
<1> DEFINE h == IF s.upload # NoUpload THEN s.upload.handle ELSE s.previous.handle
           t == [s EXCEPT !.drainId = h]
<1>1. Listed(s, ids) \in {s, t}
  BY DEF Listed
<1>2. h \in Nat
  BY DEF Syncs, Uploads, Transfers
<1> HIDE DEF h
<1>3. Else(t, s, {"drainId"})
  BY <1>2, FoundMoves
<1> HIDE DEF t
<1>4. Else(t, s, Beside)
  BY <1>3 DEF Else, Beside
<1>5. Modest(s, t) /\ Modest(s, s)
  BY <1>4, BesideModest, ModestTwice
<1> QED BY <1>1, <1>5

LEMMA ListEndedModest ==
    ASSUME NEW s \in Syncs, Local(s), NEW token \in Nat, NEW ok, token > 0
    PROVE  Modest(s, ListEnded(s, token, ok))
<1> DEFINE e == Enter(s, "stop_transfer")
           c == [op |-> "stop", token |-> token, id |-> s.drainId]
<1>1. \/ ListEnded(s, token, ok) \in {s, Failed(s, FALSE)}
      \/ ListEnded(s, token, ok) \in {Drained(s), Send(e, c)} /\ s.draining
  <2>1. s.drainQuery = token => s.draining
    BY DEF Local, Waiting
  <2> QED BY <2>1 DEF ListEnded
<1>2. e \in Syncs /\ c \in AvatarCommand /\ c.op # "info"
  BY EnterMoves, CommandsMade DEF Stages, Syncs
<1>3. s.draining => Modest(s, e)
  BY EnterModest DEF Stages, Reporting, Picks
<1> HIDE DEF e, c
<1>4. Modest(e, Send(e, c))
  BY <1>2, SendModest
<1>5. s.draining => Modest(s, Send(e, c)) /\ Modest(s, Drained(s))
  BY <1>3, <1>4, ModestTwice, DrainedModest
<1>6. Modest(s, s) /\ Modest(s, Failed(s, FALSE))
  BY ModestTwice, FailedModest
<1> QED BY <1>1, <1>5, <1>6

LEMMA TransferStoppedModest ==
    ASSUME NEW s \in Syncs, Local(s), NEW token \in Nat, NEW ok, token > 0
    PROVE  Modest(s, TransferStopped(s, token, ok))
<1>1. \/ TransferStopped(s, token, ok) \in {s, Failed(s, FALSE)}
      \/ TransferStopped(s, token, ok) = Drained(s) /\ s.draining
  <2>1. s.drainQuery = token => s.draining
    BY DEF Local, Waiting
  <2> QED BY <2>1 DEF TransferStopped
<1>2. Modest(s, s) /\ Modest(s, Failed(s, FALSE)) /\ (s.draining => Modest(s, Drained(s)))
  BY ModestTwice, FailedModest, DrainedModest
<1> QED BY <1>1, <1>2

LEMMA DeletedModest ==
    ASSUME NEW s \in Syncs, NEW token, NEW result
    PROVE  Modest(s, Deleted(s, token, result))
<1> DEFINE m == s.missing \/ result = "missing"
           t == [Enter(s, "clear_hash") EXCEPT !.missing = m]
<1>1. \/ Deleted(s, token, result) \in {s, Failed(s, FALSE)}
      \/ Deleted(s, token, result) = Drained(s) /\ s.draining
      \/ Deleted(s, token, result) = t /\ s.stage = "delete"
  BY DEF Enter, Syncs, Deleted
<1>2. m \in BOOLEAN
  BY DEF Syncs
<1> HIDE DEF m
<1>3. t.stage = "clear_hash" /\ Else(t, s, {"stage", "deadline", "missing"})
  BY <1>2, ClearingMoves
<1> HIDE DEF t
<1>4. Else(t, s, Beside \cup {"stage"}) /\ t.stage \notin Reporting \cup {"cleared"}
  BY <1>3 DEF Else, Beside, Reporting
<1>5. s.stage = "delete" => s.choices = 0 \/ ~Picks(s)
  BY DEF Picks, Uploading
<1>6. s.stage = "delete" => Modest(s, t)
  BY <1>4, <1>5, StageModest
<1>7. Modest(s, s) /\ Modest(s, Failed(s, FALSE)) /\ (s.draining => Modest(s, Drained(s)))
  BY ModestTwice, FailedModest, DrainedModest
<1> QED BY <1>1, <1>6, <1>7

LEMMA IdleModest ==
    ASSUME NEW s \in Syncs
    PROVE  Modest(s, [s EXCEPT !.worker = "none"])
<1> DEFINE t == [s EXCEPT !.worker = "none"]
<1>1. Else(t, s, {"worker"})
  BY IdleMoves DEF Workers
<1> HIDE DEF t
<1>2. Else(t, s, Beside)
  BY <1>1 DEF Else, Beside
<1> QED BY <1>2, BesideModest DEF t

LEMMA LoadedModest ==
    ASSUME NEW s \in Syncs, Local(s), NEW token,
           NEW result \in References \cup {[kind |-> "error", of |-> 0]}
    PROVE  Modest(s, Loaded(s, token, result))
<1> DEFINE u == [s EXCEPT !.worker = "none"]
<1>1. u \in Syncs /\ u.stage = s.stage /\ u.draining = s.draining /\ u.choices = s.choices
      /\ Modest(s, u)
  BY IdleMoves, IdleModest DEF Workers, Syncs
<1>2. CASE token # s.token \/ s.stage # "load" \/ s.worker = "none"
  BY <1>2, ModestTwice DEF Loaded
<1>3. CASE ~(token # s.token \/ s.stage # "load" \/ s.worker = "none")
  <2>1. Loaded(s, token, result) =
         CASE result.kind = "image" -> Choosing(u, FALSE, result.of)
           [] result.kind = "clear" -> Choosing(u, TRUE, 0)
           [] result.kind = "unset" -> [u EXCEPT !.deadline = FALSE, !.pending = FALSE]
           [] OTHER -> Failed(u, FALSE)
    BY <1>3 DEF Loaded, Choosing
  <2>2. ~u.draining /\ u.stage = "load"
    BY <1>1, <1>3 DEF Local, Working
  <2> HIDE DEF u
  <2>3. ASSUME NEW b \in BOOLEAN, NEW n \in Chosen, n # 0 => ~b
        PROVE  Modest(u, Choosing(u, b, n))
    BY <1>1, ChoosingMoves, <2>2, <2>3, SilentModest DEF Else, Fields, Reports, Reporting,
       Clears, Picks
  <2>4. CASE result.kind = "image"
    <3>1. result.of \in Chosen
      BY <2>4 DEF References, NoFile, Chosen, Selections
    <3>2. Modest(u, Choosing(u, FALSE, result.of))
      BY <2>3, <3>1
    <3>3. Loaded(s, token, result) = Choosing(u, FALSE, result.of)
      BY <2>1, <2>4
    <3> QED BY <1>1, <3>2, <3>3, ModestTwice
  <2>5. CASE result.kind = "clear"
    BY <2>3, Firsts, <2>1, <2>5, <1>1, ModestTwice
  <2>6. CASE result.kind = "unset"
    <3> DEFINE t == [u EXCEPT !.deadline = FALSE, !.pending = FALSE]
    <3>1. Loaded(s, token, result) = t
      BY <2>1, <2>6
    <3>2. /\ t.query = u.query /\ t.queryTimedOut = u.queryTimedOut /\ t.sent = u.sent
          /\ t.choices = u.choices /\ t.stage = u.stage
      BY <1>1 DEF Syncs
    <3> HIDE DEF t
    <3>3. Modest(u, t)
      BY <2>2, <3>2, SilentModest DEF Reports, Reporting, Clears, Picks, Uploading
    <3> QED BY <1>1, <3>1, <3>3, ModestTwice
  <2>7. CASE result.kind \notin {"image", "clear", "unset"}
    BY <2>1, <2>7, <1>1, FailedModest, ModestTwice
  <2> QED BY <2>4, <2>5, <2>6, <2>7
<1> QED BY <1>2, <1>3

LEMMA WrittenModest ==
    ASSUME NEW s \in Syncs, NEW token, NEW h, NEW ok
    PROVE  Modest(s, Written(s, token, h, ok))
<1> DEFINE u == [s EXCEPT !.worker = "none"]
           e == Enter(u, "update")
           c == [op |-> "sethash", token |-> s.token, hash |-> s.upload.content]
<1>1. u \in Syncs /\ Modest(s, u)
  BY IdleMoves, IdleModest DEF Workers
<1>2. Written(s, token, h, ok) \in {s, u, Failed(u, FALSE), Send(e, c)}
  BY DEF Written
<1>3. c \in AvatarCommand /\ c.op # "info"
  BY CommandsMade DEF Syncs, Uploads
<1> HIDE DEF u, c
<1>4. e \in Syncs /\ Modest(u, e)
  BY <1>1, EnterMoves, EnterModest DEF Stages, Reporting, Uploading
<1> HIDE DEF e
<1>5. Modest(e, Send(e, c)) /\ Modest(u, Failed(u, FALSE))
  BY <1>1, <1>3, <1>4, SendModest, FailedModest
<1>6. Modest(s, Send(e, c)) /\ Modest(s, Failed(u, FALSE)) /\ Modest(s, s)
  BY <1>1, <1>4, <1>5, ModestTwice
<1> QED BY <1>1, <1>2, <1>6

\* The report itself: the comparison of this download has found what was uploaded.
LEMMA VerifiedTruth ==
    ASSUME NEW s, NEW token, NEW h, NEW ok \in BOOLEAN, NEW p, NEW back, NEW live, NEW rdy,
           NEW hash, NEW avatar, NEW file, NEW dn, NEW rest,
           Holding(s, p, back, live, rdy, rest), h > 0,
           Truth(s, p \o s.sent, back, hash, avatar, file, rest),
           Silent(back) /\ ok /\ Reports(s) /\ s.upload.download = h => file = s.upload.content
    PROVE  LET t == Verified(s, token, h, ok) IN
           Truth(t, p \o t.sent, back, hash, avatar, file, rest)
<1> DEFINE u == [s EXCEPT !.worker = "none"]
           t == [u EXCEPT !.stage = "synced", !.deadline = FALSE, !.choices = 0]
<1>1. s \in Syncs /\ p \in Seq(AvatarCommand) /\ Local(s)
  BY DEF Holding, World
<1>2. u \in Syncs /\ Modest(s, u) /\ Else(u, s, {"worker"})
  BY <1>1, IdleMoves, IdleModest DEF Workers
<1>3. \/ Verified(s, token, h, ok) \in {s, Failed(u, FALSE)}
      \/ /\ Verified(s, token, h, ok) = t
         /\ ok /\ s.stage = "verify" /\ s.upload.download = h
  BY <1>1 DEF Local, Waiting, Draining, Verified
<1> HIDE DEF u
<1>4. Truth(u, p \o u.sent, back, hash, avatar, file, rest)
  BY <1>1, <1>2, ModestStays
<1>5. Failed(u, FALSE) \in Syncs /\ Modest(u, Failed(u, FALSE))
  BY <1>2, FailedMoves, FailedModest
<1>6. LET v == Failed(u, FALSE) IN Truth(v, p \o v.sent, back, hash, avatar, file, rest)
  BY <1>1, <1>2, <1>4, <1>5, ModestStays
<1>7. ASSUME ok, s.stage = "verify", s.upload.download = h
      PROVE  Truth(t, p \o t.sent, back, hash, avatar, file, rest)
  <2>1. t.stage = "synced" /\ t.choices = 0 /\ Else(t, u, {"stage", "deadline", "choices"})
    BY <1>2, SyncedMoves
  <2> HIDE DEF t
  <2>2. /\ t.query = s.query /\ t.queryTimedOut = s.queryTimedOut /\ t.sent = s.sent
        /\ t.upload = s.upload /\ t.draining = s.draining
    BY <1>2, <2>1 DEF Else, Fields
  <2>3. s.upload # NoUpload
    BY <1>7, Nothings
  <2>4. Reports(t) => Reports(s)
    BY <1>7, <2>2, <2>3 DEF Reports, Reporting
  <2>5. Claims(t, back, avatar, file, rest)
    BY <1>7, <2>1, <2>2, <2>4 DEF Truth, Claims, Clears
  <2>6. Asks(t, p \o t.sent, back)
    BY <2>2, AsksLess DEF Truth
  <2>7. Hears(t, back, avatar) /\ Picks(t)
    BY <2>1, <2>2 DEF Truth, Hears, Picks
  <2> QED BY <2>5, <2>6, <2>7 DEF Truth
<1> HIDE DEF t
<1> QED BY <1>3, <1>6, <1>7

LEMMA CompletedTruth ==
    ASSUME NEW s, NEW p, NEW back, NEW live, NEW rdy, NEW hash, NEW avatar, NEW file, NEW dn,
           Holding(s, p, back, live, rdy, dn), dn # << >>,
           Truth(s, p \o s.sent, back, hash, avatar, file, dn)
    PROVE  LET t == Completed(s, Head(dn)) IN
           Truth(t, p \o t.sent, back, hash, avatar, file, Tail(dn))
<1> DEFINE c == Head(dn)
           r == Tail(dn)
           t == Completed(s, c)
<1>1. s \in Syncs /\ p \in Seq(AvatarCommand) /\ Local(s) /\ dn \in Seq(AvatarResult)
      /\ Given(s, p \o s.sent, back, live, rdy, dn)
  BY DEF Holding, World
<1>2. c \in AvatarResult /\ 1 \in DOMAIN dn /\ c = dn[1]
      /\ \A i \in DOMAIN r : i + 1 \in DOMAIN dn /\ r[i] = dn[i + 1]
  BY <1>1, Tailed
<1>3. Holding(s, p, back, live, rdy, r) /\ Holding(t, p, back, live, rdy, r)
  BY DoneHolds, CompletedHolds
<1> SUFFICES Truth(t, p \o t.sent, back, hash, avatar, file, r)
  OBVIOUS
<1> HIDE DEF c, r, t
<1>4. Truth(s, p \o s.sent, back, hash, avatar, file, r)
  BY <1>2 DEF Truth, Claims
<1>5. t \in Syncs
  BY <1>3 DEF Holding
<1>6. CASE c.kind = "load"
  BY <1>6, <1>2, <1>1, LoadedModest, <1>4, <1>5, ModestStays DEF Completed, t, AvatarResult
<1>7. CASE c.kind = "write"
  BY <1>7, <1>1, WrittenModest, <1>4, <1>5, ModestStays DEF Completed, t
<1>8. CASE c.kind = "verify"
  <2>1. t = Verified(s, c.token, c.handle, c.result)
    BY <1>8 DEF Completed, t
  <2>2. c.result \in BOOLEAN /\ c.handle \in Nat
    BY <1>2, <1>8 DEF AvatarResult
  <2>3. c.handle > 0
    BY <1>1, <1>2, <1>8 DEF Given
  <2>4. Silent(back) /\ c.result /\ Reports(s) /\ s.upload.download = c.handle =>
            file = s.upload.content
    BY <1>2, <1>8 DEF Truth, Claims
  <2> QED BY <1>3, <1>4, <2>1, <2>2, <2>3, <2>4, VerifiedTruth
<1> QED BY <1>2, <1>6, <1>7, <1>8 DEF AvatarResult

-----------------------------------------------------------------------------
(* What the messages of the server tell                                    *)

LEMMA RestReplies ==
    ASSUME NEW back \in Seq(AvatarMessage), back # << >>, NEW ops
    PROVE  /\ \A i \in Replies(Tail(back), ops) : i \in Nat /\ i + 1 \in Replies(back, ops)
           /\ \A i \in Replies(back, ops) : i # 1 => i - 1 \in Replies(Tail(back), ops)
  BY Tailed DEF Replies

\* The book follows what is still to come.
LEMMA FollowsTail ==
    ASSUME NEW back \in Seq(AvatarMessage), back # << >>, NEW hash, NEW avatar, NEW next,
           Follows(back, hash, avatar), Silent(Tail(back)) => next = avatar
    PROVE  Follows(Tail(back), next, avatar)
<1> DEFINE r == Tail(back)
<1>1. /\ \A i \in DOMAIN r : i \in Nat /\ i > 0 /\ i + 1 \in DOMAIN back /\ r[i] = back[i + 1]
      /\ \A i \in DOMAIN back : i # 1 => i - 1 \in DOMAIN r
  BY Tailed
<1>2. \A ops : \A i \in Replies(back, ops) : i # 1 => i - 1 \in Replies(r, ops)
  BY RestReplies
<1>3. \A i \in DOMAIN back : i \in Nat /\ (i - 1) + 1 = i
  OBVIOUS
<1> SUFFICES Follows(r, next, avatar)
  OBVIOUS
<1>4. Silent(r) => next = avatar
  OBVIOUS
<1> HIDE DEF r
<1>5. ASSUME NEW i \in DOMAIN r, NEW j \in DOMAIN back, j > i + 1
      PROVE  j # 1 /\ j - 1 \in DOMAIN r /\ j - 1 > i /\ r[j - 1] = back[j]
  BY <1>1, <1>3, <1>5
<1>6. ASSUME NEW i \in DOMAIN r, r[i].kind = "book"
      PROVE  /\ \/ \E j \in DOMAIN r : j > i /\ r[j].kind = "book"
                \/ r[i].hash = avatar
             /\ r[i].hash \in File => \E j \in Replies(r, {"sethash"}) : j > i
  <2>1. i + 1 \in DOMAIN back /\ r[i] = back[i + 1]
    BY <1>1
  <2>2. /\ \/ \E j \in DOMAIN back : j > i + 1 /\ back[j].kind = "book"
           \/ back[i + 1].hash = avatar
        /\ back[i + 1].hash \in File => \E j \in Replies(back, {"sethash"}) : j > i + 1
    BY <1>6, <2>1 DEF Follows
  <2>3. (\E j \in DOMAIN back : j > i + 1 /\ back[j].kind = "book")
        => \E j \in DOMAIN r : j > i /\ r[j].kind = "book"
    BY <1>5
  <2>4. (\E j \in Replies(back, {"sethash"}) : j > i + 1)
        => \E j \in Replies(r, {"sethash"}) : j > i
    BY <1>2, <1>5 DEF Replies
  <2> QED BY <2>1, <2>2, <2>3, <2>4
<1>7. ASSUME NEW i \in DOMAIN r, r[i].kind = "info"
      PROVE  /\ i + 1 \in Replies(r, {"info"})
             /\ \/ \E j \in DOMAIN r : j > i /\ r[j].kind = "book"
                \/ r[i].hash = avatar
  BY <1>1, <1>7, <1>2, <1>5 DEF Follows
<1> QED BY <1>4, <1>6, <1>7 DEF Follows

LEMMA AsksTail ==
    ASSUME NEW s, NEW out, NEW back \in Seq(AvatarMessage), back # << >>, Asks(s, out, back)
    PROVE  Asks(s, out, Tail(back))
  BY Tailed, RestReplies DEF Asks, Replies

LEMMA SilentTail ==
    ASSUME NEW back \in Seq(AvatarMessage), back # << >>, Silent(Tail(back)), Head(back).kind # "book"
    PROVE  Silent(back)
  BY Tailed DEF Silent

\* Only a notice of the hash and an answer to clientinfo tell anything by being taken.
LEMMA TakenTruth ==
    ASSUME NEW s, NEW out, NEW back \in Seq(AvatarMessage), back # << >>,
           NEW hash, NEW avatar, NEW file, NEW dn,
           Truth(s, out, back, hash, avatar, file, dn), Head(back).kind # "book",
           s.query.answered => 1 \notin Replies(back, {"info"})
    PROVE  Truth(s, out, Tail(back), hash, avatar, file, dn)
<1>1. Silent(Tail(back)) => Silent(back)
  BY SilentTail
<1>2. Silent(Tail(back)) => hash = avatar
  BY <1>1 DEF Truth, Follows
<1>3. Follows(Tail(back), hash, avatar)
  BY <1>2, FollowsTail DEF Truth
<1>4. Asks(s, out, Tail(back))
  BY AsksTail DEF Truth
<1>5. Hears(s, Tail(back), avatar)
  BY DEF Truth, Hears
<1>6. Claims(s, Tail(back), avatar, file, dn)
  BY <1>1 DEF Truth, Claims
<1> QED BY <1>3, <1>4, <1>5, <1>6 DEF Truth

\* What reports nothing, whatever the notice said.
LEMMA NoticedTruth ==
    ASSUME NEW s \in Syncs, NEW t \in Syncs, NEW p \in Seq(AvatarCommand), NEW back, NEW hash,
           NEW avatar, NEW file, NEW dn,
           Modest(s, t), Asks(s, p \o s.sent, back), Follows(back, hash, avatar),
           ~s.query.answered, Picks(s), ~Reports(t),
           Silent(back) /\ Clears(t) => avatar = NoContent
    PROVE  Truth(t, p \o t.sent, back, hash, avatar, file, dn)
  BY ModestAsks DEF Hears, Claims, Modest, Truth

\* What was synchronised is given up when a notice tells of another avatar; a notice of
\* the own hash comes before the picture is reported.
LEMMA HashChangedTruth ==
    ASSUME NEW s, NEW p, NEW back, NEW live, NEW rdy, NEW hash, NEW avatar, NEW file, NEW dn,
           Holding(s, p, back, live, rdy, dn), back # << >>, Head(back).kind = "book",
           Truth(s, p \o s.sent, back, hash, avatar, file, dn)
    PROVE  LET t == HashChanged(s, Head(back).hash) IN
           Truth(t, p \o t.sent, Tail(back), Head(back).hash, avatar, file, dn)
<1> DEFINE m == Head(back)
           r == Tail(back)
           t == HashChanged(s, m.hash)
<1>1. s \in Syncs /\ p \in Seq(AvatarCommand) /\ Local(s) /\ back \in Seq(AvatarMessage)
      /\ Fit(s, p \o s.sent, back, live)
  BY DEF Holding, World
<1>2. 1 \in DOMAIN back /\ m = back[1] /\ \A i \in DOMAIN back : i \in Nat
  BY <1>1, Tailed
<1>3. ~s.query.answered
  BY <1>2 DEF Truth, Hears, Replies
<1>4. Silent(r) => m.hash = avatar
  BY <1>1, <1>2, Tailed DEF Silent, Truth, Follows
<1>5. Follows(r, m.hash, avatar) /\ Asks(s, p \o s.sent, r)
  BY <1>1, <1>4, FollowsTail, AsksTail DEF Truth
<1>6. \/ t = Failed(s, FALSE)
      \/ /\ t = s
         /\ s.stage = "cleared" /\ ~s.draining => m.hash = NoContent
         /\ Reports(s) => s.upload.content = m.hash
  BY DEF HashChanged, Reports, Reporting
<1>7. m.hash \in File => s.blocked \/ s.stage = "update"
  BY <1>2, <1>1 DEF Truth, Follows, Fit, Suits, Replies
<1>8. Reports(s) => s.upload.content \in File /\ ~s.blocked /\ s.stage # "update"
  BY <1>1 DEF Reports, Reporting, Local, Underway, Waiting
<1>9. s.stage = "cleared" => ~s.draining
  BY <1>1 DEF Local, Waiting, Draining
<1>10. Modest(s, s) /\ Modest(s, Failed(s, FALSE)) /\ Failed(s, FALSE) \in Syncs
       /\ Failed(s, FALSE).upload = NoUpload /\ ~Failed(s, FALSE).retry
  BY <1>1, ModestTwice, FailedModest, FailedMoves
<1> SUFFICES Truth(t, p \o t.sent, r, m.hash, avatar, file, dn)
  OBVIOUS
<1> HIDE DEF m, r, t
<1>11. ~Reports(t) /\ (Silent(r) /\ Clears(t) => avatar = NoContent)
  BY <1>10, <1>4, <1>6, <1>7, <1>8, <1>9 DEF Reports, Clears
<1>12. t \in Syncs /\ Modest(s, t) /\ Picks(s)
  BY <1>1, <1>6, <1>10 DEF Truth
<1> QED BY <1>1, <1>3, <1>5, <1>11, <1>12, NoticedTruth

\* Half an answer, with the other half next.
LEMMA InformedTruth ==
    ASSUME NEW s, NEW p, NEW back, NEW live, NEW rdy, NEW hash, NEW avatar, NEW file, NEW dn,
           Holding(s, p, back, live, rdy, dn), back # << >>, Head(back).kind = "info",
           Truth(s, p \o s.sent, back, hash, avatar, file, dn)
    PROVE  LET t == Informed(s, Head(back).hash) IN
           Truth(t, p \o t.sent, Tail(back), hash, avatar, file, dn)
<1> DEFINE m == Head(back)
           r == Tail(back)
           x == m.hash
<1>1. s \in Syncs /\ back \in Seq(AvatarMessage)
  BY DEF Holding, World
<1>2. 1 \in DOMAIN back /\ m = back[1] /\ m \in AvatarMessage
  BY <1>1, Tailed
<1>3. 1 \notin Replies(back, {"info"}) /\ m.kind # "book"
  BY <1>2 DEF Replies
<1>4. Truth(s, p \o s.sent, r, hash, avatar, file, dn)
  BY <1>1, <1>3, TakenTruth
<1>5. 2 \in Replies(back, {"info"}) /\ (Silent(back) => x = avatar)
  BY <1>2 DEF Truth, Follows, Silent
<1>6. 1 \in Replies(r, {"info"})
  BY <1>1, <1>5, RestReplies
<1>7. Silent(r) => x = avatar
  BY <1>1, <1>3, <1>5, SilentTail
<1>8. x \in Contents
  BY <1>2 DEF AvatarMessage
<1>9. s.query.result = "none"
  BY <1>5 DEF Truth, Asks
<1> SUFFICES LET t == Informed(s, x) IN Truth(t, p \o t.sent, r, hash, avatar, file, dn)
  OBVIOUS
<1> HIDE DEF m, r, x
<1>10. CASE s.query = NoQuery
  BY <1>4, <1>10 DEF Informed
<1>11. CASE s.query # NoQuery
  <2> DEFINE q == [s.query EXCEPT !.hash = x, !.answered = TRUE]
             t == [s EXCEPT !.query = q]
  <2>1. s.query \in Queries
    BY <1>1 DEF Syncs
  <2>2. q \in Queries /\ q.token = s.query.token /\ q.answered /\ q.hash = x
        /\ q.result = "none" /\ q # NoQuery
    BY <1>8, <1>9, <2>1, Nothings DEF Queries
  <2>3. [s EXCEPT !.query.hash = x, !.query.answered = TRUE] = t
    BY <1>1, <2>1 DEF Syncs, Queries
  <2>4. Informed(s, x) = FinishQuery(t)
    BY <1>11, <2>3 DEF Informed
  <2> HIDE DEF q
  <2>5. t \in Syncs /\ t.query = q /\ Else(t, s, {"query"})
    BY <1>1, <2>2, QueryingMoves
  <2> HIDE DEF t
  <2>6. FinishQuery(t) = t
    BY <2>2, <2>5 DEF FinishQuery
  <2>7. /\ t.queryTimedOut = s.queryTimedOut /\ t.sent = s.sent
        /\ t.upload = s.upload /\ t.draining = s.draining /\ t.stage = s.stage
        /\ t.retry = s.retry /\ t.pending = s.pending /\ t.choices = s.choices
        /\ t.clear = s.clear
    BY <2>5 DEF Else, Fields
  <2>8. Asks(t, p \o t.sent, r)
    BY <1>4, <1>11, <2>2, <2>5, <2>7 DEF Truth, Asks
  <2>9. Hears(t, r, avatar)
    BY <1>6, <1>7, <2>2, <2>5 DEF Hears
  <2>10. Claims(t, r, avatar, file, dn) /\ Picks(t)
    BY <1>4, <2>7 DEF Truth, Claims, Reports, Clears, Picks
  <2> QED BY <1>4, <2>4, <2>6, <2>8, <2>9, <2>10 DEF Truth
<1> QED BY <1>10, <1>11

\* The query is over: it has told what the server has, or nothing.
LEMMA FinishQueryTruth ==
    ASSUME NEW s0, NEW p, NEW back, NEW live, NEW rdy, NEW hash, NEW avatar, NEW file, NEW dn,
           Holding(s0, p, back, live, rdy, dn),
           ~(s0.query.result = "none" \/ (s0.query.result = "ok" /\ ~s0.query.answered)),
           s0.query.answered /\ Silent(back) => s0.query.hash = avatar,
           LET s == [s0 EXCEPT !.query = NoQuery] IN
           Truth(s, p \o s.sent, back, hash, avatar, file, dn)
    PROVE  LET t == FinishQuery(s0) IN Truth(t, p \o t.sent, back, hash, avatar, file, dn)
<1> DEFINE q == s0.query
           s == [s0 EXCEPT !.query = NoQuery]
<1>1. s0 \in Syncs /\ Local(s0) /\ p \in Seq(AvatarCommand)
  BY DEF Holding, World
<1>2. s \in Syncs /\ s.query = NoQuery /\ Else(s, s0, {"query"})
  BY <1>1, Nothings, QueryingMoves
<1>3. FinishQuery(s0) =
        IF s.stage = "clear_hash" /\ s.deleting = q.token
        THEN IF q.result = "ok" /\ q.hash = NoContent THEN ClearConfirmed(s)
                                                      ELSE Failed(s, FALSE)
        ELSE IF q.token # s.token \/ s.stage # "hash" \/ s.upload = NoUpload THEN s
        ELSE IF q.result = "ok" /\ q.hash = s.upload.content THEN Verify(s)
        ELSE Failed(s, FALSE)
  BY DEF FinishQuery
<1>4. Truth(s, p \o s.sent, back, hash, avatar, file, dn)
  OBVIOUS
<1>5. q.token > 0
  BY <1>1, Nothings DEF Local, Known
<1>6. q.result = "ok" /\ Silent(back) => q.hash = avatar
  OBVIOUS
<1> HIDE DEF s, q
<1>7. Holding(s, p, back, live, rdy, dn) /\ Local(s)
  BY <1>2, PlainHolds DEF Else, Holding, World
<1>8. LET t == Failed(s, FALSE) IN Truth(t, p \o t.sent, back, hash, avatar, file, dn)
  BY <1>2, FailedMoves, FailedModest, <1>1, <1>4, ModestStays
<1>9. CASE s.stage = "clear_hash" /\ s.deleting = q.token
  <2>1. CASE q.result = "ok" /\ q.hash = NoContent
    BY <1>6, <2>1, <1>5, <1>9, <1>2, <1>4, <1>7, ConfirmedTruth, <1>3
  <2> QED BY <1>3, <1>8, <1>9, <2>1
<1>10. CASE ~(s.stage = "clear_hash" /\ s.deleting = q.token) /\ s.upload # NoUpload
  BY <1>4, <1>6, <1>7, <1>10, VerifyTruth, <1>3, <1>8
<1>11. CASE ~(s.stage = "clear_hash" /\ s.deleting = q.token) /\ s.upload = NoUpload
  BY <1>3, <1>4, <1>11
<1> QED BY <1>9, <1>10, <1>11

LEMMA InfoEndedTruth ==
    ASSUME NEW s, NEW p, NEW back, NEW live, NEW rdy, NEW hash, NEW avatar, NEW file, NEW dn,
           Holding(s, p, back, live, rdy, dn), back # << >>,
           Head(back).kind = "reply", Head(back).op = "info",
           Truth(s, p \o s.sent, back, hash, avatar, file, dn)
    PROVE  LET t == InfoEnded(s, Head(back).token, Head(back).result) IN
           Truth(t, p \o t.sent, Tail(back), hash, avatar, file, dn)
<1> DEFINE m == Head(back)
           r == Tail(back)
           x == m.result
           n == m.token
           out == p \o s.sent
<1>1. s \in Syncs /\ back \in Seq(AvatarMessage) /\ p \in Seq(AvatarCommand)
      /\ Holding(s, p, r, live, rdy, dn)
  BY TakenHolds DEF Holding, World
<1>2. 1 \in DOMAIN back /\ m = back[1] /\ m \in AvatarMessage
  BY <1>1, Tailed
<1>3. 1 \in Replies(back, {"info"}) /\ x \in {"ok", "no"} /\ n = back[1].token
  BY <1>2 DEF Replies, AvatarMessage
<1>4. At(out, {"info"}) = {} /\ s.query.result = "none"
  BY <1>3 DEF Truth, Asks
<1>5. Replies(r, {"info"}) = {}
  BY <1>1, RestReplies, <1>3, Tailed DEF Truth, Asks, Replies
<1>6. Silent(r) => Silent(back)
  BY <1>1, SilentTail
<1>7. Follows(r, hash, avatar)
  <2>1. Silent(r) => hash = avatar
    BY <1>6 DEF Truth, Follows
  <2> QED BY <1>1, <2>1, FollowsTail DEF Truth
<1>8. Asks(s, out, r)
  BY <1>1, AsksTail DEF Truth
<1>9. s.query.answered /\ Silent(r) => s.query.hash = avatar
  BY <1>6 DEF Truth, Hears
<1>10. Claims(s, r, avatar, file, dn) /\ Picks(s)
  BY <1>6 DEF Truth, Claims
<1> SUFFICES LET t == InfoEnded(s, n, x) IN Truth(t, p \o t.sent, r, hash, avatar, file, dn)
  OBVIOUS
<1>11. s.query # NoQuery => s.query.token = n /\ ~s.queryTimedOut
  BY <1>3 DEF Truth, Asks
<1> HIDE DEF m, r, x, n
<1>12. CASE s.query = NoQuery
  BY <1>12, Nothings, <1>4, <1>7, <1>8, <1>10 DEF InfoEnded, FinishQuery, Hears, Truth
<1>13. CASE s.query # NoQuery
  <2> DEFINE q == [s.query EXCEPT !.result = x]
             t == [s EXCEPT !.query = q]
             u == [t EXCEPT !.query = NoQuery]
  <2>1. s.query \in Queries
    BY <1>1 DEF Syncs
  <2>2. q \in Queries /\ q.token = s.query.token /\ q.result = x
        /\ q.answered = s.query.answered /\ q.hash = s.query.hash /\ q # NoQuery
    BY <1>3, <2>1, Nothings DEF Queries
  <2>3. [s EXCEPT !.query.result = x] = t
    BY <1>1, <2>1 DEF Syncs, Queries
  <2>4. InfoEnded(s, n, x) = FinishQuery(t)
    BY <1>11, <1>13, <2>3 DEF InfoEnded
  <2>5. s.query.token > 0
    BY <1>1, <1>13 DEF Holding, World, Local, Known
  <2> HIDE DEF q
  <2>6. t \in Syncs /\ t.query = q /\ Else(t, s, {"query"})
    BY <1>1, <2>2, QueryingMoves
  <2> HIDE DEF t
  <2>7. u \in Syncs /\ u.query = NoQuery /\ Else(u, t, {"query"})
    BY <2>6, Nothings, QueryingMoves
  <2>8. Else(t, s, {"query", "queryTimedOut"})
    BY <2>6 DEF Else
  <2>9. Holding(t, p, r, live, rdy, dn)
    BY <1>1, <2>2, <2>5, <2>6, <2>8, PlainHolds
  <2>10. \A v \in {t, u} :
           /\ v.queryTimedOut = s.queryTimedOut /\ v.sent = s.sent
           /\ v.upload = s.upload /\ v.draining = s.draining /\ v.stage = s.stage
           /\ v.retry = s.retry /\ v.pending = s.pending /\ v.choices = s.choices
           /\ v.clear = s.clear
    BY <2>6, <2>7 DEF Else, Fields
  <2> HIDE DEF u
  <2>11. \A v \in {t, u} : Claims(v, r, avatar, file, dn) /\ Picks(v)
    BY <1>10, <2>10 DEF Claims, Reports, Clears, Picks
  <2>12. \A v \in {t, u} : Asks(v, p \o v.sent, r)
    BY <1>4, <1>5, <1>8, <1>11, <1>13, <2>2, <2>6, <2>7, <2>10 DEF Asks
  <2>13. Truth(u, p \o u.sent, r, hash, avatar, file, dn)
    BY <1>7, <2>7, <2>11, <2>12, Nothings DEF Truth, Hears
  <2>14. CASE t.query.result = "ok" /\ ~t.query.answered
    BY <2>14, <1>7, <2>4, <2>11, <2>12 DEF FinishQuery, Hears, Truth
  <2>15. CASE ~(t.query.result = "ok" /\ ~t.query.answered)
    BY <1>3, <1>9, <2>2, <2>6, <2>9, <2>13, <2>15, FinishQueryTruth, <2>4 DEF u
  <2> QED BY <2>14, <2>15
<1> QED BY <1>12, <1>13

LEMMA TakeTruth ==
    ASSUME NEW s, NEW p, NEW back, NEW live, NEW rdy, NEW hash, NEW avatar, NEW file, NEW dn,
           Holding(s, p, back, live, rdy, dn), back # << >>, Head(back).kind # "refused",
           Truth(s, p \o s.sent, back, hash, avatar, file, dn)
    PROVE  LET t == Take(s, Head(back))
               next == IF Head(back).kind = "book" THEN Head(back).hash ELSE hash IN
           Truth(t, p \o t.sent, Tail(back), next, avatar, file, dn)
<1> DEFINE m == Head(back)
           r == Tail(back)
           t == Take(s, m)
<1>1. s \in Syncs /\ p \in Seq(AvatarCommand) /\ Local(s) /\ back \in Seq(AvatarMessage)
      /\ Given(s, p \o s.sent, back, live, rdy, dn)
  BY DEF Holding, World
<1>2. 1 \in DOMAIN back /\ m = back[1] /\ m \in AvatarMessage
  BY <1>1, Tailed
<1>3. Holding(t, p, r, live, rdy, dn) /\ t \in Syncs
  BY TakeHolds DEF Holding
<1>4. CASE m.kind = "book"
  BY <1>4, HashChangedTruth DEF Take
<1>5. CASE m.kind = "info"
  BY <1>5, InformedTruth DEF Take
<1>6. CASE m.kind = "reply" /\ m.op = "info"
  BY <1>6, InfoEndedTruth DEF Take, Answer
<1>7. ASSUME m.kind \notin {"book", "info"}, ~(m.kind = "reply" /\ m.op = "info")
      PROVE  Modest(s, t)
  BY <1>1, <1>2, ListedModest, <1>7, UpdatedModest, ListEndedModest, TransferStoppedModest,
     DeletedModest DEF Given, AvatarMessage, Take, Answer
<1>8. CASE m.kind \notin {"book", "info"} /\ ~(m.kind = "reply" /\ m.op = "info")
  BY <1>2, <1>8, <1>1, TakenTruth, <1>7, <1>3, ModestStays DEF Replies, m, r, t
<1> QED BY <1>4, <1>5, <1>6, <1>8

-----------------------------------------------------------------------------
(* A step of the session keeps the truth                                   *)

\* A new wish reports nothing.
LEMMA ObservedMoves ==
    ASSUME NEW s, NEW p, NEW back, NEW live, NEW rdy, NEW dn,
           Holding(s, p, back, live, rdy, dn), store.revision \in Nat
    PROVE  /\ Modest(s, Observe(s))
           /\ Idle(s) => Idle(Observe(s))
<1>1. s \in Syncs /\ World(s, p \o s.sent, back, live, rdy, dn)
  BY DEF Holding
<1>2. CASE s.revision = store.revision
  BY <1>2, ModestTwice DEF Observe
<1>3. CASE s.revision # store.revision
  <2> DEFINE r == [s EXCEPT !.revision = store.revision]
             t == Changed(r)
  <2>1. r \in Syncs /\ Else(r, s, {"revision"})
    BY <1>1, RevisedMoves
  <2>2. Observe(s) = t
    BY <1>3 DEF Observe
  <2> HIDE DEF r
  <2>3. Else(r, s, {"revision", "clear", "missing", "choices", "query", "queryTimedOut", "sent"})
        /\ r.query = s.query /\ r.queryTimedOut = s.queryTimedOut /\ r.sent = s.sent
        /\ r.upload = s.upload /\ r.deleting = s.deleting /\ r.previous = s.previous
        /\ r.draining = s.draining /\ r.blocked = s.blocked /\ r.deadline = s.deadline
        /\ r.worker = s.worker
    BY <2>1 DEF Else, Fields
  <2>4. Local(r)
    BY <1>1, <2>1, <2>3, PlainWorld DEF World
  <2>5. /\ t \in Syncs /\ t.choices = 0 /\ t.retry /\ t.pending = ~r.blocked
        /\ Holds(r) => t.draining /\ IF r.stage \in Answered THEN t.stage = r.stage
                                                            ELSE t.stage = "drain"
        /\ ~Holds(r) => /\ t.upload = NoUpload /\ t.deleting = 0 /\ t.stage = "load"
                        /\ t.previous = NoTransfer /\ ~t.draining /\ t.worker = "none"
                        /\ ~t.deadline
        /\ Else(t, r, {"token", "pending", "retry", "choices", "clear", "next", "draining",
                       "upload", "previous", "deleting", "stage", "deadline", "worker"})
    BY <2>1, <2>4, ChangedMoves
  <2> HIDE DEF t
  <2>6. t.query = s.query /\ t.queryTimedOut = s.queryTimedOut /\ t.sent = s.sent
        /\ t.blocked = s.blocked
    BY <2>3, <2>5 DEF Else, Fields
  <2>7. ~Reports(t) /\ ~Clears(t) /\ Picks(t)
    BY <2>5 DEF Reports, Clears, Picks, Answered
  <2>8. Modest(s, t)
    BY <2>6, <2>7, SilentModest
  <2>9. Idle(s) => Idle(t)
    BY <2>3, <2>5, <2>6 DEF Idle, Holds, Mutating, Syncs
  <2> QED BY <2>2, <2>8, <2>9
<1> QED BY <1>2, <1>3

\* What is true after the step of the session.
Telling(back, hash, dn) == Truth(sync', toServer', back, hash, server.avatar, server.file, dn)

LEMMA CommandedTells ==
    ASSUME NEW s \in Syncs, NEW back, NEW hash, NEW dn, Commanded(s),
           Truth(s, toServer \o s.sent, back, hash, server.avatar, server.file, dn)
    PROVE  Telling(back, hash, dn)
<1> DEFINE t == [s EXCEPT !.sent = << >>]
<1>1. << >> \in Seq(AvatarCommand)
  OBVIOUS
<1>2. t \in Syncs /\ Else(t, s, {"sent"})
  BY <1>1, HandedMoves
<1>3. sync' = t /\ toServer' = toServer \o s.sent
  BY DEF Commanded
<1> HIDE DEF t
<1>4. /\ t.query = s.query /\ t.queryTimedOut = s.queryTimedOut
      /\ t.upload = s.upload /\ t.draining = s.draining /\ t.stage = s.stage
      /\ t.retry = s.retry /\ t.pending = s.pending /\ t.choices = s.choices
      /\ t.clear = s.clear
  BY <1>2 DEF Else, Fields
<1> DEFINE out == toServer \o s.sent
<1>5. Truth(s, out, back, hash, server.avatar, server.file, dn)
  OBVIOUS
<1> HIDE DEF out
<1>6. Asks(t, out, back) /\ Hears(t, back, server.avatar)
      /\ Claims(t, back, server.avatar, server.file, dn) /\ Picks(t)
  BY <1>4, <1>5 DEF Truth, Asks, Hears, Claims, Reports, Clears, Picks
<1>7. Truth(t, out, back, hash, server.avatar, server.file, dn)
  BY <1>5, <1>6 DEF Truth
<1> QED BY <1>3, <1>7 DEF Telling, out

LEMMA EndsTells ==
    ASSUME NEW s, NEW back, NEW live, NEW rdy, NEW hash, NEW dn, link.subscribed,
           Holding(s, toServer, back, live, rdy, dn), Ends(s, hash),
           Truth(s, toServer \o s.sent, back, hash, server.avatar, server.file, dn)
    PROVE  Telling(back, hash, dn)
  BY CheckHolds, CheckTruth, CommandedTells DEF Holding, Ends

LEMMA ObservedTruth ==
    ASSUME AvatarInv, TruthInv, link.subscribed
    PROVE  LET s == Observe(sync) IN
           /\ Holding(s, toServer, toClient, server.live, ready, done)
           /\ s \in Syncs /\ toServer \in Seq(AvatarCommand)
           /\ Truth(s, toServer \o s.sent, toClient, link.hash, server.avatar, server.file, done)
<1> DEFINE s == Observe(sync)
<1>1. Holding(sync, toServer, toClient, server.live, ready, done) /\ store.revision \in Nat
      /\ sync \in Syncs /\ toServer \in Seq(AvatarCommand) /\ sync.sent = << >>
  BY Began DEF Holding, AvatarInv, AvatarTypes
<1>2. Holding(s, toServer, toClient, server.live, ready, done) /\ s \in Syncs
      /\ Modest(sync, s)
  BY <1>1, ObserveHolds, ObservedMoves DEF Holding
<1>3. toServer \o << >> = toServer
  BY <1>1
<1>4. Truth(sync, toServer \o sync.sent, toClient, link.hash, server.avatar, server.file, done)
  BY <1>1, <1>3 DEF TruthInv
<1> HIDE DEF s
<1>5. Truth(s, toServer \o s.sent, toClient, link.hash, server.avatar, server.file, done)
  BY <1>1, <1>2, <1>4, ModestStays
<1> QED BY <1>1, <1>2, <1>5 DEF s

\* Without a connection a wish is seen, and nothing more.
LEMMA IdleKeepsTruth ==
    ASSUME AvatarInv, TruthInv, ~link.subscribed, Commanded(Observe(sync)),
           UNCHANGED <<link, toClient, ready, server>>
    PROVE  TruthInv'
  BY Began, ObservedMoves, ObserveMoves, HandedMoves DEF AvatarInv, AvatarTypes, TruthInv,
     Commanded, Idle, Else, Fields

LEMMA FailureTells ==
    ASSUME NEW s, NEW h \in Nat, NEW why, NEW back, NEW live, NEW rdy, NEW dn,
           link.subscribed, Holding(s, toServer, back, live, rdy, dn),
           FailureTaken(s, h, why), why = "size" => Gone(h, toServer \o s.sent, live),
           Truth(s, toServer \o s.sent, back, link.hash, server.avatar, server.file, dn)
    PROVE  Telling(back, link.hash, dn)
  BY TransferFailedHolds, TransferFailedModest, ModestStays, EndsTells, CommandedTells DEF
     Holding, Owns, FailureTaken

LEMMA TakeMessageKeepsTruth ==
    ASSUME AvatarInv, TruthInv, TakeMessage
    PROVE  TruthInv'
<1> DEFINE s == Observe(sync)
           m == Head(toClient)
           r == Tail(toClient)
           hash == IF m.kind = "book" THEN m.hash ELSE link.hash
<1>1. link.subscribed
  BY DEF TruthInv, TakeMessage
<1>2. /\ Holding(s, toServer, toClient, server.live, ready, done)
      /\ s \in Syncs /\ toServer \in Seq(AvatarCommand)
      /\ Truth(s, toServer \o s.sent, toClient, link.hash, server.avatar, server.file, done)
  BY <1>1, ObservedTruth
<1>3. m \in AvatarMessage /\ toClient # << >> /\ toClient \in Seq(AvatarMessage)
      /\ 1 \in DOMAIN toClient /\ m = toClient[1]
  BY Tailed DEF AvatarInv, World, TakeMessage
<1>4. link' = [link EXCEPT !.hash = hash] /\ toClient' = r
      /\ UNCHANGED <<server, done>>
  BY DEF TakeMessage, Rest
<1>5. link'.subscribed /\ link'.hash = hash
  BY <1>1, <1>4 DEF AvatarInv, AvatarTypes
<1>6. CASE m.kind = "refused"
  <2>1. Holding(s, toServer, r, server.live, ready, done)
    BY <1>2, <1>3, <1>6, TakenHolds
  <2>2. m.handle \in Nat
    BY <1>3, <1>6 DEF AvatarMessage
  <2>3. m.why = "size" => Gone(m.handle, toServer \o s.sent, server.live)
    BY <1>2, <1>3, <1>6 DEF Holding, World, HasEnded
  <2>4. FailureTaken(s, m.handle, m.why)
    BY <1>6 DEF TakeMessage
  <2>5. 1 \notin Replies(toClient, {"info"}) /\ hash = link.hash /\ m.kind # "book"
    BY <1>3, <1>6 DEF Replies
  <2>6. Truth(s, toServer \o s.sent, r, link.hash, server.avatar, server.file, done)
    BY <1>2, <1>3, <2>5, TakenTruth
  <2> HIDE DEF s, m, r, hash
  <2>7. Telling(r, link.hash, done)
    BY <1>1, <2>1, <2>2, <2>3, <2>4, <2>6, FailureTells
  <2> QED BY <1>4, <1>5, <2>5, <2>7 DEF Telling, TruthInv
<1>7. CASE m.kind # "refused"
  BY <1>2, <1>3, <1>7, TakeHolds, TakeTruth, <1>1, EndsTells, <1>4, <1>5 DEF TakeMessage,
     Telling, TruthInv
<1> QED BY <1>6, <1>7

LEMMA TakeTransferKeepsTruth ==
    ASSUME AvatarInv, TruthInv, NEW t \in ready, TakeTransfer(t)
    PROVE  TruthInv'
<1> DEFINE s == Observe(sync)
           fed == Fed(server.live, t.handle,
                      UploadConnected(s, t.handle).stage = "write" /\ s.stage = "connect")
<1>1. link.subscribed
  BY DEF TruthInv
<1>2. /\ Holding(s, toServer, toClient, server.live, ready, done)
      /\ s \in Syncs /\ toServer \in Seq(AvatarCommand)
      /\ Truth(s, toServer \o s.sent, toClient, link.hash, server.avatar, server.file, done)
  BY <1>1, ObservedTruth
<1>3. t \in [way : {"up", "down"}, handle : Nat] /\ t.handle > 0
  BY <1>2 DEF AvatarInv, World, Given
<1>4. UNCHANGED <<link, toClient, done>>
  BY DEF TakeTransfer
<1>5. server' = server \/ server' = [server EXCEPT !.live = fed]
  BY DEF TakeTransfer, Fed
<1>6. server'.avatar = server.avatar /\ server'.file = server.file
  BY <1>5 DEF AvatarInv, AvatarTypes
<1>7. CASE t.way = "up" /\ Ends(UploadConnected(s, t.handle), link.hash)
  BY <1>2, <1>7, UploadConnectedHolds, UploadConnectedModest, ModestStays, <1>1, EndsTells,
     <1>4, <1>6 DEF Holding, Telling, TruthInv
<1>8. CASE \E fits \in BOOLEAN :
             /\ s.upload.download = t.handle /\ s.stage = "download"
             /\ Ends(DownloadConnected(s, fits), link.hash)
  <2>1. PICK fits \in BOOLEAN : Ends(DownloadConnected(s, fits), link.hash)
    BY <1>8
  <2> DEFINE r == DownloadConnected(s, fits)
  <2>2. s.upload # NoUpload
    BY <1>3, <1>8, Nothings
  <2>3. Holding(r, toServer, toClient, server.live, ready, done) /\ r \in Syncs
        /\ Modest(s, r)
    BY <1>2, <1>8, <2>2, DownloadConnectedHolds, DownloadConnectedModest DEF Holding
  <2>4. Ends(r, link.hash)
    BY <2>1
  <2> HIDE DEF s, r
  <2>5. Truth(r, toServer \o r.sent, toClient, link.hash, server.avatar, server.file, done)
    BY <1>2, <2>3, ModestStays
  <2>6. Telling(toClient, link.hash, done)
    BY <1>1, <2>3, <2>4, <2>5, EndsTells
  <2> QED BY <1>1, <1>4, <1>6, <2>6 DEF Telling, TruthInv
<1>9. CASE Commanded(s)
  BY <1>2, <1>9, CommandedTells, <1>1, <1>4, <1>6 DEF Telling, TruthInv
<1>10. CASE FailureTaken(s, t.handle, "other")
  BY <1>3, <1>1, <1>2, <1>10, FailureTells, <1>4, <1>6 DEF Telling, TruthInv
<1>11. \A fits \in {server.file = s.upload.content, TRUE} : fits \in BOOLEAN
  OBVIOUS
<1> QED BY <1>7, <1>8, <1>9, <1>10, <1>11 DEF TakeTransfer

\* Results of tasks that have been given up change nothing.
LEMMA StaleCompletion ==
    ASSUME NEW s \in Syncs, Idle(s), NEW c \in AvatarResult, c.kind # "load" => c.handle > 0
    PROVE  Completed(s, c) = s
<1>1. s.worker = "none" /\ s.upload.handle = 0 /\ s.upload.download = 0
  BY Nothings DEF Idle
<1>2. CASE c.kind = "load"
  BY <1>1, <1>2 DEF Completed, Loaded
<1>3. CASE c.kind = "write"
  <2>1. Completed(s, c) = Written(s, c.token, c.handle, c.result)
    BY <1>3 DEF Completed
  <2>2. s.upload.handle # c.handle
    BY <1>1, <1>3
  <2> QED BY <2>1, <2>2 DEF Written
<1>4. CASE c.kind = "verify"
  <2>1. Completed(s, c) = Verified(s, c.token, c.handle, c.result)
    BY <1>4 DEF Completed
  <2>2. s.upload.download # c.handle
    BY <1>1, <1>4
  <2> QED BY <2>1, <2>2 DEF Verified
<1> QED BY <1>2, <1>3, <1>4 DEF AvatarResult

LEMMA TakeCompletionKeepsTruth ==
    ASSUME AvatarInv, TruthInv, TakeCompletion
    PROVE  TruthInv'
<1> DEFINE s == Observe(sync)
           c == Head(done)
           t == Completed(s, c)
<1>1. done # << >> /\ Ends(t, link.hash) /\ done' = Tail(done)
      /\ UNCHANGED <<link, toClient, ready, server>>
  BY DEF TakeCompletion, Rest
<1>2. CASE link.subscribed
  BY <1>2, ObservedTruth, <1>1, CompletedHolds, CompletedTruth, EndsTells DEF Telling,
     TruthInv
<1>3. CASE ~link.subscribed
  <2>1. Holding(sync, toServer, toClient, server.live, ready, done) /\ store.revision \in Nat
    BY Began
  <2>2. Holding(s, toServer, toClient, server.live, ready, done) /\ s \in Syncs /\ Idle(s)
    BY <1>3, <2>1, ObserveHolds, ObservedMoves DEF Holding, TruthInv
  <2>3. c \in AvatarResult /\ 1 \in DOMAIN done /\ c = done[1]
    BY <1>1, Tailed DEF AvatarInv, World
  <2>4. c.kind # "load" => c.handle > 0
    BY <2>2, <2>3 DEF Holding, World, Given
  <2>5. t = s
    BY <2>2, <2>3, <2>4, StaleCompletion
  <2>6. Commanded(s)
    BY <1>1, <1>3, <2>5 DEF Ends
  <2> QED BY <1>1, <1>3, <2>6, IdleKeepsTruth
<1> QED BY <1>2, <1>3

LEMMA TakeAvatarChangedKeepsTruth ==
    ASSUME AvatarInv, TruthInv, TakeAvatarChanged
    PROVE  TruthInv'
  BY ObservedTruth, EndsTells, IdleKeepsTruth DEF TakeAvatarChanged, Rest, Telling, TruthInv,
     Ends

\* A query that is given up is not asked again before its answer.
LEMMA TimedOutTruth ==
    ASSUME NEW s \in Syncs, NEW p \in Seq(AvatarCommand), NEW back, NEW hash, NEW avatar, NEW file,
           NEW dn, Truth(s, p \o s.sent, back, hash, avatar, file, dn)
    PROVE  LET t == [s EXCEPT !.query = NoQuery, !.queryTimedOut = TRUE] IN
           Truth(t, p \o t.sent, back, hash, avatar, file, dn)
<1> DEFINE t == [s EXCEPT !.query = NoQuery, !.queryTimedOut = TRUE]
<1>1. t.query = NoQuery /\ t.queryTimedOut /\ Else(t, s, {"query", "queryTimedOut"})
  BY Nothings, QueryMoves
<1> HIDE DEF t
<1>2. /\ t.sent = s.sent
      /\ t.upload = s.upload /\ t.draining = s.draining /\ t.stage = s.stage
      /\ t.retry = s.retry /\ t.pending = s.pending /\ t.choices = s.choices
      /\ t.clear = s.clear
  BY <1>1 DEF Else, Fields
<1>3. Asks(t, p \o t.sent, back)
  BY <1>1, <1>2, Nothings DEF Truth, Asks
<1>4. Hears(t, back, avatar)
  BY <1>1, Nothings DEF Hears
<1>5. Claims(t, back, avatar, file, dn) /\ Picks(t)
  BY <1>2 DEF Truth, Claims, Reports, Clears, Picks
<1> QED BY <1>3, <1>4, <1>5 DEF Truth, t

LEMMA ExpireKeepsTruth ==
    ASSUME AvatarInv, TruthInv, Expire
    PROVE  TruthInv'
<1> DEFINE due == (IF sync.query # NoQuery THEN {"query"} ELSE {})
                  \cup (IF sync.deadline THEN {"stage"} ELSE {})
           s == Observe(sync)
           Asked(late) == IF "query" \in late
                          THEN [s EXCEPT !.query = NoQuery, !.queryTimedOut = TRUE] ELSE s
<1>1. PICK late \in (SUBSET due) \ {{}} :
         Ends(IF "stage" \in late /\ s.deadline /\ s.stage = sync.stage
              THEN Failed(Asked(late), TRUE) ELSE Asked(late), link.hash)
  BY DEF Expire
<1>2. link.subscribed
  BY <1>1 DEF TruthInv, Idle
<1>3. /\ Holding(s, toServer, toClient, server.live, ready, done)
      /\ s \in Syncs /\ toServer \in Seq(AvatarCommand)
      /\ Truth(s, toServer \o s.sent, toClient, link.hash, server.avatar, server.file, done)
  BY <1>2, ObservedTruth
<1> DEFINE t == Asked(late)
<1>4. /\ Holding(t, toServer, toClient, server.live, ready, done) /\ t.deadline = s.deadline
      /\ Truth(t, toServer \o t.sent, toClient, link.hash, server.avatar, server.file, done)
  <2>1. CASE "query" \in late
    <3> DEFINE q == [s EXCEPT !.query = NoQuery, !.queryTimedOut = TRUE]
    <3>1. q \in Syncs /\ q.query = NoQuery /\ Else(q, s, {"query", "queryTimedOut"})
      BY <1>3, Nothings, QueryMoves
    <3>2. t = q
      BY <2>1
    <3> HIDE DEF s
    <3>3. Truth(q, toServer \o q.sent, toClient, link.hash, server.avatar, server.file, done)
      BY <1>3, TimedOutTruth
    <3> HIDE DEF q, t
    <3>4. Holding(q, toServer, toClient, server.live, ready, done)
      BY <1>3, <3>1, PlainHolds
    <3>5. q.deadline = s.deadline
      BY <3>1 DEF Else, Fields
    <3> QED BY <3>2, <3>3, <3>4, <3>5
  <2>2. CASE "query" \notin late
    BY <1>3, <2>2
  <2> QED BY <2>1, <2>2
<1>5. Ends(IF "stage" \in late /\ s.deadline /\ s.stage = sync.stage
           THEN Failed(t, TRUE) ELSE t, link.hash)
  BY <1>1
<1> HIDE DEF s, t
<1>6. s.deadline => Holding(Failed(t, TRUE), toServer, toClient, server.live, ready, done)
  BY <1>4, FailedHolds DEF Holding, World, Local, Underway, Unconfirmed
<1> DEFINE f == Failed(t, TRUE)
<1>7. Truth(f, toServer \o f.sent, toClient, link.hash, server.avatar, server.file, done)
  BY <1>4, FailedMoves, FailedModest, <1>3, ModestStays DEF Holding
<1>8. Telling(toClient, link.hash, done)
  BY <1>5, <1>6, <1>2, <1>7, EndsTells, <1>4
<1>9. UNCHANGED <<server, link, toClient, done>>
  BY DEF Expire
<1> QED BY <1>2, <1>8, <1>9 DEF Telling, TruthInv

-----------------------------------------------------------------------------
(* A connection ends, a session begins                                     *)

LEMMA InterruptedKeepsTruth ==
    ASSUME AvatarInv, TruthInv, Interrupted
    PROVE  TruthInv'
<1> DEFINE s == Observe(sync)
           t == Disconnected(s)
<1>1. s \in Syncs
  BY Began, ObserveMoves
<1>2. /\ toServer' = << >> /\ toClient' = << >> /\ ready' = {} /\ sync' = t
      /\ server' = [server EXCEPT !.live = {}]
      /\ link' = [link EXCEPT !.subscribed = FALSE]
  BY DEF Interrupted, Lose
<1>3. server'.live = {} /\ ~link'.subscribed
  BY <1>2 DEF AvatarInv, AvatarTypes
<1>4. Idle(t)
  <2> HIDE DEF s
  <2> DEFINE u == Stop(s)
  <2>1. u \in Syncs /\ u.worker = "none" /\ u.upload = NoUpload /\ ~u.deadline
    BY <1>1, StopMoves
  <2>2. t = [u EXCEPT !.token = u.token + 1, !.query = NoQuery, !.queryTimedOut = FALSE,
              !.deleting = 0, !.drainQuery = 0, !.drainId = 0, !.previous = NoTransfer,
              !.draining = FALSE, !.blocked = FALSE, !.clear = FALSE, !.choices = 0,
              !.pending = s.retry, !.next = 1]
    BY DEF Disconnected
  <2>3. u.retry = s.retry
    BY <1>1 DEF Stop, Syncs
  <2> HIDE DEF u
  <2>4. /\ t.query = NoQuery /\ ~t.queryTimedOut /\ t.deleting = 0 /\ t.previous = NoTransfer
        /\ ~t.draining /\ ~t.blocked /\ t.choices = 0 /\ t.pending = s.retry
        /\ t.retry = s.retry /\ t.worker = "none" /\ t.upload = NoUpload /\ ~t.deadline
    BY <2>1, <2>2, <2>3 DEF Syncs
  <2> QED BY <2>4 DEF Idle
<1> QED BY <1>2, <1>3, <1>4 DEF TruthInv

LEMMA EndSessionKeepsTruth ==
    ASSUME AvatarInv, TruthInv, EndSession
    PROVE  TruthInv'
<1> DEFINE f == Fresh(sync.token + 1, sync.handles)
           s == Observe(f)
<1>1. sync.token + 1 \in Nat /\ sync.token + 1 > 0 /\ sync.handles \in Nat
  BY DEF AvatarInv, AvatarTypes, Syncs
<1>2. f \in Syncs /\ f.sent = << >> /\ World(f, << >>, << >>, {}, {}, << >>)
  BY <1>1, FreshWorld
<1>3. Idle(f)
  BY DEF Fresh, Idle
<1> HIDE DEF f
<1>4. Holding(f, << >>, << >>, {}, {}, << >>)
  BY <1>2 DEF Holding
<1>5. Idle(s)
  BY <1>3, <1>4, Began, ObservedMoves
<1>6. /\ toServer' = << >> /\ toClient' = << >> /\ ready' = {} /\ sync' = s
      /\ server' = [server EXCEPT !.live = {}]
      /\ link' = [link EXCEPT !.subscribed = FALSE]
  BY DEF EndSession, Lose, f
<1>7. server'.live = {} /\ ~link'.subscribed
  BY <1>6 DEF AvatarInv, AvatarTypes
<1> QED BY <1>5, <1>6, <1>7 DEF TruthInv

LEMMA SubscribeKeepsTruth ==
    ASSUME AvatarInv, TruthInv, Subscribe
    PROVE  TruthInv'
<1> DEFINE s == Observe(sync)
           a == server.avatar
           t == Check(s, a)
<1>1. Holding(sync, toServer, toClient, server.live, ready, done) /\ store.revision \in Nat
      /\ sync.sent = << >>
  BY Began DEF AvatarInv, AvatarTypes
<1>2. Idle(sync) /\ toServer = << >> /\ toClient = << >>
  BY DEF TruthInv, Subscribe
<1>3. Holding(s, toServer, toClient, server.live, ready, done) /\ Idle(s) /\ s.sent = << >>
  BY <1>1, <1>2, ObserveHolds, ObservedMoves, ObserveMoves
<1>4. Holding(t, toServer, toClient, server.live, ready, done) /\ t \in Syncs
  BY <1>3, CheckHolds DEF Holding
<1>5. Commanded(t) /\ link' = [subscribed |-> TRUE, hash |-> a]
      /\ UNCHANGED <<server, toClient, done>>
  BY DEF Subscribe, Rest
<1> HIDE DEF s, a
<1>6. Truth(s, toServer \o s.sent, toClient, a, a, server.file, done)
  <2>1. << >> \o << >> = << >> /\ DOMAIN << >> = {}
    OBVIOUS
  <2>2. toServer \o s.sent = << >> /\ toClient = << >>
    BY <1>2, <1>3, <2>1
  <2>3. \A ops : At(<< >>, ops) = {} /\ Replies(<< >>, ops) = {}
    BY <2>1 DEF At, Replies
  <2>4. Follows(<< >>, a, a)
    BY <2>1 DEF Follows
  <2>5. Asks(s, << >>, << >>) /\ Hears(s, << >>, a)
    BY <1>3, <2>3, Nothings DEF Idle, Asks, Hears
  <2>6. Claims(s, << >>, a, server.file, done) /\ Picks(s)
    BY <1>3 DEF Idle, Claims, Reports, Clears, Picks
  <2> QED BY <2>2, <2>4, <2>5, <2>6 DEF Truth
<1>7. Truth(t, toServer \o t.sent, toClient, a, a, server.file, done)
  BY <1>3, <1>6, CheckTruth
<1> HIDE DEF t
<1>8. Telling(toClient, a, done)
  BY <1>4, <1>5, <1>7, CommandedTells DEF a
<1> QED BY <1>5, <1>8 DEF Telling, TruthInv

-----------------------------------------------------------------------------
(* Tasks and transfers end                                                 *)

\* A task ends; a result that says a file is the same was right when it was found.
LEMMA AlikeTruth ==
    ASSUME NEW s, NEW t, NEW out, NEW back, NEW hash, NEW avatar, NEW file, NEW dn,
           NEW now, NEW later, Else(t, s, Beside),
           Truth(s, out, back, hash, avatar, file, dn),
           Reports(s) => /\ now = file
                         /\ \A i \in DOMAIN later : later[i].kind = "verify" /\ later[i].result =>
                                \/ i \in DOMAIN dn /\ later[i] = dn[i]
                                \/ file = s.upload.content
    PROVE  Truth(t, out, back, hash, avatar, now, later)
  BY AsksLess DEF Else, Fields, Beside, Truth, Hears, Picks, Reports, Clears, Claims

\* The task that has ended is remembered by its result.
LEMMA EndedTask ==
    ASSUME AvatarInv
    PROVE  LET t == [sync EXCEPT !.worker = "ended"] IN Else(t, sync, Beside)
  BY IdleMoves DEF Workers, AvatarInv, AvatarTypes, Else, Beside

LEMMA TaskStepKeepsTruth ==
    ASSUME AvatarInv, TruthInv, TaskStep
    PROVE  TruthInv'
<1> DEFINE t == [sync EXCEPT !.worker = "ended"]
<1>1. sync' = t /\ UNCHANGED <<link, toServer, toClient, ready, server>>
  BY DEF TaskStep, Load, Compare
<1>2. link.subscribed
  BY DEF TaskStep, Load, Compare, TruthInv, Idle
<1>3. Else(t, sync, Beside)
  BY EndedTask
<1>4. Truth(sync, toServer, toClient, link.hash, server.avatar, server.file, done)
  BY <1>2 DEF TruthInv
<1>5. PICK c \in AvatarResult :
        /\ done' = Append(done, c)
        /\ c.kind = "verify" /\ c.result => server.file = sync.upload.content
  <2>1. sync \in Syncs /\ store.file \in References
    BY DEF AvatarInv, AvatarTypes, StoreTypeOK
  <2>2. CASE Load
    BY <2>2, <2>1 DEF Load, AvatarResult, Syncs
  <2>3. CASE Compare
    <3> DEFINE c == [kind |-> "verify", token |-> sync.upload.token,
                     handle |-> sync.upload.download,
                     result |-> server.file = sync.upload.content]
    <3>1. c \in AvatarResult /\ (c.result => server.file = sync.upload.content)
      BY <2>1 DEF AvatarResult, Syncs, Uploads
    <3>2. done' = Append(done, c)
      BY <2>3 DEF Compare
    <3> HIDE DEF c
    <3> QED BY <3>1, <3>2
  <2> QED BY <2>2, <2>3 DEF TaskStep
<1>6. \A i \in DOMAIN Append(done, c) :
         Append(done, c)[i] = c \/ (i \in DOMAIN done /\ Append(done, c)[i] = done[i])
  BY CompletionsMade DEF AvatarInv, World
<1> HIDE DEF t
<1>7. Truth(t, toServer, toClient, link.hash, server.avatar, server.file, Append(done, c))
  BY <1>3, <1>4, <1>5, <1>6, AlikeTruth
<1> QED BY <1>1, <1>2, <1>5, <1>7 DEF TruthInv

\* While a transfer may still act at the server nothing is reported.
LEMMA LiveIsSilent ==
    ASSUME AvatarInv, NEW x \in server.live
    PROVE  ~Reports(sync)
  BY DEF AvatarInv, World, Local, Waiting, Fit, Reports, Reporting, Uploaded

LEMMA ClosedTruth ==
    ASSUME AvatarInv, TruthInv, link.subscribed, NEW x \in server.live, NEW ok \in BOOLEAN,
           Closed(x.handle, ok), NEW now
    PROVE  Truth(sync', toServer, toClient, link.hash, server.avatar, now, done')
  BY EndedTask, LiveIsSilent, AlikeTruth DEF Closed, Else, TruthInv

-----------------------------------------------------------------------------
(* What the server says                                                    *)

\* Neither a notice nor an answer to clientinfo.
LEMMA ToldTruth ==
    ASSUME NEW s, NEW out, NEW back \in Seq(AvatarMessage), NEW m \in AvatarMessage,
           NEW hash, NEW avatar, NEW file, NEW dn,
           Truth(s, out, back, hash, avatar, file, dn),
           m.kind \notin {"book", "info"}, ~(m.kind = "reply" /\ m.op = "info")
    PROVE  Truth(s, out, Append(back, m), hash, avatar, file, dn)
  BY AppendedBack DEF Replies, Silent, Truth, Follows, Asks, Hears, Claims

\* A notice at n, after all that was on its way; the answer to its own comes later still.
News(back, w, n, next) ==
    /\ n \in DOMAIN w
    /\ \A i \in DOMAIN back : i \in DOMAIN w /\ w[i] = back[i] /\ i < n
    /\ \A i \in DOMAIN w : i \in DOMAIN back \/ i = n
                            \/ (w[i].kind = "reply" /\ w[i].op # "info")
    /\ w[n].kind = "book" /\ w[n].hash = next
    /\ next \in File => \E j \in Replies(w, {"sethash"}) : j > n

\* After a notice n of another avatar nothing of what was known counts any more.
LEMMA NewsTruth ==
    ASSUME NEW s, NEW out, NEW back, NEW w, NEW n, NEW next, News(back, w, n, next),
           NEW hash, NEW avatar, NEW file, NEW dn, NEW now,
           Truth(s, out, back, hash, avatar, file, dn)
    PROVE  Truth(s, out, w, hash, next, now, dn)
  BY DEF News, Replies, Silent, Truth, Follows, Asks, Hears, Claims

LEMMA Twice ==
    ASSUME NEW back \in Seq(AvatarMessage), NEW a \in AvatarMessage, NEW b \in AvatarMessage
    PROVE  LET w == back \o <<a, b>>
               n == Len(back) + 1 IN
           /\ w \in Seq(AvatarMessage) /\ n \in Nat /\ n \in DOMAIN w /\ n + 1 \in DOMAIN w
           /\ \A i \in DOMAIN back : i \in Nat /\ i \in DOMAIN w /\ w[i] = back[i] /\ i < n
           /\ \A i \in DOMAIN w : i \in DOMAIN back \/ i = n \/ i = n + 1
           /\ w[n] = a /\ w[n + 1] = b
  OBVIOUS

\* A command is taken off the wire.
LEMMA AsksServed ==
    ASSUME NEW s, NEW out \in Seq(AvatarCommand), out # << >>, NEW back, Asks(s, out, back)
    PROVE  /\ Asks(s, Tail(out), back)
           /\ Head(out).op = "info" =>
                /\ At(Tail(out), {"info"}) = {} /\ Replies(back, {"info"}) = {}
                /\ s.query.result = "none"
                /\ s.query = NoQuery => s.queryTimedOut
                /\ s.query # NoQuery => Head(out).token = s.query.token
  BY Tailed DEF At, Asks

\* The answer to clientinfo: the one query that waits for it will hear it.
LEMMA InfoTruth ==
    ASSUME NEW s, NEW out \in Seq(AvatarCommand), out # << >>, NEW back \in Seq(AvatarMessage),
           NEW hash, NEW avatar \in Contents, NEW file, NEW dn,
           Truth(s, out, back, hash, avatar, file, dn),
           Head(out) \in AvatarCommand, Head(out).op = "info"
    PROVE  LET told == <<[kind |-> "info", hash |-> avatar], Reply(Head(out), "ok")>> IN
           Truth(s, Tail(out), back \o told, hash, avatar, file, dn)
<1> DEFINE a == [kind |-> "info", hash |-> avatar]
           b == Reply(Head(out), "ok")
           w == back \o <<a, b>>
           n == Len(back) + 1
           r == Tail(out)
<1>1. a \in AvatarMessage /\ b \in AvatarMessage
  BY MessagesMade
<1>2. a.kind = "info" /\ a.hash = avatar
      /\ b.kind = "reply" /\ b.op = "info" /\ b.token = Head(out).token
  BY DEF Reply
<1>3. /\ Asks(s, r, back) /\ At(r, {"info"}) = {} /\ Replies(back, {"info"}) = {}
      /\ s.query.result = "none" /\ (s.query = NoQuery => s.queryTimedOut)
      /\ s.query # NoQuery => Head(out).token = s.query.token
  BY AsksServed DEF Truth
<1>4. /\ n \in Nat /\ n \in DOMAIN w /\ n + 1 \in DOMAIN w
      /\ \A i \in DOMAIN back : i \in Nat /\ i \in DOMAIN w /\ w[i] = back[i] /\ i < n
      /\ \A i \in DOMAIN w : i \in DOMAIN back \/ i = n \/ i = n + 1
      /\ w[n] = a /\ w[n + 1] = b
  BY <1>1, Twice
<1> HIDE DEF a, b, w, n, r
<1>5. Replies(w, {"info"}) = {n + 1}
  BY <1>2, <1>3, <1>4 DEF Replies
<1>6. Replies(back, {"sethash"}) \subseteq Replies(w, {"sethash"})
  BY <1>4 DEF Replies
<1>7. Silent(w) => Silent(back)
  BY <1>4 DEF Silent
<1>8. Follows(back, hash, avatar)
  BY DEF Truth
<1>9. ASSUME NEW i \in DOMAIN w, w[i].kind = "book"
      PROVE  /\ \/ \E j \in DOMAIN w : j > i /\ w[j].kind = "book"
                \/ w[i].hash = avatar
             /\ w[i].hash \in File => \E j \in Replies(w, {"sethash"}) : j > i
  BY <1>2, <1>4, <1>9, <1>6, <1>8 DEF Follows
<1>10. ASSUME NEW i \in DOMAIN w, w[i].kind = "info"
       PROVE  i + 1 \in Replies(w, {"info"}) /\ w[i].hash = avatar
  BY <1>3, <1>4, <1>8, <1>10, <1>2, <1>5 DEF Follows
<1>11. Follows(w, hash, avatar)
  BY <1>7, <1>8, <1>9, <1>10 DEF Follows
<1>12. Asks(s, r, w)
  BY <1>2, <1>3, <1>4, <1>5 DEF Asks
<1>13. Hears(s, w, avatar) /\ Claims(s, w, avatar, file, dn)
  BY <1>3, <1>7 DEF Truth, Hears, Claims
<1> QED BY <1>11, <1>12, <1>13 DEF Truth, w, a, b, r

\* The server takes a command other than clientinfo.
LEMMA ServedTruth ==
    ASSUME NEW s, NEW out \in Seq(AvatarCommand), out # << >>, NEW back \in Seq(AvatarMessage),
           NEW hash, NEW avatar, NEW file, NEW dn, Truth(s, out, back, hash, avatar, file, dn)
    PROVE  Truth(s, Tail(out), back, hash, avatar, file, dn)
  BY AsksServed DEF Truth

LEMMA ServeKeepsTruth ==
    ASSUME AvatarInv, TruthInv, Serve
    PROVE  TruthInv'
<1> DEFINE c == Head(toServer)
           out == Tail(toServer)
           True(back, avatar, file) == Truth(sync, out, back, link.hash, avatar, file, done)
<1>1. /\ link.subscribed /\ toServer # << >> /\ toServer' = out
      /\ UNCHANGED <<sync, link, done>>
  BY DEF Serve
<1>2. /\ toServer \in Seq(AvatarCommand) /\ toClient \in Seq(AvatarMessage)
      /\ server \in [avatar : Contents, file : Contents, live : SUBSET Transfer]
  BY DEF AvatarInv, AvatarTypes, World
<1>3. c \in AvatarCommand
  BY <1>1, <1>2
<1>4. Truth(sync, toServer, toClient, link.hash, server.avatar, server.file, done)
  BY <1>1 DEF TruthInv
<1>5. True(toClient, server.avatar, server.file)
  BY <1>1, <1>2, <1>4, ServedTruth
<1>6. \A m \in AvatarMessage :
        m.kind \notin {"book", "info"} /\ ~(m.kind = "reply" /\ m.op = "info")
        => True(Append(toClient, m), server.avatar, server.file)
  BY <1>2, <1>5, ToldTruth
<1>7. /\ \A h \in Nat, why \in {"size", "other"} :
            [kind |-> "refused", handle |-> h, why |-> why] \in AvatarMessage
      /\ \A result \in {"ok", "no"} : c.op \in {"sethash", "list", "stop"} =>
            Reply(c, result) \in AvatarMessage
      /\ \A result \in {"ok", "no", "missing"} : c.op = "delete" => Reply(c, result) \in AvatarMessage
      /\ \A result : Reply(c, result).kind = "reply" /\ Reply(c, result).op = c.op
  BY <1>3, MessagesMade DEF Reply
<1> HIDE DEF c, out, True
<1>8. SUFFICES True(toClient', server'.avatar, server'.file)
  BY <1>1 DEF TruthInv, True
<1>9. CASE c.op = "upload" /\ ServeUpload(c)
  BY <1>3, <1>9, <1>2, <1>5, <1>6, <1>7 DEF AvatarCommand, ServeUpload
<1>10. CASE c.op = "download" /\ ServeDownload(c)
  BY <1>3, <1>10, <1>5, <1>6, <1>7 DEF AvatarCommand, ServeDownload
<1>11. CASE c.op = "sethash" /\ ServeHash(c)
  <2>1. CASE server' = [server EXCEPT !.avatar = c.hash]
             /\ toClient' = toClient \o <<Book(c.hash), Reply(c, "ok")>>
    <3> DEFINE a == Book(c.hash)
               b == Reply(c, "ok")
               w == toClient \o <<a, b>>
               n == Len(toClient) + 1
    <3>1. a \in AvatarMessage /\ b \in AvatarMessage /\ a.kind = "book" /\ a.hash = c.hash
          /\ b.kind = "reply" /\ b.op = "sethash"
      BY <1>3, <1>11, <1>7, MessagesMade DEF AvatarCommand, Book
    <3> HIDE DEF a, b
    <3>2. /\ w \in Seq(AvatarMessage) /\ n \in Nat /\ n \in DOMAIN w /\ n + 1 \in DOMAIN w
          /\ \A i \in DOMAIN toClient : i \in DOMAIN w /\ w[i] = toClient[i] /\ i < n
          /\ \A i \in DOMAIN w : i \in DOMAIN toClient \/ i = n \/ i = n + 1
          /\ w[n] = a /\ w[n + 1] = b
      BY <1>2, <3>1, Twice
    <3> HIDE DEF w, n
    <3>3. n + 1 \in Replies(w, {"sethash"}) /\ n + 1 > n
      BY <3>1, <3>2 DEF Replies
    <3>4. News(toClient, w, n, c.hash)
      BY <3>1, <3>2, <3>3 DEF News
    <3>6. True(w, c.hash, server.file)
      BY <1>5, <3>4, NewsTruth DEF True
    <3>5. toClient' = w /\ server'.avatar = c.hash /\ server'.file = server.file
      BY <1>2, <2>1 DEF w, a, b
    <3> QED BY <3>5, <3>6
  <2>2. CASE toClient' = Append(toClient, Reply(c, "no")) /\ server' = server
    BY <1>6, <1>7, <1>11, <2>2
  <2> QED BY <1>11, <2>1, <2>2 DEF ServeHash
<1>12. CASE c.op = "delete" /\ ServeDelete(c)
  <2>1. CASE /\ server' = [server EXCEPT !.file = NoContent, !.avatar = NoContent]
             /\ toClient' \in {toClient \o <<Book(NoContent), Reply(c, "ok")>>,
                               toClient \o <<Reply(c, "ok"), Book(NoContent)>>}
    <3> DEFINE a == Book(NoContent)
               b == Reply(c, "ok")
               v == toClient \o <<a, b>>
               w == toClient \o <<b, a>>
               n == Len(toClient) + 1
    <3>1. a \in AvatarMessage /\ b \in AvatarMessage /\ a.kind = "book" /\ a.hash = NoContent
          /\ b.kind = "reply" /\ b.op = "delete" /\ NoContent \notin File
      BY <1>7, <1>12, Nothings, MessagesMade DEF Book
    <3> HIDE DEF a, b
    <3>2. /\ v \in Seq(AvatarMessage) /\ n \in Nat /\ n \in DOMAIN v /\ n + 1 \in DOMAIN v
          /\ \A i \in DOMAIN toClient : i \in DOMAIN v /\ v[i] = toClient[i] /\ i < n
          /\ \A i \in DOMAIN v : i \in DOMAIN toClient \/ i = n \/ i = n + 1
          /\ v[n] = a /\ v[n + 1] = b
      BY <1>2, <3>1, Twice
    <3>3. /\ w \in Seq(AvatarMessage) /\ n \in DOMAIN w /\ n + 1 \in DOMAIN w
          /\ \A i \in DOMAIN toClient : i \in Nat /\ i \in DOMAIN w /\ w[i] = toClient[i] /\ i < n
          /\ \A i \in DOMAIN w : i \in DOMAIN toClient \/ i = n \/ i = n + 1
          /\ w[n] = b /\ w[n + 1] = a
      BY <1>2, <3>1, Twice
    <3> HIDE DEF v, w, n
    <3>4. News(toClient, v, n, NoContent)
      BY <3>1, <3>2 DEF News
    <3>5. \A i \in DOMAIN toClient : i < n + 1
      BY <3>2, <3>3
    <3> DEFINE k == n + 1
    <3>6. /\ k \in DOMAIN w /\ w[k] = a
          /\ \A i \in DOMAIN toClient : i \in DOMAIN w /\ w[i] = toClient[i] /\ i < k
          /\ \A i \in DOMAIN w : i \in DOMAIN toClient \/ i = k \/ w[i] = b
      BY <3>3, <3>5
    <3> HIDE DEF k
    <3>7. News(toClient, w, k, NoContent)
      BY <3>1, <3>6 DEF News
    <3>9. True(v, NoContent, NoContent) /\ True(w, NoContent, NoContent)
      BY <1>5, <3>4, <3>7, NewsTruth DEF True
    <3>8. toClient' \in {v, w} /\ server'.avatar = NoContent /\ server'.file = NoContent
      BY <1>2, <2>1 DEF v, w, a, b
    <3> QED BY <3>8, <3>9
  <2>2. CASE toClient' = Append(toClient, Reply(c, "missing")) /\ server' = server
    BY <1>6, <1>7, <1>12, <2>2
  <2>3. CASE toClient' = Append(toClient, Reply(c, "no")) /\ server' = server
    BY <1>6, <1>7, <1>12, <2>3
  <2> QED BY <1>12, <2>1, <2>2, <2>3 DEF ServeDelete
<1>13. CASE c.op = "list" /\ ServeList(c)
  <2> DEFINE a == [kind |-> "transfers", ids |-> {x.handle : x \in server.live}]
             b == Reply(c, "ok")
  <2>1. a \in AvatarMessage /\ a.kind = "transfers"
    BY <1>2, MessagesMade DEF Transfer
  <2>2. b \in AvatarMessage /\ b.kind = "reply" /\ b.op = "list"
    BY <1>7, <1>13
  <2>3. toClient' = toClient \o <<a, b>> /\ server' = server
    BY <1>13 DEF ServeList
  <2> HIDE DEF a, b
  <2>4. True(Append(toClient, a), server.avatar, server.file)
    BY <1>6, <2>1
  <2>5. Append(toClient, a) \in Seq(AvatarMessage)
    BY <1>2, <2>1
  <2>6. True(Append(Append(toClient, a), b), server.avatar, server.file)
    BY <2>2, <2>4, <2>5, ToldTruth DEF True
  <2> QED BY <1>2, <2>1, <2>2, <2>3, <2>6, AppendedTwo
<1>14. CASE c.op = "stop" /\ ServeStop(c)
  BY <1>2, <1>14, <1>6, <1>7 DEF ServeStop
<1>15. CASE c.op = "info" /\ ServeInfo(c)
  BY <1>15, <1>1, <1>2, <1>3, <1>4, InfoTruth DEF ServeInfo, True, out, c
<1> QED BY <1>9, <1>10, <1>11, <1>12, <1>13, <1>14, <1>15 DEF Serve, c

\* A transfer ends at the server, with what it brought or without it.
LEMMA TransferEndsTruth ==
    ASSUME AvatarInv, TruthInv, NEW x \in server.live, ReceiveFile(x) \/ DropTransfer(x)
    PROVE  TruthInv'
<1>1. /\ server \in [avatar : Contents, file : Contents, live : SUBSET Transfer]
      /\ x.handle \in Nat /\ toClient \in Seq(AvatarMessage)
  BY DEF AvatarInv, AvatarTypes, World
<1>2. link.subscribed /\ UNCHANGED <<link, toServer>> /\ server'.avatar = server.avatar
  BY <1>1 DEF TruthInv, ReceiveFile, DropTransfer
<1>3. Truth(sync', toServer, toClient, link.hash, server.avatar, server'.file, done')
  BY <1>2, ClosedTruth DEF ReceiveFile, DropTransfer
<1>4. CASE toClient' = toClient
  BY <1>2, <1>3, <1>4 DEF TruthInv
<1>5. CASE toClient' =
             Append(toClient, [kind |-> "refused", handle |-> x.handle, why |-> "other"])
  BY <1>1, MessagesMade, <1>5, <1>3, ToldTruth, <1>2 DEF TruthInv
<1> QED BY <1>4, <1>5 DEF ReceiveFile, DropTransfer

\* Somebody else sets or removes the avatar.
LEMMA ChangeForeignKeepsTruth ==
    ASSUME AvatarInv, TruthInv, ChangeForeign
    PROVE  TruthInv'
<1>1. PICK content \in {NoContent, ForeignFile} :
        /\ server' = [server EXCEPT !.avatar = content, !.file = content]
        /\ toClient' = IF link.subscribed THEN Append(toClient, Book(content)) ELSE toClient
  BY DEF ChangeForeign
<1>2. UNCHANGED <<sync, link, toServer, ready, done>>
  BY DEF ChangeForeign
<1>3. /\ server \in [avatar : Contents, file : Contents, live : SUBSET Transfer]
      /\ toClient \in Seq(AvatarMessage)
  BY DEF AvatarInv, AvatarTypes, World
<1>4. server'.avatar = content /\ server'.file = content /\ server'.live = server.live
  BY <1>1, <1>3
<1>5. CASE ~link.subscribed
  BY <1>1, <1>2, <1>4, <1>5 DEF TruthInv
<1>6. CASE link.subscribed
  <2> DEFINE m == Book(content)
             w == Append(toClient, m)
             n == Len(toClient) + 1
  <2>1. m \in AvatarMessage /\ m.kind = "book" /\ m.hash = content /\ content \notin File
    BY <1>1, Nothings, MessagesMade DEF Book
  <2>2. toClient' = w
    BY <1>1, <1>6
  <2> HIDE DEF m
  <2>3. /\ DOMAIN w = DOMAIN toClient \cup {n} /\ w[n] = m
        /\ \A i \in DOMAIN toClient : w[i] = toClient[i] /\ i < n
    BY <1>3, <2>1, AppendedBack
  <2> HIDE DEF w, n
  <2>4. News(toClient, w, n, content)
    BY <2>1, <2>3 DEF News
  <2>5. Truth(sync, toServer, w, link.hash, content, content, done)
    BY <1>6, <2>4, NewsTruth DEF TruthInv
  <2> QED BY <1>2, <1>4, <1>6, <2>2, <2>5 DEF TruthInv
<1> QED BY <1>5, <1>6

LEMMA RestingKeepsTruth ==
    ASSUME TruthInv, UNCHANGED <<sync, link, toServer, toClient, ready, done, server>>
    PROVE  TruthInv'
  BY DEF TruthInv

LEMMA TruthBegins ==
    ASSUME Init
    PROVE  TruthInv
  BY DEF Init, Fresh, TruthInv, Idle

LEMMA TruthStep ==
    ASSUME AvatarInv, TruthInv, [Next]_vars
    PROVE  TruthInv'
<1>1. CASE SaveStep
  BY <1>1, RestingKeepsTruth DEF SaveStep
<1>2. CASE SessionStep
  BY <1>2, TakeMessageKeepsTruth, TakeTransferKeepsTruth, TakeCompletionKeepsTruth,
     TakeAvatarChangedKeepsTruth, ExpireKeepsTruth, InterruptedKeepsTruth,
     EndSessionKeepsTruth, SubscribeKeepsTruth DEF SessionStep
<1>3. CASE TaskStep
  BY <1>3, TaskStepKeepsTruth
<1>4. CASE ServerStep
  BY <1>4, ServeKeepsTruth, TransferEndsTruth, ChangeForeignKeepsTruth DEF ServerStep
<1>5. CASE UNCHANGED vars
  BY <1>5, RestingKeepsTruth DEF vars
<1> QED BY <1>1, <1>2, <1>3, <1>4, <1>5 DEF Next

LEMMA TruthIsInvariant == Spec => [](AvatarInv /\ TruthInv)
<1>1. Init => TruthInv
  BY TruthBegins
<1>2. AvatarInv /\ TruthInv /\ [Next]_vars => TruthInv'
  BY TruthStep
<1> QED BY <1>1, <1>2, AvatarIsInvariant, PTL DEF Spec

\* When the session reports that an avatar is set, the server has that hash and that very
\* file, and when it reports that it is removed, the server has none: unless the notice of
\* a later change is still on its way (avatar.rs, changed, compared and verified).
THEOREM ReportsAreTrue == Spec => []SuccessIsTrue
<1>1. AvatarInv /\ TruthInv => SuccessIsTrue
  <2> SUFFICES ASSUME AvatarInv, TruthInv, link.subscribed, NoNews
               PROVE  /\ SaysSynced => /\ server.avatar = sync.upload.content
                                       /\ server.file = sync.upload.content
                      /\ SaysCleared => server.avatar = NoContent
    BY DEF SuccessIsTrue
  <2>1. Silent(toClient)
    BY DEF AvatarInv, World, Silent, NoNews
  <2>2. Claims(sync, toClient, server.avatar, server.file, done)
    BY DEF TruthInv, Truth
  <2>3. SaysSynced => Reports(sync)
    BY DEF AvatarInv, World, Local, Underway, Draining, SaysSynced, Reports, Reporting
  <2>4. SaysCleared <=> Clears(sync)
    BY DEF SaysCleared, Clears
  <2> QED BY <2>1, <2>2, <2>3, <2>4 DEF Claims, SaysSynced
<1> QED BY <1>1, TruthIsInvariant, PTL

=============================================================================
