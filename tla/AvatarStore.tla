---------------------------- MODULE AvatarStore ----------------------------
(***************************************************************************)
(* The wanted avatar on disk (native/src/avatar.rs, persist). The user     *)
(* chooses a picture, or none, or leaves the picker; each choice takes the *)
(* next selection number. A worker of the app prepares the picture and     *)
(* saves the wish. The saving is serialised by a mutex, but the choosing   *)
(* is not: the number may grow between any two of the steps below. What a  *)
(* session reads is the file and the revision, never a lock.               *)
(***************************************************************************)
EXTENDS Naturals, FiniteSets

CONSTANT MaxSelection   \* bound: choices of the user

ASSUME AvatarStoreAssumption == MaxSelection \in Nat

VARIABLES
    store,    \* Store: selection, saved_image_selection, revision, and the file
    wishes,   \* per selection number, what was chosen and how far its saving is
    notified  \* Command::AvatarChanged waits for the session

storeVars == <<store, wishes, notified>>

Selections == 1 .. MaxSelection
Kinds == {"image", "clear"}

\* The file: the reference of a choice, "clear", or no file at all.
NoFile == [kind |-> "unset", of |-> 0]
Reference(s) == [kind |-> wishes[s].kind, of |-> s]
References == {NoFile} \cup [kind : Kinds, of : Selections]

Saving == {"written", "tested", "renamed", "announced"}
Steps == {"none", "preparing", "over"} \cup Saving
Wish == [kind : Kinds, at : Steps]

\* publication: the worker that holds the mutex.
Free == \A s \in Selections : wishes[s].at \notin Saving

Moves(s, from, to) ==
    /\ wishes[s].at = from
    /\ wishes' = [wishes EXCEPT ![s].at = to]

-----------------------------------------------------------------------------
\* The user picks a picture or asks for none; the number is passed on at once.
Choose(kind) ==
    /\ store.selection < MaxSelection
    /\ store' = [store EXCEPT !.selection = @ + 1]
    /\ wishes' = [wishes EXCEPT ![store.selection + 1] = [kind |-> kind, at |-> "preparing"]]
    /\ UNCHANGED notified

\* The user leaves the picker: a number that nothing is saved under.
Cancel ==
    /\ store.selection < MaxSelection
    /\ store' = [store EXCEPT !.selection = @ + 1]
    /\ UNCHANGED <<wishes, notified>>

\* The picture cannot be prepared or read, or no command slot is free.
GiveUp(s) ==
    /\ Moves(s, "preparing", "over")
    /\ UNCHANGED <<store, notified>>

\* The worker takes the mutex, checks the pictures and writes the temporary file.
Write(s) ==
    /\ Free
    /\ Moves(s, "preparing", "written")
    /\ UNCHANGED <<store, notified>>

\* Mutant of Cancelled: nothing cancels a clear that was confirmed.
CancelledPicture(s) == wishes[s].kind = "image" /\ store.selection # s

\* A later choice cancels a picture; only a later saved picture cancels a clear.
Cancelled(s) ==
    IF wishes[s].kind = "image" THEN store.selection # s ELSE store.saved > s

Test(s) ==
    /\ Moves(s, "written", IF Cancelled(s) THEN "over" ELSE "tested")
    /\ UNCHANGED <<store, notified>>

\* The rename: from here on the wish survives the end of the process.
Commit(s) ==
    /\ Moves(s, "tested", "renamed")
    /\ store' = [store EXCEPT !.file = Reference(s)]
    /\ UNCHANGED notified

Announce(s) ==
    /\ Moves(s, "renamed", "announced")
    /\ store' = [store EXCEPT !.revision = @ + 1,
                              !.saved = IF wishes[s].kind = "image" THEN s ELSE @]
    /\ UNCHANGED notified

\* Old pictures are removed, the mutex is given back, the session is told.
Finish(s) ==
    /\ Moves(s, "announced", "over")
    /\ notified' = TRUE
    /\ UNCHANGED store

StoreInit ==
    /\ store = [selection |-> 0, saved |-> 0, revision |-> 0, file |-> NoFile]
    /\ wishes = [s \in Selections |-> [kind |-> "image", at |-> "none"]]
    /\ notified = FALSE

StoreNext ==
    \/ \E kind \in Kinds : Choose(kind)
    \/ Cancel
    \/ \E s \in Selections :
        GiveUp(s) \/ Write(s) \/ Test(s) \/ Commit(s) \/ Announce(s) \/ Finish(s)

-----------------------------------------------------------------------------
StoreTypeOK ==
    /\ store \in [selection : 0 .. MaxSelection, saved : 0 .. MaxSelection,
                  revision : Nat, file : References]
    /\ wishes \in [Selections -> Wish]
    /\ notified \in BOOLEAN

\* A wish that was saved is never replaced by an older one: neither a slow
\* picture nor a slow clear undoes what the user asked for after it. A clear
\* over a clear changes nothing (avatar.rs, durable_reference).
NewerWishWins ==
    [][\/ store'.file.of >= store.file.of
       \/ store'.file.kind = "clear" /\ store.file.kind = "clear"]_store
=============================================================================
