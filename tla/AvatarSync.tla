----------------------------- MODULE AvatarSync -----------------------------
(***************************************************************************)
(* The avatar of the own client (native/src/avatar.rs, AvatarSync): the    *)
(* session brings the server to what AvatarStore holds. A picture is       *)
(* uploaded over a connection of its own, announced by its hash, asked     *)
(* back and downloaded for comparison; no picture is a delete and a wait   *)
(* for the empty hash. A new wish that comes while an upload or a delete   *)
(* may still act at the server first waits, behind a barrier, for it.      *)
(*                                                                         *)
(* Commands and answers travel in order. What a transfer does comes on its *)
(* own connection, and from tasks that may end after they were given up.   *)
(* Each branch of the session's select that concerns the avatar is one     *)
(* action: it observes the store, runs the handler, and runs check.        *)
(***************************************************************************)
EXTENDS AvatarStore, Sequences

CONSTANTS
    Candidates,     \* sizes each picture is prepared in (3)
    MaxTroubles     \* bound: refusals, failed transfers, timeouts, lost
                    \* connections and changes of the avatar by somebody else

ASSUME AvatarSyncAssumption ==
    /\ Candidates \in Nat \ {0}
    /\ MaxTroubles \in Nat

VARIABLES
    sync,      \* AvatarSync
    link,      \* the session: subscribed, and the book's own avatar hash
    toServer,  \* commands on their way
    toClient,  \* answers and notices on their way back
    ready,     \* transfers whose connection is there, or could not be made
    done,      \* Completion: results of the tasks
    server,    \* external: the avatar at the server and its transfers
    troubles   \* what has gone wrong so far

vars == <<storeVars, sync, link, toServer, toClient, ready, done, server, troubles>>

\* A file and its hash are named by the picture and the size they are of.
File == [of : Selections, size : 1 .. Candidates]
NoContent == [of |-> 0, size |-> 0]
ForeignFile == [of |-> 0, size |-> 1]
Contents == File \cup {NoContent, ForeignFile}

Stages == {"load", "own", "connect", "write", "update", "hash", "download", "verify",
           "synced", "delete", "clear_hash", "cleared", "drain", "stop_transfer"}

\* Token 0 and handle 0 stand for None.
NoUpload == [handle |-> 0, token |-> 0, content |-> NoContent, download |-> 0]
NoTransfer == [token |-> 0, handle |-> 0]
NoQuery == [token |-> 0, answered |-> FALSE, hash |-> NoContent, result |-> "none"]

\* AvatarSync::default, a token of a session of its own, and ready().
Fresh(token, handles) ==
    [token |-> token, pending |-> TRUE, retry |-> TRUE, next |-> 1, revision |-> 0,
     clear |-> FALSE, deleting |-> 0, draining |-> FALSE, blocked |-> FALSE,
     missing |-> FALSE, drainQuery |-> 0, drainId |-> 0, previous |-> NoTransfer,
     choices |-> 0, upload |-> NoUpload, stage |-> "load", worker |-> "none",
     query |-> NoQuery, queryTimedOut |-> FALSE, deadline |-> FALSE,
     handles |-> handles, sent |-> << >>]

-----------------------------------------------------------------------------
(* The operations of AvatarSync on its state s. "sent" collects what one   *)
(* step hands to the connection, "handles" are the transfers it has made.  *)

Enter(s, stage) == [s EXCEPT !.stage = stage, !.deadline = TRUE]

\* stop: the task is aborted, the transfer forgotten.
Stop(s) == [s EXCEPT !.worker = "none", !.upload = NoUpload, !.deadline = FALSE]

Send(s, command) == [s EXCEPT !.sent = Append(@, command)]

\* Mutant of Failed: what the transport may still do is forgotten.
FailedForgetting(s, timeout) ==
    [Stop(s) EXCEPT !.blocked = @ \/ s.draining, !.deleting = 0, !.drainQuery = 0,
        !.drainId = 0, !.draining = FALSE, !.previous = NoTransfer,
        !.choices = 0, !.pending = FALSE, !.retry = FALSE]

\* A timeout in these stages leaves something at the server that no answer
\* tells of: nothing more is tried on this connection.
Unconfirmed == {"connect", "write", "update", "delete"}

Failed(s, timeout) ==
    [Stop(s) EXCEPT
        !.blocked = @ \/ s.draining \/ (timeout /\ s.stage \in Unconfirmed),
        !.deleting = 0, !.drainQuery = 0, !.drainId = 0, !.draining = FALSE,
        !.previous = IF s.upload # NoUpload /\ s.stage # "synced"
                     THEN [token |-> s.upload.token, handle |-> s.upload.handle]
                     ELSE NoTransfer,
        !.choices = 0, !.pending = FALSE, !.retry = FALSE]

Drained(s) ==
    [Stop(s) EXCEPT !.deleting = 0, !.drainQuery = 0, !.drainId = 0,
                    !.previous = NoTransfer, !.draining = FALSE, !.pending = TRUE]

\* Stages that end by an answer of the server and are left to do so.
Answered == {"update", "delete", "clear_hash", "drain", "stop_transfer"}

\* The delete has been answered: nothing of it is left at the server.
Released(s) ==
    IF s.stage = "clear_hash" /\ s.deleting # 0
    THEN [s EXCEPT !.deleting = 0, !.draining = FALSE] ELSE s

Mutating(s) ==
    \/ s.upload # NoUpload /\ s.stage # "synced"
    \/ s.deleting # 0
    \/ s.previous # NoTransfer
    \/ s.draining

\* Mutant of Barrier: the stage is set without its timer.
BarrierUntimed(s) ==
    [s EXCEPT !.draining = TRUE, !.worker = "none",
              !.stage = IF s.stage \in Answered THEN @ ELSE "drain"]

Barrier(s) ==
    IF s.stage \in Answered THEN [s EXCEPT !.draining = TRUE]
    ELSE Enter([s EXCEPT !.draining = TRUE, !.worker = "none"], "drain")

Changed(s0) ==
    LET s == Released(s0)
        held == IF Mutating(s) THEN Barrier(s) ELSE [Stop(s) EXCEPT !.stage = "load"]
    IN [held EXCEPT !.token = @ + 1, !.pending = ~s.blocked, !.retry = TRUE,
                    !.choices = 0, !.clear = FALSE, !.next = 1]

Observe(s) ==
    IF s.revision = store.revision THEN s
    ELSE Changed([s EXCEPT !.revision = store.revision])

Disconnected(s) ==
    [Stop(s) EXCEPT !.token = @ + 1, !.query = NoQuery, !.queryTimedOut = FALSE,
        !.deleting = 0, !.drainQuery = 0, !.drainId = 0, !.previous = NoTransfer,
        !.draining = FALSE, !.blocked = FALSE, !.clear = FALSE, !.choices = 0,
        !.pending = s.retry, !.next = 1]

RequestInfo(s) ==
    LET token == IF s.deleting # 0 THEN s.deleting ELSE s.token IN
    IF s.queryTimedOut THEN Failed(s, FALSE)
    ELSE Send([s EXCEPT !.query = [NoQuery EXCEPT !.token = token]],
              [op |-> "info", token |-> token])

\* The hash is there: fetch the file and compare it.
Verify(s) ==
    LET h == s.handles + 1 IN
    Send([Enter(s, "download") EXCEPT !.handles = h, !.upload.download = h],
         [op |-> "download", handle |-> h])

ClearConfirmed(s) ==
    IF s.draining THEN Drained(s)
    ELSE [s EXCEPT !.deleting = 0, !.stage = "cleared", !.deadline = FALSE]

-----------------------------------------------------------------------------
(* check                                                                   *)

CheckDrain(s) ==
    LET token == IF s.upload # NoUpload THEN s.upload.token ELSE s.previous.token IN
    IF s.draining /\ ~s.blocked /\ s.stage = "drain" /\ s.drainQuery = 0
    THEN Send([s EXCEPT !.drainQuery = token], [op |-> "list", token |-> token])
    ELSE s

CheckClear(s, hash) ==
    IF s.stage # "clear_hash" \/ s.deleting = 0 \/ s.query # NoQuery THEN s
    ELSE IF hash = NoContent /\ ~s.missing THEN ClearConfirmed(s)
    ELSE RequestInfo(s)

CheckHash(s, hash) ==
    IF s.stage # "hash" \/ s.upload = NoUpload THEN s
    ELSE IF hash = s.upload.content THEN Verify(s)
    ELSE IF s.query = NoQuery THEN RequestInfo(s) ELSE s

MayStart(s) ==
    /\ s.pending /\ ~s.blocked /\ s.upload = NoUpload /\ s.worker = "none"
    /\ s.deleting = 0 /\ ~s.draining

StartClear(s, hash) ==
    IF hash = NoContent
    THEN [s EXCEPT !.pending = FALSE, !.stage = "cleared", !.deadline = FALSE]
    ELSE Send([Enter(s, "delete") EXCEPT !.pending = FALSE, !.missing = FALSE,
                                         !.deleting = s.token],
              [op |-> "delete", token |-> s.token])

StartUpload(s) ==
    LET h == s.handles + 1
        content == [of |-> s.choices, size |-> s.next] IN
    Send([Enter(s, "connect") EXCEPT
            !.pending = FALSE, !.handles = h,
            !.upload = [handle |-> h, token |-> s.token, content |-> content, download |-> 0]],
         [op |-> "upload", handle |-> h, content |-> content])

\* desired_matches: the server has this picture, in whatever size.
StartImage(s, hash) ==
    IF hash \in File /\ hash.of = s.choices
    THEN [s EXCEPT !.pending = FALSE, !.deadline = FALSE]
    ELSE IF s.next > Candidates THEN Failed(s, FALSE)
    ELSE StartUpload(s)

Start(s, hash) ==
    IF ~MayStart(s) THEN s
    ELSE IF s.choices = 0 /\ ~s.clear THEN [Enter(s, "load") EXCEPT !.worker = "load"]
    ELSE IF s.clear THEN StartClear(s, hash)
    ELSE StartImage(s, hash)

Check(s, hash) == Start(CheckHash(CheckClear(CheckDrain(s), hash), hash), hash)

-----------------------------------------------------------------------------
(* Handlers                                                                *)

\* file_upload, the offset being 0: the picture is written.
UploadConnected(s, h) ==
    IF s.upload.handle # h \/ (s.upload.token # s.token /\ ~s.draining)
       \/ s.stage # "connect" THEN s
    ELSE [Enter(s, "write") EXCEPT !.worker = "write"]

\* file_download; "fits": the size is that of the upload.
DownloadConnected(s, fits) ==
    IF ~fits THEN Failed(s, FALSE)
    ELSE [Enter(s, "verify") EXCEPT !.worker = "verify"]

\* file_failed: a refusal because of the size is answered by the next size.
TransferFailed(s, h, why) ==
    IF s.draining THEN s
    ELSE IF h # s.upload.handle \/ s.stage # "connect" \/ why # "size" THEN Failed(s, FALSE)
    ELSE IF s.next + 1 <= Candidates
    THEN [Stop(s) EXCEPT !.next = @ + 1, !.pending = TRUE]
    ELSE Failed([Stop(s) EXCEPT !.next = @ + 1], FALSE)

\* updated: the answer to the hash.
Updated(s, token, ok) ==
    IF s.upload = NoUpload \/ s.upload.token # token \/ s.stage # "update" THEN s
    ELSE IF s.draining THEN Enter([s EXCEPT !.drainQuery = 0], "drain")
    ELSE IF ok THEN Enter(s, "hash") ELSE Failed(s, FALSE)

\* info, for the list of transfers: the own one is recognised by its handle.
Listed(s, ids) ==
    LET h == IF s.upload # NoUpload THEN s.upload.handle ELSE s.previous.handle IN
    IF s.stage = "drain" /\ s.drainQuery # 0 /\ h \in ids
    THEN [s EXCEPT !.drainId = h] ELSE s

\* transfer_list_result
ListEnded(s, token, ok) ==
    IF s.drainQuery # token \/ s.stage # "drain" THEN s
    ELSE IF ~ok THEN Failed(s, FALSE)
    ELSE IF s.drainId = 0 THEN Drained(s)
    ELSE Send(Enter(s, "stop_transfer"), [op |-> "stop", token |-> token, id |-> s.drainId])

\* transfer_stopped
TransferStopped(s, token, ok) ==
    IF s.drainQuery # token \/ s.stage # "stop_transfer" THEN s
    ELSE IF ok THEN Drained(s) ELSE Failed(s, FALSE)

\* Mutant of Deleted: the barrier is left for the query a transfer needs.
DeletedQueried(s, token, result) ==
    IF s.deleting # token \/ s.stage # "delete" THEN s
    ELSE IF s.draining THEN Enter([s EXCEPT !.drainQuery = 0], "drain")
    ELSE IF result = "no" THEN Failed(s, FALSE)
    ELSE [Enter(s, "clear_hash") EXCEPT !.missing = @ \/ result = "missing"]

\* deleted; "missing" is the error FileNotFound.
Deleted(s, token, result) ==
    IF s.deleting # token \/ s.stage # "delete" THEN s
    ELSE IF s.draining THEN Drained(s)
    ELSE IF result = "no" THEN Failed(s, FALSE)
    ELSE [Enter(s, "clear_hash") EXCEPT !.missing = @ \/ result = "missing"]

\* Mutant of HashChanged: only a running verification is undone.
HashChangedWhileVerifying(s, hash) ==
    IF s.stage \in {"download", "verify"} /\ s.upload.content # hash /\ ~s.draining
    THEN Failed(s, FALSE) ELSE s

\* server_hash_changed
HashChanged(s, hash) ==
    LET undone ==
        \/ s.stage = "cleared" /\ hash # NoContent
        \/ /\ s.stage \in {"download", "verify", "synced"}
           /\ s.upload # NoUpload /\ s.upload.content # hash
    IN IF undone /\ ~s.draining THEN Failed(s, FALSE) ELSE s

\* finish_query
FinishQuery(s0) ==
    LET q == s0.query
        s == [s0 EXCEPT !.query = NoQuery] IN
    IF q.result = "none" \/ (q.result = "ok" /\ ~q.answered) THEN s0
    ELSE IF s.stage = "clear_hash" /\ s.deleting = q.token
    THEN IF q.result = "ok" /\ q.hash = NoContent THEN ClearConfirmed(s) ELSE Failed(s, FALSE)
    ELSE IF q.token # s.token \/ s.stage # "hash" \/ s.upload = NoUpload THEN s
    ELSE IF q.result = "ok" /\ q.hash = s.upload.content THEN Verify(s)
    ELSE Failed(s, FALSE)

\* info, for a clientinfo: it names no request.
Informed(s, hash) ==
    IF s.query = NoQuery THEN s
    ELSE FinishQuery([s EXCEPT !.query.hash = hash, !.query.answered = TRUE])

\* info_result
InfoEnded(s, token, result) ==
    FinishQuery(IF s.query # NoQuery /\ s.query.token = token
                THEN [s EXCEPT !.query.result = result] ELSE s)

\* Mutant of Loaded: the result of a task that was given up is taken too.
LoadedAnyone(s, token, result) ==
    IF s.stage # "load" \/ s.worker = "none" THEN s
    ELSE LET t == [s EXCEPT !.worker = "none"] IN
         CASE result.kind = "image" -> [Enter(t, "own") EXCEPT !.clear = FALSE,
                                                               !.choices = result.of]
           [] result.kind = "clear" -> [Enter(t, "own") EXCEPT !.clear = TRUE, !.choices = 0]
           [] result.kind = "unset" -> [t EXCEPT !.deadline = FALSE, !.pending = FALSE]
           [] OTHER -> Failed(t, FALSE)

\* completed: the result of a task. A written picture is announced at once.
Loaded(s, token, result) ==
    IF token # s.token \/ s.stage # "load" \/ s.worker = "none" THEN s
    ELSE LET t == [s EXCEPT !.worker = "none"] IN
         CASE result.kind = "image" -> [Enter(t, "own") EXCEPT !.clear = FALSE,
                                                               !.choices = result.of]
           [] result.kind = "clear" -> [Enter(t, "own") EXCEPT !.clear = TRUE, !.choices = 0]
           [] result.kind = "unset" -> [t EXCEPT !.deadline = FALSE, !.pending = FALSE]
           [] OTHER -> Failed(t, FALSE)

Written(s, token, h, ok) ==
    IF (token # s.token /\ ~s.draining) \/ s.stage # "write"
       \/ s.upload.handle # h \/ s.upload.token # token THEN s
    ELSE LET t == [s EXCEPT !.worker = "none"] IN
         IF ~ok THEN Failed(t, FALSE)
         ELSE IF token # s.token THEN t
         ELSE Send(Enter(t, "update"),
                   [op |-> "sethash", token |-> s.token, hash |-> s.upload.content])

Verified(s, token, h, ok) ==
    IF (token # s.token /\ ~s.draining) \/ s.stage # "verify"
       \/ s.upload.download # h \/ s.upload.token # token THEN s
    ELSE LET t == [s EXCEPT !.worker = "none"] IN
         IF ~ok THEN Failed(t, FALSE)
         ELSE IF s.draining THEN Drained(t)
         ELSE [t EXCEPT !.stage = "synced", !.deadline = FALSE, !.choices = 0]

Completed(s, c) ==
    CASE c.kind = "load" -> Loaded(s, c.token, c.result)
      [] c.kind = "write" -> Written(s, c.token, c.handle, c.result)
      [] OTHER -> Verified(s, c.token, c.handle, c.result)

Answer(s, m) ==
    CASE m.op = "sethash" -> Updated(s, m.token, m.result = "ok")
      [] m.op = "list" -> ListEnded(s, m.token, m.result = "ok")
      [] m.op = "stop" -> TransferStopped(s, m.token, m.result = "ok")
      [] m.op = "delete" -> Deleted(s, m.token, m.result)
      [] OTHER -> InfoEnded(s, m.token, m.result)

\* What a message of the server does; the book has the new hash already.
Take(s, m) ==
    CASE m.kind = "book" -> HashChanged(s, m.hash)
      [] m.kind = "info" -> Informed(s, m.hash)
      [] m.kind = "transfers" -> Listed(s, m.ids)
      [] OTHER -> Answer(s, m)

-----------------------------------------------------------------------------
(* Branches of the session's select                                        *)

Commanded(s) ==
    /\ sync' = [s EXCEPT !.sent = << >>]
    /\ toServer' = toServer \o s.sent

\* A branch ends with a check, once the client has subscribed.
Ends(s, hash) == Commanded(IF link.subscribed THEN Check(s, hash) ELSE s)

\* A transfer that is not the avatar's goes on to the media downloads.
Owns(s, h) == s.upload # NoUpload /\ h \in {s.upload.handle, s.upload.download}

FailureTaken(s, h, why) ==
    IF Owns(s, h) THEN Ends(TransferFailed(s, h, why), link.hash) ELSE Commanded(s)

Rest == <<wishes, store, server, troubles>>

\* Things that may go wrong do so only so often.
Trouble(yes) ==
    /\ yes => troubles < MaxTroubles
    /\ troubles' = troubles + IF yes THEN 1 ELSE 0

TakeMessage ==
    /\ toClient # << >>
    /\ LET m == Head(toClient)
           hash == IF m.kind = "book" THEN m.hash ELSE link.hash IN
       /\ link' = [link EXCEPT !.hash = hash]
       /\ IF m.kind = "refused" THEN FailureTaken(Observe(sync), m.handle, m.why)
          ELSE Ends(Take(Observe(sync), m), hash)
    /\ toClient' = Tail(toClient)
    /\ UNCHANGED <<Rest, notified, ready, done>>

\* StreamItem::FileUpload, FileDownload, or FiletransferFailed for a connection
\* that could not be made. A connection nobody wants is dropped.
TakeTransfer(t) ==
    /\ t \in ready
    /\ ready' = ready \ {t}
    /\ LET s == Observe(sync) IN
       \/ /\ t.way = "up"
          /\ LET r == UploadConnected(s, t.handle) IN
             /\ Ends(r, link.hash)
             /\ server' = [server EXCEPT !.live =
                    {[x EXCEPT !.fed = @ \/ (x.handle = t.handle /\ r.stage = "write"
                                             /\ s.stage = "connect")] : x \in @}]
          /\ UNCHANGED troubles
       \/ /\ t.way = "down"
          /\ \E fits \in {server.file = s.upload.content, TRUE} :
                IF s.upload.download = t.handle /\ s.stage = "download"
                THEN Ends(DownloadConnected(s, fits), link.hash) ELSE Commanded(s)
          /\ UNCHANGED <<server, troubles>>
       \/ /\ Trouble(TRUE)
          /\ FailureTaken(s, t.handle, "other")
          /\ UNCHANGED server
    /\ UNCHANGED <<wishes, store, notified, link, toClient, done>>

TakeCompletion ==
    /\ done # << >>
    /\ Ends(Completed(Observe(sync), Head(done)), link.hash)
    /\ done' = Tail(done)
    /\ UNCHANGED <<Rest, notified, link, toClient, ready>>

TakeAvatarChanged ==
    /\ notified
    /\ notified' = FALSE
    /\ Ends(Observe(sync), link.hash)
    /\ UNCHANGED <<Rest, link, toClient, ready, done>>

\* The timer: the query and the stage have deadlines of their own.
Expire ==
    /\ Trouble(TRUE)
    /\ LET due == (IF sync.query # NoQuery THEN {"query"} ELSE {})
                  \cup (IF sync.deadline THEN {"stage"} ELSE {})
           s == Observe(sync) IN
       \E late \in (SUBSET due) \ {{}} :
          LET t == IF "query" \in late
                   THEN [s EXCEPT !.query = NoQuery, !.queryTimedOut = TRUE] ELSE s
          IN Ends(IF "stage" \in late /\ s.deadline /\ s.stage = sync.stage
                  THEN Failed(t, TRUE) ELSE t, link.hash)
    /\ UNCHANGED <<wishes, store, server, notified, link, toClient, ready, done>>

\* The connection is lost, or the user ends it and the next session starts with
\* an AvatarSync of its own. The server ends the transfers of the old client.
Lose(s) ==
    /\ Trouble(TRUE)
    /\ sync' = s
    /\ link' = [link EXCEPT !.subscribed = FALSE]
    /\ toServer' = << >> /\ toClient' = << >> /\ ready' = {}
    /\ server' = [server EXCEPT !.live = {}]
    /\ UNCHANGED <<wishes, store, notified>>

Interrupted ==
    /\ link.subscribed
    /\ Lose(Disconnected(Observe(sync)))
    /\ UNCHANGED done

EndSession ==
    /\ Lose(Observe(Fresh(sync.token + 1, sync.handles)))
    /\ done' = << >>

\* The first BookEvents of a connection: the book is what the server has.
Subscribe ==
    /\ ~link.subscribed
    /\ link' = [subscribed |-> TRUE, hash |-> server.avatar]
    /\ Commanded(Check(Observe(sync), server.avatar))
    /\ UNCHANGED <<Rest, notified, toClient, ready, done>>

-----------------------------------------------------------------------------
(* Tasks of the client                                                     *)

\* The reference and the pictures are read in a blocking thread, which may find
\* them half replaced.
Load ==
    /\ sync.worker = "load"
    /\ \E result \in {store.file, [kind |-> "error", of |-> 0]} :
        /\ Trouble(result.kind = "error")
        /\ done' = Append(done, [kind |-> "load", token |-> sync.token, result |-> result])
    /\ sync' = [sync EXCEPT !.worker = "ended"]
    /\ UNCHANGED <<storeVars, link, toServer, toClient, ready, server>>

\* The file comes back and is compared with what was uploaded.
Compare ==
    /\ sync.worker = "verify"
    /\ done' = Append(done, [kind |-> "verify", token |-> sync.upload.token,
                             handle |-> sync.upload.download,
                             result |-> server.file = sync.upload.content])
    /\ sync' = [sync EXCEPT !.worker = "ended"]
    /\ UNCHANGED <<storeVars, link, toServer, toClient, ready, server, troubles>>

-----------------------------------------------------------------------------
(* The server, as the client's requests assume it                          *)

Reply(c, result) == [kind |-> "reply", op |-> c.op, token |-> c.token, result |-> result]
Book(hash) == [kind |-> "book", hash |-> hash]

ServeUpload(c) ==
    \/ /\ Trouble(FALSE)
       /\ server' = [server EXCEPT !.live = @ \cup
                        {[handle |-> c.handle, content |-> c.content, fed |-> FALSE]}]
       /\ ready' = ready \cup {[way |-> "up", handle |-> c.handle]}
       /\ UNCHANGED toClient
    \/ /\ Trouble(TRUE)
       /\ \E why \in {"size", "other"} :
            toClient' = Append(toClient, [kind |-> "refused", handle |-> c.handle, why |-> why])
       /\ UNCHANGED <<server, ready>>

ServeDownload(c) ==
    /\ Trouble(FALSE)
    /\ IF server.file # NoContent
       THEN /\ ready' = ready \cup {[way |-> "down", handle |-> c.handle]}
            /\ UNCHANGED toClient
       ELSE /\ toClient' = Append(toClient,
                  [kind |-> "refused", handle |-> c.handle, why |-> "other"])
            /\ UNCHANGED ready
    /\ UNCHANGED server

ServeHash(c) ==
    \/ /\ Trouble(FALSE)
       /\ server' = [server EXCEPT !.avatar = c.hash]
       /\ toClient' = toClient \o <<Book(c.hash), Reply(c, "ok")>>
    \/ /\ Trouble(TRUE)
       /\ toClient' = Append(toClient, Reply(c, "no"))
       /\ UNCHANGED server

\* A deleted avatar file takes the hash with it.
ServeDelete(c) ==
    \/ /\ Trouble(FALSE) /\ server.file # NoContent
       /\ server' = [server EXCEPT !.file = NoContent, !.avatar = NoContent]
       /\ toClient' \in {toClient \o <<Book(NoContent), Reply(c, "ok")>>,
                         toClient \o <<Reply(c, "ok"), Book(NoContent)>>}
    \/ /\ Trouble(FALSE) /\ server.file = NoContent
       /\ toClient' = Append(toClient, Reply(c, "missing"))
       /\ UNCHANGED server
    \/ /\ Trouble(TRUE)
       /\ toClient' = Append(toClient, Reply(c, "no"))
       /\ UNCHANGED server

ServeList(c) ==
    /\ Trouble(FALSE)
    /\ toClient' = toClient \o
          <<[kind |-> "transfers", ids |-> {x.handle : x \in server.live}], Reply(c, "ok")>>
    /\ UNCHANGED server

ServeStop(c) ==
    LET there == \E x \in server.live : x.handle = c.id IN
    /\ Trouble(FALSE)
    /\ server' = [server EXCEPT !.live = {x \in @ : x.handle # c.id}]
    /\ toClient' = Append(toClient, Reply(c, IF there THEN "ok" ELSE "no"))

ServeInfo(c) ==
    /\ Trouble(FALSE)
    /\ toClient' = toClient \o <<[kind |-> "info", hash |-> server.avatar], Reply(c, "ok")>>
    /\ UNCHANGED server

Serve ==
    /\ link.subscribed /\ toServer # << >>
    /\ LET c == Head(toServer) IN
       \/ c.op = "upload" /\ ServeUpload(c)
       \/ c.op = "download" /\ ServeDownload(c)
       \/ c.op = "sethash" /\ ServeHash(c) /\ UNCHANGED ready
       \/ c.op = "delete" /\ ServeDelete(c) /\ UNCHANGED ready
       \/ c.op = "list" /\ ServeList(c) /\ UNCHANGED ready
       \/ c.op = "stop" /\ ServeStop(c) /\ UNCHANGED ready
       \/ c.op = "info" /\ ServeInfo(c) /\ UNCHANGED ready
    /\ toServer' = Tail(toServer)
    /\ UNCHANGED <<storeVars, sync, link, done>>

\* The task that writes the transfer h sees its connection closed.
Closed(h, ok) ==
    IF sync.worker = "write" /\ sync.upload.handle = h
    THEN /\ done' = Append(done, [kind |-> "write", token |-> sync.upload.token,
                                  handle |-> h, result |-> ok])
         /\ sync' = [sync EXCEPT !.worker = "ended"]
    ELSE UNCHANGED <<done, sync>>

\* All bytes are there; the task may have been aborted after it sent them.
ReceiveFile(x) ==
    /\ x \in server.live /\ x.fed
    /\ server' = [server EXCEPT !.live = @ \ {x}, !.file = x.content]
    /\ Closed(x.handle, TRUE)
    /\ UNCHANGED <<storeVars, link, toServer, toClient, ready, troubles>>

\* A transfer ends early. The close may look like that of a complete one, and a
\* notice of the failure may follow.
DropTransfer(x) ==
    /\ x \in server.live
    /\ \A t \in ready : t.handle # x.handle
    /\ Trouble(TRUE)
    /\ server' = [server EXCEPT !.live = @ \ {x}]
    /\ \E ok \in BOOLEAN : Closed(x.handle, ok)
    /\ toClient' \in {toClient, Append(toClient,
                        [kind |-> "refused", handle |-> x.handle, why |-> "other"])}
    /\ UNCHANGED <<storeVars, link, toServer, ready>>

\* Somebody else sets or removes the avatar.
ChangeForeign ==
    /\ Trouble(TRUE)
    /\ \E content \in {NoContent, ForeignFile} \ {server.avatar} :
        /\ server' = [server EXCEPT !.avatar = content, !.file = content]
        /\ toClient' = IF link.subscribed THEN Append(toClient, Book(content)) ELSE toClient
    /\ UNCHANGED <<storeVars, sync, link, toServer, ready, done>>

-----------------------------------------------------------------------------
Init ==
    /\ StoreInit
    /\ sync = Fresh(1, 0)
    /\ link = [subscribed |-> FALSE, hash |-> NoContent]
    /\ toServer = << >> /\ toClient = << >> /\ ready = {} /\ done = << >>
    /\ server \in [avatar : {NoContent}, file : {NoContent}, live : {{}}]
            \cup [avatar : {ForeignFile}, file : {ForeignFile}, live : {{}}]
    /\ troubles = 0

SaveStep ==
    /\ StoreNext
    /\ UNCHANGED <<sync, link, toServer, toClient, ready, done, server, troubles>>

SessionStep ==
    \/ TakeMessage
    \/ \E t \in ready : TakeTransfer(t)
    \/ TakeCompletion
    \/ TakeAvatarChanged
    \/ Expire
    \/ Interrupted
    \/ EndSession
    \/ Subscribe

TaskStep == Load \/ Compare

ServerStep ==
    \/ Serve
    \/ \E x \in server.live : ReceiveFile(x) \/ DropTransfer(x)
    \/ ChangeForeign

Next == SaveStep \/ SessionStep \/ TaskStep \/ ServerStep

Spec == Init /\ [][Next]_vars
-----------------------------------------------------------------------------
\* The types of the state, and what it is made of.
TypeOK ==
    /\ StoreTypeOK
    /\ sync \in [token : Nat, pending : BOOLEAN, retry : BOOLEAN,
          next : 1 .. Candidates + 1, revision : Nat, clear : BOOLEAN,
          deleting : Nat, draining : BOOLEAN, blocked : BOOLEAN, missing : BOOLEAN,
          drainQuery : Nat, drainId : Nat, previous : [token : Nat, handle : Nat],
          choices : 0 .. MaxSelection,
          upload : [handle : Nat, token : Nat, content : Contents, download : Nat],
          stage : Stages, worker : {"none", "load", "write", "verify", "ended"},
          query : [token : Nat, answered : BOOLEAN, hash : Contents,
                   result : {"none", "ok", "no"}],
          queryTimedOut : BOOLEAN, deadline : BOOLEAN, handles : Nat, sent : {<< >>}]
    /\ link \in [subscribed : BOOLEAN, hash : Contents]
    /\ server.avatar \in Contents /\ server.file \in Contents
    /\ server.live \subseteq [handle : Nat, content : File, fed : BOOLEAN]

\* check unwraps the transfer it asks for: the barrier always knows one
\* (avatar.rs:508).
DrainNamesTransfer ==
    sync.draining /\ sync.stage = "drain" =>
        sync.upload # NoUpload \/ sync.previous # NoTransfer

\* At most one change of the avatar is on its way or at work at the server,
\* whatever timed out, failed, was given up or overtaken by a new wish
\* (the barrier of AvatarSync::changed, AvatarSync::failed).
Mutations ==
    Cardinality(server.live)
    + Cardinality({i \in DOMAIN toServer : toServer[i].op \in {"upload", "sethash", "delete"}})

OneMutation == Mutations <= 1

NoNews == \A i \in 1 .. Len(toClient) : toClient[i].kind # "book"

\* What the last status event said; a failure leaves the stage as it is, but
\* drops the upload and the choices, and gives up.
SaysSynced == sync.stage = "synced" /\ sync.upload # NoUpload
SaysCleared == sync.stage = "cleared" /\ ~sync.pending /\ sync.retry
SaysUpToDate == sync.stage = "own" /\ sync.choices # 0 /\ ~sync.pending

\* Success is reported only for what the server has: the uploaded picture, its
\* hash and its file, or no picture. Only a notice that is still on its way may
\* tell otherwise (verified, clear_confirmed, server_hash_changed).
SuccessIsTrue ==
    link.subscribed /\ NoNews =>
        /\ SaysSynced => server.avatar = sync.upload.content /\ server.file = sync.upload.content
        /\ SaysCleared => server.avatar = NoContent

Announced == \A s \in Selections : wishes[s].at # "renamed"

\* Success is reported only for the wish on disk: once the session has seen its
\* revision, what it synchronised is that picture, or none (observe, Loaded).
SuccessIsWanted ==
    sync.revision = store.revision /\ Announced =>
        /\ SaysSynced => store.file = [kind |-> "image", of |-> sync.upload.content.of]
        /\ SaysUpToDate => store.file = [kind |-> "image", of |-> sync.choices]
        /\ SaysCleared => store.file.kind = "clear"

\* The command slot that was reserved before the wish was saved.
Notifies == notified \/ \E w \in Selections : wishes[w].at = "announced"

\* Whatever the session waits for ends by itself: while a wish is pending or a
\* barrier is up a timer runs, or the notice of a wish is still to come ("Keep
\* an already issued write/command until its bounded barrier finishes",
\* avatar.rs:400; "A reserved command slot guarantees notification", :41).
WaitIsBounded ==
    link.subscribed /\ ~sync.blocked /\ (sync.pending \/ sync.draining) =>
        sync.deadline \/ Notifies

\* The same, but for one case: the hash was refused, or the transfer failed
\* while it was set, and a new wish comes. The stage is still "update" then and
\* no answer to it is to come, so the barrier has neither a timer nor a query.
Unanswerable == sync.stage = "update" /\ sync.upload = NoUpload

WaitIsBoundedElsewhere == WaitIsBounded \/ Unanswerable
=============================================================================
