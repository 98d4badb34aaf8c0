---------------------------- MODULE AvatarProofs ----------------------------
(***************************************************************************)
(* The avatar of the own client, for every value of the constants.         *)
(***************************************************************************)
EXTENDS AvatarSync, FiniteSetTheorems, TLAPS

-----------------------------------------------------------------------------
(* Types. What travels is a union of records; what a step hands on is      *)
(* typed as well.                                                          *)

Uploads == [handle : Nat, token : Nat, content : Contents, download : Nat]
Transfers == [token : Nat, handle : Nat]
Queries == [token : Nat, answered : BOOLEAN, hash : Contents, result : {"none", "ok", "no"}]
Workers == {"none", "load", "write", "verify", "ended"}

AvatarCommand ==
    [op : {"upload"}, handle : Nat, content : File]
    \cup [op : {"download"}, handle : Nat]
    \cup [op : {"sethash"}, token : Nat, hash : Contents]
    \cup [op : {"delete", "info", "list"}, token : Nat]
    \cup [op : {"stop"}, token : Nat, id : Nat]

AvatarMessage ==
    [kind : {"reply"}, op : {"sethash", "info", "list", "stop"}, token : Nat,
     result : {"ok", "no"}]
    \cup [kind : {"reply"}, op : {"delete"}, token : Nat, result : {"ok", "no", "missing"}]
    \cup [kind : {"book", "info"}, hash : Contents]
    \cup [kind : {"transfers"}, ids : SUBSET Nat]
    \cup [kind : {"refused"}, handle : Nat, why : {"size", "other"}]

AvatarResult ==
    [kind : {"load"}, token : Nat, result : References \cup {[kind |-> "error", of |-> 0]}]
    \cup [kind : {"write", "verify"}, token : Nat, handle : Nat, result : BOOLEAN]

Sizes == 1 .. Candidates + 1
Chosen == 0 .. MaxSelection

\* AvatarSync, in a step: "sent" is not yet handed on.
Syncs == [token : Nat, pending : BOOLEAN, retry : BOOLEAN,
         next : Sizes, revision : Nat, clear : BOOLEAN,
         deleting : Nat, draining : BOOLEAN, blocked : BOOLEAN, missing : BOOLEAN,
         drainQuery : Nat, drainId : Nat, previous : Transfers,
         choices : Chosen, upload : Uploads, stage : Stages, worker : Workers,
         query : Queries, queryTimedOut : BOOLEAN, deadline : BOOLEAN, handles : Nat,
         sent : Seq(AvatarCommand)]

Fields == {"token", "pending", "retry", "next", "revision", "clear", "deleting", "draining",
           "blocked", "missing", "drainQuery", "drainId", "previous", "choices", "upload",
           "stage", "worker", "query", "queryTimedOut", "deadline", "handles", "sent"}

\* All but the fields named are the same.
Else(t, s, names) == \A f \in Fields \ names : t[f] = s[f]

LEMMA Nothings ==
    /\ NoUpload \in Uploads /\ NoUpload.handle = 0 /\ NoUpload.token = 0
    /\ NoUpload.download = 0 /\ NoUpload.content = NoContent
    /\ NoTransfer \in Transfers /\ NoTransfer.handle = 0 /\ NoTransfer.token = 0
    /\ NoQuery \in Queries /\ NoQuery.token = 0 /\ ~NoQuery.answered
    /\ NoQuery.result = "none"
    /\ NoContent \in Contents /\ NoContent \notin File
    /\ ForeignFile \in Contents /\ ForeignFile \notin File
<1>1. NoContent \notin File /\ ForeignFile \notin File
  BY AvatarStoreAssumption, AvatarSyncAssumption DEF File, NoContent, ForeignFile, Selections
<1>2. NoContent \in Contents /\ ForeignFile \in Contents
  BY DEF Contents
<1> QED BY <1>1, <1>2 DEF NoUpload, NoTransfer, NoQuery, Uploads, Transfers, Queries

LEMMA Firsts == 0 \in Chosen /\ 1 \in Sizes
  BY AvatarStoreAssumption, AvatarSyncAssumption DEF Chosen, Sizes

LEMMA Numbers ==
    /\ \A n \in Sizes : n \in Nat /\ n > 0 /\ (n + 1 <= Candidates => n + 1 \in Sizes)
    /\ \A n \in Chosen : n \in Nat /\ n <= MaxSelection
  BY AvatarStoreAssumption, AvatarSyncAssumption DEF Chosen, Sizes

-----------------------------------------------------------------------------
(* The inductive invariant. It is stated of an AvatarSync s and of what    *)
(* surrounds it, so that it can be followed through the operations of one  *)
(* step: "out" are the commands on their way and those the step has made,  *)
(* "back" the messages on their way back.                                  *)

\* The transfer that may still act at the server.
Own(s) == IF s.upload # NoUpload THEN s.upload.handle ELSE s.previous.handle

Uploading == {"connect", "write", "update", "hash", "download", "verify", "synced"}
Uploaded == {"update", "hash", "download", "verify", "synced"}
Draining == {"update", "drain", "stop_transfer"}

\* What is under way, and the stages in which it is.
Underway(s) ==
    /\ s.upload # NoUpload =>
        /\ s.previous = NoTransfer /\ s.deleting = 0
        /\ s.upload.handle > 0 /\ s.upload.token > 0 /\ s.upload.content \in File
        /\ s.upload.token <= s.token
        /\ s.stage \in IF s.draining THEN Draining ELSE Uploading
        /\ s.upload.download # s.upload.handle
        /\ s.stage \in {"download", "verify"} => s.upload.download # 0
    /\ s.previous # NoTransfer =>
        /\ s.deleting = 0
        /\ s.previous.handle > 0 /\ s.previous.token > 0 /\ s.previous.token <= s.token
        /\ s.stage \in Uploading \cup Draining
        /\ s.draining \/ (~s.deadline /\ (s.blocked \/ s.stage \in Uploading))
    /\ s.deleting # 0 =>
        /\ s.deleting <= s.token
        /\ s.stage = "delete" \/ (s.stage = "clear_hash" /\ ~s.draining)

\* What a barrier waits for, and what it has asked.
Waiting(s) ==
    /\ s.draining => \/ s.stage = "delete" /\ s.deleting # 0
                     \/ s.stage \in Draining /\ Own(s) # 0
    /\ s.blocked => s.upload = NoUpload /\ s.deleting = 0 /\ ~s.pending /\ s.drainQuery = 0
    /\ s.drainQuery # 0 => s.draining /\ s.stage \in {"drain", "stop_transfer"}
    /\ s.drainId # 0 => s.drainQuery # 0 /\ s.drainId = Own(s)
    /\ s.stage = "stop_transfer" /\ s.drainQuery # 0 => s.drainId # 0
    /\ s.stage = "cleared" => s.upload = NoUpload /\ s.deleting = 0 /\ s.previous = NoTransfer

\* The task, and what is still to be done.
Working(s) ==
    /\ s.worker # "none" => /\ s.stage \in {"load", "write", "verify"} /\ ~s.draining
                            /\ s.worker \in {s.stage, "ended"}
    /\ s.worker # "none" /\ s.stage # "load" => s.upload # NoUpload
    /\ s.worker # "none" /\ s.stage = "load" => s.deadline /\ s.pending
    /\ s.pending /\ ~s.draining =>
            s.upload = NoUpload /\ s.previous = NoTransfer /\ s.deleting = 0
    /\ s.pending \/ s.upload # NoUpload => s.retry
    /\ s.upload # NoUpload => s.next <= Candidates
    /\ s.draining /\ ~s.blocked => s.pending

\* A timer runs for whatever an answer may not come to.
Timed(s) ==
    /\ s.draining /\ ~s.blocked => s.deadline \/ (s.stage = "update" /\ s.upload = NoUpload)
    /\ s.stage = "update" /\ s.upload # NoUpload => s.deadline
    /\ s.stage = "delete" /\ s.deleting # 0 => s.deadline

Known(s) ==
    /\ s.token > 0
    /\ s.upload.handle <= s.handles /\ s.upload.download <= s.handles
    /\ s.previous.handle <= s.handles
    /\ s.query # NoQuery => s.query.token > 0

Local(s) == Underway(s) /\ Waiting(s) /\ Working(s) /\ Timed(s) /\ Known(s)

Mutators == {"upload", "sethash", "delete"}
Exclusive == {"sethash", "delete", "list", "stop"}
At(out, ops) == {i \in DOMAIN out : out[i].op \in ops}
Replies(back, ops) == {i \in DOMAIN back : back[i].kind = "reply" /\ back[i].op \in ops}

\* On the wire: one change of the avatar, one request of those that have to wait for
\* each other, and a list of transfers that says what is still alive.
Wire(out, back, live) ==
    /\ \A x, y \in live : x = y
    /\ \A i, j \in At(out, Mutators) : i = j
    /\ live = {} \/ At(out, Mutators) = {}
    /\ At(out, {"stop"}) = {} \/ At(out, Mutators) = {}
    /\ \A i, j \in At(out, Exclusive) : i = j
    /\ \A i, j \in Replies(back, Exclusive) : i = j
    /\ At(out, Exclusive) = {} \/ Replies(back, Exclusive) = {}
    /\ \A i \in At(out, {"list"}) : i = Len(out)
    /\ Replies(back, {"sethash", "delete"}) # {} => live = {}
    /\ Replies(back, Exclusive) # {} => At(out, Mutators) = {}
    /\ \A i \in DOMAIN back : back[i].kind = "transfers" =>
        /\ i + 1 \in Replies(back, {"list"})
        /\ \A x \in live : x.handle \in back[i].ids

\* A command on its way, and an answer to one, is of what is under way.
Agrees(s, c) ==
    /\ c.op = "upload" => /\ c.handle = Own(s) /\ ~(s.draining /\ s.stage = "stop_transfer")
                          /\ s.upload # NoUpload => s.stage \notin Uploaded \cup {"write"}
    /\ c.op = "sethash" => s.stage = "update" /\ Own(s) # 0
    /\ c.op = "delete" => s.stage = "delete" /\ s.deleting = c.token
    /\ c.op = "list" => s.stage = "drain" /\ s.drainQuery = c.token
    /\ c.op = "stop" => s.stage = "stop_transfer" /\ s.drainQuery = c.token /\ c.id = s.drainId

Suits(s, m, live) ==
    /\ m.op = "sethash" => s.stage = "update" /\ Own(s) # 0
    /\ m.op = "delete" => s.stage = "delete" /\ s.deleting = m.token
    /\ m.op = "list" => s.stage = "drain" /\ s.drainQuery = m.token
    /\ m.op = "stop" => s.stage = "stop_transfer" /\ s.drainQuery = m.token /\ live = {}

Fit(s, out, back, live) ==
    ~s.blocked =>
        /\ \A x \in live : x.handle = Own(s) /\ (s.upload # NoUpload => s.stage \notin Uploaded)
        /\ \A i \in DOMAIN out : Agrees(s, out[i])
        /\ \A i \in DOMAIN back : back[i].kind = "reply" => Suits(s, back[i], live)
        /\ \A i \in Replies(back, {"list"}) :
              s.drainId = 0 /\ (\A j \in 1 .. i : back[j].kind # "transfers") => live = {}

\* Handles and tokens are of the past; a transfer that has ended is over.
Gone(h, out, live) ==
    /\ \A x \in live : x.handle # h
    /\ \A i \in DOMAIN out : out[i].op = "upload" => out[i].handle # h

Given(s, out, back, live, rdy, dn) ==
    /\ \A x \in live : x.handle \in 1 .. s.handles
    /\ \A i \in DOMAIN out :
        IF out[i].op \in {"upload", "download"} THEN out[i].handle \in 1 .. s.handles
                                                ELSE out[i].token > 0
    /\ \A i \in DOMAIN back :
        /\ back[i].kind = "refused" => back[i].handle \in 1 .. s.handles
        /\ back[i].kind = "reply" => back[i].token > 0
    /\ \A t \in rdy : t.handle \in 1 .. s.handles
    /\ \A i \in DOMAIN dn : /\ dn[i].token <= s.token
                            /\ dn[i].kind # "load" => dn[i].handle \in 1 .. s.handles

HasEnded(out, back, live, rdy, dn) ==
    /\ \A i \in DOMAIN dn : dn[i].kind = "write" /\ dn[i].result => Gone(dn[i].handle, out, live)
    /\ \A i \in DOMAIN back :
            back[i].kind = "refused" /\ back[i].why = "size" => Gone(back[i].handle, out, live)
    /\ \A t \in rdy : t.way = "up" =>
            \A i \in DOMAIN out : out[i].op = "upload" => out[i].handle # t.handle

World(s, out, back, live, rdy, dn) ==
    /\ out \in Seq(AvatarCommand) /\ back \in Seq(AvatarMessage) /\ dn \in Seq(AvatarResult)
    /\ live \subseteq [handle : Nat, content : File, fed : BOOLEAN]
    /\ rdy \subseteq [way : {"up", "down"}, handle : Nat]
    /\ Local(s)
    /\ Wire(out, back, live)
    /\ Fit(s, out, back, live)
    /\ Given(s, out, back, live, rdy, dn)
    /\ HasEnded(out, back, live, rdy, dn)

-----------------------------------------------------------------------------
(* What the operations write.                                              *)

LEMMA EnterMoves ==
    ASSUME NEW s \in Syncs, NEW stage \in Stages
    PROVE  /\ Enter(s, stage) \in Syncs
           /\ Enter(s, stage).stage = stage /\ Enter(s, stage).deadline
           /\ Else(Enter(s, stage), s, {"stage", "deadline"})
  BY DEF Enter, Else, Syncs, Fields

LEMMA StopMoves ==
    ASSUME NEW s \in Syncs
    PROVE  /\ Stop(s) \in Syncs
           /\ Stop(s).worker = "none" /\ Stop(s).upload = NoUpload /\ ~Stop(s).deadline
           /\ Else(Stop(s), s, {"worker", "upload", "deadline"})
  BY Nothings DEF Stop, Else, Syncs, Fields, Workers

LEMMA SendMoves ==
    ASSUME NEW s \in Syncs, NEW c \in AvatarCommand
    PROVE  /\ Send(s, c) \in Syncs
           /\ Send(s, c).sent = Append(s.sent, c)
           /\ Else(Send(s, c), s, {"sent"})
<1>1. Append(s.sent, c) \in Seq(AvatarCommand)
  BY DEF Syncs
<1> DEFINE out == Append(s.sent, c)
<1>2. Send(s, c) = [s EXCEPT !.sent = out]
  BY DEF Send
<1>3. out \in Seq(AvatarCommand)
  BY <1>1
<1> HIDE DEF out
<1>4. /\ [s EXCEPT !.sent = out] \in Syncs
      /\ [s EXCEPT !.sent = out].sent = out
      /\ Else([s EXCEPT !.sent = out], s, {"sent"})
  BY <1>3 DEF Else, Syncs, Fields
<1> QED BY <1>2, <1>4 DEF out

\* Whatever fails, the transfer is remembered; a lost answer blocks the rest.
LEMMA FailedMoves ==
    ASSUME NEW s \in Syncs, NEW timeout \in BOOLEAN
    PROVE  LET t == Failed(s, timeout) IN
           /\ t \in Syncs
           /\ t.worker = "none" /\ t.upload = NoUpload /\ ~t.deadline
           /\ t.blocked <=> s.blocked \/ s.draining \/ (timeout /\ s.stage \in Unconfirmed)
           /\ t.deleting = 0 /\ t.drainQuery = 0 /\ t.drainId = 0 /\ ~t.draining
           /\ s.upload # NoUpload /\ s.stage # "synced" =>
                t.previous.token = s.upload.token /\ t.previous.handle = s.upload.handle
           /\ s.upload = NoUpload \/ s.stage = "synced" => t.previous = NoTransfer
           /\ t.choices = 0 /\ ~t.pending /\ ~t.retry
           /\ Else(t, s, {"worker", "upload", "deadline", "blocked", "deleting", "drainQuery",
                          "drainId", "draining", "previous", "choices", "pending", "retry"})
<1> DEFINE u == Stop(s)
           previous == IF s.upload # NoUpload /\ s.stage # "synced"
                       THEN [token |-> s.upload.token, handle |-> s.upload.handle]
                       ELSE NoTransfer
           blocked == u.blocked \/ s.draining \/ (timeout /\ s.stage \in Unconfirmed)
           t == [u EXCEPT !.blocked = blocked, !.deleting = 0, !.drainQuery = 0, !.drainId = 0,
                          !.draining = FALSE, !.previous = previous, !.choices = 0,
                          !.pending = FALSE, !.retry = FALSE]
<1>1. u \in Syncs /\ u.worker = "none" /\ u.upload = NoUpload /\ ~u.deadline
      /\ Else(u, s, {"worker", "upload", "deadline"})
  BY StopMoves
<1>2. previous \in Transfers
  BY Nothings DEF Syncs, Uploads, Transfers
<1>3. blocked \in BOOLEAN /\ (blocked <=> s.blocked \/ s.draining \/ (timeout /\ s.stage \in Unconfirmed))
  BY <1>1 DEF Syncs, Else, Fields
<1>4. Failed(s, timeout) = t
  BY DEF Failed
<1> HIDE DEF u, previous, blocked
<1>5. t \in Syncs
  BY <1>1, <1>2, <1>3, Firsts DEF Syncs
<1>8. /\ t.blocked = blocked /\ t.previous = previous
      /\ t.deleting = 0 /\ t.drainQuery = 0 /\ t.drainId = 0 /\ ~t.draining
      /\ t.choices = 0 /\ ~t.pending /\ ~t.retry
  BY <1>1 DEF Syncs
<1>9. Else(t, u, {"blocked", "deleting", "drainQuery",
                     "drainId", "draining", "previous", "choices", "pending", "retry"})
  BY <1>1 DEF Syncs, Else, Fields
<1> HIDE DEF t
<1>6. t.worker = "none" /\ t.upload = NoUpload /\ ~t.deadline
  BY <1>1, <1>8, <1>9 DEF Else, Fields
<1>7. Else(t, s, {"worker", "upload", "deadline", "blocked", "deleting", "drainQuery",
                          "drainId", "draining", "previous", "choices", "pending", "retry"})
  BY <1>1, <1>8, <1>9 DEF Else, Fields
<1>10. /\ s.upload # NoUpload /\ s.stage # "synced" =>
            previous.token = s.upload.token /\ previous.handle = s.upload.handle
       /\ s.upload = NoUpload \/ s.stage = "synced" => previous = NoTransfer
  BY DEF previous
<1>11. t.blocked <=> s.blocked \/ s.draining \/ (timeout /\ s.stage \in Unconfirmed)
  BY <1>3, <1>8
<1> QED BY <1>4, <1>5, <1>6, <1>7, <1>8, <1>10, <1>11

LEMMA DrainedMoves ==
    ASSUME NEW s \in Syncs
    PROVE  LET t == Drained(s) IN
           /\ t \in Syncs
           /\ t.deleting = 0
           /\ t.drainQuery = 0
           /\ t.drainId = 0
           /\ t.previous = NoTransfer
           /\ ~t.draining
           /\ t.pending
           /\ t.worker = "none"
           /\ t.upload = NoUpload
           /\ ~t.deadline
           /\ Else(t, s, {"worker", "upload", "deadline", "deleting", "drainQuery", "drainId", "previous", "draining", "pending"})
<1> DEFINE u == Stop(s)
           t == [u EXCEPT !.deleting = 0, !.drainQuery = 0, !.drainId = 0,
                          !.previous = NoTransfer, !.draining = FALSE, !.pending = TRUE]
<1>1. /\ u \in Syncs
      /\ u.worker = "none"
      /\ u.upload = NoUpload
      /\ ~u.deadline
      /\ Else(u, s, {"worker", "upload", "deadline"})
  BY StopMoves
<1>2. Drained(s) = t
  BY DEF Drained
<1> HIDE DEF u
<1>3. t \in Syncs
  BY <1>1, Firsts, Nothings DEF Syncs, Workers, Stages
<1>4. t.deleting = 0 /\ t.drainQuery = 0 /\ t.drainId = 0 /\ t.previous = NoTransfer /\ ~t.draining /\ t.pending
  BY <1>1 DEF Syncs, Else, Fields
<1>5. Else(t, u, {"deleting", "drainQuery", "drainId", "previous", "draining", "pending"})
  BY <1>1 DEF Syncs, Else, Fields
<1> HIDE DEF t
<1>6. Else(t, s, {"worker", "upload", "deadline", "deleting", "drainQuery", "drainId", "previous", "draining", "pending"})
  BY <1>1, <1>5 DEF Else, Fields
<1>7. t.worker = "none" /\ t.upload = NoUpload /\ ~t.deadline
  BY <1>1, <1>5 DEF Else, Fields
<1> QED BY <1>2, <1>3, <1>4, <1>6, <1>7

\* The rest of Changed, when nothing has to be waited for.
LEMMA LoadingMoves ==
    ASSUME NEW s \in Syncs
    PROVE  LET t == [Stop(s) EXCEPT !.stage = "load"] IN
           /\ t \in Syncs
           /\ t.stage = "load"
           /\ t.worker = "none"
           /\ t.upload = NoUpload
           /\ ~t.deadline
           /\ Else(t, s, {"worker", "upload", "deadline", "stage"})
  BY StopMoves, Firsts, Nothings DEF Stop, Syncs, Workers, Stages, Else, Fields

LEMMA ReleasedMoves ==
    ASSUME NEW s \in Syncs
    PROVE  LET t == Released(s) IN
           /\ t \in Syncs
           /\ s.stage = "clear_hash" /\ s.deleting # 0 => t.deleting = 0 /\ ~t.draining
           /\ ~(s.stage = "clear_hash" /\ s.deleting # 0) => t = s
           /\ Else(t, s, {"deleting", "draining"})
  BY DEF Released, Syncs, Else, Fields

LEMMA HeldMoves ==
    ASSUME NEW s \in Syncs, NEW w \in Workers
    PROVE  LET t == [s EXCEPT !.draining = TRUE, !.worker = w] IN
           /\ t \in Syncs
           /\ t.draining
           /\ t.worker = w
           /\ Else(t, s, {"draining", "worker"})
  BY DEF Syncs, Else, Fields

LEMMA BarrierMoves ==
    ASSUME NEW s \in Syncs
    PROVE  LET t == Barrier(s) IN
           /\ t \in Syncs /\ t.draining
           /\ s.stage \in Answered => t.stage = s.stage /\ t.deadline = s.deadline
                                       /\ t.worker = s.worker
           /\ s.stage \notin Answered => t.stage = "drain" /\ t.deadline /\ t.worker = "none"
           /\ Else(t, s, {"draining", "worker", "stage", "deadline"})
<1>1. CASE s.stage \in Answered
  BY <1>1 DEF Barrier, Syncs, Else, Fields
<1>2. CASE s.stage \notin Answered
  <2> DEFINE u == [s EXCEPT !.draining = TRUE, !.worker = "none"]
  <2>1. Barrier(s) = Enter(u, "drain")
    BY <1>2 DEF Barrier
  <2>2. u \in Syncs /\ u.draining /\ u.worker = "none" /\ Else(u, s, {"draining", "worker"})
    BY HeldMoves DEF Workers
  <2> HIDE DEF u
  <2>3. LET t == Enter(u, "drain") IN
        t \in Syncs /\ t.stage = "drain" /\ t.deadline /\ Else(t, u, {"stage", "deadline"})
    BY <2>2, EnterMoves DEF Stages
  <2> DEFINE t == Enter(u, "drain")
  <2>4. t \in Syncs /\ t.stage = "drain" /\ t.deadline /\ Else(t, u, {"stage", "deadline"})
    BY <2>3
  <2> HIDE DEF t
  <2>5. Else(t, s, {"draining", "worker", "stage", "deadline"})
    BY <2>2, <2>4 DEF Else, Fields
  <2>6. t.draining /\ t.worker = "none"
    BY <2>2, <2>4 DEF Else, Fields
  <2> QED BY <1>2, <2>1, <2>4, <2>5, <2>6 DEF t
<1> QED BY <1>1, <1>2

LEMMA RevisedMoves ==
    ASSUME NEW s \in Syncs, NEW r \in Nat
    PROVE  LET t == [s EXCEPT !.revision = r] IN
           /\ t \in Syncs
           /\ t.revision = r
           /\ Else(t, s, {"revision"})
  BY DEF Syncs, Else, Fields

Parting(s, n, p) ==
    [Stop(s) EXCEPT !.token = n, !.query = NoQuery, !.queryTimedOut = FALSE,
        !.deleting = 0, !.drainQuery = 0, !.drainId = 0, !.previous = NoTransfer,
        !.draining = FALSE, !.blocked = FALSE, !.clear = FALSE, !.choices = 0,
        !.pending = p, !.next = 1]

LEMMA PartingMoves ==
    ASSUME NEW s \in Syncs, NEW n \in Nat, NEW p \in BOOLEAN
    PROVE  LET t == Parting(s, n, p) IN
           /\ t \in Syncs
           /\ t.token = n
           /\ t.query = NoQuery
           /\ ~t.queryTimedOut
           /\ t.deleting = 0
           /\ t.drainQuery = 0
           /\ t.drainId = 0
           /\ t.previous = NoTransfer
           /\ ~t.draining
           /\ ~t.blocked
           /\ ~t.clear
           /\ t.choices = 0
           /\ t.pending = p
           /\ t.next = 1
           /\ t.worker = "none"
           /\ t.upload = NoUpload
           /\ ~t.deadline
           /\ Else(t, s, {"worker", "upload", "deadline", "token", "query", "queryTimedOut", "deleting", "drainQuery", "drainId", "previous", "draining", "blocked", "clear", "choices", "pending", "next"})
<1> DEFINE u == Stop(s)
           t == [u EXCEPT !.token = n, !.query = NoQuery, !.queryTimedOut = FALSE,
        !.deleting = 0, !.drainQuery = 0, !.drainId = 0, !.previous = NoTransfer,
        !.draining = FALSE, !.blocked = FALSE, !.clear = FALSE, !.choices = 0,
        !.pending = p, !.next = 1]
<1>1. /\ u \in Syncs
      /\ u.worker = "none"
      /\ u.upload = NoUpload
      /\ ~u.deadline
      /\ Else(u, s, {"worker", "upload", "deadline"})
  BY StopMoves
<1>2. Parting(s, n, p) = t
  BY DEF Parting
<1> HIDE DEF u
<1>3. t \in Syncs
  BY <1>1, Firsts, Nothings DEF Syncs, Workers, Stages
<1>4. t.token = n /\ t.query = NoQuery /\ ~t.queryTimedOut /\ t.deleting = 0 /\ t.drainQuery = 0 /\ t.drainId = 0 /\ t.previous = NoTransfer /\ ~t.draining /\ ~t.blocked /\ ~t.clear /\ t.choices = 0 /\ t.pending = p /\ t.next = 1
  BY <1>1 DEF Syncs, Else, Fields
<1>5. Else(t, u, {"token", "query", "queryTimedOut", "deleting", "drainQuery", "drainId", "previous", "draining", "blocked", "clear", "choices", "pending", "next"})
  BY <1>1 DEF Syncs, Else, Fields
<1> HIDE DEF t
<1>6. Else(t, s, {"worker", "upload", "deadline", "token", "query", "queryTimedOut", "deleting", "drainQuery", "drainId", "previous", "draining", "blocked", "clear", "choices", "pending", "next"})
  BY <1>1, <1>5 DEF Else, Fields
<1>7. t.worker = "none" /\ t.upload = NoUpload /\ ~t.deadline
  BY <1>1, <1>5 DEF Else, Fields
<1> QED BY <1>2, <1>3, <1>4, <1>6, <1>7

LEMMA ConfirmedMoves ==
    ASSUME NEW s \in Syncs
    PROVE  LET t == [s EXCEPT !.deleting = 0, !.stage = "cleared", !.deadline = FALSE] IN
           /\ t \in Syncs
           /\ t.deleting = 0
           /\ t.stage = "cleared"
           /\ ~t.deadline
           /\ Else(t, s, {"deleting", "stage", "deadline"})
  BY DEF Stages, Syncs, Else, Fields

LEMMA AskingMoves ==
    ASSUME NEW s \in Syncs, NEW n \in Nat
    PROVE  LET t == [s EXCEPT !.drainQuery = n] IN
           /\ t \in Syncs
           /\ t.drainQuery = n
           /\ Else(t, s, {"drainQuery"})
  BY DEF Syncs, Else, Fields

LEMMA FoundMoves ==
    ASSUME NEW s \in Syncs, NEW n \in Nat
    PROVE  LET t == [s EXCEPT !.drainId = n] IN
           /\ t \in Syncs
           /\ t.drainId = n
           /\ Else(t, s, {"drainId"})
  BY DEF Syncs, Else, Fields

LEMMA SettledMoves ==
    ASSUME NEW s \in Syncs
    PROVE  LET t == [s EXCEPT !.pending = FALSE, !.deadline = FALSE] IN
           /\ t \in Syncs
           /\ ~t.pending
           /\ ~t.deadline
           /\ Else(t, s, {"pending", "deadline"})
  BY DEF Syncs, Else, Fields

LEMMA EmptyMoves ==
    ASSUME NEW s \in Syncs
    PROVE  LET t == [s EXCEPT !.pending = FALSE, !.stage = "cleared", !.deadline = FALSE] IN
           /\ t \in Syncs
           /\ ~t.pending
           /\ t.stage = "cleared"
           /\ ~t.deadline
           /\ Else(t, s, {"pending", "stage", "deadline"})
  BY DEF Stages, Syncs, Else, Fields

LEMMA DeletingMoves ==
    ASSUME NEW s \in Syncs
    PROVE  LET t == [Enter(s, "delete") EXCEPT !.pending = FALSE, !.missing = FALSE, !.deleting = s.token] IN
           /\ t \in Syncs
           /\ ~t.pending
           /\ ~t.missing
           /\ t.deleting = s.token
           /\ t.stage = "delete"
           /\ t.deadline
           /\ Else(t, s, {"stage", "deadline", "pending", "missing", "deleting"})
<1> DEFINE u == Enter(s, "delete")
           t == [u EXCEPT !.pending = FALSE, !.missing = FALSE, !.deleting = s.token]
<1>1. /\ u \in Syncs
      /\ u.stage = "delete"
      /\ u.deadline
      /\ Else(u, s, {"stage", "deadline"})
  BY EnterMoves DEF Stages
<1>2. [Enter(s, "delete") EXCEPT !.pending = FALSE, !.missing = FALSE, !.deleting = s.token] = t
  BY DEF Enter
<1> HIDE DEF u
<1>3. t \in Syncs
  BY <1>1, Firsts, Nothings DEF Syncs, Workers, Stages
<1>4. ~t.pending /\ ~t.missing /\ t.deleting = s.token
  BY <1>1 DEF Syncs, Else, Fields
<1>5. Else(t, u, {"pending", "missing", "deleting"})
  BY <1>1 DEF Syncs, Else, Fields
<1> HIDE DEF t
<1>6. Else(t, s, {"stage", "deadline", "pending", "missing", "deleting"})
  BY <1>1, <1>5 DEF Else, Fields
<1>7. t.stage = "delete" /\ t.deadline
  BY <1>1, <1>5 DEF Else, Fields
<1> QED BY <1>2, <1>3, <1>4, <1>6, <1>7

LEMMA LoadMoves ==
    ASSUME NEW s \in Syncs
    PROVE  LET t == [Enter(s, "load") EXCEPT !.worker = "load"] IN
           /\ t \in Syncs
           /\ t.worker = "load"
           /\ t.stage = "load"
           /\ t.deadline
           /\ Else(t, s, {"stage", "deadline", "worker"})
<1> DEFINE u == Enter(s, "load")
           t == [u EXCEPT !.worker = "load"]
<1>1. /\ u \in Syncs
      /\ u.stage = "load"
      /\ u.deadline
      /\ Else(u, s, {"stage", "deadline"})
  BY EnterMoves DEF Stages
<1>2. [Enter(s, "load") EXCEPT !.worker = "load"] = t
  BY DEF Enter
<1> HIDE DEF u
<1>3. t \in Syncs
  BY <1>1, Firsts, Nothings DEF Syncs, Workers, Stages
<1>4. t.worker = "load"
  BY <1>1 DEF Syncs, Else, Fields
<1>5. Else(t, u, {"worker"})
  BY <1>1 DEF Syncs, Else, Fields
<1> HIDE DEF t
<1>6. Else(t, s, {"stage", "deadline", "worker"})
  BY <1>1, <1>5 DEF Else, Fields
<1>7. t.stage = "load" /\ t.deadline
  BY <1>1, <1>5 DEF Else, Fields
<1> QED BY <1>2, <1>3, <1>4, <1>6, <1>7

LEMMA WriteMoves ==
    ASSUME NEW s \in Syncs
    PROVE  LET t == [Enter(s, "write") EXCEPT !.worker = "write"] IN
           /\ t \in Syncs
           /\ t.worker = "write"
           /\ t.stage = "write"
           /\ t.deadline
           /\ Else(t, s, {"stage", "deadline", "worker"})
<1> DEFINE u == Enter(s, "write")
           t == [u EXCEPT !.worker = "write"]
<1>1. /\ u \in Syncs
      /\ u.stage = "write"
      /\ u.deadline
      /\ Else(u, s, {"stage", "deadline"})
  BY EnterMoves DEF Stages
<1>2. [Enter(s, "write") EXCEPT !.worker = "write"] = t
  BY DEF Enter
<1> HIDE DEF u
<1>3. t \in Syncs
  BY <1>1, Firsts, Nothings DEF Syncs, Workers, Stages
<1>4. t.worker = "write"
  BY <1>1 DEF Syncs, Else, Fields
<1>5. Else(t, u, {"worker"})
  BY <1>1 DEF Syncs, Else, Fields
<1> HIDE DEF t
<1>6. Else(t, s, {"stage", "deadline", "worker"})
  BY <1>1, <1>5 DEF Else, Fields
<1>7. t.stage = "write" /\ t.deadline
  BY <1>1, <1>5 DEF Else, Fields
<1> QED BY <1>2, <1>3, <1>4, <1>6, <1>7

LEMMA VerifyingMoves ==
    ASSUME NEW s \in Syncs
    PROVE  LET t == [Enter(s, "verify") EXCEPT !.worker = "verify"] IN
           /\ t \in Syncs
           /\ t.worker = "verify"
           /\ t.stage = "verify"
           /\ t.deadline
           /\ Else(t, s, {"stage", "deadline", "worker"})
<1> DEFINE u == Enter(s, "verify")
           t == [u EXCEPT !.worker = "verify"]
<1>1. /\ u \in Syncs
      /\ u.stage = "verify"
      /\ u.deadline
      /\ Else(u, s, {"stage", "deadline"})
  BY EnterMoves DEF Stages
<1>2. [Enter(s, "verify") EXCEPT !.worker = "verify"] = t
  BY DEF Enter
<1> HIDE DEF u
<1>3. t \in Syncs
  BY <1>1, Firsts, Nothings DEF Syncs, Workers, Stages
<1>4. t.worker = "verify"
  BY <1>1 DEF Syncs, Else, Fields
<1>5. Else(t, u, {"worker"})
  BY <1>1 DEF Syncs, Else, Fields
<1> HIDE DEF t
<1>6. Else(t, s, {"stage", "deadline", "worker"})
  BY <1>1, <1>5 DEF Else, Fields
<1>7. t.stage = "verify" /\ t.deadline
  BY <1>1, <1>5 DEF Else, Fields
<1> QED BY <1>2, <1>3, <1>4, <1>6, <1>7

Shrinking(s, n, p) == [Stop(s) EXCEPT !.next = n, !.pending = p]

LEMMA ShrinkingMoves ==
    ASSUME NEW s \in Syncs, NEW n \in Sizes, NEW p \in BOOLEAN
    PROVE  LET t == Shrinking(s, n, p) IN
           /\ t \in Syncs
           /\ t.next = n
           /\ t.pending = p
           /\ t.worker = "none"
           /\ t.upload = NoUpload
           /\ ~t.deadline
           /\ Else(t, s, {"worker", "upload", "deadline", "next", "pending"})
<1> DEFINE u == Stop(s)
           t == [u EXCEPT !.next = n, !.pending = p]
<1>1. /\ u \in Syncs
      /\ u.worker = "none"
      /\ u.upload = NoUpload
      /\ ~u.deadline
      /\ Else(u, s, {"worker", "upload", "deadline"})
  BY StopMoves
<1>2. Shrinking(s, n, p) = t
  BY DEF Shrinking
<1> HIDE DEF u
<1>3. t \in Syncs
  BY <1>1, Firsts, Nothings DEF Syncs, Workers, Stages
<1>4. t.next = n /\ t.pending = p
  BY <1>1 DEF Syncs, Else, Fields
<1>5. Else(t, u, {"next", "pending"})
  BY <1>1 DEF Syncs, Else, Fields
<1> HIDE DEF t
<1>6. Else(t, s, {"worker", "upload", "deadline", "next", "pending"})
  BY <1>1, <1>5 DEF Else, Fields
<1>7. t.worker = "none" /\ t.upload = NoUpload /\ ~t.deadline
  BY <1>1, <1>5 DEF Else, Fields
<1> QED BY <1>2, <1>3, <1>4, <1>6, <1>7

LEMMA ClearingMoves ==
    ASSUME NEW s \in Syncs, NEW m \in BOOLEAN
    PROVE  LET t == [Enter(s, "clear_hash") EXCEPT !.missing = m] IN
           /\ t \in Syncs
           /\ t.missing = m
           /\ t.stage = "clear_hash"
           /\ t.deadline
           /\ Else(t, s, {"stage", "deadline", "missing"})
<1> DEFINE u == Enter(s, "clear_hash")
           t == [u EXCEPT !.missing = m]
<1>1. /\ u \in Syncs
      /\ u.stage = "clear_hash"
      /\ u.deadline
      /\ Else(u, s, {"stage", "deadline"})
  BY EnterMoves DEF Stages
<1>2. [Enter(s, "clear_hash") EXCEPT !.missing = m] = t
  BY DEF Enter
<1> HIDE DEF u
<1>3. t \in Syncs
  BY <1>1, Firsts, Nothings DEF Syncs, Workers, Stages
<1>4. t.missing = m
  BY <1>1 DEF Syncs, Else, Fields
<1>5. Else(t, u, {"missing"})
  BY <1>1 DEF Syncs, Else, Fields
<1> HIDE DEF t
<1>6. Else(t, s, {"stage", "deadline", "missing"})
  BY <1>1, <1>5 DEF Else, Fields
<1>7. t.stage = "clear_hash" /\ t.deadline
  BY <1>1, <1>5 DEF Else, Fields
<1> QED BY <1>2, <1>3, <1>4, <1>6, <1>7

LEMMA QueryMoves ==
    ASSUME NEW s \in Syncs, NEW q \in Queries, NEW late \in BOOLEAN
    PROVE  LET t == [s EXCEPT !.query = q, !.queryTimedOut = late] IN
           /\ t \in Syncs
           /\ t.query = q
           /\ t.queryTimedOut = late
           /\ Else(t, s, {"query", "queryTimedOut"})
  BY DEF Syncs, Else, Fields

LEMMA QueryingMoves ==
    ASSUME NEW s \in Syncs, NEW q \in Queries
    PROVE  LET t == [s EXCEPT !.query = q] IN
           /\ t \in Syncs
           /\ t.query = q
           /\ Else(t, s, {"query"})
  BY DEF Syncs, Else, Fields

LEMMA IdleMoves ==
    ASSUME NEW s \in Syncs, NEW w \in Workers
    PROVE  LET t == [s EXCEPT !.worker = w] IN
           /\ t \in Syncs
           /\ t.worker = w
           /\ Else(t, s, {"worker"})
  BY DEF Syncs, Else, Fields

Choosing(s, b, n) == [Enter(s, "own") EXCEPT !.clear = b, !.choices = n]

LEMMA ChoosingMoves ==
    ASSUME NEW s \in Syncs, NEW b \in BOOLEAN, NEW n \in Chosen
    PROVE  LET t == Choosing(s, b, n) IN
           /\ t \in Syncs
           /\ t.clear = b
           /\ t.choices = n
           /\ t.stage = "own"
           /\ t.deadline
           /\ Else(t, s, {"stage", "deadline", "clear", "choices"})
<1> DEFINE u == Enter(s, "own")
           t == [u EXCEPT !.clear = b, !.choices = n]
<1>1. /\ u \in Syncs
      /\ u.stage = "own"
      /\ u.deadline
      /\ Else(u, s, {"stage", "deadline"})
  BY EnterMoves DEF Stages
<1>2. Choosing(s, b, n) = t
  BY DEF Choosing
<1> HIDE DEF u
<1>3. t \in Syncs
  BY <1>1, Firsts, Nothings DEF Syncs, Workers, Stages
<1>4. t.clear = b /\ t.choices = n
  BY <1>1 DEF Syncs, Else, Fields
<1>5. Else(t, u, {"clear", "choices"})
  BY <1>1 DEF Syncs, Else, Fields
<1> HIDE DEF t
<1>6. Else(t, s, {"stage", "deadline", "clear", "choices"})
  BY <1>1, <1>5 DEF Else, Fields
<1>7. t.stage = "own" /\ t.deadline
  BY <1>1, <1>5 DEF Else, Fields
<1> QED BY <1>2, <1>3, <1>4, <1>6, <1>7

LEMMA SyncedMoves ==
    ASSUME NEW s \in Syncs
    PROVE  LET t == [s EXCEPT !.stage = "synced", !.deadline = FALSE, !.choices = 0] IN
           /\ t \in Syncs
           /\ t.stage = "synced"
           /\ ~t.deadline
           /\ t.choices = 0
           /\ Else(t, s, {"stage", "deadline", "choices"})
  BY Firsts DEF Stages, Syncs, Else, Fields

LEMMA HandedMoves ==
    ASSUME NEW s \in Syncs, NEW q \in Seq(AvatarCommand)
    PROVE  LET t == [s EXCEPT !.sent = q] IN
           /\ t \in Syncs
           /\ t.sent = q
           /\ Else(t, s, {"sent"})
  BY DEF Syncs, Else, Fields

Connecting(s, h, x) ==
    [Enter(s, "connect") EXCEPT !.pending = FALSE, !.handles = h, !.upload = x]

LEMMA ConnectingMoves ==
    ASSUME NEW s \in Syncs, NEW h \in Nat, NEW x \in Uploads
    PROVE  LET t == Connecting(s, h, x) IN
           /\ t \in Syncs
           /\ ~t.pending
           /\ t.handles = h
           /\ t.upload = x
           /\ t.stage = "connect"
           /\ t.deadline
           /\ Else(t, s, {"stage", "deadline", "pending", "handles", "upload"})
<1> DEFINE u == Enter(s, "connect")
           t == [u EXCEPT !.pending = FALSE, !.handles = h, !.upload = x]
<1>1. /\ u \in Syncs
      /\ u.stage = "connect"
      /\ u.deadline
      /\ Else(u, s, {"stage", "deadline"})
  BY EnterMoves DEF Stages
<1>2. Connecting(s, h, x) = t
  BY DEF Connecting
<1> HIDE DEF u
<1>3. t \in Syncs
  BY <1>1, Firsts, Nothings DEF Syncs, Workers, Stages
<1>4. ~t.pending /\ t.handles = h /\ t.upload = x
  BY <1>1 DEF Syncs, Else, Fields
<1>5. Else(t, u, {"pending", "handles", "upload"})
  BY <1>1 DEF Syncs, Else, Fields
<1> HIDE DEF t
<1>6. Else(t, s, {"stage", "deadline", "pending", "handles", "upload"})
  BY <1>1, <1>5 DEF Else, Fields
<1>7. t.stage = "connect" /\ t.deadline
  BY <1>1, <1>5 DEF Else, Fields
<1> QED BY <1>2, <1>3, <1>4, <1>6, <1>7

Fetching(s, h, x) == [Enter(s, "download") EXCEPT !.handles = h, !.upload = x]

LEMMA FetchingMoves ==
    ASSUME NEW s \in Syncs, NEW h \in Nat, NEW x \in Uploads
    PROVE  LET t == Fetching(s, h, x) IN
           /\ t \in Syncs
           /\ t.handles = h
           /\ t.upload = x
           /\ t.stage = "download"
           /\ t.deadline
           /\ Else(t, s, {"stage", "deadline", "handles", "upload"})
<1> DEFINE u == Enter(s, "download")
           t == [u EXCEPT !.handles = h, !.upload = x]
<1>1. /\ u \in Syncs
      /\ u.stage = "download"
      /\ u.deadline
      /\ Else(u, s, {"stage", "deadline"})
  BY EnterMoves DEF Stages
<1>2. Fetching(s, h, x) = t
  BY DEF Fetching
<1> HIDE DEF u
<1>3. t \in Syncs
  BY <1>1, Firsts, Nothings DEF Syncs, Workers, Stages
<1>4. t.handles = h /\ t.upload = x
  BY <1>1 DEF Syncs, Else, Fields
<1>5. Else(t, u, {"handles", "upload"})
  BY <1>1 DEF Syncs, Else, Fields
<1> HIDE DEF t
<1>6. Else(t, s, {"stage", "deadline", "handles", "upload"})
  BY <1>1, <1>5 DEF Else, Fields
<1>7. t.stage = "download" /\ t.deadline
  BY <1>1, <1>5 DEF Else, Fields
<1> QED BY <1>2, <1>3, <1>4, <1>6, <1>7

-----------------------------------------------------------------------------
(* What an operation has to keep.                                          *)

LEMMA WorldStays ==
    ASSUME NEW s \in Syncs, NEW t \in Syncs, NEW out, NEW back, NEW live, NEW rdy, NEW dn,
           World(s, out, back, live, rdy, dn),
           t.handles >= s.handles, t.token >= s.token,
           Local(t), Fit(t, out, back, live)
    PROVE  World(t, out, back, live, rdy, dn)
<1>1. s.handles \in Nat /\ t.handles \in Nat /\ s.token \in Nat /\ t.token \in Nat
  BY DEF Syncs
<1>2. \A n \in Int : n \in 1 .. s.handles => n \in 1 .. t.handles
  BY <1>1
<1>3. \A n \in Int : n <= s.token => n <= t.token
  BY <1>1
<1>4. dn \in Seq(AvatarResult) /\ \A i \in DOMAIN dn : dn[i].token \in Int
  BY DEF World, AvatarResult
<1>5. Given(t, out, back, live, rdy, dn)
  BY <1>1, <1>3, <1>4 DEF World, Given
<1> QED BY <1>5 DEF World

LEMMA FitStays ==
    ASSUME NEW s \in Syncs, NEW t \in Syncs, NEW out, NEW back, NEW live,
           Fit(s, out, back, live),
           s.blocked => t.blocked,
           Own(t) = Own(s), t.upload # NoUpload => s.upload # NoUpload,
           t.stage = s.stage, t.deleting = s.deleting,
           t.draining => s.draining,
           t.drainQuery = s.drainQuery, t.drainId = s.drainId
    PROVE  Fit(t, out, back, live)
  BY DEF Fit, Agrees, Suits

\* Nothing of the session is under way.
Quiet(out, back, live) ==
    live = {} /\ At(out, Mutators \cup Exclusive) = {} /\ Replies(back, Exclusive) = {}

LEMMA RestFits ==
    ASSUME NEW t \in Syncs, NEW out \in Seq(AvatarCommand), NEW back \in Seq(AvatarMessage), NEW live,
           Quiet(out, back, live)
    PROVE  Fit(t, out, back, live)
  BY DEF Quiet, At, Replies, Agrees, Mutators, Exclusive, Suits, Fit

LEMMA IdleRests ==
    ASSUME NEW s \in Syncs, NEW out, NEW back, NEW live, NEW rdy, NEW dn,
           World(s, out, back, live, rdy, dn), ~s.blocked, s.drainQuery = 0,
           \/ Own(s) = 0
           \/ s.upload # NoUpload /\ s.stage \in Uploaded \ {"update"},
           s.deleting = 0 \/ s.stage # "delete"
    PROVE  Quiet(out, back, live)
<1>1. Local(s) /\ Fit(s, out, back, live) /\ Given(s, out, back, live, rdy, dn)
  BY DEF World
<1>2. live = {}
  BY <1>1 DEF Fit, Given, Uploaded
<1>3. \A i \in DOMAIN out : out[i].op \in Mutators \cup Exclusive => FALSE
  BY <1>1 DEF Fit, Given, Local, Underway, Agrees, Uploaded, Syncs, Mutators, Exclusive
<1>4. \A i \in DOMAIN back : back[i].kind = "reply" /\ back[i].op \in Exclusive => FALSE
  BY <1>1 DEF Fit, Given, Suits, Uploaded, Exclusive
<1> QED BY <1>2, <1>3, <1>4 DEF Quiet, At, Replies

LEMMA FailedWorld ==
    ASSUME NEW s \in Syncs, NEW timeout \in BOOLEAN,
           NEW out, NEW back, NEW live, NEW rdy, NEW dn,
           World(s, out, back, live, rdy, dn),
           \/ s.draining
           \/ timeout /\ s.stage \in Unconfirmed
           \/ s.previous = NoTransfer /\ (\/ ~(s.stage = "delete" /\ s.deleting # 0)
                                          \/ Quiet(out, back, live))
    PROVE  World(Failed(s, timeout), out, back, live, rdy, dn)
<1> DEFINE t == Failed(s, timeout)
<1>1. /\ t \in Syncs
      /\ t.worker = "none" /\ t.upload = NoUpload /\ ~t.deadline
      /\ t.blocked <=> s.blocked \/ s.draining \/ (timeout /\ s.stage \in Unconfirmed)
      /\ t.deleting = 0 /\ t.drainQuery = 0 /\ t.drainId = 0 /\ ~t.draining
      /\ s.upload # NoUpload /\ s.stage # "synced" =>
           t.previous.token = s.upload.token /\ t.previous.handle = s.upload.handle
      /\ s.upload = NoUpload \/ s.stage = "synced" => t.previous = NoTransfer
      /\ ~t.pending
      /\ t.stage = s.stage /\ t.token = s.token /\ t.query = s.query /\ t.handles = s.handles
  BY FailedMoves DEF Else, Fields
<1> HIDE DEF t
<1>2. Local(s) /\ Fit(s, out, back, live) /\ Given(s, out, back, live, rdy, dn)
  BY DEF World
<1>3. Underway(t)
  BY <1>1, <1>2, Nothings DEF Local, Underway, Known, Syncs, Uploads, Uploading, Draining
<1>4. Waiting(t)
  BY <1>1, <1>2, Nothings DEF Local, Underway, Waiting
<1>5. Working(t) /\ Timed(t)
  BY <1>1 DEF Working, Timed
<1>6. Known(t)
  BY <1>1, <1>2, Nothings DEF Local, Known, Syncs
<1>7. Fit(t, out, back, live)
  <2> SUFFICES ASSUME ~t.blocked PROVE Fit(t, out, back, live)
    BY DEF Fit
  <2>1. Fit(s, out, back, live) /\ ~s.blocked /\ ~s.draining /\ s.drainQuery = 0
    BY <1>1, <1>2 DEF Local, Waiting
  <2>2. CASE s.upload # NoUpload /\ s.stage # "synced"
    BY <1>1, <1>2, <2>1, <2>2, FitStays DEF Own, Local, Underway, Waiting
  <2>3. CASE s.upload = NoUpload \/ s.stage = "synced"
    BY <1>1, RestFits, <2>1, <2>3, Nothings, IdleRests DEF World, Own, Uploaded, Unconfirmed
  <2> QED BY <2>2, <2>3
<1> QED BY <1>1, <1>2, <1>3, <1>4, <1>5, <1>6, <1>7, WorldStays DEF Local, t, Syncs

LEMMA Appended ==
    ASSUME NEW out \in Seq(AvatarCommand), NEW c \in AvatarCommand
    PROVE  /\ Append(out, c) \in Seq(AvatarCommand)
           /\ Len(Append(out, c)) = Len(out) + 1
           /\ DOMAIN Append(out, c) = DOMAIN out \cup {Len(out) + 1}
           /\ Len(out) + 1 \notin DOMAIN out
           /\ \A i \in DOMAIN out : Append(out, c)[i] = out[i]
           /\ Append(out, c)[Len(out) + 1] = c
  OBVIOUS

\* A command joins those on their way.
LEMMA SendsWorld ==
    ASSUME NEW t \in Syncs, NEW out, NEW back, NEW live, NEW rdy, NEW dn, NEW c \in AvatarCommand,
           World(t, out, back, live, rdy, dn), Agrees(t, c),
           IF c.op \in {"upload", "download"} THEN c.handle \in 1 .. t.handles ELSE c.token > 0,
           At(out, {"list"}) = {},
           c.op \in Exclusive => /\ At(out, Exclusive) = {} /\ Replies(back, Exclusive) = {}
                                 /\ c.op = "list" \/ At(out, Mutators) = {},
           c.op \in Mutators =>
                /\ live = {} /\ Replies(back, Exclusive) = {}
                /\ At(out, Mutators) = {} /\ At(out, Exclusive) = {},
           c.op = "upload" =>
                /\ \A i \in DOMAIN dn : dn[i].kind = "write" => dn[i].handle # c.handle
                /\ \A i \in DOMAIN back : back[i].kind = "refused" => back[i].handle # c.handle
                /\ \A r \in rdy : r.handle # c.handle
    PROVE  World(t, Append(out, c), back, live, rdy, dn)
<1> DEFINE q == Append(out, c)
           n == Len(out) + 1
<1>1. /\ q \in Seq(AvatarCommand) /\ Len(q) = n
      /\ DOMAIN q = DOMAIN out \cup {n} /\ n \notin DOMAIN out
      /\ \A i \in DOMAIN out : q[i] = out[i]
      /\ q[n] = c
  BY Appended DEF World
<1> HIDE DEF q, n
<1>2. \A ops : At(q, ops) = At(out, ops) \cup (IF c.op \in ops THEN {n} ELSE {})
  BY <1>1 DEF At
<1>3. Wire(out, back, live) /\ Fit(t, out, back, live)
      /\ Given(t, out, back, live, rdy, dn) /\ HasEnded(out, back, live, rdy, dn)
  BY DEF World
<1>4. Wire(q, back, live)
  <2>1. At(q, Mutators) = At(out, Mutators) \cup (IF c.op \in Mutators THEN {n} ELSE {})
    BY <1>2
  <2>2. At(q, Exclusive) = At(out, Exclusive) \cup (IF c.op \in Exclusive THEN {n} ELSE {})
    BY <1>2
  <2>3. At(q, {"list"}) = At(out, {"list"}) \cup (IF c.op = "list" THEN {n} ELSE {})
    BY <1>2
  <2>4. \A i, j \in At(q, Mutators) : i = j
    BY <1>3, <2>1 DEF Wire
  <2>5. live = {} \/ At(q, Mutators) = {}
    BY <1>3, <2>1 DEF Wire
  <2>6. \A i, j \in At(q, Exclusive) : i = j
    BY <1>3, <2>2 DEF Wire
  <2>7. At(q, Exclusive) = {} \/ Replies(back, Exclusive) = {}
    BY <1>3, <2>2 DEF Wire
  <2>8. \A i \in At(q, {"list"}) : i = Len(q)
    BY <1>1, <2>3
  <2>9. Replies(back, Exclusive) # {} => At(q, Mutators) = {}
    BY <1>3, <2>1 DEF Wire
  <2>10. At(q, {"stop"}) = {} \/ At(q, Mutators) = {}
    <3>1. At(q, {"stop"}) = At(out, {"stop"}) \cup (IF c.op = "stop" THEN {n} ELSE {})
      BY <1>2
    <3>2. At(out, {"stop"}) \subseteq At(out, Exclusive)
      BY DEF At, Exclusive
    <3>3. c.op = "stop" => c.op \in Exclusive /\ c.op \notin Mutators
      BY DEF Exclusive, Mutators
    <3> QED BY <1>3, <2>1, <3>1, <3>2, <3>3 DEF Wire
  <2> QED BY <1>3, <2>4, <2>5, <2>6, <2>7, <2>8, <2>9, <2>10 DEF Wire
<1>5. Fit(t, q, back, live)
  BY <1>1, <1>3 DEF Fit
<1>6. Given(t, q, back, live, rdy, dn)
  BY <1>1, <1>3 DEF Given
<1>7. HasEnded(q, back, live, rdy, dn)
  BY <1>1, <1>3 DEF Gone, HasEnded
<1> QED BY <1>1, <1>4, <1>5, <1>6, <1>7 DEF World, q

LEMMA Tailed ==
    ASSUME NEW S, NEW back \in Seq(S), back # << >>
    PROVE  /\ Tail(back) \in Seq(S) /\ Len(Tail(back)) = Len(back) - 1
           /\ \A i \in DOMAIN Tail(back) : i \in Nat /\ i > 0 /\ i + 1 \in DOMAIN back /\ Tail(back)[i] = back[i + 1]
           /\ \A i \in DOMAIN back : i # 1 => i - 1 \in DOMAIN Tail(back)
           /\ 1 \in DOMAIN back /\ Head(back) = back[1]
  OBVIOUS

\* A message is taken from those on their way back.
LEMMA TakenWorld ==
    ASSUME NEW s \in Syncs, NEW out, NEW back, NEW live, NEW rdy, NEW dn,
           World(s, out, back, live, rdy, dn), back # << >>,
           Head(back).kind # "transfers" \/ s.blocked \/ s.drainId # 0 \/ live = {}
    PROVE  World(s, out, Tail(back), live, rdy, dn)
<1> DEFINE r == Tail(back)
<1>1. /\ r \in Seq(AvatarMessage)
      /\ \A i \in DOMAIN r : i \in Nat /\ i > 0 /\ i + 1 \in DOMAIN back /\ r[i] = back[i + 1]
      /\ \A i \in DOMAIN back : i # 1 => i - 1 \in DOMAIN r
      /\ 1 \in DOMAIN back /\ Head(back) = back[1]
  BY Tailed DEF World
<1> HIDE DEF r
<1>2. Wire(out, back, live) /\ Fit(s, out, back, live)
      /\ Given(s, out, back, live, rdy, dn) /\ HasEnded(out, back, live, rdy, dn)
  BY DEF World
<1>3. \A ops, i : i \in Replies(r, ops) => i + 1 \in Replies(back, ops) /\ i \in Nat
  BY <1>1 DEF Replies
<1>4. Wire(out, r, live)
  <2>1. \A i, j \in Replies(r, Exclusive) : i = j
    BY <1>2, <1>3 DEF Wire
  <2>2. At(out, Exclusive) = {} \/ Replies(r, Exclusive) = {}
    BY <1>2, <1>3 DEF Wire
  <2>3. Replies(r, {"sethash", "delete"}) # {} => live = {}
    BY <1>2, <1>3 DEF Wire
  <2>4. Replies(r, Exclusive) # {} => At(out, Mutators) = {}
    BY <1>2, <1>3 DEF Wire
  <2>5. ASSUME NEW i \in DOMAIN r, r[i].kind = "transfers"
        PROVE  i + 1 \in Replies(r, {"list"}) /\ \A x \in live : x.handle \in r[i].ids
    <3>1. i + 1 \in DOMAIN back /\ r[i] = back[i + 1] /\ i \in Nat /\ i > 0
      BY <1>1
    <3>2. i + 1 + 1 \in Replies(back, {"list"}) /\ \A x \in live : x.handle \in back[i + 1].ids
      BY <1>2, <2>5, <3>1 DEF Wire
    <3>3. i + 1 \in DOMAIN r /\ r[i + 1] = back[i + 1 + 1]
      <4>1. i + 1 + 1 \in DOMAIN back /\ i + 1 + 1 # 1
        BY <3>1, <3>2 DEF Replies
      <4>2. i + 1 + 1 - 1 \in DOMAIN r
        BY <1>1, <4>1
      <4>3. i + 1 + 1 - 1 = i + 1
        BY <3>1
      <4> QED BY <1>1, <4>2, <4>3
    <3> QED BY <3>1, <3>2, <3>3 DEF Replies
  <2> QED BY <1>2, <2>1, <2>2, <2>3, <2>4, <2>5 DEF Wire
<1>5. Fit(s, out, r, live)
  <2> SUFFICES ASSUME ~s.blocked PROVE Fit(s, out, r, live)
    BY DEF Fit
  <2>1. \A i \in DOMAIN r : r[i].kind = "reply" => Suits(s, r[i], live)
    BY <1>1, <1>2 DEF Fit
  <2>2. ASSUME NEW i \in Replies(r, {"list"}), s.drainId = 0,
               \A j \in 1 .. i : r[j].kind # "transfers"
        PROVE  live = {}
    <3>1. i + 1 \in Replies(back, {"list"}) /\ i \in DOMAIN r /\ i \in Nat /\ i > 0
      BY <1>1, <1>3, <2>2 DEF Replies
    <3> SUFFICES ASSUME live # {} PROVE FALSE
      OBVIOUS
    <3>2. ASSUME NEW j \in 1 .. (i + 1) PROVE back[j].kind # "transfers"
      <4>1. CASE j = 1
        BY <1>1, <2>2, <4>1
      <4>2. CASE j # 1
        BY <1>2, <3>1, <1>1, <4>2, <2>2 DEF Replies, World
      <4> QED BY <4>1, <4>2
    <3> QED BY <1>2, <2>2, <3>1, <3>2 DEF Fit
  <2>3. /\ \A x \in live : x.handle = Own(s) /\ (s.upload # NoUpload => s.stage \notin Uploaded)
        /\ \A i \in DOMAIN out : Agrees(s, out[i])
    BY <1>2 DEF Fit
  <2> QED BY <2>1, <2>2, <2>3 DEF Fit
<1>6. Given(s, out, r, live, rdy, dn)
  BY <1>1, <1>2 DEF Given
<1>7. HasEnded(out, r, live, rdy, dn)
  BY <1>1, <1>2 DEF HasEnded
<1> QED BY <1>1, <1>4, <1>5, <1>6, <1>7 DEF World, r

\* What the answer to a request of those that have to wait for each other says.
LEMMA TakenAlone ==
    ASSUME NEW s \in Syncs, NEW out, NEW back, NEW live, NEW rdy, NEW dn,
           World(s, out, back, live, rdy, dn), back # << >>,
           Head(back).kind = "reply", Head(back).op \in Exclusive
    PROVE  /\ At(out, Exclusive) = {} /\ At(out, Mutators) = {}
           /\ Replies(Tail(back), Exclusive) = {}
           /\ Head(back).op \in {"sethash", "delete"} => live = {}
           /\ ~s.blocked => Suits(s, Head(back), live)
           /\ ~s.blocked /\ Head(back).op = "list" /\ s.drainId = 0 => live = {}
           /\ Head(back).token > 0
<1> DEFINE r == Tail(back)
<1>1. /\ r \in Seq(AvatarMessage)
      /\ \A i \in DOMAIN r : i \in Nat /\ i > 0 /\ i + 1 \in DOMAIN back /\ r[i] = back[i + 1]
      /\ 1 \in DOMAIN back /\ Head(back) = back[1]
  BY Tailed DEF World
<1> HIDE DEF r
<1>2. Wire(out, back, live) /\ Fit(s, out, back, live)
      /\ Given(s, out, back, live, rdy, dn)
  BY DEF World
<1>3. 1 \in Replies(back, Exclusive) /\ \A ops : back[1].op \in ops => 1 \in Replies(back, ops)
  BY <1>1 DEF Replies
<1>4. Replies(r, Exclusive) = {}
  BY <1>1, <1>2, <1>3 DEF Replies, Wire
<1>5. At(out, Exclusive) = {} /\ At(out, Mutators) = {}
  BY <1>2, <1>3 DEF Wire
<1>6. Head(back).op \in {"sethash", "delete"} => live = {}
  BY <1>1, <1>2, <1>3 DEF Wire
<1>7. ~s.blocked => Suits(s, Head(back), live)
  BY <1>1, <1>2 DEF Fit
<1>8. ~s.blocked /\ Head(back).op = "list" /\ s.drainId = 0 => live = {}
  <2>1. \A j \in 1 .. 1 : j = 1
    OBVIOUS
  <2>2. 1 \in Replies(back, {"list"}) \/ Head(back).op # "list"
    BY <1>1, <1>3
  <2> QED BY <1>1, <1>2, <2>1, <2>2 DEF Fit
<1>9. Head(back).token > 0
  BY <1>1, <1>2 DEF Given
<1> QED BY <1>4, <1>5, <1>6, <1>7, <1>8, <1>9 DEF r

-----------------------------------------------------------------------------
(* A new wish.                                                             *)

\* A wish that comes while something is under way waits for it.
Holds(s) == Mutating(s) /\ ~(s.stage = "clear_hash" /\ s.deleting # 0)

LEMMA ChangedMoves ==
    ASSUME NEW s \in Syncs, Local(s)
    PROVE  LET t == Changed(s) IN
           /\ t \in Syncs
           /\ t.token = s.token + 1 /\ t.pending = ~s.blocked /\ t.retry
           /\ t.choices = 0 /\ ~t.clear /\ t.next = 1
           /\ Holds(s) =>
                /\ t.draining
                /\ t.upload = s.upload /\ t.previous = s.previous /\ t.deleting = s.deleting
                /\ IF s.stage \in Answered
                   THEN t.stage = s.stage /\ t.deadline = s.deadline /\ t.worker = s.worker
                   ELSE t.stage = "drain" /\ t.deadline /\ t.worker = "none"
           /\ ~Holds(s) =>
                /\ ~t.draining /\ t.upload = NoUpload /\ t.previous = NoTransfer
                /\ t.deleting = 0 /\ t.worker = "none" /\ ~t.deadline /\ t.stage = "load"
                /\ s.upload = NoUpload \/ s.stage = "synced"
                /\ s.previous = NoTransfer /\ ~s.draining
                /\ s.deleting = 0 \/ s.stage = "clear_hash"
           /\ Else(t, s, {"token", "pending", "retry", "choices", "clear", "next", "draining",
                          "upload", "previous", "deleting", "stage", "deadline", "worker"})
<1> DEFINE r == Released(s)
           held == IF Mutating(r) THEN Barrier(r) ELSE [Stop(r) EXCEPT !.stage = "load"]
           n == held.token + 1
           p == ~r.blocked
           t == [held EXCEPT !.token = n, !.pending = p, !.retry = TRUE,
                             !.choices = 0, !.clear = FALSE, !.next = 1]
<1>1. /\ r \in Syncs
      /\ s.stage = "clear_hash" /\ s.deleting # 0 => r.deleting = 0 /\ ~r.draining
      /\ ~(s.stage = "clear_hash" /\ s.deleting # 0) => r = s
      /\ Else(r, s, {"deleting", "draining"})
  BY ReleasedMoves
<1>2. Changed(s) = t
  BY DEF Changed
<1> HIDE DEF r
<1>3. Mutating(r) <=> Holds(s)
  BY <1>1 DEF Local, Underway, Else, Fields, Holds, Mutating
<1>4. /\ held \in Syncs
      /\ Else(held, r, {"draining", "stage", "deadline", "worker", "upload"})
      /\ Holds(s) =>
            /\ held.draining /\ held.upload = r.upload
            /\ IF r.stage \in Answered
               THEN held.stage = r.stage /\ held.deadline = r.deadline /\ held.worker = r.worker
               ELSE held.stage = "drain" /\ held.deadline /\ held.worker = "none"
      /\ ~Holds(s) =>
            /\ held.upload = NoUpload /\ held.worker = "none" /\ ~held.deadline
            /\ held.stage = "load" /\ held.draining = r.draining
  <2>1. CASE Holds(s)
    BY <1>1, BarrierMoves, <1>3, <2>1 DEF Else, Fields
  <2>2. CASE ~Holds(s)
    BY <1>1, LoadingMoves, <1>3, <2>2 DEF Else, Fields
  <2> QED BY <2>1, <2>2
<1> HIDE DEF held
<1>5. n \in Nat /\ n = s.token + 1 /\ p \in BOOLEAN /\ p = ~s.blocked
  BY <1>1, <1>4 DEF Syncs, Else, Fields
<1> HIDE DEF n, p
<1>6. /\ t \in Syncs
      /\ t.token = n /\ t.pending = p /\ t.retry /\ t.choices = 0 /\ ~t.clear /\ t.next = 1
      /\ Else(t, held, {"token", "pending", "retry", "choices", "clear", "next"})
  BY <1>4, <1>5, Firsts DEF Syncs, Else, Fields
<1> HIDE DEF t
<1>7. Else(t, s, {"token", "pending", "retry", "choices", "clear", "next", "draining",
                          "upload", "previous", "deleting", "stage", "deadline", "worker"})
  BY <1>1, <1>4, <1>6 DEF Else, Fields
<1>8. ASSUME Holds(s)
      PROVE  /\ t.draining
             /\ t.upload = s.upload /\ t.previous = s.previous /\ t.deleting = s.deleting
             /\ IF s.stage \in Answered
                THEN t.stage = s.stage /\ t.deadline = s.deadline /\ t.worker = s.worker
                ELSE t.stage = "drain" /\ t.deadline /\ t.worker = "none"
  BY <1>1, <1>8, <1>6, <1>4 DEF Holds, Else, Fields
<1>9. ASSUME ~Holds(s)
      PROVE  /\ ~t.draining /\ t.upload = NoUpload /\ t.previous = NoTransfer
             /\ t.deleting = 0 /\ t.worker = "none" /\ ~t.deadline /\ t.stage = "load"
             /\ s.upload = NoUpload \/ s.stage = "synced"
             /\ s.previous = NoTransfer /\ ~s.draining
             /\ s.deleting = 0 \/ s.stage = "clear_hash"
  BY <1>6, <1>4, <1>3, <1>9 DEF Else, Fields, Holds, Mutating, Local, Underway
<1> QED BY <1>2, <1>5, <1>6, <1>7, <1>8, <1>9

LEMMA ChangedWorld ==
    ASSUME NEW s \in Syncs, NEW out, NEW back, NEW live, NEW rdy, NEW dn,
           World(s, out, back, live, rdy, dn)
    PROVE  World(Changed(s), out, back, live, rdy, dn)
<1> DEFINE t == Changed(s)
<1>1. Local(s) /\ Fit(s, out, back, live)
  BY DEF World
<1>2. /\ t \in Syncs
      /\ t.token = s.token + 1 /\ t.pending = ~s.blocked /\ t.retry /\ t.next = 1
      /\ Holds(s) =>
            /\ t.draining
            /\ t.upload = s.upload /\ t.previous = s.previous /\ t.deleting = s.deleting
            /\ IF s.stage \in Answered
               THEN t.stage = s.stage /\ t.deadline = s.deadline /\ t.worker = s.worker
               ELSE t.stage = "drain" /\ t.deadline /\ t.worker = "none"
      /\ ~Holds(s) =>
            /\ ~t.draining /\ t.upload = NoUpload /\ t.previous = NoTransfer
            /\ t.deleting = 0 /\ t.worker = "none" /\ ~t.deadline /\ t.stage = "load"
            /\ s.upload = NoUpload \/ s.stage = "synced"
            /\ s.previous = NoTransfer /\ ~s.draining
            /\ s.deleting = 0 \/ s.stage = "clear_hash"
      /\ t.blocked = s.blocked /\ t.drainQuery = s.drainQuery /\ t.drainId = s.drainId
      /\ t.handles = s.handles /\ t.query = s.query
  BY <1>1, ChangedMoves DEF Else, Fields
<1> HIDE DEF t
<1>3. Underway(t)
  <2>1. CASE Holds(s) /\ s.stage \in Answered
    BY <1>1, <1>2, <2>1 DEF Local, Underway, Waiting, Holds, Syncs, Uploads, Transfers, Uploading, Draining, Answered
  <2>2. CASE Holds(s) /\ s.stage \notin Answered
    BY <1>1, <1>2, <2>2 DEF Local, Underway, Waiting, Holds, Syncs, Uploads, Transfers, Uploading, Draining, Answered
  <2>3. CASE ~Holds(s)
    BY <1>2, <2>3, Nothings DEF Underway
  <2> QED BY <2>1, <2>2, <2>3
<1>10. Holds(s) => Own(t) = Own(s)
  BY <1>2 DEF Own
<1>11. Holds(s) /\ s.deleting = 0 => Own(s) # 0
  BY <1>1, Nothings DEF Own, Holds, Mutating, Local, Underway, Waiting
<1>4. Waiting(t)
  BY <1>1, <1>2, <1>10, <1>11, Nothings DEF Local, Underway, Waiting, Holds, Mutating,
     Uploading, Draining, Answered
<1>5. Working(t)
  BY <1>1, <1>2, AvatarSyncAssumption DEF Local, Working, Holds, Mutating, Syncs, Answered
<1>6. Timed(t)
  BY <1>1, <1>2 DEF Local, Timed, Underway, Waiting, Holds, Mutating, Uploading, Draining, Answered
<1>7. Known(t)
  BY <1>1, <1>2, Nothings DEF Local, Known, Syncs
<1>8. Fit(t, out, back, live)
  <2> SUFFICES ASSUME ~t.blocked PROVE Fit(t, out, back, live)
    BY DEF Fit
  <2>1. CASE Holds(s)
    <3>1. Own(t) = Own(s)
      BY <1>2, <2>1 DEF Own
    <3>2. s.draining \/ s.stage # "stop_transfer"
      BY <1>1, <1>2, <2>1 DEF Local, Underway, Holds, Mutating, Uploading
    <3>3. CASE s.stage \in Answered
      BY <1>1, <1>2, <2>1, <3>1, <3>2, <3>3 DEF Fit, Agrees, Suits
    <3>4. CASE s.stage \notin Answered
      BY <1>1, <1>2, <2>1, <3>1, <3>4 DEF Fit, Agrees, Suits, Answered, Uploaded
    <3> QED BY <3>3, <3>4
  <2>2. CASE ~Holds(s)
    BY <1>2, <2>2, Nothings, <1>1, IdleRests, RestFits DEF Own, Uploaded, Local, Waiting,
       World
  <2> QED BY <2>1, <2>2
<1>9. t.handles >= s.handles /\ t.token >= s.token
  BY <1>2 DEF Syncs
<1> QED BY <1>2, <1>3, <1>4, <1>5, <1>6, <1>7, <1>8, <1>9, WorldStays DEF Local, t

-----------------------------------------------------------------------------
(* The operations. Holding is World of what a step has made so far.        *)

Holding(s, p, back, live, rdy, dn) ==
    /\ s \in Syncs /\ p \in Seq(AvatarCommand)
    /\ World(s, p \o s.sent, back, live, rdy, dn)

LEMMA PlainWorld ==
    ASSUME NEW s \in Syncs, NEW t \in Syncs, NEW out, NEW back, NEW live, NEW rdy, NEW dn,
           World(s, out, back, live, rdy, dn),
           Else(t, s, {"revision", "clear", "missing", "choices", "query",
                       "queryTimedOut", "sent"}),
           t.query = s.query \/ t.query = NoQuery \/ t.query.token > 0
    PROVE  World(t, out, back, live, rdy, dn)
<1>1. /\ t.token = s.token /\ t.next = s.next /\ t.pending = s.pending /\ t.retry = s.retry
      /\ t.deleting = s.deleting /\ t.draining = s.draining /\ t.blocked = s.blocked
      /\ t.drainQuery = s.drainQuery /\ t.drainId = s.drainId /\ t.previous = s.previous
      /\ t.upload = s.upload /\ t.stage = s.stage /\ t.worker = s.worker
      /\ t.deadline = s.deadline /\ t.handles = s.handles
  BY DEF Else, Fields
<1>2. Own(t) = Own(s)
  BY <1>1 DEF Own
<1>3. Local(s) /\ Fit(s, out, back, live)
  BY DEF World
<1>4. Local(t)
  BY <1>1, <1>2, <1>3 DEF Local, Underway, Waiting, Working, Timed, Known
<1>5. Fit(t, out, back, live)
  BY <1>1, <1>2, <1>3, FitStays
<1>6. t.handles >= s.handles /\ t.token >= s.token
  BY <1>1 DEF Syncs
<1> QED BY <1>4, <1>5, <1>6, WorldStays

LEMMA AppendedOut ==
    ASSUME NEW p \in Seq(AvatarCommand), NEW q \in Seq(AvatarCommand), NEW c \in AvatarCommand
    PROVE  p \o Append(q, c) = Append(p \o q, c)
  OBVIOUS

LEMMA SendHolds ==
    ASSUME NEW t, NEW p, NEW back, NEW live, NEW rdy, NEW dn, NEW c \in AvatarCommand,
           Holding(t, p, back, live, rdy, dn), Agrees(t, c),
           IF c.op \in {"upload", "download"} THEN c.handle \in 1 .. t.handles ELSE c.token > 0,
           At(p \o t.sent, {"list"}) = {},
           c.op \in Exclusive => /\ At(p \o t.sent, Exclusive) = {} /\ Replies(back, Exclusive) = {}
                                 /\ c.op = "list" \/ At(p \o t.sent, Mutators) = {},
           c.op \in Mutators =>
                /\ live = {} /\ Replies(back, Exclusive) = {}
                /\ At(p \o t.sent, Mutators) = {} /\ At(p \o t.sent, Exclusive) = {},
           c.op = "upload" =>
                /\ \A i \in DOMAIN dn : dn[i].kind = "write" => dn[i].handle # c.handle
                /\ \A i \in DOMAIN back : back[i].kind = "refused" => back[i].handle # c.handle
                /\ \A r \in rdy : r.handle # c.handle
    PROVE  Holding(Send(t, c), p, back, live, rdy, dn)
<1>1. t \in Syncs /\ p \in Seq(AvatarCommand) /\ World(t, p \o t.sent, back, live, rdy, dn)
  BY DEF Holding
<1>2. t.sent \in Seq(AvatarCommand)
  BY <1>1 DEF Syncs
<1>3. World(t, Append(p \o t.sent, c), back, live, rdy, dn)
  BY <1>1, SendsWorld
<1> DEFINE u == Send(t, c)
<1>4. u \in Syncs /\ u.sent = Append(t.sent, c) /\ Else(u, t, {"sent"})
  BY <1>1, SendMoves
<1> HIDE DEF u
<1>5. p \o u.sent = Append(p \o t.sent, c)
  BY <1>1, <1>2, <1>4, AppendedOut
<1>6. /\ Else(u, t, {"revision", "clear", "missing", "choices", "query",
                     "queryTimedOut", "sent"})
      /\ u.query = t.query
  BY <1>4 DEF Else, Fields
<1>7. World(u, p \o u.sent, back, live, rdy, dn)
  BY <1>1, <1>3, <1>4, <1>5, <1>6, PlainWorld
<1> QED BY <1>1, <1>4, <1>7 DEF Holding, u

LEMMA FailedHolds ==
    ASSUME NEW s, NEW timeout \in BOOLEAN, NEW p, NEW back, NEW live, NEW rdy, NEW dn,
           Holding(s, p, back, live, rdy, dn),
           \/ s.draining
           \/ timeout /\ s.stage \in Unconfirmed
           \/ s.previous = NoTransfer /\ (\/ ~(s.stage = "delete" /\ s.deleting # 0)
                                          \/ Quiet(p \o s.sent, back, live))
    PROVE  Holding(Failed(s, timeout), p, back, live, rdy, dn)
  BY FailedWorld, FailedMoves DEF Holding, Else, Fields

LEMMA ObserveHolds ==
    ASSUME NEW s, NEW p, NEW back, NEW live, NEW rdy, NEW dn,
           Holding(s, p, back, live, rdy, dn), store.revision \in Nat
    PROVE  Holding(Observe(s), p, back, live, rdy, dn)
<1>1. s \in Syncs /\ p \in Seq(AvatarCommand) /\ World(s, p \o s.sent, back, live, rdy, dn)
  BY DEF Holding
<1>2. CASE s.revision = store.revision
  BY <1>2 DEF Observe
<1>3. CASE s.revision # store.revision
  <2> DEFINE u == [s EXCEPT !.revision = store.revision]
  <2>1. u \in Syncs /\ Else(u, s, {"revision"})
    BY <1>1, RevisedMoves
  <2>2. Observe(s) = Changed(u)
    BY <1>3 DEF Observe
  <2> HIDE DEF u
  <2>3. /\ u.sent = s.sent /\ u.query = s.query
        /\ Else(u, s, {"revision", "clear", "missing", "choices", "query",
                       "queryTimedOut", "sent"})
    BY <2>1 DEF Else, Fields
  <2>4. World(u, p \o s.sent, back, live, rdy, dn)
    BY <1>1, <2>1, <2>3, PlainWorld
  <2>5. World(Changed(u), p \o s.sent, back, live, rdy, dn)
    BY <2>1, <2>4, ChangedWorld
  <2>6. Changed(u) \in Syncs /\ Changed(u).sent = u.sent
    <3>1. Local(u)
      BY <2>4 DEF World
    <3> QED BY <2>1, <3>1, ChangedMoves DEF Else, Fields
  <2> QED BY <1>1, <2>2, <2>3, <2>5, <2>6 DEF Holding
<1> QED BY <1>2, <1>3

LEMMA DrainedHolds ==
    ASSUME NEW s, NEW p, NEW back, NEW live, NEW rdy, NEW dn,
           Holding(s, p, back, live, rdy, dn),
           ~s.blocked, s.draining, Quiet(p \o s.sent, back, live)
    PROVE  Holding(Drained(s), p, back, live, rdy, dn)
<1> DEFINE t == Drained(s)
<1>1. s \in Syncs /\ p \in Seq(AvatarCommand) /\ World(s, p \o s.sent, back, live, rdy, dn)
      /\ Local(s)
  BY DEF Holding, World
<1>2. /\ t \in Syncs /\ t.worker = "none" /\ t.upload = NoUpload /\ ~t.deadline
      /\ t.deleting = 0 /\ t.drainQuery = 0 /\ t.drainId = 0 /\ t.previous = NoTransfer
      /\ ~t.draining /\ t.pending
      /\ t.retry = s.retry /\ t.blocked = s.blocked /\ t.stage = s.stage
      /\ t.token = s.token /\ t.query = s.query /\ t.handles = s.handles /\ t.sent = s.sent
  BY <1>1, DrainedMoves DEF Else, Fields
<1> HIDE DEF t
<1>3. s.retry
  BY <1>1 DEF Local, Working
<1>4. Local(t)
  BY <1>1, <1>2, <1>3, Nothings DEF Local, Underway, Waiting, Working, Timed, Known, Syncs
<1>5. Fit(t, p \o s.sent, back, live)
  BY <1>1, <1>2, RestFits DEF World
<1>6. t.handles >= s.handles /\ t.token >= s.token
  BY <1>1, <1>2 DEF Syncs
<1>7. World(t, p \o t.sent, back, live, rdy, dn)
  BY <1>1, <1>2, <1>4, <1>5, <1>6, WorldStays
<1> QED BY <1>1, <1>2, <1>7 DEF Holding, t

\* Without a query, nothing of a barrier is on its way.
LEMMA Unasked ==
    ASSUME NEW s \in Syncs, NEW out, NEW back, NEW live, NEW rdy, NEW dn,
           World(s, out, back, live, rdy, dn), ~s.blocked, s.drainQuery = 0
    PROVE  /\ At(out, {"list", "stop"}) = {} /\ Replies(back, {"list", "stop"}) = {}
           /\ s.stage \notin {"update", "delete"} =>
                At(out, Exclusive) = {} /\ Replies(back, Exclusive) = {}
<1>1. Fit(s, out, back, live) /\ Given(s, out, back, live, rdy, dn)
  BY DEF World
<1>2. \A i \in DOMAIN out : out[i].op \notin {"list", "stop"}
  BY <1>1 DEF Fit, Agrees, Given
<1>3. \A i \in DOMAIN back : back[i].kind = "reply" => back[i].op \notin {"list", "stop"}
  BY <1>1 DEF Fit, Suits, Given
<1>4. ASSUME s.stage \notin {"update", "delete"}
      PROVE  /\ \A i \in DOMAIN out : out[i].op \notin Exclusive
             /\ \A i \in DOMAIN back : back[i].kind = "reply" => back[i].op \notin Exclusive
  BY <1>1, <1>2, <1>3, <1>4 DEF Fit, Agrees, Suits, Exclusive
<1> QED BY <1>2, <1>3, <1>4 DEF At, Replies

-----------------------------------------------------------------------------
(* check                                                                   *)

LEMMA CommandsMade ==
    /\ \A n \in Nat : [op |-> "list", token |-> n] \in AvatarCommand
    /\ \A n \in Nat : [op |-> "info", token |-> n] \in AvatarCommand
    /\ \A n \in Nat : [op |-> "delete", token |-> n] \in AvatarCommand
    /\ \A n \in Nat : [op |-> "download", handle |-> n] \in AvatarCommand
    /\ \A n \in Nat, x \in File : [op |-> "upload", handle |-> n, content |-> x] \in AvatarCommand
    /\ \A n \in Nat, x \in Contents : [op |-> "sethash", token |-> n, hash |-> x] \in AvatarCommand
    /\ \A n, m \in Nat : [op |-> "stop", token |-> n, id |-> m] \in AvatarCommand
  BY DEF AvatarCommand

LEMMA CheckDrainHolds ==
    ASSUME NEW s, NEW p, NEW back, NEW live, NEW rdy, NEW dn,
           Holding(s, p, back, live, rdy, dn)
    PROVE  Holding(CheckDrain(s), p, back, live, rdy, dn)
<1> DEFINE token == IF s.upload # NoUpload THEN s.upload.token ELSE s.previous.token
           t == [s EXCEPT !.drainQuery = token]
           c == [op |-> "list", token |-> token]
<1>1. s \in Syncs /\ p \in Seq(AvatarCommand) /\ World(s, p \o s.sent, back, live, rdy, dn)
      /\ Local(s) /\ Fit(s, p \o s.sent, back, live)
  BY DEF Holding, World
<1> SUFFICES ASSUME s.draining, ~s.blocked, s.stage = "drain", s.drainQuery = 0
             PROVE  Holding(Send(t, c), p, back, live, rdy, dn)
  BY DEF CheckDrain
<1>2. token \in Nat /\ token > 0
  BY <1>1, Nothings DEF Local, Underway, Waiting, Own, Syncs, Uploads, Transfers
<1> HIDE DEF token
<1>3. t \in Syncs /\ t.drainQuery = token /\ Else(t, s, {"drainQuery"})
  BY <1>1, <1>2, AskingMoves
<1>4. c \in AvatarCommand /\ c.op = "list" /\ c.token = token
  BY <1>2, CommandsMade
<1> HIDE DEF t, c
<1>5. /\ t.token = s.token /\ t.next = s.next /\ t.query = s.query /\ t.pending = s.pending /\ t.retry = s.retry
      /\ t.deleting = s.deleting /\ t.draining = s.draining /\ t.blocked = s.blocked
      /\ t.drainId = s.drainId /\ t.previous = s.previous
      /\ t.upload = s.upload /\ t.stage = s.stage /\ t.worker = s.worker
      /\ t.deadline = s.deadline /\ t.handles = s.handles /\ t.sent = s.sent
  BY <1>3 DEF Else, Fields
<1>6. Own(t) = Own(s)
  BY <1>5 DEF Own
<1>7. Local(t)
  BY <1>1, <1>2, <1>3, <1>5, <1>6 DEF Local, Underway, Waiting, Working, Timed, Known
<1>8. /\ At(p \o s.sent, {"list", "stop"}) = {}
      /\ At(p \o s.sent, Exclusive) = {} /\ Replies(back, Exclusive) = {}
  BY <1>1, Unasked
<1>9. Fit(t, p \o s.sent, back, live)
  BY <1>8, <1>1, <1>5, <1>6 DEF At, Replies, Exclusive, Fit, Agrees, Suits
<1>10. World(t, p \o t.sent, back, live, rdy, dn)
  BY <1>1, <1>5, <1>3, <1>7, <1>9, WorldStays DEF Syncs
<1>11. Holding(t, p, back, live, rdy, dn)
  BY <1>1, <1>3, <1>10 DEF Holding
<1>12. Agrees(t, c)
  BY <1>3, <1>4, <1>5 DEF Agrees
<1>13. At(p \o t.sent, {"list"}) = {} /\ At(p \o t.sent, Exclusive) = {}
  BY <1>5, <1>8 DEF At
<1>14. c.op \notin Mutators /\ c.op # "upload" /\ c.token > 0 /\ c.op # "download"
  BY <1>2, <1>4 DEF Mutators
<1> QED BY <1>4, <1>8, <1>11, <1>12, <1>13, <1>14, SendHolds

LEMMA RequestHolds ==
    ASSUME NEW s, NEW p, NEW back, NEW live, NEW rdy, NEW dn,
           Holding(s, p, back, live, rdy, dn),
           ~s.blocked, ~s.draining, s.previous = NoTransfer, s.stage # "delete"
    PROVE  Holding(RequestInfo(s), p, back, live, rdy, dn)
<1> DEFINE token == IF s.deleting # 0 THEN s.deleting ELSE s.token
           q == [NoQuery EXCEPT !.token = token]
           t == [s EXCEPT !.query = q]
           c == [op |-> "info", token |-> token]
<1>1. s \in Syncs /\ p \in Seq(AvatarCommand) /\ World(s, p \o s.sent, back, live, rdy, dn)
      /\ Local(s)
  BY DEF Holding, World
<1>2. CASE s.queryTimedOut
  BY <1>2, FailedHolds DEF RequestInfo
<1>3. CASE ~s.queryTimedOut
  <2>1. RequestInfo(s) = Send(t, c)
    BY <1>3 DEF RequestInfo
  <2>2. token \in Nat /\ token > 0
    BY <1>1 DEF Local, Known, Syncs
  <2> HIDE DEF token
  <2>3. q \in Queries
    BY <2>2, Nothings DEF Queries
  <2>4. c \in AvatarCommand /\ c.op = "info" /\ c.token = token
    BY <2>2, CommandsMade
  <2>12. q.token > 0
    BY <2>2, Nothings DEF Queries
  <2> HIDE DEF q, c
  <2>5. t \in Syncs /\ t.query = q /\ Else(t, s, {"query"})
    BY <1>1, <2>3, QueryingMoves
  <2> HIDE DEF t
  <2>6. /\ t.sent = s.sent /\ t.handles = s.handles
        /\ Else(t, s, {"revision", "clear", "missing", "choices", "query",
                       "queryTimedOut", "sent"})
    BY <2>5 DEF Else, Fields
  <2>7. Holding(t, p, back, live, rdy, dn)
    BY <1>1, <2>5, <2>6, <2>12, PlainWorld DEF Holding
  <2>8. At(p \o t.sent, {"list"}) = {}
    BY <1>1, <2>6, Unasked DEF Local, Waiting, At
  <2>9. Agrees(t, c)
    BY <2>4 DEF Agrees
  <2>10. c.op \notin Mutators /\ c.op \notin Exclusive /\ c.op \notin {"upload", "download"}
    BY <2>4 DEF Mutators, Exclusive
  <2>11. c.token > 0
    BY <2>2, <2>4
  <2> QED BY <2>1, <2>4, <2>7, <2>8, <2>9, <2>10, <2>11, SendHolds
<1> QED BY <1>2, <1>3

\* Nothing is under way, and the session says so: Local and Fit are easy then.
LEMMA RestingHolds ==
    ASSUME NEW s, NEW t \in Syncs, NEW p, NEW back, NEW live, NEW rdy, NEW dn,
           Holding(s, p, back, live, rdy, dn), Quiet(p \o s.sent, back, live),
           Local(t), t.handles >= s.handles, t.token >= s.token, t.sent = s.sent
    PROVE  Holding(t, p, back, live, rdy, dn)
  BY RestFits, WorldStays DEF Holding, World

LEMMA ConfirmedHolds ==
    ASSUME NEW s, NEW p, NEW back, NEW live, NEW rdy, NEW dn,
           Holding(s, p, back, live, rdy, dn), s.stage = "clear_hash", s.deleting # 0
    PROVE  Holding(ClearConfirmed(s), p, back, live, rdy, dn)
<1> DEFINE t == [s EXCEPT !.deleting = 0, !.stage = "cleared", !.deadline = FALSE]
<1>1. s \in Syncs /\ p \in Seq(AvatarCommand) /\ World(s, p \o s.sent, back, live, rdy, dn)
      /\ Local(s)
  BY DEF Holding, World
<1>2. /\ ~s.draining /\ ~s.blocked /\ s.drainQuery = 0 /\ s.drainId = 0
      /\ s.upload = NoUpload /\ s.previous = NoTransfer /\ s.worker = "none" /\ ~s.pending
  BY <1>1 DEF Local, Underway, Waiting, Working
<1>3. ClearConfirmed(s) = t
  BY <1>2 DEF ClearConfirmed
<1>4. t \in Syncs /\ t.deleting = 0 /\ t.stage = "cleared" /\ ~t.deadline
      /\ Else(t, s, {"deleting", "stage", "deadline"})
  BY <1>1, ConfirmedMoves
<1> HIDE DEF t
<1>5. /\ t.token = s.token /\ t.next = s.next /\ t.query = s.query /\ t.pending = s.pending /\ t.retry = s.retry
      /\ t.draining = s.draining /\ t.blocked = s.blocked
      /\ t.drainQuery = s.drainQuery /\ t.drainId = s.drainId /\ t.previous = s.previous
      /\ t.upload = s.upload /\ t.worker = s.worker
      /\ t.handles = s.handles /\ t.sent = s.sent
  BY <1>4 DEF Else, Fields
<1>6. Local(t)
  BY <1>1, <1>2, <1>4, <1>5 DEF Local, Underway, Waiting, Working, Timed, Known
<1>7. Quiet(p \o s.sent, back, live)
  BY <1>2, Nothings, <1>1, IdleRests DEF Own
<1>8. t.handles >= s.handles /\ t.token >= s.token
  BY <1>1, <1>5 DEF Syncs
<1> QED BY <1>3, <1>4, <1>5, <1>6, <1>7, <1>8, RestingHolds

LEMMA CheckClearHolds ==
    ASSUME NEW s, NEW hash, NEW p, NEW back, NEW live, NEW rdy, NEW dn,
           Holding(s, p, back, live, rdy, dn)
    PROVE  Holding(CheckClear(s, hash), p, back, live, rdy, dn)
<1>1. CASE s.stage # "clear_hash" \/ s.deleting = 0 \/ s.query # NoQuery
  BY <1>1 DEF CheckClear
<1>2. CASE ~(s.stage # "clear_hash" \/ s.deleting = 0 \/ s.query # NoQuery)
  BY <1>2, ConfirmedHolds, RequestHolds DEF Holding, World, Local, Underway, Waiting,
     CheckClear
<1> QED BY <1>1, <1>2

LEMMA VerifyHolds ==
    ASSUME NEW s, NEW p, NEW back, NEW live, NEW rdy, NEW dn,
           Holding(s, p, back, live, rdy, dn), s.stage = "hash", s.upload # NoUpload
    PROVE  Holding(Verify(s), p, back, live, rdy, dn)
<1> DEFINE h == s.handles + 1
           x == [s.upload EXCEPT !.download = h]
           t == Fetching(s, h, x)
           c == [op |-> "download", handle |-> h]
<1>1. s \in Syncs /\ p \in Seq(AvatarCommand) /\ World(s, p \o s.sent, back, live, rdy, dn)
      /\ Local(s) /\ Fit(s, p \o s.sent, back, live)
  BY DEF Holding, World
<1>2. h \in Nat /\ h > 0 /\ h = s.handles + 1 /\ s.handles \in Nat
  BY <1>1 DEF Syncs
<1>3. Verify(s) = Send(t, c)
  <2>1. Enter(s, "download").upload = s.upload
    BY <1>1, EnterMoves DEF Else, Fields, Stages
  <2> QED BY <2>1 DEF Verify, Fetching
<1> HIDE DEF h
<1>4. /\ x \in Uploads /\ x.download = h /\ x.handle = s.upload.handle
      /\ x.token = s.upload.token /\ x.content = s.upload.content
  BY <1>1, <1>2 DEF Syncs, Uploads
<1>5. c \in AvatarCommand /\ c.op = "download" /\ c.handle = h
  BY <1>2, CommandsMade
<1> HIDE DEF x, c
<1>6. /\ t \in Syncs /\ t.handles = h /\ t.upload = x /\ t.stage = "download" /\ t.deadline
      /\ Else(t, s, {"stage", "deadline", "handles", "upload"})
  BY <1>1, <1>2, <1>4, FetchingMoves
<1> HIDE DEF t
<1>7. /\ t.token = s.token /\ t.next = s.next /\ t.query = s.query /\ t.pending = s.pending /\ t.retry = s.retry
      /\ t.deleting = s.deleting /\ t.draining = s.draining /\ t.blocked = s.blocked
      /\ t.drainQuery = s.drainQuery /\ t.drainId = s.drainId /\ t.previous = s.previous
      /\ t.worker = s.worker /\ t.sent = s.sent
  BY <1>6 DEF Else, Fields
<1>8. /\ s.upload.handle > 0 /\ s.upload.handle <= s.handles /\ s.upload.handle \in Nat
      /\ ~s.draining /\ s.worker = "none" /\ ~s.blocked
      /\ s.previous = NoTransfer /\ s.deleting = 0 /\ ~s.pending /\ s.retry
      /\ s.next <= Candidates
      /\ s.drainQuery = 0 /\ s.drainId = 0
  BY <1>1 DEF Local, Known, Underway, Waiting, Working, Syncs, Uploads, Draining
<1>9. x # NoUpload /\ Own(t) = Own(s)
  BY <1>4, <1>6, <1>8, Nothings DEF Own
<1>10. Local(t)
  BY <1>1, <1>2, <1>4, <1>6, <1>7, <1>8, <1>9, Nothings DEF Local, Underway, Uploading,
     Waiting, Working, Timed, Known
<1>11. Quiet(p \o s.sent, back, live)
  BY <1>1, <1>8, IdleRests DEF Uploaded
<1>12. Holding(t, p, back, live, rdy, dn)
  BY <1>1, <1>2, <1>6, <1>7, <1>10, <1>11, RestingHolds DEF Syncs
<1>13. At(p \o t.sent, {"list"}) = {} /\ Agrees(t, c)
  BY <1>5, <1>7, <1>11 DEF Quiet, At, Agrees, Exclusive
<1>14. c.handle \in 1 .. t.handles
  BY <1>2, <1>5, <1>6
<1>15. c.op \notin Mutators /\ c.op \notin Exclusive /\ c.op # "upload"
  BY <1>5 DEF Mutators, Exclusive
<1> QED BY <1>3, <1>5, <1>12, <1>13, <1>14, <1>15, SendHolds

LEMMA CheckHashHolds ==
    ASSUME NEW s, NEW hash, NEW p, NEW back, NEW live, NEW rdy, NEW dn,
           Holding(s, p, back, live, rdy, dn)
    PROVE  Holding(CheckHash(s, hash), p, back, live, rdy, dn)
<1>1. CASE s.stage # "hash" \/ s.upload = NoUpload
  BY <1>1 DEF CheckHash
<1>2. CASE s.stage = "hash" /\ s.upload # NoUpload
  BY <1>2, VerifyHolds, RequestHolds DEF Holding, World, Local, Underway, Waiting, Draining,
     CheckHash
<1> QED BY <1>1, <1>2

\* The session begins something: nothing of what was before is under way.
LEMMA StartRests ==
    ASSUME NEW s, NEW p, NEW back, NEW live, NEW rdy, NEW dn,
           Holding(s, p, back, live, rdy, dn), MayStart(s)
    PROVE  /\ s.previous = NoTransfer /\ s.drainQuery = 0 /\ s.drainId = 0 /\ s.retry
           /\ Quiet(p \o s.sent, back, live)
  BY Nothings, IdleRests DEF Holding, World, MayStart, Local, Working, Waiting, Own

LEMMA LoadHolds ==
    ASSUME NEW s, NEW p, NEW back, NEW live, NEW rdy, NEW dn,
           Holding(s, p, back, live, rdy, dn), MayStart(s)
    PROVE  Holding([Enter(s, "load") EXCEPT !.worker = "load"], p, back, live, rdy, dn)
<1> DEFINE t == [Enter(s, "load") EXCEPT !.worker = "load"]
<1>1. s \in Syncs /\ Local(s) /\ Quiet(p \o s.sent, back, live) /\ s.previous = NoTransfer
      /\ s.drainQuery = 0 /\ s.drainId = 0 /\ s.retry
  BY StartRests DEF Holding, World
<1>2. t \in Syncs /\ t.worker = "load" /\ t.stage = "load" /\ t.deadline
      /\ Else(t, s, {"stage", "deadline", "worker"})
  BY <1>1, LoadMoves
<1> HIDE DEF t
<1>3. /\ t.token = s.token /\ t.next = s.next /\ t.query = s.query /\ t.pending /\ t.retry = s.retry
      /\ t.deleting = 0 /\ ~t.draining /\ t.blocked = s.blocked
      /\ t.drainQuery = s.drainQuery /\ t.drainId = s.drainId /\ t.previous = s.previous
      /\ t.upload = NoUpload /\ t.handles = s.handles /\ t.sent = s.sent
  BY <1>2 DEF Else, Fields, MayStart
<1>4. Local(t)
  BY <1>1, <1>2, <1>3, Nothings DEF Local, Underway, Waiting, Working, Timed, Known, MayStart
<1>5. t.handles >= s.handles /\ t.token >= s.token
  BY <1>1, <1>3 DEF Syncs
<1> QED BY <1>1, <1>2, <1>3, <1>4, <1>5, RestingHolds DEF t

LEMMA StartClearHolds ==
    ASSUME NEW s, NEW hash, NEW p, NEW back, NEW live, NEW rdy, NEW dn,
           Holding(s, p, back, live, rdy, dn), MayStart(s)
    PROVE  Holding(StartClear(s, hash), p, back, live, rdy, dn)
<1>1. s \in Syncs /\ Local(s) /\ Quiet(p \o s.sent, back, live) /\ s.previous = NoTransfer
      /\ s.drainQuery = 0 /\ s.drainId = 0 /\ s.retry
  BY StartRests DEF Holding, World
<1>2. CASE hash = NoContent
  <2> DEFINE t == [s EXCEPT !.pending = FALSE, !.stage = "cleared", !.deadline = FALSE]
  <2>1. t \in Syncs /\ ~t.pending /\ t.stage = "cleared" /\ ~t.deadline
        /\ Else(t, s, {"pending", "stage", "deadline"})
    BY <1>1, EmptyMoves
  <2>2. StartClear(s, hash) = t
    BY <1>2 DEF StartClear
  <2> HIDE DEF t
  <2>3. /\ t.token = s.token /\ t.next = s.next /\ t.query = s.query /\ t.retry = s.retry /\ t.worker = "none"
        /\ t.deleting = 0 /\ ~t.draining /\ t.blocked = s.blocked
        /\ t.drainQuery = s.drainQuery /\ t.drainId = s.drainId /\ t.previous = s.previous
        /\ t.upload = NoUpload /\ t.handles = s.handles /\ t.sent = s.sent
    BY <2>1 DEF Else, Fields, MayStart
  <2>4. Local(t)
    BY <1>1, <2>1, <2>3, Nothings DEF Local, Underway, Waiting, Working, Timed, Known, MayStart
  <2>5. t.handles >= s.handles /\ t.token >= s.token
    BY <1>1, <2>3 DEF Syncs
  <2> QED BY <1>1, <2>1, <2>2, <2>3, <2>4, <2>5, RestingHolds
<1>3. CASE hash # NoContent
  <2> DEFINE t == [Enter(s, "delete") EXCEPT !.pending = FALSE, !.missing = FALSE,
                                             !.deleting = s.token]
             c == [op |-> "delete", token |-> s.token]
  <2>1. /\ t \in Syncs /\ ~t.pending /\ t.deleting = s.token /\ t.stage = "delete" /\ t.deadline
        /\ Else(t, s, {"stage", "deadline", "pending", "missing", "deleting"})
    BY <1>1, DeletingMoves
  <2>2. StartClear(s, hash) = Send(t, c)
    BY <1>3 DEF StartClear
  <2>3. s.token \in Nat /\ s.token > 0
    BY <1>1 DEF Syncs, Local, Known
  <2>4. c \in AvatarCommand /\ c.op = "delete" /\ c.token = s.token
    BY <2>3, CommandsMade
  <2> HIDE DEF t, c
  <2>5. /\ t.token = s.token /\ t.next = s.next /\ t.query = s.query /\ t.retry = s.retry /\ t.worker = "none"
        /\ ~t.draining /\ ~t.blocked
        /\ t.drainQuery = s.drainQuery /\ t.drainId = s.drainId /\ t.previous = s.previous
        /\ t.upload = NoUpload /\ t.handles = s.handles /\ t.sent = s.sent
    BY <2>1 DEF Else, Fields, MayStart
  <2>6. Local(t)
    BY <1>1, <2>1, <2>3, <2>5, Nothings DEF Local, Underway, Waiting, Working, Timed, Known, MayStart
  <2>7. t.handles >= s.handles /\ t.token >= s.token
    BY <1>1, <2>5 DEF Syncs
  <2>8. Holding(t, p, back, live, rdy, dn)
    BY <1>1, <2>1, <2>5, <2>6, <2>7, RestingHolds
  <2>9. Agrees(t, c)
    BY <2>1, <2>4 DEF Agrees
  <2>10. /\ At(p \o t.sent, {"list"}) = {} /\ At(p \o t.sent, Exclusive) = {}
         /\ At(p \o t.sent, Mutators) = {} /\ Replies(back, Exclusive) = {} /\ live = {}
    BY <1>1, <2>5 DEF Quiet, At, Exclusive
  <2> QED BY <2>2, <2>3, <2>4, <2>8, <2>9, <2>10, SendHolds
<1> QED BY <1>2, <1>3

\* A transfer of its own handle: nothing is known of that one yet.
LEMMA StartUploadHolds ==
    ASSUME NEW s, NEW p, NEW back, NEW live, NEW rdy, NEW dn,
           Holding(s, p, back, live, rdy, dn), MayStart(s),
           s.choices # 0, s.next <= Candidates
    PROVE  Holding(StartUpload(s), p, back, live, rdy, dn)
<1> DEFINE h == s.handles + 1
           content == [of |-> s.choices, size |-> s.next]
           x == [handle |-> h, token |-> s.token, content |-> content, download |-> 0]
           t == Connecting(s, h, x)
           c == [op |-> "upload", handle |-> h, content |-> content]
<1>1. s \in Syncs /\ Local(s) /\ Quiet(p \o s.sent, back, live) /\ s.previous = NoTransfer
      /\ s.drainQuery = 0 /\ s.drainId = 0 /\ s.retry
      /\ Given(s, p \o s.sent, back, live, rdy, dn)
  BY StartRests DEF Holding, World
<1>2. StartUpload(s) = Send(t, c)
  BY DEF StartUpload, Connecting
<1>3. content \in File
  BY <1>1, AvatarStoreAssumption, AvatarSyncAssumption DEF Syncs, Chosen, Sizes, Selections,
     File
<1> HIDE DEF content
<1>4. /\ h \in Nat /\ h > 0 /\ h = s.handles + 1 /\ s.handles \in Nat
      /\ s.token \in Nat /\ s.token > 0
  BY <1>1 DEF Syncs, Local, Known
<1> HIDE DEF h
<1>5. x \in Uploads /\ x.handle = h /\ x.token = s.token /\ x.content = content /\ x.download = 0
  BY <1>3, <1>4 DEF Uploads, Contents
<1>6. c \in AvatarCommand /\ c.op = "upload" /\ c.handle = h
  BY <1>3, <1>4, CommandsMade
<1> HIDE DEF x, c
<1>7. /\ t \in Syncs /\ ~t.pending /\ t.handles = h /\ t.upload = x /\ t.stage = "connect"
      /\ t.deadline /\ Else(t, s, {"stage", "deadline", "pending", "handles", "upload"})
  BY <1>1, <1>4, <1>5, ConnectingMoves
<1> HIDE DEF t
<1>8. /\ t.token = s.token /\ t.next = s.next /\ t.query = s.query /\ t.retry = s.retry /\ t.worker = "none"
      /\ t.deleting = 0 /\ ~t.draining /\ ~t.blocked
      /\ t.drainQuery = s.drainQuery /\ t.drainId = s.drainId /\ t.previous = s.previous
      /\ t.sent = s.sent
  BY <1>7 DEF Else, Fields, MayStart
<1>9. x # NoUpload
  BY <1>4, <1>5, Nothings
<1>10. Local(t)
  BY <1>1, <1>3, <1>4, <1>5, <1>7, <1>8, <1>9, Nothings DEF Underway, Uploading, Waiting,
     Working, Timed, Local, Known
<1>11. t.handles >= s.handles /\ t.token >= s.token
  BY <1>4, <1>7, <1>8
<1>12. Holding(t, p, back, live, rdy, dn)
  BY <1>1, <1>7, <1>8, <1>10, <1>11, RestingHolds
<1>13. Agrees(t, c)
  BY <1>5, <1>6, <1>7, <1>8, <1>9 DEF Agrees, Own, Uploaded
<1>14. /\ At(p \o t.sent, {"list"}) = {} /\ At(p \o t.sent, Exclusive) = {}
       /\ At(p \o t.sent, Mutators) = {} /\ Replies(back, Exclusive) = {} /\ live = {}
  BY <1>1, <1>8 DEF Quiet, At, Exclusive
<1>15. \A n : n \in 1 .. s.handles => n # h
  BY <1>4
<1>16. /\ \A i \in DOMAIN dn : dn[i].kind = "write" => dn[i].handle # h
       /\ \A i \in DOMAIN back : back[i].kind = "refused" => back[i].handle # h
       /\ \A r \in rdy : r.handle # h
  BY <1>1, <1>15 DEF Given
<1>17. c.handle \in 1 .. t.handles
  BY <1>4, <1>6, <1>7
<1>18. c.op \notin Exclusive
  BY <1>6 DEF Exclusive
<1> QED BY <1>2, <1>6, <1>12, <1>13, <1>14, <1>16, <1>17, <1>18, SendHolds

LEMMA StartImageHolds ==
    ASSUME NEW s, NEW hash, NEW p, NEW back, NEW live, NEW rdy, NEW dn,
           Holding(s, p, back, live, rdy, dn), MayStart(s), s.choices # 0
    PROVE  Holding(StartImage(s, hash), p, back, live, rdy, dn)
<1>1. s \in Syncs /\ Local(s) /\ Quiet(p \o s.sent, back, live) /\ s.previous = NoTransfer
      /\ s.drainQuery = 0 /\ s.drainId = 0 /\ s.retry
  BY StartRests DEF Holding, World
<1>2. CASE hash \in File /\ hash.of = s.choices
  <2> DEFINE t == [s EXCEPT !.pending = FALSE, !.deadline = FALSE]
  <2>1. t \in Syncs /\ ~t.pending /\ ~t.deadline /\ Else(t, s, {"pending", "deadline"})
    BY <1>1, SettledMoves
  <2>2. StartImage(s, hash) = t
    BY <1>2 DEF StartImage
  <2> HIDE DEF t
  <2>3. /\ t.token = s.token /\ t.next = s.next /\ t.query = s.query /\ t.retry = s.retry /\ t.worker = "none" /\ t.stage = s.stage
        /\ t.deleting = 0 /\ ~t.draining /\ t.blocked = s.blocked
        /\ t.drainQuery = s.drainQuery /\ t.drainId = s.drainId /\ t.previous = s.previous
        /\ t.upload = NoUpload /\ t.handles = s.handles /\ t.sent = s.sent
    BY <2>1 DEF Else, Fields, MayStart
  <2>4. Local(t)
    BY <1>1, <2>1, <2>3, Nothings DEF Local, Underway, Waiting, Working, Timed, Known, MayStart
  <2>5. t.handles >= s.handles /\ t.token >= s.token
    BY <1>1, <2>3 DEF Syncs
  <2> QED BY <1>1, <2>1, <2>2, <2>3, <2>4, <2>5, RestingHolds
<1>3. CASE ~(hash \in File /\ hash.of = s.choices) /\ s.next > Candidates
  BY <1>1, FailedHolds, <1>3 DEF MayStart, StartImage
<1>4. CASE ~(hash \in File /\ hash.of = s.choices) /\ ~(s.next > Candidates)
  BY <1>1, <1>4, AvatarSyncAssumption, StartUploadHolds DEF Syncs, Sizes, StartImage
<1> QED BY <1>2, <1>3, <1>4

LEMMA CheckHolds ==
    ASSUME NEW s, NEW hash, NEW p, NEW back, NEW live, NEW rdy, NEW dn,
           Holding(s, p, back, live, rdy, dn)
    PROVE  Holding(Check(s, hash), p, back, live, rdy, dn)
  BY CheckDrainHolds, CheckClearHolds, CheckHashHolds, LoadHolds, StartClearHolds,
     StartImageHolds DEF Check, Start

-----------------------------------------------------------------------------
(* Handlers                                                                *)

\* Entering a stage when nothing is under way at the server.
LEMMA EnterHolds ==
    ASSUME NEW s, NEW stage \in Stages, NEW p, NEW back, NEW live, NEW rdy, NEW dn,
           Holding(s, p, back, live, rdy, dn), Quiet(p \o s.sent, back, live),
           Local(Enter(s, stage))
    PROVE  Holding(Enter(s, stage), p, back, live, rdy, dn)
<1> DEFINE t == Enter(s, stage)
<1>1. s \in Syncs
  BY DEF Holding
<1>2. t \in Syncs /\ t.token = s.token /\ t.handles = s.handles /\ t.sent = s.sent
  BY <1>1, EnterMoves DEF Else, Fields
<1>3. t.handles >= s.handles /\ t.token >= s.token
  BY <1>1, <1>2 DEF Syncs
<1> QED BY <1>2, <1>3, RestingHolds

LEMMA IdleHolds ==
    ASSUME NEW s, NEW p, NEW back, NEW live, NEW rdy, NEW dn,
           Holding(s, p, back, live, rdy, dn)
    PROVE  LET t == [s EXCEPT !.worker = "none"] IN
           /\ Holding(t, p, back, live, rdy, dn)
           /\ t.worker = "none" /\ t.sent = s.sent
           /\ Else(t, s, {"worker"})
<1> DEFINE t == [s EXCEPT !.worker = "none"]
<1>1. s \in Syncs /\ p \in Seq(AvatarCommand) /\ World(s, p \o s.sent, back, live, rdy, dn)
      /\ Local(s) /\ Fit(s, p \o s.sent, back, live)
  BY DEF Holding, World
<1>2. t \in Syncs /\ t.worker = "none" /\ Else(t, s, {"worker"})
  BY <1>1, IdleMoves DEF Workers
<1> HIDE DEF t
<1>3. /\ t.token = s.token /\ t.next = s.next /\ t.query = s.query /\ t.pending = s.pending /\ t.retry = s.retry
      /\ t.deleting = s.deleting /\ t.draining = s.draining /\ t.blocked = s.blocked
      /\ t.drainQuery = s.drainQuery /\ t.drainId = s.drainId /\ t.previous = s.previous
      /\ t.upload = s.upload /\ t.stage = s.stage
      /\ t.deadline = s.deadline /\ t.handles = s.handles /\ t.sent = s.sent
  BY <1>2 DEF Else, Fields
<1>4. Own(t) = Own(s)
  BY <1>3 DEF Own
<1>5. Local(t)
  BY <1>1, <1>2, <1>3, <1>4 DEF Local, Underway, Waiting, Working, Timed, Known
<1>6. Fit(t, p \o s.sent, back, live)
  BY <1>1, <1>2, <1>3, <1>4, FitStays
<1>7. t.handles >= s.handles /\ t.token >= s.token
  BY <1>1, <1>3 DEF Syncs
<1>8. World(t, p \o t.sent, back, live, rdy, dn)
  BY <1>1, <1>2, <1>3, <1>5, <1>6, <1>7, WorldStays
<1> QED BY <1>1, <1>2, <1>3, <1>8 DEF Holding, t

\* The connection of an upload: its command has been carried out.
LEMMA UploadConnectedHolds ==
    ASSUME NEW s, NEW r, NEW p, NEW back, NEW live, NEW rdy, NEW dn,
           Holding(s, p, back, live, rdy, dn), r \in rdy, r.way = "up"
    PROVE  Holding(UploadConnected(s, r.handle), p, back, live, rdy, dn)
<1> DEFINE t == [Enter(s, "write") EXCEPT !.worker = "write"]
<1>1. s \in Syncs /\ p \in Seq(AvatarCommand) /\ World(s, p \o s.sent, back, live, rdy, dn)
      /\ Local(s) /\ Fit(s, p \o s.sent, back, live)
      /\ Given(s, p \o s.sent, back, live, rdy, dn) /\ HasEnded(p \o s.sent, back, live, rdy, dn)
  BY DEF Holding, World
<1> SUFFICES ASSUME s.upload.handle = r.handle, s.stage = "connect"
             PROVE  Holding(t, p, back, live, rdy, dn)
  BY DEF UploadConnected
<1>2. t \in Syncs /\ t.worker = "write" /\ t.stage = "write" /\ t.deadline
      /\ Else(t, s, {"stage", "deadline", "worker"})
  BY <1>1, WriteMoves
<1> HIDE DEF t
<1>3. /\ t.token = s.token /\ t.next = s.next /\ t.query = s.query /\ t.pending = s.pending /\ t.retry = s.retry
      /\ t.deleting = s.deleting /\ t.draining = s.draining /\ t.blocked = s.blocked
      /\ t.drainQuery = s.drainQuery /\ t.drainId = s.drainId /\ t.previous = s.previous
      /\ t.upload = s.upload /\ t.handles = s.handles /\ t.sent = s.sent
  BY <1>2 DEF Else, Fields
<1>4. s.upload # NoUpload
  BY <1>1, Nothings DEF Given
<1>5. /\ s.previous = NoTransfer /\ s.deleting = 0 /\ ~s.draining /\ ~s.blocked
      /\ s.drainQuery = 0 /\ s.drainId = 0 /\ ~s.pending
  BY <1>1, <1>4 DEF Local, Underway, Waiting, Working, Draining
<1>6. Own(t) = Own(s) /\ Own(s) = r.handle
  BY <1>3, <1>4 DEF Own
<1>7. Local(t)
  BY <1>1, <1>2, <1>3, <1>4, <1>5, <1>6 DEF Local, Underway, Waiting, Working, Timed, Known, Uploading
<1>8. Fit(t, p \o s.sent, back, live)
  BY <1>1, <1>5, <1>2, <1>3, <1>6 DEF Fit, HasEnded, Agrees, Suits, Uploaded
<1>9. t.handles >= s.handles /\ t.token >= s.token
  BY <1>1, <1>3 DEF Syncs
<1>10. World(t, p \o t.sent, back, live, rdy, dn)
  BY <1>1, <1>2, <1>3, <1>7, <1>8, <1>9, WorldStays
<1> QED BY <1>1, <1>2, <1>10 DEF Holding

\* From the announcement on, nothing is under way but questions.
LEMMA DownloadConnectedHolds ==
    ASSUME NEW s, NEW fits, NEW p, NEW back, NEW live, NEW rdy, NEW dn,
           Holding(s, p, back, live, rdy, dn), s.stage = "download", s.upload # NoUpload
    PROVE  Holding(DownloadConnected(s, fits), p, back, live, rdy, dn)
<1> DEFINE t == [Enter(s, "verify") EXCEPT !.worker = "verify"]
<1>1. s \in Syncs /\ p \in Seq(AvatarCommand) /\ World(s, p \o s.sent, back, live, rdy, dn)
      /\ Local(s)
  BY DEF Holding, World
<1>2. /\ s.previous = NoTransfer /\ s.deleting = 0 /\ ~s.draining /\ ~s.blocked
      /\ s.drainQuery = 0 /\ s.drainId = 0 /\ ~s.pending
  BY <1>1 DEF Local, Underway, Waiting, Working, Draining
<1>3. Holding(Failed(s, FALSE), p, back, live, rdy, dn)
  BY <1>2, FailedHolds
<1>4. t \in Syncs /\ t.worker = "verify" /\ t.stage = "verify" /\ t.deadline
      /\ Else(t, s, {"stage", "deadline", "worker"})
  BY <1>1, VerifyingMoves
<1>5. DownloadConnected(s, fits) = IF ~fits THEN Failed(s, FALSE) ELSE t
  BY DEF DownloadConnected
<1> HIDE DEF t
<1>6. /\ t.token = s.token /\ t.next = s.next /\ t.query = s.query /\ t.pending = s.pending /\ t.retry = s.retry
      /\ t.deleting = s.deleting /\ t.draining = s.draining /\ t.blocked = s.blocked
      /\ t.drainQuery = s.drainQuery /\ t.drainId = s.drainId /\ t.previous = s.previous
      /\ t.upload = s.upload /\ t.handles = s.handles /\ t.sent = s.sent
  BY <1>4 DEF Else, Fields
<1>7. Local(t)
  BY <1>1, <1>2, <1>4, <1>6 DEF Local, Underway, Waiting, Working, Timed, Known, Uploading
<1>8. Quiet(p \o s.sent, back, live)
  BY <1>1, <1>2, IdleRests DEF Uploaded
<1>9. t.handles >= s.handles /\ t.token >= s.token
  BY <1>1, <1>6 DEF Syncs
<1>10. Holding(t, p, back, live, rdy, dn)
  BY <1>4, <1>6, <1>7, <1>8, <1>9, RestingHolds
<1> QED BY <1>3, <1>5, <1>10

LEMMA TransferFailedHolds ==
    ASSUME NEW s, NEW h \in Nat, NEW why, NEW p, NEW back, NEW live, NEW rdy, NEW dn,
           Holding(s, p, back, live, rdy, dn), s.upload # NoUpload,
           why = "size" => Gone(h, p \o s.sent, live)
    PROVE  Holding(TransferFailed(s, h, why), p, back, live, rdy, dn)
<1>1. s \in Syncs /\ p \in Seq(AvatarCommand) /\ World(s, p \o s.sent, back, live, rdy, dn)
      /\ Local(s) /\ Fit(s, p \o s.sent, back, live)
      /\ Given(s, p \o s.sent, back, live, rdy, dn)
  BY DEF Holding, World
<1>2. /\ s.previous = NoTransfer /\ s.deleting = 0 /\ ~s.blocked /\ s.upload.handle > 0
      /\ s.retry
  BY <1>1 DEF Local, Underway, Waiting, Working
<1>3. Holding(Failed(s, FALSE), p, back, live, rdy, dn)
  BY <1>2, FailedHolds
<1>4. CASE s.draining
  BY <1>4 DEF TransferFailed
<1>5. CASE ~s.draining /\ (h # s.upload.handle \/ s.stage # "connect" \/ why # "size")
  BY <1>3, <1>5 DEF TransferFailed
<1>6. CASE ~s.draining /\ h = s.upload.handle /\ s.stage = "connect" /\ why = "size"
  <2>1. s.drainQuery = 0 /\ s.drainId = 0 /\ Own(s) = h
    BY <1>1, <1>2, <1>6 DEF Local, Waiting, Own
  <2>2. Quiet(p \o s.sent, back, live)
    <3>1. live = {}
      BY <1>1, <1>2, <1>6, <2>1 DEF Fit, Gone
    <3>2. \A i \in DOMAIN (p \o s.sent) : (p \o s.sent)[i].op \notin Mutators \cup Exclusive
      BY <1>1, <1>2, <1>6, <2>1 DEF Fit, Agrees, Gone, Given, Mutators, Exclusive
    <3>3. \A i \in DOMAIN back : back[i].kind = "reply" => back[i].op \notin Exclusive
      BY <1>1, <1>2, <1>6, <2>1 DEF Fit, Suits, Given, Exclusive
    <3> QED BY <3>1, <3>2, <3>3 DEF Quiet, At, Replies
  <2>3. s.next \in Sizes /\ s.next \in Nat
    BY <1>1, Numbers DEF Syncs
  <2>4. CASE s.next + 1 <= Candidates
    <3> DEFINE n == s.next + 1
               t == Shrinking(s, n, TRUE)
    <3>1. TransferFailed(s, h, why) = t
      BY <1>1, StopMoves, <1>6, <2>4 DEF Else, Fields, TransferFailed, Shrinking
    <3>2. n \in Sizes
      BY <2>3, <2>4, Numbers
    <3> HIDE DEF n
    <3>3. /\ t \in Syncs /\ t.next = n /\ t.pending /\ t.worker = "none" /\ t.upload = NoUpload
          /\ ~t.deadline /\ Else(t, s, {"worker", "upload", "deadline", "next", "pending"})
      BY <1>1, <3>2, ShrinkingMoves
    <3> HIDE DEF t
    <3>4. /\ t.token = s.token /\ t.query = s.query /\ t.retry = s.retry
          /\ t.deleting = s.deleting /\ t.draining = s.draining /\ t.blocked = s.blocked
          /\ t.drainQuery = s.drainQuery /\ t.drainId = s.drainId /\ t.previous = s.previous
          /\ t.stage = s.stage /\ t.handles = s.handles /\ t.sent = s.sent
      BY <3>3 DEF Else, Fields
    <3>5. Local(t)
      BY <1>1, <1>2, <1>6, <2>1, <3>3, <3>4, Nothings DEF Local, Underway, Waiting, Working, Timed, Known, Syncs
    <3>6. t.handles >= s.handles /\ t.token >= s.token
      BY <1>1, <3>4 DEF Syncs
    <3> QED BY <2>2, <3>1, <3>3, <3>4, <3>5, <3>6, RestingHolds
  <2>5. CASE ~(s.next + 1 <= Candidates)
    <3> DEFINE n == s.next + 1
               t == Shrinking(s, n, s.pending)
    <3>1. TransferFailed(s, h, why) = Failed(t, FALSE)
      <4>1. Stop(s).next = s.next /\ Stop(s).pending = s.pending /\ Stop(s) \in Syncs
        BY <1>1, StopMoves DEF Else, Fields
      <4>2. [Stop(s) EXCEPT !.next = @ + 1] = t
        BY <4>1 DEF Shrinking, Syncs
      <4> QED BY <1>6, <2>5, <4>2 DEF TransferFailed
    <3>2. n \in Sizes /\ s.pending \in BOOLEAN
      BY <1>1, <2>3, AvatarSyncAssumption DEF Local, Working, Sizes, Syncs
    <3> HIDE DEF n
    <3>3. /\ t \in Syncs /\ t.next = n /\ t.pending = s.pending /\ t.worker = "none" /\ t.upload = NoUpload
          /\ ~t.deadline /\ Else(t, s, {"worker", "upload", "deadline", "next", "pending"})
      BY <1>1, <3>2, ShrinkingMoves
    <3> HIDE DEF t
    <3>4. /\ t.token = s.token /\ t.query = s.query /\ t.retry = s.retry
          /\ t.deleting = s.deleting /\ t.draining = s.draining /\ t.blocked = s.blocked
          /\ t.drainQuery = s.drainQuery /\ t.drainId = s.drainId /\ t.previous = s.previous
          /\ t.stage = s.stage /\ t.handles = s.handles /\ t.sent = s.sent
      BY <3>3 DEF Else, Fields
    <3>5. Local(t)
      BY <1>1, <1>2, <1>6, <2>1, <3>3, <3>4, Nothings DEF Local, Underway, Waiting, Working, Timed, Known, Syncs
    <3>6. t.handles >= s.handles /\ t.token >= s.token
      BY <1>1, <3>4 DEF Syncs
    <3>7. Holding(t, p, back, live, rdy, dn)
      BY <2>2, <3>3, <3>4, <3>5, <3>6, RestingHolds
    <3> QED BY <1>2, <1>6, <3>1, <3>4, <3>7, FailedHolds
  <2> QED BY <2>4, <2>5
<1> QED BY <1>4, <1>5, <1>6

LEMMA TakenHolds ==
    ASSUME NEW s, NEW p, NEW back, NEW live, NEW rdy, NEW dn,
           Holding(s, p, back, live, rdy, dn), back # << >>,
           Head(back).kind # "transfers" \/ s.blocked \/ s.drainId # 0 \/ live = {}
    PROVE  Holding(s, p, Tail(back), live, rdy, dn)
  BY TakenWorld DEF Holding

\* After the answer to the one request under way, nothing is.
LEMMA AloneRests ==
    ASSUME NEW s, NEW p, NEW back, NEW live, NEW rdy, NEW dn,
           Holding(s, p, back, live, rdy, dn), back # << >>,
           Head(back).kind = "reply", Head(back).op \in Exclusive,
           Head(back).op \in {"sethash", "delete"} \/ live = {}
    PROVE  Quiet(p \o s.sent, Tail(back), live)
  BY TakenAlone DEF Holding, At, Quiet

LEMMA UpdatedHolds ==
    ASSUME NEW s, NEW ok, NEW p, NEW back, NEW live, NEW rdy, NEW dn,
           Holding(s, p, back, live, rdy, dn), back # << >>,
           Head(back).kind = "reply", Head(back).op = "sethash"
    PROVE  Holding(Updated(s, Head(back).token, ok), p, Tail(back), live, rdy, dn)
<1> DEFINE r == Tail(back)
           token == Head(back).token
<1> SUFFICES Holding(Updated(s, token, ok), p, r, live, rdy, dn)
  OBVIOUS
<1>1. Holding(s, p, r, live, rdy, dn)
  BY TakenHolds
<1>2. Quiet(p \o s.sent, r, live)
  BY AloneRests DEF Exclusive
<1> HIDE DEF r, token
<1>3. s \in Syncs /\ Local(s)
  BY DEF Holding, World
<1>4. CASE s.upload = NoUpload \/ s.upload.token # token \/ s.stage # "update"
  BY <1>1, <1>4 DEF Updated
<1>5. CASE s.upload # NoUpload /\ s.upload.token = token /\ s.stage = "update"
  <2>1. /\ s.previous = NoTransfer /\ s.deleting = 0 /\ ~s.blocked /\ s.drainQuery = 0
        /\ s.drainId = 0 /\ s.worker = "none"
    BY <1>3, <1>5 DEF Local, Underway, Waiting, Working
  <2>2. CASE s.draining
    <3> DEFINE u == [s EXCEPT !.drainQuery = 0]
    <3>1. u = s
      BY <1>3, <2>1 DEF Syncs
    <3>2. Enter(s, "drain") \in Syncs /\ Enter(s, "drain").stage = "drain"
          /\ Enter(s, "drain").deadline
          /\ Else(Enter(s, "drain"), s, {"stage", "deadline"})
      BY <1>3, EnterMoves DEF Stages
    <3> DEFINE t == Enter(s, "drain")
    <3>3. /\ t.token = s.token /\ t.query = s.query /\ t.pending = s.pending /\ t.retry = s.retry
          /\ t.next = s.next /\ t.worker = s.worker
          /\ t.deleting = s.deleting /\ t.draining = s.draining /\ t.blocked = s.blocked
          /\ t.drainQuery = s.drainQuery /\ t.drainId = s.drainId /\ t.previous = s.previous
          /\ t.upload = s.upload /\ t.handles = s.handles /\ t.sent = s.sent
      BY <3>2 DEF Else, Fields
    <3>4. Local(t)
      <4>1. Own(t) = Own(s)
        BY <3>3 DEF Own
      <4> HIDE DEF t
      <4> QED BY <1>3, <1>5, <2>1, <2>2, <3>2, <3>3, <4>1 DEF t, Local, Underway, Waiting, Working, Timed, Known, Draining, Uploading
    <3>5. Holding(t, p, r, live, rdy, dn)
      BY <1>1, <1>2, <3>4, EnterHolds DEF Stages
    <3> QED BY <1>5, <2>2, <3>1, <3>5 DEF Updated
  <2>3. CASE ~s.draining /\ ok
    <3> DEFINE t == Enter(s, "hash")
    <3>2. t \in Syncs /\ t.stage = "hash" /\ t.deadline /\ Else(t, s, {"stage", "deadline"})
      BY <1>3, EnterMoves DEF Stages
    <3>3. /\ t.token = s.token /\ t.query = s.query /\ t.pending = s.pending /\ t.retry = s.retry
          /\ t.next = s.next /\ t.worker = s.worker
          /\ t.deleting = s.deleting /\ t.draining = s.draining /\ t.blocked = s.blocked
          /\ t.drainQuery = s.drainQuery /\ t.drainId = s.drainId /\ t.previous = s.previous
          /\ t.upload = s.upload /\ t.handles = s.handles /\ t.sent = s.sent
      BY <3>2 DEF Else, Fields
    <3>4. Local(t)
      BY <1>3, <1>5, <2>1, <2>3, <3>2, <3>3 DEF Local, Underway, Waiting, Working, Timed,
         Known, Uploading
    <3>5. Holding(t, p, r, live, rdy, dn)
      BY <1>1, <1>2, <3>4, EnterHolds DEF Stages
    <3> QED BY <1>5, <2>3, <3>5 DEF Updated
  <2>4. CASE ~s.draining /\ ~ok
    BY <1>1, <2>1, FailedHolds, <1>5, <2>4 DEF Updated
  <2> QED BY <2>2, <2>3, <2>4
<1> QED BY <1>4, <1>5

\* The list of transfers tells whether the own one is still alive.
LEMMA ListedHolds ==
    ASSUME NEW s, NEW p, NEW back, NEW live, NEW rdy, NEW dn,
           Holding(s, p, back, live, rdy, dn), back # << >>, Head(back).kind = "transfers"
    PROVE  Holding(Listed(s, Head(back).ids), p, Tail(back), live, rdy, dn)
<1> DEFINE ids == Head(back).ids
           h == Own(s)
           there == s.stage = "drain" /\ s.drainQuery # 0 /\ h \in ids
           u == [s EXCEPT !.drainId = h]
           t == IF there THEN u ELSE s
<1>1. s \in Syncs /\ p \in Seq(AvatarCommand) /\ World(s, p \o s.sent, back, live, rdy, dn)
      /\ Local(s) /\ Wire(p \o s.sent, back, live) /\ Fit(s, p \o s.sent, back, live)
      /\ Given(s, p \o s.sent, back, live, rdy, dn)
  BY DEF Holding, World
<1>2. Listed(s, ids) = t
  BY DEF Listed, Own
<1>3. 1 \in DOMAIN back /\ Head(back) = back[1]
  BY <1>1, Tailed DEF World
<1>4. 2 \in Replies(back, {"list"}) /\ \A x \in live : x.handle \in ids
  BY <1>1, <1>3 DEF Wire
<1>5. h \in Nat
  BY <1>1 DEF Own, Syncs, Uploads, Transfers
<1>6. ~s.blocked => /\ s.stage = "drain" /\ s.drainQuery # 0
                    /\ \A x \in live : x.handle = h
  BY <1>1, <1>4 DEF Fit, Given, Replies, Suits
<1>7. CASE there
  <2>1. u \in Syncs /\ u.drainId = h /\ Else(u, s, {"drainId"})
    BY <1>1, <1>5, FoundMoves
  <2> HIDE DEF u
  <2>2. /\ u.token = s.token /\ u.query = s.query /\ u.pending = s.pending /\ u.retry = s.retry
        /\ u.next = s.next /\ u.worker = s.worker /\ u.stage = s.stage
        /\ u.deadline = s.deadline
        /\ u.deleting = s.deleting /\ u.draining = s.draining /\ u.blocked = s.blocked
        /\ u.drainQuery = s.drainQuery /\ u.previous = s.previous
        /\ u.upload = s.upload /\ u.handles = s.handles /\ u.sent = s.sent
    BY <2>1 DEF Else, Fields
  <2>3. Own(u) = h
    BY <2>2 DEF Own
  <2>4. s.draining /\ h # 0 /\ ~s.blocked
    BY <1>1, <1>7 DEF Local, Waiting
  <2> HIDE DEF h
  <2>5. Local(u)
    BY <1>1, <1>7, <2>1, <2>2, <2>3, <2>4 DEF h, Local, Underway, Waiting, Working, Timed,
       Known
  <2>6. Fit(u, p \o s.sent, back, live)
    BY <2>3, <1>1, <1>7, <2>2, <2>4, <2>1 DEF h, Fit, Agrees, Suits
  <2>7. u.handles >= s.handles /\ u.token >= s.token
    BY <1>1, <2>2 DEF Syncs
  <2>8. World(u, p \o u.sent, back, live, rdy, dn)
    BY <1>1, <2>1, <2>2, <2>5, <2>6, <2>7, WorldStays
  <2>9. Holding(u, p, back, live, rdy, dn) /\ u.drainId # 0
    BY <1>1, <2>1, <2>4, <2>8 DEF Holding
  <2> QED BY <1>2, <1>7, <2>9, TakenHolds
<1>8. CASE ~there
  BY <1>4, <1>6, <1>8, <1>2, TakenHolds
<1> QED BY <1>7, <1>8

LEMMA ListEndedHolds ==
    ASSUME NEW s, NEW ok, NEW p, NEW back, NEW live, NEW rdy, NEW dn,
           Holding(s, p, back, live, rdy, dn), back # << >>,
           Head(back).kind = "reply", Head(back).op = "list"
    PROVE  Holding(ListEnded(s, Head(back).token, ok), p, Tail(back), live, rdy, dn)
<1> DEFINE r == Tail(back)
           token == Head(back).token
<1> SUFFICES Holding(ListEnded(s, token, ok), p, r, live, rdy, dn)
  OBVIOUS
<1>1. Holding(s, p, r, live, rdy, dn)
  BY TakenHolds
<1>2. s \in Syncs /\ p \in Seq(AvatarCommand) /\ World(s, p \o s.sent, back, live, rdy, dn)
      /\ World(s, p \o s.sent, r, live, rdy, dn)
      /\ Local(s) /\ Fit(s, p \o s.sent, back, live)
  BY <1>1 DEF Holding, World
<1>3. /\ At(p \o s.sent, Exclusive) = {} /\ At(p \o s.sent, Mutators) = {}
      /\ Replies(r, Exclusive) = {} /\ token > 0
      /\ ~s.blocked /\ s.drainId = 0 => live = {}
  BY <1>2, TakenAlone DEF Exclusive
<1>4. live = {} => Quiet(p \o s.sent, r, live)
  BY AloneRests DEF Exclusive
<1> HIDE DEF r, token
<1>5. CASE s.drainQuery # token \/ s.stage # "drain"
  BY <1>1, <1>5 DEF ListEnded
<1>6. CASE s.drainQuery = token /\ s.stage = "drain"
  <2>1. s.drainQuery # 0 /\ ~s.blocked /\ s.draining /\ s.drainQuery \in Nat /\ token \in Nat
    BY <1>2, <1>3, <1>6 DEF Local, Waiting, Syncs
  <2>2. CASE ~ok
    BY <1>1, <2>1, FailedHolds, <1>6, <2>2 DEF ListEnded
  <2>3. CASE ok /\ s.drainId = 0
    BY <1>1, <1>3, <1>4, <2>1, <2>3, DrainedHolds, <1>6 DEF ListEnded
  <2>4. CASE ok /\ s.drainId # 0
    <3> DEFINE t == Enter(s, "stop_transfer")
               c == [op |-> "stop", token |-> token, id |-> s.drainId]
    <3>1. t \in Syncs /\ t.stage = "stop_transfer" /\ t.deadline /\ Else(t, s, {"stage", "deadline"})
      BY <1>2, EnterMoves DEF Stages
    <3>2. ListEnded(s, token, ok) = Send(t, c)
      BY <1>6, <2>4 DEF ListEnded
    <3>3. c \in AvatarCommand /\ c.op = "stop" /\ c.token = token /\ c.id = s.drainId
      BY <1>2, <2>1, CommandsMade DEF Syncs
    <3> HIDE DEF t, c
    <3>4. /\ t.token = s.token /\ t.query = s.query /\ t.pending = s.pending /\ t.retry = s.retry
          /\ t.next = s.next /\ t.worker = s.worker
          /\ t.deleting = s.deleting /\ t.draining = s.draining /\ t.blocked = s.blocked
          /\ t.drainQuery = s.drainQuery /\ t.drainId = s.drainId /\ t.previous = s.previous
          /\ t.upload = s.upload /\ t.handles = s.handles /\ t.sent = s.sent
      BY <3>1 DEF Else, Fields
    <3>5. Own(t) = Own(s)
      BY <3>4 DEF Own
    <3>6. Local(t)
      BY <1>2, <1>6, <2>1, <2>4, <3>1, <3>4, <3>5 DEF Local, Underway, Waiting, Working, Timed, Known, Draining, Uploading
    <3>7. Fit(t, p \o s.sent, r, live)
      BY <1>3, <1>2, <2>1, <3>1, <3>5 DEF Agrees, At, Mutators, Exclusive, Suits, Replies,
         Fit, Uploaded
    <3>8. t.handles >= s.handles /\ t.token >= s.token
      BY <1>2, <3>4 DEF Syncs
    <3>9. World(t, p \o t.sent, r, live, rdy, dn)
      BY <1>2, <3>1, <3>4, <3>6, <3>7, <3>8, WorldStays
    <3>10. Holding(t, p, r, live, rdy, dn)
      BY <1>2, <3>1, <3>9 DEF Holding
    <3>11. Agrees(t, c)
      BY <1>6, <3>1, <3>3, <3>4 DEF Agrees
    <3>12. /\ At(p \o t.sent, {"list"}) = {} /\ At(p \o t.sent, Exclusive) = {}
           /\ At(p \o t.sent, Mutators) = {}
      BY <1>3, <3>4 DEF At, Exclusive
    <3>13. c.op \notin Mutators /\ c.op \notin {"upload", "download"} /\ c.token > 0
      BY <1>3, <3>3 DEF Mutators
    <3> QED BY <1>3, <3>2, <3>3, <3>10, <3>11, <3>12, <3>13, SendHolds
  <2> QED BY <2>2, <2>3, <2>4
<1> QED BY <1>5, <1>6

LEMMA TransferStoppedHolds ==
    ASSUME NEW s, NEW ok, NEW p, NEW back, NEW live, NEW rdy, NEW dn,
           Holding(s, p, back, live, rdy, dn), back # << >>,
           Head(back).kind = "reply", Head(back).op = "stop"
    PROVE  Holding(TransferStopped(s, Head(back).token, ok), p, Tail(back), live, rdy, dn)
<1> DEFINE r == Tail(back)
           token == Head(back).token
<1> SUFFICES Holding(TransferStopped(s, token, ok), p, r, live, rdy, dn)
  OBVIOUS
<1>1. Holding(s, p, r, live, rdy, dn)
  BY TakenHolds
<1>2. s \in Syncs /\ World(s, p \o s.sent, back, live, rdy, dn) /\ Local(s)
  BY DEF Holding, World
<1>3. token > 0 /\ (~s.blocked => live = {})
  BY <1>2, TakenAlone DEF Exclusive, Suits
<1>4. live = {} => Quiet(p \o s.sent, r, live)
  BY AloneRests DEF Exclusive
<1> HIDE DEF r, token
<1>5. CASE s.drainQuery # token \/ s.stage # "stop_transfer"
  BY <1>1, <1>5 DEF TransferStopped
<1>6. CASE s.drainQuery = token /\ s.stage = "stop_transfer"
  <2>1. ~s.blocked /\ s.draining
    BY <1>2, <1>3, <1>6 DEF Local, Waiting, Syncs
  <2>2. Holding(Failed(s, FALSE), p, r, live, rdy, dn)
    BY <1>1, <2>1, FailedHolds
  <2>3. Holding(Drained(s), p, r, live, rdy, dn)
    BY <1>1, <1>3, <1>4, <2>1, DrainedHolds
  <2> QED BY <1>6, <2>2, <2>3 DEF TransferStopped
<1> QED BY <1>5, <1>6

LEMMA DeletedHolds ==
    ASSUME NEW s, NEW result, NEW p, NEW back, NEW live, NEW rdy, NEW dn,
           Holding(s, p, back, live, rdy, dn), back # << >>,
           Head(back).kind = "reply", Head(back).op = "delete"
    PROVE  Holding(Deleted(s, Head(back).token, result), p, Tail(back), live, rdy, dn)
<1> DEFINE r == Tail(back)
           token == Head(back).token
<1> SUFFICES Holding(Deleted(s, token, result), p, r, live, rdy, dn)
  OBVIOUS
<1>1. Holding(s, p, r, live, rdy, dn)
  BY TakenHolds
<1>2. s \in Syncs /\ World(s, p \o s.sent, back, live, rdy, dn) /\ Local(s)
  BY DEF Holding, World
<1>3. token > 0
  BY <1>2, TakenAlone DEF Exclusive
<1>4. Quiet(p \o s.sent, r, live)
  BY AloneRests DEF Exclusive
<1> HIDE DEF r, token
<1>5. CASE s.deleting # token \/ s.stage # "delete"
  BY <1>1, <1>5 DEF Deleted
<1>6. CASE s.deleting = token /\ s.stage = "delete"
  <2>1. /\ s.deleting # 0 /\ ~s.blocked /\ s.previous = NoTransfer /\ s.upload = NoUpload
        /\ s.drainQuery = 0 /\ s.drainId = 0 /\ s.worker = "none"
    BY <1>2, <1>3, <1>6 DEF Local, Underway, Waiting, Working, Syncs
  <2>2. Holding(Failed(s, FALSE), p, r, live, rdy, dn)
    BY <1>1, <1>4, <2>1, FailedHolds
  <2>3. CASE s.draining
    BY <1>1, <1>4, <2>1, <2>3, DrainedHolds, <1>6 DEF Deleted
  <2>4. CASE ~s.draining /\ result = "no"
    BY <1>6, <2>2, <2>4 DEF Deleted
  <2>5. CASE ~s.draining /\ result # "no"
    <3> DEFINE late == s.missing \/ result = "missing"
               t == [Enter(s, "clear_hash") EXCEPT !.missing = late]
    <3>1. Deleted(s, token, result) = t
      BY <1>2, EnterMoves, <1>6, <2>5 DEF Else, Fields, Stages, Deleted
    <3>2. late \in BOOLEAN
      BY <1>2 DEF Syncs
    <3> HIDE DEF late
    <3>3. t \in Syncs /\ t.stage = "clear_hash" /\ t.deadline
          /\ Else(t, s, {"stage", "deadline", "missing"})
      BY <1>2, <3>2, ClearingMoves
    <3> HIDE DEF t
    <3>4. /\ t.token = s.token /\ t.query = s.query /\ t.pending = s.pending /\ t.retry = s.retry
          /\ t.next = s.next /\ t.worker = s.worker
          /\ t.deleting = s.deleting /\ t.draining = s.draining /\ t.blocked = s.blocked
          /\ t.drainQuery = s.drainQuery /\ t.drainId = s.drainId /\ t.previous = s.previous
          /\ t.upload = s.upload /\ t.handles = s.handles /\ t.sent = s.sent
      BY <3>3 DEF Else, Fields
    <3>5. Local(t)
      BY <1>2, <1>6, <2>1, <2>5, <3>3, <3>4 DEF Local, Underway, Waiting, Working, Timed, Known
    <3>6. t.handles >= s.handles /\ t.token >= s.token
      BY <1>2, <3>4 DEF Syncs
    <3> QED BY <1>1, <1>4, <3>1, <3>3, <3>4, <3>5, <3>6, RestingHolds
  <2> QED BY <2>3, <2>4, <2>5
<1> QED BY <1>5, <1>6

LEMMA HashChangedHolds ==
    ASSUME NEW s, NEW hash, NEW p, NEW back, NEW live, NEW rdy, NEW dn,
           Holding(s, p, back, live, rdy, dn)
    PROVE  Holding(HashChanged(s, hash), p, back, live, rdy, dn)
<1>1. s \in Syncs /\ Local(s)
  BY DEF Holding, World
<1>2. CASE ~s.draining /\ (s.stage = "cleared" \/ s.upload # NoUpload)
  BY <1>1, <1>2, FailedHolds DEF Local, Underway, Waiting, HashChanged
<1>3. CASE ~(~s.draining /\ (s.stage = "cleared" \/ s.upload # NoUpload))
  BY <1>3 DEF HashChanged
<1> QED BY <1>2, <1>3

LEMMA PlainHolds ==
    ASSUME NEW s, NEW t \in Syncs, NEW p, NEW back, NEW live, NEW rdy, NEW dn,
           Holding(s, p, back, live, rdy, dn),
           Else(t, s, {"query", "queryTimedOut"}),
           t.query = s.query \/ t.query = NoQuery \/ t.query.token > 0
    PROVE  Holding(t, p, back, live, rdy, dn)
  BY PlainWorld DEF Holding, Else, Fields

LEMMA FinishQueryHolds ==
    ASSUME NEW s0, NEW p, NEW back, NEW live, NEW rdy, NEW dn,
           Holding(s0, p, back, live, rdy, dn)
    PROVE  Holding(FinishQuery(s0), p, back, live, rdy, dn)
<1> DEFINE q == s0.query
           s == [s0 EXCEPT !.query = NoQuery]
<1>1. s0 \in Syncs /\ Local(s0)
  BY DEF Holding, World
<1>2. s \in Syncs /\ s.query = NoQuery /\ Else(s, s0, {"query"})
  BY <1>1, Nothings, QueryingMoves
<1>3. FinishQuery(s0) =
        IF q.result = "none" \/ (q.result = "ok" /\ ~q.answered) THEN s0
        ELSE IF s.stage = "clear_hash" /\ s.deleting = q.token
        THEN IF q.result = "ok" /\ q.hash = NoContent THEN ClearConfirmed(s)
                                                      ELSE Failed(s, FALSE)
        ELSE IF q.token # s.token \/ s.stage # "hash" \/ s.upload = NoUpload THEN s
        ELSE IF q.result = "ok" /\ q.hash = s.upload.content THEN Verify(s)
        ELSE Failed(s, FALSE)
  BY DEF FinishQuery
<1> HIDE DEF s
<1>4. Holding(s, p, back, live, rdy, dn) /\ Local(s)
  BY <1>2, PlainHolds DEF Else, Holding, World
<1>5. CASE q.result = "none" \/ (q.result = "ok" /\ ~q.answered)
  BY <1>3, <1>5
<1>6. CASE ~(q.result = "none" \/ (q.result = "ok" /\ ~q.answered))
  <2>1. q.token > 0
    BY <1>1, <1>6, Nothings DEF Local, Known
  <2> HIDE DEF q
  <2>2. CASE s.stage = "clear_hash" /\ s.deleting = q.token
    <3>1. s.deleting # 0 /\ s.previous = NoTransfer
      BY <1>4, <2>1, <2>2 DEF Local, Underway
    <3>2. Holding(ClearConfirmed(s), p, back, live, rdy, dn)
      BY <1>4, <2>2, <3>1, ConfirmedHolds
    <3>3. Holding(Failed(s, FALSE), p, back, live, rdy, dn)
      BY <1>4, <2>2, <3>1, FailedHolds
    <3> QED BY <1>3, <1>6, <2>2, <3>2, <3>3
  <2>3. CASE ~(s.stage = "clear_hash" /\ s.deleting = q.token)
             /\ (q.token # s.token \/ s.stage # "hash" \/ s.upload = NoUpload)
    BY <1>3, <1>4, <1>6, <2>3
  <2>4. CASE s.stage = "hash" /\ s.upload # NoUpload
    BY <1>4, <2>4, VerifyHolds, FailedHolds, <1>3, <1>6 DEF Local, Underway
  <2> QED BY <2>2, <2>3, <2>4
<1> QED BY <1>5, <1>6

LEMMA InformedHolds ==
    ASSUME NEW s, NEW hash \in Contents, NEW p, NEW back, NEW live, NEW rdy, NEW dn,
           Holding(s, p, back, live, rdy, dn)
    PROVE  Holding(Informed(s, hash), p, back, live, rdy, dn)
<1>1. CASE s.query = NoQuery
  BY <1>1 DEF Informed
<1>2. CASE s.query # NoQuery
  <2> DEFINE q == [s.query EXCEPT !.hash = hash, !.answered = TRUE]
             t == [s EXCEPT !.query = q]
  <2>1. s \in Syncs /\ Local(s) /\ s.query \in Queries
    BY DEF Holding, World, Syncs
  <2>2. q \in Queries /\ q.token = s.query.token
    BY <2>1 DEF Queries
  <2>3. [s EXCEPT !.query.hash = hash, !.query.answered = TRUE] = t
    BY <2>1 DEF Syncs, Queries
  <2>4. Informed(s, hash) = FinishQuery(t)
    BY <1>2, <2>3 DEF Informed
  <2>5. s.query.token > 0
    BY <1>2, <2>1 DEF Local, Known
  <2> HIDE DEF q
  <2>6. t \in Syncs /\ t.query = q /\ Else(t, s, {"query"})
    BY <2>1, <2>2, QueryingMoves
  <2> HIDE DEF t
  <2>7. Else(t, s, {"query", "queryTimedOut"})
    BY <2>6 DEF Else
  <2>8. Holding(t, p, back, live, rdy, dn)
    BY <2>2, <2>5, <2>6, <2>7, PlainHolds
  <2> QED BY <2>4, <2>8, FinishQueryHolds
<1> QED BY <1>1, <1>2

LEMMA InfoEndedHolds ==
    ASSUME NEW s, NEW token, NEW result \in {"ok", "no", "missing"},
           NEW p, NEW back, NEW live, NEW rdy, NEW dn,
           Holding(s, p, back, live, rdy, dn), result # "missing"
    PROVE  Holding(InfoEnded(s, token, result), p, back, live, rdy, dn)
<1>1. CASE ~(s.query # NoQuery /\ s.query.token = token)
  BY <1>1, FinishQueryHolds DEF InfoEnded
<1>2. CASE s.query # NoQuery /\ s.query.token = token
  <2> DEFINE q == [s.query EXCEPT !.result = result]
             t == [s EXCEPT !.query = q]
  <2>1. s \in Syncs /\ Local(s) /\ s.query \in Queries
    BY DEF Holding, World, Syncs
  <2>2. q \in Queries /\ q.token = s.query.token
    BY <2>1 DEF Queries
  <2>3. [s EXCEPT !.query.result = result] = t
    BY <2>1 DEF Syncs, Queries
  <2>4. InfoEnded(s, token, result) = FinishQuery(t)
    BY <1>2, <2>3 DEF InfoEnded
  <2>5. s.query.token > 0
    BY <1>2, <2>1 DEF Local, Known
  <2> HIDE DEF q
  <2>6. t \in Syncs /\ t.query = q /\ Else(t, s, {"query"})
    BY <2>1, <2>2, QueryingMoves
  <2> HIDE DEF t
  <2>7. Else(t, s, {"query", "queryTimedOut"})
    BY <2>6 DEF Else
  <2>8. Holding(t, p, back, live, rdy, dn)
    BY <2>2, <2>5, <2>6, <2>7, PlainHolds
  <2> QED BY <2>4, <2>8, FinishQueryHolds
<1> QED BY <1>1, <1>2

\* What a message of the server does.
LEMMA TakeHolds ==
    ASSUME NEW s, NEW p, NEW back, NEW live, NEW rdy, NEW dn,
           Holding(s, p, back, live, rdy, dn), back # << >>, Head(back).kind # "refused"
    PROVE  Holding(Take(s, Head(back)), p, Tail(back), live, rdy, dn)
<1> DEFINE m == Head(back)
<1>1. back \in Seq(AvatarMessage)
  BY DEF Holding, World
<1>2. m \in AvatarMessage
  BY <1>1
<1>3. CASE m.kind = "book"
  BY <1>3, TakenHolds, HashChangedHolds DEF Take
<1>4. CASE m.kind = "info"
  BY <1>4, TakenHolds, <1>2, InformedHolds DEF AvatarMessage, Take, m
<1>5. CASE m.kind = "transfers"
  BY <1>5, ListedHolds DEF Take
<1>6. CASE m.kind = "reply"
  BY <1>6, UpdatedHolds, ListEndedHolds, TransferStoppedHolds, DeletedHolds, <1>2, TakenHolds,
     InfoEndedHolds DEF Take, Answer, AvatarMessage, m
<1> QED BY <1>2, <1>3, <1>4, <1>5, <1>6 DEF AvatarMessage

LEMMA LoadedHolds ==
    ASSUME NEW s, NEW token, NEW result \in References \cup {[kind |-> "error", of |-> 0]},
           NEW p, NEW back, NEW live, NEW rdy, NEW dn,
           Holding(s, p, back, live, rdy, dn)
    PROVE  Holding(Loaded(s, token, result), p, back, live, rdy, dn)
<1>1. CASE token # s.token \/ s.stage # "load" \/ s.worker = "none"
  BY <1>1 DEF Loaded
<1>2. CASE token = s.token /\ s.stage = "load" /\ s.worker # "none"
  <2> DEFINE u == [s EXCEPT !.worker = "none"]
  <2>1. s \in Syncs /\ Local(s) /\ World(s, p \o s.sent, back, live, rdy, dn)
    BY DEF Holding, World
  <2>2. Loaded(s, token, result) =
         CASE result.kind = "image" -> Choosing(u, FALSE, result.of)
           [] result.kind = "clear" -> Choosing(u, TRUE, 0)
           [] result.kind = "unset" -> [u EXCEPT !.deadline = FALSE, !.pending = FALSE]
           [] OTHER -> Failed(u, FALSE)
    BY <1>2 DEF Loaded, Choosing
  <2>3. Holding(u, p, back, live, rdy, dn) /\ u.worker = "none" /\ u.sent = s.sent
        /\ Else(u, s, {"worker"})
    BY IdleHolds
  <2> HIDE DEF u
  <2>4. /\ s.pending /\ ~s.draining /\ ~s.blocked /\ s.upload = NoUpload
        /\ s.previous = NoTransfer /\ s.deleting = 0 /\ s.drainQuery = 0 /\ s.drainId = 0
        /\ s.retry
    BY <1>2, <2>1 DEF Local, Waiting, Working
  <2>5. /\ u.pending /\ ~u.draining /\ ~u.blocked /\ u.upload = NoUpload
        /\ u.previous = NoTransfer /\ u.deleting = 0 /\ u.drainQuery = 0 /\ u.drainId = 0
        /\ u.retry /\ u.stage = "load" /\ u.token = s.token /\ u.handles = s.handles
        /\ u.query = s.query /\ u.next = s.next
    BY <1>2, <2>3, <2>4 DEF Else, Fields
  <2>6. u \in Syncs /\ Local(u) /\ Quiet(p \o u.sent, back, live)
    BY <2>4, Nothings, <2>1, IdleRests, <2>3 DEF Own, Holding, World
  <2>7. ASSUME NEW b \in BOOLEAN, NEW n \in Chosen
        PROVE  Holding(Choosing(u, b, n), p, back, live, rdy, dn)
    <3> DEFINE t == Choosing(u, b, n)
    <3>1. t \in Syncs /\ t.stage = "own" /\ t.deadline
          /\ Else(t, u, {"stage", "deadline", "clear", "choices"})
      BY <2>6, ChoosingMoves
    <3> HIDE DEF t
    <3>2. /\ t.token = u.token /\ t.query = u.query /\ t.pending /\ t.retry /\ t.next = u.next
          /\ t.deleting = 0 /\ ~t.draining /\ ~t.blocked /\ t.worker = "none"
          /\ t.drainQuery = 0 /\ t.drainId = 0 /\ t.previous = NoTransfer
          /\ t.upload = NoUpload /\ t.handles = u.handles /\ t.sent = u.sent
      BY <2>3, <2>5, <3>1 DEF Else, Fields
    <3>3. Local(t)
      BY <2>6, <3>1, <3>2, Nothings DEF Local, Underway, Waiting, Working, Timed, Known
    <3>4. t.handles >= u.handles /\ t.token >= u.token
      BY <2>6, <3>2 DEF Syncs
    <3> QED BY <2>3, <2>6, <3>1, <3>2, <3>3, <3>4, RestingHolds DEF t
  <2>8. Holding([u EXCEPT !.deadline = FALSE, !.pending = FALSE], p, back, live, rdy, dn)
    <3> DEFINE t == [u EXCEPT !.pending = FALSE, !.deadline = FALSE]
    <3>1. t \in Syncs /\ ~t.pending /\ ~t.deadline /\ Else(t, u, {"pending", "deadline"})
      BY <2>6, SettledMoves
    <3>2. [u EXCEPT !.deadline = FALSE, !.pending = FALSE] = t
      BY <2>6 DEF Syncs
    <3> HIDE DEF t
    <3>3. /\ t.token = u.token /\ t.query = u.query /\ t.retry /\ t.next = u.next
          /\ t.deleting = 0 /\ ~t.draining /\ ~t.blocked /\ t.worker = "none"
          /\ t.drainQuery = 0 /\ t.drainId = 0 /\ t.previous = NoTransfer /\ t.stage = "load"
          /\ t.upload = NoUpload /\ t.handles = u.handles /\ t.sent = u.sent
      BY <2>3, <2>5, <3>1 DEF Else, Fields
    <3>4. Local(t)
      BY <2>6, <3>1, <3>3, Nothings DEF Local, Underway, Waiting, Working, Timed, Known
    <3>5. t.handles >= u.handles /\ t.token >= u.token
      BY <2>6, <3>3 DEF Syncs
    <3> QED BY <2>3, <2>6, <3>1, <3>2, <3>3, <3>4, <3>5, RestingHolds
  <2>9. Holding(Failed(u, FALSE), p, back, live, rdy, dn)
    BY <2>3, <2>5, FailedHolds
  <2>10. CASE result.kind = "image"
    <3>1. result.of \in Chosen
      BY <2>10, AvatarStoreAssumption DEF References, NoFile, Kinds, Selections, Chosen
    <3>2. Loaded(s, token, result) = Choosing(u, FALSE, result.of)
      BY <2>2, <2>10
    <3> QED BY <2>7, <3>1, <3>2
  <2>11. CASE result.kind = "clear"
    BY <2>2, <2>11, <2>7, Firsts
  <2>12. CASE result.kind = "unset"
    BY <2>2, <2>8, <2>12
  <2>13. CASE result.kind \notin {"image", "clear", "unset"}
    BY <2>2, <2>9, <2>13
  <2> QED BY <2>10, <2>11, <2>12, <2>13
<1> QED BY <1>1, <1>2

\* The picture has been written: its transfer is over.
LEMMA WrittenHolds ==
    ASSUME NEW s, NEW token, NEW h, NEW ok \in BOOLEAN,
           NEW p, NEW back, NEW live, NEW rdy, NEW dn,
           Holding(s, p, back, live, rdy, dn), h > 0,
           ok => Gone(h, p \o s.sent, live)
    PROVE  Holding(Written(s, token, h, ok), p, back, live, rdy, dn)
<1>1. s \in Syncs /\ Local(s) /\ World(s, p \o s.sent, back, live, rdy, dn)
      /\ Fit(s, p \o s.sent, back, live) /\ Given(s, p \o s.sent, back, live, rdy, dn)
  BY DEF Holding, World
<1>2. CASE \/ token # s.token /\ ~s.draining
           \/ s.stage # "write" \/ s.upload.handle # h \/ s.upload.token # token
  BY <1>2 DEF Written
<1>3. CASE ~(\/ token # s.token /\ ~s.draining
             \/ s.stage # "write" \/ s.upload.handle # h \/ s.upload.token # token)
  <2> DEFINE u == [s EXCEPT !.worker = "none"]
             c == [op |-> "sethash", token |-> s.token, hash |-> s.upload.content]
             t == Enter(u, "update")
  <2>1. s.upload # NoUpload
    BY <1>3, Nothings
  <2>2. /\ ~s.draining /\ ~s.blocked /\ s.previous = NoTransfer /\ s.deleting = 0
        /\ s.drainQuery = 0 /\ s.drainId = 0 /\ token = s.token /\ s.retry /\ ~s.pending
        /\ s.next <= Candidates
    BY <1>1, <1>3, <2>1 DEF Local, Underway, Waiting, Working, Draining
  <2>3. Written(s, token, h, ok) = IF ~ok THEN Failed(u, FALSE) ELSE Send(t, c)
    BY <1>3, <2>2 DEF Written
  <2>4. Holding(u, p, back, live, rdy, dn) /\ u.worker = "none" /\ u.sent = s.sent
        /\ Else(u, s, {"worker"})
    BY IdleHolds
  <2> HIDE DEF u
  <2>5. u \in Syncs /\ Local(u)
    BY <2>4 DEF Holding, World
  <2>6. /\ ~u.draining /\ ~u.blocked /\ u.upload = s.upload /\ u.stage = "write" /\ u.retry
        /\ u.previous = NoTransfer /\ u.deleting = 0 /\ u.drainQuery = 0 /\ u.drainId = 0
        /\ u.token = s.token /\ u.handles = s.handles /\ u.query = s.query /\ u.next = s.next
        /\ ~u.pending
    BY <1>3, <2>2, <2>4 DEF Else, Fields
  <2>7. CASE ~ok
    BY <2>4, <2>6, FailedHolds, <2>3, <2>7
  <2>8. CASE ok
    <3>1. Quiet(p \o s.sent, back, live)
      <4>1. live = {}
        BY <1>1, <1>3, <2>1, <2>2, <2>8 DEF Fit, Gone, Own
      <4>2. \A i \in DOMAIN (p \o s.sent) : (p \o s.sent)[i].op \notin Mutators \cup Exclusive
        BY <1>1, <1>3, <2>1, <2>2, <2>8 DEF Fit, Agrees, Gone, Given, Mutators, Exclusive, Own
      <4>3. \A i \in DOMAIN back : back[i].kind = "reply" => back[i].op \notin Exclusive
        BY <1>1, <1>3, <2>2 DEF Fit, Suits, Given, Exclusive
      <4> QED BY <4>1, <4>2, <4>3 DEF Quiet, At, Replies
    <3>2. t \in Syncs /\ t.stage = "update" /\ t.deadline /\ Else(t, u, {"stage", "deadline"})
      BY <2>5, EnterMoves DEF Stages
    <3>3. c \in AvatarCommand /\ c.op = "sethash" /\ c.token = s.token
      BY <1>1, CommandsMade DEF Syncs, Uploads
    <3> HIDE DEF c
    <3>4. /\ t.token = u.token /\ t.query = u.query /\ t.retry /\ t.next = u.next
          /\ t.deleting = 0 /\ ~t.draining /\ ~t.blocked /\ t.worker = "none" /\ ~t.pending
          /\ t.drainQuery = 0 /\ t.drainId = 0 /\ t.previous = NoTransfer
          /\ t.upload = s.upload /\ t.handles = u.handles /\ t.sent = u.sent
      BY <2>4, <2>6, <3>2 DEF Else, Fields
    <3>5. Local(t)
      BY <2>1, <2>2, <2>5, <2>6, <3>2, <3>4 DEF Local, Underway, Waiting, Working, Timed,
         Known, Uploading
    <3>6. Holding(t, p, back, live, rdy, dn)
      BY <2>4, <3>1, <3>5, EnterHolds DEF Stages
    <3>7. s.token \in Nat /\ s.token > 0 /\ s.upload.handle > 0
      BY <1>1, <2>1 DEF Local, Underway, Known, Syncs
    <3> HIDE DEF t
    <3>8. Agrees(t, c)
      BY <2>1, <3>2, <3>3, <3>4, <3>7 DEF Agrees, Own
    <3>9. /\ At(p \o t.sent, {"list"}) = {} /\ At(p \o t.sent, Exclusive) = {}
          /\ At(p \o t.sent, Mutators) = {} /\ Replies(back, Exclusive) = {} /\ live = {}
      BY <2>4, <3>1, <3>4 DEF Quiet, At, Exclusive
    <3>10. Holding(Send(t, c), p, back, live, rdy, dn)
      BY <3>3, <3>6, <3>7, <3>8, <3>9, SendHolds
    <3> QED BY <2>3, <2>8, <3>10
  <2> QED BY <2>7, <2>8
<1> QED BY <1>2, <1>3

LEMMA VerifiedHolds ==
    ASSUME NEW s, NEW token, NEW h, NEW ok \in BOOLEAN,
           NEW p, NEW back, NEW live, NEW rdy, NEW dn,
           Holding(s, p, back, live, rdy, dn), h > 0
    PROVE  Holding(Verified(s, token, h, ok), p, back, live, rdy, dn)
<1>1. s \in Syncs /\ Local(s) /\ World(s, p \o s.sent, back, live, rdy, dn)
  BY DEF Holding, World
<1>2. CASE \/ token # s.token /\ ~s.draining
           \/ s.stage # "verify" \/ s.upload.download # h \/ s.upload.token # token
  BY <1>2 DEF Verified
<1>3. CASE ~(\/ token # s.token /\ ~s.draining
             \/ s.stage # "verify" \/ s.upload.download # h \/ s.upload.token # token)
  <2> DEFINE u == [s EXCEPT !.worker = "none"]
             t == [u EXCEPT !.stage = "synced", !.deadline = FALSE, !.choices = 0]
  <2>1. s.upload # NoUpload
    BY <1>3, Nothings
  <2>2. /\ ~s.draining /\ ~s.blocked /\ s.previous = NoTransfer /\ s.deleting = 0
        /\ s.drainQuery = 0 /\ s.drainId = 0 /\ s.retry /\ ~s.pending
    BY <1>1, <1>3, <2>1 DEF Local, Underway, Waiting, Working, Draining
  <2>3. Verified(s, token, h, ok) = IF ~ok THEN Failed(u, FALSE) ELSE t
    BY <1>3, <2>2 DEF Verified
  <2>4. Holding(u, p, back, live, rdy, dn) /\ u.worker = "none" /\ u.sent = s.sent
        /\ Else(u, s, {"worker"})
    BY IdleHolds
  <2> HIDE DEF u
  <2>5. u \in Syncs /\ Local(u)
    BY <2>4 DEF Holding, World
  <2>6. /\ ~u.draining /\ ~u.blocked /\ u.upload = s.upload /\ u.stage = "verify" /\ u.retry
        /\ u.previous = NoTransfer /\ u.deleting = 0 /\ u.drainQuery = 0 /\ u.drainId = 0
        /\ u.token = s.token /\ u.handles = s.handles /\ u.query = s.query /\ u.next = s.next
        /\ ~u.pending
    BY <1>3, <2>2, <2>4 DEF Else, Fields
  <2>7. Holding(Failed(u, FALSE), p, back, live, rdy, dn)
    BY <2>4, <2>6, FailedHolds
  <2>8. t \in Syncs /\ t.stage = "synced" /\ ~t.deadline /\ Else(t, u, {"stage", "deadline", "choices"})
    BY <2>5, SyncedMoves
  <2> HIDE DEF t
  <2>9. /\ t.token = u.token /\ t.query = u.query /\ t.retry /\ t.next = u.next
        /\ t.deleting = 0 /\ ~t.draining /\ ~t.blocked /\ t.worker = "none" /\ ~t.pending
        /\ t.drainQuery = 0 /\ t.drainId = 0 /\ t.previous = NoTransfer
        /\ t.upload = u.upload /\ t.handles = u.handles /\ t.sent = u.sent
    BY <2>4, <2>6, <2>8 DEF Else, Fields
  <2>10. Local(t)
    BY <2>1, <2>2, <2>5, <2>6, <2>8, <2>9 DEF Local, Underway, Waiting, Working, Timed, Known, Uploading
  <2>11. Quiet(p \o u.sent, back, live)
    BY <1>1, <1>3, <2>1, <2>2, <2>4, IdleRests DEF Uploaded
  <2>12. t.handles >= u.handles /\ t.token >= u.token
    BY <2>5, <2>9 DEF Syncs
  <2>13. Holding(t, p, back, live, rdy, dn)
    BY <2>4, <2>8, <2>9, <2>10, <2>11, <2>12, RestingHolds
  <2> QED BY <2>3, <2>7, <2>13
<1> QED BY <1>2, <1>3

LEMMA DoneHolds ==
    ASSUME NEW s, NEW p, NEW back, NEW live, NEW rdy, NEW dn,
           Holding(s, p, back, live, rdy, dn), dn # << >>
    PROVE  Holding(s, p, back, live, rdy, Tail(dn))
  BY Tailed DEF Holding, World, Given, HasEnded

LEMMA CompletedHolds ==
    ASSUME NEW s, NEW p, NEW back, NEW live, NEW rdy, NEW dn,
           Holding(s, p, back, live, rdy, dn), dn # << >>
    PROVE  Holding(Completed(s, Head(dn)), p, back, live, rdy, Tail(dn))
<1> DEFINE c == Head(dn)
<1>1. Holding(s, p, back, live, rdy, Tail(dn))
  BY DoneHolds
<1>2. /\ dn \in Seq(AvatarResult) /\ Given(s, p \o s.sent, back, live, rdy, dn)
      /\ HasEnded(p \o s.sent, back, live, rdy, dn) /\ s \in Syncs
  BY DEF Holding, World
<1>3. c \in AvatarResult /\ 1 \in DOMAIN dn /\ c = dn[1]
  BY <1>2, Tailed
<1> HIDE DEF c
<1>4. CASE c.kind = "load"
  BY <1>3, <1>4, <1>1, LoadedHolds DEF AvatarResult, Completed, c
<1>5. CASE c.kind = "write"
  BY <1>2, <1>3, <1>5, <1>1, WrittenHolds DEF AvatarResult, Given, Syncs, HasEnded, Completed,
     c
<1>6. CASE c.kind = "verify"
  BY <1>2, <1>3, <1>6, <1>1, VerifiedHolds DEF AvatarResult, Given, Syncs, Completed, c
<1> QED BY <1>3, <1>4, <1>5, <1>6 DEF AvatarResult

-----------------------------------------------------------------------------
(* The wire                                                                *)

\* The server takes a command.
LEMMA ServedWorld ==
    ASSUME NEW s \in Syncs, NEW out, NEW back, NEW live, NEW rdy, NEW dn,
           World(s, out, back, live, rdy, dn), out # << >>
    PROVE  /\ World(s, Tail(out), back, live, rdy, dn)
           /\ Head(out) \in AvatarCommand
           /\ Head(out).op \in Mutators =>
                At(Tail(out), Mutators) = {} /\ live = {} /\ Replies(back, Exclusive) = {}
           /\ Head(out).op \in Exclusive =>
                /\ At(Tail(out), Exclusive) = {} /\ Replies(back, Exclusive) = {}
                /\ At(Tail(out), Mutators) = {}
           /\ ~s.blocked => Agrees(s, Head(out))
           /\ IF Head(out).op \in {"upload", "download"}
              THEN Head(out).handle \in 1 .. s.handles ELSE Head(out).token > 0
           /\ Head(out).op = "upload" =>
                /\ \A i \in DOMAIN dn : dn[i].kind = "write" /\ dn[i].result =>
                        dn[i].handle # Head(out).handle
                /\ \A i \in DOMAIN back : back[i].kind = "refused" /\ back[i].why = "size" =>
                        back[i].handle # Head(out).handle
<1> DEFINE r == Tail(out)
           c == Head(out)
<1>1. /\ r \in Seq(AvatarCommand) /\ Len(r) = Len(out) - 1
      /\ \A i \in DOMAIN r : i \in Nat /\ i > 0 /\ i + 1 \in DOMAIN out /\ r[i] = out[i + 1]
      /\ \A i \in DOMAIN out : i # 1 => i - 1 \in DOMAIN r
      /\ 1 \in DOMAIN out /\ c = out[1] /\ out \in Seq(AvatarCommand) /\ c \in AvatarCommand
  BY Tailed DEF World
<1> HIDE DEF r, c
<1>2. Wire(out, back, live) /\ Fit(s, out, back, live)
      /\ Given(s, out, back, live, rdy, dn) /\ HasEnded(out, back, live, rdy, dn)
  BY DEF World
<1>3. \A ops, i : i \in At(r, ops) => i + 1 \in At(out, ops) /\ i \in Nat /\ i > 0
  BY <1>1 DEF At
<1>4. \A ops : c.op \in ops => 1 \in At(out, ops)
  BY <1>1 DEF At
<1>5. Wire(r, back, live)
  BY <1>3, <1>2, <1>1 DEF Wire
<1>6. Fit(s, r, back, live)
  BY <1>1, <1>2 DEF Fit
<1>7. Given(s, r, back, live, rdy, dn)
  BY <1>1, <1>2 DEF Given
<1>8. HasEnded(r, back, live, rdy, dn)
  BY <1>1, <1>2 DEF Gone, HasEnded
<1>9. World(s, r, back, live, rdy, dn)
  BY <1>1, <1>5, <1>6, <1>7, <1>8 DEF World
<1>10. \A ops : c.op \in ops /\ (\A i, j \in At(out, ops) : i = j) => At(r, ops) = {}
  BY <1>3, <1>4
<1>11. c.op \in Mutators =>
          At(r, Mutators) = {} /\ live = {} /\ Replies(back, Exclusive) = {}
  BY <1>2, <1>4, <1>10 DEF Wire
<1>12. c.op \in Exclusive => At(r, Exclusive) = {} /\ Replies(back, Exclusive) = {}
  BY <1>2, <1>4, <1>10 DEF Wire
<1>13. c.op \in Exclusive => At(r, Mutators) = {}
  BY <1>11, <1>4, <1>2, <1>1, <1>3 DEF Mutators, Wire, At, Exclusive
<1>14. ~s.blocked => Agrees(s, c)
  BY <1>1, <1>2 DEF Fit
<1>15. IF c.op \in {"upload", "download"} THEN c.handle \in 1 .. s.handles ELSE c.token > 0
  BY <1>1, <1>2 DEF Given
<1>16. c.op = "upload" =>
          /\ \A i \in DOMAIN dn : dn[i].kind = "write" /\ dn[i].result => dn[i].handle # c.handle
          /\ \A i \in DOMAIN back : back[i].kind = "refused" /\ back[i].why = "size" =>
                back[i].handle # c.handle
  BY <1>1, <1>2 DEF HasEnded, Gone
<1> QED BY <1>1, <1>9, <1>11, <1>12, <1>13, <1>14, <1>15, <1>16 DEF r, c

LEMMA AppendedBack ==
    ASSUME NEW back \in Seq(AvatarMessage), NEW m \in AvatarMessage
    PROVE  /\ Append(back, m) \in Seq(AvatarMessage)
           /\ DOMAIN Append(back, m) = DOMAIN back \cup {Len(back) + 1}
           /\ Len(back) + 1 \notin DOMAIN back /\ Len(back) \in Nat
           /\ \A i \in DOMAIN back : i \in 1 .. Len(back) /\ Append(back, m)[i] = back[i]
           /\ Append(back, m)[Len(back) + 1] = m
  OBVIOUS

\* The server says something.
LEMMA ToldWorld ==
    ASSUME NEW s \in Syncs, NEW out, NEW back, NEW live, NEW rdy, NEW dn,
           World(s, out, back, live, rdy, dn), NEW m \in AvatarMessage, m.kind # "transfers",
           m.kind = "refused" => /\ m.handle \in 1 .. s.handles
                                 /\ m.why = "size" => Gone(m.handle, out, live),
           m.kind = "reply" => m.token > 0,
           m.kind = "reply" /\ m.op \in Exclusive =>
                /\ Replies(back, Exclusive) = {} /\ At(out, Exclusive) = {}
                /\ At(out, Mutators) = {} /\ m.op # "list"
                /\ m.op \in {"sethash", "delete"} => live = {}
                /\ ~s.blocked => Suits(s, m, live),
           m.kind = "reply" /\ m.op \notin Exclusive => m.op = "info"
    PROVE  World(s, out, Append(back, m), live, rdy, dn)
<1> DEFINE q == Append(back, m)
           n == Len(back) + 1
<1>1. /\ q \in Seq(AvatarMessage) /\ DOMAIN q = DOMAIN back \cup {n} /\ n \notin DOMAIN back
      /\ \A i \in DOMAIN back : i \in 1 .. Len(back) /\ q[i] = back[i]
      /\ q[n] = m /\ Len(back) \in Nat
  BY AppendedBack DEF World
<1>2. \A i \in DOMAIN back : \A j \in 1 .. i : j \in DOMAIN back /\ j # n
  BY DEF World
<1> HIDE DEF q, n
<1>3. Wire(out, back, live) /\ Fit(s, out, back, live)
      /\ Given(s, out, back, live, rdy, dn) /\ HasEnded(out, back, live, rdy, dn)
  BY DEF World
<1>4. \A ops : Replies(q, ops) = Replies(back, ops)
                  \cup (IF m.kind = "reply" /\ m.op \in ops THEN {n} ELSE {})
  BY <1>1 DEF Replies
<1>5. Wire(out, q, live)
  BY <1>4, <1>3, <1>1 DEF Wire, Exclusive
<1>6. Fit(s, out, q, live)
  BY <1>3, <1>1, <1>2 DEF Fit, Suits, Replies, Exclusive
<1>7. Given(s, out, q, live, rdy, dn)
  BY <1>1, <1>3 DEF Given
<1>8. HasEnded(out, q, live, rdy, dn)
  BY <1>1, <1>3 DEF HasEnded
<1> QED BY <1>1, <1>5, <1>6, <1>7, <1>8 DEF World, q

LEMMA AppendedTwo ==
    ASSUME NEW back \in Seq(AvatarMessage), NEW a \in AvatarMessage, NEW b \in AvatarMessage
    PROVE  back \o <<a, b>> = Append(Append(back, a), b)
  OBVIOUS

\* The list of transfers, and the answer that ends it.
LEMMA ListToldWorld ==
    ASSUME NEW s \in Syncs, NEW out, NEW back, NEW live, NEW rdy, NEW dn,
           World(s, out, back, live, rdy, dn), NEW a \in AvatarMessage, NEW b \in AvatarMessage,
           a.kind = "transfers", \A x \in live : x.handle \in a.ids,
           b.kind = "reply", b.op = "list", b.token > 0, ~s.blocked => Suits(s, b, live),
           Replies(back, Exclusive) = {}, At(out, Exclusive) = {}, At(out, Mutators) = {}
    PROVE  World(s, out, back \o <<a, b>>, live, rdy, dn)
<1> DEFINE r == Append(back, a)
           q == Append(r, b)
           k == Len(back) + 1
           n == Len(r) + 1
<1>1. /\ r \in Seq(AvatarMessage) /\ DOMAIN r = DOMAIN back \cup {k} /\ k \notin DOMAIN back
      /\ \A i \in DOMAIN back : i \in 1 .. Len(back) /\ r[i] = back[i]
      /\ r[k] = a /\ Len(back) \in Nat /\ Len(r) = k
  BY AppendedBack DEF World
<1>2. /\ q \in Seq(AvatarMessage) /\ DOMAIN q = DOMAIN r \cup {n} /\ n \notin DOMAIN r
      /\ \A i \in DOMAIN r : i \in 1 .. Len(r) /\ q[i] = r[i]
      /\ q[n] = b /\ n = k + 1
  BY <1>1, AppendedBack
<1>3. back \o <<a, b>> = q
  BY AppendedTwo DEF World
<1>4. \A i \in DOMAIN back : \A j \in 1 .. i : j \in DOMAIN back /\ j \in DOMAIN q
  BY <1>1, <1>2 DEF World
<1>5. k \in 1 .. n
  BY <1>1, <1>2
<1> HIDE DEF r, q, k, n
<1>6. /\ DOMAIN q = DOMAIN back \cup {k, n}
      /\ \A i \in DOMAIN back : q[i] = back[i]
      /\ q[k] = a /\ q[n] = b
  BY <1>1, <1>2
<1>7. Wire(out, back, live) /\ Fit(s, out, back, live)
      /\ Given(s, out, back, live, rdy, dn) /\ HasEnded(out, back, live, rdy, dn)
  BY DEF World
<1>8. \A ops : Replies(q, ops) = Replies(back, ops) \cup (IF "list" \in ops THEN {n} ELSE {})
  BY <1>6 DEF Replies
<1>9. Replies(q, Exclusive) = {n} /\ Replies(q, {"list"}) = {n}
      /\ Replies(q, {"sethash", "delete"}) = {}
  <2>1. \A ops : ops \subseteq Exclusive => Replies(back, ops) = {}
    BY DEF Replies
  <2>2. {"list"} \subseteq Exclusive /\ {"sethash", "delete"} \subseteq Exclusive
        /\ "list" \in Exclusive
    BY DEF Exclusive
  <2> QED BY <1>8, <2>1, <2>2
<1>10. Wire(out, q, live)
  BY <1>7, <1>2, <1>6, <1>9 DEF Replies, Exclusive, Wire
<1>11. Fit(s, out, q, live)
  BY <1>6, <1>7, <1>5, <1>9 DEF Fit
<1>12. Given(s, out, q, live, rdy, dn)
  BY <1>6, <1>7 DEF Given
<1>13. HasEnded(out, q, live, rdy, dn)
  BY <1>6, <1>7 DEF HasEnded
<1> QED BY <1>2, <1>3, <1>10, <1>11, <1>12, <1>13 DEF World

\* Transfers end, and connections are taken.
LEMMA LessWorld ==
    ASSUME NEW s \in Syncs, NEW out, NEW back, NEW live, NEW rdy, NEW dn,
           World(s, out, back, live, rdy, dn),
           NEW less \in SUBSET live, NEW fewer \in SUBSET rdy
    PROVE  World(s, out, back, less, fewer, dn)
  BY DEF World, Wire, Suits, Fit, Given, Gone, HasEnded

\* Whether a transfer has been written to makes no difference here.
LEMMA FedWorld ==
    ASSUME NEW s \in Syncs, NEW out, NEW back, NEW live, NEW rdy, NEW dn,
           World(s, out, back, live, rdy, dn),
           NEW fed, fed \subseteq [handle : Nat, content : File, fed : BOOLEAN],
           \A x \in fed : \E y \in live : y.handle = x.handle,
           \A y \in live : \E x \in fed : y.handle = x.handle,
           \A x, y \in fed : x = y
    PROVE  World(s, out, back, fed, rdy, dn)
<1>1. Wire(out, back, live) /\ Fit(s, out, back, live)
      /\ Given(s, out, back, live, rdy, dn) /\ HasEnded(out, back, live, rdy, dn)
  BY DEF World
<1>2. live = {} <=> fed = {}
  OBVIOUS
<1>3. Wire(out, back, fed)
  BY <1>1, <1>2 DEF Wire
<1>4. Fit(s, out, back, fed)
  BY <1>2, <1>1 DEF Suits, Fit
<1>5. Given(s, out, back, fed, rdy, dn)
  BY <1>1 DEF Given
<1>6. HasEnded(out, back, fed, rdy, dn)
  BY <1>1 DEF Gone, HasEnded
<1> QED BY <1>3, <1>4, <1>5, <1>6 DEF World

\* The server accepts an upload: its connection is to come.
LEMMA BegunWorld ==
    ASSUME NEW s \in Syncs, NEW out, NEW back, NEW rdy, NEW dn,
           World(s, out, back, {}, rdy, dn),
           NEW x \in [handle : Nat, content : File, fed : BOOLEAN],
           x.handle \in 1 .. s.handles,
           ~s.blocked => x.handle = Own(s) /\ (s.upload # NoUpload => s.stage \notin Uploaded),
           At(out, Mutators) = {}, Replies(back, Exclusive) = {},
           \A i \in DOMAIN dn : dn[i].kind = "write" /\ dn[i].result => dn[i].handle # x.handle,
           \A i \in DOMAIN back : back[i].kind = "refused" /\ back[i].why = "size" =>
                back[i].handle # x.handle
    PROVE  World(s, out, back, {x}, rdy \cup {[way |-> "up", handle |-> x.handle]}, dn)
<1> DEFINE more == rdy \cup {[way |-> "up", handle |-> x.handle]}
<1>1. Wire(out, back, {}) /\ Fit(s, out, back, {})
      /\ Given(s, out, back, {}, rdy, dn) /\ HasEnded(out, back, {}, rdy, dn)
  BY DEF World
<1>2. \A ops : ops \subseteq Exclusive => Replies(back, ops) = {}
  BY DEF Replies
<1>3. Replies(back, {"list"}) = {} /\ Replies(back, {"sethash", "delete"}) = {}
      /\ Replies(back, {"stop"}) = {}
  BY <1>2 DEF Exclusive
<1>4. Wire(out, back, {x})
  BY <1>1, <1>3 DEF Wire
<1>5. Fit(s, out, back, {x})
  BY <1>3, <1>1 DEF Replies, Suits, Fit
<1>6. Given(s, out, back, {x}, more, dn)
  BY <1>1 DEF Given
<1>7. HasEnded(out, back, {x}, more, dn)
  BY <1>1 DEF Gone, At, Mutators, HasEnded
<1> QED BY <1>4, <1>5, <1>6, <1>7 DEF World

LEMMA AwaitedWorld ==
    ASSUME NEW s \in Syncs, NEW out, NEW back, NEW live, NEW rdy, NEW dn,
           World(s, out, back, live, rdy, dn), NEW h \in Nat, h \in 1 .. s.handles
    PROVE  World(s, out, back, live, rdy \cup {[way |-> "down", handle |-> h]}, dn)
  BY DEF World, Given, HasEnded

\* A task ends.
LEMMA CompletionsMade ==
    ASSUME NEW dn \in Seq(AvatarResult), NEW c \in AvatarResult
    PROVE  /\ Append(dn, c) \in Seq(AvatarResult)
           /\ DOMAIN Append(dn, c) = DOMAIN dn \cup {Len(dn) + 1}
           /\ \A i \in DOMAIN dn : i # Len(dn) + 1 /\ Append(dn, c)[i] = dn[i]
           /\ Append(dn, c)[Len(dn) + 1] = c
  OBVIOUS

LEMMA CompletedWorld ==
    ASSUME NEW s \in Syncs, NEW out, NEW back, NEW live, NEW rdy, NEW dn,
           World(s, out, back, live, rdy, dn), NEW c \in AvatarResult,
           c.token <= s.token, c.kind # "load" => c.handle \in 1 .. s.handles,
           c.kind = "write" /\ c.result => Gone(c.handle, out, live)
    PROVE  World(s, out, back, live, rdy, Append(dn, c))
  BY CompletionsMade DEF World, Given, HasEnded

\* The task of s has ended; its result is on its way.
LEMMA WorkerEnds ==
    ASSUME NEW s \in Syncs, NEW out, NEW back, NEW live, NEW rdy, NEW dn,
           World(s, out, back, live, rdy, dn), s.worker # "none"
    PROVE  LET t == [s EXCEPT !.worker = "ended"] IN
           /\ t \in Syncs /\ t.sent = s.sent /\ t.token = s.token /\ t.handles = s.handles
           /\ World(t, out, back, live, rdy, dn)
<1> DEFINE t == [s EXCEPT !.worker = "ended"]
<1>1. t \in Syncs /\ t.worker = "ended" /\ Else(t, s, {"worker"})
  BY IdleMoves DEF Workers
<1> HIDE DEF t
<1>2. /\ t.token = s.token /\ t.query = s.query /\ t.pending = s.pending /\ t.retry = s.retry
      /\ t.next = s.next
      /\ t.deleting = s.deleting /\ t.draining = s.draining /\ t.blocked = s.blocked
      /\ t.drainQuery = s.drainQuery /\ t.drainId = s.drainId /\ t.previous = s.previous
      /\ t.upload = s.upload /\ t.stage = s.stage
      /\ t.deadline = s.deadline /\ t.handles = s.handles /\ t.sent = s.sent
  BY <1>1 DEF Else, Fields
<1>3. Own(t) = Own(s)
  BY <1>2 DEF Own
<1>4. Local(s) /\ Fit(s, out, back, live)
  BY DEF World
<1>5. Local(t)
  BY <1>1, <1>2, <1>3, <1>4 DEF Local, Underway, Waiting, Working, Timed, Known
<1>6. Fit(t, out, back, live)
  BY <1>1, <1>2, <1>3, <1>4, FitStays
<1>7. t.handles >= s.handles /\ t.token >= s.token
  BY <1>2 DEF Syncs
<1> QED BY <1>1, <1>2, <1>5, <1>6, <1>7, WorldStays DEF t

-----------------------------------------------------------------------------
(* The store                                                               *)

LEMMA MovesTypes ==
    ASSUME StoreTypeOK, NEW s \in Selections, NEW from \in Steps, NEW to \in Steps,
           Moves(s, from, to)
    PROVE  wishes' \in [Selections -> Wish]
  BY DEF StoreTypeOK, Moves, Wish

LEMMA StoreTypes ==
    ASSUME StoreTypeOK, StoreNext
    PROVE  StoreTypeOK'
<1> USE AvatarStoreAssumption
<1>1. ASSUME NEW kind \in Kinds, Choose(kind) PROVE StoreTypeOK'
  <2>1. store.selection \in 0 .. MaxSelection /\ store.selection < MaxSelection
    BY <1>1 DEF StoreTypeOK, Choose
  <2>2. store.selection + 1 \in 0 .. MaxSelection
    BY <2>1
  <2>3. [kind |-> kind, at |-> "preparing"] \in Wish
    BY DEF Wish, Steps
  <2>4. wishes' \in [Selections -> Wish]
    BY <1>1, <2>3 DEF StoreTypeOK, Choose
  <2> QED BY <1>1, <2>2, <2>4 DEF StoreTypeOK, Choose
<1>2. CASE Cancel
  BY <1>2 DEF StoreTypeOK, Cancel
<1>3. ASSUME NEW s \in Selections, GiveUp(s) \/ Write(s) \/ Test(s) \/ Finish(s)
      PROVE  StoreTypeOK'
  BY <1>3, MovesTypes DEF GiveUp, Write, Test, Finish, Steps, Saving, StoreTypeOK
<1>4. ASSUME NEW s \in Selections, Commit(s) PROVE StoreTypeOK'
  BY <1>4, MovesTypes DEF Commit, Steps, Saving, StoreTypeOK, Reference, References, Wish
<1>5. ASSUME NEW s \in Selections, Announce(s) PROVE StoreTypeOK'
  <2>1. wishes' \in [Selections -> Wish]
    BY <1>5, MovesTypes DEF Announce, Steps, Saving
  <2>2. store' \in [selection : 0 .. MaxSelection, saved : 0 .. MaxSelection,
                    revision : Nat, file : References]
    <3>1. s \in 0 .. MaxSelection
      BY DEF Selections
    <3>2. (IF wishes[s].kind = "image" THEN s ELSE store.saved) \in 0 .. MaxSelection
      BY <3>1 DEF StoreTypeOK
    <3>3. store.revision + 1 \in Nat
      BY DEF StoreTypeOK
    <3> QED BY <1>5, <3>2, <3>3 DEF StoreTypeOK, Announce
  <2> QED BY <1>5, <2>1, <2>2 DEF StoreTypeOK, Announce
<1> QED BY <1>1, <1>2, <1>3, <1>4, <1>5 DEF StoreNext

-----------------------------------------------------------------------------
(* The invariant of the specification                                      *)

Transfer == [handle : Nat, content : File, fed : BOOLEAN]

AvatarTypes ==
    /\ StoreTypeOK
    /\ sync \in Syncs /\ sync.sent = << >>
    /\ link \in [subscribed : BOOLEAN, hash : Contents]
    /\ server \in [avatar : Contents, file : Contents, live : SUBSET Transfer]

AvatarInv ==
    /\ AvatarTypes
    /\ World(sync, toServer, toClient, server.live, ready, done)

LEMMA Began ==
    ASSUME AvatarInv
    PROVE  /\ Holding(sync, toServer, toClient, server.live, ready, done)
           /\ store.revision \in Nat
  BY DEF AvatarInv, World, AvatarTypes, Holding, StoreTypeOK

\* The end of a step.
Settles(back, live, rdy, dn) ==
    /\ sync' \in Syncs /\ sync'.sent = << >>
    /\ World(sync', toServer', back, live, rdy, dn)

LEMMA CommandedSettles ==
    ASSUME NEW s, NEW back, NEW live, NEW rdy, NEW dn,
           Holding(s, toServer, back, live, rdy, dn), Commanded(s)
    PROVE  Settles(back, live, rdy, dn)
<1> DEFINE t == [s EXCEPT !.sent = << >>]
<1>1. s \in Syncs /\ World(s, toServer \o s.sent, back, live, rdy, dn)
  BY DEF Holding
<1>2. << >> \in Seq(AvatarCommand)
  OBVIOUS
<1>3. t \in Syncs /\ t.sent = << >> /\ Else(t, s, {"sent"})
  BY <1>1, <1>2, HandedMoves
<1>4. sync' = t /\ toServer' = toServer \o s.sent
  BY DEF Commanded
<1> HIDE DEF t
<1>5. /\ t.query = s.query
      /\ Else(t, s, {"revision", "clear", "missing", "choices", "query",
                     "queryTimedOut", "sent"})
  BY <1>3 DEF Else, Fields
<1>6. World(t, toServer \o s.sent, back, live, rdy, dn)
  BY <1>1, <1>3, <1>5, PlainWorld
<1> QED BY <1>3, <1>4, <1>6 DEF Settles

LEMMA EndsSettles ==
    ASSUME NEW s, NEW hash, NEW back, NEW live, NEW rdy, NEW dn,
           Holding(s, toServer, back, live, rdy, dn), Ends(s, hash)
    PROVE  Settles(back, live, rdy, dn)
  BY CheckHolds, CommandedSettles DEF Ends

LEMMA FailureSettles ==
    ASSUME NEW s, NEW h \in Nat, NEW why, NEW back, NEW live, NEW rdy, NEW dn,
           Holding(s, toServer, back, live, rdy, dn), FailureTaken(s, h, why),
           why = "size" => Gone(h, toServer \o s.sent, live)
    PROVE  Settles(back, live, rdy, dn)
  BY TransferFailedHolds, EndsSettles, CommandedSettles DEF Owns, FailureTaken

LEMMA TakeMessageKeeps ==
    ASSUME AvatarInv, TakeMessage
    PROVE  AvatarInv'
<1> DEFINE s == Observe(sync)
           m == Head(toClient)
           hash == IF m.kind = "book" THEN m.hash ELSE link.hash
<1>1. Holding(s, toServer, toClient, server.live, ready, done)
  BY Began, ObserveHolds
<1>2. m \in AvatarMessage /\ toClient # << >> /\ toClient \in Seq(AvatarMessage)
      /\ 1 \in DOMAIN toClient /\ m = toClient[1]
  BY Tailed DEF AvatarInv, World, TakeMessage
<1>3. hash \in Contents
  BY <1>2 DEF AvatarMessage, AvatarInv, AvatarTypes
<1>4. Settles(Tail(toClient), server.live, ready, done)
  <2>1. CASE m.kind = "refused"
    <3>1. Holding(s, toServer, Tail(toClient), server.live, ready, done)
      BY <1>1, <1>2, <2>1, TakenHolds
    <3>2. m.handle \in Nat
      BY <1>2, <2>1 DEF AvatarMessage
    <3>3. m.why = "size" => Gone(m.handle, toServer \o s.sent, server.live)
      BY <1>1, <1>2, <2>1 DEF Holding, World, HasEnded
    <3>4. FailureTaken(s, m.handle, m.why)
      BY <2>1 DEF TakeMessage
    <3> HIDE DEF s, m
    <3> QED BY <3>1, <3>2, <3>3, <3>4, FailureSettles
  <2>2. CASE m.kind # "refused"
    BY <1>1, <1>2, <2>2, TakeHolds, EndsSettles DEF TakeMessage
  <2> QED BY <2>1, <2>2
<1>5. /\ UNCHANGED <<wishes, store, notified, server, ready, done>>
      /\ toClient' = Tail(toClient) /\ link' = [link EXCEPT !.hash = hash]
  BY DEF TakeMessage, Rest
<1> HIDE DEF hash
<1>6. AvatarTypes'
  BY <1>3, <1>4, <1>5 DEF AvatarInv, AvatarTypes, Settles, StoreTypeOK
<1> QED BY <1>4, <1>5, <1>6 DEF AvatarInv, Settles

Fed(live, h, b) == {[x EXCEPT !.fed = @ \/ (x.handle = h /\ b)] : x \in live}

LEMMA Feeding ==
    ASSUME NEW live \in SUBSET Transfer, \A x, y \in live : x = y, NEW h, NEW b \in BOOLEAN
    PROVE  LET fed == Fed(live, h, b) IN
           /\ fed \subseteq Transfer
           /\ \A x \in fed : \E y \in live : y.handle = x.handle
           /\ \A y \in live : \E x \in fed : y.handle = x.handle
           /\ \A x, y \in fed : x = y
<1>1. \A x \in live : LET y == [x EXCEPT !.fed = @ \/ (x.handle = h /\ b)] IN
                      y \in Transfer /\ y.handle = x.handle
  BY DEF Transfer
<1> QED BY <1>1 DEF Fed

LEMMA TakeTransferKeeps ==
    ASSUME AvatarInv, NEW t \in ready, TakeTransfer(t)
    PROVE  AvatarInv'
<1> DEFINE s == Observe(sync)
           rdy == ready \ {t}
<1>1. Holding(s, toServer, toClient, server.live, ready, done) /\ s \in Syncs
  BY Began, ObserveHolds DEF Holding
<1>2. UNCHANGED <<wishes, store, notified, link, toClient, done>> /\ ready' = rdy
  BY DEF TakeTransfer
<1>3. t \in [way : {"up", "down"}, handle : Nat]
  BY DEF AvatarInv, World
<1>4. \A q : Holding(q, toServer, toClient, server.live, ready, done)
             => Holding(q, toServer, toClient, server.live, rdy, done)
  BY LessWorld DEF Holding
<1>5. CASE /\ t.way = "up"
           /\ LET r == UploadConnected(s, t.handle) IN
              /\ Ends(r, link.hash)
              /\ server' = [server EXCEPT !.live =
                    {[x EXCEPT !.fed = @ \/ (x.handle = t.handle /\ r.stage = "write"
                                             /\ s.stage = "connect")] : x \in @}]
  <2> DEFINE r == UploadConnected(s, t.handle)
             b == r.stage = "write" /\ s.stage = "connect"
             fed == Fed(server.live, t.handle, b)
  <2>1. Holding(r, toServer, toClient, server.live, ready, done)
    BY <1>1, <1>5, UploadConnectedHolds
  <2>2. Holding(r, toServer, toClient, server.live, rdy, done)
    BY <1>4, <2>1
  <2>3. Ends(r, link.hash)
    BY <1>5
  <2>4. server' = [server EXCEPT !.live = fed]
    BY <1>5 DEF Fed
  <2>5. b \in BOOLEAN
    OBVIOUS
  <2> HIDE DEF r, b, rdy
  <2>6. Settles(toClient, server.live, rdy, done)
    BY <2>2, <2>3, EndsSettles
  <2>7. server.live \in SUBSET Transfer /\ \A x, y \in server.live : x = y
    BY DEF AvatarInv, AvatarTypes, World, Wire
  <2>8. /\ fed \subseteq Transfer
        /\ \A x \in fed : \E y \in server.live : y.handle = x.handle
        /\ \A y \in server.live : \E x \in fed : y.handle = x.handle
        /\ \A x, y \in fed : x = y
    BY <2>5, <2>7, Feeding
  <2> HIDE DEF fed
  <2>9. World(sync', toServer', toClient, fed, rdy, done)
    BY <2>6, <2>8, FedWorld DEF Settles, Transfer
  <2>10. server'.live = fed /\ server' \in [avatar : Contents, file : Contents, live : SUBSET Transfer]
    BY <2>4, <2>8 DEF AvatarInv, AvatarTypes
  <2>11. AvatarTypes'
    BY <1>2, <2>6, <2>10 DEF AvatarInv, AvatarTypes, Settles, StoreTypeOK
  <2> QED BY <1>2, <2>9, <2>10, <2>11 DEF AvatarInv
<1>6. CASE /\ t.way = "down"
           /\ \E fits \in {server.file = s.upload.content, TRUE} :
                IF s.upload.download = t.handle /\ s.stage = "download"
                THEN Ends(DownloadConnected(s, fits), link.hash) ELSE Commanded(s)
           /\ UNCHANGED <<server, troubles>>
  <2>1. Settles(toClient, server.live, rdy, done)
    <3>1. CASE s.upload.download = t.handle /\ s.stage = "download"
      <4>1. PICK fits : Ends(DownloadConnected(s, fits), link.hash)
        BY <1>6, <3>1
      <4>2. s.upload # NoUpload
        BY <1>1, <3>1, Nothings DEF Holding, World, Given, Syncs
      <4>3. Holding(DownloadConnected(s, fits), toServer, toClient, server.live, ready, done)
        BY <1>1, <3>1, <4>2, DownloadConnectedHolds
      <4>4. Holding(DownloadConnected(s, fits), toServer, toClient, server.live, rdy, done)
        BY <1>4, <4>3
      <4> HIDE DEF s, rdy
      <4> QED BY <4>1, <4>4, EndsSettles
    <3>2. CASE ~(s.upload.download = t.handle /\ s.stage = "download")
      BY <1>6, <3>2, <1>1, <1>4, CommandedSettles
    <3> QED BY <3>1, <3>2
  <2>2. AvatarTypes'
    BY <1>2, <1>6, <2>1 DEF AvatarInv, AvatarTypes, Settles, StoreTypeOK
  <2> QED BY <1>2, <1>6, <2>1, <2>2 DEF AvatarInv, Settles
<1>7. CASE FailureTaken(s, t.handle, "other") /\ UNCHANGED server
  BY <1>1, <1>4, <1>3, <1>7, FailureSettles, <1>2 DEF AvatarInv, AvatarTypes, Settles,
     StoreTypeOK
<1> QED BY <1>5, <1>6, <1>7 DEF TakeTransfer

\* What is left of a step once the session is seen to be in order.
LEMMA Concludes ==
    ASSUME AvatarInv, Settles(toClient', server'.live, ready', done'),
           UNCHANGED <<wishes, store>>, notified' \in BOOLEAN,
           link' \in [subscribed : BOOLEAN, hash : Contents],
           server' \in [avatar : Contents, file : Contents, live : SUBSET Transfer]
    PROVE  AvatarInv'
  BY DEF AvatarInv, AvatarTypes, StoreTypeOK, Settles

LEMMA TakeCompletionKeeps ==
    ASSUME AvatarInv, TakeCompletion
    PROVE  AvatarInv'
  BY Began, ObserveHolds, CompletedHolds, EndsSettles, Concludes DEF TakeCompletion, Rest,
     AvatarInv, AvatarTypes, StoreTypeOK

LEMMA TakeAvatarChangedKeeps ==
    ASSUME AvatarInv, TakeAvatarChanged
    PROVE  AvatarInv'
  BY Began, ObserveHolds, EndsSettles, Concludes DEF TakeAvatarChanged, Rest, AvatarInv,
     AvatarTypes

\* A timer that is due runs for what is under way.
LEMMA ExpireKeeps ==
    ASSUME AvatarInv, Expire
    PROVE  AvatarInv'
<1> DEFINE due == (IF sync.query # NoQuery THEN {"query"} ELSE {})
                  \cup (IF sync.deadline THEN {"stage"} ELSE {})
           s == Observe(sync)
           Asked(late) == IF "query" \in late
                          THEN [s EXCEPT !.query = NoQuery, !.queryTimedOut = TRUE] ELSE s
<1>1. Holding(s, toServer, toClient, server.live, ready, done) /\ s \in Syncs
  BY Began, ObserveHolds DEF Holding
<1>2. PICK late \in (SUBSET due) \ {{}} :
         Ends(IF "stage" \in late /\ s.deadline /\ s.stage = sync.stage
              THEN Failed(Asked(late), TRUE) ELSE Asked(late), link.hash)
  BY DEF Expire
<1> DEFINE t == Asked(late)
<1>3. Holding(t, toServer, toClient, server.live, ready, done) /\ t.deadline = s.deadline
  <2>1. CASE "query" \in late
    <3> DEFINE q == [s EXCEPT !.query = NoQuery, !.queryTimedOut = TRUE]
    <3>1. q \in Syncs /\ q.query = NoQuery /\ Else(q, s, {"query", "queryTimedOut"})
      BY <1>1, Nothings, QueryMoves
    <3>2. t = q
      BY <2>1
    <3> HIDE DEF q, t, s
    <3>3. Holding(q, toServer, toClient, server.live, ready, done)
      BY <1>1, <3>1, PlainHolds
    <3>4. q.deadline = s.deadline
      BY <3>1 DEF Else, Fields
    <3> QED BY <3>2, <3>3, <3>4
  <2>2. CASE "query" \notin late
    BY <1>1, <2>2
  <2> QED BY <2>1, <2>2
<1>4. Ends(IF "stage" \in late /\ s.deadline /\ s.stage = sync.stage
           THEN Failed(t, TRUE) ELSE t, link.hash)
  BY <1>2
<1> HIDE DEF s, t
<1>5. s.deadline => Holding(Failed(t, TRUE), toServer, toClient, server.live, ready, done)
  BY <1>3, FailedHolds DEF Holding, World, Local, Underway, Unconfirmed
<1>6. Settles(toClient, server.live, ready, done)
  BY <1>3, <1>4, <1>5, EndsSettles
<1>7. UNCHANGED <<wishes, store, notified, server, link, toClient, ready, done>>
  BY DEF Expire
<1>8. Settles(toClient', server'.live, ready', done')
  BY <1>6, <1>7
<1> QED BY <1>7, <1>8, Concludes DEF AvatarInv, AvatarTypes, StoreTypeOK

-----------------------------------------------------------------------------
(* A connection ends, a session begins                                     *)

LEMMA ObserveMoves ==
    ASSUME NEW s, NEW p, NEW back, NEW live, NEW rdy, NEW dn,
           Holding(s, p, back, live, rdy, dn), store.revision \in Nat
    PROVE  LET t == Observe(s) IN
           t \in Syncs /\ t.sent = s.sent /\ t.handles = s.handles /\ t.token >= s.token
<1>0. s \in Syncs /\ World(s, p \o s.sent, back, live, rdy, dn)
  BY DEF Holding
<1>1. CASE s.revision = store.revision
  BY <1>0, <1>1 DEF Observe, Syncs
<1>2. CASE s.revision # store.revision
  <2> DEFINE r == [s EXCEPT !.revision = store.revision]
  <2>1. r \in Syncs /\ Else(r, s, {"revision"})
    BY <1>0, RevisedMoves
  <2>2. Observe(s) = Changed(r)
    BY <1>2 DEF Observe
  <2> HIDE DEF r
  <2>3. Else(r, s, {"revision", "clear", "missing", "choices", "query", "queryTimedOut", "sent"})
        /\ r.query = s.query /\ r.sent = s.sent /\ r.handles = s.handles /\ r.token = s.token
    BY <2>1 DEF Else, Fields
  <2>4. Local(r)
    BY <1>0, <2>1, <2>3, PlainWorld DEF World
  <2> DEFINE t == Changed(r)
  <2>5. t \in Syncs /\ t.token = r.token + 1
        /\ Else(t, r, {"token", "pending", "retry", "choices", "clear", "next", "draining",
                       "upload", "previous", "deleting", "stage", "deadline", "worker"})
    BY <2>1, <2>4, ChangedMoves
  <2> HIDE DEF t
  <2>6. t.sent = r.sent /\ t.handles = r.handles
    BY <2>5 DEF Else, Fields
  <2> QED BY <1>0, <2>2, <2>3, <2>5, <2>6 DEF Syncs, t
<1> QED BY <1>1, <1>2

\* Nothing is on the way.
LEMMA CutWorld ==
    ASSUME NEW s \in Syncs, NEW t \in Syncs, NEW out, NEW back, NEW live, NEW rdy, NEW dn,
           World(s, out, back, live, rdy, dn), Local(t),
           t.token >= s.token, t.handles >= s.handles
    PROVE  World(t, << >>, << >>, {}, {}, dn)
<1>1. << >> \in Seq(AvatarCommand) /\ << >> \in Seq(AvatarMessage) /\ DOMAIN << >> = {}
  OBVIOUS
<1>2. /\ \A ops : At(<< >>, ops) = {} /\ Replies(<< >>, ops) = {}
      /\ \A h : Gone(h, << >>, {})
  BY <1>1 DEF At, Replies, Gone
<1>3. Wire(<< >>, << >>, {})
  BY <1>1, <1>2 DEF Wire
<1>4. Fit(t, << >>, << >>, {})
  BY <1>1, <1>2 DEF Fit
<1>5. dn \in Seq(AvatarResult) /\ Given(s, out, back, live, rdy, dn)
  BY DEF World
<1>6. Given(t, << >>, << >>, {}, {}, dn)
  <2>1. \A i \in DOMAIN dn : dn[i].token \in Nat
    BY <1>5 DEF AvatarResult
  <2>2. \A i \in DOMAIN dn : dn[i].token <= t.token
    BY <1>5, <2>1 DEF Given, Syncs
  <2>3. \A h \in 1 .. s.handles : h \in 1 .. t.handles
    BY DEF Syncs
  <2> QED BY <1>1, <1>5, <2>2, <2>3 DEF Given
<1>7. HasEnded(<< >>, << >>, {}, {}, dn)
  BY <1>1, <1>2 DEF HasEnded
<1> QED BY <1>1, <1>3, <1>4, <1>5, <1>6, <1>7 DEF World

LEMMA InterruptedKeeps ==
    ASSUME AvatarInv, Interrupted
    PROVE  AvatarInv'
<1> DEFINE s == Observe(sync)
           t == Disconnected(s)
<1>1. Holding(s, toServer, toClient, server.live, ready, done) /\ s \in Syncs
      /\ s.sent = << >>
  BY Began, ObserveHolds, ObserveMoves DEF Holding, AvatarInv, AvatarTypes
<1>2. sync' = t
  BY DEF Interrupted, Lose
<1>3. s.token + 1 \in Nat /\ s.retry \in BOOLEAN /\ s.handles \in Nat /\ s.token \in Nat
  BY <1>1 DEF Syncs
<1> HIDE DEF s
<1>4. /\ t \in Syncs /\ t.token = s.token + 1 /\ t.query = NoQuery /\ t.deleting = 0
      /\ t.drainQuery = 0 /\ t.drainId = 0 /\ t.previous = NoTransfer /\ ~t.draining
      /\ ~t.blocked /\ t.pending = s.retry /\ t.next = 1 /\ t.worker = "none"
      /\ t.upload = NoUpload
      /\ Else(t, s, {"worker", "upload", "deadline", "token", "query", "queryTimedOut",
                     "deleting", "drainQuery", "drainId", "previous", "draining", "blocked",
                     "clear", "choices", "pending", "next"})
  <2>1. Parting(s, s.token + 1, s.retry) = t
    <3> DEFINE u == Stop(s)
    <3>1. u \in Syncs /\ Else(u, s, {"worker", "upload", "deadline"})
      BY <1>1, StopMoves
    <3> HIDE DEF u
    <3>2. u.token = s.token
      BY <3>1 DEF Else, Fields
    <3> QED BY <3>1, <3>2 DEF u, Disconnected, Parting, Syncs
  <2> HIDE DEF t
  <2> QED BY <1>1, <1>3, <2>1, PartingMoves
<1> HIDE DEF t
<1>5. t.sent = << >> /\ t.retry = s.retry /\ t.handles = s.handles
  BY <1>1, <1>4 DEF Else, Fields
<1>6. Local(t)
  BY <1>4, <1>5, <1>3, Nothings DEF Underway, Waiting, Timed, Working, Known, Local
<1>7. World(t, << >>, << >>, {}, {}, done)
  BY <1>3, <1>4, <1>5, <1>1, <1>6, CutWorld DEF Holding
<1>8. /\ toServer' = << >> /\ toClient' = << >> /\ ready' = {} /\ done' = done
      /\ server' = [server EXCEPT !.live = {}]
      /\ link' = [link EXCEPT !.subscribed = FALSE]
      /\ UNCHANGED <<wishes, store, notified>>
  BY DEF Interrupted, Lose
<1>9. server' \in [avatar : Contents, file : Contents, live : SUBSET Transfer] /\ server'.live = {}
  BY <1>8 DEF AvatarInv, AvatarTypes
<1>10. Settles(toClient', server'.live, ready', done')
  BY <1>2, <1>4, <1>5, <1>7, <1>8, <1>9 DEF Settles
<1> QED BY <1>8, <1>9, <1>10, Concludes DEF AvatarInv, AvatarTypes, StoreTypeOK

LEMMA FreshWorld ==
    ASSUME NEW n \in Nat, n > 0, NEW h \in Nat
    PROVE  LET t == Fresh(n, h) IN
           t \in Syncs /\ t.sent = << >> /\ World(t, << >>, << >>, {}, {}, << >>)
<1> DEFINE t == Fresh(n, h)
<1>1. t \in Syncs
  BY Nothings, Firsts DEF Stages, Workers, Fresh, Syncs
<1>2. /\ t.token = n /\ t.query = NoQuery /\ t.deleting = 0
      /\ t.drainQuery = 0 /\ t.drainId = 0 /\ t.previous = NoTransfer /\ ~t.draining
      /\ ~t.blocked /\ t.pending /\ t.retry /\ t.worker = "none" /\ t.stage = "load"
      /\ t.upload = NoUpload /\ t.sent = << >> /\ t.handles = h
  BY DEF Fresh
<1> HIDE DEF t
<1>3. Local(t)
  BY <1>2, Nothings DEF Local, Underway, Waiting, Working, Timed, Known
<1>4. /\ << >> \in Seq(AvatarCommand) /\ << >> \in Seq(AvatarMessage) /\ << >> \in Seq(AvatarResult)
      /\ DOMAIN << >> = {}
  OBVIOUS
<1>5. \A ops : At(<< >>, ops) = {} /\ Replies(<< >>, ops) = {}
  BY <1>4 DEF At, Replies
<1>6. Wire(<< >>, << >>, {}) /\ Fit(t, << >>, << >>, {})
  BY <1>4, <1>5 DEF Wire, Fit
<1>7. Given(t, << >>, << >>, {}, {}, << >>) /\ HasEnded(<< >>, << >>, {}, {}, << >>)
  BY <1>4 DEF Given, HasEnded
<1> QED BY <1>1, <1>2, <1>3, <1>4, <1>6, <1>7 DEF World, t

LEMMA EndSessionKeeps ==
    ASSUME AvatarInv, EndSession
    PROVE  AvatarInv'
<1> DEFINE f == Fresh(sync.token + 1, sync.handles)
           s == Observe(f)
<1>1. sync.token + 1 \in Nat /\ sync.token + 1 > 0 /\ sync.handles \in Nat
  BY DEF AvatarInv, AvatarTypes, Syncs
<1>2. f \in Syncs /\ f.sent = << >> /\ World(f, << >>, << >>, {}, {}, << >>)
  BY <1>1, FreshWorld
<1> HIDE DEF f
<1>3. Holding(f, << >>, << >>, {}, {}, << >>)
  BY <1>2 DEF Holding
<1>4. Holding(s, << >>, << >>, {}, {}, << >>) /\ s.sent = << >>
  BY <1>2, <1>3, Began, ObserveHolds, ObserveMoves
<1>5. sync' = s
  BY DEF EndSession, Lose, f
<1> HIDE DEF s
<1>6. s \in Syncs /\ World(s, << >>, << >>, {}, {}, << >>)
  BY <1>4 DEF Holding
<1>8. /\ toServer' = << >> /\ toClient' = << >> /\ ready' = {} /\ done' = << >>
      /\ server' = [server EXCEPT !.live = {}]
      /\ link' = [link EXCEPT !.subscribed = FALSE]
      /\ UNCHANGED <<wishes, store, notified>>
  BY DEF EndSession, Lose
<1>9. server' \in [avatar : Contents, file : Contents, live : SUBSET Transfer] /\ server'.live = {}
  BY <1>8 DEF AvatarInv, AvatarTypes
<1>10. Settles(toClient', server'.live, ready', done')
  BY <1>4, <1>5, <1>6, <1>8, <1>9 DEF Settles
<1> QED BY <1>8, <1>9, <1>10, Concludes DEF AvatarInv, AvatarTypes, StoreTypeOK

LEMMA SubscribeKeeps ==
    ASSUME AvatarInv, Subscribe
    PROVE  AvatarInv'
  BY Began, ObserveHolds, CheckHolds, CommandedSettles, Concludes DEF Subscribe, Rest,
     AvatarInv, AvatarTypes, StoreTypeOK

-----------------------------------------------------------------------------
(* Tasks                                                                   *)

LEMMA Settled ==
    ASSUME NEW t, sync' = t, t \in Syncs, t.sent = << >>, toServer' = toServer,
           NEW back, NEW live, NEW rdy, NEW dn, World(t, toServer, back, live, rdy, dn)
    PROVE  Settles(back, live, rdy, dn)
  BY DEF Settles

LEMMA LoadKeeps ==
    ASSUME AvatarInv, Load
    PROVE  AvatarInv'
<1> DEFINE t == [sync EXCEPT !.worker = "ended"]
<1>1. PICK result \in {store.file, [kind |-> "error", of |-> 0]} :
         done' = Append(done, [kind |-> "load", token |-> sync.token, result |-> result])
  BY DEF Load
<1> DEFINE c == [kind |-> "load", token |-> sync.token, result |-> result]
<1>2. sync \in Syncs /\ sync.sent = << >> /\ sync.token \in Nat /\ store.file \in References
  BY DEF AvatarInv, AvatarTypes, StoreTypeOK, Syncs
<1>3. c \in AvatarResult /\ c.token = sync.token /\ c.kind = "load"
  BY <1>1, <1>2 DEF AvatarResult
<1>4. sync.worker # "none"
      /\ World(sync, toServer, toClient, server.live, ready, done)
  BY DEF Load, AvatarInv
<1>5. /\ t \in Syncs /\ t.sent = << >> /\ t.token = sync.token
      /\ World(t, toServer, toClient, server.live, ready, done)
  BY <1>2, <1>4, WorkerEnds
<1> HIDE DEF t, c
<1>6. World(t, toServer, toClient, server.live, ready, Append(done, c))
  BY <1>2, <1>3, <1>5, CompletedWorld
<1>7. UNCHANGED <<wishes, store, notified, link, toServer, toClient, ready, server>>
      /\ sync' = t
  BY DEF Load, storeVars, t
<1>8. Settles(toClient', server'.live, ready', done')
  BY <1>1, <1>5, <1>6, <1>7, Settled DEF c
<1> QED BY <1>7, <1>8, Concludes DEF AvatarInv, AvatarTypes, StoreTypeOK

LEMMA CompareKeeps ==
    ASSUME AvatarInv, Compare
    PROVE  AvatarInv'
<1> DEFINE t == [sync EXCEPT !.worker = "ended"]
           c == [kind |-> "verify", token |-> sync.upload.token,
                 handle |-> sync.upload.download,
                 result |-> server.file = sync.upload.content]
<1>1. done' = Append(done, c) /\ sync.worker = "verify"
  BY DEF Compare
<1>2. sync \in Syncs /\ sync.sent = << >> /\ sync.token \in Nat /\ sync.handles \in Nat
      /\ sync.upload.token \in Nat /\ sync.upload.download \in Nat
  BY DEF AvatarInv, AvatarTypes, Syncs, Uploads
<1>3. c \in AvatarResult
  BY <1>2 DEF AvatarResult
<1>4. World(sync, toServer, toClient, server.live, ready, done)
  BY DEF AvatarInv
<1>5. c.token <= sync.token /\ c.handle \in 1 .. sync.handles
  BY <1>1, <1>4, <1>2 DEF World, Local, Working, Underway, Known
<1>6. /\ t \in Syncs /\ t.sent = << >> /\ t.token = sync.token /\ t.handles = sync.handles
      /\ World(t, toServer, toClient, server.live, ready, done)
  BY <1>1, <1>2, <1>4, WorkerEnds
<1>7. UNCHANGED <<wishes, store, notified, link, toServer, toClient, ready, server>>
      /\ sync' = t
  BY DEF Compare, storeVars
<1>8. c.kind = "verify"
  OBVIOUS
<1> HIDE DEF t, c
<1>9. World(t, toServer, toClient, server.live, ready, Append(done, c))
  BY <1>3, <1>5, <1>6, <1>8, CompletedWorld
<1>10. Settles(toClient', server'.live, ready', done')
  BY <1>1, <1>6, <1>7, <1>9, Settled
<1> QED BY <1>7, <1>10, Concludes DEF AvatarInv, AvatarTypes, StoreTypeOK

-----------------------------------------------------------------------------
(* The server                                                              *)

LEMMA MessagesMade ==
    /\ \A x \in Contents : Book(x) \in AvatarMessage
    /\ \A x \in Contents : [kind |-> "info", hash |-> x] \in AvatarMessage
    /\ \A h \in Nat, why \in {"size", "other"} :
          [kind |-> "refused", handle |-> h, why |-> why] \in AvatarMessage
    /\ \A ids \in SUBSET Nat : [kind |-> "transfers", ids |-> ids] \in AvatarMessage
    /\ \A c \in AvatarCommand, result \in {"ok", "no"} :
          c.op \in {"sethash", "info", "list", "stop"} => Reply(c, result) \in AvatarMessage
    /\ \A c \in AvatarCommand, result \in {"ok", "no", "missing"} :
          c.op = "delete" => Reply(c, result) \in AvatarMessage
  BY DEF AvatarCommand, AvatarMessage, Book, Reply

\* Nothing else than an answer is counted as one.
LEMMA ToldReplies ==
    ASSUME NEW back \in Seq(AvatarMessage), NEW m \in AvatarMessage, m.kind # "reply", NEW ops
    PROVE  Append(back, m) \in Seq(AvatarMessage)
           /\ Replies(Append(back, m), ops) = Replies(back, ops)
  BY AppendedBack DEF Replies

\* A notice in front of an answer, or after it.
LEMMA AnsweredWorld ==
    ASSUME NEW s \in Syncs, NEW out, NEW back, NEW live, NEW rdy, NEW dn,
           World(s, out, back, live, rdy, dn), NEW a \in AvatarMessage, NEW m \in AvatarMessage,
           a.kind \in {"book", "info"}, m.kind = "reply", m.token > 0,
           IF m.op \in Exclusive
           THEN /\ Replies(back, Exclusive) = {} /\ At(out, Exclusive) = {}
                /\ At(out, Mutators) = {} /\ m.op # "list"
                /\ m.op \in {"sethash", "delete"} => live = {}
                /\ ~s.blocked => Suits(s, m, live)
           ELSE m.op = "info"
    PROVE  /\ World(s, out, Append(back, m), live, rdy, dn)
           /\ World(s, out, back \o <<a, m>>, live, rdy, dn)
           /\ World(s, out, back \o <<m, a>>, live, rdy, dn)
<1>1. back \in Seq(AvatarMessage)
  BY DEF World
<1>2. World(s, out, Append(back, m), live, rdy, dn)
  BY ToldWorld
<1>3. World(s, out, Append(Append(back, m), a), live, rdy, dn)
  BY <1>2, ToldWorld
<1>4. World(s, out, Append(back, a), live, rdy, dn)
      /\ Replies(Append(back, a), Exclusive) = Replies(back, Exclusive)
  BY <1>1, ToldWorld, ToldReplies
<1> DEFINE r == Append(back, a)
<1> HIDE DEF r
<1>5. World(s, out, Append(r, m), live, rdy, dn)
  BY <1>4, ToldWorld DEF r
<1> QED BY <1>1, <1>2, <1>3, <1>5, AppendedTwo DEF r

\* What Serve takes off the wire.
Requested(c, out) ==
    /\ World(sync, out, toClient, server.live, ready, done)
    /\ c \in AvatarCommand /\ out \in Seq(AvatarCommand)
    /\ c.op \in Mutators =>
        At(out, Mutators) = {} /\ server.live = {} /\ Replies(toClient, Exclusive) = {}
    /\ c.op \in Exclusive =>
        /\ At(out, Exclusive) = {} /\ Replies(toClient, Exclusive) = {}
        /\ At(out, Mutators) = {}
    /\ ~sync.blocked => Agrees(sync, c)
    /\ IF c.op \in {"upload", "download"} THEN c.handle \in 1 .. sync.handles ELSE c.token > 0

LEMMA ServeUploadKeeps ==
    ASSUME AvatarInv, NEW c, NEW out, Requested(c, out), c.op = "upload", ServeUpload(c),
           \A i \in DOMAIN done : done[i].kind = "write" /\ done[i].result =>
                done[i].handle # c.handle,
           \A i \in DOMAIN toClient :
                toClient[i].kind = "refused" /\ toClient[i].why = "size" =>
                toClient[i].handle # c.handle
    PROVE  /\ World(sync, out, toClient', server'.live, ready', done)
           /\ server' \in [avatar : Contents, file : Contents, live : SUBSET Transfer]
<1>1. sync \in Syncs /\ server \in [avatar : Contents, file : Contents, live : SUBSET Transfer]
  BY DEF AvatarInv, AvatarTypes
<1>2. c.handle \in Nat /\ c.content \in File /\ c.handle \in 1 .. sync.handles
  BY DEF Requested, AvatarCommand
<1>3. server.live = {} /\ At(out, Mutators) = {} /\ Replies(toClient, Exclusive) = {}
  BY DEF Requested, Mutators
<1>4. CASE /\ server' = [server EXCEPT !.live = @ \cup
                        {[handle |-> c.handle, content |-> c.content, fed |-> FALSE]}]
           /\ ready' = ready \cup {[way |-> "up", handle |-> c.handle]}
           /\ UNCHANGED toClient
  <2> DEFINE x == [handle |-> c.handle, content |-> c.content, fed |-> FALSE]
  <2>1. x \in [handle : Nat, content : File, fed : BOOLEAN] /\ x.handle = c.handle
    BY <1>2
  <2>2. server'.live = {x} /\ server' \in [avatar : Contents, file : Contents, live : SUBSET Transfer]
    BY <2>1, <1>4, <1>3, <1>1 DEF Transfer
  <2>3. ~sync.blocked => c.handle = Own(sync)
                         /\ (sync.upload # NoUpload => sync.stage \notin Uploaded)
    BY DEF Requested, Agrees
  <2>4. World(sync, out, toClient, {}, ready, done)
    BY <1>3 DEF Requested
  <2> HIDE DEF x
  <2>5. World(sync, out, toClient, {x}, ready \cup {[way |-> "up", handle |-> x.handle]}, done)
    BY <1>1, <1>2, <1>3, <2>1, <2>3, <2>4, BegunWorld
  <2> QED BY <1>4, <2>1, <2>2, <2>5
<1>5. CASE /\ \E why \in {"size", "other"} :
                toClient' = Append(toClient, [kind |-> "refused", handle |-> c.handle, why |-> why])
           /\ UNCHANGED <<server, ready>>
  <2>1. PICK why \in {"size", "other"} :
            toClient' = Append(toClient, [kind |-> "refused", handle |-> c.handle, why |-> why])
    BY <1>5
  <2> DEFINE m == [kind |-> "refused", handle |-> c.handle, why |-> why]
  <2>2. m \in AvatarMessage /\ m.kind = "refused" /\ m.handle = c.handle
    BY <1>2, <2>1, MessagesMade
  <2>3. Gone(c.handle, out, server.live)
    BY <1>3 DEF Gone, At, Mutators
  <2>4. toClient' = Append(toClient, m)
    BY <2>1
  <2> HIDE DEF m
  <2>5. World(sync, out, Append(toClient, m), server.live, ready, done)
    BY <1>1, <1>2, <2>2, <2>3, ToldWorld DEF Requested
  <2> QED BY <1>1, <1>5, <2>4, <2>5
<1> QED BY <1>4, <1>5 DEF ServeUpload

LEMMA ServeDownloadKeeps ==
    ASSUME AvatarInv, NEW c, NEW out, Requested(c, out), c.op = "download", ServeDownload(c)
    PROVE  /\ World(sync, out, toClient', server'.live, ready', done)
           /\ server' \in [avatar : Contents, file : Contents, live : SUBSET Transfer]
<1>1. sync \in Syncs /\ server \in [avatar : Contents, file : Contents, live : SUBSET Transfer]
  BY DEF AvatarInv, AvatarTypes
<1>2. c.handle \in Nat /\ c.handle \in 1 .. sync.handles /\ UNCHANGED server
  BY DEF Requested, AvatarCommand, ServeDownload
<1>3. CASE /\ ready' = ready \cup {[way |-> "down", handle |-> c.handle]}
           /\ UNCHANGED toClient
  BY <1>1, <1>2, <1>3, AwaitedWorld DEF Requested
<1>4. CASE /\ toClient' = Append(toClient,
                  [kind |-> "refused", handle |-> c.handle, why |-> "other"])
           /\ UNCHANGED ready
  BY <1>2, MessagesMade, <1>4, <1>1, ToldWorld DEF Requested
<1> QED BY <1>3, <1>4 DEF ServeDownload

LEMMA ServeHashKeeps ==
    ASSUME AvatarInv, NEW c, NEW out, Requested(c, out), c.op = "sethash", ServeHash(c)
    PROVE  /\ World(sync, out, toClient', server'.live, ready, done)
           /\ server' \in [avatar : Contents, file : Contents, live : SUBSET Transfer]
<1>1. sync \in Syncs /\ server \in [avatar : Contents, file : Contents, live : SUBSET Transfer]
  BY DEF AvatarInv, AvatarTypes
<1>2. c.hash \in Contents /\ c.token > 0
  BY DEF Requested, AvatarCommand
<1>3. /\ server.live = {} /\ At(out, Mutators) = {} /\ At(out, Exclusive) = {}
      /\ Replies(toClient, Exclusive) = {}
  BY DEF Requested, Mutators, Exclusive
<1>4. \A result \in {"ok", "no"} :
         /\ Reply(c, result) \in AvatarMessage
         /\ World(sync, out, Append(toClient, Reply(c, result)), server.live, ready, done)
         /\ World(sync, out, toClient \o <<Book(c.hash), Reply(c, result)>>, server.live, ready, done)
  BY <1>2, MessagesMade, <1>1, <1>3, AnsweredWorld DEF Book, Requested, Reply, Agrees, Suits,
     Exclusive
<1>5. CASE server' = [server EXCEPT !.avatar = c.hash]
           /\ toClient' = toClient \o <<Book(c.hash), Reply(c, "ok")>>
  BY <1>1, <1>2, <1>4, <1>5
<1>6. CASE toClient' = Append(toClient, Reply(c, "no")) /\ UNCHANGED server
  BY <1>1, <1>4, <1>6
<1> QED BY <1>5, <1>6 DEF ServeHash

LEMMA ServeDeleteKeeps ==
    ASSUME AvatarInv, NEW c, NEW out, Requested(c, out), c.op = "delete", ServeDelete(c)
    PROVE  /\ World(sync, out, toClient', server'.live, ready, done)
           /\ server' \in [avatar : Contents, file : Contents, live : SUBSET Transfer]
<1>1. sync \in Syncs /\ server \in [avatar : Contents, file : Contents, live : SUBSET Transfer]
  BY DEF AvatarInv, AvatarTypes
<1>2. c.token > 0 /\ NoContent \in Contents
  BY Nothings DEF Requested
<1>3. /\ server.live = {} /\ At(out, Mutators) = {} /\ At(out, Exclusive) = {}
      /\ Replies(toClient, Exclusive) = {}
  BY DEF Requested, Mutators, Exclusive
<1>4. \A result \in {"ok", "no", "missing"} :
         /\ Reply(c, result) \in AvatarMessage
         /\ World(sync, out, Append(toClient, Reply(c, result)), server.live, ready, done)
         /\ World(sync, out, toClient \o <<Book(NoContent), Reply(c, result)>>, server.live, ready, done)
         /\ World(sync, out, toClient \o <<Reply(c, result), Book(NoContent)>>, server.live, ready, done)
  <2> TAKE result \in {"ok", "no", "missing"}
  <2> DEFINE a == Book(NoContent)
             m == Reply(c, result)
  <2>1. a \in AvatarMessage /\ a.kind = "book"
    BY <1>2, MessagesMade DEF Book
  <2>2. m \in AvatarMessage /\ m.kind = "reply" /\ m.op = "delete" /\ m.token = c.token
    BY MessagesMade DEF Requested, Reply
  <2>3. ~sync.blocked => Suits(sync, m, server.live)
    BY <2>2 DEF Requested, Agrees, Suits
  <2> SUFFICES /\ m \in AvatarMessage
               /\ World(sync, out, Append(toClient, m), server.live, ready, done)
               /\ World(sync, out, toClient \o <<a, m>>, server.live, ready, done)
               /\ World(sync, out, toClient \o <<m, a>>, server.live, ready, done)
    OBVIOUS
  <2> HIDE DEF a, m
  <2> QED BY <1>1, <1>2, <1>3, <2>1, <2>2, <2>3, AnsweredWorld DEF Requested, Exclusive
<1>5. CASE /\ server' = [server EXCEPT !.file = NoContent, !.avatar = NoContent]
           /\ toClient' \in {toClient \o <<Book(NoContent), Reply(c, "ok")>>,
                             toClient \o <<Reply(c, "ok"), Book(NoContent)>>}
  BY <1>1, <1>2, <1>4, <1>5
<1>6. CASE /\ toClient' \in {Append(toClient, Reply(c, "missing")), Append(toClient, Reply(c, "no"))}
           /\ UNCHANGED server
  BY <1>1, <1>4, <1>6
<1> QED BY <1>5, <1>6 DEF ServeDelete

LEMMA ServeListKeeps ==
    ASSUME AvatarInv, NEW c, NEW out, Requested(c, out), c.op = "list", ServeList(c)
    PROVE  World(sync, out, toClient', server.live, ready, done)
<1> DEFINE ids == {x.handle : x \in server.live}
           a == [kind |-> "transfers", ids |-> ids]
           b == Reply(c, "ok")
<1>1. sync \in Syncs /\ c.token > 0
  BY DEF AvatarInv, AvatarTypes, Requested
<1>2. ids \in SUBSET Nat
  BY DEF AvatarInv, AvatarTypes, Transfer
<1>3. a \in AvatarMessage /\ a.kind = "transfers" /\ \A x \in server.live : x.handle \in a.ids
  BY <1>2, MessagesMade
<1>4. b \in AvatarMessage /\ b.kind = "reply" /\ b.op = "list" /\ b.token = c.token
  BY MessagesMade DEF Requested, Reply
<1>5. ~sync.blocked => Suits(sync, b, server.live)
  BY <1>4 DEF Requested, Agrees, Suits
<1>6. toClient' = toClient \o <<a, b>>
  BY DEF ServeList
<1> HIDE DEF a, b
<1> QED BY <1>1, <1>3, <1>4, <1>5, <1>6, ListToldWorld DEF Requested, Exclusive

\* The transfer a stop names is the one a barrier waits for.
LEMMA ServeStopKeeps ==
    ASSUME AvatarInv, NEW c, NEW out, Requested(c, out), c.op = "stop", ServeStop(c)
    PROVE  /\ World(sync, out, toClient', server'.live, ready, done)
           /\ server' \in [avatar : Contents, file : Contents, live : SUBSET Transfer]
<1> DEFINE less == {x \in server.live : x.handle # c.id}
           result == IF \E x \in server.live : x.handle = c.id THEN "ok" ELSE "no"
           m == Reply(c, result)
<1>1. sync \in Syncs /\ c.token > 0
      /\ server \in [avatar : Contents, file : Contents, live : SUBSET Transfer]
  BY DEF AvatarInv, AvatarTypes, Requested
<1>2. server' = [server EXCEPT !.live = less] /\ toClient' = Append(toClient, m)
  BY DEF ServeStop
<1>3. m \in AvatarMessage /\ m.kind = "reply" /\ m.op = "stop" /\ m.token = c.token
  BY MessagesMade DEF Requested, Reply
<1>4. less \in SUBSET server.live
  OBVIOUS
<1>5. ~sync.blocked => less = {}
  BY <1>1 DEF Requested, Agrees, World, Local, Waiting, Fit
<1>6. ~sync.blocked => Suits(sync, m, less)
  BY <1>3, <1>5 DEF Requested, Agrees, Suits
<1>7. Replies(toClient, Exclusive) = {} /\ At(out, Exclusive) = {} /\ At(out, Mutators) = {}
  BY DEF Requested, Exclusive
<1> HIDE DEF less, m
<1>8. World(sync, out, toClient, less, ready, done)
  BY <1>1, <1>4, LessWorld DEF Requested
<1>9. World(sync, out, Append(toClient, m), less, ready, done)
  BY <1>1, <1>3, <1>6, <1>7, <1>8, ToldWorld DEF Exclusive
<1> QED BY <1>1, <1>2, <1>4, <1>9

LEMMA ServeInfoKeeps ==
    ASSUME AvatarInv, NEW c, NEW out, Requested(c, out), c.op = "info", ServeInfo(c)
    PROVE  World(sync, out, toClient', server.live, ready, done)
  BY MessagesMade, AnsweredWorld DEF AvatarInv, AvatarTypes, Requested, Reply, ServeInfo,
     Exclusive

LEMMA ServeKeeps ==
    ASSUME AvatarInv, Serve
    PROVE  AvatarInv'
<1> DEFINE c == Head(toServer)
           out == Tail(toServer)
<1>1. sync \in Syncs /\ World(sync, toServer, toClient, server.live, ready, done)
      /\ toServer # << >> /\ toServer' = out
      /\ server \in [avatar : Contents, file : Contents, live : SUBSET Transfer]
      /\ link \in [subscribed : BOOLEAN, hash : Contents] /\ notified \in BOOLEAN
  BY DEF AvatarInv, AvatarTypes, Serve, StoreTypeOK
<1>2. Requested(c, out)
  BY <1>1, Tailed, ServedWorld DEF World, Requested
<1>3. c.op = "upload" =>
        /\ \A i \in DOMAIN done : done[i].kind = "write" /\ done[i].result =>
                done[i].handle # c.handle
        /\ \A i \in DOMAIN toClient :
                toClient[i].kind = "refused" /\ toClient[i].why = "size" =>
                toClient[i].handle # c.handle
  BY <1>1, Tailed DEF World, HasEnded, Gone
<1>4. UNCHANGED <<wishes, store, notified, sync, link, done>>
  BY DEF Serve, storeVars
<1>5. \/ c.op = "upload" /\ ServeUpload(c)
      \/ c.op = "download" /\ ServeDownload(c)
      \/ c.op = "sethash" /\ ServeHash(c) /\ UNCHANGED ready
      \/ c.op = "delete" /\ ServeDelete(c) /\ UNCHANGED ready
      \/ c.op = "list" /\ ServeList(c) /\ UNCHANGED ready
      \/ c.op = "stop" /\ ServeStop(c) /\ UNCHANGED ready
      \/ c.op = "info" /\ ServeInfo(c) /\ UNCHANGED ready
  BY DEF Serve
<1> HIDE DEF c, out
<1>6. /\ World(sync, out, toClient', server'.live, ready', done)
      /\ server' \in [avatar : Contents, file : Contents, live : SUBSET Transfer]
  <2>1. CASE c.op = "upload" /\ ServeUpload(c)
    BY <1>2, <1>3, <2>1, ServeUploadKeeps
  <2>2. CASE c.op = "download" /\ ServeDownload(c)
    BY <1>2, <2>2, ServeDownloadKeeps
  <2>3. CASE c.op = "sethash" /\ ServeHash(c) /\ UNCHANGED ready
    BY <1>2, <2>3, ServeHashKeeps
  <2>4. CASE c.op = "delete" /\ ServeDelete(c) /\ UNCHANGED ready
    BY <1>2, <2>4, ServeDeleteKeeps
  <2>5. CASE c.op = "list" /\ ServeList(c) /\ UNCHANGED ready
    BY <2>5, <1>1, <1>2, ServeListKeeps DEF ServeList
  <2>6. CASE c.op = "stop" /\ ServeStop(c) /\ UNCHANGED ready
    BY <1>2, <2>6, ServeStopKeeps
  <2>7. CASE c.op = "info" /\ ServeInfo(c) /\ UNCHANGED ready
    BY <2>7, <1>1, <1>2, ServeInfoKeeps DEF ServeInfo
  <2> QED BY <1>5, <2>1, <2>2, <2>3, <2>4, <2>5, <2>6, <2>7
<1>7. Settles(toClient', server'.live, ready', done')
  BY <1>1, <1>4, <1>6 DEF Settles, AvatarInv, AvatarTypes
<1> QED BY <1>1, <1>4, <1>6, <1>7, Concludes

LEMMA ChangeForeignKeeps ==
    ASSUME AvatarInv, ChangeForeign
    PROVE  AvatarInv'
<1>1. PICK content \in {NoContent, ForeignFile} \ {server.avatar} :
        /\ server' = [server EXCEPT !.avatar = content, !.file = content]
        /\ toClient' = IF link.subscribed THEN Append(toClient, Book(content)) ELSE toClient
  BY DEF ChangeForeign
<1>2. UNCHANGED <<wishes, store, notified, sync, link, toServer, ready, done>>
  BY DEF ChangeForeign, storeVars
<1>3. sync \in Syncs /\ World(sync, toServer, toClient, server.live, ready, done)
      /\ server \in [avatar : Contents, file : Contents, live : SUBSET Transfer]
  BY DEF AvatarInv, AvatarTypes
<1>4. content \in Contents
  BY <1>1, Nothings
<1>5. server'.live = server.live
      /\ server' \in [avatar : Contents, file : Contents, live : SUBSET Transfer]
  BY <1>1, <1>3, <1>4
<1>6. World(sync, toServer, Append(toClient, Book(content)), server.live, ready, done)
  BY <1>4, MessagesMade, <1>3, ToldWorld DEF Book
<1>7. World(sync, toServer, toClient', server.live, ready, done)
  BY <1>1, <1>3, <1>6
<1>8. Settles(toClient', server'.live, ready', done')
  BY <1>2, <1>5, <1>7 DEF Settles, AvatarInv, AvatarTypes
<1> QED BY <1>2, <1>5, <1>8, Concludes DEF AvatarInv, AvatarTypes, StoreTypeOK

\* The end of a transfer, and of the task that wrote it.
LEMMA ClosedKeeps ==
    ASSUME AvatarInv, NEW x \in server.live, NEW ok \in BOOLEAN, Closed(x.handle, ok),
           toServer' = toServer
    PROVE  /\ World(sync', toServer, toClient, {}, ready, done')
           /\ sync' \in Syncs /\ sync'.sent = << >> /\ sync'.handles = sync.handles
           /\ server.live \ {x} = {} /\ Gone(x.handle, toServer, {})
           /\ x.handle \in 1 .. sync.handles /\ x \in Transfer
<1>1. sync \in Syncs /\ sync.sent = << >>
      /\ World(sync, toServer, toClient, server.live, ready, done)
  BY DEF AvatarInv, AvatarTypes
<1>2. server.live \ {x} = {} /\ x \in Transfer /\ At(toServer, Mutators) = {}
  BY <1>1 DEF World, Wire, AvatarInv, AvatarTypes
<1>3. x.handle \in 1 .. sync.handles
  BY <1>1 DEF World, Given
<1>4. Gone(x.handle, toServer, {})
  BY <1>2 DEF Gone, At, Mutators
<1>5. World(sync, toServer, toClient, {}, ready, done)
  BY <1>1, LessWorld
<1>6. CASE sync.worker = "write" /\ sync.upload.handle = x.handle
  <2> DEFINE t == [sync EXCEPT !.worker = "ended"]
             c == [kind |-> "write", token |-> sync.upload.token, handle |-> x.handle,
                   result |-> ok]
  <2>1. done' = Append(done, c) /\ sync' = t
    BY <1>6 DEF Closed
  <2>2. /\ t \in Syncs /\ t.sent = << >> /\ t.token = sync.token /\ t.handles = sync.handles
        /\ World(t, toServer, toClient, {}, ready, done)
    BY <1>1, <1>5, <1>6, WorkerEnds
  <2>3. sync.upload.token \in Nat /\ x.handle \in Nat
    BY <1>1, <1>2 DEF Syncs, Uploads, Transfer
  <2>4. c \in AvatarResult /\ c.kind = "write" /\ c.handle = x.handle
        /\ c.token = sync.upload.token
    BY <2>3 DEF AvatarResult
  <2>5. sync.upload.token <= sync.token
    BY <1>1, <1>6 DEF World, Local, Working, Underway
  <2> HIDE DEF t, c
  <2>6. World(t, toServer, toClient, {}, ready, Append(done, c))
    BY <1>3, <1>4, <2>2, <2>4, <2>5, CompletedWorld
  <2> QED BY <1>2, <1>3, <1>4, <2>1, <2>2, <2>6
<1>7. CASE ~(sync.worker = "write" /\ sync.upload.handle = x.handle)
  BY <1>7, <1>1, <1>2, <1>3, <1>4, <1>5 DEF Closed
<1> QED BY <1>6, <1>7

LEMMA ReceiveFileKeeps ==
    ASSUME AvatarInv, NEW x \in server.live, ReceiveFile(x)
    PROVE  AvatarInv'
  BY ClosedKeeps, Concludes DEF ReceiveFile, storeVars, Transfer, Contents, AvatarInv,
     AvatarTypes, Settles, StoreTypeOK

LEMMA DropTransferKeeps ==
    ASSUME AvatarInv, NEW x \in server.live, DropTransfer(x)
    PROVE  AvatarInv'
<1> DEFINE m == [kind |-> "refused", handle |-> x.handle, why |-> "other"]
<1>1. PICK ok \in BOOLEAN : Closed(x.handle, ok)
  BY DEF DropTransfer
<1>2. /\ server' = [server EXCEPT !.live = @ \ {x}]
      /\ toClient' \in {toClient, Append(toClient, m)}
      /\ UNCHANGED <<wishes, store, notified, link, toServer, ready>>
  BY DEF DropTransfer, storeVars
<1>3. /\ World(sync', toServer, toClient, {}, ready, done')
      /\ sync' \in Syncs /\ sync'.sent = << >> /\ sync'.handles = sync.handles
      /\ server.live \ {x} = {} /\ x \in Transfer /\ x.handle \in 1 .. sync.handles
  BY <1>1, <1>2, ClosedKeeps
<1>4. server'.live = {}
      /\ server' \in [avatar : Contents, file : Contents, live : SUBSET Transfer]
  BY <1>2, <1>3 DEF AvatarInv, AvatarTypes
<1>5. m \in AvatarMessage /\ m.kind = "refused" /\ m.why = "other" /\ m.handle = x.handle
  BY <1>3, MessagesMade DEF Transfer
<1> HIDE DEF m
<1>6. World(sync', toServer, Append(toClient, m), {}, ready, done')
  BY <1>3, <1>5, ToldWorld
<1>7. Settles(toClient', server'.live, ready', done')
  BY <1>2, <1>3, <1>4, <1>6 DEF Settles
<1> QED BY <1>2, <1>4, <1>7, Concludes DEF AvatarInv, AvatarTypes, StoreTypeOK

LEMMA SaveStepKeeps ==
    ASSUME AvatarInv, SaveStep
    PROVE  AvatarInv'
  BY StoreTypes DEF SaveStep, AvatarInv, AvatarTypes

-----------------------------------------------------------------------------
LEMMA AvatarInit ==
    ASSUME Init
    PROVE  AvatarInv
<1>1. StoreTypeOK
  <2>1. 0 \in 0 .. MaxSelection /\ NoFile \in References
    BY AvatarStoreAssumption DEF References
  <2>2. [kind |-> "image", at |-> "none"] \in Wish
    BY DEF Wish, Kinds, Steps
  <2>3. wishes \in [Selections -> Wish] /\ notified \in BOOLEAN
    BY <2>2 DEF Init, StoreInit
  <2> QED BY <2>1, <2>3 DEF Init, StoreInit, StoreTypeOK
<1>2. sync \in Syncs /\ sync.sent = << >> /\ World(sync, << >>, << >>, {}, {}, << >>)
  BY FreshWorld DEF Init
<1>3. link \in [subscribed : BOOLEAN, hash : Contents]
  BY Nothings DEF Init
<1>4. server.live = {}
      /\ server \in [avatar : Contents, file : Contents, live : SUBSET Transfer]
  BY Nothings DEF Init
<1>5. toServer = << >> /\ toClient = << >> /\ ready = {} /\ done = << >>
  BY DEF Init
<1> QED BY <1>1, <1>2, <1>3, <1>4, <1>5 DEF AvatarInv, AvatarTypes

LEMMA AvatarStep ==
    ASSUME AvatarInv, [Next]_vars
    PROVE  AvatarInv'
<1>1. CASE SaveStep
  BY <1>1, SaveStepKeeps
<1>2. CASE TakeMessage
  BY <1>2, TakeMessageKeeps
<1>3. ASSUME NEW t \in ready, TakeTransfer(t) PROVE AvatarInv'
  BY <1>3, TakeTransferKeeps
<1>4. CASE TakeCompletion
  BY <1>4, TakeCompletionKeeps
<1>5. CASE TakeAvatarChanged
  BY <1>5, TakeAvatarChangedKeeps
<1>6. CASE Expire
  BY <1>6, ExpireKeeps
<1>7. CASE Interrupted
  BY <1>7, InterruptedKeeps
<1>8. CASE EndSession
  BY <1>8, EndSessionKeeps
<1>9. CASE Subscribe
  BY <1>9, SubscribeKeeps
<1>10. CASE TaskStep
  BY <1>10, LoadKeeps, CompareKeeps DEF TaskStep
<1>11. CASE Serve
  BY <1>11, ServeKeeps
<1>12. ASSUME NEW x \in server.live, ReceiveFile(x) \/ DropTransfer(x) PROVE AvatarInv'
  BY <1>12, ReceiveFileKeeps, DropTransferKeeps
<1>13. CASE ChangeForeign
  BY <1>13, ChangeForeignKeeps
<1>14. CASE UNCHANGED vars
  BY <1>14 DEF vars, storeVars, AvatarInv, AvatarTypes, StoreTypeOK
<1> QED BY <1>1, <1>2, <1>3, <1>4, <1>5, <1>6, <1>7, <1>8, <1>9, <1>10, <1>11, <1>12, <1>13,
           <1>14 DEF Next, SessionStep, ServerStep

\* The invariant, in every state.
THEOREM AvatarIsInvariant == Spec => []AvatarInv
<1>1. Init => AvatarInv
  BY AvatarInit
<1>2. AvatarInv /\ [Next]_vars => AvatarInv'
  BY AvatarStep
<1> QED BY <1>1, <1>2, PTL DEF Spec

\* The types of the state (AvatarSync, avatar.rs:107).
THEOREM AvatarTypeIsOK == Spec => []TypeOK
<1>1. AvatarInv => TypeOK
  <2> SUFFICES ASSUME AvatarInv PROVE TypeOK
    OBVIOUS
  <2>1. sync \in Syncs /\ sync.sent = << >>
    BY DEF AvatarInv, AvatarTypes
  <2>2. sync.sent \in {<< >>}
    BY <2>1
  <2>3. sync \in [token : Nat, pending : BOOLEAN, retry : BOOLEAN,
          next : 1 .. Candidates + 1, revision : Nat, clear : BOOLEAN,
          deleting : Nat, draining : BOOLEAN, blocked : BOOLEAN, missing : BOOLEAN,
          drainQuery : Nat, drainId : Nat, previous : [token : Nat, handle : Nat],
          choices : 0 .. MaxSelection,
          upload : [handle : Nat, token : Nat, content : Contents, download : Nat],
          stage : Stages, worker : {"none", "load", "write", "verify", "ended"},
          query : [token : Nat, answered : BOOLEAN, hash : Contents,
                   result : {"none", "ok", "no"}],
          queryTimedOut : BOOLEAN, deadline : BOOLEAN, handles : Nat, sent : {<< >>}]
    BY <2>1, <2>2 DEF Syncs, Uploads, Transfers, Queries, Workers, Sizes, Chosen
  <2> QED BY <2>3 DEF TypeOK, AvatarInv, AvatarTypes, Transfer
<1> QED BY <1>1, AvatarIsInvariant, PTL

LEMMA AtMostOne ==
    ASSUME NEW S, \A x, y \in S : x = y
    PROVE  S # {} => Cardinality(S) = 1
  BY FS_Singleton

\* Whatever timed out, failed, was given up or overtaken by a new wish: at most
\* one change of the avatar is on its way or at work at the server
\* (AvatarSync::changed, AvatarSync::failed).
THEOREM ChangesAreAlone == Spec => []OneMutation
<1>1. AvatarInv => OneMutation
  <2> SUFFICES ASSUME AvatarInv PROVE OneMutation
    OBVIOUS
  <2> DEFINE live == server.live
             sent == {i \in DOMAIN toServer : toServer[i].op \in {"upload", "sethash", "delete"}}
  <2>1. /\ \A x, y \in live : x = y
        /\ \A i, j \in sent : i = j
        /\ live = {} \/ sent = {}
    BY DEF AvatarInv, World, Wire, At, Mutators
  <2> HIDE DEF live, sent
  <2>2. Cardinality(live) \in {0, 1} /\ Cardinality(sent) \in {0, 1}
        /\ (Cardinality(live) = 0 \/ Cardinality(sent) = 0)
    BY <2>1, AtMostOne, FS_EmptySet
  <2>3. Cardinality(live) + Cardinality(sent) <= 1
    BY <2>2
  <2> QED BY <2>3 DEF OneMutation, Mutations, live, sent
<1> QED BY <1>1, AvatarIsInvariant, PTL

\* The barrier always knows the transfer it asks for (avatar.rs:508).
THEOREM BarrierKnowsItsTransfer == Spec => []DrainNamesTransfer
<1>1. AvatarInv => DrainNamesTransfer
  BY Nothings DEF AvatarInv, World, Local, Waiting, Own, DrainNamesTransfer
<1> QED BY <1>1, AvatarIsInvariant, PTL

=============================================================================
