----------------------------- MODULE Lifecycle -----------------------------
(***************************************************************************)
(* One connection from the user's wish to its end, and the user's name on  *)
(* it: the worker's loop and the session (lib.rs), the connection's states *)
(* (tsclientlib), the durable nickname (profile.rs) and the alert that     *)
(* tells of an unexpected end (sound_events.rs).                           *)
(*                                                                         *)
(* The nickname is wanted here, confirmed there: a handshake carries the   *)
(* name the options had when it began, an update goes out as a command     *)
(* whose answer comes later, an administrator renames the client, and a    *)
(* connection may be lost at any point of this. How a handshake goes is    *)
(* Handshake's; here it ends well or badly.                                *)
(***************************************************************************)
EXTENDS Naturals, Sequences

CONSTANTS
    Nicknames,          \* nicknames
    NoName,         \* the client's own record is not there yet
    MaxRequests,    \* bound: the nicknames the user asks for
    MaxTroubles     \* bound: losses, kicks, level rises, renames by others, new sessions

ASSUME LifecycleAssumption == NoName \notin Nicknames

VARIABLES
    con,        \* tsclientlib's Connection: its state, options and book
    items,      \* its stream_items, when a server stop leaves more than one
    sess,       \* the session: whether it runs, first_connection, subscribed, the status shown
    cue,        \* sound_events::Session
    prof,       \* the Profile
    app,        \* profile::Application
    ops,        \* the session's operations: renames by their handle
    toServer,   \* commands on the way to the server
    toClient,   \* commands on the way from it
    named,      \* the name the server has for this client
    seen        \* history: alerts since the last entry, how the session ended,
                \* what excuses another name, troubles so far

lifeVars == <<con, items, sess, cue, prof, app, ops, toServer, toClient, named, seen>>

NoRename == [token |-> 0, revision |-> 0]
NewApplication == [queued |-> FALSE, next |-> 0, pending |-> NoRename]
NoConnection == [state |-> "none", again |-> FALSE, name |-> NoName, options |-> NoName,
                 link |-> "connected", actual |-> NoName, code |-> 0]

Trouble == seen.troubles < MaxTroubles

LifeInit ==
    /\ con = NoConnection /\ items = << >> /\ ops = {} /\ toServer = << >> /\ toClient = << >>
    /\ sess = [on |-> FALSE, first |-> FALSE, subscribed |-> FALSE, status |-> "disconnected"]
    /\ cue = [entered |-> FALSE, alerted |-> FALSE]
    /\ \E name \in Nicknames, blocked \in BOOLEAN :
          prof = [name |-> name, revision |-> 0, request |-> 0, blocked |-> blocked]
    /\ app = NewApplication /\ named = NoName
    /\ seen = [alerts |-> 0, ended |-> "no", refused |-> FALSE, foreign |-> FALSE, troubles |-> 0]

-----------------------------------------------------------------------------
(* The nickname (profile.rs).                                              *)

\* A stale request is dropped; what is not on the disk is not the nickname.
Saves(name, request, ok) ==
    IF request <= prof.request THEN prof
    ELSE [prof EXCEPT !.request = request,
                      !.name = IF ok THEN name ELSE @, !.revision = IF ok THEN @ + 1 ELSE @]

\* set_connect_name: a handshake that is under way starts again with the new name.
WithName(c, name) ==
    IF c.options = name THEN c
    ELSE [c EXCEPT !.options = name, !.name = IF c.state = "connecting" THEN name ELSE @]

\* A change is queued, none is under way, and the own client is in the book.
Plans(a, actual) == a.queued /\ a.pending = NoRename /\ actual # NoName

\* apply_nickname: ask the server, when the confirmed name is not the wanted one.
ApplyNickname(p, c, a, o) ==
    LET actual == IF c.state = "connected" THEN c.actual ELSE NoName
        asks == Plans(a, actual) /\ actual # p.name
    IN  IF asks
        THEN /\ con' = [c EXCEPT !.code = @ + 1]
             /\ app' = [queued |-> FALSE, next |-> a.next + 1,
                        pending |-> [token |-> a.next + 1, revision |-> p.revision]]
             /\ ops' = {op \in o : op.handle # c.code} \cup {[handle |-> c.code, token |-> a.next + 1]}
             /\ toServer' = Append(toServer, [handle |-> c.code, name |-> p.name])
        ELSE /\ con' = c /\ ops' = o /\ UNCHANGED toServer
             /\ app' = IF Plans(a, actual) THEN [a EXCEPT !.queued = FALSE] ELSE a

\* Mutant of Disconnected: the rename that is under way is still waited for.
DisconnectedWaiting(a) == [a EXCEPT !.queued = FALSE]
\* What was asked of the old connection is forgotten; the next handshake has the name.
Disconnected(a) == [a EXCEPT !.queued = FALSE, !.pending = NoRename]

\* A refusal counts when nothing was saved since.
IsLatest(a, token) == a.pending.token = token /\ a.pending.revision = prof.revision
RenameDone(a, token) == IF a.pending.token = token THEN [a EXCEPT !.pending = NoRename] ELSE a

-----------------------------------------------------------------------------
(* The alert (sound_events.rs): once for an end that the user did not ask  *)
(* for, and again only after a channel was entered.                        *)

Unexpected(alert) == [alert EXCEPT !.alerted = TRUE]
Alerts(alert) == IF alert.alerted THEN 0 ELSE 1
Recovering == Unexpected([cue EXCEPT !.entered = FALSE])

\* Mutant of Entered: a server without a channel for us counts as entered.
EnteredAnyhow(known) == [entered |-> known, alerted |-> FALSE]
\* The server or the own client was added; what is known is the own channel.
Entered(known) ==
    IF ~cue.entered /\ known THEN [entered |-> TRUE, alerted |-> FALSE] ELSE cue

-----------------------------------------------------------------------------
(* The worker and the session.                                             *)

Ended(how) ==
    /\ con' = NoConnection /\ items' = << >> /\ ops' = {} /\ app' = NewApplication
    /\ toServer' = << >> /\ toClient' = << >> /\ named' = NoName
    /\ sess' = [on |-> FALSE, first |-> FALSE, subscribed |-> FALSE, status |-> "disconnected"]
    /\ UNCHANGED prof

\* Err or a closed stream: the worker tells of it, unless it was told of before.
Fails ==
    /\ Ended("self")
    /\ cue' = Unexpected(cue)
    /\ seen' = [seen EXCEPT !.alerts = @ + Alerts(cue), !.ended = "self"]

SessionStarts ==
    /\ ~sess.on /\ Trouble
    /\ sess' = [on |-> TRUE, first |-> TRUE, subscribed |-> FALSE, status |-> "connecting"]
    /\ con' = [NoConnection EXCEPT !.state = "connecting", !.name = prof.name, !.options = prof.name]
    /\ cue' = [entered |-> FALSE, alerted |-> FALSE]
    /\ seen' = [seen EXCEPT !.alerts = 0, !.ended = "no", !.troubles = @ + 1]
    /\ UNCHANGED <<items, prof, app, ops, toServer, toClient, named>>

\* Offline the name is only saved; a session uses it at once.
SetNickname(name, request) ==
    /\ \E ok \in {~prof.blocked, FALSE} : prof' = Saves(name, request, ok)
    /\ IF prof'.revision = prof.revision
       THEN UNCHANGED <<con, app, ops, toServer, seen>>
       ELSE /\ seen' = [seen EXCEPT !.refused = FALSE]
            /\ IF sess.on THEN ApplyNickname(prof', WithName(con, prof'.name), [app EXCEPT !.queued = TRUE], ops)
               ELSE UNCHANGED <<con, app, ops, toServer>>
    /\ UNCHANGED <<items, sess, cue, toClient, named>>

\* clientdisconnect is drained for two seconds, or the handshake is dropped.
Disconnect ==
    /\ sess.on /\ Ended("user") /\ UNCHANGED cue
    /\ seen' = [seen EXCEPT !.ended = "user"]

\* Thirty seconds without a channel, or a panic in the protocol.
StartupDeadline == sess.on /\ sess.first /\ Fails
Panics == sess.on /\ Trouble /\ Fails

-----------------------------------------------------------------------------
(* The connection's stream.                                                *)

Polls(state) == sess.on /\ items = << >> /\ con.state = state

\* The book of a new connection: the server, not yet the own client.
HandshakeDone ==
    /\ Polls("connecting")
    /\ \E given \in Nicknames :
          /\ given = con.name \/ Trouble
          /\ named' = given
          /\ seen' = [seen EXCEPT !.foreign = given # con.name,
                                  !.troubles = IF given = con.name THEN @ ELSE @ + 1]
    /\ LET c == [con EXCEPT !.state = "connected", !.link = "connected",
                            !.actual = NoName, !.code = 0]
       IN  ApplyNickname(prof, WithName(c, prof.name), app, ops)
    /\ cue' = Entered(FALSE)
    /\ toClient' = <<[type |-> "own", name |-> named']>>
    /\ sess' = [sess EXCEPT !.subscribed = TRUE]
    /\ UNCHANGED <<items, prof>>

TriesAgain(reason) == con.again /\ reason = "timeout"
HandshakeFails(reason) ==
    /\ Polls("connecting") /\ Trouble
    /\ IF TriesAgain(reason)
       THEN /\ con' = [con EXCEPT !.name = con.options]
            /\ seen' = [seen EXCEPT !.troubles = @ + 1]
            /\ UNCHANGED <<items, sess, cue, prof, app, ops, toServer, toClient, named>>
       ELSE Fails

\* The server wants a higher level; it can be computed, or it cannot.
LevelNeeded ==
    /\ Polls("connecting") /\ Trouble
    /\ \/ /\ con' = [con EXCEPT !.state = "leveling"]
          /\ seen' = [seen EXCEPT !.troubles = @ + 1]
          /\ UNCHANGED <<items, sess, cue, prof, app, ops, toServer, toClient, named>>
       \/ Fails
LevelReached ==
    /\ Polls("leveling")
    /\ con' = [con EXCEPT !.state = "connecting", !.again = FALSE, !.name = con.options]
    /\ UNCHANGED <<items, sess, cue, prof, app, ops, toServer, toClient, named, seen>>

\* Back to a handshake, with the options of the moment.
Again(c) == [c EXCEPT !.state = "connecting", !.again = TRUE, !.name = c.options,
                      !.actual = NoName]

\* DisconnectedTemporarily in the session.
LinkInterrupted(c) ==
    /\ cue' = Recovering
    /\ con' = WithName(c, prof.name) /\ app' = Disconnected(app) /\ ops' = {}
    /\ sess' = [sess EXCEPT !.subscribed = FALSE, !.status = "reconnecting"]
    /\ toServer' = << >> /\ toClient' = << >> /\ named' = NoName

\* No packet for too long, or one that nobody acknowledged.
TimesOut ==
    /\ Polls("connected") /\ con.link = "connected" /\ Trouble
    /\ LinkInterrupted(Again(con))
    /\ seen' = [seen EXCEPT !.alerts = @ + Alerts(cue), !.troubles = @ + 1]
    /\ UNCHANGED <<items, prof>>

\* The server stops: the state is a handshake's before the session hears of it.
ServerShutsDown ==
    /\ Polls("connected") /\ con.link = "connected" /\ con.actual # NoName /\ Trouble
    /\ con' = Again(con) /\ items' = <<"book", "temporarily">>
    /\ seen' = [seen EXCEPT !.troubles = @ + 1]
    /\ UNCHANGED <<sess, cue, prof, app, ops, toServer, toClient, named>>

NextItem ==
    /\ sess.on /\ items # << >> /\ items' = Tail(items)
    /\ \/ /\ Head(items) = "book"
          /\ ApplyNickname(prof, WithName(con, prof.name), app, ops)
          /\ UNCHANGED <<sess, cue, toClient, named, seen>>
       \/ /\ Head(items) = "temporarily"
          /\ LinkInterrupted(con)
          /\ seen' = [seen EXCEPT !.alerts = @ + Alerts(cue)]
    /\ UNCHANGED prof

\* The server removes the client: kicked, banned, or dropped.
Removed ==
    /\ Polls("connected") /\ con.link = "connected" /\ con.actual # NoName /\ Trouble
    /\ LET c == [con EXCEPT !.link = "disconnected", !.actual = NoName]
       IN  ApplyNickname(prof, WithName(c, prof.name), app, ops)
    /\ cue' = Recovering
    /\ toClient' = << >> /\ named' = NoName
    /\ seen' = [seen EXCEPT !.alerts = @ + Alerts(cue), !.troubles = @ + 1]
    /\ UNCHANGED <<items, sess, prof>>
\* A link that is done ends the stream; another error ends the session.
StreamEnds == Polls("connected") /\ con.link = "disconnected" /\ Fails
StreamBreaks == Polls("connected") /\ con.link = "connected" /\ Trouble /\ Fails

-----------------------------------------------------------------------------
(* The server (external), and what the session makes of its commands. It   *)
(* tells a new name before it answers the command that asked for it.       *)

\* A confirmed name goes to the options too, until the session puts the wanted one back.
Told(c, command) ==
    WithName([c EXCEPT !.options = IF command.type = "updated" THEN command.name ELSE @,
                       !.actual = command.name], prof.name)

Renames ==
    /\ toServer # << >> /\ toServer' = Tail(toServer)
    /\ LET job == Head(toServer)
       IN  \/ /\ named' = job.name
              /\ toClient' = toClient \o <<[type |-> "updated", name |-> job.name],
                                           [type |-> "ok", handle |-> job.handle]>>
              /\ seen' = [seen EXCEPT !.foreign = FALSE]
           \/ /\ toClient' = Append(toClient, [type |-> "refused", handle |-> job.handle])
              /\ UNCHANGED <<named, seen>>
    /\ UNCHANGED <<con, items, sess, cue, prof, app, ops>>

RenamedByOther ==
    /\ Polls("connected") /\ named # NoName /\ Trouble
    /\ \E name \in Nicknames \ {named} :
          named' = name /\ toClient' = Append(toClient, [type |-> "updated", name |-> name])
    /\ seen' = [seen EXCEPT !.foreign = TRUE, !.troubles = @ + 1]
    /\ UNCHANGED <<con, items, sess, cue, prof, app, ops, toServer>>

\* The own client is added, or has a new name: an event of the book.
BookCommand ==
    /\ Polls("connected") /\ toClient # << >> /\ Head(toClient).type \in {"own", "updated"}
    /\ ApplyNickname(prof, Told(con, Head(toClient)), app, ops)
    /\ toClient' = Tail(toClient)
    /\ cue' = Entered(TRUE)
    /\ sess' = [sess EXCEPT !.first = FALSE, !.status = "connected"]
    /\ seen' = [seen EXCEPT !.alerts = IF cue'.entered /\ ~cue.entered THEN 0 ELSE @]
    /\ UNCHANGED <<items, prof, named>>

\* MessageResult: the operation by its handle; the rename by its token.
AnswerCommand ==
    /\ Polls("connected") /\ toClient # << >> /\ Head(toClient).type \in {"ok", "refused"}
    /\ toClient' = Tail(toClient)
    /\ \E op \in ops :
          /\ op.handle = Head(toClient).handle
          /\ ApplyNickname(prof, con, RenameDone(app, op.token), ops \ {op})
          /\ seen' = [seen EXCEPT !.refused =
                         @ \/ (Head(toClient).type = "refused" /\ IsLatest(app, op.token))]
    /\ UNCHANGED <<items, sess, cue, prof, named>>

LifeNext ==
    \/ SessionStarts \/ Disconnect \/ StartupDeadline \/ Panics
    \/ \E name \in Nicknames, request \in 1 .. MaxRequests : SetNickname(name, request)
    \/ HandshakeDone \/ \E reason \in {"timeout", "other"} : HandshakeFails(reason)
    \/ LevelNeeded \/ LevelReached \/ TimesOut \/ ServerShutsDown \/ NextItem
    \/ Removed \/ StreamEnds \/ StreamBreaks
    \/ Renames \/ RenamedByOther \/ BookCommand \/ AnswerCommand

LifeSpec == LifeInit /\ [][LifeNext]_lifeVars

-----------------------------------------------------------------------------
(* A handshake always carries the nickname that was saved last, and when   *)
(* nothing is under way the server has it too, or refused it and the user  *)
(* was told, or another client's administrator changed it: whatever        *)
(* overtook whatever, over any number of lost connections.                 *)
Rest == con.state = "connected" /\ con.link = "connected" /\ con.actual # NoName
        /\ items = << >> /\ ops = {} /\ toServer = << >> /\ toClient = << >>
NameSettles ==
    /\ con.state = "connecting" /\ items = << >> => con.name = prof.name
    /\ Rest => named = prof.name \/ seen.refused \/ seen.foreign

(* The user is told of an end that was not asked for, once until a channel *)
(* is entered again, and the status shown is the connection's own.         *)
UserKnows ==
    /\ seen.alerts <= 1
    /\ seen.ended = "self" => seen.alerts = 1
    /\ sess.status = "disconnected" <=> ~sess.on
    /\ con.actual # NoName => sess.status = "connected"
    /\ con.state # "connected" /\ items = << >> => sess.status # "connected"
=============================================================================
