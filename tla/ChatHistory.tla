---------------------------- MODULE ChatHistory ----------------------------
(***************************************************************************)
(* The chat history (native/src/chat.rs) between the session that accepts  *)
(* messages and the UI that shows them. Three threads take part:           *)
(*   - the session (lib.rs) sends changes over an unbounded channel, each  *)
(*     stamped with the epoch of the server it has selected;               *)
(*   - the history worker applies them in batches, saves the log of the    *)
(*     selected server and publishes it;                                   *)
(*   - the UI polls, and so takes, what was published.                     *)
(* A file may fail to be read or written, the process may be killed at any *)
(* step, and the next one starts from the files.                           *)
(***************************************************************************)
EXTENDS Naturals, Sequences

CONSTANTS
    Server,    \* server identities
    NoServer,  \* no server, or no directory to store anything in
    Msg,       \* message ids
    BatchMax,  \* changes a batch takes after its first (255)
    MaxChan,   \* bound: changes in the channel
    MaxEpoch,  \* bound: epochs one process selects
    MaxFaults, \* bound: reads and writes that fail
    MaxRun     \* bound: processes

ASSUME ChatHistoryAssumption ==
    /\ NoServer \notin Server
    /\ BatchMax \in Nat /\ MaxChan \in Nat /\ MaxEpoch \in Nat
    /\ MaxFaults \in Nat /\ MaxRun \in Nat

VARIABLES
    session, \* the session: its link, Session.epoch, current_server, operations
    chan,    \* changes on their way to the worker
    worker,  \* where the worker's loop is
    hist,    \* chat.rs History
    disk,    \* the file of each server
    out,     \* Output.chat_epoch and chat_snapshot
    run,     \* the process that is running
    (***********************************************************************)
    (* Observation and bounds only: no step of the program reads them.     *)
    (***********************************************************************)
    born,    \* the process and the server each message was made for
    missed,  \* servers whose last write failed
    faults   \* reads and writes that have failed

vars == <<session, chan, worker, hist, disk, out, run, born, missed, faults>>

workerVars == <<worker, hist, disk, missed, faults>>
sessionVars == <<session, chan, born>>

Statuses == {"received", "pending", "sent", "send_failed", "rejected",
             "after_reconnect", "after_restart"}

\* lib.rs ChatMessage: its status, and for a failed one its error.
Message == [id : Msg, status : Statuses]

\* Where the messages of a server are. A file that could not be read is not
\* written, so what is accepted over it comes behind it.
Over(file, kept) == IF kept.writable THEN kept.log ELSE file \o kept.log

LedgerOf(s) ==
    IF hist.server = s THEN Over(disk[s], hist)
    ELSE IF hist.unsaved[s].held THEN Over(disk[s], hist.unsaved[s])
    ELSE disk[s]

Ledger == INSTANCE ChatLedger WITH
    ledger <- [s \in Server |-> LedgerOf(s)],
    saved <- disk

\* What a Select keeps of a log it could not save (Retained, by its path).
NotRetained == [held |-> FALSE, log |-> << >>, writable |-> TRUE]

\* A published log, until it is polled.
NoSnapshot == [ready |-> FALSE, log |-> << >>]
Snapshot(log) == [ready |-> TRUE, log |-> log]

\* The changes the session sends.
SelectChange(epoch, server) == [kind |-> "select", epoch |-> epoch, server |-> server]
AddChange(epoch, m, status) ==
    [kind |-> "add", epoch |-> epoch, message |-> [id |-> m, status |-> status]]
FinishChange(epoch, m, status) ==
    [kind |-> "finish", epoch |-> epoch, message |-> [id |-> m, status |-> status]]
FailChange(epoch) == [kind |-> "fail", epoch |-> epoch]
RefreshChange(epoch) == [kind |-> "refresh", epoch |-> epoch]
StopChange == [kind |-> "stop"]

-----------------------------------------------------------------------------
(* The history and its batches (chat.rs). *)

IdsOf(log) == {log[i].id : i \in DOMAIN log}

\* ChatStore.fail_pending.
FailPending(log, reason) ==
    [i \in DOMAIN log |->
        IF log[i].status = "pending" THEN [log[i] EXCEPT !.status = reason] ELSE log[i]]

HasPending(log) == \E i \in DOMAIN log : log[i].status = "pending"

\* The first half of flush: write the selected server's log if it has to be.
Writes(h) == h.dirty /\ h.writable /\ h.server # NoServer

Saved(h, ok) == [h EXCEPT !.dirty = @ /\ ~(Writes(h) /\ ok), !.publish = FALSE]

SavedDisk(h, ok) ==
    IF Writes(h) /\ ok THEN [disk EXCEPT ![h.server] = h.log] ELSE disk

SavedMissed(h, ok) ==
    IF ~Writes(h) THEN missed
    ELSE IF ok THEN missed \ {h.server} ELSE missed \cup {h.server}

\* The second half: show the log, unless another epoch has been selected since.
ShowsAs(h, o) ==
    IF h.publish /\ o.epoch = h.epoch
    THEN [o EXCEPT !.shown = Snapshot(h.log)]
    ELSE o

\* A read or a write that is tried may fail.
Outcomes(tried) == IF tried /\ faults < MaxFaults THEN BOOLEAN ELSE {TRUE}
Faulted(failed) == faults' = IF failed THEN faults + 1 ELSE faults

\* Mutant of Retained: the log that could not be saved is dropped.
RetainedNever(h) == h.unsaved

\* apply(Select): what could not be saved is kept in memory, by its server.
Retained(h) ==
    IF h.dirty /\ h.server # NoServer
    THEN [h.unsaved EXCEPT ![h.server] =
              [held |-> TRUE, log |-> h.log, writable |-> h.writable]]
    ELSE h.unsaved

\* ... and the new server's log comes from there, or from its file.
Begun(unsaved, epoch, server, log, writable, dirty) ==
    [epoch |-> epoch, server |-> server, log |-> log, writable |-> writable,
     dirty |-> dirty, publish |-> TRUE, unsaved |-> unsaved]

Reset(unsaved, epoch) == Begun(unsaved, epoch, NoServer, << >>, TRUE, FALSE)

Restored(unsaved, epoch, server) ==
    Begun([unsaved EXCEPT ![server] = NotRetained], epoch, server,
          unsaved[server].log, unsaved[server].writable, TRUE)

\* Mutant of Loaded: the messages it fails are not written back.
LoadedClean(unsaved, epoch, server, log) ==
    Begun(unsaved, epoch, server, FailPending(log, "after_restart"), TRUE, FALSE)

Loaded(unsaved, epoch, server, log) ==
    Begun(unsaved, epoch, server, FailPending(log, "after_restart"), TRUE, HasPending(log))

\* Mutant of NotLoaded: the log of the server before is still there.
NotLoadedOverOld(unsaved, epoch, server) ==
    Begun(unsaved, epoch, server, hist.log, FALSE, FALSE)

NotLoaded(unsaved, epoch, server) ==
    Begun(unsaved, epoch, server, << >>, FALSE, FALSE)

Selected(unsaved, epoch, server, files, readable) ==
    IF server = NoServer THEN Reset(unsaved, epoch)
    ELSE IF unsaved[server].held THEN Restored(unsaved, epoch, server)
    ELSE IF readable THEN Loaded(unsaved, epoch, server, files[server])
    ELSE NotLoaded(unsaved, epoch, server)

Reads(unsaved, server) == server # NoServer /\ ~unsaved[server].held

ApplySelect(c) ==
    \E ok \in Outcomes(Writes(hist)) :
        LET unsaved == Retained(Saved(hist, ok)) IN
        \E readable \in Outcomes(Reads(unsaved, c.server)) :
            /\ disk' = SavedDisk(hist, ok)
            /\ missed' = SavedMissed(hist, ok)
            /\ out' = ShowsAs(hist, out)
            /\ hist' = Selected(unsaved, c.epoch, c.server, disk', readable)
            /\ Faulted(~ok \/ ~readable)

\* The changes of the current epoch, and what is left of the others.
Current(c) == c.epoch = hist.epoch

Added(log, message) == IF message.id \in IdsOf(log) THEN log ELSE Append(log, message)

Finished(log, message) ==
    [i \in DOMAIN log |->
        IF log[i].id = message.id /\ log[i].status = "pending" THEN message ELSE log[i]]

NextLog(c) ==
    CASE c.kind = "add" -> Added(hist.log, c.message)
      [] c.kind = "finish" -> Finished(hist.log, c.message)
      [] c.kind = "fail" -> FailPending(hist.log, "after_reconnect")
      [] OTHER -> hist.log

ApplyLog(c) ==
    LET log == IF Current(c) THEN NextLog(c) ELSE hist.log IN
    /\ hist' = [hist EXCEPT
                   !.log = log,
                   !.dirty = @ \/ log # hist.log,
                   !.publish = @ \/ log # hist.log \/ (c.kind = "refresh" /\ Current(c))]
    /\ UNCHANGED <<disk, missed, out, faults>>

\* apply(Stop): one last try for every log that could be saved.
Owed == {s \in Server : hist.unsaved[s].held /\ hist.unsaved[s].writable}

ApplyStop ==
    \E failed \in SUBSET Owed :
        /\ failed # {} => faults < MaxFaults
        /\ disk' = [s \in Server |->
                       IF s \in Owed \ failed THEN hist.unsaved[s].log ELSE disk[s]]
        /\ missed' = (missed \ Owed) \cup failed
        /\ Faulted(failed # {})
        /\ UNCHANGED <<hist, out>>

Apply(c) ==
    CASE c.kind = "select" -> ApplySelect(c)
      [] c.kind = "stop" -> ApplyStop
      [] OTHER -> ApplyLog(c)

\* Mutant of AfterChange: a batch does not count its changes.
AfterChangeUncounted(c, count) ==
    [at |-> IF c.kind = "stop" THEN "stop" ELSE "batch", count |-> 0]

\* Worker::new: recv waits for the first change of a batch.
AfterChange(c, count) ==
    IF c.kind = "stop" THEN [at |-> "stop", count |-> 0]
    ELSE [at |-> "batch", count |-> count]

TakeFirst ==
    /\ worker.at = "idle" /\ chan # << >>
    /\ chan' = Tail(chan)
    /\ Apply(Head(chan))
    /\ worker' = AfterChange(Head(chan), 0)
    /\ UNCHANGED <<session, born, run>>

\* Mutant of BatchGoesOn: one change too many.
BatchGoesOnLonger == worker.count <= BatchMax

\* More changes may join it until the batch is full or its time is over.
BatchGoesOn == worker.count < BatchMax

TakeMore ==
    /\ worker.at = "batch" /\ chan # << >> /\ BatchGoesOn
    /\ chan' = Tail(chan)
    /\ Apply(Head(chan))
    /\ worker' = AfterChange(Head(chan), worker.count + 1)
    /\ UNCHANGED <<session, born, run>>

\* flush, at the end of a batch. After a Stop the worker flushes twice: once for
\* the batch and once behind the loop, which tries again what failed.
Flush ==
    \E ok \in Outcomes(Writes(hist)) :
        /\ disk' = SavedDisk(hist, ok)
        /\ missed' = SavedMissed(hist, ok)
        /\ out' = ShowsAs(hist, out)
        /\ hist' = Saved(hist, ok)
        /\ Faulted(~ok)

AfterFlush == [batch |-> "idle", stop |-> "last", last |-> "gone"]

EndBatch ==
    /\ worker.at \in DOMAIN AfterFlush
    /\ Flush
    /\ worker' = [at |-> AfterFlush[worker.at], count |-> 0]
    /\ UNCHANGED <<session, chan, born, run>>

Worker == TakeFirst \/ TakeMore \/ EndBatch

-----------------------------------------------------------------------------
(* The session and the worker thread around it (lib.rs). *)

\* Request ids and the ids of received messages are random, so they are used once.
Unborn == [run |-> 0, server |-> NoServer]
Fresh(m) == born[m] = Unborn
Make(m) == born' = [born EXCEPT ![m] = [run |-> run, server |-> session.server]]

Room(n) == Len(chan) + n <= MaxChan
Live == session.link \in {"joining", "up", "stopping"}

\* Worker.select: the old snapshot is gone before the worker knows of it.
Select(server, before) ==
    /\ out' = [epoch |-> out.epoch + 1, shown |-> Snapshot(<< >>)]
    /\ chan' = chan \o Append(before, SelectChange(out.epoch + 1, server))

SendChanges(changes) == Room(Len(changes)) /\ chan' = chan \o changes /\ UNCHANGED out

SessionStep == UNCHANGED <<workerVars, run>>

\* Connect: session() starts without a server.
Connect ==
    /\ session.link = "off" /\ out.epoch < MaxEpoch /\ Room(1)
    /\ Select(NoServer, << >>)
    /\ session' = [link |-> "joining", epoch |-> out.epoch + 1, server |-> NoServer,
                   awaiting |-> {}]
    /\ UNCHANGED born /\ SessionStep

\* BookEvents, the first of a connection: the server is known.
Book(s) ==
    /\ session.link = "joining"
    /\ \/ /\ s # session.server /\ out.epoch < MaxEpoch /\ Room(1)
          /\ Select(s, << >>)
          /\ session' = [session EXCEPT !.link = "up", !.epoch = out.epoch + 1, !.server = s]
       \/ /\ s = session.server
          /\ session' = [session EXCEPT !.link = "up"]
          /\ UNCHANGED <<chan, out>>
    /\ UNCHANGED born /\ SessionStep

\* BookEvents with a message of somebody else.
Receive(m) ==
    /\ session.link = "up" /\ Fresh(m) /\ Make(m)
    /\ SendChanges(<<AddChange(session.epoch, m, "received")>>)
    /\ UNCHANGED session /\ SessionStep

\* SendChannelMessage, SendPrivateMessage: the message is stored before it is sent.
SendMessage(m) ==
    /\ session.link = "up" /\ Fresh(m) /\ Make(m)
    /\ \/ /\ SendChanges(<<AddChange(session.epoch, m, "pending")>>)
          /\ session' = [session EXCEPT !.awaiting = @ \cup {m}]
       \/ /\ SendChanges(<<AddChange(session.epoch, m, "pending"),
                           FinishChange(session.epoch, m, "send_failed")>>)
          /\ UNCHANGED session
    /\ SessionStep

\* The same commands when outgoing_message refuses them.
RejectMessage(m) ==
    /\ Live /\ Fresh(m) /\ Make(m)
    /\ SendChanges(<<AddChange(session.epoch, m, "rejected")>>)
    /\ UNCHANGED session /\ SessionStep

\* MessageResult of a PendingOperation::Chat.
Result(m, status) ==
    /\ session.link = "up" /\ m \in session.awaiting
    /\ SendChanges(<<FinishChange(session.epoch, m, status)>>)
    /\ session' = [session EXCEPT !.awaiting = @ \ {m}]
    /\ UNCHANGED born /\ SessionStep

\* A download of an avatar or an icon is complete.
MediaDone ==
    /\ Live
    /\ SendChanges(<<RefreshChange(session.epoch)>>)
    /\ UNCHANGED <<session, born>> /\ SessionStep

\* The server says that it stops: tsclientlib drops its state at once, and the
\* BookEvents it had queued meet a session that knows no server any more.
ServerStops ==
    /\ session.link = "up" /\ out.epoch < MaxEpoch /\ Room(1)
    /\ Select(NoServer, << >>)
    /\ session' = [session EXCEPT !.link = "stopping", !.epoch = out.epoch + 1,
                                  !.server = NoServer]
    /\ UNCHANGED born /\ SessionStep

\* DisconnectedTemporarily, behind these BookEvents or after a timeout.
Interrupted ==
    /\ session.link \in {"up", "stopping"}
    /\ SendChanges(<<FailChange(session.epoch)>>)
    /\ session' = [session EXCEPT !.link = "joining", !.awaiting = {}]
    /\ UNCHANGED born /\ SessionStep

\* The session ends: it is dropped, and then cleared unless the core shuts down.
EndSession(next) ==
    /\ Live
    /\ SendChanges(<<FailChange(session.epoch)>>)
    /\ session' = [session EXCEPT !.link = next, !.awaiting = {}]
    /\ UNCHANGED born /\ SessionStep

Clear ==
    /\ session.link = "dropped" /\ Room(1)
    /\ Select(NoServer, << >>)
    /\ session' = [session EXCEPT !.link = "off", !.server = NoServer]
    /\ UNCHANGED born /\ SessionStep

\* Drop of the Worker: Stop, and join.
Quit ==
    /\ session.link \in {"off", "quitting"}
    /\ SendChanges(<<StopChange>>)
    /\ session' = [session EXCEPT !.link = "quit"]
    /\ UNCHANGED born /\ SessionStep

\* Bridge::poll takes the snapshot.
Poll ==
    /\ session.link # "quit" /\ out.shown.ready
    /\ out' = [out EXCEPT !.shown = NoSnapshot]
    /\ UNCHANGED <<sessionVars, workerVars, run>>

NoSession == [link |-> "off", epoch |-> 0, server |-> NoServer, awaiting |-> {}]

EmptyHistory ==
    [Reset([s \in Server |-> NotRetained], 0) EXCEPT !.publish = FALSE]

\* The process is gone, killed or joined, and another one starts.
NewProcess ==
    /\ run < MaxRun /\ run' = run + 1
    /\ session' = NoSession /\ chan' = << >>
    /\ worker' = [at |-> "idle", count |-> 0] /\ hist' = EmptyHistory
    /\ out' = [epoch |-> 0, shown |-> NoSnapshot]
    /\ missed' = {}
    /\ UNCHANGED <<disk, born, faults>>

Exit == worker.at = "gone" /\ NewProcess
Kill == worker.at # "gone" /\ NewProcess

-----------------------------------------------------------------------------
Init ==
    /\ session = NoSession /\ chan = << >>
    /\ worker = [at |-> "idle", count |-> 0] /\ hist = EmptyHistory
    /\ disk = [s \in Server |-> << >>]
    /\ out = [epoch |-> 0, shown |-> NoSnapshot]
    /\ run = 1 /\ born = [m \in Msg |-> Unborn] /\ missed = {} /\ faults = 0

Session ==
    \/ Connect \/ MediaDone \/ ServerStops \/ Interrupted \/ Clear \/ Quit
    \/ \E s \in Server : Book(s)
    \/ \E m \in Msg : Receive(m) \/ SendMessage(m) \/ RejectMessage(m)
    \/ \E m \in Msg : \E status \in {"sent", "send_failed"} : Result(m, status)
    \/ \E next \in {"dropped", "quitting"} : EndSession(next)

Next == Worker \/ Session \/ Poll \/ Exit \/ Kill

Spec == Init /\ [][Next]_vars

\* The worker's thread is scheduled, and blocks only while its channel is empty.
Fairness == WF_vars(Worker)

-----------------------------------------------------------------------------
(* Properties.                                                              *)

Links == {"off", "joining", "up", "stopping", "dropped", "quitting", "quit"}
SessionState == [link : Links, epoch : Nat, server : Server \cup {NoServer},
                 awaiting : SUBSET Msg]
Change == [kind : {"select"}, epoch : Nat, server : Server \cup {NoServer}]
          \cup [kind : {"add", "finish"}, epoch : Nat, message : Message]
          \cup [kind : {"fail", "refresh"}, epoch : Nat]
          \cup {StopChange}
WorkerState == [at : {"idle", "batch", "stop", "last", "gone"}, count : 0 .. BatchMax]
Kept == [held : BOOLEAN, log : Seq(Message), writable : BOOLEAN]
HistoryState ==
    [epoch : Nat, server : Server \cup {NoServer}, log : Seq(Message),
     writable : BOOLEAN, dirty : BOOLEAN, publish : BOOLEAN, unsaved : [Server -> Kept]]
OutputState == [epoch : Nat, shown : [ready : BOOLEAN, log : Seq(Message)]]
Origin == [run : Nat, server : Server \cup {NoServer}]

\* Types: in particular a batch never takes more changes than its bound.
TypeOK ==
    /\ session \in SessionState
    /\ chan \in Seq(Change)
    /\ worker \in WorkerState
    /\ hist \in HistoryState
    /\ disk \in [Server -> Seq(Message)]
    /\ out \in OutputState
    /\ run \in Nat
    /\ born \in [Msg -> Origin]
    /\ missed \in SUBSET Server
    /\ faults \in Nat

\* The history keeps its promise (ChatLedger): through failed writes, unreadable
\* files, changes of server and ends of the process no accepted message is lost
\* but by the end of the process before it was saved, no answer is taken back,
\* and no file is overwritten with less than it had.
LedgerKept == Ledger!Spec

\* Between two batches, and when the worker is gone, everything it accepted is
\* in the file of its server, whatever was selected in between. Excused are a
\* server whose last write failed and one whose file could not be read.
Unread(s) ==
    IF hist.server = s THEN ~hist.writable
    ELSE hist.unsaved[s].held /\ ~hist.unsaved[s].writable

IdleMeansSaved ==
    worker.at \in {"idle", "gone"} =>
        \A s \in Server : s \in missed \/ Unread(s) \/ LedgerOf(s) = disk[s]

\* A message is kept with the server its session had selected when it was made,
\* though its change is applied later, maybe behind other selections.
\* And what the UI can poll is of the server that is selected now: the worker may
\* still be busy with another one, and must not show it any more.
RightServer ==
    /\ \A s \in Server : \A m \in IdsOf(LedgerOf(s)) : born[m].server = s
    /\ Live => \A m \in IdsOf(out.shown.log) : born[m].server = session.server

\* A change the history has accepted is published in the end unless its server is
\* left before that, though changes never stop coming: "Bound batching so a
\* continuous producer cannot starve saves/publication" (chat.rs:49).
Accepted(m) == hist.epoch = out.epoch /\ m \in IdsOf(hist.log)

AcceptedIsShown ==
    \A m \in Msg :
        Accepted(m) /\ hist.publish ~> m \in IdsOf(out.shown.log) \/ ~Accepted(m)

\* "The server didn't confirm this message before the app last closed."
\* (strings.xml:116): what is said to have failed by that is of an earlier process.
RestartMeansRestart ==
    \A i \in DOMAIN hist.log :
        hist.log[i].status = "after_restart" => born[hist.log[i].id].run < run
=============================================================================
