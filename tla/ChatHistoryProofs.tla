------------------------ MODULE ChatHistoryProofs ------------------------
(***************************************************************************)
(* Machine-checked proofs about ChatHistory, for every value of its        *)
(* constants: its types, nothing that was accepted is lost, nothing is     *)
(* shown to another server, and it implements ChatLedger.                  *)
(***************************************************************************)
EXTENDS ChatHistory, SequenceTheorems, TLAPS

-----------------------------------------------------------------------------
(* Types of what the history is made of.                                    *)

\* A log of which messages are replaced in place is a log.
LEMMA LogReplaced ==
    ASSUME NEW log \in Seq(Message), NEW new,
           new = [i \in DOMAIN log |-> new[i]],
           \A i \in DOMAIN log : new[i] \in Message
    PROVE  new \in Seq(Message)
  BY SeqDef

LEMMA FailPendingType ==
    ASSUME NEW log \in Seq(Message), NEW reason \in Statuses
    PROVE  FailPending(log, reason) \in Seq(Message)
<1>1. ASSUME NEW i \in DOMAIN log
      PROVE  FailPending(log, reason)[i] \in Message
  <2>1. log[i] \in Message
    OBVIOUS
  <2>2. [log[i] EXCEPT !.status = reason] \in Message
    BY <2>1 DEF Message
  <2> QED
    BY <2>1, <2>2 DEF FailPending
<1>2. FailPending(log, reason) = [i \in DOMAIN log |-> FailPending(log, reason)[i]]
  BY DEF FailPending
<1> QED
  BY <1>1, <1>2, LogReplaced

LEMMA FinishedType ==
    ASSUME NEW log \in Seq(Message), NEW message \in Message
    PROVE  Finished(log, message) \in Seq(Message)
  BY LogReplaced DEF Finished

LEMMA AddedType ==
    ASSUME NEW log \in Seq(Message), NEW message \in Message
    PROVE  Added(log, message) \in Seq(Message)
BY DEF Added

LEMMA NextLogType ==
    ASSUME hist \in HistoryState, NEW c \in Change
    PROVE  NextLog(c) \in Seq(Message)
  BY FailPendingType, FinishedType, AddedType DEF HistoryState, Statuses, Change, StopChange,
     NextLog

\* A log that was saved has nothing pending to write back but by being dirty.
LEMMA FailPendingClean ==
    ASSUME NEW log \in Seq(Message), NEW reason, ~HasPending(log)
    PROVE  FailPending(log, reason) = log
  BY DEF FailPending, HasPending

LEMMA RetainedType ==
    ASSUME NEW h \in HistoryState
    PROVE  Retained(h) \in [Server -> Kept]
  BY DEF HistoryState, Kept, Retained

LEMMA SavedType ==
    ASSUME hist \in HistoryState, NEW ok \in BOOLEAN
    PROVE  Saved(hist, ok) \in HistoryState
  BY DEF HistoryState, Saved

LEMMA NotRetainedType == NotRetained \in Kept
BY DEF NotRetained, Kept

LEMMA BegunType ==
    ASSUME NEW unsaved \in [Server -> Kept], NEW epoch \in Nat,
           NEW server \in Server \cup {NoServer}, NEW log \in Seq(Message),
           NEW writable \in BOOLEAN, NEW dirty \in BOOLEAN
    PROVE  Begun(unsaved, epoch, server, log, writable, dirty) \in HistoryState
BY DEF Begun, HistoryState

LEMMA SelectedType ==
    ASSUME NEW unsaved \in [Server -> Kept], NEW epoch \in Nat,
           NEW server \in Server \cup {NoServer},
           NEW files \in [Server -> Seq(Message)], NEW readable \in BOOLEAN
    PROVE  Selected(unsaved, epoch, server, files, readable) \in HistoryState
<1>1. << >> \in Seq(Message)
  OBVIOUS
<1>2. CASE server = NoServer
  BY <1>1, <1>2, BegunType DEF Selected, Reset
<1>3. CASE server # NoServer
  BY <1>3, NotRetainedType, BegunType, FailPendingType, <1>1 DEF Kept, Restored, Statuses,
     HasPending, Loaded, NotLoaded, Selected
<1> QED
  BY <1>2, <1>3

LEMMA EmptyHistoryType == EmptyHistory \in HistoryState
<1>1. [s \in Server |-> NotRetained] \in [Server -> Kept]
  BY NotRetainedType
<1>2. \A h \in HistoryState : [h EXCEPT !.publish = FALSE] \in HistoryState
  BY DEF HistoryState
<1>3. Reset([s \in Server |-> NotRetained], 0) \in HistoryState
  BY <1>1, BegunType, EmptySeq DEF Reset
<1> QED
  BY <1>2, <1>3 DEF EmptyHistory

-----------------------------------------------------------------------------
(* Types of what a step of the worker does.                                 *)

LEMMA ShowsAsType ==
    ASSUME NEW h \in HistoryState, NEW o \in OutputState
    PROVE  ShowsAs(h, o) \in OutputState
  BY DEF Snapshot, HistoryState, OutputState, ShowsAs

LEMMA SavedDiskType ==
    ASSUME TypeOK, NEW ok
    PROVE  /\ SavedDisk(hist, ok) \in [Server -> Seq(Message)]
           /\ SavedMissed(hist, ok) \in SUBSET Server
  BY DEF TypeOK, HistoryState, Writes, SavedDisk, SavedMissed

LEMMA OutcomesType == \A tried : Outcomes(tried) \subseteq BOOLEAN
BY DEF Outcomes

LEMMA FaultedType == ASSUME TypeOK, NEW failed, Faulted(failed) PROVE faults' \in Nat
BY DEF TypeOK, Faulted

LEMMA ApplySelectType ==
    ASSUME TypeOK, NEW c \in Change, c.kind = "select", ApplySelect(c)
    PROVE  /\ disk' \in [Server -> Seq(Message)] /\ missed' \in SUBSET Server
           /\ out' \in OutputState /\ hist' \in HistoryState /\ faults' \in Nat
<1>1. c.epoch \in Nat /\ c.server \in Server \cup {NoServer}
  BY DEF Change, StopChange
<1>2. PICK ok \in Outcomes(Writes(hist)) :
          \E readable \in Outcomes(Reads(Retained(Saved(hist, ok)), c.server)) :
              /\ disk' = SavedDisk(hist, ok)
              /\ missed' = SavedMissed(hist, ok)
              /\ out' = ShowsAs(hist, out)
              /\ hist' = Selected(Retained(Saved(hist, ok)), c.epoch, c.server, disk', readable)
              /\ Faulted(~ok \/ ~readable)
  BY DEF ApplySelect
<1>3. PICK readable \in Outcomes(Reads(Retained(Saved(hist, ok)), c.server)) :
          /\ disk' = SavedDisk(hist, ok)
          /\ missed' = SavedMissed(hist, ok)
          /\ out' = ShowsAs(hist, out)
          /\ hist' = Selected(Retained(Saved(hist, ok)), c.epoch, c.server, disk', readable)
          /\ Faulted(~ok \/ ~readable)
  BY <1>2
<1>4. ok \in BOOLEAN /\ readable \in BOOLEAN
  BY OutcomesType
<1>5. hist \in HistoryState /\ out \in OutputState
  BY DEF TypeOK
<1>6. Retained(Saved(hist, ok)) \in [Server -> Kept]
  BY <1>4, <1>5, SavedType, RetainedType
<1>7. disk' \in [Server -> Seq(Message)] /\ missed' \in SUBSET Server
  BY <1>3, SavedDiskType
<1>8. out' \in OutputState
  BY <1>3, <1>5, ShowsAsType
<1>9. hist' \in HistoryState
  BY <1>1, <1>3, <1>4, <1>6, <1>7, SelectedType
<1>10. faults' \in Nat
  BY <1>3, FaultedType
<1> QED
  BY <1>7, <1>8, <1>9, <1>10

LEMMA ApplyLogType ==
    ASSUME TypeOK, NEW c \in Change, ApplyLog(c)
    PROVE  /\ disk' \in [Server -> Seq(Message)] /\ missed' \in SUBSET Server
           /\ out' \in OutputState /\ hist' \in HistoryState /\ faults' \in Nat
<1>1. hist \in HistoryState
  BY DEF TypeOK
<1> DEFINE log == IF Current(c) THEN NextLog(c) ELSE hist.log
           dirty == hist.dirty \/ log # hist.log
           publish == \/ hist.publish \/ log # hist.log
                      \/ c.kind = "refresh" /\ Current(c)
<1>2. log \in Seq(Message)
  BY <1>1, NextLogType DEF HistoryState
<1>3. dirty \in BOOLEAN /\ publish \in BOOLEAN
  <2>1. hist.dirty \in BOOLEAN /\ hist.publish \in BOOLEAN
    BY <1>1 DEF HistoryState
  <2> QED
    BY <2>1, Zenon
<1>4. hist' = [hist EXCEPT !.log = log, !.dirty = dirty, !.publish = publish]
  BY DEF ApplyLog
<1> HIDE DEF log, dirty, publish
<1>5. hist' \in HistoryState
  BY <1>1, <1>2, <1>3, <1>4 DEF HistoryState
<1> QED
  BY <1>5 DEF ApplyLog, TypeOK

LEMMA ApplyStopType ==
    ASSUME TypeOK, ApplyStop
    PROVE  /\ disk' \in [Server -> Seq(Message)] /\ missed' \in SUBSET Server
           /\ out' \in OutputState /\ hist' \in HistoryState /\ faults' \in Nat
  BY FaultedType DEF TypeOK, HistoryState, Kept, Owed, ApplyStop

LEMMA ApplyType ==
    ASSUME TypeOK, NEW c \in Change, Apply(c)
    PROVE  /\ disk' \in [Server -> Seq(Message)] /\ missed' \in SUBSET Server
           /\ out' \in OutputState /\ hist' \in HistoryState /\ faults' \in Nat
  BY ApplySelectType, ApplyStopType, ApplyLogType DEF Apply

LEMMA FlushType ==
    ASSUME TypeOK, Flush
    PROVE  /\ disk' \in [Server -> Seq(Message)] /\ missed' \in SUBSET Server
           /\ out' \in OutputState /\ hist' \in HistoryState /\ faults' \in Nat
  BY OutcomesType, SavedDiskType, ShowsAsType, SavedType, FaultedType DEF Flush, TypeOK

-----------------------------------------------------------------------------
(* Types of what a step of the session does.                                *)

LEMMA ChangeTypes ==
    ASSUME NEW epoch \in Nat
    PROVE  /\ \A server \in Server \cup {NoServer} : SelectChange(epoch, server) \in Change
           /\ \A m \in Msg, status \in Statuses :
                  /\ AddChange(epoch, m, status) \in Change
                  /\ FinishChange(epoch, m, status) \in Change
           /\ FailChange(epoch) \in Change /\ RefreshChange(epoch) \in Change
           /\ StopChange \in Change
  BY DEF Message, SelectChange, Change, AddChange, FinishChange, FailChange, RefreshChange

LEMMA SelectType ==
    ASSUME TypeOK, NEW server \in Server \cup {NoServer}, NEW before \in Seq(Change),
           Select(server, before)
    PROVE  out' \in OutputState /\ chan' \in Seq(Change)
  BY ChangeTypes DEF TypeOK, OutputState, Select, Snapshot

LEMMA SendChangesType ==
    ASSUME TypeOK, NEW changes \in Seq(Change), SendChanges(changes)
    PROVE  out' \in OutputState /\ chan' \in Seq(Change)
BY DEF SendChanges, TypeOK

LEMMA SessionFields ==
    ASSUME NEW s \in SessionState
    PROVE  /\ s.epoch \in Nat /\ s.server \in Server \cup {NoServer}
           /\ s.awaiting \in SUBSET Msg
           /\ \A link \in Links : [s EXCEPT !.link = link] \in SessionState
           /\ \A link \in Links, epoch \in Nat, server \in Server \cup {NoServer} :
                  [s EXCEPT !.link = link, !.epoch = epoch, !.server = server] \in SessionState
           /\ \A awaiting \in SUBSET Msg : [s EXCEPT !.awaiting = awaiting] \in SessionState
           /\ \A link \in Links, awaiting \in SUBSET Msg :
                  [s EXCEPT !.link = link, !.awaiting = awaiting] \in SessionState
           /\ \A link \in Links, server \in Server \cup {NoServer} :
                  [s EXCEPT !.link = link, !.server = server] \in SessionState
BY DEF SessionState

LEMMA MakeType ==
    ASSUME TypeOK, NEW m \in Msg, Make(m)
    PROVE  born' \in [Msg -> Origin]
  BY SessionFields DEF TypeOK, Origin, Make

\* The parts of TypeOK a thread's step is about.
SessionTypes == /\ session' \in SessionState /\ chan' \in Seq(Change)
                /\ out' \in OutputState /\ born' \in [Msg -> Origin]

LEMMA SessionType ==
    ASSUME TypeOK, Session
    PROVE  TypeOK'
<1>0. /\ session \in SessionState /\ born \in [Msg -> Origin] /\ chan \in Seq(Change)
      /\ out \in OutputState /\ out.epoch + 1 \in Nat /\ NoServer \in Server \cup {NoServer}
      /\ << >> \in Seq(Change) /\ session.epoch \in Nat
  <2>1. session \in SessionState /\ out \in OutputState
    BY DEF TypeOK
  <2>2. out.epoch + 1 \in Nat
    BY <2>1 DEF OutputState
  <2>3. session.epoch \in Nat
    BY <2>1, SessionFields
  <2> QED
    BY <2>1, <2>2, <2>3 DEF TypeOK
<1>1. Links = {"off", "joining", "up", "stopping", "dropped", "quitting", "quit"}
  BY DEF Links
<1>2. {"received", "pending", "sent", "send_failed", "rejected"} \subseteq Statuses
  BY DEF Statuses
<1>3. ASSUME Connect
      PROVE  SessionTypes
  BY <1>0, <1>3, SelectType, <1>1 DEF Connect, SessionState, SessionTypes
<1>4. ASSUME MediaDone
      PROVE  SessionTypes
  <2>1. <<RefreshChange(session.epoch)>> \in Seq(Change)
    BY <1>0, ChangeTypes
  <2> QED
    BY <1>0, <1>4, <2>1, SendChangesType DEF MediaDone, SessionTypes
<1>5. ASSUME ServerStops
      PROVE  SessionTypes
  BY <1>0, <1>5, SelectType, <1>1, SessionFields DEF ServerStops, SessionTypes
<1>6. ASSUME Interrupted
      PROVE  SessionTypes
  <2>0. <<FailChange(session.epoch)>> \in Seq(Change)
    BY <1>0, ChangeTypes
  <2>1. out' \in OutputState /\ chan' \in Seq(Change)
    BY <1>6, <2>0, SendChangesType DEF Interrupted
  <2>2. session' \in SessionState
    BY <1>0, <1>1, <1>6, SessionFields DEF Interrupted
  <2> QED
    BY <1>0, <1>6, <2>1, <2>2 DEF Interrupted, SessionTypes
<1>7. ASSUME Clear
      PROVE  SessionTypes
  BY <1>0, <1>7, SelectType, <1>1, SessionFields DEF Clear, SessionTypes
<1>8. ASSUME Quit
      PROVE  SessionTypes
  <2>0. <<StopChange>> \in Seq(Change)
    BY <1>0, ChangeTypes
  <2>1. out' \in OutputState /\ chan' \in Seq(Change)
    BY <1>8, <2>0, SendChangesType DEF Quit
  <2>2. session' \in SessionState
    BY <1>0, <1>1, <1>8, SessionFields DEF Quit
  <2> QED
    BY <1>0, <1>8, <2>1, <2>2 DEF Quit, SessionTypes
<1>9. ASSUME NEW s \in Server, Book(s)
      PROVE  SessionTypes
  <2>1. out' \in OutputState /\ chan' \in Seq(Change)
    BY <1>0, <1>9, SelectType DEF Book
  <2>2. session' \in SessionState
    <3>1. "up" \in Links
      BY <1>1
    <3>2. [session EXCEPT !.link = "up"] \in SessionState
      BY <1>0, <3>1, SessionFields
    <3>3. [session EXCEPT !.link = "up", !.epoch = out.epoch + 1, !.server = s] \in SessionState
      BY <1>0, <3>1, SessionFields
    <3> QED
      BY <1>9, <3>2, <3>3 DEF Book
  <2> QED
    BY <1>0, <1>9, <2>1, <2>2 DEF Book, SessionTypes
<1>10. ASSUME NEW m \in Msg, Receive(m)
       PROVE  SessionTypes
  <2>1. <<AddChange(session.epoch, m, "received")>> \in Seq(Change)
    BY <1>0, <1>2, ChangeTypes
  <2> QED
    BY <1>0, <1>10, <2>1, SendChangesType, MakeType DEF Receive, SessionTypes
<1>11. ASSUME NEW m \in Msg, SendMessage(m)
       PROVE  SessionTypes
  <2>1. /\ AddChange(session.epoch, m, "pending") \in Change
        /\ FinishChange(session.epoch, m, "send_failed") \in Change
    BY <1>0, <1>2, ChangeTypes
  <2>2. /\ <<AddChange(session.epoch, m, "pending")>> \in Seq(Change)
        /\ <<AddChange(session.epoch, m, "pending"),
             FinishChange(session.epoch, m, "send_failed")>> \in Seq(Change)
    BY <2>1
  <2>3. session' \in SessionState
    BY <1>0, <1>11, SessionFields DEF SendMessage
  <2> QED
    BY <1>0, <1>11, <2>2, <2>3, SendChangesType, MakeType DEF SendMessage, SessionTypes
<1>12. ASSUME NEW m \in Msg, RejectMessage(m)
       PROVE  SessionTypes
  <2>1. <<AddChange(session.epoch, m, "rejected")>> \in Seq(Change)
    BY <1>0, <1>2, ChangeTypes
  <2> QED
    BY <1>0, <1>12, <2>1, SendChangesType, MakeType DEF RejectMessage, SessionTypes
<1>13. ASSUME NEW m \in Msg, NEW status \in {"sent", "send_failed"}, Result(m, status)
       PROVE  SessionTypes
  <2>1. <<FinishChange(session.epoch, m, status)>> \in Seq(Change)
    BY <1>0, <1>2, ChangeTypes
  <2>2. session' \in SessionState
    BY <1>0, <1>13, SessionFields DEF Result
  <2> QED
    BY <1>0, <1>13, <2>1, <2>2, SendChangesType DEF Result, SessionTypes
<1>14. ASSUME NEW next \in {"dropped", "quitting"}, EndSession(next)
       PROVE  SessionTypes
  <2>0. <<FailChange(session.epoch)>> \in Seq(Change)
    BY <1>0, ChangeTypes
  <2>1. out' \in OutputState /\ chan' \in Seq(Change)
    BY <1>14, <2>0, SendChangesType DEF EndSession
  <2>2. session' \in SessionState
    BY <1>0, <1>1, <1>14, SessionFields DEF EndSession
  <2> QED
    BY <1>0, <1>14, <2>1, <2>2 DEF EndSession, SessionTypes
<1>15. SessionTypes
  BY <1>3, <1>4, <1>5, <1>6, <1>7, <1>8, <1>9, <1>10, <1>11, <1>12, <1>13, <1>14
  DEF Session
<1>16. UNCHANGED <<worker, hist, disk, missed, faults, run>>
  BY DEF Session, Connect, MediaDone, ServerStops, Interrupted, Clear, Quit, Book, Receive,
         SendMessage, RejectMessage, Result, EndSession, SessionStep, workerVars
<1> QED
  BY <1>15, <1>16 DEF TypeOK, SessionTypes

-----------------------------------------------------------------------------
(* Types hold.                                                              *)

LEMMA WorkerType ==
    ASSUME TypeOK, Worker
    PROVE  TypeOK'
<1>1. worker.at = "batch" => worker.count \in 0 .. BatchMax
  BY DEF TypeOK, WorkerState
<1>2. BatchMax \in Nat
  BY ChatHistoryAssumption
<1>3. ASSUME NEW c, NEW count \in 0 .. BatchMax
      PROVE  AfterChange(c, count) \in WorkerState
  BY <1>2, <1>3 DEF AfterChange, WorkerState
<1>4. chan # << >> => Head(chan) \in Change /\ Tail(chan) \in Seq(Change)
  BY DEF TypeOK
<1>5. CASE TakeFirst
  BY <1>2, <1>3, <1>5, <1>4, ApplyType DEF TakeFirst, TypeOK
<1>6. CASE TakeMore
  BY <1>1, <1>2, <1>6, <1>3, <1>4, ApplyType DEF TakeMore, BatchGoesOn, TypeOK
<1>7. CASE EndBatch
  BY <1>2, <1>7, FlushType DEF EndBatch, AfterFlush, WorkerState, TypeOK
<1> QED
  BY <1>5, <1>6, <1>7 DEF Worker

LEMMA NewProcessType ==
    ASSUME TypeOK, NewProcess
    PROVE  TypeOK'
  BY ChatHistoryAssumption, EmptyHistoryType DEF NoSession, SessionState, Links, WorkerState,
     OutputState, NoSnapshot, NewProcess, TypeOK

LEMMA TypeStep ==
    ASSUME TypeOK, [Next]_vars
    PROVE  TypeOK'
<1>1. CASE Poll
  <2>1. NoSnapshot \in [ready : BOOLEAN, log : Seq(Message)]
    BY DEF NoSnapshot
  <2>2. out' \in OutputState
    BY <1>1, <2>1 DEF Poll, TypeOK, OutputState
  <2> QED
    BY <1>1, <2>2 DEF Poll, TypeOK, sessionVars, workerVars
<1>2. CASE UNCHANGED vars
  BY <1>2 DEF vars, TypeOK
<1> QED
  BY <1>1, <1>2, SessionType, WorkerType, NewProcessType DEF Next, Exit, Kill

LEMMA TypeInit == ASSUME Init PROVE TypeOK
<1>1. BatchMax \in Nat
  BY ChatHistoryAssumption
<1>2. NoSession \in SessionState
  BY DEF NoSession, SessionState, Links
<1>3. [at |-> "idle", count |-> 0] \in WorkerState
  BY <1>1 DEF WorkerState
<1>4. [epoch |-> 0, shown |-> NoSnapshot] \in OutputState
  BY DEF OutputState, NoSnapshot
<1>5. Unborn \in Origin
  BY DEF Unborn, Origin
<1> QED
  BY <1>2, <1>3, <1>4, <1>5, EmptyHistoryType DEF Init, TypeOK

\* Every variable keeps its type, and no batch takes more than BatchMax changes
\* after its first (chat.rs:54).
THEOREM ChatTypesHold == Spec => []TypeOK
<1>1. Init => TypeOK
  BY TypeInit
<1>2. TypeOK /\ [Next]_vars => TypeOK'
  BY TypeStep
<1> QED
  BY <1>1, <1>2, PTL DEF Spec

-----------------------------------------------------------------------------
(* What the history worker has accepted is saved whenever it is idle, for  *)
(* every value of the constants (IdleMeansSaved).                          *)

(* The inductive invariant. IdleMeansSaved speaks of the files and of an    *)
(* idle worker only; what it rests on is what the flags of the history mean *)
(* at every step, and that a log is never kept twice.                       *)

\* The selected server's log is not kept among the others too.
KeptOnce == hist.server \in Server => ~hist.unsaved[hist.server].held

\* A log that is not dirty is what its file holds.
CleanIsSaved ==
    hist.server \in Server /\ hist.writable /\ ~hist.dirty => hist.log = disk[hist.server]

\* Nothing is laid over a file that could not be read but by making the log dirty.
UnreadIsEmpty ==
    hist.server \in Server /\ ~hist.writable /\ ~hist.dirty => hist.log = << >>

\* A log that was kept could not be saved, until the last try of all.
KeptIsMissed ==
    \A s \in Server :
        hist.unsaved[s].held /\ hist.unsaved[s].writable =>
            s \in missed \/ hist.unsaved[s].log = disk[s]

\* An idle worker has tried to save all it has.
IdleHasTried ==
    worker.at \in {"idle", "gone"} /\ Writes(hist) => hist.server \in missed

SavedInv == KeptOnce /\ CleanIsSaved /\ UnreadIsEmpty /\ KeptIsMissed /\ IdleHasTried

LEMMA SavedInvImplies == ASSUME TypeOK, SavedInv PROVE IdleMeansSaved
  BY ChatHistoryAssumption DEF IdleMeansSaved, Unread, SavedInv, IdleHasTried, Writes,
     CleanIsSaved, LedgerOf, Over, KeptIsMissed

-----------------------------------------------------------------------------
(* Flushing and selecting.                                                  *)

\* What a write does to the files and to the record of failures.
LEMMA WriteSaves ==
    ASSUME TypeOK, SavedInv, NEW ok \in BOOLEAN,
           disk' = SavedDisk(hist, ok), missed' = SavedMissed(hist, ok)
    PROVE  /\ \A s \in Server : s # hist.server =>
                  disk'[s] = disk[s] /\ (s \in missed => s \in missed')
           /\ hist.server \in Server /\ hist.writable /\ Saved(hist, ok).dirty =>
                  hist.server \in missed'
           /\ hist.server \in Server /\ hist.writable /\ ~Saved(hist, ok).dirty =>
                  disk'[hist.server] = hist.log
  BY ChatHistoryAssumption DEF TypeOK, Saved, HistoryState, SavedDisk, SavedMissed, Writes,
     SavedInv, CleanIsSaved

LEMMA FlushSaves ==
    ASSUME TypeOK, SavedInv, Flush
    PROVE  SavedInv'
<1>1. PICK ok \in Outcomes(Writes(hist)) :
          /\ disk' = SavedDisk(hist, ok)
          /\ missed' = SavedMissed(hist, ok)
          /\ hist' = Saved(hist, ok)
  BY DEF Flush
<1>2. ok \in BOOLEAN /\ hist \in HistoryState
  BY OutcomesType DEF TypeOK
<1>3. /\ hist'.server = hist.server /\ hist'.unsaved = hist.unsaved
      /\ hist'.log = hist.log /\ hist'.writable = hist.writable
  BY <1>1, <1>2 DEF Saved, HistoryState
<1>4. KeptOnce'
  BY <1>3 DEF SavedInv, KeptOnce
<1>5. CleanIsSaved' /\ UnreadIsEmpty'
  BY <1>1, <1>2, <1>3, WriteSaves DEF Saved, HistoryState, SavedInv, UnreadIsEmpty, Writes,
     CleanIsSaved
<1>6. KeptIsMissed'
  BY <1>1, <1>2, <1>3, WriteSaves DEF SavedInv, KeptIsMissed, KeptOnce
<1>7. IdleHasTried'
  BY <1>2, <1>1, <1>3, WriteSaves DEF Writes, HistoryState, IdleHasTried
<1> QED
  BY <1>4, <1>5, <1>6, <1>7 DEF SavedInv

LEMMA SelectSaves ==
    ASSUME TypeOK, SavedInv, NEW c \in Change, c.kind = "select", ApplySelect(c),
           worker'.at \notin {"idle", "gone"}
    PROVE  SavedInv'
<1>1. PICK ok \in Outcomes(Writes(hist)) :
          \E readable \in Outcomes(Reads(Retained(Saved(hist, ok)), c.server)) :
              /\ disk' = SavedDisk(hist, ok)
              /\ missed' = SavedMissed(hist, ok)
              /\ hist' = Selected(Retained(Saved(hist, ok)), c.epoch, c.server, disk', readable)
  BY DEF ApplySelect
<1>2. PICK readable :
              /\ disk' = SavedDisk(hist, ok)
              /\ missed' = SavedMissed(hist, ok)
              /\ hist' = Selected(Retained(Saved(hist, ok)), c.epoch, c.server, disk', readable)
  BY <1>1
<1>3. ok \in BOOLEAN /\ hist \in HistoryState
  BY OutcomesType DEF TypeOK
<1> DEFINE kept == Retained(Saved(hist, ok))
<1>4. kept \in [Server -> Kept]
  BY <1>3, SavedType, RetainedType
<1>5. \A s \in Server : kept[s].held /\ kept[s].writable =>
          s \in missed' \/ kept[s].log = disk'[s]
  BY <1>3, ChatHistoryAssumption, <1>2, WriteSaves DEF Saved, HistoryState, Retained,
     SavedInv, KeptOnce, KeptIsMissed
<1>6. disk' \in [Server -> Seq(Message)]
  BY <1>2, SavedDiskType
<1>7. c.server \in Server \cup {NoServer}
  BY DEF Change, StopChange
<1>8. hist' = Selected(kept, c.epoch, c.server, disk', readable)
  BY <1>2
<1> HIDE DEF kept
<1>9. IdleHasTried'
  BY DEF IdleHasTried
<1>10. CASE c.server = NoServer
  BY <1>8, <1>10, <1>5, <1>9, ChatHistoryAssumption DEF Selected, Reset, Begun, SavedInv,
     KeptOnce, CleanIsSaved, UnreadIsEmpty, KeptIsMissed
<1>11. CASE c.server # NoServer /\ kept[c.server].held
  BY <1>8, <1>11, <1>4, <1>5, <1>7, <1>9 DEF Selected, Restored, Begun, SavedInv, KeptOnce,
     CleanIsSaved, UnreadIsEmpty, KeptIsMissed, NotRetained
<1>12. CASE c.server # NoServer /\ ~kept[c.server].held /\ readable
  BY <1>8, <1>12, <1>6, <1>7, FailPendingClean, <1>5, <1>9 DEF Selected, Loaded, Begun,
     CleanIsSaved, SavedInv, KeptOnce, UnreadIsEmpty, KeptIsMissed
<1>13. CASE c.server # NoServer /\ ~kept[c.server].held /\ ~readable
  BY <1>8, <1>13, <1>5, <1>9 DEF Selected, NotLoaded, Begun, SavedInv, KeptOnce, CleanIsSaved,
     UnreadIsEmpty, KeptIsMissed
<1> QED
  BY <1>10, <1>11, <1>12, <1>13

-----------------------------------------------------------------------------
(* The other changes, and the theorem.                                      *)

LEMMA LogSaves ==
    ASSUME TypeOK, SavedInv, NEW c \in Change, ApplyLog(c),
           worker'.at \notin {"idle", "gone"}
    PROVE  SavedInv'
  BY DEF TypeOK, ApplyLog, HistoryState, SavedInv, CleanIsSaved, UnreadIsEmpty, KeptOnce,
     KeptIsMissed, IdleHasTried

LEMMA StopSaves ==
    ASSUME TypeOK, SavedInv, ApplyStop, worker'.at \notin {"idle", "gone"}
    PROVE  SavedInv'
  BY DEF ApplyStop, SavedInv, KeptOnce, Owed, CleanIsSaved, KeptIsMissed, UnreadIsEmpty,
     IdleHasTried

LEMMA SavedStep ==
    ASSUME TypeOK, SavedInv, [Next]_vars
    PROVE  SavedInv'
<1>1. CASE TakeFirst \/ TakeMore
  BY <1>1, SelectSaves, StopSaves, LogSaves DEF TypeOK, TakeFirst, TakeMore, AfterChange,
     Apply
<1>2. CASE EndBatch
  BY <1>2, FlushSaves DEF EndBatch
<1>3. CASE Session \/ Poll \/ UNCHANGED vars
  <2>1. UNCHANGED <<worker, hist, disk, missed>>
    BY <1>3
    DEF Session, Connect, MediaDone, ServerStops, Interrupted, Clear, Quit, Book, Receive,
        SendMessage, RejectMessage, Result, EndSession, SessionStep, Poll, workerVars, vars
  <2> QED
    BY <2>1
    DEF SavedInv, KeptOnce, CleanIsSaved, UnreadIsEmpty, KeptIsMissed, IdleHasTried, Writes
<1>4. CASE NewProcess
  <2>1. /\ hist'.server = NoServer
        /\ \A s \in Server : hist'.unsaved[s] = NotRetained
    BY <1>4 DEF NewProcess, EmptyHistory, Reset, Begun
  <2> QED
    BY <2>1, ChatHistoryAssumption
    DEF SavedInv, KeptOnce, CleanIsSaved, UnreadIsEmpty, KeptIsMissed, IdleHasTried, Writes,
      NotRetained
<1> QED
  BY <1>1, <1>2, <1>3, <1>4 DEF Next, Worker, Exit, Kill

LEMMA SavedInit == ASSUME Init PROVE SavedInv
<1>1. /\ hist.server = NoServer
      /\ \A s \in Server : hist.unsaved[s] = NotRetained
  BY DEF Init, EmptyHistory, Reset, Begun
<1> QED
  BY <1>1, ChatHistoryAssumption
  DEF SavedInv, KeptOnce, CleanIsSaved, UnreadIsEmpty, KeptIsMissed, IdleHasTried, Writes,
      NotRetained

\* Whenever the worker waits or is gone, what it accepted is in the files but for
\* servers whose last write failed or whose file could not be read.
THEOREM IdleMeansSavedHolds == Spec => []IdleMeansSaved
<1>1. Init => TypeOK /\ SavedInv
  BY TypeInit, SavedInit
<1>2. TypeOK /\ SavedInv /\ [Next]_vars => TypeOK' /\ SavedInv'
  BY TypeStep, SavedStep
<1>3. TypeOK /\ SavedInv => IdleMeansSaved
  BY SavedInvImplies
<1> QED
  BY <1>1, <1>2, <1>3, PTL DEF Spec

-----------------------------------------------------------------------------
(* The chat history implements ChatLedger, for every value of the          *)
(* constants (LedgerKept).                                                 *)

(* Logs that continue logs.                                                 *)

LEMMA LogIsFunction ==
    ASSUME NEW log \in Seq(Message)
    PROVE  Len(log) \in Nat /\ DOMAIN log = 1 .. Len(log)
           /\ \A i \in 1 .. Len(log) : log[i] \in Message
OBVIOUS

LEMMA ContinuesItself ==
    ASSUME NEW log \in Seq(Message)
    PROVE  Ledger!Continues(log, log)
BY LogIsFunction DEF Ledger!Continues

LEMMA FailPendingContinues ==
    ASSUME NEW log \in Seq(Message), NEW reason \in Statuses
    PROVE  Ledger!Continues(log, FailPending(log, reason))
  BY FailPendingType, LogIsFunction DEF FailPending, Message, Ledger!Continues

LEMMA FinishedContinues ==
    ASSUME NEW log \in Seq(Message), NEW message \in Message
    PROVE  Ledger!Continues(log, Finished(log, message))
  BY FinishedType, LogIsFunction DEF Finished, Ledger!Continues

LEMMA AddedContinues ==
    ASSUME NEW log \in Seq(Message), NEW message \in Message
    PROVE  Ledger!Continues(log, Added(log, message))
  BY ContinuesItself, LogIsFunction DEF Added, Ledger!Continues

LEMMA NextLogContinues ==
    ASSUME hist \in HistoryState, NEW c \in Change
    PROVE  Ledger!Continues(hist.log, NextLog(c))
  BY FailPendingContinues, FinishedContinues, AddedContinues, ContinuesItself DEF
     HistoryState, Statuses, Change, StopChange, NextLog

\* What continues a log continues it behind a file that could not be read, too.
LEMMA OverContinues ==
    ASSUME NEW file \in Seq(Message), NEW log \in Seq(Message), NEW new \in Seq(Message),
           Ledger!Continues(log, new)
    PROVE  Ledger!Continues(file \o log, file \o new)
  BY LogIsFunction DEF Ledger!Continues

-----------------------------------------------------------------------------
(* One server's part of a step.                                             *)

\* What Carry asks of a server.
Carries(s) ==
    /\ Ledger!Continues(LedgerOf(s), LedgerOf(s)')
    /\ disk'[s] \in {disk[s], LedgerOf(s), LedgerOf(s)'}

LEMMA LedgerType ==
    ASSUME TypeOK, NEW s \in Server
    PROVE  LedgerOf(s) \in Seq(Message)
  BY DEF TypeOK, HistoryState, Kept, LedgerOf, Over

\* A log that stays where it is, or moves between memory and file, carries.
LEMMA SameCarries ==
    ASSUME TypeOK, NEW s \in Server, LedgerOf(s)' = LedgerOf(s),
           disk'[s] = disk[s] \/ disk'[s] = LedgerOf(s)
    PROVE  Carries(s)
BY LedgerType, ContinuesItself DEF Carries

LEMMA LogCarries ==
    ASSUME TypeOK, NEW c \in Change, ApplyLog(c), NEW s \in Server
    PROVE  Carries(s)
  BY NextLogType, NextLogContinues, ContinuesItself, OverContinues, SameCarries DEF TypeOK,
     ApplyLog, HistoryState, LedgerOf, Over, Carries

LEMMA StopCarries ==
    ASSUME TypeOK, SavedInv, ApplyStop, NEW s \in Server
    PROVE  Carries(s)
  BY SameCarries DEF ApplyStop, SavedInv, KeptOnce, Owed, LedgerOf, Over

LEMMA FlushCarries ==
    ASSUME TypeOK, SavedInv, Flush, NEW s \in Server
    PROVE  Carries(s)
  BY OutcomesType, SameCarries, WriteSaves DEF Flush, TypeOK, Saved, HistoryState, SavedDisk,
     Writes, LedgerOf, Over

\* What a Select has of a server between its two halves: the old server's log is
\* saved or kept, the new server's log is still where it was.
LEMMA KeptCarries ==
    ASSUME TypeOK, SavedInv, NEW ok \in BOOLEAN, NEW s \in Server,
           disk' = SavedDisk(hist, ok), missed' = SavedMissed(hist, ok)
    PROVE  LET kept == Retained(Saved(hist, ok)) IN
           /\ disk'[s] = disk[s] \/ disk'[s] = LedgerOf(s)
           /\ LedgerOf(s) = IF kept[s].held THEN Over(disk'[s], kept[s]) ELSE disk'[s]
<1> DEFINE kept == Retained(Saved(hist, ok))
<1>1. /\ hist \in HistoryState /\ hist.unsaved \in [Server -> Kept]
      /\ hist.log \in Seq(Message) /\ disk[s] \in Seq(Message)
  BY DEF TypeOK, HistoryState
<1>2. /\ Saved(hist, ok).server = hist.server /\ Saved(hist, ok).log = hist.log
      /\ Saved(hist, ok).writable = hist.writable /\ Saved(hist, ok).unsaved = hist.unsaved
      /\ Saved(hist, ok).dirty = (hist.dirty /\ ~(Writes(hist) /\ ok))
  BY <1>1 DEF Saved, HistoryState
<1>3. CASE s # hist.server
  BY <1>3, WriteSaves, <1>1, <1>2 DEF Retained, LedgerOf
<1>4. CASE s = hist.server
  BY <1>4, <1>1, <1>2, ChatHistoryAssumption, WriteSaves, ConcatEmptySeq DEF LedgerOf, Over,
     SavedDisk, Writes, TypeOK, Retained, SavedInv, KeptOnce, UnreadIsEmpty
<1> QED
  BY <1>3, <1>4

LEMMA SelectCarries ==
    ASSUME TypeOK, SavedInv, NEW c \in Change, c.kind = "select", ApplySelect(c),
           NEW s \in Server
    PROVE  Carries(s)
<1>1. PICK ok \in Outcomes(Writes(hist)) :
          \E readable \in Outcomes(Reads(Retained(Saved(hist, ok)), c.server)) :
              /\ disk' = SavedDisk(hist, ok)
              /\ missed' = SavedMissed(hist, ok)
              /\ hist' = Selected(Retained(Saved(hist, ok)), c.epoch, c.server, disk', readable)
  BY DEF ApplySelect
<1>2. PICK readable :
              /\ disk' = SavedDisk(hist, ok)
              /\ missed' = SavedMissed(hist, ok)
              /\ hist' = Selected(Retained(Saved(hist, ok)), c.epoch, c.server, disk', readable)
  BY <1>1
<1>3. ok \in BOOLEAN /\ hist \in HistoryState
  BY OutcomesType DEF TypeOK
<1> DEFINE kept == Retained(Saved(hist, ok))
<1>4. kept \in [Server -> Kept]
  BY <1>3, SavedType, RetainedType
<1>5. /\ disk'[s] = disk[s] \/ disk'[s] = LedgerOf(s)
      /\ LedgerOf(s) = IF kept[s].held THEN Over(disk'[s], kept[s]) ELSE disk'[s]
  BY <1>2, <1>3, KeptCarries
<1>6. hist' = Selected(kept, c.epoch, c.server, disk', readable)
  BY <1>2
<1>7. disk'[s] \in Seq(Message)
  BY <1>2, SavedDiskType
<1> HIDE DEF kept
<1>8. CASE c.server # s
  BY <1>4, <1>6, <1>8, <1>5, SameCarries DEF Selected, Reset, Restored, Loaded, NotLoaded,
     Begun, LedgerOf
<1>9. CASE c.server = s
  <2>0. s # NoServer
    BY ChatHistoryAssumption
  <2>1. CASE kept[s].held
    BY <1>6, <1>9, <2>0, <2>1, <1>5, SameCarries DEF Selected, Restored, Begun, LedgerOf,
       Over
  <2>2. CASE ~kept[s].held /\ readable
    BY <1>6, <1>9, <2>0, <2>2, <1>5, LedgerType, FailPendingContinues DEF Selected, Loaded,
       Begun, LedgerOf, Over, Statuses, Carries
  <2>3. CASE ~kept[s].held /\ ~readable
    BY <1>6, <1>9, <2>0, <2>3, <1>7, ConcatEmptySeq, <1>5, SameCarries DEF Selected,
       NotLoaded, Begun, LedgerOf, Over
  <2> QED
    BY <2>1, <2>2, <2>3
<1> QED
  BY <1>8, <1>9

-----------------------------------------------------------------------------
(* The theorem.                                                             *)

LEMMA LedgerStep ==
    ASSUME TypeOK, SavedInv, [Next]_vars
    PROVE  [Ledger!Next]_(Ledger!lvars)
<1>1. ASSUME \A s \in Server : Carries(s), run' = run
      PROVE  Ledger!Next
  BY <1>1 DEF Carries, Ledger!Next, Ledger!Carry
<1>2. CASE TakeFirst \/ TakeMore
  BY <1>2, SelectCarries, StopCarries, LogCarries, <1>1 DEF TypeOK, TakeFirst, TakeMore, Apply
<1>3. CASE EndBatch
  BY <1>1, <1>3, FlushCarries DEF EndBatch
<1>4. CASE Session \/ Poll \/ UNCHANGED vars
  <2>1. UNCHANGED <<hist, disk, run>>
    BY <1>4
    DEF Session, Connect, MediaDone, ServerStops, Interrupted, Clear, Quit, Book, Receive,
        SendMessage, RejectMessage, Result, EndSession, SessionStep, Poll, workerVars, vars
  <2> QED
    BY <2>1 DEF Ledger!lvars, LedgerOf, Over
<1>5. CASE NewProcess
  BY <1>5, ChatHistoryAssumption DEF NewProcess, EmptyHistory, Reset, Begun, LedgerOf,
     NotRetained, TypeOK, Ledger!Lapse, Ledger!Next
<1> QED
  BY <1>2, <1>3, <1>4, <1>5 DEF Next, Worker, Exit, Kill

LEMMA LedgerInit == ASSUME Init PROVE Ledger!Init
  BY ChatHistoryAssumption DEF Init, EmptyHistory, Reset, Begun, LedgerOf, NotRetained,
     Ledger!Init

\* The history implements its ledger: no accepted message is lost but by the end of
\* the process before it was saved, and no answer is taken back.
THEOREM LedgerKeptHolds == Spec => LedgerKept
<1>1. Init => TypeOK /\ SavedInv /\ Ledger!Init
  BY TypeInit, SavedInit, LedgerInit
<1>2. TypeOK /\ SavedInv /\ [Next]_vars => TypeOK' /\ SavedInv'
  BY TypeStep, SavedStep
<1>3. TypeOK /\ SavedInv /\ [Next]_vars => [Ledger!Next]_(Ledger!lvars)
  BY LedgerStep
<1> QED
  BY <1>1, <1>2, <1>3, PTL DEF Spec, LedgerKept, Ledger!Spec

-----------------------------------------------------------------------------
(* Every message stays with the server it was made for, for every value of *)
(* the constants (RightServer).                                            *)
(*                                                                         *)
(* A message passes through the channel with nothing but an epoch. What    *)
(* makes the epoch as good as the server is that no two selections share   *)
(* one: whoever knows a server for an epoch (the history, the session, a   *)
(* selection under way) knows the same one, and each message under way is  *)
(* of the server that anybody knows for its epoch.                         *)

Items(q) == {q[i] : i \in DOMAIN q}

\* A message that was made for a server, and a log of such messages.
MadeFor(m, server) == born[m].run > 0 /\ born[m].server = server
AllFor(log, server) == \A m \in IdsOf(log) : MadeFor(m, server)

Servers == Server \cup {NoServer}

Knows(epoch, server) ==
    \/ hist.epoch = epoch /\ hist.server = server
    \/ Live /\ session.epoch = epoch /\ session.server = server
    \/ \E c \in Items(chan) : c.kind = "select" /\ c.epoch = epoch /\ c.server = server

EpochsAreOfServers ==
    /\ Live => session.epoch = out.epoch
    /\ \A epoch \in Nat, server \in Servers : Knows(epoch, server) => epoch <= out.epoch
    /\ \A epoch \in Nat, server, other \in Servers :
          Knows(epoch, server) /\ Knows(epoch, other) => server = other

MessagesFollow ==
    \A c \in Items(chan) : c.kind = "add" =>
        /\ c.epoch <= out.epoch /\ born[c.message.id].run > 0
        /\ \A server \in Servers : Knows(c.epoch, server) => MadeFor(c.message.id, server)

LogsAreRight ==
    /\ AllFor(hist.log, hist.server)
    /\ \A s \in Server : AllFor(disk[s], s)
    /\ \A s \in Server : hist.unsaved[s].held => AllFor(hist.unsaved[s].log, s)

ShownIsRight == Live => AllFor(out.shown.log, session.server)

ServerInv ==
    run > 0 /\ EpochsAreOfServers /\ MessagesFollow /\ LogsAreRight /\ ShownIsRight

-----------------------------------------------------------------------------
(* Logs and queues.                                                         *)

LEMMA ItemsOfConcat ==
    ASSUME NEW T, NEW q \in Seq(T), NEW r \in Seq(T)
    PROVE  Items(q \o r) = Items(q) \cup Items(r)
<1>1. /\ Len(q) \in Nat /\ Len(r) \in Nat /\ DOMAIN q = 1 .. Len(q) /\ DOMAIN r = 1 .. Len(r)
      /\ DOMAIN (q \o r) = 1 .. (Len(q) + Len(r))
      /\ \A i \in 1 .. (Len(q) + Len(r)) :
            (q \o r)[i] = IF i <= Len(q) THEN q[i] ELSE r[i - Len(q)]
  OBVIOUS
<1>2. \A i \in DOMAIN q : i \in DOMAIN (q \o r) /\ (q \o r)[i] = q[i]
  BY <1>1
<1>3. \A i \in DOMAIN r : Len(q) + i \in DOMAIN (q \o r) /\ (q \o r)[Len(q) + i] = r[i]
  BY <1>1
<1>4. \A i \in DOMAIN (q \o r) :
         \/ i \in DOMAIN q /\ (q \o r)[i] = q[i]
         \/ i - Len(q) \in DOMAIN r /\ (q \o r)[i] = r[i - Len(q)]
  BY <1>1
<1> DEFINE qr == q \o r
<1> HIDE DEF qr
<1>5. Items(qr) \subseteq Items(q) \cup Items(r)
  BY <1>4 DEF Items, qr
<1>6. Items(q) \subseteq Items(qr)
  BY <1>2 DEF Items, qr
<1>7. Items(r) \subseteq Items(qr)
  BY <1>3 DEF Items, qr
<1> QED
  BY <1>5, <1>6, <1>7 DEF qr

LEMMA ItemsOfTail ==
    ASSUME NEW T, NEW q \in Seq(T), q # << >>
    PROVE  Items(Tail(q)) \subseteq Items(q) /\ Head(q) \in Items(q)
  BY DEF Items

LEMMA ItemsOfFew ==
    /\ Items(<< >>) = {} /\ IdsOf(<< >>) = {}
    /\ \A x : Items(<<x>>) = {x}
    /\ \A x, y : Items(<<x, y>>) = {x, y}
BY DEF Items, IdsOf

\* What replaces messages in place keeps whose they are.
LEMMA IdsKept ==
    ASSUME NEW log \in Seq(Message)
    PROVE  /\ \A reason \in Statuses : IdsOf(FailPending(log, reason)) = IdsOf(log)
           /\ \A message \in Message : IdsOf(Finished(log, message)) = IdsOf(log)
  BY DEF FailPending, Message, IdsOf, Finished

LEMMA IdsAdded ==
    ASSUME NEW log \in Seq(Message), NEW message \in Message
    PROVE  IdsOf(Added(log, message)) \subseteq IdsOf(log) \cup {message.id}
  BY DEF Added, IdsOf

\* What the ledger of a server holds is in its file or kept for it.
LEMMA LedgersAreRight ==
    ASSUME TypeOK, LogsAreRight, NEW s \in Server
    PROVE  AllFor(LedgerOf(s), s)
<1>1. \A q, r \in Seq(Message) : IdsOf(q \o r) = IdsOf(q) \cup IdsOf(r)
  <2> SUFFICES ASSUME NEW q \in Seq(Message), NEW r \in Seq(Message)
               PROVE  IdsOf(q \o r) = IdsOf(q) \cup IdsOf(r)
    OBVIOUS
  <2>1. Items(q \o r) = Items(q) \cup Items(r)
    BY ItemsOfConcat
  <2>2. \A log : IdsOf(log) = {x.id : x \in Items(log)}
    BY DEF IdsOf, Items
  <2> QED
    BY <2>1, <2>2
<1>2. /\ disk[s] \in Seq(Message) /\ hist.log \in Seq(Message)
      /\ hist.unsaved[s] \in Kept
  BY DEF TypeOK, HistoryState
<1>3. hist.unsaved[s].log \in Seq(Message)
  BY <1>2 DEF Kept
<1> QED
  BY <1>1, <1>2, <1>3 DEF LedgerOf, Over, LogsAreRight, AllFor

-----------------------------------------------------------------------------
(* The worker.                                                              *)

\* A step of the worker makes no message and tells the session nothing.
WorkerOnly == UNCHANGED <<session, born, run>> /\ out'.epoch = out.epoch

\* It knows afterwards no more than before.
Forgets ==
    \A epoch, server : Knows(epoch, server)' => Knows(epoch, server)

LEMMA WorkerKeepsRest ==
    ASSUME ServerInv, WorkerOnly, Forgets, Items(chan') \subseteq Items(chan),
           LogsAreRight', ShownIsRight'
    PROVE  ServerInv'
  BY DEF ServerInv, EpochsAreOfServers, WorkerOnly, Forgets, Live, MessagesFollow, MadeFor

\* What is shown is what the server's history has.
LEMMA ShownByWorker ==
    ASSUME TypeOK, ServerInv, WorkerOnly, out' = ShowsAs(hist, out)
    PROVE  ShownIsRight'
<1> SUFFICES ASSUME Live PROVE AllFor(out.shown.log, session.server)'
  BY DEF ShownIsRight, WorkerOnly, Live
<1>1. out \in OutputState /\ session.server \in Servers /\ hist.server \in Servers
      /\ hist.epoch \in Nat
  BY DEF TypeOK, SessionState, HistoryState, Servers
<1>2. CASE hist.publish /\ out.epoch = hist.epoch
  <2>1. out'.shown.log = hist.log
    BY <1>1, <1>2 DEF ShowsAs, OutputState, Snapshot
  <2>2. hist.server = session.server
    BY <1>2, <1>1 DEF Knows, ServerInv, EpochsAreOfServers
  <2> QED
    BY <2>1, <2>2 DEF ServerInv, LogsAreRight, AllFor, MadeFor, WorkerOnly
<1>3. CASE ~(hist.publish /\ out.epoch = hist.epoch)
  BY <1>3 DEF ShowsAs, ServerInv, ShownIsRight, AllFor, MadeFor, WorkerOnly
<1> QED
  BY <1>2, <1>3

\* A write puts the history of a server into its own file.
LEMMA WriteIsRight ==
    ASSUME TypeOK, LogsAreRight, NEW ok
    PROVE  \A s \in Server : AllFor(SavedDisk(hist, ok)[s], s)
  BY DEF TypeOK, SavedDisk, LogsAreRight

LEMMA FlushIsRight ==
    ASSUME TypeOK, ServerInv, Flush, UNCHANGED <<session, chan, born, run>>
    PROVE  ServerInv'
<1>1. PICK ok \in Outcomes(Writes(hist)) :
          /\ disk' = SavedDisk(hist, ok) /\ hist' = Saved(hist, ok) /\ out' = ShowsAs(hist, out)
  BY DEF Flush
<1>2. /\ hist'.server = hist.server /\ hist'.unsaved = hist.unsaved
      /\ hist'.log = hist.log /\ hist'.epoch = hist.epoch
  BY <1>1 DEF Saved, HistoryState, TypeOK
<1>3. WorkerOnly
  BY <1>1 DEF WorkerOnly, ShowsAs, TypeOK, OutputState
<1>4. Forgets
  BY <1>2 DEF Forgets, Knows, Live
<1>5. LogsAreRight'
  BY <1>1, <1>2, WriteIsRight DEF ServerInv, LogsAreRight, AllFor, MadeFor
<1> QED
  BY <1>1, <1>3, <1>4, <1>5, ShownByWorker, WorkerKeepsRest

\* The history goes over to another server, with a log of that server's.
LEMMA SelectIsRight ==
    ASSUME TypeOK, ServerInv, NEW c \in Change, c.kind = "select", c \in Items(chan),
           ApplySelect(c), Items(chan') \subseteq Items(chan), UNCHANGED <<session, born, run>>
    PROVE  ServerInv'
<1>1. PICK ok \in Outcomes(Writes(hist)) :
          /\ \E readable \in Outcomes(Reads(Retained(Saved(hist, ok)), c.server)) :
              hist' = Selected(Retained(Saved(hist, ok)), c.epoch, c.server, disk', readable)
          /\ disk' = SavedDisk(hist, ok) /\ out' = ShowsAs(hist, out)
  BY DEF ApplySelect
<1> DEFINE kept == Retained(Saved(hist, ok))
<1>2. PICK readable : hist' = Selected(kept, c.epoch, c.server, disk', readable)
  BY <1>1
<1>3. WorkerOnly
  BY <1>1 DEF WorkerOnly, ShowsAs, TypeOK, OutputState
<1>4. /\ Saved(hist, ok).server = hist.server /\ Saved(hist, ok).unsaved = hist.unsaved
      /\ Saved(hist, ok).log = hist.log
  BY DEF Saved, HistoryState, TypeOK
<1>5. kept \in [Server -> Kept] /\ c.server \in Servers
  BY OutcomesType, SavedType, RetainedType DEF TypeOK, Change, StopChange, Servers
<1>6. \A s \in Server : kept[s].held => AllFor(kept[s].log, s)
  BY <1>4 DEF TypeOK, HistoryState, Retained, ServerInv, LogsAreRight
<1>7. /\ disk' \in [Server -> Seq(Message)]
      /\ \A s \in Server : AllFor(disk'[s], s)
  BY <1>1, SavedDiskType, WriteIsRight DEF ServerInv
<1> HIDE DEF kept
<1>8. /\ hist'.epoch = c.epoch /\ hist'.server = c.server
      /\ \A s \in Server : hist'.unsaved[s] \in {kept[s], NotRetained}
      /\ \/ hist'.log = << >>
         \/ c.server \in Server /\ kept[c.server].held /\ hist'.log = kept[c.server].log
         \/ /\ c.server \in Server
            /\ hist'.log = FailPending(disk'[c.server], "after_restart")
  BY <1>2, <1>5 DEF Selected, Reset, Restored, Loaded, NotLoaded, Begun, Servers
<1>9. AllFor(hist'.log, c.server)
  BY <1>7, IdsKept, <1>6, <1>8, ItemsOfFew DEF Statuses, AllFor
<1>10. LogsAreRight'
  BY <1>3, <1>6, <1>7, <1>8, <1>9 DEF LogsAreRight, AllFor, MadeFor, WorkerOnly, NotRetained
<1>11. Forgets
  BY <1>3, <1>8 DEF Forgets, Knows, Live, WorkerOnly
<1> QED
  BY <1>1, <1>3, <1>10, <1>11, ShownByWorker, WorkerKeepsRest

\* A message goes into the log of the epoch that it was sent under.
LEMMA LogIsRight ==
    ASSUME TypeOK, ServerInv, NEW c \in Change, c \in Items(chan), ApplyLog(c),
           Items(chan') \subseteq Items(chan), UNCHANGED <<session, born, run>>
    PROVE  ServerInv'
<1> DEFINE log == IF Current(c) THEN NextLog(c) ELSE hist.log
<1>1. /\ hist'.server = hist.server /\ hist'.unsaved = hist.unsaved
      /\ hist'.epoch = hist.epoch /\ hist'.log = log
      /\ UNCHANGED <<disk, out>>
  BY DEF ApplyLog, HistoryState, TypeOK
<1>2. hist.log \in Seq(Message) /\ hist.server \in Servers
  BY DEF TypeOK, HistoryState, Servers
<1>3. c.kind \in {"add", "finish"} => c.message \in Message
  BY DEF Change, StopChange
<1>4. \A m \in IdsOf(log) :
         m \in IdsOf(hist.log) \/ (c.kind = "add" /\ Current(c) /\ m = c.message.id)
  BY <1>2, <1>3, IdsAdded, IdsKept DEF NextLog, Statuses
<1>5. c.kind = "add" /\ Current(c) => MadeFor(c.message.id, hist.server)
  BY <1>2 DEF Current, Knows, ServerInv, MessagesFollow
<1> HIDE DEF log
<1>6. LogsAreRight'
  BY <1>1, <1>4, <1>5 DEF ServerInv, LogsAreRight, AllFor, MadeFor
<1>7. WorkerOnly /\ ShownIsRight'
  BY <1>1 DEF WorkerOnly, ServerInv, ShownIsRight, AllFor, MadeFor, Live
<1>8. Forgets
  BY <1>1, <1>7 DEF Forgets, Knows, Live, WorkerOnly
<1> QED
  BY <1>6, <1>7, <1>8, WorkerKeepsRest

LEMMA StopIsRight ==
    ASSUME TypeOK, ServerInv, ApplyStop,
           Items(chan') \subseteq Items(chan), UNCHANGED <<session, born, run>>
    PROVE  ServerInv'
<1>1. PICK failed :
          disk' = [s \in Server |->
                       IF s \in Owed \ failed THEN hist.unsaved[s].log ELSE disk[s]]
  BY DEF ApplyStop
<1>2. UNCHANGED <<hist, out>>
  BY DEF ApplyStop
<1>3. LogsAreRight'
  BY <1>1, <1>2 DEF ServerInv, LogsAreRight, AllFor, MadeFor, Owed
<1>4. WorkerOnly /\ ShownIsRight'
  BY <1>2 DEF WorkerOnly, ServerInv, ShownIsRight, AllFor, MadeFor, Live
<1>5. Forgets
  BY <1>2 DEF Forgets, Knows, Live
<1> QED
  BY <1>3, <1>4, <1>5, WorkerKeepsRest

LEMMA WorkerIsRight ==
    ASSUME TypeOK, ServerInv, Worker
    PROVE  ServerInv'
<1>1. CASE TakeFirst \/ TakeMore
  <2>0. /\ chan # << >> /\ chan' = Tail(chan) /\ Apply(Head(chan))
        /\ UNCHANGED <<session, born, run>>
    BY <1>1 DEF TakeFirst, TakeMore
  <2>1. /\ Head(chan) \in Change /\ Head(chan) \in Items(chan)
        /\ Items(chan') \subseteq Items(chan)
    BY <2>0, ItemsOfTail DEF TypeOK
  <2>2. CASE Head(chan).kind = "select"
    BY <2>0, <2>1, <2>2, SelectIsRight DEF Apply
  <2>3. CASE Head(chan).kind = "stop"
    BY <2>0, <2>1, <2>3, StopIsRight DEF Apply
  <2>4. CASE Head(chan).kind \notin {"select", "stop"}
    BY <2>0, <2>1, <2>4, LogIsRight DEF Apply
  <2> QED
    BY <2>2, <2>3, <2>4
<1>2. CASE EndBatch
  BY <1>2, FlushIsRight DEF EndBatch
<1> QED
  BY <1>1, <1>2 DEF Worker

-----------------------------------------------------------------------------
(* The session.                                                             *)

\* A selection takes an epoch that nobody knows yet.
LEMMA NewEpoch ==
    ASSUME TypeOK, ServerInv, NEW server \in Servers, Select(server, << >>),
           UNCHANGED <<born, workerVars, run>>,
           Live' => session'.epoch = out.epoch + 1 /\ session'.server = server
    PROVE  ServerInv'
<1> DEFINE e == out.epoch + 1
<1>1. out \in OutputState /\ out.epoch \in Nat /\ chan \in Seq(Change)
  BY DEF TypeOK, OutputState
<1>2. Items(chan') = Items(chan) \cup {SelectChange(e, server)}
  <2>1. SelectChange(e, server) \in Change
    BY <1>1, ChangeTypes DEF Servers
  <2>2. <<SelectChange(e, server)>> \in Seq(Change)
    BY <2>1
  <2>3. chan' = chan \o <<SelectChange(e, server)>>
    BY DEF Select
  <2> DEFINE new == <<SelectChange(e, server)>>
  <2>4. Items(new) = {SelectChange(e, server)}
    BY ItemsOfFew
  <2> HIDE DEF new
  <2>5. Items(chan \o new) = Items(chan) \cup Items(new)
    BY <1>1, <2>2, ItemsOfConcat DEF new
  <2> QED
    BY <2>3, <2>4, <2>5 DEF new
<1>3. out'.epoch = e /\ out'.shown.log = << >> /\ e \in Nat /\ out.epoch < e
  BY <1>1 DEF Select, Snapshot
<1>4. UNCHANGED <<hist, disk, run, born>>
  BY DEF workerVars
<1>5. ASSUME NEW epoch \in Nat, NEW s \in Servers, Knows(epoch, s)'
      PROVE  (Knows(epoch, s) /\ epoch < e) \/ (epoch = e /\ s = server)
  BY <1>2, <1>4, <1>5, <1>1, <1>3 DEF Knows, SelectChange, ServerInv, EpochsAreOfServers
<1> HIDE DEF e
<1>6. EpochsAreOfServers'
  BY <1>3, <1>5 DEF e, ServerInv, EpochsAreOfServers
<1>7. MessagesFollow'
  BY <1>2, <1>1, <1>3, <1>5, <1>4 DEF MessagesFollow, SelectChange, Items, Change, StopChange,
     ServerInv, MadeFor
<1>8. LogsAreRight' /\ ShownIsRight'
  BY <1>3, <1>4, ItemsOfFew DEF ServerInv, LogsAreRight, ShownIsRight, AllFor, MadeFor
<1> QED
  BY <1>4, <1>6, <1>7, <1>8 DEF ServerInv

\* What the session sends of its own epoch is of its own server.
LEMMA SendIsRight ==
    ASSUME TypeOK, ServerInv, UNCHANGED <<workerVars, run, out>>,
           Live' => Live /\ session'.epoch = session.epoch /\ session'.server = session.server,
           \A m, server : MadeFor(m, server) => MadeFor(m, server)',
           \A c \in Items(chan') :
              \/ c \in Items(chan)
              \/ c.kind \notin {"add", "select"}
              \/ /\ c.kind = "add" /\ Live /\ c.epoch = session.epoch
                 /\ \A s \in Servers : s = session.server => MadeFor(c.message.id, s)'
    PROVE  ServerInv'
<1>1. UNCHANGED <<hist, disk, run, out>>
  BY DEF workerVars
<1>2. Forgets
  BY <1>1 DEF Forgets, Knows
<1>3. session.server \in Servers /\ session.epoch \in Nat /\ out.epoch \in Nat
  BY DEF TypeOK, SessionState, OutputState, Servers
<1>4. EpochsAreOfServers'
  BY <1>1, <1>2 DEF ServerInv, EpochsAreOfServers, Forgets
<1>5. MessagesFollow'
  BY <1>2, <1>1, <1>3 DEF MessagesFollow, ServerInv, MadeFor, Forgets, EpochsAreOfServers,
     Knows
<1>6. LogsAreRight' /\ ShownIsRight'
  BY <1>1 DEF ServerInv, LogsAreRight, ShownIsRight, AllFor
<1> QED
  BY <1>1, <1>4, <1>5, <1>6 DEF ServerInv

\* A step that makes no message.
LEMMA TellIsRight ==
    ASSUME TypeOK, ServerInv, SessionStep, UNCHANGED <<born, out>>,
           Live' => Live /\ session'.epoch = session.epoch /\ session'.server = session.server,
           NEW changes \in Seq(Change), chan' = chan \o changes,
           \A c \in Items(changes) : c.kind \notin {"add", "select"}
    PROVE  ServerInv'
  BY ItemsOfConcat, SendIsRight DEF TypeOK, SessionStep, MadeFor

\* A step that makes one, of an id that nothing speaks of yet.
LEMMA MakeIsRight ==
    ASSUME TypeOK, ServerInv, SessionStep, UNCHANGED out, Live,
           Live' => session'.epoch = session.epoch /\ session'.server = session.server,
           NEW m \in Msg, Fresh(m), Make(m),
           NEW changes \in Seq(Change), chan' = chan \o changes,
           \A c \in Items(changes) :
              \/ c.kind \notin {"add", "select"}
              \/ c.kind = "add" /\ c.epoch = session.epoch /\ c.message.id = m
    PROVE  ServerInv'
  BY ItemsOfConcat, SendIsRight DEF TypeOK, Make, ServerInv, MadeFor, Fresh, Unborn,
     SessionStep

LEMMA SessionIsRight ==
    ASSUME TypeOK, ServerInv, Session
    PROVE  ServerInv'
<1>0. /\ session \in SessionState /\ session.epoch \in Nat /\ out.epoch \in Nat
      /\ session.server \in Servers /\ NoServer \in Servers /\ Server \subseteq Servers
      /\ session.link \in Links
  BY DEF TypeOK, SessionState, OutputState, Servers
<1>1. \A server \in Servers : Select(server, << >>) /\ SessionStep =>
         UNCHANGED <<workerVars, run>>
  BY DEF SessionStep
<1>2. ASSUME NEW epoch \in Nat
      PROVE  /\ FailChange(epoch) \in Change /\ FailChange(epoch).kind = "fail"
             /\ RefreshChange(epoch) \in Change /\ RefreshChange(epoch).kind = "refresh"
             /\ StopChange \in Change /\ StopChange.kind = "stop"
  BY <1>2, ChangeTypes DEF FailChange, RefreshChange, StopChange
<1>3. ASSUME NEW m \in Msg, NEW status \in Statuses
      PROVE  /\ AddChange(session.epoch, m, status) \in Change
             /\ AddChange(session.epoch, m, status).kind = "add"
             /\ AddChange(session.epoch, m, status).epoch = session.epoch
             /\ AddChange(session.epoch, m, status).message.id = m
             /\ FinishChange(session.epoch, m, status) \in Change
             /\ FinishChange(session.epoch, m, status).kind = "finish"
  BY <1>0, <1>3, ChangeTypes DEF AddChange, FinishChange
<1>4. \A x \in Change : <<x>> \in Seq(Change) /\ Items(<<x>>) = {x}
  BY ItemsOfFew
<1>5. CASE Connect \/ ServerStops \/ Clear
  <2>1. Select(NoServer, << >>) /\ SessionStep /\ UNCHANGED born
    BY <1>5 DEF Connect, ServerStops, Clear
  <2>2. Live' => session'.epoch = out.epoch + 1 /\ session'.server = NoServer
    <3>1. CASE Connect
      BY <3>1 DEF Connect
    <3>2. CASE ServerStops
      BY <3>2, <1>0 DEF ServerStops, SessionState
    <3>3. CASE Clear
      BY <3>3, <1>0 DEF Clear, SessionState, Live
    <3> QED
      BY <1>5, <3>1, <3>2, <3>3
  <2> QED
    BY <1>0, <1>1, <2>1, <2>2, NewEpoch
<1>6. CASE \E s \in Server : Book(s)
  BY <1>6, <1>0, <1>1, NewEpoch, SendIsRight DEF SessionState, Book, Live, SessionStep,
     MadeFor
<1>7. CASE MediaDone
  BY <1>7, <1>0, <1>2, <1>4, TellIsRight DEF MediaDone, SendChanges, Live
<1>8. CASE Interrupted \/ \E next \in {"dropped", "quitting"} : EndSession(next)
  BY <1>8, <1>0, <1>2, <1>4, TellIsRight DEF Interrupted, EndSession, SendChanges, Live,
     SessionState
<1>9. CASE Quit
  BY <1>0, <1>9, <1>2, <1>4, TellIsRight DEF Quit, SendChanges, Live, SessionState
<1>10. CASE \E m \in Msg : Receive(m) \/ RejectMessage(m)
  <2>1. PICK m \in Msg, status \in Statuses :
          /\ chan' = chan \o <<AddChange(session.epoch, m, status)>>
          /\ Fresh(m) /\ Make(m) /\ SessionStep /\ UNCHANGED <<session, out>> /\ Live
    BY <1>10 DEF Receive, RejectMessage, SendChanges, Live, Statuses
  <2> DEFINE add == AddChange(session.epoch, m, status)
  <2>2. /\ add \in Change /\ add.kind = "add" /\ add.epoch = session.epoch
        /\ add.message.id = m /\ chan' = chan \o <<add>>
    BY <1>3, <2>1
  <2> HIDE DEF add
  <2>3. <<add>> \in Seq(Change) /\ Items(<<add>>) = {add}
    BY <1>4, <2>2
  <2>4. /\ Fresh(m) /\ Make(m) /\ SessionStep /\ UNCHANGED out /\ Live
        /\ session'.epoch = session.epoch /\ session'.server = session.server
    BY <2>1
  <2>5. \A c \in Items(<<add>>) :
           c.kind = "add" /\ c.epoch = session.epoch /\ c.message.id = m
    BY <2>2, <2>3
  <2> QED
    BY <2>2, <2>3, <2>4, <2>5, MakeIsRight
<1>11. CASE \E m \in Msg : SendMessage(m)
  <2>1. PICK m \in Msg : SendMessage(m)
    BY <1>11
  <2>2. /\ Fresh(m) /\ Make(m) /\ SessionStep /\ UNCHANGED out /\ Live
        /\ session'.epoch = session.epoch /\ session'.server = session.server
    BY <1>0, <2>1 DEF SendMessage, SendChanges, Live, SessionState
  <2> DEFINE add == AddChange(session.epoch, m, "pending")
             finish == FinishChange(session.epoch, m, "send_failed")
  <2>3. /\ add \in Change /\ finish \in Change /\ finish.kind = "finish"
        /\ add.kind = "add" /\ add.epoch = session.epoch /\ add.message.id = m
    BY <1>3 DEF Statuses
  <2>4. chan' = chan \o <<add>> \/ chan' = chan \o <<add, finish>>
    BY <2>1 DEF SendMessage, SendChanges
  <2> HIDE DEF add, finish
  <2>5. <<add, finish>> \in Seq(Change) /\ Items(<<add, finish>>) = {add, finish}
    BY <2>3, ItemsOfFew
  <2>6. CASE chan' = chan \o <<add>>
    <3>1. <<add>> \in Seq(Change) /\ Items(<<add>>) = {add}
      BY <1>4, <2>3
    <3> QED
      BY <2>2, <2>3, <2>6, <3>1, MakeIsRight
  <2>7. CASE chan' = chan \o <<add, finish>>
    BY <2>2, <2>3, <2>5, <2>7, MakeIsRight
  <2> QED
    BY <2>4, <2>6, <2>7
<1>12. CASE \E m \in Msg : \E status \in {"sent", "send_failed"} : Result(m, status)
  <2>1. PICK m \in Msg, status \in Statuses :
          /\ chan' = chan \o <<FinishChange(session.epoch, m, status)>>
          /\ session' = [session EXCEPT !.awaiting = @ \ {m}]
          /\ SessionStep /\ UNCHANGED <<born, out>> /\ Live
    BY <1>12 DEF Result, SendChanges, Live, Statuses
  <2>2. session'.epoch = session.epoch /\ session'.server = session.server
    BY <1>0, <2>1 DEF SessionState
  <2> QED
    BY <1>3, <1>4, <2>1, <2>2, TellIsRight
<1> QED
  BY <1>5, <1>6, <1>7, <1>8, <1>9, <1>10, <1>11, <1>12 DEF Session

-----------------------------------------------------------------------------
LEMMA PollIsRight ==
    ASSUME TypeOK, ServerInv, Poll
    PROVE  ServerInv'
<1>1. UNCHANGED <<session, chan, born, hist, disk, run>>
  BY DEF Poll, sessionVars, workerVars
<1>2. out'.epoch = out.epoch /\ out'.shown.log = << >>
  BY DEF Poll, NoSnapshot, TypeOK, OutputState
<1>3. WorkerOnly /\ Forgets
  BY <1>1, <1>2 DEF WorkerOnly, Forgets, Knows, Live
<1>4. LogsAreRight' /\ ShownIsRight'
  BY <1>1, <1>2, ItemsOfFew DEF ServerInv, LogsAreRight, ShownIsRight, AllFor, MadeFor
<1> QED
  BY <1>1, <1>3, <1>4, WorkerKeepsRest

\* A new process has nothing but the files.
LEMMA EmptyIsRight ==
    /\ EmptyHistory.epoch = 0 /\ EmptyHistory.server = NoServer
    /\ EmptyHistory.log = << >> /\ \A s \in Server : ~EmptyHistory.unsaved[s].held
BY DEF EmptyHistory, Reset, Begun, NotRetained

LEMMA NewProcessIsRight ==
    ASSUME TypeOK, ServerInv, NewProcess
    PROVE  ServerInv'
<1>1. /\ run' = run + 1 /\ run \in Nat /\ ~Live' /\ chan' = << >> /\ out'.epoch = 0
      /\ hist' = EmptyHistory /\ UNCHANGED <<disk, born>>
  BY DEF NewProcess, NoSession, Live, TypeOK
<1>2. \A epoch, server : Knows(epoch, server)' => epoch = 0 /\ server = NoServer
  BY <1>1, EmptyIsRight, ItemsOfFew DEF Knows
<1>3. EpochsAreOfServers' /\ MessagesFollow'
  BY <1>1, <1>2, ItemsOfFew DEF EpochsAreOfServers, MessagesFollow
<1>4. LogsAreRight' /\ ShownIsRight'
  BY <1>1, EmptyIsRight, ItemsOfFew
     DEF ServerInv, LogsAreRight, ShownIsRight, AllFor, MadeFor
<1> QED
  BY <1>1, <1>3, <1>4 DEF ServerInv

LEMMA ServerInit == ASSUME Init PROVE ServerInv
<1>1. /\ run = 1 /\ ~Live /\ chan = << >> /\ out.epoch = 0 /\ hist = EmptyHistory
      /\ \A s \in Server : disk[s] = << >>
  BY DEF Init, NoSession, Live
<1>2. \A epoch, server : Knows(epoch, server) => epoch = 0 /\ server = NoServer
  BY <1>1, EmptyIsRight, ItemsOfFew DEF Knows
<1>3. EpochsAreOfServers /\ MessagesFollow
  BY <1>1, <1>2, ItemsOfFew DEF EpochsAreOfServers, MessagesFollow
<1>4. LogsAreRight /\ ShownIsRight
  BY <1>1, EmptyIsRight, ItemsOfFew DEF LogsAreRight, ShownIsRight, AllFor
<1> QED
  BY <1>1, <1>3, <1>4 DEF ServerInv

LEMMA ServerStep ==
    ASSUME TypeOK, ServerInv, [Next]_vars
    PROVE  ServerInv'
<1>1. CASE UNCHANGED vars
  <2>1. WorkerOnly /\ Forgets /\ chan' = chan
    BY <1>1 DEF vars, WorkerOnly, Forgets, Knows, Live
  <2>2. LogsAreRight' /\ ShownIsRight'
    BY <1>1 DEF vars, ServerInv, LogsAreRight, ShownIsRight, AllFor, MadeFor, Live
  <2> QED
    BY <2>1, <2>2, WorkerKeepsRest
<1> QED
  BY <1>1, WorkerIsRight, SessionIsRight, PollIsRight, NewProcessIsRight DEF Next, Exit, Kill

\* No message is ever kept or shown for another server than the one it was made
\* for, however many selections lie between a change and its application, through
\* failures of files and ends of processes.
THEOREM RightServerHolds == Spec => []RightServer
<1>1. Init => TypeOK /\ ServerInv
  BY TypeInit, ServerInit
<1>2. TypeOK /\ ServerInv /\ [Next]_vars => TypeOK' /\ ServerInv'
  BY TypeStep, ServerStep
<1>3. TypeOK /\ ServerInv => RightServer
  BY LedgersAreRight DEF ServerInv, ShownIsRight, AllFor, MadeFor, RightServer
<1> QED
  BY <1>1, <1>2, <1>3, PTL DEF Spec

=============================================================================
