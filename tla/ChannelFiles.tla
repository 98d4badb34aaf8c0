---------------------------- MODULE ChannelFiles ----------------------------
(***************************************************************************)
(* The files of the own channel (native/src/channel_files.rs, Files): a    *)
(* directory is listed, files are downloaded and uploaded, and the copies  *)
(* on this device are measured and cleared.                                *)
(*                                                                         *)
(* Commands and their answers travel in order, but the entries of a        *)
(* listing and its end name no request, only a directory. A transfer has a *)
(* connection and a task of its own; what tasks report waits in one queue. *)
(* The disk is cleared by a blocking thread. Each branch of the session's  *)
(* select that concerns the files is one action, with the pump behind it.  *)
(* A refused command changes nothing but an error text and is no step,     *)
(* unless it removes the source of an upload.                              *)
(***************************************************************************)
EXTENDS Naturals, Sequences, FiniteSets

CONSTANTS
    Channels,       \* channels the own client may be in: numbers above 0
    MaxRunning,     \* transfers at a time (4)
    MaxCommands,    \* bound: commands of the user
    FileTroubles    \* bound: refusals, broken transfers, moves, lost connections
                    \* and changes of the directories by others

ASSUME FilesAssumption ==
    /\ Channels \subseteq Nat \ {0}
    /\ MaxCommands \in Nat /\ FileTroubles \in Nat

VARIABLES
    files,              \* Files
    fileDisk,           \* channel-files and file-uploads, and the thread that clears them
    fileLink,           \* the connection, and how many handles and codes it has given out
    toFileServer,       \* commands on their way
    fromFileServer,     \* answers and notices on their way back
    fileReady,          \* transfers whose connection is there, or could not be made
    updates,            \* Update: what tasks and the clearing thread report
    directories,        \* external: the directories of the server
    spent               \* commands and troubles so far

filesVars ==
    <<files, fileDisk, fileLink, toFileServer, fromFileServer, fileReady, updates, directories, spent>>

Paths == {"/", "/d"}
Place == [channel : Channels, path : Paths]
Names == {"f", "u"}

\* A file as the server lists it; a new version has another time and size.
Versions == 1 .. FileTroubles + 1
Entry == [name : Names, version : Versions]
\* destination: every version of a file has a path of its own on this device.
Stored == [place : Place, name : Names, version : Versions]

NoListing == [handle |-> 0, place |-> [channel |-> 0, path |-> "/"], current |-> FALSE,
              entries |-> {}, finished |-> FALSE, acknowledged |-> FALSE,
              expired |-> FALSE, stamp |-> 0]

\* Channel 0 stands for no context. A listing is current as long as the
\* generation is the one it was asked in. "since", "from", "stamp" are history:
\* the change of the server last seen before load, and where and when the
\* entries shown were read.
FreshFiles ==
    [channel |-> 0, open |-> FALSE, path |-> "/", status |-> "idle", entries |-> {},
     listing |-> NoListing, queued |-> FALSE, transfers |-> {}, handles |-> {},
     jobs |-> {}, sequence |-> 0, cache |-> "idle",
     since |-> 0, from |-> [channel |-> 0, path |-> "/"], stamp |-> 0]

-----------------------------------------------------------------------------
(* The operations of Files on its state s and the disk d.                  *)

Here(s) == [channel |-> s.channel, path |-> s.path]
RunningIn(s) == {t \in s.transfers : t.status = "running"}
RecordOf(s, id) == CHOOSE t \in s.transfers : t.id = id

\* busy
FilesBusy(s) == RunningIn(s) # {}

\* generation += 1: what is being listed is not what will be shown.
NextGeneration(s) == [s EXCEPT !.listing.current = FALSE]

FilesLoad(s) ==
    [NextGeneration(s) EXCEPT !.status = "loading", !.entries = {}, !.queued = TRUE,
                              !.since = directories.stamp]

\* apply_context with a channel; the barrier of a listing stays.
ApplyContext(s, channel) ==
    IF s.channel = channel THEN s
    ELSE [NextGeneration(s) EXCEPT !.channel = channel, !.open = FALSE, !.path = "/",
              !.entries = {}, !.status = "idle", !.queued = FALSE]

\* disconnected: jobs are dropped, records are kept for a retry.
FilesDisconnected(s) ==
    [s EXCEPT !.jobs = {}, !.handles = {}, !.listing = NoListing, !.queued = FALSE,
              !.transfers = {[t EXCEPT !.status = IF t.status = "running" THEN "failed" ELSE t.status,
                                       !.deadline = FALSE] : t \in @},
              !.open = FALSE, !.entries = {}, !.status = "idle", !.channel = 0]

\* check: the command is about the directory that is open.
Checked(s, place) == s.open /\ Here(s) = place

\* pump: one listing at a time.
Pumps(s) == s.listing = NoListing /\ s.queued /\ s.open

Pumped(s) ==
    IF Pumps(s)
    THEN [s EXCEPT !.queued = FALSE,
                   !.listing = [NoListing EXCEPT !.handle = fileLink.codes + 1,
                       !.place = Here(s), !.current = TRUE, !.stamp = directories.stamp + 1]]
    ELSE s

\* listing_current
Current(s) ==
    s.open /\ s.listing # NoListing /\ s.listing.current /\ s.listing.place = Here(s)

Least(a, b) == IF a < b THEN a ELSE b

\* message, FileList: the entries of a directory, and which are on this device.
\* A later entry replaces an earlier one of its name.
WithEntries(s, place, list, stamp, d) ==
    LET found == {[name |-> e.name, version |-> e.version,
                   local |-> [place |-> place, name |-> e.name, version |-> e.version]
                                 \in d.stored] : e \in list}
        kept == {e \in s.listing.entries : \A n \in list : n.name # e.name}
    IN IF s.listing # NoListing /\ s.listing.place = place
       THEN [s EXCEPT !.listing = [s.listing EXCEPT !.entries = kept \cup found,
                                       !.stamp = Least(stamp, s.listing.stamp)]]
       ELSE s

\* message, FileListFinished
WithEnd(s, place) ==
    IF s.listing # NoListing /\ s.listing.place = place
    THEN [s EXCEPT !.listing.finished = TRUE] ELSE s

\* finish_list
Finished(s) ==
    IF s.listing.finished /\ s.listing.acknowledged
    THEN IF Current(s) /\ ~s.listing.expired
         THEN [s EXCEPT !.listing = NoListing, !.entries = s.listing.entries,
                        !.status = "ready", !.from = s.listing.place,
                        !.stamp = s.listing.stamp]
         ELSE [s EXCEPT !.listing = NoListing]
    ELSE s

\* list_result: "empty" is an empty directory only where nothing was listed.
WithResult(s, handle, result, stamp) ==
    IF s.listing = NoListing \/ s.listing.handle # handle THEN s
    ELSE IF result = "ok" THEN Finished([s EXCEPT !.listing.acknowledged = TRUE])
    ELSE IF result = "empty" /\ s.listing.entries = {}
    THEN Finished([s EXCEPT !.listing = [s.listing EXCEPT !.finished = TRUE, !.acknowledged = TRUE,
                                             !.stamp = Least(stamp, s.listing.stamp)]])
    ELSE [s EXCEPT !.listing = NoListing, !.status = IF Current(s) THEN "failed" ELSE @]

\* Mutant of ListingLate: the barrier falls with the timeout.
ListingLateForgetting(s) ==
    [s EXCEPT !.listing = NoListing, !.status = IF Current(s) THEN "failed" ELSE @]

\* tick: the listing has taken too long. Its answer may still come, and could
\* not be told from that of another request: the barrier stays.
ListingLate(s) ==
    [s EXCEPT !.listing.expired = TRUE, !.status = IF Current(s) THEN "failed" ELSE @]

\* Mutant of QueueLate: nobody tells that the barrier holds up a listing.
QueueLateSilent(s) == s

\* tick: what waits behind a barrier that took too long has failed as well.
QueueLate(s) ==
    IF s.queued /\ s.listing # NoListing /\ s.listing.expired
    THEN [s EXCEPT !.status = "failed"] ELSE s

\* tick: the transfers of ids have waited too long for their connection.
TimedOut(s, ids) ==
    [s EXCEPT !.transfers =
                 {IF t.id \in ids THEN [t EXCEPT !.status = "failed", !.deadline = FALSE]
                  ELSE t : t \in @},
              !.handles = {h \in @ : h.id \notin ids},
              !.jobs = {j \in @ : j.id \notin ids}]

Same(t, place, name) == t.place = place /\ t.name = name

TransferMayStart(s, place, name) ==
    /\ s.cache # "clearing"
    /\ s.channel # 0
    /\ Cardinality(RunningIn(s)) < MaxRunning
    /\ \A t \in RunningIn(s) : ~Same(t, place, name)

\* Mutant of Started: the id is used before it is counted.
StartedUncounted(s, place, name, version, source) ==
    [s EXCEPT !.handles = @ \cup {[handle |-> fileLink.handles + 1, id |-> s.sequence]},
              !.transfers = @ \cup {[id |-> s.sequence, place |-> place, name |-> name,
                  upload |-> source # 0, version |-> version, source |-> source,
                  status |-> "running", deadline |-> TRUE]}]

\* start: a new record, under the handle of the connection, in place of older
\* ones of the same file.
Started(s, place, name, version, source) ==
    LET id == s.sequence + 1
        upload == source # 0
    IN [s EXCEPT !.sequence = id,
                 !.handles = @ \cup {[handle |-> fileLink.handles + 1, id |-> id]},
                 !.transfers = {t \in @ : ~(Same(t, place, name) /\ t.upload = upload)}
                     \cup {[id |-> id, place |-> place, name |-> name, upload |-> upload,
                            version |-> version, source |-> source,
                            status |-> "running", deadline |-> TRUE]}]

\* update, Finished with a result: an upload is gone from the disk, a download
\* is there; an upload into the open directory lists it again.
Complete(s, t) ==
    LET done == [s EXCEPT !.transfers = (@ \ {t}) \cup
                     {[t EXCEPT !.status = "complete", !.deadline = FALSE, !.source = 0]},
                          !.jobs = {j \in @ : j.id # t.id},
                          !.handles = {h \in @ : h.id # t.id}]
    IN IF t.upload
       THEN IF s.open /\ Here(s) = t.place THEN FilesLoad(done) ELSE done
       ELSE [done EXCEPT !.entries =
                {IF e.name = t.name /\ e.version = t.version /\ Here(s) = t.place
                 THEN [e EXCEPT !.local = TRUE] ELSE e : e \in @}]

\* update, Finished with an error, of whatever id.
Fails(s, id) ==
    [s EXCEPT !.transfers = {IF t.id = id /\ t.status = "running"
                             THEN [t EXCEPT !.status = "failed", !.deadline = FALSE]
                             ELSE t : t \in @},
              !.jobs = {j \in @ : j.id # id},
              !.handles = {h \in @ : h.id # id}]

\* The record runs, and the partial file of a download is there to be renamed.
Succeeds(s, d, id, ok) ==
    /\ ok
    /\ \E t \in RunningIn(s) : t.id = id /\ (t.upload \/ id \in d.partials)

Ended(s, d, id, ok) == IF Succeeds(s, d, id, ok) THEN Complete(s, RecordOf(s, id)) ELSE Fails(s, id)

\* The rename and the removals that go with it; the job that is dropped removes
\* its partial file.
Kept(s, d, id, ok) ==
    IF Succeeds(s, d, id, ok)
    THEN LET t == RecordOf(s, id)
         IN IF t.upload THEN [d EXCEPT !.staged = @ \ {t.source}]
            ELSE [d EXCEPT !.partials = @ \ {id},
                           !.stored = @ \cup {[place |-> t.place, name |-> t.name,
                                               version |-> t.version]}]
    ELSE [d EXCEPT !.partials = @ \ {j.id : j \in {j \in s.jobs : j.id = id}}]

\* Mutant of CacheCleared: records keep what is no longer on the disk.
CacheClearedInPart(s, d) ==
    [s EXCEPT !.entries = {[e EXCEPT !.local = e.local /\
                  [place |-> Here(s), name |-> e.name, version |-> e.version]
                      \in d.stored] : e \in @}]

\* update, Cache of a clear: what is gone from the disk is not shown as there,
\* and only what can still be opened or tried again keeps its record.
CacheCleared(s, d) ==
    [s EXCEPT !.entries = {[e EXCEPT !.local = e.local /\
                  [place |-> Here(s), name |-> e.name, version |-> e.version]
                      \in d.stored] : e \in @},
              !.transfers = {t \in @ :
                  IF t.upload THEN t.source \in d.staged
                  ELSE [place |-> t.place, name |-> t.name, version |-> t.version]
                           \in d.stored}]

-----------------------------------------------------------------------------
(* The branches of the session's select.                                   *)

Command == spent.commands < MaxCommands /\ spent' = [spent EXCEPT !.commands = @ + 1]
FilesTrouble(happens) ==
    /\ happens => spent.troubles < FileTroubles
    /\ spent' = [spent EXCEPT !.troubles = IF happens THEN @ + 1 ELSE @]

\* The handler is done: its files, the pump, and what that sends.
Pump(s, d) ==
    /\ files' = Pumped(s)
    /\ fileDisk' = d
    /\ IF Pumps(s)
       THEN /\ fileLink' = [fileLink EXCEPT !.codes = @ + 1]
            /\ toFileServer' = Append(toFileServer, [op |-> "list", place |-> Here(s),
                                            name |-> "", handle |-> fileLink.codes + 1])
       ELSE UNCHANGED <<fileLink, toFileServer>>

FilesOpen ==
    /\ Command
    /\ files.channel # 0
    /\ Pump(FilesLoad([files EXCEPT !.open = TRUE, !.path = "/"]), fileDisk)
    /\ UNCHANGED <<fromFileServer, fileReady, updates, directories>>

FilesBack ==
    /\ Command
    /\ files.open
    /\ Pump(IF files.path = "/"
            THEN NextGeneration([files EXCEPT !.open = FALSE, !.entries = {}, !.queued = FALSE])
            ELSE FilesLoad([files EXCEPT !.path = "/"]), fileDisk)
    /\ UNCHANGED <<fromFileServer, fileReady, updates, directories>>

\* Into a directory that is shown, or the same once more.
FilesList(path) ==
    /\ Command
    /\ files.open
    /\ path = files.path \/ (path = "/d" /\ files.status = "ready")
    /\ Pump(FilesLoad([files EXCEPT !.path = path]), fileDisk)
    /\ UNCHANGED <<fromFileServer, fileReady, updates, directories>>

\* A transfer asks the server for a connection of its own.
StartTransfer(place, name, version, source) ==
    /\ TransferMayStart(files, place, name)
    /\ files' = Started(files, place, name, version, source)
    /\ fileLink' = [fileLink EXCEPT !.handles = @ + 1]
    /\ toFileServer' = Append(toFileServer,
          [op |-> IF source # 0 THEN "upload" ELSE "download", place |-> place,
           name |-> name, handle |-> fileLink.handles + 1])

FilesDownload(e) ==
    /\ Command
    /\ files.open
    /\ StartTransfer(Here(files), e.name, e.version, 0)
    /\ UNCHANGED <<fileDisk, fromFileServer, fileReady, updates, directories>>

\* The app copies a file the user chose for the open directory, while nothing is being cleared.
Import ==
    /\ spent.commands < MaxCommands
    /\ files.open
    /\ fileDisk.importing = 0 /\ files.cache # "clearing"
    /\ fileDisk' = [fileDisk EXCEPT !.importing = fileDisk.imports + 1, !.imports = @ + 1,
                            !.staged = @ \cup {fileDisk.imports + 1}]
    /\ UNCHANGED <<files, fileLink, toFileServer, fromFileServer, fileReady, updates, directories, spent>>

\* It is uploaded into the directory shown when it was chosen.
FilesUpload(place, name) ==
    /\ Command
    /\ fileDisk.importing # 0
    /\ Checked(files, place) /\ files.status = "ready"
    /\ \A e \in files.entries : e.name # name
    /\ fileDisk.importing \in fileDisk.staged
    /\ StartTransfer(place, name, 1, fileDisk.importing)
    /\ fileDisk' = [fileDisk EXCEPT !.importing = 0]
    /\ UNCHANGED <<fromFileServer, fileReady, updates, directories>>

\* The upload is refused: reject removes a source that no record refers to.
RejectUpload ==
    /\ Command
    /\ fileDisk.importing # 0
    /\ fileDisk' = [fileDisk EXCEPT !.importing = 0,
          !.staged = {x \in @ : x # fileDisk.importing \/ \E t \in files.transfers : t.source = x}]
    /\ UNCHANGED <<files, fileLink, toFileServer, fromFileServer, fileReady, updates, directories>>

\* A failed transfer of the open directory starts anew; its record goes.
FilesRetry(t) ==
    /\ Command
    /\ t.status = "failed"
    /\ Checked(files, t.place)
    /\ t.upload => t.source \in fileDisk.staged /\ \A e \in files.entries : e.name # t.name
    /\ StartTransfer(t.place, t.name, t.version, t.source)
    /\ UNCHANGED <<fileDisk, fromFileServer, fileReady, updates, directories>>

\* cache_command: one thread at a time, and no clearing under a transfer.
MayClear(clear) ==
    /\ files.cache \notin {"loading", "clearing"}
    /\ clear => ~FilesBusy(files)

\* The app does not clear while it copies a file (clearFileCache).
FileCache(clear) ==
    /\ Command
    /\ MayClear(clear)
    /\ clear => fileDisk.importing = 0
    /\ files' = [files EXCEPT !.cache = IF clear THEN "clearing" ELSE "loading"]
    /\ fileDisk' = [fileDisk EXCEPT !.thread = IF clear THEN "clear" ELSE "measure"]
    /\ UNCHANGED <<fileLink, toFileServer, fromFileServer, fileReady, updates, directories>>

\* What a message means for the files; message runs finish_list after any.
Told(m) ==
    CASE m.kind = "moved" -> ApplyContext(files, m.place.channel)
      [] m.kind = "entries" -> WithEntries(files, m.place, m.list, m.stamp, fileDisk)
      [] m.kind = "end" -> Finished(WithEnd(files, m.place))
      [] m.kind \in {"ok", "empty", "no"} -> WithResult(files, m.handle, m.kind, m.stamp)

TakeFilesMessage ==
    /\ fromFileServer # << >>
    /\ Head(fromFileServer).kind # "refused"
    /\ Pump(Told(Head(fromFileServer)), fileDisk)
    /\ fromFileServer' = Tail(fromFileServer)
    /\ UNCHANGED <<fileReady, updates, directories, spent>>

\* The id of a handle of ours; failed, download and upload know no other.
Owner(handle) == {h.id : h \in {h \in files.handles : h.handle = handle}}

\* failed: the server or the connection of the transfer says no.
FileTransferFailed(handle) ==
    IF Owner(handle) = {} THEN UNCHANGED <<files, fileDisk>>
    ELSE LET id == CHOOSE id \in Owner(handle) : TRUE
         IN /\ files' = Fails(files, id)
            /\ fileDisk' = Kept(files, fileDisk, id, FALSE)

\* A notice of a transfer that is complete is no failure.
TakeRefusal ==
    /\ fromFileServer # << >>
    /\ Head(fromFileServer).kind = "refused"
    /\ IF Head(fromFileServer).complete THEN UNCHANGED <<files, fileDisk>>
       ELSE FileTransferFailed(Head(fromFileServer).handle)
    /\ fromFileServer' = Tail(fromFileServer)
    /\ UNCHANGED <<fileLink, toFileServer, fileReady, updates, directories, spent>>

\* Mutant of Connected: the timer of the start goes on under the task.
ConnectedTimed(s, id) == [s EXCEPT !.jobs = @ \cup {[id |-> id, at |-> "run"]}]

\* download, upload: from here on the task watches the time itself.
Connected(s, id) ==
    [s EXCEPT !.jobs = @ \cup {[id |-> id, at |-> "run"]},
              !.transfers = {IF t.id = id THEN [t EXCEPT !.deadline = FALSE] ELSE t : t \in @}]

\* The connection of a transfer is there, or could not be made. A download of
\* another size than listed is not begun.
TakeConnection(r) ==
    /\ fileReady' = fileReady \ {r}
    /\ IF ~r.connected THEN FileTransferFailed(r.handle)
       ELSE IF Owner(r.handle) = {} THEN UNCHANGED <<files, fileDisk>>
       ELSE LET id == CHOOSE id \in Owner(r.handle) : TRUE
                t == RecordOf(files, id)
            IN IF id \in {j.id : j \in files.jobs} THEN UNCHANGED <<files, fileDisk>>
               ELSE IF ~t.upload /\ r.version # t.version
               THEN FileTransferFailed(r.handle)
               ELSE files' = Connected(files, id) /\ UNCHANGED fileDisk
    /\ UNCHANGED <<fileLink, toFileServer, fromFileServer, updates, directories, spent>>

\* update, Cache: measured or cleared.
CacheUpdated(u) ==
    LET s == [files EXCEPT !.cache = IF u.ok THEN "ready" ELSE "failed"]
    IN IF u.clear THEN CacheCleared(s, fileDisk) ELSE s

TakeUpdate ==
    /\ updates # << >>
    /\ LET u == Head(updates)
       IN IF u.id = 0 THEN Pump(CacheUpdated(u), fileDisk)
          ELSE Pump(Ended(files, fileDisk, u.id, u.ok), Kept(files, fileDisk, u.id, u.ok))
    /\ updates' = Tail(updates)
    /\ UNCHANGED <<fromFileServer, fileReady, directories, spent>>

\* tick: the timers of the listing and of the transfers that have passed, what
\* waits behind a listing that took too long, and the pump. The timer of a
\* transfer runs while it has no task.
FilesTick(late, ids) ==
    /\ fileLink.up
    /\ late => files.listing # NoListing /\ ~files.listing.expired
    /\ ids \subseteq {t.id : t \in {t \in RunningIn(files) : t.deadline}}
    /\ LET s == IF late THEN ListingLate(files) ELSE files
           f == TimedOut(s, ids)
       IN Pump(QueueLate(f), [fileDisk EXCEPT !.partials = @ \ {j.id : j \in files.jobs \ f.jobs}])
    /\ UNCHANGED <<fromFileServer, fileReady, updates, directories, spent>>

\* The session is interrupted, ends, or is ended: what was on its way is gone,
\* jobs are dropped with their partial files.
FilesInterrupted ==
    /\ fileLink.up
    /\ FilesTrouble(TRUE)
    /\ files' = FilesDisconnected(files)
    /\ fileDisk' = [fileDisk EXCEPT !.partials = @ \ {j.id : j \in files.jobs}]
    /\ fileLink' = [up |-> FALSE, handles |-> 0, codes |-> 0]
    /\ toFileServer' = << >> /\ fromFileServer' = << >> /\ fileReady' = {}
    /\ directories' = [directories EXCEPT !.channel = 0]
    /\ UNCHANGED updates

\* A new connection counts its handles anew.
Reconnect(channel) ==
    /\ ~fileLink.up
    /\ fileLink' = [fileLink EXCEPT !.up = TRUE]
    /\ directories' = [directories EXCEPT !.channel = channel]
    /\ files' = ApplyContext(files, channel)
    /\ UNCHANGED <<fileDisk, toFileServer, fromFileServer, fileReady, updates, spent>>

-----------------------------------------------------------------------------
(* The tasks of the transfers, and the thread that clears the disk.        *)

\* The partial file counts once it is whole. An upload may have arrived whether
\* or not its task learns of it.
TaskEnds(j, ok, arrives) ==
    LET t == RecordOf(files, j.id)
    IN /\ j \in files.jobs /\ j.at = "run"
       /\ files' = [files EXCEPT !.jobs = (@ \ {j}) \cup {[j EXCEPT !.at = "over"]}]
       /\ updates' = Append(updates, [id |-> j.id, ok |-> ok, clear |-> FALSE])
       /\ arrives => t.upload /\ \A e \in directories.dirs[t.place] : e.name # t.name
       /\ ok => arrives \/ ~t.upload
       /\ FilesTrouble(~ok)
       /\ fileDisk' = IF ok /\ ~t.upload THEN [fileDisk EXCEPT !.partials = @ \cup {j.id}] ELSE fileDisk
       /\ directories' = IF arrives
                    THEN [directories EXCEPT !.stamp = @ + 1,
                              !.dirs[t.place] = @ \cup {[name |-> t.name, version |-> 1]}]
                    ELSE directories
       /\ UNCHANGED <<fileLink, toFileServer, fromFileServer, fileReady>>

\* cache_files goes from file to file.
ClearFile ==
    /\ fileDisk.thread = "clear"
    /\ \/ \E f \in fileDisk.stored : fileDisk' = [fileDisk EXCEPT !.stored = @ \ {f}]
       \/ \E s \in fileDisk.staged : fileDisk' = [fileDisk EXCEPT !.staged = @ \ {s}]
    /\ UNCHANGED <<files, fileLink, toFileServer, fromFileServer, fileReady, updates, directories, spent>>

\* It ends when nothing is left, or at a file or directory it cannot remove.
CacheDone(ok) ==
    /\ fileDisk.thread # "none"
    /\ FilesTrouble(~ok)
    /\ ok /\ fileDisk.thread = "clear" => fileDisk.stored = {} /\ fileDisk.staged = {}
    /\ updates' = Append(updates, [id |-> 0, ok |-> ok, clear |-> fileDisk.thread = "clear"])
    /\ fileDisk' = [fileDisk EXCEPT !.thread = "none"]
    /\ UNCHANGED <<files, fileLink, toFileServer, fromFileServer, fileReady, directories>>

-----------------------------------------------------------------------------
(* External: the server answers commands in order.                         *)

Message(kind, place, list, handle) ==
    [kind |-> kind, place |-> place, list |-> list, handle |-> handle,
     stamp |-> directories.stamp, complete |-> FALSE]

ServeListing(c) ==
    LET list == directories.dirs[c.place]
    IN fromFileServer' =
        IF list = {} THEN Append(fromFileServer, Message("empty", c.place, {}, c.handle))
        ELSE fromFileServer \o <<Message("entries", c.place, list, 0), Message("end", c.place, {}, 0),
                           Message("ok", c.place, {}, c.handle)>>

\* The transfer gets its connection, unless the file is not (or already) there.
ServeTransfer(c, connected) ==
    LET found == {e \in directories.dirs[c.place] : e.name = c.name}
    IN IF (c.op = "download") = (found # {})
       THEN /\ fileReady' = fileReady \cup
                 {[handle |-> c.handle, connected |-> connected,
                   version |-> IF found = {} THEN 1 ELSE (CHOOSE e \in found : TRUE).version]}
            /\ UNCHANGED fromFileServer
       ELSE /\ fromFileServer' = Append(fromFileServer, Message("refused", c.place, {}, c.handle))
            /\ UNCHANGED fileReady

Refuse(c) ==
    /\ fromFileServer' = Append(fromFileServer, Message(IF c.op = "list" THEN "no" ELSE "refused",
                                           c.place, {}, c.handle))
    /\ UNCHANGED fileReady

ServeFiles ==
    /\ toFileServer # << >>
    /\ LET c == Head(toFileServer)
       IN \/ c.op = "list" /\ FilesTrouble(FALSE) /\ ServeListing(c) /\ UNCHANGED fileReady
          \/ c.op # "list" /\ \E connected \in BOOLEAN :
                 FilesTrouble(~connected) /\ ServeTransfer(c, connected)
          \/ FilesTrouble(TRUE) /\ Refuse(c)
    /\ toFileServer' = Tail(toFileServer)
    /\ UNCHANGED <<files, fileDisk, fileLink, updates, directories>>

\* Somebody else replaces a file, or removes it.
ChangeByOther(place, e, removed) ==
    /\ FilesTrouble(TRUE)
    /\ e \in directories.dirs[place]
    /\ e.version <= FileTroubles
    /\ directories' = [directories EXCEPT !.stamp = @ + 1,
          !.dirs[place] = (@ \ {e}) \cup IF removed THEN {}
                                        ELSE {[e EXCEPT !.version = e.version + 1]}]
    /\ UNCHANGED <<files, fileDisk, fileLink, toFileServer, fromFileServer, fileReady, updates>>

\* The client is moved, or moves, to another channel.
MoveClient(channel) ==
    /\ fileLink.up /\ channel # directories.channel
    /\ FilesTrouble(TRUE)
    /\ directories' = [directories EXCEPT !.channel = channel]
    /\ fromFileServer' = Append(fromFileServer, Message("moved", [channel |-> channel, path |-> "/"], {}, 0))
    /\ UNCHANGED <<files, fileDisk, fileLink, toFileServer, fileReady, updates>>

-----------------------------------------------------------------------------
FilesInit ==
    /\ files = FreshFiles
    /\ fileDisk = [stored |-> {}, staged |-> {}, partials |-> {}, thread |-> "none",
               importing |-> 0, imports |-> 0]
    /\ fileLink = [up |-> FALSE, handles |-> 0, codes |-> 0]
    /\ toFileServer = << >> /\ fromFileServer = << >> /\ fileReady = {} /\ updates = << >>
    /\ directories = [channel |-> 0, stamp |-> 0,
          dirs |-> [p \in Place |-> IF p.path = "/" /\ \A c \in Channels : c >= p.channel
                                    THEN {[name |-> "f", version |-> 1]} ELSE {}]]
    /\ spent = [commands |-> 0, troubles |-> 0]

UserStep ==
    \/ FilesOpen
    \/ FilesBack
    \/ \E path \in Paths : FilesList(path)
    \/ \E e \in files.entries : FilesDownload(e)
    \/ Import
    \/ \E place \in Place, name \in Names : FilesUpload(place, name)
    \/ RejectUpload
    \/ \E t \in files.transfers : FilesRetry(t)
    \/ \E clear \in BOOLEAN : FileCache(clear)

FilesSessionStep ==
    \/ TakeFilesMessage
    \/ TakeRefusal
    \/ \E r \in fileReady : TakeConnection(r)
    \/ TakeUpdate
    \/ \E late \in BOOLEAN, ids \in SUBSET {t.id : t \in files.transfers} : FilesTick(late, ids)
    \/ FilesInterrupted
    \/ \E c \in Channels : Reconnect(c)

DiskStep ==
    \/ \E j \in files.jobs, ok, arrives \in BOOLEAN : TaskEnds(j, ok, arrives)
    \/ ClearFile
    \/ \E ok \in BOOLEAN : CacheDone(ok)

FileServerStep ==
    \/ ServeFiles
    \/ \E p \in Place, e \in Entry, removed \in BOOLEAN : ChangeByOther(p, e, removed)
    \/ \E c \in Channels : MoveClient(c)

FilesNext == UserStep \/ FilesSessionStep \/ DiskStep \/ FileServerStep

FilesSpec == FilesInit /\ [][FilesNext]_filesVars

\* The clock ticks ten times a second, so a timer that runs long enough passes.
FilesFairness == WF_filesVars(FilesTick(TRUE, {})) /\ WF_filesVars(FilesTick(FALSE, {}))

FilesFairSpec == FilesSpec /\ FilesFairness
-----------------------------------------------------------------------------
Listing == [handle : Nat, place : Place, current : BOOLEAN,
            entries : SUBSET [name : Names, version : Versions, local : BOOLEAN],
            finished : BOOLEAN, acknowledged : BOOLEAN, expired : BOOLEAN, stamp : Nat]

\* The types of the state, and what it is made of.
FilesTypeOK ==
    /\ files.channel \in Channels \cup {0} /\ files.path \in Paths
    /\ files.status \in {"idle", "loading", "ready", "failed"}
    /\ files.cache \in {"idle", "loading", "clearing", "ready", "failed"}
    /\ files.entries \in SUBSET [name : Names, version : Versions, local : BOOLEAN]
    /\ files.listing \in Listing \cup {NoListing}
    /\ \A t \in files.transfers : t.id \in 1 .. files.sequence
    /\ \A j \in files.jobs : j.id \in 1 .. files.sequence /\ j.at \in {"run", "over"}
    /\ fileDisk.stored \subseteq Stored /\ fileDisk.staged \subseteq 1 .. fileDisk.imports
    /\ fileDisk.partials \subseteq 1 .. files.sequence
    /\ spent.commands \in 0 .. MaxCommands /\ spent.troubles \in 0 .. FileTroubles

\* What is shown of a directory is that directory, read after the user asked
\* for it, in one piece, whatever answers were still on their way ("reusing the
\* same cid/path after a timeout would accept an old response", tick).
ListIsFresh ==
    files.open /\ files.status = "ready" =>
        files.from = Here(files) /\ files.stamp >= files.since

\* A handle leads to a record that runs: download and upload unwrap it. A job
\* has a handle, and what is on the disk in part belongs to a job.
HandlesLead ==
    /\ \A h \in files.handles : \E t \in RunningIn(files) : t.id = h.id
    /\ \A j \in files.jobs : \E h \in files.handles : h.id = j.id
    /\ \A id \in fileDisk.partials : \E j \in files.jobs : j.id = id

\* Unless it is being cleared, the disk has what the records promise: the source
\* of an upload that runs or may be tried again, the file of a finished download.
RecordsHaveFiles ==
    files.cache # "clearing" =>
        \A t \in files.transfers :
            IF t.upload THEN t.status # "complete" => t.source \in fileDisk.staged
            ELSE t.status = "complete" =>
                     [place |-> t.place, name |-> t.name, version |-> t.version] \in fileDisk.stored

\* A directory that is shown as loading is loaded, fails, or is left
\* (TIMEOUT, tick), also behind the barrier of an earlier listing.
LoadingEnds == (files.open /\ files.status = "loading") ~> ~(files.open /\ files.status = "loading")

\* A transfer that runs will complete or fail by itself: until its task reports,
\* either the timer of its start or the task watches the time (start, download).
RunningIsWatched ==
    \A t \in RunningIn(files) :
        \/ t.deadline /\ \A j \in files.jobs : j.id # t.id
        \/ /\ ~t.deadline
           /\ \E j \in files.jobs : j.id = t.id /\
                 (j.at = "over" => \E i \in 1 .. Len(updates) : updates[i].id = t.id)

\* Unless the cache is being cleared, an entry that is shown as downloaded is on
\* the disk ("cache_clear_checks_all_channels_and_invalidates_download_and_
\* retry_state", channel_files.rs:1343).
ShownFileExists ==
    files.open /\ files.cache # "clearing" =>
        \A e \in files.entries : e.local =>
            [place |-> Here(files), name |-> e.name, version |-> e.version] \in fileDisk.stored
=============================================================================
