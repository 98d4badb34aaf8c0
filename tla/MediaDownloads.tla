--------------------------- MODULE MediaDownloads ---------------------------
(***************************************************************************)
(* The pictures of members, icons and badges (media.rs): the session asks  *)
(* for what is wanted and not yet there, as long as a slot is free; a task *)
(* reads each picture, a blocking thread writes it beside its place, and   *)
(* only the session moves it there. A lost connection gives all of them    *)
(* up at once, while threads write and completions are on the way.         *)
(***************************************************************************)
EXTENDS Naturals, Sequences, FiniteSets

CONSTANTS
    Keys,           \* what can be wanted; each has a file of its own
    Badges,         \* those that are asked of a web server
    MaxTransfers,   \* MAX_MEDIA_TRANSFERS
    MaxJobs,        \* bound: SEQUENCE
    MaxGeneration   \* bound: connections given up

ASSUME MediaAssumption ==
    /\ IsFiniteSet(Keys) /\ Badges \subseteq Keys
    /\ MaxTransfers \in Nat /\ MaxJobs \in Nat

VARIABLES
    media,          \* Downloads
    tasks,          \* tasks of the jobs, with their blocking threads
    completions,    \* completions on their way to the session
    disk,           \* the pictures in place, and those staged beside it
    mediaLink       \* what the connection wants, and the transfers it watches

mediaVars == <<media, tasks, completions, disk, mediaLink>>

\* A connection numbers its transfers anew; "since" is the generation the session began with.
NoLink(since) == [up |-> FALSE, wanted |-> {}, handles |-> 0, watched |-> {}, since |-> since]

MediaInit ==
    /\ media = [slots |-> MaxTransfers, generation |-> 0, sequence |-> 0,
                jobs |-> {}, waiting |-> {}, failed |-> {}]
    /\ tasks = {} /\ completions = << >> /\ disk = [files |-> {}, staged |-> {}]
    /\ mediaLink = NoLink(0)

------------------------------------------------------------------------------
(* The operations of Downloads, on s = [media, link, tasks].               *)

\* Downloads::wants: neither there nor refused nor on its way, as far as slots go.
Wanting(s, keys, files) ==
    {key \in keys \ (s.media.failed \cup files) : \A job \in s.media.jobs : job.key # key}

Fits(m, n) ==
    /\ n <= m.slots /\ Cardinality(m.jobs) + n <= MaxTransfers
    /\ m.sequence + n <= MaxJobs

\* As many of the keys as there are slots for, in the order in which they get one.
Granted(m, keys) ==
    LET fitting == {n \in 0 .. Cardinality(keys) : n = 0 \/ Fits(m, n)}
        most == {n \in fitting : \A k \in fitting : k <= n}
        Orders(n) == {order \in [1 .. n -> keys] :
                        \A i, k \in 1 .. n : order[i] = order[k] => i = k}
    IN UNION {Orders(n) : n \in most}

Reserved(m, order) ==
    [m EXCEPT !.slots = @ - Len(order), !.sequence = @ + Len(order),
              !.jobs = @ \cup {[id |-> m.sequence + i, key |-> order[i]] : i \in DOMAIN order}]

\* The task takes the slot of its job with it.
Spawned(m, id) == [id |-> id, generation |-> m.generation, at |-> "read", aborted |-> FALSE]

Badge(s, order) ==
    [s EXCEPT !.media = Reserved(s.media, order),
              !.tasks = @ \cup {Spawned(s.media, s.media.sequence + i) : i \in DOMAIN order}]

Wait(s, order) ==
    LET m == Reserved(s.media, order)
        h == s.link.handles
    IN [s EXCEPT !.media = [m EXCEPT !.waiting = @ \cup
                    {[handle |-> h + i, id |-> s.media.sequence + i] : i \in DOMAIN order}],
                 !.link.handles = @ + Len(order),
                 !.link.watched = @ \cup {[handle |-> h + i, key |-> order[i]] : i \in DOMAIN order}]

Reject(s, keys) == [s EXCEPT !.media.failed = @ \cup keys]

\* A request that the connection refuses to send takes no slot.
Asked(s, keys) ==
    UNION {{Wait(Reject(s, refused), order) : order \in Granted(s.media, keys \ refused)} :
             refused \in {r \in SUBSET keys : r = {} \/ Fits(s.media, 1)}}

\* schedule_media and schedule_badges, in any order of the bookkeeping, icons after
\* avatars and badges last.
Scheduled(s, wanted, files) ==
    LET asked == IF s.link.up THEN s.link.wanted \cap wanted ELSE {}
    IN UNION {{Badge(r, order) :
                 order \in Granted(r.media, Wanting(r, asked \cap Badges, files))} :
              r \in Asked(s, Wanting(s, asked \ Badges, files))}

Becomes(s) == media' = s.media /\ mediaLink' = s.link /\ tasks' = s.tasks

WaitingIds(m) == {w.id : w \in m.waiting}

\* Mutant of Dropped: the slot goes back with the job, as if nothing were written.
DroppedWithSlot(s, ids) ==
    [s EXCEPT !.media.slots =
                    @ + Cardinality(ids \cap {job.id : job \in s.media.jobs}),
              !.media.jobs = {job \in @ : job.id \notin ids},
              !.media.waiting = {w \in @ : w.id \notin ids},
              !.tasks = {[t EXCEPT !.aborted = @ \/ t.id \in ids] : t \in @}]

\* Job::drop, of the jobs with these ids: a job that waits gives its slot back, a
\* task is told to end. HashMap waiting is cleared of them as well.
Dropped(s, ids) ==
    [s EXCEPT !.media.slots = @ + Cardinality(ids \cap WaitingIds(s.media)),
              !.media.jobs = {job \in @ : job.id \notin ids},
              !.media.waiting = {w \in @ : w.id \notin ids},
              !.tasks = {[t EXCEPT !.aborted = @ \/ t.id \in ids] : t \in @}]

KeyOf(m, id) == (CHOOSE job \in m.jobs : job.id = id).key
Failing(s, ids) ==
    [Dropped(s, ids) EXCEPT !.media.failed = @ \cup {KeyOf(s.media, id) : id \in ids}]

Session == [media |-> media, link |-> mediaLink, tasks |-> tasks]
Relinked(s, l) == [s EXCEPT !.link = l]

------------------------------------------------------------------------------
(* The session.                                                            *)

\* Events of the server's bookkeeping, the first of them when the connection is up:
\* members come and go, with their pictures.
BookEvents ==
    /\ \E wanted \in SUBSET Keys :
        LET l == [mediaLink EXCEPT !.up = TRUE, !.wanted = wanted]
        IN \E s \in Scheduled(Relinked(Session, l), Keys, disk.files) : Becomes(s)
    /\ UNCHANGED <<completions, disk>>

\* StreamItem::FileDownload: the stream is there.
Download ==
    /\ \E x \in mediaLink.watched :
        /\ mediaLink' = [mediaLink EXCEPT !.watched = @ \ {x}]
        /\ \E w \in media.waiting :
            /\ w.handle = x.handle
            /\ media' = [media EXCEPT !.waiting = @ \ {w}]
            /\ tasks' = tasks \cup {Spawned(media, w.id)}
    /\ UNCHANGED <<completions, disk>>

\* StreamItem::FiletransferFailed.
DownloadFailed ==
    /\ \E x \in mediaLink.watched, w \in media.waiting :
        /\ w.handle = x.handle
        /\ LET l == [mediaLink EXCEPT !.watched = @ \ {x}]
           IN \E s \in Scheduled(Relinked(Failing(Session, {w.id}), l),
                                 Keys \ Badges, disk.files) : Becomes(s)
    /\ UNCHANGED <<completions, disk>>

\* Downloads::complete: the staged file is moved to its place, or removed.
Completion ==
    /\ completions # << >>
    /\ LET c == Head(completions)
           expected == c.generation = media.generation /\ \E job \in media.jobs : job.id = c.id
           key == KeyOf(media, c.id)
       IN /\ completions' = Tail(completions)
          /\ \E moved \in BOOLEAN :
              LET good == expected /\ c.ok /\ moved
                  s == CASE ~expected -> Session
                         [] good -> Dropped(Session, {c.id})
                         [] OTHER -> Failing(Session, {c.id})
              IN /\ disk' = [files |-> IF good THEN disk.files \cup {key} ELSE disk.files,
                             staged |-> disk.staged \ {c.id}]
                 /\ \E r \in Scheduled(s, Keys, disk'.files) : Becomes(r)

\* Downloads::expire, on the tick: jobs whose deadline has passed are given up, and
\* the connection watches their transfers no more. Every second what is wanted is
\* asked for again.
Tick ==
    /\ \E late \in SUBSET media.jobs :
        LET ids == {job.id : job \in late}
            handles == {w.handle : w \in {x \in media.waiting : x.id \in ids}}
            l == [mediaLink EXCEPT !.watched = {x \in @ : x.handle \notin handles}]
        IN \E r \in Scheduled(Relinked(Failing(Session, ids), l), Keys, disk.files) :
              Becomes(r)
    /\ UNCHANGED <<completions, disk>>

\* Downloads::cancel.
AllGivenUp(s) ==
    [Dropped(s, {job.id : job \in s.media.jobs}) EXCEPT
        !.media.generation = @ + 1, !.media.failed = {}]

\* The connection is interrupted; the session goes on with a new one.
ConnectionLost ==
    /\ mediaLink.up /\ media.generation < MaxGeneration
    /\ Becomes(Relinked(AllGivenUp(Session), NoLink(mediaLink.since)))
    /\ UNCHANGED <<completions, disk>>

\* The session ends, and the completions that nobody takes any more go with it.
SessionEnds ==
    /\ media.generation < MaxGeneration
    /\ Becomes(Relinked(AllGivenUp(Session), NoLink(media.generation + 1)))
    /\ completions' = << >>
    /\ disk' = [disk EXCEPT !.staged = @ \ {completions[i].id : i \in DOMAIN completions}]

------------------------------------------------------------------------------
(* The tasks and their threads.                                            *)

Goes(t, at) == tasks' = (tasks \ {t}) \cup {[t EXCEPT !.at = at]}
FreesSlot == media' = [media EXCEPT !.slots = @ + 1]

\* A completion is sent; without a receiver it is dropped, with its file.
Sends(t, ok) ==
    IF t.generation >= mediaLink.since
    THEN /\ completions' = Append(completions,
                                  [id |-> t.id, generation |-> t.generation, ok |-> ok])
         /\ UNCHANGED disk
    ELSE UNCHANGED completions /\ disk' = [disk EXCEPT !.staged = @ \ {t.id}]

\* A task that reads is aborted.
Unwind(t) ==
    /\ t.at = "read" /\ t.aborted
    /\ tasks' = tasks \ {t} /\ FreesSlot /\ UNCHANGED <<completions, disk, mediaLink>>

\* read_image, read_badge: too long, too short, too late or no picture.
ReadFails(t) ==
    /\ t.at = "read" /\ tasks' = tasks \ {t} /\ FreesSlot
    /\ Sends(t, FALSE) /\ UNCHANGED mediaLink

\* The picture is read and its thread creates the staged file, with the slot. A task
\* that is aborted may just have come here.
Stage(t) ==
    /\ t.at = "read" /\ Goes(t, "write")
    /\ disk' = [disk EXCEPT !.staged = @ \cup {t.id}]
    /\ UNCHANGED <<media, completions, mediaLink>>

\* The thread ends: the file is written, or removed, and the slot is free.
WriteEnds(t) ==
    /\ t.at = "write" /\ FreesSlot
    /\ \/ Goes(t, "written") /\ UNCHANGED disk
       \/ Goes(t, "broken") /\ disk' = [disk EXCEPT !.staged = @ \ {t.id}]
    /\ UNCHANGED <<completions, mediaLink>>

\* The task reports; nobody waits for the thread of an aborted one, unless the task
\* was just about to.
Report(t) ==
    /\ t.at \in {"written", "broken"} /\ tasks' = tasks \ {t}
    /\ \/ Sends(t, t.at = "written")
       \/ t.aborted /\ UNCHANGED completions /\ disk' = [disk EXCEPT !.staged = @ \ {t.id}]
    /\ UNCHANGED <<media, mediaLink>>

MediaNext ==
    \/ BookEvents \/ Download \/ DownloadFailed \/ Completion \/ Tick
    \/ ConnectionLost \/ SessionEnds
    \/ \E t \in tasks : Unwind(t) \/ ReadFails(t) \/ Stage(t) \/ WriteEnds(t) \/ Report(t)

MediaSpec == MediaInit /\ [][MediaNext]_mediaVars

------------------------------------------------------------------------------
(* Properties.                                                             *)

MediaTypeOK ==
    /\ media.slots \in 0 .. MaxTransfers /\ media.failed \subseteq Keys
    /\ media.jobs \subseteq [id : 1 .. MaxJobs, key : Keys]
    /\ tasks \subseteq [id : 1 .. MaxJobs, generation : Nat, aborted : BOOLEAN,
                        at : {"read", "write", "written", "broken"}]
    /\ disk.files \subseteq Keys /\ disk.staged \subseteq 1 .. MaxJobs

\* No more than MAX_MEDIA_TRANSFERS pictures are asked for, read or written at a
\* time, those of connections given up included, and no slot is lost; a file is
\* loaded once at a time; what is staged will be moved or removed by somebody
\* ("cancellation_keeps_blocking_write_slots_until_the_writers_exit",
\* "aborted_blocking_writer_cleans_its_own_file").
SlotsAreCounted ==
    media.slots + Cardinality(media.waiting)
        + Cardinality({t \in tasks : t.at \in {"read", "write"}}) = MaxTransfers
StagedAreOwned ==
    \A id \in disk.staged :
        \/ \E t \in tasks : t.id = id /\ t.at \in {"write", "written"}
        \/ \E i \in DOMAIN completions : completions[i].id = id /\ completions[i].ok
TransfersAreOwned ==
    /\ SlotsAreCounted /\ StagedAreOwned
    /\ \A job, other \in media.jobs : job.key = other.key => job = other

\* A handle leads to a job that still has its slot: download unwraps both. The
\* answer of the connection is for the picture the job is about.
WaitingLeads ==
    \A w \in media.waiting :
        /\ \A t \in tasks : t.id # w.id
        /\ \E job \in media.jobs : job.id = w.id /\
                [handle |-> w.handle, key |-> job.key] \in mediaLink.watched
=============================================================================
