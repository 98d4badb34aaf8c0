------------------------------ MODULE Playback ------------------------------
(***************************************************************************)
(* The ring between the session, which decodes, and the callbacks of the   *)
(* device, which must never wait (playback.rs), with the cue that is mixed *)
(* into it (sounds.rs) and the session's side of it (lib.rs).              *)
(*                                                                         *)
(* Nothing is locked: the session, the callbacks and the lifecycle thread  *)
(* read and write single atomic words in between each other. Each step     *)
(* below reads or writes one word, or several that could be moved together *)
(* past the steps of the others. Positions count in parts of Frame, so     *)
(* that a callback may take a part of what was pushed. A callback mixes in *)
(* one sample of a cue.                                                    *)
(***************************************************************************)
EXTENDS Integers, Sequences, FiniteSetsExt

CONSTANTS
    Callbacks,      \* the device's threads: two may be in render at once
    Frame,          \* what the session pushes at once, 960
    Capacity,       \* of the ring, 16384
    Sizes,          \* what a callback asks for
    CueLength,      \* the samples of a cue
    MaxEvents       \* bound: orders to the session or the lifecycle thread, cues that come
                    \* too late, and renders, which count twice, together

\* The ring holds what is prepared and a frame more, and no cell of it is shared.
ASSUME PlaybackAssumption ==
    /\ Frame \in Nat \ {0} /\ Capacity \in Nat /\ 3 * Frame <= Capacity
    /\ Sizes \subseteq Nat \ {0} /\ CueLength \in Nat \ {0} /\ MaxEvents \in Nat

Prepared == 2 * Frame
\* A read of a part of a frame may call for a whole one: that much is kept free.
MaxTarget == (Capacity \div Frame - 1) * Frame

VARIABLES
    ring,       \* samples: what each place holds, as its position in the stream
    pos,        \* read, write, floor
    aim,        \* target, reserve
    rendering,  \* rendering: a callback owns the ring
    revision,   \* revision
    ready,      \* ready_revision
    signal,     \* pending, and the datagrams on their way to the session
    word,       \* Slot::word: active, output epoch, cue, cursor, generation
    late,       \* whether the cue is past expires_ns
    fill,       \* the session's locals
    cb,         \* the callbacks' locals
    life,       \* the lifecycle thread
    past        \* history: heard up to, resumed at, cues and actions so far

playbackVars == <<ring, pos, aim, rendering, revision, ready, signal, word, late, fill, cb, life, past>>

Larger(a, b) == IF a > b THEN a ELSE b
Smaller(a, b) == IF a < b THEN a ELSE b
RoundUp(n) == ((n + Frame - 1) \div Frame) * Frame

Available == Larger(0, pos.write - Larger(pos.read, pos.floor))
Output == [active |-> word.active, epoch |-> word.epoch]

\* Playback::request: one datagram at a time.
\* Mutant of Requested: only the first request is sent, nobody acknowledged it.
RequestedOnce == [pending |-> TRUE, sent |-> signal.sent]

Requested == [pending |-> TRUE, sent |-> IF signal.pending THEN signal.sent ELSE signal.sent + 1]

-----------------------------------------------------------------------------
(* The session: it is woken, clears what a new revision makes old, fills   *)
(* up, and says for which revision.                                        *)

MoreEvents == past.events < MaxEvents
Counted == [past EXCEPT !.events = @ + 1]

\* Acknowledged before the fill: what is taken meanwhile wakes the session again.
WakeUp ==
    /\ fill.pc = "idle" /\ signal.sent > 0
    /\ signal' = [sent |-> signal.sent - 1, pending |-> FALSE]
    /\ fill' = [fill EXCEPT !.pc = "revision"]
    /\ UNCHANGED <<ring, pos, aim, rendering, revision, ready, word, late, cb, life, past>>

LookAtRevision ==
    /\ fill.pc = "revision"
    /\ fill' = [fill EXCEPT !.revision = revision,
                            !.pc = IF revision # fill.revision THEN "clear" ELSE "active",
                            !.then = "active"]
    /\ UNCHANGED <<ring, pos, aim, rendering, revision, ready, signal, word, late, cb, life, past>>

\* Playback::clear: the floor, and the targets, which no callback reads.
ClearRing ==
    /\ fill.pc = "clear"
    /\ pos' = [pos EXCEPT !.floor = pos.write]
    /\ aim' = [target |-> Prepared, reserve |-> Prepared]
    /\ fill' = [fill EXCEPT !.pc = fill.then]
    /\ UNCHANGED <<ring, rendering, revision, ready, signal, word, late, cb, life, past>>

\* refill: a target that has grown is met with silence first.
LookAtActive ==
    /\ fill.pc = "active"
    /\ LET target == RoundUp(aim.target) IN
       IF fill.wanted /\ word.active
       THEN /\ aim' = [aim EXCEPT !.reserve = target]
            /\ fill' = [fill EXCEPT !.pc = "grow", !.target = target,
                                    !.pushes = Larger(0, target - aim.reserve) \div Frame]
       ELSE fill' = [fill EXCEPT !.pc = "idle"] /\ UNCHANGED aim
    /\ UNCHANGED <<ring, pos, rendering, revision, ready, signal, word, late, cb, life, past>>

\* Then by the budget of this moment.
LookAtBudget ==
    /\ fill.pc = "grow" /\ fill.pushes = 0
    /\ fill' = [fill EXCEPT !.pc = "decode",
                            !.pushes = RoundUp(Larger(0, fill.target - Available)) \div Frame]
    /\ UNCHANGED <<ring, pos, aim, rendering, revision, ready, signal, word, late, cb, life, past>>

\* Playback::push: the samples, then the write position.
PushSamples ==
    /\ fill.pc \in {"grow", "decode"} /\ fill.pushes > 0 /\ ~fill.stored
    /\ ring' = [i \in DOMAIN ring |->
                    IF \E k \in 0 .. Frame - 1 : i = (pos.write + k) % Capacity
                    THEN CHOOSE p \in pos.write .. pos.write + Frame - 1 : i = p % Capacity
                    ELSE ring[i]]
    /\ fill' = [fill EXCEPT !.stored = TRUE]
    /\ UNCHANGED <<pos, aim, rendering, revision, ready, signal, word, late, cb, life, past>>

PushWrite ==
    /\ fill.stored
    /\ pos' = [pos EXCEPT !.write = @ + Frame]
    /\ fill' = [fill EXCEPT !.stored = FALSE, !.pushes = @ - 1]
    /\ UNCHANGED <<ring, aim, rendering, revision, ready, signal, word, late, cb, life, past>>

\* Playback::prepared, for the revision that was read before.
\* Mutant of PreparedFor: for the revision of this moment.
PreparedForNow == revision

PreparedFor == fill.revision

SayPrepared ==
    /\ fill.pc = "decode" /\ fill.pushes = 0
    /\ ready' = PreparedFor
    /\ fill' = [fill EXCEPT !.pc = "idle"]
    /\ UNCHANGED <<ring, pos, aim, rendering, revision, signal, word, late, cb, life, past>>

\* Another channel, the output muted or not, no right to hear: clear and request.
ClearByCommand ==
    /\ fill.pc = "idle" /\ MoreEvents
    /\ \E wanted \in BOOLEAN :
        fill' = [fill EXCEPT !.pc = "clear", !.wanted = wanted, !.then = "request"]
    /\ past' = Counted
    /\ UNCHANGED <<ring, pos, aim, rendering, revision, ready, signal, word, late, cb, life>>

RequestByCommand ==
    /\ fill.pc = "request"
    /\ signal' = Requested
    /\ fill' = [fill EXCEPT !.pc = "idle"]
    /\ UNCHANGED <<ring, pos, aim, rendering, revision, ready, word, late, cb, life, past>>

\* Slot::play, for nothing while there is no output: the word is read, the expiry stored, and the word replaced if it is
\* of the same output and generation still.
PlayCue ==
    /\ fill.pc = "idle" /\ MoreEvents /\ word.active
    /\ past' = Counted
    /\ fill' = [fill EXCEPT !.pc = "play", !.word = word]
    /\ late' = FALSE
    /\ UNCHANGED <<ring, pos, aim, rendering, revision, ready, signal, word, cb, life>>

SameEpoch(a, b) == a.active = b.active /\ a.epoch = b.epoch /\ a.generation = b.generation

PlayInEpoch ==
    /\ fill.pc = "play"
    /\ IF SameEpoch(word, fill.word)
       THEN /\ word' = [word EXCEPT !.generation = @ + 1, !.cue = past.cues + 1, !.cursor = 0]
            /\ past' = [past EXCEPT !.cues = @ + 1]
       ELSE UNCHANGED <<word, past>>
    /\ fill' = [fill EXCEPT !.pc = "idle"]
    /\ UNCHANGED <<ring, pos, aim, rendering, revision, ready, signal, late, cb, life>>

StopCue ==
    /\ fill.pc = "idle" /\ MoreEvents
    /\ word' = [word EXCEPT !.generation = @ + 1, !.cue = 0, !.cursor = 0]
    /\ past' = Counted
    /\ UNCHANGED <<ring, pos, aim, rendering, revision, ready, signal, late, fill, cb, life>>

\* Time passes; the thread that polls finds the cue expired.
CueLate ==
    /\ word.cue # 0 /\ ~late /\ MoreEvents
    /\ late' = TRUE
    /\ past' = Counted
    /\ UNCHANGED <<ring, pos, aim, rendering, revision, ready, signal, word, fill, cb, life>>

Pending ==
    /\ word.cue # 0 /\ late
    /\ word' = [word EXCEPT !.cue = 0, !.cursor = 0]
    /\ UNCHANGED <<ring, pos, aim, rendering, revision, ready, signal, late, fill, cb, life, past>>

-----------------------------------------------------------------------------
(* The lifecycle thread: the output on or off, or built anew.              *)

\* Slot::set_active: turned off, the word forgets the cue and counts the output.
SetActive ==
    /\ life = "idle" /\ MoreEvents
    /\ word' = IF word.active
               THEN [word EXCEPT !.active = FALSE, !.epoch = @ + 1, !.cue = 0, !.cursor = 0]
               ELSE [word EXCEPT !.active = TRUE]
    /\ life' = "revise"
    /\ past' = [Counted EXCEPT !.resumed = IF word.active THEN @ ELSE pos.write,
                                        !.cuesBefore = IF word.active THEN @ ELSE past.cues]
    /\ UNCHANGED <<ring, pos, aim, rendering, revision, ready, signal, late, fill, cb>>

Reconfigure ==
    /\ life = "idle" /\ MoreEvents
    /\ life' = "revise"
    /\ past' = Counted
    /\ UNCHANGED <<ring, pos, aim, rendering, revision, ready, signal, word, late, fill, cb>>

Revise ==
    /\ life = "revise"
    /\ revision' = revision + 1
    /\ life' = "request"
    /\ UNCHANGED <<ring, pos, aim, rendering, ready, signal, word, late, fill, cb, past>>

RequestByLife ==
    /\ life = "request"
    /\ signal' = Requested
    /\ life' = "idle"
    /\ UNCHANGED <<ring, pos, aim, rendering, revision, ready, word, late, fill, cb, past>>

-----------------------------------------------------------------------------
(* A callback: Playback::render.                                           *)

To(c, pc) == [cb EXCEPT ![c].pc = pc]
Silence == [pc |-> "idle", frames |-> 0, owns |-> FALSE, revision |-> 0,
            output |-> [active |-> FALSE, epoch |-> 0], read |-> 0, count |-> 0,
            cells |-> << >>, voice |-> FALSE, word |-> [cue |-> 0], cue |-> 0, tries |-> 0,
            floor |-> 0, resumed |-> 0, cuesBefore |-> 0]

sharedVars == <<ring, pos, aim, rendering, revision, ready, signal, word, late, fill, life, past>>

\* Only one callback owns the ring; another gives silence.
Owns == ~rendering

Begin(c, frames) ==
    /\ cb[c].pc = "idle" /\ past.events + 1 < MaxEvents
    /\ past' = [past EXCEPT !.events = @ + 2]
    /\ rendering' = TRUE
    /\ cb' = [cb EXCEPT ![c] = [Silence EXCEPT !.pc = IF Owns THEN "output" ELSE "grow",
                                  !.frames = frames, !.owns = Owns, !.revision = revision]]
    /\ UNCHANGED <<ring, pos, aim, revision, ready, signal, word, late, fill, life>>

LoadOutput(c) ==
    /\ cb[c].pc = "output"
    /\ cb' = [To(c, "floor") EXCEPT ![c].output = Output]
    /\ UNCHANGED sharedVars

LoadFloor(c) ==
    /\ cb[c].pc = "floor"
    /\ cb' = [To(c, "active") EXCEPT ![c].read = Larger(pos.read, pos.floor)]
    /\ UNCHANGED sharedVars

LoadActive(c) ==
    /\ cb[c].pc = "active"
    /\ cb' = To(c, IF word.active THEN "ready" ELSE "check")
    /\ UNCHANGED sharedVars

LoadReady(c) ==
    /\ cb[c].pc = "ready"
    /\ cb' = To(c, IF ready = cb[c].revision THEN "count" ELSE "check")
    /\ UNCHANGED sharedVars

LoadWrite(c) ==
    /\ cb[c].pc = "count"
    /\ LET count == Smaller(cb[c].frames, Larger(0, pos.write - cb[c].read)) IN
       cb' = [To(c, IF count > 0 THEN "copy" ELSE "check")
                EXCEPT ![c].voice = TRUE, ![c].count = count]
    /\ UNCHANGED sharedVars

CopySample(c) ==
    /\ cb[c].pc = "copy"
    /\ LET next == Len(cb[c].cells) IN
       cb' = [To(c, IF next + 1 < cb[c].count THEN "copy" ELSE "check")
                EXCEPT ![c].cells = Append(@, ring[(cb[c].read + next) % Capacity])]
    /\ UNCHANGED sharedVars

\* "A concurrent pause/reset must not publish an old channel's samples."
CheckRevision(c) ==
    /\ cb[c].pc = "check"
    /\ cb' = IF revision # cb[c].revision
             THEN [To(c, "cue") EXCEPT ![c].voice = FALSE]
             ELSE To(c, "cleared")
    /\ UNCHANGED sharedVars

\* Mutant of Cleared: the floor is not read again.
ClearedNever(c) == FALSE

Cleared(c) == cb[c].read < pos.floor

CheckFloor(c) ==
    /\ cb[c].pc = "cleared"
    /\ cb' = [cb EXCEPT ![c] = [cb[c] EXCEPT !.pc = "cue", !.voice = cb[c].voice /\ ~Cleared(c),
                                             !.floor = pos.floor]]
    /\ UNCHANGED sharedVars

\* Slot::sample_in_output: a cue of this output, as long as the word is not another's.
LoadCue(c) ==
    /\ cb[c].pc = "cue"
    /\ cb' = IF cb[c].output.active /\ Output = cb[c].output /\ word.cue # 0 /\ cb[c].tries < 2
             THEN [To(c, "sample") EXCEPT ![c].word = word, ![c].tries = @ + 1]
             ELSE To(c, "final")
    /\ UNCHANGED sharedVars

AfterSample(w) ==
    IF late \/ w.cursor + 1 = CueLength THEN [w EXCEPT !.cue = 0, !.cursor = 0]
                                        ELSE [w EXCEPT !.cursor = @ + 1]

SampleCue(c) ==
    /\ cb[c].pc = "sample"
    /\ IF word = cb[c].word
       THEN /\ word' = AfterSample(word)
            /\ cb' = [To(c, "final") EXCEPT ![c].cue = IF late THEN 0 ELSE word.cue]
       ELSE UNCHANGED word /\ cb' = To(c, IF late THEN "final" ELSE "cue")
    /\ UNCHANGED <<ring, pos, aim, rendering, revision, ready, signal, late, fill, life, past>>

\* A pause that came meanwhile takes the whole batch back.
CheckOutput(c) ==
    /\ cb[c].pc = "final"
    /\ LET same == Output = cb[c].output /\ word.active IN
       cb' = [cb EXCEPT ![c] = [cb[c] EXCEPT !.pc = "store", !.voice = cb[c].voice /\ same,
                                             !.cue = IF same THEN cb[c].cue ELSE 0,
                                             !.resumed = past.resumed,
                                             !.cuesBefore = past.cuesBefore]]
    /\ UNCHANGED sharedVars

Sounds(c) == cb[c].voice /\ cb[c].count > 0

StoreRead(c) ==
    /\ cb[c].pc = "store"
    /\ pos' = [pos EXCEPT !.read = cb[c].read + cb[c].count]
    /\ rendering' = FALSE
    /\ past' = [past EXCEPT !.heard = IF Sounds(c) THEN cb[c].read + cb[c].count ELSE @]
    /\ cb' = To(c, "grow")
    /\ UNCHANGED <<ring, aim, revision, ready, signal, word, late, fill, life>>

GrowTarget(c) ==
    /\ cb[c].pc = "grow"
    /\ aim' = [aim EXCEPT !.target =
                Larger(@, Smaller(MaxTarget, Larger(Prepared, 2 * cb[c].frames)))]
    /\ cb' = To(c, "request")
    /\ UNCHANGED <<ring, pos, rendering, revision, ready, signal, word, late, fill, life, past>>

RequestByCallback(c) ==
    /\ cb[c].pc = "request"
    /\ signal' = Requested
    /\ cb' = [cb EXCEPT ![c] = Silence]
    /\ UNCHANGED <<ring, pos, aim, rendering, revision, ready, word, late, fill, life, past>>

-----------------------------------------------------------------------------
\* A session has begun: cleared, and asked for a fill.
PlaybackInit ==
    /\ ring = [i \in 0 .. Capacity - 1 |-> 0]
    /\ pos = [read |-> 0, write |-> 0, floor |-> 0]
    /\ aim = [target |-> Prepared, reserve |-> Prepared]
    /\ rendering = FALSE /\ revision = 0 /\ ready = -1
    /\ signal = [pending |-> TRUE, sent |-> 1]
    /\ word = [active |-> TRUE, epoch |-> 0, generation |-> 0, cue |-> 0, cursor |-> 0]
    /\ late = FALSE
    /\ fill = [pc |-> "idle", then |-> "idle", revision |-> 0, wanted |-> TRUE, target |-> 0,
               pushes |-> 0, stored |-> FALSE, word |-> word]
    /\ cb = [c \in Callbacks |-> Silence]
    /\ life = "idle"
    /\ past = [heard |-> 0, resumed |-> 0, cues |-> 0, cuesBefore |-> 0,
               events |-> 0]

Session ==
    \/ WakeUp \/ LookAtRevision \/ ClearRing \/ LookAtActive
    \/ LookAtBudget \/ PushSamples \/ PushWrite \/ SayPrepared
    \/ ClearByCommand \/ RequestByCommand \/ PlayCue \/ PlayInEpoch \/ StopCue

Render(c) ==
    \/ \E frames \in Sizes : Begin(c, frames)
    \/ LoadOutput(c) \/ LoadFloor(c) \/ LoadActive(c) \/ LoadReady(c) \/ LoadWrite(c)
    \/ CopySample(c) \/ CheckRevision(c) \/ CheckFloor(c) \/ LoadCue(c) \/ SampleCue(c)
    \/ CheckOutput(c) \/ StoreRead(c) \/ GrowTarget(c) \/ RequestByCallback(c)

PlaybackNext ==
    \/ Session \/ CueLate \/ Pending
    \/ SetActive \/ Reconfigure \/ Revise \/ RequestByLife
    \/ \E c \in Callbacks : Render(c)

PlaybackSpec == PlaybackInit /\ [][PlaybackNext]_playbackVars

-----------------------------------------------------------------------------
(* Properties.                                                             *)

\* What a callback gives is a stretch of the stream: each sample from its own
\* place, none of what was cleared before its check, none a second time.
HeardIsWhole ==
    \A c \in Callbacks : cb[c].pc = "store" /\ Sounds(c) =>
        /\ \A i \in DOMAIN cb[c].cells : cb[c].cells[i] = cb[c].read + i - 1
        /\ cb[c].read >= cb[c].floor
        /\ cb[c].read >= past.heard

\* An output that was paused and resumed gives nothing from before: neither what
\* was decoded for the old output nor a cue of it ("a pause cannot resurrect a sound").
ResumedIsFresh ==
    \A c \in Callbacks : cb[c].pc = "store" =>
        /\ Sounds(c) => cb[c].read >= cb[c].resumed
        /\ cb[c].cue # 0 => cb[c].cue > cb[c].cuesBefore

\* Nobody waits for the other: when all rest, a fill was made after the last take,
\* for this revision. And a push always finds its place free.
RestIsFilled ==
    /\ fill.pc \in {"grow", "decode"} /\ fill.pushes > 0 /\ ~fill.stored =>
            Available + Frame <= Capacity
    /\ (/\ fill.pc = "idle" /\ signal.sent = 0 /\ life = "idle"
        /\ \A c \in Callbacks : cb[c].pc = "idle"
        /\ fill.wanted /\ word.active) => Available >= aim.target /\ ready = revision

=============================================================================
