---------------------------- MODULE ChainSwitch ----------------------------
(***************************************************************************)
(* A new noise suppression while somebody speaks (audio_processing.rs and  *)
(* the session's AudioProcessingState in lib.rs).                          *)
(*                                                                         *)
(* Three threads: the session hands in blocks, asks for a selection and    *)
(* takes results; a loader builds the new chain and feeds it the last      *)
(* blocks; the worker runs the old chain until it finds the new one        *)
(* prepared, feeds it what is missing and goes on with it. They share one  *)
(* mutex, held for moments only: what one of them read may be old when it  *)
(* acts on it. Blocks and frames are numbered; a block is 960 samples. A   *)
(* Prepared with the generation it was built for is one record.            *)
(***************************************************************************)
EXTENDS Integers, Sequences, SequencesExt

CONSTANTS
    Selections,     \* the noise suppressions
    Delay,          \* how many blocks a chain of each of them holds back
    WorkLen,        \* the worker's channel, 5 in the program
    ResultLen,      \* the results' channel, 5
    RecentLen,      \* the blocks that are remembered, 16
    Warm,           \* the blocks a new chain is warmed with, 2
    CatchUp,        \* the blocks the worker feeds it at most, 4
    Kept,           \* the frames the loader keeps, 5
    Rounds,         \* how often the loader looks for new blocks, 8
    MaxBlocks,      \* bound: the blocks that are captured
    MaxTroubles     \* bound: requests, invalidations and failures, together

ASSUME SwitchAssumption ==
    /\ Delay \in [Selections -> Nat]
    /\ WorkLen \in Nat \ {0} /\ ResultLen \in Nat \ {0} /\ RecentLen \in Nat
    /\ Warm \in Nat /\ CatchUp \in Nat /\ Kept \in Nat /\ Rounds \in Nat
    /\ MaxBlocks \in Nat /\ MaxTroubles \in Nat

\* The program's numbers: more is remembered than a chain is warmed with or fed at once,
\* and the frames of what it is warmed with are kept.
ASSUME LimitsAssumption == CatchUp < RecentLen /\ Warm <= RecentLen /\ Warm <= Kept

None == -1      \* no cursor, no last frame

VARIABLES
    shared,     \* Shared: desired, generation, epoch, loading, recent, prepared
    blocks,     \* the worker's channel
    results,    \* the results' channel
    dsp,        \* the worker's locals
    loader,     \* the loader's locals
    state,      \* AudioProcessingState and the session's block counter
    heard       \* history: the frames the session took up in this epoch

switchVars == <<shared, blocks, results, dsp, loader, state, heard>>

-----------------------------------------------------------------------------
(* A chain holds some blocks back; its frames are numbered on from the     *)
(* first block it was fed. A frame remembers the block it was made of.     *)

Chain(selection) == [selection |-> selection, next |-> None, held |-> << >>]
Reset(chain) == Chain(chain.selection)

Excess(n, limit) == IF n > limit THEN n - limit ELSE 0
LastOf(s, count) == SubSeq(s, Excess(Len(s), count) + 1, Len(s))

\* What comes of blocks, one after the other: all are held back but the excess.
Feed(run, input) ==
    LET chain == run.chain
        next == IF chain.next = None /\ input # << >> THEN Head(input).start ELSE chain.next
        all == chain.held \o input
        count == Excess(Len(all), Delay[chain.selection])
    IN  [chain  |-> [chain EXCEPT !.next = next + count, !.held = SubSeq(all, count + 1, Len(all))],
         frames |-> run.frames \o [i \in 1 .. count |-> [start |-> next + i - 1, of |-> all[i]]]]

FeedKeeping(run, input) ==
    LET fed == Feed(run, input) IN [fed EXCEPT !.frames = LastOf(fed.frames, Kept)]

\* Blocks and frames are numbered upwards: what a filter keeps of them is their end.
Since(start, s) ==
    SubSeq(s, Cardinality({i \in 1 .. Len(s) : s[i].start < start}) + 1, Len(s))

-----------------------------------------------------------------------------
(* The session.                                                            *)

MoreTrouble == shared.generation + state.flushes + state.errors < MaxTroubles

Put(item) == IF Len(blocks) < WorkLen THEN Append(blocks, item) ELSE blocks
Nudge == [start |-> None]

\* Processor::capture: a block that finds the channel full is gone, its number too.
Capture ==
    /\ state.blocks < MaxBlocks
    /\ state' = [state EXCEPT !.blocks = @ + 1]
    /\ blocks' = Put([start |-> state.blocks, epoch |-> shared.epoch])
    /\ UNCHANGED <<shared, results, dsp, loader, heard>>

\* Processor::invalidate: muted, another mode, another channel, a release.
Flushed(s) == [s EXCEPT !.epoch = @ + 1, !.recent = << >>]

FlushBlocks ==
    /\ MoreTrouble
    /\ state' = [state EXCEPT !.flushes = @ + 1]
    /\ shared' = Flushed(shared)
    /\ blocks' = Put(Nudge)
    /\ heard' = << >>
    /\ UNCHANGED <<results, dsp, loader>>

\* AudioProcessingState::request, Processor::request. A loader that is at work
\* sees the new generation; a thread that cannot be started is a failure.
Request(selection) ==
    /\ MoreTrouble
    /\ state' = [state EXCEPT !.requested = selection, !.switching = TRUE,
                              !.generation = shared.generation + 1]
    /\ \E starts \in BOOLEAN :
        IF shared.loading \/ starts
        THEN /\ shared' = [shared EXCEPT !.desired = selection, !.generation = @ + 1, !.loading = TRUE]
             /\ loader' = IF shared.loading THEN loader ELSE [loader EXCEPT !.pc = "start"]
             /\ UNCHANGED blocks
        ELSE /\ shared' = [shared EXCEPT !.desired = selection, !.generation = @ + 1,
                               !.prepared = {[loader EXCEPT !.pc = "failed",
                                                            !.generation = shared.generation + 1]}]
             /\ blocks' = Put(Nudge)
             /\ UNCHANGED loader
    /\ UNCHANGED <<results, dsp, heard>>

\* AudioProcessingState::completed.
Completed(s, event) ==
    CASE event.kind = "applied" ->
            [s EXCEPT !.switching = @ /\ event.generation # s.generation,
                      !.active = event.generation, !.applied = event.selection]
      [] event.kind = "failed" /\ event.generation = s.generation ->
            [s EXCEPT !.switching = FALSE,
                      !.applied = event.selection, !.requested = event.selection]
      [] OTHER -> s

TakeEvent ==
    /\ results # << >>
    /\ results' = Tail(results)
    /\ LET event == Head(results) IN
       CASE event.kind = "audio" ->
               /\ heard' = IF event.epoch = shared.epoch /\ event.generation = state.active
                           THEN Append(heard, event) ELSE heard
               /\ UNCHANGED <<shared, blocks, state>>
         [] event.kind = "gap" ->
               /\ UNCHANGED state
               /\ IF event.epoch = shared.epoch
                  THEN /\ shared' = Flushed(shared)
                       /\ blocks' = Put(Nudge)
                       /\ heard' = << >>
                  ELSE UNCHANGED <<shared, blocks, heard>>
         [] OTHER ->
               /\ state' = Completed(state, event)
               /\ UNCHANGED <<shared, blocks, heard>>
    /\ UNCHANGED <<dsp, loader>>

-----------------------------------------------------------------------------
(* The loader, from one lock to the next.                                  *)

MayFail == MoreTrouble
CountError == state' = [state EXCEPT !.errors = @ + 1]

LoaderStart ==
    /\ loader.pc = "start"
    /\ loader' = [loader EXCEPT !.pc = "warm", !.generation = shared.generation,
                                !.run = [chain |-> Chain(shared.desired), frames |-> << >>]]
    /\ UNCHANGED <<shared, blocks, results, dsp, state, heard>>

\* The chain is built, and warmed with the last blocks of this moment's epoch.
LoaderWarm ==
    /\ loader.pc = "warm"
    /\ LET recent == LastOf(shared.recent, Warm)
       IN  loader' = [loader EXCEPT
                        !.pc = "look", !.round = 0, !.epoch = shared.epoch,
                        !.run = FeedKeeping(loader.run, recent),
                        !.cursor = IF recent = << >> THEN 0 ELSE Last(recent).start + 1]
    /\ UNCHANGED <<shared, blocks, results, dsp, state, heard>>

\* Bounded snapshots of what was captured meanwhile.
LoaderLook ==
    /\ loader.pc = "look"
    /\ LET pending == Since(loader.cursor, shared.recent)
       IN  loader' =
            IF loader.round = Rounds
            THEN [loader EXCEPT !.pc = "done"]
            ELSE IF shared.generation # loader.generation
            THEN [loader EXCEPT !.pc = "failed"]
            ELSE IF shared.epoch # loader.epoch
            THEN [loader EXCEPT !.pc = "done",
                                !.run = [chain |-> Reset(loader.run.chain), frames |-> << >>]]
            ELSE IF pending = << >>
            THEN [loader EXCEPT !.pc = "done"]
            ELSE IF Head(pending).start # loader.cursor
            THEN [loader EXCEPT !.pc = "failed"]
            ELSE [loader EXCEPT !.run = FeedKeeping(loader.run, pending), !.round = @ + 1,
                                !.cursor = Last(pending).start + 1]
    /\ UNCHANGED <<shared, blocks, results, dsp, state, heard>>

\* A model that cannot be built or run, a panic, or more than five seconds.
LoaderFails ==
    /\ loader.pc \in {"warm", "look"} /\ MayFail
    /\ CountError
    /\ loader' = [loader EXCEPT !.pc = "failed"]
    /\ UNCHANGED <<shared, blocks, results, dsp, heard>>

\* Superseded, it starts over; otherwise the result is there for the worker.
\* Mutant of Superseded: a result counts even if another selection was asked for meanwhile.
SupersededNever == FALSE

Superseded == shared.generation # loader.generation

LoaderEnds ==
    /\ loader.pc \in {"done", "failed"}
    /\ IF Superseded
       THEN loader' = [loader EXCEPT !.pc = "start"] /\ UNCHANGED <<shared, blocks>>
       ELSE /\ shared' = [shared EXCEPT !.loading = FALSE, !.prepared = {loader}]
            /\ blocks' = Put(Nudge)
            /\ loader' = [loader EXCEPT !.pc = "off"]
    /\ UNCHANGED <<results, dsp, state, heard>>

-----------------------------------------------------------------------------
(* The worker, from one lock to the next. What it has to send goes first.  *)

Failed(generation) ==
    [kind |-> "failed", generation |-> generation, selection |-> dsp.chain.selection]
Audio(generation, epoch, frame) ==
    [kind |-> "audio", generation |-> generation, epoch |-> epoch, frame |-> frame]
Gap == [kind |-> "gap", epoch |-> dsp.epoch]

At(pc) == dsp.pc = pc /\ dsp.out = << >>

WorkerSend ==
    /\ dsp.out # << >> /\ Len(results) < ResultLen
    /\ results' = Append(results, Head(dsp.out))
    /\ dsp' = [dsp EXCEPT !.out = Tail(@)]
    /\ UNCHANGED <<shared, blocks, loader, state, heard>>

WorkerReceive ==
    /\ At("receive") /\ blocks # << >>
    /\ blocks' = Tail(blocks)
    /\ dsp' = [dsp EXCEPT !.pc = "take", !.work = Head(blocks)]
    /\ UNCHANGED <<shared, results, loader, state, heard>>

\* Where the new chain takes over: behind the last frame of the old one.
Boundary(p) ==
    IF dsp.last # None THEN dsp.last ELSE IF dsp.cursor # None THEN dsp.cursor ELSE p.cursor

\* The prepared chain is taken, and fed what was captured since it was warmed;
\* one of an earlier epoch starts afresh.
CaughtUp(p) ==
    LET pending == Since(p.cursor, shared.recent)
    IN  IF p.epoch # shared.epoch
        THEN [p EXCEPT !.run = [chain |-> Reset(p.run.chain), frames |-> << >>]]
        ELSE IF Len(pending) > CatchUp
        THEN [p EXCEPT !.pc = "failed"]
        ELSE [p EXCEPT !.run = Feed(p.run, pending)]

WorkerTake ==
    /\ At("take")
    /\ shared' = [shared EXCEPT !.prepared = {}]
    /\ \/ /\ \A p \in shared.prepared : p.generation # shared.generation
          /\ dsp' = [dsp EXCEPT !.pc = "check"]
          /\ UNCHANGED state
       \/ \E p \in shared.prepared :
            /\ p.generation = shared.generation /\ p.pc = "failed"
            /\ dsp' = [dsp EXCEPT !.pc = "check", !.out = <<Failed(p.generation)>>]
            /\ UNCHANGED state
       \/ \E p \in shared.prepared, fails \in BOOLEAN :
            /\ p.generation = shared.generation /\ p.pc = "done"
            /\ dsp' = [dsp EXCEPT
                        !.pc = "install", !.boundary = Boundary(p), !.seen = shared.epoch,
                        !.prepared = {IF fails THEN [p EXCEPT !.pc = "failed"] ELSE CaughtUp(p)}]
            /\ IF fails THEN MayFail /\ CountError ELSE UNCHANGED state
    /\ UNCHANGED <<blocks, results, loader, heard>>

\* The chain is replaced. Frames of it that the old chain has not given go out now.
\* Mutant of Fresh: all frames of the new chain go out.
FreshAll(frames) == frames

Fresh(frames) == Since(dsp.boundary, frames)

WorkerInstall ==
    /\ At("install")
    /\ \E p \in dsp.prepared :
        LET newer == shared.epoch # dsp.seen
            chain == IF newer THEN Reset(p.run.chain) ELSE p.run.chain
            frames == IF newer THEN << >> ELSE Fresh(p.run.frames)
            before == IF newer THEN None ELSE dsp.last
            applied == [kind |-> "applied", generation |-> p.generation,
                        selection |-> chain.selection]
            next == [dsp EXCEPT !.pc = "check", !.prepared = {}]
        IN  dsp' =
            IF p.generation # shared.generation
            THEN next
            ELSE IF p.pc = "failed"
            THEN [next EXCEPT !.out = <<Failed(p.generation)>>]
            ELSE [next EXCEPT
                    !.chain = chain, !.generation = p.generation, !.epoch = shared.epoch,
                    !.cursor = IF newer THEN None ELSE @,
                    !.last = IF frames = << >> THEN before ELSE Last(frames).start + 1,
                    !.out = <<applied>> \o
                        [i \in DOMAIN frames |-> Audio(p.generation, shared.epoch, frames[i])]]
    /\ UNCHANGED <<shared, blocks, results, loader, state, heard>>

\* A new epoch starts the chain afresh, and a block out of turn as well.
InEpoch == IF dsp.epoch = shared.epoch THEN dsp
           ELSE [dsp EXCEPT !.epoch = shared.epoch, !.chain = Reset(@),
                            !.cursor = None, !.last = None]

WorkerCheck ==
    /\ At("check")
    /\ LET d == InEpoch IN
       IF dsp.work = Nudge \/ dsp.work.epoch # shared.epoch
       THEN dsp' = [d EXCEPT !.pc = "receive"] /\ UNCHANGED shared
       ELSE IF d.cursor \in {None, dsp.work.start}
       THEN dsp' = [d EXCEPT !.pc = "record"] /\ UNCHANGED shared
       ELSE /\ dsp' = [d EXCEPT !.pc = "record", !.chain = Reset(@), !.last = None,
                                !.out = <<[kind |-> "gap", epoch |-> shared.epoch]>>]
            /\ shared' = [shared EXCEPT !.recent = << >>]
    /\ UNCHANGED <<blocks, results, loader, state, heard>>

\* audio_processing.rs: "Invalidation may race the earlier epoch read; never warm
\* a new mode with old PCM."
StillInEpoch == dsp.work.epoch = shared.epoch

WorkerRecord ==
    /\ At("record")
    /\ LET d == [dsp EXCEPT !.pc = "receive", !.cursor = dsp.work.start + 1]
           run == Feed([chain |-> dsp.chain, frames |-> << >>], <<dsp.work>>)
           frames == Since(dsp.last, run.frames)
       IN  IF ~StillInEpoch
           THEN dsp' = d /\ UNCHANGED <<shared, state>>
           ELSE /\ shared' = [shared EXCEPT !.recent = LastOf(Append(@, dsp.work), RecentLen)]
                /\ \/ /\ dsp' = [d EXCEPT
                            !.chain = run.chain,
                            !.last = IF frames = << >> THEN @ ELSE Last(frames).start + 1,
                            !.out = [i \in DOMAIN frames |->
                                        Audio(dsp.generation, dsp.epoch, frames[i])]]
                      /\ UNCHANGED state
                   \/ /\ MayFail /\ CountError
                      /\ dsp' = [d EXCEPT !.chain = Reset(@), !.last = None,
                                          !.out = <<Gap, Failed(dsp.generation)>>]
    /\ UNCHANGED <<blocks, results, loader, heard>>

-----------------------------------------------------------------------------
SwitchInit ==
    \E first \in Selections :
        /\ shared = [desired |-> first, generation |-> 0, epoch |-> 0, loading |-> FALSE,
                     recent |-> << >>, prepared |-> {}]
        /\ blocks = << >> /\ results = << >> /\ heard = << >>
        /\ loader = [pc |-> "off", generation |-> 0, epoch |-> 0, cursor |-> 0, round |-> 0,
                     run |-> [chain |-> Chain(first), frames |-> << >>]]
        /\ dsp = [pc |-> "receive", work |-> Nudge, prepared |-> {}, boundary |-> 0, seen |-> 0,
                  chain |-> Chain(first), generation |-> 0, epoch |-> 0,
                  cursor |-> None, last |-> None, out |-> << >>]
        /\ state = [requested |-> first, applied |-> first, generation |-> 0, active |-> 0,
                    switching |-> FALSE, blocks |-> 0,
                    flushes |-> 0, errors |-> 0]

SwitchNext ==
    \/ Capture \/ FlushBlocks \/ TakeEvent
    \/ \E selection \in Selections : Request(selection)
    \/ LoaderStart \/ LoaderWarm \/ LoaderLook \/ LoaderFails \/ LoaderEnds
    \/ WorkerSend \/ WorkerReceive \/ WorkerTake \/ WorkerInstall \/ WorkerCheck \/ WorkerRecord

SwitchSpec == SwitchInit /\ [][SwitchNext]_switchVars

-----------------------------------------------------------------------------
(* Properties.                                                             *)

\* What the session takes up is made of the block it is named after, nothing comes
\* twice, and nothing is missing where one chain is at work; at a switch nothing is
\* missing either, unless the new chain was prepared in an earlier epoch. No block of
\* an earlier epoch (before a mute, a release, a move) is heard in this one
\* (audio_processing.rs:535: "loader replayed an older mode's audio").
HeardInOrder ==
    \A i \in DOMAIN heard :
        /\ heard[i].frame.of.start = heard[i].frame.start
        /\ heard[i].frame.of.epoch = shared.epoch
        /\ i > 1 =>
            /\ heard[i].frame.start > heard[i - 1].frame.start
            /\ heard[i].generation = heard[i - 1].generation \/ shared.epoch = 0 =>
                    heard[i].frame.start = heard[i - 1].frame.start + 1

\* audio_processing.rs:611: "lost or repeated audio at switch". No frame is missing.
NothingMissing ==
    \A i \in DOMAIN heard : i > 1 => heard[i].frame.start = heard[i - 1].frame.start + 1

\* A switch ends: with all threads at rest nothing is pending, and what the user
\* is told is the chain that runs. No generation and no wake is lost on the way.
RestIsSwitched ==
    (blocks = << >> /\ results = << >> /\ At("receive") /\ loader.pc = "off") =>
        /\ ~state.switching
        /\ state.applied = dsp.chain.selection /\ state.requested = state.applied

=============================================================================
