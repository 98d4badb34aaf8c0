---------------------------- MODULE SoundProofs ----------------------------
(***************************************************************************)
(* Sound, for every value of the constants: what ChainSwitch promises of a *)
(* chain of processing that is replaced, and, behind it, what Playback     *)
(* promises of its ring.                                                   *)
(*                                                                         *)
(* That the switch ends at rest is not inductive: at rest nothing is left  *)
(* to look at. The invariant follows a request instead. It is under way in *)
(* one place only, with the loader, at the lock or in the hands of the     *)
(* worker; while it is, nothing said counts for it; when it is no longer,  *)
(* and the user still waits, what counts is said and not yet heard. And    *)
(* the last answer that is on its way names the chain that runs.           *)
(*                                                                         *)
(* Nor is the order of what is heard. There the invariant is about the     *)
(* line of all that is said, heard or not: each sound of this epoch        *)
(* follows the one before it. It goes on if every chain, the one that      *)
(* runs, the one in the loader, the prepared and the taken one, was fed    *)
(* the remembered blocks up to a cursor, and begins early enough for where *)
(* the worker's last sound ends. A gap of the epoch ends what counts.      *)
(***************************************************************************)
EXTENDS ChainSwitch, Playback, SequenceTheorems, FiniteSetTheorems, TLAPS

Pieces == [start : Int, epoch : Nat]
Frames == [start : Int, of : Pieces]
Chains == [selection : Selections, next : Int, held : Seq(Pieces)]
Runs == [chain : Chains, frames : Seq(Frames)]
Loaders ==
    [pc : {"off", "start", "warm", "look", "done", "failed"}, generation : Nat, epoch : Nat,
     cursor : Int, round : Int, run : Runs]
Answered == [kind : {"applied", "failed"}, generation : Nat, selection : Selections]
Events ==
    Answered \union [kind : {"audio"}, generation : Nat, epoch : Nat, frame : Frames]
             \union [kind : {"gap"}, epoch : Nat]
Works == Pieces \union {Nudge}
Flags == BOOLEAN

SharedTypes ==
    shared \in [desired : Selections, generation : Nat, epoch : Nat, loading : Flags,
                recent : Seq(Pieces), prepared : SUBSET Loaders]
DspTypes ==
    dsp \in [pc : {"receive", "take", "install", "check", "record"}, work : Works,
             prepared : SUBSET Loaders, boundary : Int, seen : Nat, chain : Chains,
             generation : Nat, epoch : Nat, cursor : Int, last : Int, out : Seq(Events)]
StateTypes ==
    state \in [requested : Selections, applied : Selections, generation : Nat, active : Nat,
               switching : Flags, blocks : Nat, flushes : Nat, errors : Nat]
SwitchTypes ==
    /\ SharedTypes /\ DspTypes /\ StateTypes
    /\ loader \in Loaders
    /\ blocks \in Seq(Works) /\ results \in Seq(Events) /\ heard \in Seq(Events)
    /\ (dsp.pc = "record" => dsp.work \in Pieces)

-----------------------------------------------------------------------------
LEMMA LastOfIs ==
    ASSUME NEW S, NEW s \in Seq(S), NEW count \in Nat
    PROVE  /\ LastOf(s, count) \in Seq(S)
           /\ Len(LastOf(s, count)) = Len(s) - Excess(Len(s), count)
           /\ Excess(Len(s), count) \in 0 .. Len(s)
           /\ \A i \in 1 .. Len(LastOf(s, count)) : LastOf(s, count)[i] = s[Excess(Len(s), count) + i]
<1>1. Len(s) \in Nat
  OBVIOUS
<1>2. Excess(Len(s), count) \in 0 .. Len(s)
  BY <1>1 DEF Excess
<1> DEFINE x == Excess(Len(s), count)
<1>3. x \in 0 .. Len(s)
  BY <1>2
<1> HIDE DEF x
<1>4. /\ SubSeq(s, x + 1, Len(s)) \in Seq(S)
      /\ Len(SubSeq(s, x + 1, Len(s))) = Len(s) - x
      /\ \A i \in 1 .. Len(s) - x : SubSeq(s, x + 1, Len(s))[i] = s[x + i]
  BY <1>1, <1>3
<1>5. LastOf(s, count) = SubSeq(s, x + 1, Len(s))
  BY DEF LastOf, x
<1> QED BY <1>3, <1>4, <1>5 DEF x

\* Where a filter by start begins.
Older(start, s) == Cardinality({i \in 1 .. Len(s) : s[i].start < start})

LEMMA SinceIs ==
    ASSUME NEW S, NEW s \in Seq(S), NEW start
    PROVE  /\ Older(start, s) \in 0 .. Len(s)
           /\ Since(start, s) = SubSeq(s, Older(start, s) + 1, Len(s))
           /\ Since(start, s) \in Seq(S)
           /\ Len(Since(start, s)) = Len(s) - Older(start, s)
           /\ \A i \in 1 .. Len(s) - Older(start, s) :
                  Since(start, s)[i] = s[Older(start, s) + i]
<1>1. Len(s) \in Nat
  OBVIOUS
<1> DEFINE old == {i \in 1 .. Len(s) : s[i].start < start}
<1>2. IsFiniteSet(1 .. Len(s)) /\ Cardinality(1 .. Len(s)) = Len(s)
  BY <1>1, FS_Interval
<1>3. Cardinality(old) \in Nat /\ Cardinality(old) <= Len(s)
  BY <1>2, FS_Subset, FS_CardinalityType
<1>4. Older(start, s) = Cardinality(old) /\ Since(start, s) = SubSeq(s, Cardinality(old) + 1, Len(s))
  BY DEF Older, Since
<1> HIDE DEF old
<1> DEFINE x == Cardinality(old)
<1>5. x \in 0 .. Len(s)
  BY <1>1, <1>3
<1> HIDE DEF x
<1>6. /\ SubSeq(s, x + 1, Len(s)) \in Seq(S)
      /\ Len(SubSeq(s, x + 1, Len(s))) = Len(s) - x
      /\ \A i \in 1 .. Len(s) - x : SubSeq(s, x + 1, Len(s))[i] = s[x + i]
  BY <1>1, <1>5
<1> QED BY <1>4, <1>5, <1>6 DEF x

\* What a chain gives: the first blocks of those it held and those it is fed.
LEMMA FeedTypes ==
    ASSUME SwitchAssumption, NEW run \in Runs, NEW input \in Seq(Pieces)
    PROVE  /\ Feed(run, input) \in Runs
           /\ Feed(run, input).chain.selection = run.chain.selection
<1> DEFINE all == run.chain.held \o input
           next == IF run.chain.next = None /\ input # << >> THEN Head(input).start
                   ELSE run.chain.next
           count == Excess(Len(all), Delay[run.chain.selection])
           frames == [i \in 1 .. count |-> [start |-> next + i - 1, of |-> all[i]]]
<1>1. run.chain \in Chains /\ run.frames \in Seq(Frames) /\ run.chain.held \in Seq(Pieces)
      /\ run.chain.next \in Int /\ Delay[run.chain.selection] \in Nat
  BY DEF Runs, Chains, SwitchAssumption
<1>2. next \in Int
  <2>1. CASE input # << >>
    <3>1. Head(input) \in Pieces
      BY <2>1
    <3> QED BY <3>1, <1>1 DEF Pieces
  <2>2. CASE input = << >>
    BY <2>2, <1>1
  <2> QED BY <2>1, <2>2
<1>3. all \in Seq(Pieces) /\ Len(all) \in Nat
  BY <1>1
<1>4. count \in 0 .. Len(all)
  BY <1>1, <1>3 DEF Excess
<1>5. Feed(run, input) =
          [chain |-> [run.chain EXCEPT !.next = next + count,
                                       !.held = SubSeq(all, count + 1, Len(all))],
           frames |-> run.frames \o frames]
  BY DEF Feed
<1> HIDE DEF all, count, next
<1>6. frames \in Seq(Frames)
  BY <1>2, <1>3, <1>4, IsASeq DEF Frames
<1>7. SubSeq(all, count + 1, Len(all)) \in Seq(Pieces) /\ next + count \in Int
  BY <1>2, <1>3, <1>4
<1>8. [run.chain EXCEPT !.next = next + count, !.held = SubSeq(all, count + 1, Len(all))] \in Chains
      /\ [run.chain EXCEPT !.next = next + count,
                           !.held = SubSeq(all, count + 1, Len(all))].selection = run.chain.selection
  BY <1>1, <1>7 DEF Chains
<1>9. run.frames \o frames \in Seq(Frames)
  BY <1>1, <1>6
<1> DEFINE c == [run.chain EXCEPT !.next = next + count, !.held = SubSeq(all, count + 1, Len(all))]
           f == run.frames \o frames
<1>10. Feed(run, input) = [chain |-> c, frames |-> f] /\ c \in Chains /\ f \in Seq(Frames)
       /\ c.selection = run.chain.selection
  BY <1>5, <1>8, <1>9
<1> HIDE DEF c, f
<1>11. [chain |-> c, frames |-> f] \in Runs /\ [chain |-> c, frames |-> f].chain = c
  BY <1>10 DEF Runs
<1> QED BY <1>10, <1>11

LEMMA FeedKeepingTypes ==
    ASSUME SwitchAssumption, NEW run \in Runs, NEW input \in Seq(Pieces)
    PROVE  /\ FeedKeeping(run, input) \in Runs
           /\ FeedKeeping(run, input).chain = Feed(run, input).chain
           /\ FeedKeeping(run, input).frames = LastOf(Feed(run, input).frames, Kept)
  BY FeedTypes, LastOfIs DEF Runs, SwitchAssumption, FeedKeeping

LEMMA ChainTypes ==
    ASSUME NEW selection \in Selections
    PROVE  Chain(selection) \in Chains /\ Chain(selection).selection = selection
BY DEF Chain, Chains, None

LEMMA ResetTypes ==
    ASSUME NEW chain \in Chains
    PROVE  Reset(chain) \in Chains /\ Reset(chain).selection = chain.selection
BY ChainTypes DEF Chains, Reset

LEMMA PutTypes ==
    ASSUME SwitchAssumption, blocks \in Seq(Works), NEW item \in Works
    PROVE  Put(item) \in Seq(Works) /\ Put(item) # << >>
BY DEF Put, SwitchAssumption

LEMMA EventTypes ==
    ASSUME SwitchTypes
    PROVE  /\ \A g \in Nat : Failed(g) \in Events
           /\ \A g, e \in Nat, f \in Frames : Audio(g, e, f) \in Events
           /\ Gap \in Events
           /\ Nudge \in Works
BY DEF SwitchTypes, DspTypes, Failed, Audio, Gap, Events, Answered, Chains, Works

\* What goes out of a run.
LEMMA AudioSeqTypes ==
    ASSUME NEW frames \in Seq(Frames), NEW g \in Nat, NEW e \in Nat
    PROVE  /\ [i \in DOMAIN frames |-> Audio(g, e, frames[i])] \in Seq(Events)
           /\ Len([i \in DOMAIN frames |-> Audio(g, e, frames[i])]) = Len(frames)
  BY IsASeq DEF Audio, Events

LEMMA FlagsAre == TRUE \in Flags /\ FALSE \in Flags
BY DEF Flags

LEMMA InitTypes ==
    ASSUME SwitchAssumption, SwitchInit
    PROVE  SwitchTypes
<1>1. PICK first \in Selections : SwitchInit!(first)
  BY DEF SwitchInit
<1>2. Chain(first) \in Chains
  BY ChainTypes
<1>3. << >> \in Seq(Pieces) /\ << >> \in Seq(Works) /\ << >> \in Seq(Events) /\ << >> \in Seq(Frames)
  BY EmptySeq
<1>4. [chain |-> Chain(first), frames |-> << >>] \in Runs
  BY <1>2, <1>3 DEF Runs
<1>5. SharedTypes /\ StateTypes
  BY <1>1, <1>3, FlagsAre DEF SharedTypes, StateTypes
<1>6. DspTypes
  BY <1>1, <1>2, <1>3 DEF DspTypes, Works, None
<1>7. loader \in Loaders
  BY <1>4, <1>1 DEF Loaders
<1>8. dsp.pc # "record"
  BY <1>1
<1> QED BY <1>1, <1>3, <1>5, <1>6, <1>7, <1>8 DEF SwitchTypes

LEMMA FlushedTypes ==
    ASSUME SharedTypes
    PROVE  /\ Flushed(shared) = [shared EXCEPT !.epoch = shared.epoch + 1, !.recent = << >>]
           /\ (shared' = Flushed(shared) => SharedTypes')
<1> DEFINE n == shared.epoch + 1
           r == << >>
<1>1. n \in Nat /\ r \in Seq(Pieces)
  BY EmptySeq DEF SharedTypes
<1>2. Flushed(shared) = [shared EXCEPT !.epoch = n, !.recent = r]
  BY DEF Flushed
<1> HIDE DEF n, r
<1>3. ASSUME shared' = [shared EXCEPT !.epoch = n, !.recent = r] PROVE SharedTypes'
  BY <1>1, <1>3 DEF SharedTypes
<1> QED BY <1>2, <1>3 DEF n, r

LEMMA ErrorTypes ==
    ASSUME StateTypes, CountError
    PROVE  StateTypes' /\ state' = [state EXCEPT !.errors = state.errors + 1]
  BY DEF StateTypes, CountError

LEMMA SessionTypesStep ==
    ASSUME SwitchAssumption, SwitchTypes,
           Capture \/ FlushBlocks \/ TakeEvent \/ \E selection \in Selections : Request(selection)
    PROVE  SwitchTypes'
<1>a. SharedTypes
  BY DEF SwitchTypes
<1>b. StateTypes
  BY DEF SwitchTypes
<1>c. DspTypes
  BY DEF SwitchTypes
<1>d. loader \in Loaders
  BY DEF SwitchTypes
<1>e. blocks \in Seq(Works)
  BY DEF SwitchTypes
<1>f. results \in Seq(Events)
  BY DEF SwitchTypes
<1>g. heard \in Seq(Events)
  BY DEF SwitchTypes
<1>h. dsp.pc = "record" => dsp.work \in Pieces
  BY DEF SwitchTypes
<1>1. CASE Capture
  <2>1. [start |-> state.blocks, epoch |-> shared.epoch] \in Works
    BY <1>a, <1>b DEF Works, Pieces, SharedTypes, StateTypes
  <2>2. blocks' \in Seq(Works)
    BY <1>1, <2>1, PutTypes, <1>e DEF Capture
  <2>3. StateTypes'
    BY <1>1, <1>b DEF Capture, StateTypes
  <2> QED BY <1>1, <2>2, <2>3, <1>a, <1>b, <1>c, <1>d, <1>e, <1>f, <1>g, <1>h DEF Capture, SharedTypes, DspTypes, SwitchTypes
<1>2. CASE FlushBlocks
  <2>1. blocks' \in Seq(Works)
    BY <1>2, PutTypes, EventTypes, <1>e DEF FlushBlocks
  <2>2. StateTypes' /\ SharedTypes'
    <3> DEFINE n == state.flushes + 1
    <3>1. n \in Nat
      BY <1>b DEF StateTypes
    <3>2. state' = [state EXCEPT !.flushes = n] /\ shared' = Flushed(shared)
      BY <1>2 DEF FlushBlocks
    <3> HIDE DEF n
    <3>3. StateTypes'
      BY <3>1, <3>2, <1>b DEF StateTypes
    <3> QED BY <3>2, <3>3, <1>a, FlushedTypes
  <2>3. heard' \in Seq(Events)
    BY <1>2, EmptySeq DEF FlushBlocks
  <2> QED BY <1>2, <2>1, <2>2, <2>3, <1>a, <1>b, <1>c, <1>d, <1>e, <1>f, <1>g, <1>h DEF FlushBlocks, DspTypes, SwitchTypes
<1>3. CASE TakeEvent
  <2>1. results' \in Seq(Events) /\ Head(results) \in Events
    BY <1>3, <1>f DEF TakeEvent
  <2>2. blocks' \in Seq(Works)
    BY <1>3, PutTypes, EventTypes, <1>e DEF TakeEvent
  <2>3. SharedTypes'
    BY <1>3, <1>a, FlushedTypes DEF TakeEvent, SharedTypes
  <2>4. heard' \in Seq(Events)
    <3>1. \/ heard' = Append(heard, Head(results)) \/ heard' = heard \/ heard' = << >>
      BY <1>3 DEF TakeEvent
    <3> DEFINE x == Append(heard, Head(results))
               e == << >>
    <3>2. x \in Seq(Events) /\ e \in Seq(Events)
      BY <2>1, EmptySeq, <1>g
    <3>3. \/ heard' = x \/ heard' = heard \/ heard' = e
      BY <3>1
    <3> HIDE DEF x, e
    <3> QED BY <3>2, <3>3, <1>g
  <2>5. StateTypes'
    <3>1. CASE Head(results).kind \in {"audio", "gap"}
      BY <3>1, <1>3, <1>b DEF TakeEvent, StateTypes
    <3>2. CASE Head(results).kind \notin {"audio", "gap"}
      <4> DEFINE e == Head(results)
      <4>1. e \in Answered
        BY <3>2, <2>1 DEF Events
      <4>2. state' = Completed(state, e)
        BY <3>2, <1>3 DEF TakeEvent
      <4> DEFINE b == state.switching /\ e.generation # state.generation
      <4>3. b \in Flags /\ FALSE \in Flags
        BY  DEF Flags
      <4>4. \/ state' = [state EXCEPT !.switching = b, !.active = e.generation, !.applied = e.selection]
            \/ state' = [state EXCEPT !.switching = FALSE, !.applied = e.selection,
                                      !.requested = e.selection]
            \/ state' = state
        BY <4>2 DEF Completed
      <4> HIDE DEF e, b
      <4> QED BY <4>1, <4>3, <4>4, <1>b DEF StateTypes, Answered
    <3> QED BY <3>1, <3>2
  <2> QED BY <1>3, <2>1, <2>2, <2>3, <2>4, <2>5, <1>a, <1>b, <1>c, <1>d, <1>e, <1>f, <1>g, <1>h DEF TakeEvent, DspTypes, SwitchTypes
<1>4. ASSUME NEW selection \in Selections, Request(selection) PROVE SwitchTypes'
  <2>1. blocks' \in Seq(Works)
    BY <1>4, PutTypes, EventTypes, <1>e DEF Request
  <2>2. StateTypes'
    <3> DEFINE n == shared.generation + 1
    <3>1. n \in Nat
      BY <1>a DEF SharedTypes
    <3>2. state' = [state EXCEPT !.requested = selection, !.switching = TRUE, !.generation = n]
      BY <1>4 DEF Request
    <3> HIDE DEF n
    <3> QED BY <3>1, <3>2, <1>b, FlagsAre DEF StateTypes
  <2>3. [loader EXCEPT !.pc = "start"] \in Loaders
        /\ [loader EXCEPT !.pc = "failed", !.generation = shared.generation + 1] \in Loaders
    <3> DEFINE n == shared.generation + 1
    <3>1. n \in Nat
      BY <1>a DEF SharedTypes
    <3> HIDE DEF n
    <3>2. [loader EXCEPT !.pc = "failed", !.generation = n] \in Loaders
      BY <3>1, <1>d DEF Loaders
    <3>3. [loader EXCEPT !.pc = "start"] \in Loaders
      BY <1>d DEF Loaders
    <3> QED BY <3>2, <3>3 DEF n
  <2>4. SharedTypes' /\ loader' \in Loaders
    <3> DEFINE failed == [loader EXCEPT !.pc = "failed", !.generation = shared.generation + 1]
    <3>1. failed \in Loaders
      BY <2>3
    <3> DEFINE n == shared.generation + 1
               one == {failed}
    <3>2. \/ shared' = [shared EXCEPT !.desired = selection, !.generation = n, !.loading = TRUE]
          \/ shared' = [shared EXCEPT !.desired = selection, !.generation = n, !.prepared = one]
      BY <1>4 DEF Request
    <3>3. n \in Nat /\ one \in SUBSET Loaders
      BY <3>1, <1>a DEF SharedTypes
    <3> HIDE DEF failed, n, one
    <3>4. SharedTypes'
      BY <3>2, <3>3, FlagsAre, <1>a DEF SharedTypes
    <3>5. loader' = loader \/ loader' = [loader EXCEPT !.pc = "start"]
      BY <1>4 DEF Request
    <3> QED BY <2>3, <3>4, <3>5, <1>d
  <2> QED BY <1>4, <2>1, <2>2, <2>4, <1>a, <1>b, <1>c, <1>d, <1>e, <1>f, <1>g, <1>h DEF Request, DspTypes, SwitchTypes
<1> QED BY <1>1, <1>2, <1>3, <1>4

LEMMA LoaderTypesStep ==
    ASSUME SwitchAssumption, SwitchTypes,
           LoaderStart \/ LoaderWarm \/ LoaderLook \/ LoaderFails \/ LoaderEnds
    PROVE  SwitchTypes'
<1>a. SharedTypes
  BY DEF SwitchTypes
<1>b. StateTypes
  BY DEF SwitchTypes
<1>c. DspTypes
  BY DEF SwitchTypes
<1>d. loader \in Loaders
  BY DEF SwitchTypes
<1>e. blocks \in Seq(Works)
  BY DEF SwitchTypes
<1>f. results \in Seq(Events)
  BY DEF SwitchTypes
<1>g. heard \in Seq(Events)
  BY DEF SwitchTypes
<1>h. dsp.pc = "record" => dsp.work \in Pieces
  BY DEF SwitchTypes
<1>1. CASE LoaderStart
  <2> DEFINE r == [chain |-> Chain(shared.desired), frames |-> << >>]
  <2>1. r \in Runs
    BY ChainTypes, EmptySeq, <1>a DEF Runs, SharedTypes
  <2>2. loader' = [loader EXCEPT !.pc = "warm", !.generation = shared.generation, !.run = r]
    BY <1>1 DEF LoaderStart
  <2> HIDE DEF r
  <2>3. loader' \in Loaders
    BY <2>1, <2>2, <1>a, <1>d DEF Loaders, SharedTypes
  <2> QED BY <1>1, <2>3, <1>a, <1>b, <1>c, <1>d, <1>e, <1>f, <1>g, <1>h DEF LoaderStart, SharedTypes, DspTypes, StateTypes, SwitchTypes
<1>2. CASE LoaderWarm
  <2> DEFINE recent == LastOf(shared.recent, Warm)
             r == FeedKeeping(loader.run, recent)
             c == IF recent = << >> THEN 0 ELSE Last(recent).start + 1
  <2>1. recent \in Seq(Pieces)
    BY LastOfIs, <1>a DEF SharedTypes, SwitchAssumption
  <2>2. r \in Runs
    BY <2>1, FeedKeepingTypes, <1>d DEF Loaders
  <2>3. loader' = [loader EXCEPT !.pc = "look", !.round = 0, !.epoch = shared.epoch, !.run = r, !.cursor = c]
    BY <1>2 DEF LoaderWarm
  <2> HIDE DEF recent
  <2>4. c \in Int
    <3>1. CASE recent # << >>
      <4>1. Last(recent) \in Pieces
        BY <3>1, <2>1 DEF Last
      <4> QED BY <4>1 DEF Pieces
    <3> QED BY <3>1
  <2> HIDE DEF r, c
  <2>5. loader' \in Loaders
    <3> DEFINE e == shared.epoch
               z == 0
               look == "look"
    <3>1. e \in Nat /\ z \in Int /\ look \in {"off", "start", "warm", "look", "done", "failed"}
      BY <1>a DEF SharedTypes
    <3>2. loader' = [loader EXCEPT !.pc = look, !.round = z, !.epoch = e, !.run = r, !.cursor = c]
      BY <2>3
    <3> HIDE DEF e, z, look
    <3> QED BY <2>2, <2>4, <3>1, <3>2, <1>d DEF Loaders
  <2> QED BY <1>2, <2>5, <1>a, <1>b, <1>c, <1>d, <1>e, <1>f, <1>g, <1>h DEF LoaderWarm, SharedTypes, DspTypes, StateTypes, SwitchTypes
<1>3. CASE LoaderLook
  <2> DEFINE pending == Since(loader.cursor, shared.recent)
             fresh == [chain |-> Reset(loader.run.chain), frames |-> << >>]
             r == FeedKeeping(loader.run, pending)
             c == Last(pending).start + 1
  <2>1. pending \in Seq(Pieces)
    BY SinceIs, <1>a DEF SharedTypes
  <2>2. r \in Runs
    BY <2>1, FeedKeepingTypes, <1>d DEF Loaders
  <2>3. fresh \in Runs
    BY ResetTypes, EmptySeq, <1>d DEF Runs, Loaders
  <2>4. \/ loader' = [loader EXCEPT !.pc = "done"]
        \/ loader' = [loader EXCEPT !.pc = "failed"]
        \/ loader' = [loader EXCEPT !.pc = "done", !.run = fresh]
        \/ /\ pending # << >>
           /\ loader' = [loader EXCEPT !.run = r, !.round = @ + 1, !.cursor = c]
    BY <1>3 DEF LoaderLook
  <2> HIDE DEF pending
  <2>5. pending # << >> => c \in Int
    <3>1. CASE pending # << >>
      <4>1. Last(pending) \in Pieces
        BY <3>1, <2>1 DEF Last
      <4> QED BY <4>1 DEF Pieces
    <3> QED BY <3>1
  <2> HIDE DEF r, c, fresh
  <2>6. loader' \in Loaders
    <3>1. CASE loader' = [loader EXCEPT !.pc = "done"] \/ loader' = [loader EXCEPT !.pc = "failed"]
      BY <3>1, <1>d DEF Loaders
    <3>2. CASE loader' = [loader EXCEPT !.pc = "done", !.run = fresh]
      BY <3>2, <2>3, <1>d DEF Loaders
    <3>3. CASE pending # << >> /\ loader' = [loader EXCEPT !.run = r, !.round = @ + 1, !.cursor = c]
      <4> DEFINE n == loader.round + 1
      <4>1. n \in Int /\ loader' = [loader EXCEPT !.run = r, !.round = n, !.cursor = c]
        BY <3>3, <1>d DEF Loaders
      <4> HIDE DEF n
      <4> QED BY <4>1, <3>3, <2>2, <2>5, <1>d DEF Loaders
    <3> QED BY <2>4, <3>1, <3>2, <3>3
  <2> QED BY <1>3, <2>6, <1>a, <1>b, <1>c, <1>d, <1>e, <1>f, <1>g, <1>h DEF LoaderLook, SharedTypes, DspTypes, StateTypes, SwitchTypes
<1>4. CASE LoaderFails
  <2>1. StateTypes' /\ loader' \in Loaders
    BY <1>4, <1>d, <1>b, ErrorTypes DEF LoaderFails, Loaders
  <2> QED BY <1>4, <2>1, <1>a, <1>b, <1>c, <1>d, <1>e, <1>f, <1>g, <1>h DEF LoaderFails, SharedTypes, DspTypes, SwitchTypes
<1>5. CASE LoaderEnds
  <2>1. loader' \in Loaders /\ SharedTypes'
    <3> DEFINE one == {loader}
    <3>1. \/ loader' = [loader EXCEPT !.pc = "start"] /\ shared' = shared
          \/ loader' = [loader EXCEPT !.pc = "off"]
             /\ shared' = [shared EXCEPT !.loading = FALSE, !.prepared = one]
      BY <1>5 DEF LoaderEnds
    <3>2. one \in SUBSET Loaders
      BY <1>d
    <3> HIDE DEF one
    <3>3. loader' \in Loaders
      BY <3>1, <1>d DEF Loaders
    <3>4. SharedTypes'
      BY <3>1, <3>2, FlagsAre, <1>a DEF SharedTypes
    <3> QED BY <3>3, <3>4
  <2>2. blocks' \in Seq(Works)
    BY <1>5, PutTypes, EventTypes, <1>e DEF LoaderEnds
  <2> QED BY <1>5, <2>1, <2>2, <1>a, <1>b, <1>c, <1>d, <1>e, <1>f, <1>g, <1>h DEF LoaderEnds, StateTypes, DspTypes, SwitchTypes
<1> QED BY <1>1, <1>2, <1>3, <1>4, <1>5

LEMMA RunRestarts ==
    ASSUME NEW p \in Loaders, NEW pc \in {"done", "failed"}
    PROVE  /\ [p EXCEPT !.pc = "failed"] \in Loaders
           /\ [p EXCEPT !.run = [chain |-> Reset(p.run.chain), frames |-> << >>]] \in Loaders
           /\ [chain |-> Reset(p.run.chain), frames |-> << >>] \in Runs
           /\ Reset(p.run.chain) \in Chains
           /\ Reset(p.run.chain).selection = p.run.chain.selection
  BY ResetTypes, EmptySeq DEF Loaders, Runs

\* The worker catches up: the same answer for the same request, or a failure.
LEMMA CaughtUpTypes ==
    ASSUME SwitchAssumption, SharedTypes, NEW p \in Loaders
    PROVE  /\ CaughtUp(p) \in Loaders
           /\ CaughtUp(p).generation = p.generation
           /\ CaughtUp(p).pc \in {p.pc, "failed"}
           /\ CaughtUp(p).run.chain.selection = p.run.chain.selection
  BY SinceIs, FeedTypes, RunRestarts DEF SharedTypes, Loaders, CaughtUp

\* The fields of the worker.
LEMMA DspFields ==
    ASSUME DspTypes
    PROVE  /\ dsp.pc \in {"receive", "take", "install", "check", "record"} /\ dsp.work \in Works
           /\ dsp.prepared \in SUBSET Loaders /\ dsp.boundary \in Int /\ dsp.seen \in Nat
           /\ dsp.chain \in Chains /\ dsp.generation \in Nat /\ dsp.epoch \in Nat
           /\ dsp.cursor \in Int /\ dsp.last \in Int /\ dsp.out \in Seq(Events)
BY DEF DspTypes

LEMMA SharedFields ==
    ASSUME SharedTypes
    PROVE  /\ shared.desired \in Selections /\ shared.generation \in Nat /\ shared.epoch \in Nat
           /\ shared.recent \in Seq(Pieces) /\ shared.prepared \in SUBSET Loaders
BY DEF SharedTypes

LEMMA BoundaryTypes ==
    ASSUME DspTypes, NEW p \in Loaders
    PROVE  Boundary(p) \in Int
BY DspFields DEF Boundary, Loaders

\* What the worker makes of itself when it installs p: a name for each part.
NewChain(p) == IF shared.epoch # dsp.seen THEN Reset(p.run.chain) ELSE p.run.chain
NewFrames(p) == IF shared.epoch # dsp.seen THEN << >> ELSE Fresh(p.run.frames)
NewLast(p) ==
    IF NewFrames(p) = << >> THEN IF shared.epoch # dsp.seen THEN None ELSE dsp.last
    ELSE Last(NewFrames(p)).start + 1
NewAudio(p) == [i \in DOMAIN NewFrames(p) |-> Audio(p.generation, shared.epoch, NewFrames(p)[i])]
Applied(p) ==
    [kind |-> "applied", generation |-> p.generation, selection |-> NewChain(p).selection]

Installs(p) ==
            \/ /\ p.generation # shared.generation
               /\ dsp' = [dsp EXCEPT !.pc = "check", !.prepared = {}]
            \/ /\ p.generation = shared.generation /\ p.pc = "failed"
               /\ dsp' = [dsp EXCEPT !.pc = "check", !.prepared = {},
                                     !.out = <<Failed(p.generation)>>]
            \/ /\ p.generation = shared.generation /\ p.pc # "failed"
               /\ dsp' = [dsp EXCEPT !.pc = "check", !.prepared = {},
                            !.chain = NewChain(p), !.generation = p.generation, !.epoch = shared.epoch,
                            !.cursor = IF shared.epoch # dsp.seen THEN None ELSE dsp.cursor,
                            !.last = NewLast(p), !.out = <<Applied(p)>> \o NewAudio(p)]

LEMMA InstallIs ==
    ASSUME WorkerInstall
    PROVE  At("install") /\ \E p \in dsp.prepared : Installs(p)
<1> DEFINE newer == shared.epoch # dsp.seen
           chain(p) == IF newer THEN Reset(p.run.chain) ELSE p.run.chain
           frames(p) == IF newer THEN << >> ELSE Fresh(p.run.frames)
           before == IF newer THEN None ELSE dsp.last
           applied(p) == [kind |-> "applied", generation |-> p.generation,
                          selection |-> chain(p).selection]
           next == [dsp EXCEPT !.pc = "check", !.prepared = {}]
<1>1. PICK p \in dsp.prepared :
        dsp' =
            IF p.generation # shared.generation
            THEN next
            ELSE IF p.pc = "failed"
            THEN [next EXCEPT !.out = <<Failed(p.generation)>>]
            ELSE [next EXCEPT
                    !.chain = chain(p), !.generation = p.generation, !.epoch = shared.epoch,
                    !.cursor = IF newer THEN None ELSE @,
                    !.last = IF frames(p) = << >> THEN before ELSE Last(frames(p)).start + 1,
                    !.out = <<applied(p)>> \o
                        [i \in DOMAIN frames(p) |-> Audio(p.generation, shared.epoch, frames(p)[i])]]
  BY Zenon DEF WorkerInstall
<1>0. At("install")
  BY DEF WorkerInstall
<1>2. CASE p.generation # shared.generation
  BY <1>0, <1>1, <1>2 DEF Installs
<1>3. CASE p.generation = shared.generation /\ p.pc = "failed"
  BY <1>0, <1>1, <1>3 DEF Installs
<1>4. CASE p.generation = shared.generation /\ p.pc # "failed"
  BY <1>1, <1>4, <1>0 DEF NewChain, NewFrames, Applied, NewLast, NewAudio, Installs
<1> QED BY <1>2, <1>3, <1>4

LEMMA InstalledTypes ==
    ASSUME SwitchAssumption, SharedTypes, DspTypes, NEW p \in Loaders
    PROVE  /\ NewChain(p) \in Chains /\ NewChain(p).selection = p.run.chain.selection
           /\ NewFrames(p) \in Seq(Frames) /\ NewLast(p) \in Int
           /\ NewAudio(p) \in Seq(Events) /\ Len(NewAudio(p)) = Len(NewFrames(p))
           /\ Applied(p) \in Answered /\ Applied(p) \in Events
           /\ <<Applied(p)>> \o NewAudio(p) \in Seq(Events)
           /\ Len(<<Applied(p)>> \o NewAudio(p)) = Len(NewFrames(p)) + 1
           /\ (<<Applied(p)>> \o NewAudio(p))[1] = Applied(p)
           /\ \A i \in 1 .. Len(NewFrames(p)) :
                (<<Applied(p)>> \o NewAudio(p))[i + 1] = Audio(p.generation, shared.epoch, NewFrames(p)[i])
<1>1. p.run \in Runs /\ p.generation \in Nat
  BY DEF Loaders
<1>2. p.run.chain \in Chains /\ p.run.frames \in Seq(Frames)
  BY <1>1 DEF Runs
<1>3. NewChain(p) \in Chains /\ NewChain(p).selection = p.run.chain.selection
  BY <1>2, ResetTypes DEF NewChain
<1>4. NewFrames(p) \in Seq(Frames)
  BY <1>2, SinceIs, EmptySeq DEF Fresh, NewFrames
<1>5. NewLast(p) \in Int
  <2>1. NewFrames(p) # << >> => Last(NewFrames(p)) \in Frames
    BY <1>4 DEF Last
  <2> QED BY <2>1, DspFields DEF NewLast, None, Frames
<1>6. /\ NewAudio(p) \in Seq(Events) /\ Len(NewAudio(p)) = Len(NewFrames(p))
      /\ \A i \in 1 .. Len(NewFrames(p)) : NewAudio(p)[i] = Audio(p.generation, shared.epoch, NewFrames(p)[i])
  <2> DEFINE f == NewFrames(p)
  <2>1. NewAudio(p) = [i \in DOMAIN f |-> Audio(p.generation, shared.epoch, f[i])]
    BY DEF NewAudio
  <2>2. f \in Seq(Frames) /\ shared.epoch \in Nat
    BY <1>4, SharedFields
  <2> HIDE DEF f
  <2>3. [i \in DOMAIN f |-> Audio(p.generation, shared.epoch, f[i])] \in Seq(Events)
        /\ Len([i \in DOMAIN f |-> Audio(p.generation, shared.epoch, f[i])]) = Len(f)
    BY <2>2, <1>1, AudioSeqTypes
  <2>4. \A i \in 1 .. Len(f) : [k \in DOMAIN f |-> Audio(p.generation, shared.epoch, f[k])][i]
                                    = Audio(p.generation, shared.epoch, f[i])
    BY <2>2
  <2> QED BY <2>1, <2>3, <2>4 DEF f
<1>7. Applied(p) \in Answered
  BY <1>1, <1>3 DEF Applied, Answered, Chains
<1>8. Applied(p) \in Events
  BY <1>7 DEF Events
<1> DEFINE a == NewAudio(p)
           x == Applied(p)
<1>9. a \in Seq(Events) /\ x \in Events
  BY <1>6, <1>8
<1> HIDE DEF a, x
<1>10. /\ <<x>> \o a \in Seq(Events) /\ Len(<<x>> \o a) = Len(a) + 1 /\ (<<x>> \o a)[1] = x
       /\ \A i \in 1 .. Len(a) : (<<x>> \o a)[i + 1] = a[i]
  BY <1>9
<1> QED BY <1>3, <1>4, <1>5, <1>6, <1>7, <1>8, <1>10 DEF a, x

\* What the worker makes of itself when it works on a block.
Recorded == Feed([chain |-> dsp.chain, frames |-> << >>], <<dsp.work>>)
Given == Since(dsp.last, Recorded.frames)
GivenAudio == [i \in DOMAIN Given |-> Audio(dsp.generation, dsp.epoch, Given[i])]
GivenLast == IF Given = << >> THEN dsp.last ELSE Last(Given).start + 1
Remembered == LastOf(Append(shared.recent, dsp.work), RecentLen)

LEMMA RecordIs ==
    ASSUME WorkerRecord
    PROVE  /\ dsp.pc = "record" /\ dsp.out = << >>
           /\ UNCHANGED <<blocks, results, loader, heard>>
           /\ \/ /\ dsp.work.epoch # shared.epoch
                 /\ dsp' = [dsp EXCEPT !.pc = "receive", !.cursor = dsp.work.start + 1]
                 /\ UNCHANGED <<shared, state>>
              \/ /\ dsp.work.epoch = shared.epoch
                 /\ shared' = [shared EXCEPT !.recent = Remembered]
                 /\ dsp' = [dsp EXCEPT !.pc = "receive", !.cursor = dsp.work.start + 1,
                                       !.chain = Recorded.chain, !.last = GivenLast,
                                       !.out = GivenAudio]
                 /\ UNCHANGED state
              \/ /\ dsp.work.epoch = shared.epoch
                 /\ shared' = [shared EXCEPT !.recent = Remembered]
                 /\ CountError
                 /\ dsp' = [dsp EXCEPT !.pc = "receive", !.cursor = dsp.work.start + 1,
                                       !.chain = Reset(dsp.chain), !.last = None,
                                       !.out = <<Gap, Failed(dsp.generation)>>]
<1> DEFINE d == [dsp EXCEPT !.pc = "receive", !.cursor = dsp.work.start + 1]
           run == Feed([chain |-> dsp.chain, frames |-> << >>], <<dsp.work>>)
           frames == Since(dsp.last, run.frames)
<1>1. /\ dsp.pc = "record" /\ dsp.out = << >>
      /\ UNCHANGED <<blocks, results, loader, heard>>
  BY DEF WorkerRecord, At
<1>2. IF ~StillInEpoch
      THEN dsp' = d /\ UNCHANGED <<shared, state>>
      ELSE /\ shared' = [shared EXCEPT !.recent = LastOf(Append(@, dsp.work), RecentLen)]
           /\ \/ /\ dsp' = [d EXCEPT
                            !.chain = run.chain,
                            !.last = IF frames = << >> THEN @ ELSE Last(frames).start + 1,
                            !.out = [i \in DOMAIN frames |->
                                        Audio(dsp.generation, dsp.epoch, frames[i])]]
                 /\ UNCHANGED state
              \/ /\ MayFail /\ CountError
                 /\ dsp' = [d EXCEPT !.chain = Reset(@), !.last = None,
                                     !.out = <<Gap, Failed(dsp.generation)>>]
  BY Zenon DEF WorkerRecord
<1>3. run = Recorded /\ frames = Given
  BY DEF Recorded, Given
<1>4. d.last = dsp.last /\ d.chain = dsp.chain
  OBVIOUS
<1>5. [i \in DOMAIN frames |-> Audio(dsp.generation, dsp.epoch, frames[i])] = GivenAudio
  BY <1>3 DEF GivenAudio
<1>6. (IF frames = << >> THEN d.last ELSE Last(frames).start + 1) = GivenLast
  BY <1>3, <1>4 DEF GivenLast
<1>7. CASE ~StillInEpoch
  BY <1>1, <1>2, <1>7 DEF StillInEpoch
<1>8. CASE StillInEpoch
  BY <1>2, <1>8, <1>3, <1>4, <1>5, <1>6, <1>1 DEF Remembered, StillInEpoch
<1> QED BY <1>7, <1>8

LEMMA RecordedTypes ==
    ASSUME SwitchAssumption, SharedTypes, DspTypes, dsp.work \in Pieces
    PROVE  /\ Recorded \in Runs /\ Recorded.chain \in Chains
           /\ Recorded.chain.selection = dsp.chain.selection
           /\ Given \in Seq(Frames) /\ GivenLast \in Int
           /\ GivenAudio \in Seq(Events) /\ Len(GivenAudio) = Len(Given)
           /\ \A i \in 1 .. Len(Given) : GivenAudio[i] = Audio(dsp.generation, dsp.epoch, Given[i])
           /\ Remembered \in Seq(Pieces)
<1> DEFINE r == [chain |-> dsp.chain, frames |-> << >>]
<1>1. r \in Runs /\ r.chain = dsp.chain
  BY DspFields, EmptySeq DEF Runs
<1>2. <<dsp.work>> \in Seq(Pieces)
  OBVIOUS
<1>3. Recorded = Feed(r, <<dsp.work>>)
  BY DEF Recorded
<1> HIDE DEF r
<1>4. Recorded \in Runs /\ Recorded.chain.selection = dsp.chain.selection
  BY <1>1, <1>2, <1>3, FeedTypes
<1>5. Recorded.frames \in Seq(Frames) /\ Recorded.chain \in Chains
  BY <1>4 DEF Runs
<1>6. Given \in Seq(Frames)
  BY <1>5, SinceIs DEF Given
<1>7. GivenLast \in Int
  <2>1. Given # << >> => Last(Given) \in Frames
    BY <1>6 DEF Last
  <2> QED BY <2>1, DspFields DEF GivenLast, Frames
<1>8. /\ GivenAudio \in Seq(Events) /\ Len(GivenAudio) = Len(Given)
      /\ \A i \in 1 .. Len(Given) : GivenAudio[i] = Audio(dsp.generation, dsp.epoch, Given[i])
  <2> DEFINE f == Given
  <2>1. GivenAudio = [i \in DOMAIN f |-> Audio(dsp.generation, dsp.epoch, f[i])]
    BY DEF GivenAudio
  <2>2. f \in Seq(Frames) /\ dsp.epoch \in Nat /\ dsp.generation \in Nat
    BY <1>6, DspFields
  <2> HIDE DEF f
  <2>3. [i \in DOMAIN f |-> Audio(dsp.generation, dsp.epoch, f[i])] \in Seq(Events)
        /\ Len([i \in DOMAIN f |-> Audio(dsp.generation, dsp.epoch, f[i])]) = Len(f)
    BY <2>2, AudioSeqTypes
  <2>4. \A i \in 1 .. Len(f) : [k \in DOMAIN f |-> Audio(dsp.generation, dsp.epoch, f[k])][i]
                                    = Audio(dsp.generation, dsp.epoch, f[i])
    BY <2>2
  <2> QED BY <2>1, <2>3, <2>4 DEF f
<1>9. Remembered \in Seq(Pieces)
  <2>1. Append(shared.recent, dsp.work) \in Seq(Pieces)
    BY SharedFields
  <2> QED BY <2>1, LastOfIs DEF Remembered, SwitchAssumption
<1> QED BY <1>4, <1>5, <1>6, <1>7, <1>8, <1>9

\* The worker before it looks at its block, with the epoch there is.
InEpochIs == 
    \/ dsp.epoch = shared.epoch /\ InEpoch = dsp
    \/ /\ dsp.epoch # shared.epoch
       /\ InEpoch = [dsp EXCEPT !.epoch = shared.epoch, !.chain = Reset(dsp.chain),
                                !.cursor = None, !.last = None]

LEMMA CheckIs ==
    ASSUME WorkerCheck
    PROVE  /\ dsp.pc = "check" /\ dsp.out = << >>
           /\ UNCHANGED <<blocks, results, loader, state, heard>>
           /\ InEpochIs
           /\ \/ /\ dsp.work = Nudge \/ dsp.work.epoch # shared.epoch
                 /\ dsp' = [InEpoch EXCEPT !.pc = "receive"] /\ UNCHANGED shared
              \/ /\ dsp.work # Nudge /\ dsp.work.epoch = shared.epoch
                 /\ InEpoch.cursor \in {None, dsp.work.start}
                 /\ dsp' = [InEpoch EXCEPT !.pc = "record"] /\ UNCHANGED shared
              \/ /\ dsp.work # Nudge /\ dsp.work.epoch = shared.epoch
                 /\ InEpoch.cursor \notin {None, dsp.work.start}
                 /\ dsp' = [InEpoch EXCEPT !.pc = "record", !.chain = Reset(InEpoch.chain), !.last = None,
                                !.out = <<[kind |-> "gap", epoch |-> shared.epoch]>>]
                 /\ shared' = [shared EXCEPT !.recent = << >>]
<1>1. InEpochIs
  BY DEF InEpochIs, InEpoch
<1>2. /\ dsp.pc = "check" /\ dsp.out = << >>
      /\ UNCHANGED <<blocks, results, loader, state, heard>>
  BY DEF WorkerCheck, At
<1> DEFINE d == InEpoch
<1>3. IF dsp.work = Nudge \/ dsp.work.epoch # shared.epoch
       THEN dsp' = [d EXCEPT !.pc = "receive"] /\ UNCHANGED shared
       ELSE IF d.cursor \in {None, dsp.work.start}
       THEN dsp' = [d EXCEPT !.pc = "record"] /\ UNCHANGED shared
       ELSE /\ dsp' = [d EXCEPT !.pc = "record", !.chain = Reset(@), !.last = None,
                                !.out = <<[kind |-> "gap", epoch |-> shared.epoch]>>]
            /\ shared' = [shared EXCEPT !.recent = << >>]
  BY Zenon DEF WorkerCheck
<1> QED BY <1>1, <1>2, <1>3

LEMMA WorkerTypesStep ==
    ASSUME SwitchAssumption, SwitchTypes,
           WorkerSend \/ WorkerReceive \/ WorkerTake \/ WorkerInstall \/ WorkerCheck \/ WorkerRecord
    PROVE  SwitchTypes'
<1>a. SharedTypes
  BY DEF SwitchTypes
<1>b. StateTypes
  BY DEF SwitchTypes
<1>c. DspTypes
  BY DEF SwitchTypes
<1>d. loader \in Loaders
  BY DEF SwitchTypes
<1>e. blocks \in Seq(Works)
  BY DEF SwitchTypes
<1>f. results \in Seq(Events)
  BY DEF SwitchTypes
<1>g. heard \in Seq(Events)
  BY DEF SwitchTypes
<1>h. dsp.pc = "record" => dsp.work \in Pieces
  BY DEF SwitchTypes
<1>0. ASSUME UNCHANGED <<loader, heard>>, SharedTypes', StateTypes', DspTypes',
             blocks' \in Seq(Works), results' \in Seq(Events),
             dsp'.pc = "record" => dsp'.work \in Pieces
      PROVE  SwitchTypes'
  BY <1>0, <1>d, <1>g DEF SwitchTypes
<1>1. CASE WorkerSend
  <2> DEFINE x == Head(dsp.out)
             t == Tail(dsp.out)
  <2>1. x \in Events /\ t \in Seq(Events)
    BY <1>1, <1>c, DspFields DEF WorkerSend
  <2>2. results' = Append(results, x) /\ dsp' = [dsp EXCEPT !.out = t]
    BY <1>1 DEF WorkerSend
  <2> HIDE DEF x, t
  <2>3. results' \in Seq(Events)
    BY <2>1, <2>2, <1>f
  <2>4. DspTypes'
    BY <2>1, <2>2, <1>c DEF DspTypes
  <2>5. dsp'.pc = dsp.pc /\ dsp'.work = dsp.work
    BY <2>2, <1>c DEF DspTypes
  <2>6. UNCHANGED <<shared, blocks, loader, state, heard>>
    BY <1>1 DEF WorkerSend
  <2> QED BY <2>3, <2>4, <2>5, <2>6, <1>a, <1>b, <1>e, <1>h, <1>0 DEF SharedTypes, StateTypes
<1>2. CASE WorkerReceive
  <2> DEFINE x == Head(blocks)
             t == Tail(blocks)
  <2>1. x \in Works /\ t \in Seq(Works)
    BY <1>2, <1>e DEF WorkerReceive
  <2>2. blocks' = t /\ dsp' = [dsp EXCEPT !.pc = "take", !.work = x]
    BY <1>2 DEF WorkerReceive
  <2> HIDE DEF x, t
  <2>4. DspTypes' /\ dsp'.pc = "take"
    BY <2>1, <2>2, <1>c DEF DspTypes
  <2>6. UNCHANGED <<shared, results, loader, state, heard>>
    BY <1>2 DEF WorkerReceive
  <2> QED BY <2>1, <2>2, <2>4, <2>6, <1>a, <1>b, <1>f, <1>0 DEF SharedTypes, StateTypes
<1>3. CASE WorkerTake
  <2>0. UNCHANGED <<blocks, results, loader, heard>> /\ shared' = [shared EXCEPT !.prepared = {}]
    BY <1>3 DEF WorkerTake
  <2>1. SharedTypes'
    BY <2>0, <1>a DEF SharedTypes
  <2>2. StateTypes'
    BY <1>3, <1>b, ErrorTypes DEF WorkerTake, StateTypes
  <2>3. DspTypes' /\ dsp'.pc \in {"check", "install"}
    <3>1. CASE dsp' = [dsp EXCEPT !.pc = "check"]
      BY <3>1, <1>c DEF DspTypes
    <3>2. ASSUME NEW p \in shared.prepared, dsp' = [dsp EXCEPT !.pc = "check", !.out = <<Failed(p.generation)>>]
          PROVE  DspTypes' /\ dsp'.pc \in {"check", "install"}
      <4> DEFINE o == <<Failed(p.generation)>>
      <4>1. p.generation \in Nat
        BY <1>a, SharedFields DEF Loaders
      <4>2. Failed(p.generation) \in Events
        BY <4>1, EventTypes
      <4>3. o \in Seq(Events) /\ dsp' = [dsp EXCEPT !.pc = "check", !.out = o]
        BY <4>2, <3>2
      <4> HIDE DEF o
      <4> QED BY <4>3, <1>c DEF DspTypes
    <3>3. ASSUME NEW p \in shared.prepared, NEW fails \in BOOLEAN,
                 dsp' = [dsp EXCEPT
                        !.pc = "install", !.boundary = Boundary(p), !.seen = shared.epoch,
                        !.prepared = {IF fails THEN [p EXCEPT !.pc = "failed"] ELSE CaughtUp(p)}]
          PROVE  DspTypes' /\ dsp'.pc \in {"check", "install"}
      <4> DEFINE b == Boundary(p)
                 e == shared.epoch
                 q == IF fails THEN [p EXCEPT !.pc = "failed"] ELSE CaughtUp(p)
                 one == {q}
      <4>0. p \in Loaders
        BY <1>a, SharedFields
      <4>1. [p EXCEPT !.pc = "failed"] \in Loaders
        BY <4>0 DEF Loaders
      <4>2. q \in Loaders
        BY <4>0, <4>1, CaughtUpTypes, <1>a
      <4>3. b \in Int /\ e \in Nat /\ one \in SUBSET Loaders
        BY <4>0, <4>2, BoundaryTypes, SharedFields, <1>a, <1>c
      <4>4. dsp' = [dsp EXCEPT !.pc = "install", !.boundary = b, !.seen = e, !.prepared = one]
        BY <3>3
      <4> HIDE DEF b, e, one, q
      <4> QED BY <4>3, <4>4, <1>c DEF DspTypes
    <3>4. \/ dsp' = [dsp EXCEPT !.pc = "check"]
          \/ \E p \in shared.prepared : dsp' = [dsp EXCEPT !.pc = "check", !.out = <<Failed(p.generation)>>]
          \/ \E p \in shared.prepared, fails \in BOOLEAN :
               dsp' = [dsp EXCEPT
                        !.pc = "install", !.boundary = Boundary(p), !.seen = shared.epoch,
                        !.prepared = {IF fails THEN [p EXCEPT !.pc = "failed"] ELSE CaughtUp(p)}]
      BY <1>3, Zenon DEF WorkerTake
    <3> QED BY <3>1, <3>2, <3>3, <3>4
  <2> QED BY <2>0, <2>1, <2>2, <2>3, <1>e, <1>f, <1>0
<1>4. CASE WorkerInstall
  <2>1. UNCHANGED <<shared, blocks, results, loader, state, heard>>
    BY <1>4 DEF WorkerInstall
  <2>2. PICK p \in dsp.prepared : Installs(p)
    BY <1>4, InstallIs
  <2>3. p \in Loaders
    BY <1>c, DspFields
  <2>4. DspTypes' /\ dsp'.pc = "check"
    <3>1. CASE dsp' = [dsp EXCEPT !.pc = "check", !.prepared = {}]
      BY <3>1, <1>c DEF DspTypes
    <3>2. CASE dsp' = [dsp EXCEPT !.pc = "check", !.prepared = {}, !.out = <<Failed(p.generation)>>]
      <4> DEFINE o == <<Failed(p.generation)>>
      <4>1. p.generation \in Nat
        BY <2>3 DEF Loaders
      <4>2. Failed(p.generation) \in Events
        BY <4>1, EventTypes
      <4>3. o \in Seq(Events) /\ dsp' = [dsp EXCEPT !.pc = "check", !.prepared = {}, !.out = o]
        BY <4>2, <3>2
      <4> HIDE DEF o
      <4> QED BY <4>3, <1>c DEF DspTypes
    <3>3. CASE dsp' = [dsp EXCEPT !.pc = "check", !.prepared = {},
                            !.chain = NewChain(p), !.generation = p.generation, !.epoch = shared.epoch,
                            !.cursor = IF shared.epoch # dsp.seen THEN None ELSE dsp.cursor,
                            !.last = NewLast(p), !.out = <<Applied(p)>> \o NewAudio(p)]
      <4> DEFINE c == NewChain(p)
                 g == p.generation
                 e == shared.epoch
                 u == IF shared.epoch # dsp.seen THEN None ELSE dsp.cursor
                 l == NewLast(p)
                 o == <<Applied(p)>> \o NewAudio(p)
      <4>1. c \in Chains /\ l \in Int /\ o \in Seq(Events)
        BY <2>3, <1>a, <1>c, InstalledTypes
      <4>2. g \in Nat /\ e \in Nat /\ u \in Int
        BY <2>3, <1>a, <1>c, SharedFields, DspFields DEF Loaders, None
      <4>3. dsp' = [dsp EXCEPT !.pc = "check", !.prepared = {}, !.chain = c, !.generation = g,
                               !.epoch = e, !.cursor = u, !.last = l, !.out = o]
        BY <3>3
      <4> HIDE DEF c, g, e, u, l, o
      <4> QED BY <4>1, <4>2, <4>3, <1>c DEF DspTypes
    <3> QED BY <2>2, <3>1, <3>2, <3>3 DEF Installs
  <2> QED BY <2>1, <2>4, <1>a, <1>b, <1>e, <1>f, <1>0 DEF SharedTypes, StateTypes
<1>5. CASE WorkerCheck
  <2>1. UNCHANGED <<blocks, results, loader, state, heard>>
    BY <1>5 DEF WorkerCheck
  <2>2. dsp.chain \in Chains /\ Reset(dsp.chain) \in Chains
    BY <1>c, DspFields, ResetTypes
  <2>3. InEpoch \in [pc : {"receive", "take", "install", "check", "record"}, work : Works,
             prepared : SUBSET Loaders, boundary : Int, seen : Nat, chain : Chains,
             generation : Nat, epoch : Nat, cursor : Int, last : Int, out : Seq(Events)]
        /\ InEpoch.work = dsp.work
    <3>1. CASE InEpoch = dsp
      BY <3>1, <1>c DEF DspTypes
    <3>2. CASE InEpoch = [dsp EXCEPT !.epoch = shared.epoch, !.chain = Reset(dsp.chain),
                                     !.cursor = None, !.last = None]
      <4> DEFINE e == shared.epoch
                 c == Reset(dsp.chain)
                 n == None
      <4>1. e \in Nat /\ c \in Chains /\ n \in Int
        BY <1>a, <2>2, SharedFields DEF None
      <4>2. InEpoch = [dsp EXCEPT !.epoch = e, !.chain = c, !.cursor = n, !.last = n]
        BY <3>2
      <4> HIDE DEF e, c, n
      <4> QED BY <4>1, <4>2, <1>c DEF DspTypes
    <3> QED BY <1>5, <3>1, <3>2, CheckIs DEF InEpochIs
  <2>4. Reset(InEpoch.chain) \in Chains
    BY <2>3, ResetTypes
  <2>5. DspTypes' /\ (dsp'.pc = "record" => dsp'.work # Nudge)
    <3>1. CASE dsp' = [InEpoch EXCEPT !.pc = "receive"]
      BY <3>1, <2>3 DEF DspTypes
    <3>2. CASE dsp.work # Nudge /\ dsp' = [InEpoch EXCEPT !.pc = "record"]
      BY <3>2, <2>3 DEF DspTypes
    <3>3. CASE dsp.work # Nudge
               /\ dsp' = [InEpoch EXCEPT !.pc = "record", !.chain = Reset(InEpoch.chain), !.last = None,
                                !.out = <<[kind |-> "gap", epoch |-> shared.epoch]>>]
      <4> DEFINE c == Reset(InEpoch.chain)
                 n == None
                 x == [kind |-> "gap", epoch |-> shared.epoch]
                 o == <<x>>
      <4>1. x \in Events
        BY <1>a, SharedFields DEF Events
      <4>2. c \in Chains /\ n \in Int /\ o \in Seq(Events)
        BY <4>1, <2>4 DEF None
      <4>3. dsp' = [InEpoch EXCEPT !.pc = "record", !.chain = c, !.last = n, !.out = o]
        BY <3>3
      <4> HIDE DEF c, n, o
      <4> QED BY <4>2, <4>3, <3>3, <2>3 DEF DspTypes
    <3> QED BY <1>5, <3>1, <3>2, <3>3, CheckIs
  <2>6. dsp'.pc = "record" => dsp'.work \in Pieces
    BY <2>5 DEF DspTypes, Works
  <2>7. SharedTypes'
    <3> DEFINE r == << >>
    <3>1. r \in Seq(Pieces)
      BY EmptySeq
    <3>2. shared' = shared \/ shared' = [shared EXCEPT !.recent = r]
      BY <1>5, CheckIs
    <3> HIDE DEF r
    <3> QED BY <3>1, <3>2, <1>a DEF SharedTypes
  <2> QED BY <2>1, <2>5, <2>6, <2>7, <1>b, <1>e, <1>f, <1>0 DEF StateTypes
<1>6. CASE WorkerRecord
  <2>1. UNCHANGED <<blocks, results, loader, heard>> /\ dsp.pc = "record"
    BY <1>6, RecordIs
  <2>2. dsp.work \in Pieces
    BY <2>1, <1>h
  <2> DEFINE u == dsp.work.start + 1
  <2>3. u \in Int
    BY <2>2 DEF Pieces
  <2>4. SharedTypes'
    BY <1>6, RecordIs, <2>2, <1>a, <1>c, RecordedTypes DEF SharedTypes
  <2>5. StateTypes'
    BY <1>6, RecordIs, <1>b, ErrorTypes DEF StateTypes
  <2>6. DspTypes' /\ dsp'.pc = "receive"
    <3>1. CASE dsp' = [dsp EXCEPT !.pc = "receive", !.cursor = u]
      BY <3>1, <2>3, <1>c DEF DspTypes
    <3>2. CASE dsp' = [dsp EXCEPT !.pc = "receive", !.cursor = u, !.chain = Recorded.chain,
                                  !.last = GivenLast, !.out = GivenAudio]
      BY <2>2, <1>a, <1>c, RecordedTypes, <3>2, <2>3 DEF DspTypes
    <3>3. CASE dsp' = [dsp EXCEPT !.pc = "receive", !.cursor = u, !.chain = Reset(dsp.chain),
                                  !.last = None, !.out = <<Gap, Failed(dsp.generation)>>]
      <4> DEFINE c == Reset(dsp.chain)
                 n == None
                 o == <<Gap, Failed(dsp.generation)>>
      <4>1. Gap \in Events /\ Failed(dsp.generation) \in Events
        BY EventTypes, <1>c, DspFields
      <4>2. c \in Chains /\ n \in Int /\ o \in Seq(Events)
        BY <4>1, <1>c, DspFields, ResetTypes DEF None
      <4>3. dsp' = [dsp EXCEPT !.pc = "receive", !.cursor = u, !.chain = c, !.last = n, !.out = o]
        BY <3>3
      <4> HIDE DEF c, n, o, u
      <4> QED BY <4>2, <4>3, <2>3, <1>c DEF DspTypes
    <3> QED BY <1>6, <3>1, <3>2, <3>3, RecordIs
  <2> QED BY <2>1, <2>4, <2>5, <2>6, <1>e, <1>f, <1>0
<1> QED BY <1>1, <1>2, <1>3, <1>4, <1>5, <1>6

LEMMA TypesStep ==
    ASSUME SwitchAssumption, SwitchTypes, [SwitchNext]_switchVars
    PROVE  SwitchTypes'
  BY SessionTypesStep, LoaderTypesStep, WorkerTypesStep DEF switchVars, SwitchTypes,
     SharedTypes, DspTypes, StateTypes, SwitchNext

-----------------------------------------------------------------------------
(* A switch ends. What was said and not yet taken, and what of it counts.  *)

Said == results \o dsp.out
Answers(e) == e.kind \in {"applied", "failed"}
Counts(e, g) == Answers(e) /\ e.generation = g

InLoader == loader.pc # "off"
IsReady == \E p \in shared.prepared : p.generation = shared.generation
IsTaken == \E p \in dsp.prepared : p.generation = shared.generation
UnderWay == InLoader \/ IsReady \/ IsTaken

NoneApplied(q) == \A i \in 1 .. Len(q) : q[i].kind # "applied"
IsLast(q, i) == \A k \in 1 .. Len(q) : k > i => q[k].kind # "applied"

\* What was said on the way from the chain that runs to what the user is told.
Coherent(q, g, switching, requested, applied, running, underWay) ==
    /\ \A i \in 1 .. Len(q) : Counts(q[i], g) => IsLast(q, i)
    /\ \A i \in 1 .. Len(q) : q[i].kind = "applied" /\ q[i].generation = g => q[i].selection = requested
    /\ \A i \in 1 .. Len(q) : Answers(q[i]) /\ IsLast(q, i) => q[i].selection = running
    /\ (NoneApplied(q) => applied = running)
    /\ (switching => underWay \/ \E i \in 1 .. Len(q) : Counts(q[i], g))
    /\ (~switching => requested = applied /\ NoneApplied(q))

LEMMA Indices ==
    ASSUME NEW q \in Seq(Events), NEW more \in Seq(Events)
    PROVE  /\ q \o more \in Seq(Events) /\ Len(q \o more) = Len(q) + Len(more)
           /\ Len(q) \in Nat /\ Len(more) \in Nat
           /\ \A i \in 1 .. Len(q) : i \in 1 .. Len(q \o more) /\ (q \o more)[i] = q[i]
           /\ \A i \in 1 .. Len(more) : Len(q) + i \in 1 .. Len(q \o more) /\ (q \o more)[Len(q) + i] = more[i]
           /\ \A i \in 1 .. Len(q \o more) :
                i \in 1 .. Len(q) \/ \E k \in 1 .. Len(more) : i = Len(q) + k
<1>1. /\ q \o more \in Seq(Events) /\ Len(q \o more) = Len(q) + Len(more)
      /\ Len(q) \in Nat /\ Len(more) \in Nat
  OBVIOUS
<1>2. \A i \in 1 .. Len(q) : i \in 1 .. Len(q \o more) /\ (q \o more)[i] = q[i]
  BY <1>1
<1>3. \A i \in 1 .. Len(more) : Len(q) + i \in 1 .. Len(q \o more) /\ (q \o more)[Len(q) + i] = more[i]
  BY <1>1
<1>4. ASSUME NEW i \in 1 .. Len(q \o more), i \notin 1 .. Len(q)
      PROVE  \E k \in 1 .. Len(more) : i = Len(q) + k
  BY <1>1, <1>4
<1> QED BY <1>1, <1>2, <1>3, <1>4

\* Nothing is said of another chain: failures of this one, sound and gaps.
LEMMA CoherentWithMore ==
    ASSUME NEW q \in Seq(Events), NEW more \in Seq(Events), NEW g \in Nat, NEW switching \in BOOLEAN,
           NEW requested, NEW applied, NEW running, NEW underWay \in BOOLEAN, NEW still \in BOOLEAN,
           Coherent(q, g, switching, requested, applied, running, underWay),
           \A i \in 1 .. Len(more) : more[i].kind # "applied" /\ (Answers(more[i]) => more[i].selection = running),
           underWay => still \/ \E i \in 1 .. Len(more) : Counts(more[i], g)
    PROVE  Coherent(q \o more, g, switching, requested, applied, running, still)
<1> DEFINE r == q \o more
<1>1. /\ \A i \in 1 .. Len(q) : i \in 1 .. Len(r) /\ r[i] = q[i]
      /\ \A i \in 1 .. Len(more) : Len(q) + i \in 1 .. Len(r) /\ r[Len(q) + i] = more[i]
      /\ \A i \in 1 .. Len(r) : i \in 1 .. Len(q) \/ \E k \in 1 .. Len(more) : i = Len(q) + k
      /\ Len(q) \in Nat /\ Len(more) \in Nat /\ Len(r) = Len(q) + Len(more)
  BY Indices
<1> HIDE DEF r
<1>0. \A i \in 1 .. Len(r) :
        \/ i \in 1 .. Len(q) /\ r[i] = q[i]
        \/ /\ i > Len(q) /\ r[i].kind # "applied" /\ (Answers(r[i]) => r[i].selection = running)
  <2> SUFFICES ASSUME NEW i \in 1 .. Len(r), i \notin 1 .. Len(q)
               PROVE  i > Len(q) /\ r[i].kind # "applied" /\ (Answers(r[i]) => r[i].selection = running)
    BY <1>1
  <2>1. PICK k \in 1 .. Len(more) : i = Len(q) + k
    BY <1>1
  <2>2. r[i] = more[k]
    BY <2>1, <1>1
  <2>3. more[k].kind # "applied" /\ (Answers(more[k]) => more[k].selection = running)
    BY <2>1
  <2> QED BY <1>1, <2>1, <2>2, <2>3
<1>2. NoneApplied(q) <=> NoneApplied(r)
  BY <1>0, <1>1 DEF NoneApplied
<1>3. \A i \in 1 .. Len(q) : IsLast(q, i) <=> IsLast(r, i)
  BY <1>0, <1>1 DEF IsLast
<1>4. \A i \in 1 .. Len(r) : i > Len(q) => IsLast(r, i)
  BY <1>1, <1>0 DEF IsLast
<1>9. ASSUME NEW i \in 1 .. Len(r)
      PROVE  /\ (Counts(r[i], g) => IsLast(r, i))
             /\ (r[i].kind = "applied" /\ r[i].generation = g => r[i].selection = requested)
             /\ (Answers(r[i]) /\ IsLast(r, i) => r[i].selection = running)
  BY <1>3, <1>4, <1>0 DEF Coherent
<1>8. switching => still \/ \E i \in 1 .. Len(r) : Counts(r[i], g)
  BY <1>1 DEF Coherent
<1> QED BY <1>2, <1>9, <1>8 DEF Coherent, r

LEMMA Behind ==
    ASSUME NEW q \in Seq(Events), q # << >>
    PROVE  /\ Head(q) \in Events /\ Tail(q) \in Seq(Events) /\ Len(q) \in Nat /\ Len(q) >= 1
           /\ Head(q) = q[1] /\ Len(Tail(q)) = Len(q) - 1
           /\ \A i \in 1 .. Len(Tail(q)) : i + 1 \in 1 .. Len(q) /\ Tail(q)[i] = q[i + 1]
           /\ \A i \in 1 .. Len(q) : i = 1 \/ (i - 1 \in 1 .. Len(Tail(q)) /\ q[i] = Tail(q)[i - 1])
           /\ \A i \in 1 .. Len(Tail(q)) : IsLast(Tail(q), i) <=> IsLast(q, i + 1)
           /\ (IsLast(q, 1) <=> NoneApplied(Tail(q)))
           /\ (NoneApplied(q) <=> Head(q).kind # "applied" /\ NoneApplied(Tail(q)))
<1> DEFINE t == Tail(q)
<1>1. /\ Head(q) \in Events /\ t \in Seq(Events) /\ Len(q) \in Nat /\ Len(q) >= 1
      /\ Head(q) = q[1] /\ Len(t) = Len(q) - 1
      /\ \A i \in 1 .. Len(t) : i + 1 \in 1 .. Len(q) /\ t[i] = q[i + 1]
  OBVIOUS
<1> HIDE DEF t
<1>2. \A i \in 1 .. Len(q) : i = 1 \/ (i - 1 \in 1 .. Len(t) /\ q[i] = t[i - 1])
  BY <1>1
<1>3. \A i \in 1 .. Len(t) : IsLast(t, i) <=> IsLast(q, i + 1)
  <2> SUFFICES ASSUME NEW i \in 1 .. Len(t) PROVE IsLast(t, i) <=> IsLast(q, i + 1)
    OBVIOUS
  <2>1. ASSUME IsLast(t, i), NEW k \in 1 .. Len(q), k > i + 1 PROVE q[k].kind # "applied"
    BY <2>1, <1>1, <1>2 DEF IsLast
  <2>2. ASSUME IsLast(q, i + 1), NEW k \in 1 .. Len(t), k > i PROVE t[k].kind # "applied"
    BY <2>2, <1>1 DEF IsLast
  <2> QED BY <2>1, <2>2 DEF IsLast
<1>4. IsLast(q, 1) <=> NoneApplied(t)
  <2>1. ASSUME IsLast(q, 1), NEW k \in 1 .. Len(t) PROVE t[k].kind # "applied"
    BY <2>1, <1>1 DEF IsLast
  <2>2. ASSUME NoneApplied(t), NEW k \in 1 .. Len(q), k > 1 PROVE q[k].kind # "applied"
    BY <2>2, <1>1, <1>2 DEF NoneApplied
  <2> QED BY <2>1, <2>2 DEF IsLast, NoneApplied
<1>5. NoneApplied(q) <=> q[1].kind # "applied" /\ NoneApplied(t)
  <2>1. ASSUME NoneApplied(q) PROVE q[1].kind # "applied" /\ NoneApplied(t)
    BY <2>1, <1>1 DEF NoneApplied
  <2>2. ASSUME q[1].kind # "applied", NoneApplied(t) PROVE NoneApplied(q)
    BY <2>2, <1>1, <1>2 DEF NoneApplied
  <2> QED BY <2>1, <2>2
<1> QED BY <1>1, <1>2, <1>3, <1>4, <1>5 DEF t

\* A sound or a gap is taken.
LEMMA CoherentWithout ==
    ASSUME NEW q \in Seq(Events), NEW g \in Nat, NEW switching \in BOOLEAN,
           NEW requested, NEW applied, NEW running, NEW underWay \in BOOLEAN,
           Coherent(q, g, switching, requested, applied, running, underWay),
           q # << >>, ~Answers(Head(q))
    PROVE  Coherent(Tail(q), g, switching, requested, applied, running, underWay)
<1> DEFINE t == Tail(q)
<1>1. /\ Head(q) = q[1]
      /\ \A i \in 1 .. Len(t) : i + 1 \in 1 .. Len(q) /\ t[i] = q[i + 1]
      /\ \A i \in 1 .. Len(q) : i = 1 \/ (i - 1 \in 1 .. Len(t) /\ q[i] = t[i - 1])
      /\ \A i \in 1 .. Len(t) : IsLast(t, i) <=> IsLast(q, i + 1)
      /\ (NoneApplied(q) <=> Head(q).kind # "applied" /\ NoneApplied(t))
  BY Behind
<1> HIDE DEF t
<1>2. Head(q).kind # "applied"
  BY DEF Answers
<1>3. \A i \in 1 .. Len(t) : Counts(t[i], g) => IsLast(t, i)
  BY <1>1 DEF Coherent
<1>4. \A i \in 1 .. Len(t) : t[i].kind = "applied" /\ t[i].generation = g => t[i].selection = requested
  BY <1>1 DEF Coherent
<1>5. \A i \in 1 .. Len(t) : Answers(t[i]) /\ IsLast(t, i) => t[i].selection = running
  BY <1>1 DEF Coherent
<1>6. switching => underWay \/ \E i \in 1 .. Len(t) : Counts(t[i], g)
  BY <1>1 DEF Coherent, Counts
<1> QED BY <1>1, <1>2, <1>3, <1>4, <1>5, <1>6 DEF Coherent, t

\* An answer is taken: AudioProcessingState::completed makes of it what was said.
LEMMA CoherentCompleted ==
    ASSUME StateTypes, NEW q \in Seq(Events), NEW running, NEW underWay \in BOOLEAN,
           Coherent(q, state.generation, state.switching, state.requested, state.applied, running, underWay),
           q # << >>, Answers(Head(q)), Head(q) \in Answered,
           underWay => \A i \in 1 .. Len(q) : ~Counts(q[i], state.generation),
           state' = Completed(state, Head(q))
    PROVE  /\ Coherent(Tail(q), state.generation, state'.switching, state'.requested, state'.applied,
                       running, underWay)
           /\ state'.generation = state.generation
           /\ state'.switching \in BOOLEAN
           /\ (underWay => state'.switching = state.switching /\ state'.requested = state.requested)
<1> DEFINE t == Tail(q)
           e == Head(q)
           g == state.generation
<1>1. /\ Head(q) = q[1] /\ 1 \in 1 .. Len(q)
      /\ \A i \in 1 .. Len(t) : i + 1 \in 1 .. Len(q) /\ t[i] = q[i + 1]
      /\ \A i \in 1 .. Len(q) : i = 1 \/ (i - 1 \in 1 .. Len(t) /\ q[i] = t[i - 1])
      /\ \A i \in 1 .. Len(t) : IsLast(t, i) <=> IsLast(q, i + 1)
      /\ (IsLast(q, 1) <=> NoneApplied(t))
      /\ (NoneApplied(q) <=> Head(q).kind # "applied" /\ NoneApplied(t))
  BY Behind
<1> HIDE DEF t
<1>2. \A i \in 1 .. Len(t) : Counts(t[i], g) => IsLast(t, i)
  BY <1>1 DEF Coherent
<1>3. \A i \in 1 .. Len(t) : t[i].kind = "applied" /\ t[i].generation = g => t[i].selection = state.requested
  BY <1>1 DEF Coherent
<1>4. \A i \in 1 .. Len(t) : Answers(t[i]) /\ IsLast(t, i) => t[i].selection = running
  BY <1>1 DEF Coherent
<1>5. NoneApplied(t) => e.selection = running
  BY <1>1 DEF Coherent
<1>6. Counts(e, g) => NoneApplied(t)
  BY <1>1 DEF Coherent
<1>7. Counts(e, g) => ~underWay
  BY <1>1
<1>8. state.switching \in BOOLEAN /\ state.generation \in Nat
  BY DEF StateTypes, Flags
<1>9. CASE e.kind = "applied"
  <2> DEFINE b == state.switching /\ e.generation # state.generation
  <2>1. state' = [state EXCEPT !.switching = b, !.active = e.generation, !.applied = e.selection]
    BY <1>9 DEF Completed
  <2>2. b \in BOOLEAN
    OBVIOUS
  <2> HIDE DEF b
  <2>3. state'.switching = b /\ state'.requested = state.requested /\ state'.applied = e.selection
        /\ state'.generation = state.generation
    BY <2>1 DEF StateTypes
  <2>4. state.switching
    BY <1>9, <1>1 DEF Coherent
  <2>5. b <=> ~Counts(e, g)
    BY <2>4, <1>9 DEF b, Counts, Answers
  <2>6. b => underWay \/ \E i \in 1 .. Len(t) : Counts(t[i], g)
    BY <2>4, <2>5, <1>1 DEF Coherent
  <2>7. ~b => e.selection = state.requested
    BY <2>5, <1>1, <1>9 DEF Coherent, Counts, Answers
  <2>8. Coherent(t, g, b, state.requested, e.selection, running, underWay)
    BY <1>2, <1>3, <1>4, <1>5, <1>6, <2>5, <2>6, <2>7 DEF Coherent
  <2>9. underWay => b = state.switching
    BY <1>7, <2>4, <2>5, <2>2
  <2> QED BY <2>2, <2>3, <2>8, <2>9 DEF t
<1>10. CASE e.kind = "failed" /\ e.generation = g
  BY <1>10, <1>6, <1>7, <1>2, <1>4, <1>5 DEF Completed, StateTypes, Counts, Answers,
     NoneApplied, Coherent, t
<1>11. CASE e.kind = "failed" /\ e.generation # g
  BY <1>11, <1>1, <1>2, <1>3, <1>4, <1>8 DEF Completed, Counts, Coherent, t
<1> QED BY <1>9, <1>10, <1>11 DEF Answered

-----------------------------------------------------------------------------
NothingCounts(q, g) == \A i \in 1 .. Len(q) : ~Counts(q[i], g)
NotLater(q, g) == \A i \in 1 .. Len(q) : Answers(q[i]) => q[i].generation <= g

LEMMA MoreOfThem ==
    ASSUME NEW q \in Seq(Events), NEW more \in Seq(Events), NEW g
    PROVE  /\ NothingCounts(q \o more, g) <=> NothingCounts(q, g) /\ NothingCounts(more, g)
           /\ NotLater(q \o more, g) <=> NotLater(q, g) /\ NotLater(more, g)
<1> DEFINE r == q \o more
<1>1. /\ \A i \in 1 .. Len(q) : i \in 1 .. Len(r) /\ r[i] = q[i]
      /\ \A i \in 1 .. Len(more) : Len(q) + i \in 1 .. Len(r) /\ r[Len(q) + i] = more[i]
      /\ \A i \in 1 .. Len(r) : i \in 1 .. Len(q) \/ \E k \in 1 .. Len(more) : i = Len(q) + k
  BY Indices
<1> HIDE DEF r
<1>2. ASSUME NEW i \in 1 .. Len(r)
      PROVE  (\E k \in 1 .. Len(q) : r[i] = q[k]) \/ (\E k \in 1 .. Len(more) : r[i] = more[k])
  BY <1>1
<1>3. NothingCounts(q, g) /\ NothingCounts(more, g) => NothingCounts(r, g)
  BY <1>2 DEF NothingCounts
<1>4. NothingCounts(r, g) => NothingCounts(q, g) /\ NothingCounts(more, g)
  BY <1>1 DEF NothingCounts
<1>5. NotLater(q, g) /\ NotLater(more, g) => NotLater(r, g)
  BY <1>2 DEF NotLater
<1>6. NotLater(r, g) => NotLater(q, g) /\ NotLater(more, g)
  BY <1>1 DEF NotLater
<1> QED BY <1>3, <1>4, <1>5, <1>6 DEF r

LEMMA LessOfThem ==
    ASSUME NEW q \in Seq(Events), q # << >>, NEW g
    PROVE  /\ (NothingCounts(q, g) => NothingCounts(Tail(q), g))
           /\ (NotLater(q, g) => NotLater(Tail(q), g))
  BY Behind DEF NothingCounts, NotLater

OneAtWork ==
    /\ state.generation = shared.generation
    /\ shared.loading = InLoader
    /\ (InLoader => ~IsReady /\ ~IsTaken)
    /\ (IsReady => ~IsTaken)
    /\ (dsp.pc # "install" => dsp.prepared = {})
    /\ (IsReady => blocks # << >> \/ dsp.pc = "take")
    /\ \A p, q \in shared.prepared : p = q
    /\ \A p, q \in dsp.prepared : p = q

NoneIsLater ==
    /\ dsp.generation <= shared.generation /\ loader.generation <= shared.generation
    /\ \A p \in shared.prepared : p.generation <= shared.generation
    /\ \A p \in dsp.prepared : p.generation <= shared.generation
    /\ NotLater(Said, shared.generation)

OfTheRequest(p) ==
    p.generation = shared.generation /\ p.pc # "failed" => p.run.chain.selection = shared.desired

WhatIsAsked ==
    /\ (UnderWay =>
          /\ state.switching = TRUE /\ shared.desired = state.requested
          /\ dsp.generation # shared.generation
          /\ NothingCounts(Said, shared.generation))
    /\ (loader.pc \in {"warm", "look", "done"} => OfTheRequest(loader))
    /\ \A p \in shared.prepared : OfTheRequest(p)
    /\ \A p \in dsp.prepared : OfTheRequest(p)

WhatIsSaid ==
    Coherent(Said, shared.generation, state.switching, state.requested, state.applied,
             dsp.chain.selection, UnderWay)

RestInv == OneAtWork /\ NoneIsLater /\ WhatIsAsked /\ WhatIsSaid

LEMMA SaidIs ==
    ASSUME results \in Seq(Events), DspTypes
    PROVE  /\ Said \in Seq(Events) /\ (dsp.out = << >> => Said = results)
  BY DspFields DEF Said

LEMMA SaidMore ==
    ASSUME results \in Seq(Events), dsp.out = << >>, results' = results
    PROVE  Said = results /\ Said' = results \o dsp'.out
BY DEF Said

LEMMA SaidTheSame ==
    ASSUME results \in Seq(Events), UNCHANGED results, dsp'.out = dsp.out
    PROVE  Said' = Said
BY DEF Said

LEMMA SaidOnItsWay ==
    ASSUME results \in Seq(Events), DspTypes, WorkerSend
    PROVE  Said' = Said
<1> DEFINE o == dsp.out
<1>1. o \in Seq(Events) /\ o # << >>
  BY DspFields DEF WorkerSend
<1>2. results' = Append(results, Head(o)) /\ dsp'.out = Tail(o)
  BY DEF WorkerSend, DspTypes
<1> HIDE DEF o
<1>3. Append(results, Head(o)) \o Tail(o) = results \o o
  BY <1>1, SeqEqual
<1> QED BY <1>2, <1>3 DEF Said, o

LEMMA SaidIsTaken ==
    ASSUME results \in Seq(Events), DspTypes, results # << >>, results' = Tail(results), dsp' = dsp
    PROVE  Said # << >> /\ Head(Said) = Head(results) /\ Said' = Tail(Said)
<1> DEFINE o == dsp.out
<1>1. o \in Seq(Events)
  BY DspFields
<1> HIDE DEF o
<1>2. results \o o # << >> /\ Head(results \o o) = Head(results)
  BY <1>1
<1>3. Tail(results) \o o = Tail(results \o o)
  BY <1>1, <1>2, SeqEqual
<1> QED BY <1>2, <1>3 DEF Said, o

\* A step that neither asks, nor loads, nor hands a chain over; what it says is of the
\* chain that runs.
Undisturbed ==
    /\ shared'.generation = shared.generation /\ shared'.loading = shared.loading
    /\ shared'.desired = shared.desired /\ shared'.prepared = shared.prepared
    /\ loader' = loader
    /\ dsp'.prepared = dsp.prepared /\ dsp'.generation = dsp.generation
    /\ dsp'.chain.selection = dsp.chain.selection
    /\ (dsp'.pc # "install" => dsp.pc # "install")
    /\ (IsReady => blocks' # << >> \/ dsp'.pc = "take")
    /\ state'.generation = state.generation

\* The session is told the same as before.
Untold ==
    /\ state'.switching = state.switching /\ state'.requested = state.requested
    /\ state'.applied = state.applied

LEMMA Booleans ==
    ASSUME StateTypes
    PROVE  state.switching \in BOOLEAN /\ state.generation \in Nat
BY DEF StateTypes, Flags

LEMMA QuietStep ==
    ASSUME SwitchTypes, RestInv, Undisturbed, Untold, NEW more \in Seq(Events), Said' = Said \o more,
           \A i \in 1 .. Len(more) : /\ more[i].kind # "applied"
                                     /\ (Answers(more[i]) => /\ more[i].selection = dsp.chain.selection
                                                             /\ more[i].generation = dsp.generation)
    PROVE  RestInv'
<1>1. IsReady' = IsReady /\ IsTaken' = IsTaken /\ InLoader' = InLoader /\ UnderWay' = UnderWay
  BY DEF IsReady, IsTaken, InLoader, UnderWay, Undisturbed
<1>2. Said \in Seq(Events) /\ dsp.generation \in Nat /\ shared.generation \in Nat
  BY SaidIs, DspFields, SharedFields DEF SwitchTypes
<1>3. OneAtWork'
  BY <1>1 DEF RestInv, OneAtWork, Undisturbed
<1>4. NoneIsLater'
  BY <1>2, MoreOfThem DEF NotLater, RestInv, NoneIsLater, Undisturbed
<1>5. WhatIsAsked'
  BY <1>2, MoreOfThem, <1>1 DEF NothingCounts, Counts, RestInv, WhatIsAsked, OfTheRequest,
     Undisturbed, Untold
<1>6. WhatIsSaid'
  <2>1. UnderWay \in BOOLEAN
    BY DEF UnderWay, InLoader, IsReady, IsTaken
  <2>2. Coherent(Said \o more, shared.generation, state.switching, state.requested, state.applied,
                 dsp.chain.selection, UnderWay)
    BY <1>2, <2>1, Booleans, CoherentWithMore DEF RestInv, WhatIsSaid, SwitchTypes
  <2> QED BY <2>2, <1>1 DEF WhatIsSaid, Undisturbed, Untold
<1> QED BY <1>3, <1>4, <1>5, <1>6 DEF RestInv

LEMMA SilentStep ==
    ASSUME SwitchTypes, RestInv, Undisturbed, Untold, Said' = Said
    PROVE  RestInv'
<1>1. Said \in Seq(Events)
  BY SaidIs DEF SwitchTypes
<1> DEFINE more == << >>
<1>2. more \in Seq(Events) /\ Len(more) = 0
  BY EmptySeq
<1>3. Said' = Said \o more
  BY <1>1, ConcatEmptySeq
<1> HIDE DEF more
<1>4. 1 .. Len(more) = {}
  BY <1>2
<1> QED BY <1>2, <1>3, <1>4, QuietStep

LEMMA SoundRest ==
    ASSUME SwitchAssumption, SwitchTypes, RestInv,
           Capture \/ FlushBlocks \/ WorkerSend \/ WorkerReceive \/ WorkerCheck \/ WorkerRecord
    PROVE  RestInv'
<1>a. SharedTypes /\ StateTypes /\ DspTypes /\ results \in Seq(Events) /\ blocks \in Seq(Works)
  BY DEF SwitchTypes
<1>b. IsReady => blocks # << >> \/ dsp.pc = "take"
  BY DEF RestInv, OneAtWork
<1>1. CASE Capture
  <2>1. blocks' # << >>
    <3>1. [start |-> state.blocks, epoch |-> shared.epoch] \in Works
      BY <1>a DEF Works, Pieces, SharedTypes, StateTypes
    <3> QED BY <1>1, <1>a, <3>1, PutTypes DEF Capture
  <2>2. UNCHANGED <<shared, results, dsp, loader>>
    BY <1>1 DEF Capture
  <2>3. Untold /\ state'.generation = state.generation
    BY <1>1, <1>a DEF Capture, Untold, StateTypes
  <2>4. Undisturbed
    BY <2>1, <2>2, <2>3 DEF Undisturbed
  <2>5. Said' = Said
    BY <2>2 DEF Said
  <2> QED BY <2>3, <2>4, <2>5, SilentStep
<1>2. CASE FlushBlocks
  BY <1>2, EventTypes, <1>a, PutTypes, SilentStep DEF FlushBlocks, Untold, StateTypes,
     SharedTypes, Flushed, Undisturbed, Said
<1>3. CASE WorkerSend
  BY <1>3, <1>a, <1>b, SilentStep, SaidOnItsWay DEF WorkerSend, DspTypes, Undisturbed, Untold
<1>4. CASE WorkerReceive
  BY <1>4, <1>a, SilentStep, SaidTheSame DEF WorkerReceive, At, DspTypes, Undisturbed, Untold
<1>5. CASE WorkerCheck
  <2>1. UNCHANGED <<blocks, results, loader, state>> /\ dsp.pc = "check" /\ dsp.out = << >>
    BY <1>5, CheckIs
  <2>2. shared'.generation = shared.generation /\ shared'.loading = shared.loading
        /\ shared'.desired = shared.desired /\ shared'.prepared = shared.prepared
    BY <1>5, CheckIs, <1>a DEF SharedTypes
  <2>3. dsp.chain \in Chains
    BY <1>a, DspFields
  <2>4. InEpoch.prepared = dsp.prepared /\ InEpoch.generation = dsp.generation
        /\ InEpoch.chain \in Chains /\ InEpoch.chain.selection = dsp.chain.selection
        /\ InEpoch.out = dsp.out /\ InEpoch \in [pc : {"check"}, work : Works,
             prepared : SUBSET Loaders, boundary : Int, seen : Nat, chain : Chains,
             generation : Nat, epoch : Nat, cursor : Int, last : Int, out : Seq(Events)]
    <3>1. CASE InEpoch = dsp
      BY <3>1, <2>1, <2>3, <1>a DEF DspTypes
    <3>2. CASE InEpoch = [dsp EXCEPT !.epoch = shared.epoch, !.chain = Reset(dsp.chain),
                                     !.cursor = None, !.last = None]
      <4> DEFINE e == shared.epoch
                 c == Reset(dsp.chain)
                 n == None
      <4>1. e \in Nat /\ c \in Chains /\ n \in Int /\ c.selection = dsp.chain.selection
        BY <1>a, <2>3, SharedFields, ResetTypes DEF None
      <4>2. InEpoch = [dsp EXCEPT !.epoch = e, !.chain = c, !.cursor = n, !.last = n]
        BY <3>2
      <4> HIDE DEF e, c, n
      <4> QED BY <4>1, <4>2, <2>1, <1>a DEF DspTypes
    <3> QED BY <1>5, <3>1, <3>2, CheckIs DEF InEpochIs
  <2>5. Reset(InEpoch.chain).selection = dsp.chain.selection
    BY <2>4, ResetTypes
  <2>6. ASSUME dsp'.prepared = dsp.prepared, dsp'.generation = dsp.generation,
               dsp'.chain.selection = dsp.chain.selection, dsp'.pc \in {"receive", "record"}
        PROVE  Undisturbed /\ Untold
    BY <2>1, <2>2, <2>6, <1>b DEF Undisturbed, Untold
  <2>7. CASE dsp' = [InEpoch EXCEPT !.pc = "receive"] \/ dsp' = [InEpoch EXCEPT !.pc = "record"]
    BY <2>1, <2>4, <2>7, <1>a, SaidTheSame, <2>6, SilentStep
  <2>8. CASE dsp' = [InEpoch EXCEPT !.pc = "record", !.chain = Reset(InEpoch.chain), !.last = None,
                                !.out = <<[kind |-> "gap", epoch |-> shared.epoch]>>]
    <3> DEFINE x == [kind |-> "gap", epoch |-> shared.epoch]
               o == <<x>>
               c == Reset(InEpoch.chain)
    <3>1. x \in Events /\ x.kind = "gap"
      BY <1>a, SharedFields DEF Events
    <3>2. o \in Seq(Events) /\ Len(o) = 1 /\ o[1] = x
      BY <3>1
    <3>3. dsp' = [InEpoch EXCEPT !.pc = "record", !.chain = c, !.last = None, !.out = o]
      BY <2>8
    <3>4. c.selection = dsp.chain.selection
      BY <2>5
    <3> HIDE DEF x, o, c
    <3>5. dsp'.out = o /\ dsp'.prepared = dsp.prepared /\ dsp'.generation = dsp.generation
          /\ dsp'.chain.selection = dsp.chain.selection /\ dsp'.pc = "record"
      BY <2>4, <3>3, <3>4
    <3>6. Said' = Said \o o
      BY <3>5, <2>1, <1>a, SaidMore
    <3>7. \A i \in 1 .. Len(o) : o[i].kind # "applied" /\ ~Answers(o[i])
      BY <3>1, <3>2 DEF Answers
    <3>8. Undisturbed /\ Untold
      BY <2>6, <3>5
    <3> QED BY <3>2, <3>6, <3>7, <3>8, QuietStep
  <2> QED BY <1>5, <2>7, <2>8, CheckIs
<1>6. CASE WorkerRecord
  <2>1. UNCHANGED <<blocks, results, loader>> /\ dsp.pc = "record" /\ dsp.out = << >>
    BY <1>6, RecordIs
  <2>2. dsp.work \in Pieces
    BY <2>1 DEF SwitchTypes
  <2>3. shared'.generation = shared.generation /\ shared'.loading = shared.loading
        /\ shared'.desired = shared.desired /\ shared'.prepared = shared.prepared
    BY <1>6, RecordIs, <1>a DEF SharedTypes
  <2>4. Untold /\ state'.generation = state.generation
    BY <1>6, <1>a, RecordIs, ErrorTypes DEF StateTypes, Untold
  <2> DEFINE u == dsp.work.start + 1
  <2> HIDE DEF u
  <2>5. ASSUME dsp'.prepared = dsp.prepared, dsp'.generation = dsp.generation,
               dsp'.chain.selection = dsp.chain.selection, dsp'.pc = "receive"
        PROVE  Undisturbed /\ Untold
    BY <2>1, <2>3, <2>4, <2>5, <1>b DEF Undisturbed
  <2>6. CASE dsp' = [dsp EXCEPT !.pc = "receive", !.cursor = u]
    BY <2>6, <1>a, <2>1, SaidTheSame, <2>5, SilentStep DEF DspTypes
  <2>7. CASE dsp' = [dsp EXCEPT !.pc = "receive", !.cursor = u, !.chain = Recorded.chain,
                                !.last = GivenLast, !.out = GivenAudio]
    <3> DEFINE c == Recorded.chain
    <3>1. c.selection = dsp.chain.selection
      BY <2>2, <1>a, RecordedTypes
    <3>2. GivenAudio \in Seq(Events) /\ Len(GivenAudio) = Len(Given)
          /\ \A i \in 1 .. Len(Given) : GivenAudio[i] = Audio(dsp.generation, dsp.epoch, Given[i])
      BY <2>2, <1>a, RecordedTypes
    <3> HIDE DEF c
    <3>3. dsp'.prepared = dsp.prepared /\ dsp'.generation = dsp.generation
          /\ dsp'.chain = c /\ dsp'.pc = "receive" /\ dsp'.out = GivenAudio
      BY <2>7, <1>a DEF DspTypes, c
    <3>4. Said' = Said \o GivenAudio
      BY <3>3, <2>1, <1>a, SaidMore
    <3>5. \A i \in 1 .. Len(GivenAudio) : GivenAudio[i].kind # "applied" /\ ~Answers(GivenAudio[i])
      <4> SUFFICES ASSUME NEW i \in 1 .. Len(GivenAudio)
                   PROVE  GivenAudio[i].kind # "applied" /\ ~Answers(GivenAudio[i])
        OBVIOUS
      <4>1. GivenAudio[i] = Audio(dsp.generation, dsp.epoch, Given[i])
        BY <3>2
      <4>2. Audio(dsp.generation, dsp.epoch, Given[i]).kind = "audio"
        BY DEF Audio
      <4> QED BY <4>1, <4>2 DEF Answers
    <3>6. Undisturbed /\ Untold
      BY <2>5, <3>1, <3>3
    <3> QED BY <3>2, <3>4, <3>5, <3>6, QuietStep
  <2>8. CASE dsp' = [dsp EXCEPT !.pc = "receive", !.cursor = u, !.chain = Reset(dsp.chain),
                                !.last = None, !.out = <<Gap, Failed(dsp.generation)>>]
    <3> DEFINE c == Reset(dsp.chain)
               x == Gap
               y == Failed(dsp.generation)
               o == <<x, y>>
    <3>1. c.selection = dsp.chain.selection
      BY <1>a, DspFields, ResetTypes
    <3>2. x \in Events /\ x.kind = "gap"
      BY EventTypes DEF Gap
    <3>3. y \in Events /\ y.kind = "failed" /\ y.generation = dsp.generation
          /\ y.selection = dsp.chain.selection
      BY <1>a, DspFields, EventTypes DEF Failed
    <3>4. dsp' = [dsp EXCEPT !.pc = "receive", !.cursor = u, !.chain = c, !.last = None, !.out = o]
      BY <2>8
    <3> HIDE DEF c, x, y
    <3>5. o \in Seq(Events) /\ Len(o) = 2 /\ o[1] = x /\ o[2] = y
      BY <3>2, <3>3
    <3> HIDE DEF o
    <3>6. dsp'.prepared = dsp.prepared /\ dsp'.generation = dsp.generation
          /\ dsp'.chain = c /\ dsp'.pc = "receive" /\ dsp'.out = o
      BY <3>4, <1>a DEF DspTypes
    <3>7. Said' = Said \o o
      BY <3>6, <2>1, <1>a, SaidMore
    <3>8. \A i \in 1 .. Len(o) : /\ o[i].kind # "applied"
                                 /\ (Answers(o[i]) => /\ o[i].selection = dsp.chain.selection
                                                      /\ o[i].generation = dsp.generation)
      BY <3>2, <3>3, <3>5 DEF Answers
    <3>9. Undisturbed /\ Untold
      BY <2>5, <3>1, <3>6
    <3> QED BY <3>5, <3>7, <3>8, <3>9, QuietStep
  <2> QED BY <1>6, <2>6, <2>7, <2>8, RecordIs DEF u
<1> QED BY <1>1, <1>2, <1>3, <1>4, <1>5, <1>6

LEMMA UnderWayIs == UnderWay \in BOOLEAN /\ InLoader \in BOOLEAN /\ IsReady \in BOOLEAN /\ IsTaken \in BOOLEAN
BY DEF UnderWay, InLoader, IsReady, IsTaken

LEMMA LoaderRest ==
    ASSUME SwitchAssumption, SwitchTypes, RestInv,
           LoaderStart \/ LoaderWarm \/ LoaderLook \/ LoaderFails \/ LoaderEnds
    PROVE  RestInv'
<1>a. SharedTypes /\ StateTypes /\ DspTypes /\ results \in Seq(Events) /\ blocks \in Seq(Works)
      /\ loader \in Loaders
  BY DEF SwitchTypes
<1>b. UNCHANGED <<results, dsp>>
  BY DEF LoaderStart, LoaderWarm, LoaderLook, LoaderFails, LoaderEnds
<1>c. Said' = Said
  BY <1>b DEF Said
<1>d. Untold /\ state'.generation = state.generation
  BY <1>a, ErrorTypes DEF LoaderStart, LoaderWarm, LoaderLook, LoaderFails, LoaderEnds,
     StateTypes, Untold
<1>e. loader.pc # "off"
  BY DEF LoaderStart, LoaderWarm, LoaderLook, LoaderFails, LoaderEnds
<1>f. shared.loading = InLoader /\ InLoader /\ ~IsReady /\ ~IsTaken /\ UnderWay
  BY <1>e DEF RestInv, OneAtWork, InLoader, UnderWay
<1>g. loader.generation \in Nat /\ shared.generation \in Nat /\ loader.run \in Runs
      /\ loader.run.chain \in Chains
  BY <1>a, SharedFields DEF Loaders, Runs
\* The loader goes on.
<1>1. ASSUME UNCHANGED <<shared, blocks>>, loader'.pc # "off", loader'.generation <= shared.generation,
             loader'.pc \in {"warm", "look", "done"} => OfTheRequest(loader')
      PROVE  RestInv'
  <2>1. InLoader' /\ ~IsReady' /\ ~IsTaken' /\ UnderWay'
    BY <1>1, <1>b, <1>f DEF InLoader, IsReady, IsTaken, UnderWay
  <2>2. OneAtWork'
    BY <2>1, <1>1, <1>b, <1>d, <1>f DEF RestInv, OneAtWork
  <2>3. NoneIsLater'
    BY <1>1, <1>b, <1>c DEF RestInv, NoneIsLater
  <2>4. WhatIsAsked'
    BY <1>1, <1>b, <1>c, <1>d, <1>f DEF RestInv, WhatIsAsked, OfTheRequest, Untold
  <2>5. WhatIsSaid'
    BY <1>f, <2>1, <1>1, <1>b, <1>c, <1>d DEF RestInv, WhatIsSaid, Coherent, Untold
  <2> QED BY <2>2, <2>3, <2>4, <2>5 DEF RestInv
<1>2. CASE LoaderStart
  <2> DEFINE c == Chain(shared.desired)
             r == [chain |-> c, frames |-> << >>]
             g == shared.generation
  <2>1. loader' = [loader EXCEPT !.pc = "warm", !.generation = g, !.run = r] /\ UNCHANGED <<shared, blocks>>
    BY <1>2 DEF LoaderStart
  <2>2. c.selection = shared.desired /\ r.chain = c
    BY <1>a, SharedFields, ChainTypes
  <2> HIDE DEF c, r, g
  <2>3. loader'.pc = "warm" /\ loader'.generation = g /\ loader'.run = r
    BY <2>1, <1>a DEF Loaders
  <2> QED BY <2>1, <2>2, <2>3, <1>1, <1>g DEF OfTheRequest, g
<1>3. CASE LoaderWarm
  <2> DEFINE recent == LastOf(shared.recent, Warm)
             r == FeedKeeping(loader.run, recent)
             u == IF recent = << >> THEN 0 ELSE Last(recent).start + 1
             e == shared.epoch
  <2>1. loader' = [loader EXCEPT !.pc = "look", !.round = 0, !.epoch = e, !.run = r, !.cursor = u]
        /\ UNCHANGED <<shared, blocks>> /\ loader.pc = "warm"
    BY <1>3 DEF LoaderWarm
  <2>2. recent \in Seq(Pieces)
    BY LastOfIs, <1>a, SharedFields DEF SwitchAssumption
  <2>3. r.chain.selection = loader.run.chain.selection
    BY <2>2, <1>g, FeedKeepingTypes, FeedTypes
  <2> HIDE DEF recent, r, u, e
  <2>4. loader'.pc = "look" /\ loader'.generation = loader.generation /\ loader'.run = r
    BY <2>1, <1>a DEF Loaders
  <2>5. OfTheRequest(loader) /\ loader.pc # "failed"
    BY <2>1 DEF RestInv, WhatIsAsked
  <2>6. OfTheRequest(loader')
    BY <2>3, <2>4, <2>5 DEF OfTheRequest
  <2>7. loader.generation <= shared.generation
    BY DEF RestInv, NoneIsLater
  <2> QED BY <2>1, <2>4, <2>6, <2>7, <1>1
<1>4. CASE LoaderLook
  <2> DEFINE pending == Since(loader.cursor, shared.recent)
             c == Reset(loader.run.chain)
             fresh == [chain |-> c, frames |-> << >>]
             r == FeedKeeping(loader.run, pending)
             u == Last(pending).start + 1
             n == loader.round + 1
  <2>1. /\ \/ loader' = [loader EXCEPT !.pc = "done"]
           \/ loader' = [loader EXCEPT !.pc = "failed"]
           \/ loader' = [loader EXCEPT !.pc = "done", !.run = fresh]
           \/ loader' = [loader EXCEPT !.run = r, !.round = n, !.cursor = u]
        /\ UNCHANGED <<shared, blocks>> /\ loader.pc = "look"
    BY <1>4 DEF LoaderLook
  <2>2. pending \in Seq(Pieces)
    BY SinceIs, <1>a, SharedFields
  <2>3. r.chain.selection = loader.run.chain.selection
    BY <2>2, <1>g, FeedKeepingTypes, FeedTypes
  <2>4. fresh.chain.selection = loader.run.chain.selection
    BY <1>g, ResetTypes
  <2>5. OfTheRequest(loader) /\ loader.pc # "failed"
    BY <2>1 DEF RestInv, WhatIsAsked
  <2>6. loader.generation <= shared.generation
    BY DEF RestInv, NoneIsLater
  <2> HIDE DEF pending, fresh, r, u, n
  <2>7. /\ loader'.generation = loader.generation /\ loader'.pc \in {"look", "done", "failed"}
        /\ loader'.run.chain.selection = loader.run.chain.selection
    BY <1>a, <2>4, <2>1, <2>3 DEF Loaders
  <2>8. OfTheRequest(loader')
    BY <2>5, <2>7 DEF OfTheRequest
  <2> QED BY <2>1, <2>6, <2>7, <2>8, <1>1
<1>5. CASE LoaderFails
  BY <1>5, <1>a, <1>1 DEF LoaderFails, Loaders, RestInv, NoneIsLater
<1>6. CASE LoaderEnds /\ Superseded
  BY <1>6, <1>a, <1>1 DEF LoaderEnds, Loaders, RestInv, NoneIsLater
<1>7. CASE LoaderEnds /\ ~Superseded
  <2> DEFINE one == {loader}
  <2>1. shared' = [shared EXCEPT !.loading = FALSE, !.prepared = one]
        /\ loader' = [loader EXCEPT !.pc = "off"] /\ blocks' = Put(Nudge)
        /\ loader.pc \in {"done", "failed"} /\ shared.generation = loader.generation
    BY <1>7 DEF LoaderEnds, Superseded
  <2>2. blocks' # << >>
    BY <2>1, <1>a, EventTypes, PutTypes
  <2> HIDE DEF one
  <2>3. shared'.loading = FALSE /\ shared'.prepared = one /\ shared'.generation = shared.generation
        /\ shared'.desired = shared.desired
    BY <2>1, <1>a DEF SharedTypes
  <2>4. loader'.pc = "off" /\ loader'.generation = loader.generation
    BY <2>1, <1>a DEF Loaders
  <2>5. \A p \in one : p = loader
    BY DEF one
  <2>6. loader \in one
    BY DEF one
  <2>7. ~InLoader' /\ IsReady' /\ ~IsTaken' /\ UnderWay'
    BY <2>1, <2>3, <2>4, <2>6, <1>b, <1>f DEF InLoader, IsReady, IsTaken, UnderWay
  <2>8. OneAtWork'
    BY <2>3, <2>5, <1>b, <2>4, <1>d, <2>2, <2>7 DEF RestInv, OneAtWork, InLoader
  <2>9. NoneIsLater'
    BY <2>3, <2>4, <2>5, <1>b, <1>c DEF RestInv, NoneIsLater
  <2>10. loader.pc # "failed" => OfTheRequest(loader)
    BY <2>1 DEF RestInv, WhatIsAsked
  <2>11. WhatIsAsked'
    BY <2>3, <2>5, <2>10, <1>b, <1>c, <1>d, <1>f, <2>4 DEF OfTheRequest, RestInv,
       WhatIsAsked, Untold
  <2>12. WhatIsSaid'
    BY <1>f, <2>3, <2>7, <1>b, <1>c, <1>d DEF RestInv, WhatIsSaid, Coherent, Untold
  <2> QED BY <2>8, <2>9, <2>11, <2>12 DEF RestInv
<1> QED BY <1>2, <1>3, <1>4, <1>5, <1>6, <1>7

LEMMA RequestRest ==
    ASSUME SwitchAssumption, SwitchTypes, RestInv, NEW selection \in Selections, Request(selection)
    PROVE  RestInv'
<1>a. SharedTypes /\ StateTypes /\ DspTypes /\ results \in Seq(Events) /\ blocks \in Seq(Works)
      /\ loader \in Loaders /\ Said \in Seq(Events)
  BY SaidIs DEF SwitchTypes
<1> DEFINE n == shared.generation + 1
<1>b. UNCHANGED <<results, dsp>>
  BY DEF Request
<1>c. Said' = Said
  BY <1>b DEF Said
<1>d. state' = [state EXCEPT !.requested = selection, !.switching = TRUE, !.generation = n]
  BY DEF Request
<1>e. /\ shared.generation \in Nat /\ n \in Nat /\ n > shared.generation /\ ~(n <= shared.generation)
      /\ dsp.generation \in Nat /\ loader.generation \in Nat
      /\ \A p \in shared.prepared : p.generation \in Nat
      /\ \A p \in dsp.prepared : p.generation \in Nat
  <2>1. shared.generation \in Nat /\ dsp.generation \in Nat /\ loader.generation \in Nat
    BY <1>a, SharedFields, DspFields DEF Loaders
  <2>2. \A p \in Loaders : p.generation \in Nat
    BY DEF Loaders
  <2>3. shared.prepared \in SUBSET Loaders /\ dsp.prepared \in SUBSET Loaders
    BY <1>a, SharedFields, DspFields
  <2>4. n \in Nat /\ n > shared.generation /\ ~(n <= shared.generation)
    BY <2>1
  <2> QED BY <2>1, <2>2, <2>3, <2>4
<1>f. \/ /\ shared' = [shared EXCEPT !.desired = selection, !.generation = n, !.loading = TRUE]
         /\ loader' = IF shared.loading THEN loader ELSE [loader EXCEPT !.pc = "start"]
         /\ blocks' = blocks
      \/ /\ ~shared.loading
         /\ shared' = [shared EXCEPT !.desired = selection, !.generation = n,
                               !.prepared = {[loader EXCEPT !.pc = "failed", !.generation = n]}]
         /\ blocks' = Put(Nudge)
         /\ loader' = loader
  BY DEF Request
<1>g. \A i \in 1 .. Len(Said) : Answers(Said[i]) => Said[i].generation \in Nat
  BY <1>a DEF Events, Answered, Answers
<1> HIDE DEF n
<1>h. state'.generation = n /\ state'.switching = TRUE /\ state'.requested = selection
      /\ state'.applied = state.applied
  BY <1>d, <1>a DEF StateTypes
<1>i. NothingCounts(Said, n) /\ NotLater(Said, n)
  BY <1>e, <1>g DEF RestInv, NoneIsLater, NotLater, NothingCounts, Counts
<1>j. /\ dsp.generation <= n /\ dsp.generation # n /\ loader.generation <= n /\ loader.generation # n
      /\ \A p \in shared.prepared : p.generation <= n /\ p.generation # n
      /\ \A p \in dsp.prepared : p.generation <= n /\ p.generation # n
  <2>1. /\ dsp.generation <= shared.generation /\ loader.generation <= shared.generation
        /\ \A p \in shared.prepared : p.generation <= shared.generation
        /\ \A p \in dsp.prepared : p.generation <= shared.generation
    BY DEF RestInv, NoneIsLater
  <2> QED BY <2>1, <1>e
\* What the user hears of it comes later.
<1>1. ASSUME UnderWay', shared'.generation = n PROVE WhatIsSaid'
  BY <1>i, <1>1, <1>b, <1>c, <1>h DEF RestInv, WhatIsSaid, NothingCounts, Counts, Answers,
     Coherent
<1>2. CASE /\ shared' = [shared EXCEPT !.desired = selection, !.generation = n, !.loading = TRUE]
           /\ loader' = IF shared.loading THEN loader ELSE [loader EXCEPT !.pc = "start"]
           /\ blocks' = blocks
  <2>1. shared'.desired = selection /\ shared'.generation = n /\ shared'.loading = TRUE
        /\ shared'.prepared = shared.prepared
    BY <1>2, <1>a DEF SharedTypes
  <2>2. shared.loading = InLoader
    BY DEF RestInv, OneAtWork
  <2>3. loader'.pc # "off" /\ loader'.generation = loader.generation
    BY <1>2, <1>a, <2>2 DEF Loaders, InLoader
  <2>4. InLoader' /\ ~IsReady' /\ ~IsTaken' /\ UnderWay'
    BY <2>1, <2>3, <1>b, <1>j DEF InLoader, IsReady, IsTaken, UnderWay
  <2>5. OneAtWork'
    BY <2>1, <2>4, <1>b, <1>h DEF RestInv, OneAtWork
  <2>6. NoneIsLater'
    BY <2>1, <2>3, <1>b, <1>c, <1>i, <1>j DEF NoneIsLater
  <2>7. WhatIsAsked'
    BY <2>1, <2>3, <1>b, <1>c, <1>h, <1>i, <1>j DEF WhatIsAsked, OfTheRequest
  <2> QED BY <2>1, <2>4, <2>5, <2>6, <2>7, <1>1 DEF RestInv
<1>3. CASE /\ ~shared.loading
           /\ shared' = [shared EXCEPT !.desired = selection, !.generation = n,
                               !.prepared = {[loader EXCEPT !.pc = "failed", !.generation = n]}]
           /\ blocks' = Put(Nudge)
           /\ loader' = loader
  <2> DEFINE f == [loader EXCEPT !.pc = "failed", !.generation = n]
             one == {f}
  <2>1. f.pc = "failed" /\ f.generation = n
    BY <1>a DEF Loaders
  <2>2. \A p \in one : p = f
    OBVIOUS
  <2>3. f \in one
    OBVIOUS
  <2>4. shared' = [shared EXCEPT !.desired = selection, !.generation = n, !.prepared = one]
    BY <1>3
  <2> HIDE DEF f, one
  <2>5. shared'.desired = selection /\ shared'.generation = n /\ shared'.loading = shared.loading
        /\ shared'.prepared = one
    BY <2>4, <1>a DEF SharedTypes
  <2>6. shared.loading = InLoader /\ ~InLoader
    BY <1>3 DEF RestInv, OneAtWork
  <2>7. ~InLoader' /\ IsReady' /\ ~IsTaken' /\ UnderWay'
    BY <2>1, <2>3, <2>5, <2>6, <1>3, <1>b, <1>j DEF InLoader, IsReady, IsTaken, UnderWay
  <2>8. blocks' # << >>
    BY <1>3, <1>a, EventTypes, PutTypes
  <2>9. OneAtWork'
    BY <2>5, <2>6, <1>3, <2>2, <1>b, <2>7, <2>8, <1>h DEF InLoader, RestInv, OneAtWork
  <2>10. NoneIsLater'
    BY <2>1, <2>2, <2>5, <1>3, <1>b, <1>c, <1>e, <1>i, <1>j DEF NoneIsLater
  <2>11. WhatIsAsked'
    BY <2>1, <2>2, <2>5, <1>3, <1>b, <1>c, <1>h, <1>i, <1>j DEF WhatIsAsked, OfTheRequest
  <2> QED BY <2>5, <2>7, <2>9, <2>10, <2>11, <1>1 DEF RestInv
<1> QED BY <1>f, <1>2, <1>3

LEMMA TakenRest ==
    ASSUME SwitchAssumption, SwitchTypes, RestInv, TakeEvent
    PROVE  RestInv'
<1>a. SharedTypes /\ StateTypes /\ DspTypes /\ results \in Seq(Events) /\ blocks \in Seq(Works)
      /\ Said \in Seq(Events)
  BY SaidIs DEF SwitchTypes
<1>b. UNCHANGED <<dsp, loader>> /\ results # << >> /\ results' = Tail(results)
  BY DEF TakeEvent
<1>c. Said # << >> /\ Head(Said) = Head(results) /\ Said' = Tail(Said) /\ Head(results) \in Events
  BY <1>a, <1>b, SaidIsTaken
<1>d. shared'.generation = shared.generation /\ shared'.loading = shared.loading
      /\ shared'.desired = shared.desired /\ shared'.prepared = shared.prepared
  BY <1>a DEF TakeEvent, SharedTypes, Flushed
<1>e. blocks # << >> => blocks' # << >>
  BY <1>a, EventTypes, PutTypes DEF TakeEvent
<1>f. IsReady' = IsReady /\ IsTaken' = IsTaken /\ InLoader' = InLoader /\ UnderWay' = UnderWay
  BY <1>b, <1>d DEF IsReady, IsTaken, InLoader, UnderWay
<1>g. NoneIsLater'
  BY <1>a, <1>b, <1>c, <1>d, LessOfThem DEF RestInv, NoneIsLater
<1>h. state.generation = shared.generation /\ UnderWay \in BOOLEAN
  BY UnderWayIs DEF RestInv, OneAtWork
\* What is told is what was said.
<1>1. ASSUME state'.generation = state.generation,
             UnderWay => state'.switching = state.switching /\ state'.requested = state.requested,
             Coherent(Tail(Said), shared.generation, state'.switching, state'.requested, state'.applied,
                      dsp.chain.selection, UnderWay)
      PROVE  RestInv'
  BY <1>1, <1>b, <1>d, <1>e, <1>f, <1>a, <1>c, LessOfThem, <1>g DEF RestInv, OneAtWork,
     WhatIsAsked, OfTheRequest, WhatIsSaid
<1>2. CASE ~Answers(Head(Said))
  <2>1. state' = state
    BY <1>2, <1>c DEF TakeEvent, Events, Answers, Answered
  <2>2. Coherent(Tail(Said), shared.generation, state.switching, state.requested, state.applied,
                 dsp.chain.selection, UnderWay)
    BY <1>a, Booleans, SharedFields, <1>2, <1>c, <1>h, CoherentWithout DEF RestInv,
       WhatIsSaid
  <2> QED BY <2>1, <2>2, <1>1
<1>3. CASE Answers(Head(Said))
  BY <1>3, <1>c, <1>h, <1>a, CoherentCompleted, <1>1 DEF Events, Answers, TakeEvent, RestInv,
     WhatIsSaid, WhatIsAsked, NothingCounts
<1> QED BY <1>2, <1>3

\* What keeps the chain leaves what is said coherent.
LEMMA MoreSaid ==
    ASSUME SwitchTypes, RestInv, NEW o \in Seq(Events),
           \A i \in 1 .. Len(o) :
              o[i].kind # "applied" /\ (Answers(o[i]) => o[i].selection = dsp.chain.selection)
    PROVE  Coherent(Said \o o, shared.generation, state.switching, state.requested, state.applied,
                    dsp.chain.selection, UnderWay)
  BY SaidIs, SharedFields, Booleans, UnderWayIs, CoherentWithMore DEF SwitchTypes, RestInv,
     WhatIsSaid

\* The chain of the request replaces the one that runs.
LEMMA AppliedSaid ==
    ASSUME SwitchTypes, RestInv, NEW o \in Seq(Events), NEW next,
           state.switching = TRUE, NothingCounts(Said, shared.generation),
           o # << >>, o[1] \in Answered, o[1].kind = "applied", o[1].generation = shared.generation,
           o[1].selection = next, next = state.requested,
           \A i \in 2 .. Len(o) : ~Answers(o[i])
    PROVE  /\ Coherent(Said \o o, shared.generation, state.switching, state.requested, state.applied,
                       next, UnderWay)
           /\ \E i \in 1 .. Len(Said \o o) : Counts((Said \o o)[i], shared.generation)
<1>1. Said \in Seq(Events) /\ shared.generation \in Nat
  BY SaidIs, SharedFields DEF SwitchTypes
<1>2. state.switching \in BOOLEAN /\ UnderWay \in BOOLEAN
  BY Booleans, UnderWayIs DEF SwitchTypes
<1>3. \A i \in 1 .. Len(Said) : ~Counts(Said[i], shared.generation)
  BY DEF NothingCounts
<1>4. Coherent(Said, shared.generation, state.switching, state.requested, state.applied,
               dsp.chain.selection, UnderWay)
  BY DEF RestInv, WhatIsSaid
<1>5. o[1].selection = state.requested
  OBVIOUS
<1> DEFINE q == Said
           more == o
           g == shared.generation
           requested == state.requested
<1>6. /\ q \in Seq(Events) /\ more \in Seq(Events) /\ more # << >> /\ more[1] \in Answered
      /\ more[1].kind = "applied" /\ more[1].generation = g /\ more[1].selection = requested
      /\ \A i \in 2 .. Len(more) : ~Answers(more[i])
      /\ \A i \in 1 .. Len(q) : ~Counts(q[i], g)
  BY <1>1, <1>3, <1>5
<1> HIDE DEF q, more, g, requested
<1> USE <1>6
<1> DEFINE r == q \o more
<1>7. /\ \A i \in 1 .. Len(q) : i \in 1 .. Len(r) /\ r[i] = q[i]
      /\ \A i \in 1 .. Len(more) : Len(q) + i \in 1 .. Len(r) /\ r[Len(q) + i] = more[i]
      /\ \A i \in 1 .. Len(r) : i \in 1 .. Len(q) \/ \E k \in 1 .. Len(more) : i = Len(q) + k
      /\ Len(q) \in Nat /\ Len(more) \in Nat /\ Len(r) = Len(q) + Len(more)
  BY <1>6, Indices
<1>8. 1 \in 1 .. Len(more)
  BY <1>7
<1> HIDE DEF r
<1> DEFINE n == Len(q) + 1
<1>9. n \in 1 .. Len(r) /\ r[n] = more[1] /\ n \in Nat
  BY <1>7, <1>8
<1>10. \A i \in 1 .. Len(r) : i > n => ~Answers(r[i])
  <2> SUFFICES ASSUME NEW i \in 1 .. Len(r), i > n PROVE ~Answers(r[i])
    OBVIOUS
  <2>0. i \notin 1 .. Len(q)
    BY <1>7
  <2>1. PICK k \in 1 .. Len(more) : i = Len(q) + k
    BY <2>0, <1>7
  <2>2. k \in 2 .. Len(more)
    BY <2>1, <1>7
  <2> QED BY <2>1, <2>2, <1>7
<1>11. IsLast(r, n)
  BY <1>10 DEF IsLast, Answers
<1>12. \A i \in 1 .. Len(r) : i < n => r[i] = q[i] /\ i \in 1 .. Len(q) /\ ~IsLast(r, i)
  BY <1>7, <1>9 DEF IsLast
<1>13. Counts(r[n], g) /\ Answers(r[n]) /\ r[n].selection = requested
  BY <1>9 DEF Counts, Answers
<1>14. \A i \in 1 .. Len(r) : i < n \/ i = n \/ i > n
  BY <1>9
<1>15. ASSUME NEW i \in 1 .. Len(r)
      PROVE  /\ (Counts(r[i], g) => IsLast(r, i))
             /\ (r[i].kind = "applied" /\ r[i].generation = g => r[i].selection = requested)
             /\ (Answers(r[i]) /\ IsLast(r, i) => r[i].selection = requested)
  BY <1>12, <1>11, <1>13, <1>10, <1>14 DEF Counts, Answers
<1>16. ~NoneApplied(r)
  BY <1>9 DEF NoneApplied
<1>17. \E i \in 1 .. Len(r) : Counts(r[i], g)
  BY <1>9, <1>13
<1>18. Coherent(r, g, state.switching, requested, state.applied, requested, UnderWay)
  BY <1>4, <1>15, <1>16, <1>17 DEF Coherent
<1> QED BY <1>17, <1>18 DEF r, q, more, g, requested

\* The worker says that nothing came of the request.
LEMMA FailedRest ==
    ASSUME SwitchAssumption, SwitchTypes, RestInv, UnderWay, dsp.out = << >>,
           UNCHANGED <<results, loader>>, Untold, state'.generation = state.generation,
           shared'.generation = shared.generation, shared'.loading = shared.loading,
           shared'.desired = shared.desired,
           ~UnderWay', shared'.prepared \subseteq shared.prepared, dsp'.prepared = {},
           dsp'.generation = dsp.generation, dsp'.chain = dsp.chain,
           dsp'.out = <<Failed(shared.generation)>>
    PROVE  RestInv'
<1>a. SharedTypes /\ StateTypes /\ DspTypes /\ results \in Seq(Events) /\ Said \in Seq(Events)
      /\ shared.generation \in Nat
  BY SaidIs, SharedFields DEF SwitchTypes
<1> DEFINE y == Failed(shared.generation)
           o == <<y>>
<1>1. y \in Events /\ y.kind = "failed" /\ y.generation = shared.generation
      /\ y.selection = dsp.chain.selection
  BY <1>a, EventTypes DEF Failed
<1>b. dsp'.out = o
  OBVIOUS
<1> HIDE DEF y
<1>2. o \in Seq(Events) /\ Len(o) = 1 /\ o[1] = y
  BY <1>1
<1> HIDE DEF o
<1>3. Said' = Said \o o
  BY <1>a, <1>b, SaidMore
<1>4. \A i \in 1 .. Len(o) : o[i] = y
  BY <1>2
<1>5. ~InLoader' /\ ~IsReady' /\ ~IsTaken'
  BY DEF UnderWay
<1>6. OneAtWork'
  BY <1>5 DEF RestInv, OneAtWork, InLoader
<1>7. NoneIsLater'
  <2>1. NotLater(o, shared.generation)
    BY <1>1, <1>4, <1>a DEF NotLater
  <2>2. NotLater(Said \o o, shared.generation)
    BY <2>1, <1>2, <1>a, MoreOfThem DEF RestInv, NoneIsLater
  <2> QED BY <2>2, <1>3 DEF RestInv, NoneIsLater
<1>8. WhatIsAsked'
  BY DEF RestInv, WhatIsAsked, OfTheRequest
<1>9. WhatIsSaid'
  <2>1. \A i \in 1 .. Len(o) : o[i].kind # "applied" /\ (Answers(o[i]) => o[i].selection = dsp.chain.selection)
    BY <1>1, <1>4
  <2>2. \E i \in 1 .. Len(o) : Counts(o[i], shared.generation)
    BY <1>1, <1>2 DEF Counts, Answers
  <2>3. Coherent(Said, shared.generation, state.switching, state.requested, state.applied,
                 dsp.chain.selection, UnderWay)
    BY DEF RestInv, WhatIsSaid
  <2>4. state.switching \in BOOLEAN /\ UnderWay \in BOOLEAN
    BY <1>a, Booleans, UnderWayIs
  <2>5. Coherent(Said \o o, shared.generation, state.switching, state.requested, state.applied,
                 dsp.chain.selection, UnderWay)
    BY <2>1, <1>2, MoreSaid
  <2>6. \E i \in 1 .. Len(Said \o o) : Counts((Said \o o)[i], shared.generation)
    <3>0. Said \in Seq(Events) /\ o \in Seq(Events) /\ 1 \in 1 .. Len(o)
      BY <1>2, <1>a
    <3>1. Len(Said) + 1 \in 1 .. Len(Said \o o) /\ (Said \o o)[Len(Said) + 1] = o[1]
      BY <3>0, Indices
    <3> QED BY <3>1, <1>1, <1>2 DEF Counts, Answers
  <2> QED BY <2>5, <2>6, <1>3 DEF WhatIsSaid, Untold, Coherent
<1> QED BY <1>6, <1>7, <1>8, <1>9 DEF RestInv

LEMMA TakeRest ==
    ASSUME SwitchAssumption, SwitchTypes, RestInv, WorkerTake
    PROVE  RestInv'
<1>a. SharedTypes /\ StateTypes /\ DspTypes /\ results \in Seq(Events) /\ Said \in Seq(Events)
      /\ shared.prepared \in SUBSET Loaders
  BY SaidIs, SharedFields DEF SwitchTypes
<1>b. UNCHANGED <<blocks, results, loader>> /\ dsp.pc = "take" /\ dsp.out = << >>
      /\ shared' = [shared EXCEPT !.prepared = {}]
  BY DEF WorkerTake, At
<1>c. shared'.generation = shared.generation /\ shared'.loading = shared.loading
      /\ shared'.desired = shared.desired /\ shared'.prepared = {}
  BY <1>b, <1>a DEF SharedTypes
<1>d. Untold /\ state'.generation = state.generation
  BY <1>a, ErrorTypes DEF WorkerTake, StateTypes, Untold
<1>e. ~IsReady' /\ InLoader' = InLoader /\ dsp.prepared = {} /\ ~IsTaken
  BY <1>b, <1>c DEF IsReady, InLoader, IsTaken, RestInv, OneAtWork
\* Nothing is said yet.
<1>1. ASSUME dsp'.out = << >>, dsp'.generation = dsp.generation, dsp'.chain = dsp.chain,
             IsTaken' = IsReady, \A p, q \in dsp'.prepared : p = q,
             \A p \in dsp'.prepared : p.generation <= shared.generation /\ OfTheRequest(p),
             dsp'.pc # "install" => dsp'.prepared = {}
      PROVE  RestInv'
  BY <1>1, <1>e, <1>a, <1>b, SaidTheSame, <1>c, <1>d DEF UnderWay, RestInv, OneAtWork,
     NoneIsLater, WhatIsAsked, OfTheRequest, Untold, WhatIsSaid
<1>2. CASE /\ \A p \in shared.prepared : p.generation # shared.generation
           /\ dsp' = [dsp EXCEPT !.pc = "check"]
  BY <1>2, <1>a, <1>b, <1>e, <1>1 DEF DspTypes, IsReady, IsTaken
<1>3. ASSUME NEW p \in shared.prepared, p.generation = shared.generation,
             dsp' = [dsp EXCEPT !.pc = "check", !.out = <<Failed(p.generation)>>]
      PROVE  RestInv'
  BY <1>3, <1>a, <1>e, <1>b, <1>c, <1>d, FailedRest DEF DspTypes, IsReady, UnderWay, RestInv,
     OneAtWork, IsTaken
<1>4. ASSUME NEW p \in shared.prepared, NEW fails \in BOOLEAN,
             p.generation = shared.generation, p.pc = "done",
             dsp' = [dsp EXCEPT
                        !.pc = "install", !.boundary = Boundary(p), !.seen = shared.epoch,
                        !.prepared = {IF fails THEN [p EXCEPT !.pc = "failed"] ELSE CaughtUp(p)}]
      PROVE  RestInv'
  <2> DEFINE q == IF fails THEN [p EXCEPT !.pc = "failed"] ELSE CaughtUp(p)
             one == {q}
             b == Boundary(p)
             e == shared.epoch
  <2>1. p \in Loaders
    BY <1>a
  <2>2. OfTheRequest(p)
    BY DEF RestInv, WhatIsAsked
  <2>3. q.generation = shared.generation
        /\ (q.pc # "failed" => q.run.chain.selection = p.run.chain.selection)
    BY <2>1, <1>4, <1>a, CaughtUpTypes DEF Loaders
  <2>4. dsp' = [dsp EXCEPT !.pc = "install", !.boundary = b, !.seen = e, !.prepared = one]
    BY <1>4
  <2>5. (\A r \in one : r = q) /\ q \in one
    OBVIOUS
  <2> HIDE DEF q, one, b, e
  <2>6. dsp'.out = << >> /\ dsp'.generation = dsp.generation /\ dsp'.chain = dsp.chain
        /\ dsp'.prepared = one /\ dsp'.pc = "install"
    BY <2>4, <1>a, <1>b DEF DspTypes
  <2>7. IsReady
    BY <1>4 DEF IsReady
  <2>8. IsTaken'
    BY <2>3, <2>5, <2>6, <1>c DEF IsTaken
  <2>9. OfTheRequest(q)
    BY <2>2, <2>3, <1>4 DEF OfTheRequest
  <2>10. \A r \in one : r.generation <= shared.generation /\ OfTheRequest(r)
    BY <2>3, <2>5, <2>9, <1>a, SharedFields
  <2> QED BY <1>1, <2>5, <2>6, <2>7, <2>8, <2>10
<1> QED
  <2>1. \/ /\ \A p \in shared.prepared : p.generation # shared.generation
           /\ dsp' = [dsp EXCEPT !.pc = "check"]
        \/ \E p \in shared.prepared :
             /\ p.generation = shared.generation
             /\ dsp' = [dsp EXCEPT !.pc = "check", !.out = <<Failed(p.generation)>>]
        \/ \E p \in shared.prepared, fails \in BOOLEAN :
             /\ p.generation = shared.generation /\ p.pc = "done"
             /\ dsp' = [dsp EXCEPT
                        !.pc = "install", !.boundary = Boundary(p), !.seen = shared.epoch,
                        !.prepared = {IF fails THEN [p EXCEPT !.pc = "failed"] ELSE CaughtUp(p)}]
    BY Zenon DEF WorkerTake
  <2> QED BY <2>1, <1>2, <1>3, <1>4

LEMMA InstallRest ==
    ASSUME SwitchAssumption, SwitchTypes, RestInv, WorkerInstall
    PROVE  RestInv'
<1>a. SharedTypes /\ StateTypes /\ DspTypes /\ results \in Seq(Events) /\ Said \in Seq(Events)
      /\ shared.generation \in Nat
  BY SaidIs, SharedFields DEF SwitchTypes
<1>b. UNCHANGED <<shared, blocks, results, loader, state>>
  BY DEF WorkerInstall
<1>c. dsp.pc = "install" /\ dsp.out = << >>
  BY InstallIs DEF At
<1>d. PICK p \in dsp.prepared : Installs(p)
  BY InstallIs
<1>e. p \in Loaders /\ \A q \in dsp.prepared : q = p
  BY <1>a, DspFields DEF RestInv, OneAtWork
<1>f. IsReady' = IsReady /\ InLoader' = InLoader /\ Untold /\ (IsReady => blocks # << >>)
  BY <1>b, <1>c DEF IsReady, InLoader, Untold, RestInv, OneAtWork
<1>1. CASE p.generation # shared.generation /\ dsp' = [dsp EXCEPT !.pc = "check", !.prepared = {}]
  BY <1>1, <1>a, <1>c, <1>e, <1>f, UnderWayIs, <1>b, SaidTheSame DEF DspTypes, IsTaken,
     UnderWay, RestInv, OneAtWork, NoneIsLater, WhatIsAsked, OfTheRequest, WhatIsSaid
<1>2. CASE p.generation = shared.generation
           /\ dsp' = [dsp EXCEPT !.pc = "check", !.prepared = {}, !.out = <<Failed(p.generation)>>]
  BY <1>2, <1>a, <1>f, <1>b, <1>c, FailedRest DEF DspTypes, IsTaken, UnderWay, RestInv,
     OneAtWork
<1>3. CASE p.generation = shared.generation /\ p.pc # "failed"
           /\ dsp' = [dsp EXCEPT !.pc = "check", !.prepared = {},
                            !.chain = NewChain(p), !.generation = p.generation, !.epoch = shared.epoch,
                            !.cursor = IF shared.epoch # dsp.seen THEN None ELSE dsp.cursor,
                            !.last = NewLast(p), !.out = <<Applied(p)>> \o NewAudio(p)]
  <2> DEFINE c == NewChain(p)
             g == p.generation
             e == shared.epoch
             u == IF shared.epoch # dsp.seen THEN None ELSE dsp.cursor
             l == NewLast(p)
             o == <<Applied(p)>> \o NewAudio(p)
             x == Applied(p)
  <2>1. /\ c \in Chains /\ c.selection = p.run.chain.selection
        /\ o \in Seq(Events) /\ Len(o) = Len(NewFrames(p)) + 1 /\ Len(NewFrames(p)) \in Nat /\ o[1] = x
        /\ \A i \in 1 .. Len(NewFrames(p)) : o[i + 1] = Audio(p.generation, shared.epoch, NewFrames(p)[i])
        /\ x \in Answered
    BY <1>a, <1>e, InstalledTypes
  <2>2. x.kind = "applied" /\ x.generation = shared.generation /\ x.selection = p.run.chain.selection
    BY <1>3, <2>1 DEF Applied
  <2>3. dsp' = [dsp EXCEPT !.pc = "check", !.prepared = {}, !.chain = c, !.generation = g,
                           !.epoch = e, !.cursor = u, !.last = l, !.out = o]
    BY <1>3
  <2>4. \A i \in 2 .. Len(o) : ~Answers(o[i])
    <3> SUFFICES ASSUME NEW i \in 2 .. Len(o) PROVE ~Answers(o[i])
      OBVIOUS
    <3> HIDE DEF o
    <3>1. i - 1 \in 1 .. Len(NewFrames(p)) /\ (i - 1) + 1 = i
      BY <2>1
    <3>2. o[(i - 1) + 1] = Audio(p.generation, shared.epoch, NewFrames(p)[i - 1])
      BY <3>1, <2>1
    <3>3. o[i].kind = "audio"
      BY <3>1, <3>2 DEF Audio
    <3> QED BY <3>3 DEF Answers
  <2>5. g = shared.generation
    BY <1>3
  <2> HIDE DEF c, g, e, u, l, o, x
  <2>6. dsp'.out = o /\ dsp'.generation = g /\ dsp'.chain = c /\ dsp'.prepared = {} /\ dsp'.pc = "check"
    BY <2>3, <1>a DEF DspTypes
  <2>7. IsTaken /\ UnderWay /\ ~InLoader /\ ~IsReady
    BY <1>3 DEF IsTaken, UnderWay, RestInv, OneAtWork
  <2>8. ~IsTaken' /\ ~UnderWay'
    BY <2>6, <2>7, <1>f DEF UnderWay, IsTaken
  <2>9. Said' = Said \o o
    BY <2>6, <1>a, <1>b, <1>c, SaidMore
  <2>10. OneAtWork'
    BY <2>6, <2>7, <2>8, <1>b, <1>f DEF RestInv, OneAtWork
  <2>11. \A i \in 1 .. Len(o) : Answers(o[i]) => o[i] = x
    BY <2>1, <2>4
  <2>12. NoneIsLater'
    <3>1. NotLater(o, shared.generation)
      BY <2>2, <2>11, <1>a DEF NotLater
    <3>2. NotLater(Said \o o, shared.generation)
      BY <3>1, <2>1, <1>a, MoreOfThem DEF RestInv, NoneIsLater
    <3> QED BY <3>2, <2>5, <2>6, <2>9, <1>a, <1>b DEF RestInv, NoneIsLater
  <2>13. WhatIsAsked'
    BY <2>6, <2>8, <1>b DEF RestInv, WhatIsAsked, OfTheRequest
  <2>14. WhatIsSaid'
    <3>2. state.switching = TRUE /\ shared.desired = state.requested
          /\ NothingCounts(Said, shared.generation)
      BY <2>7 DEF RestInv, WhatIsAsked
    <3>3. OfTheRequest(p)
      BY DEF RestInv, WhatIsAsked
    <3>4. c.selection = state.requested /\ x.selection = c.selection
      BY <3>2, <3>3, <2>1, <2>2, <1>3 DEF OfTheRequest
    <3>5. o # << >>
      BY <2>1
    <3>7. Coherent(Said \o o, shared.generation, state.switching, state.requested, state.applied,
                   c.selection, UnderWay)
        /\ \E i \in 1 .. Len(Said \o o) : Counts((Said \o o)[i], shared.generation)
      BY <3>2, <3>4, <3>5, <2>1, <2>2, <2>4, AppliedSaid
    <3> QED BY <3>7, <2>6, <2>8, <2>9, <1>b DEF WhatIsSaid, Coherent
  <2> QED BY <2>10, <2>12, <2>13, <2>14 DEF RestInv
<1> QED BY <1>d, <1>1, <1>2, <1>3 DEF Installs

LEMMA InitRest ==
    ASSUME SwitchAssumption, SwitchInit
    PROVE  RestInv
<1>1. PICK first \in Selections : SwitchInit!(first)
  BY DEF SwitchInit
<1>2. Said = << >>
  BY <1>1 DEF Said
<1>3. Len(Said) = 0 /\ 1 .. Len(Said) = {}
  BY <1>2
<1>4. ~InLoader /\ ~IsReady /\ ~IsTaken /\ ~UnderWay
  BY <1>1 DEF InLoader, IsReady, IsTaken, UnderWay
<1>5. OneAtWork
  BY <1>1, <1>4 DEF OneAtWork, InLoader
<1>6. NoneIsLater
  BY <1>1, <1>3 DEF NoneIsLater, NotLater
<1>7. WhatIsAsked
  BY <1>1, <1>4 DEF WhatIsAsked
<1>8. WhatIsSaid
  BY <1>1, ChainTypes, <1>3 DEF WhatIsSaid, Coherent, NoneApplied
<1> QED BY <1>5, <1>6, <1>7, <1>8 DEF RestInv

LEMMA RestStep ==
    ASSUME SwitchAssumption, SwitchTypes, RestInv, [SwitchNext]_switchVars
    PROVE  RestInv'
  BY SilentStep, SoundRest, TakenRest, RequestRest, LoaderRest, TakeRest, InstallRest DEF
     switchVars, Said, Undisturbed, Untold, RestInv, OneAtWork, SwitchNext

\* Each request is under way in one place, or its answer is said: the invariant that
\* the loader, the worker and the session keep together.
THEOREM SwitchIsInvariant == SwitchSpec => [](SwitchTypes /\ RestInv)
<1>1. SwitchInit => SwitchTypes /\ RestInv
  BY SwitchAssumption, InitTypes, InitRest
<1>2. SwitchTypes /\ RestInv /\ [SwitchNext]_switchVars => SwitchTypes' /\ RestInv'
  BY SwitchAssumption, TypesStep, RestStep
<1> QED BY <1>1, <1>2, PTL DEF SwitchSpec

\* When every thread of the noise suppression is at rest and all is heard, no switch is
\* pending, and the chain that runs is the one the user is told of, and asked for or kept.
THEOREM SwitchesEnd == SwitchSpec => []RestIsSwitched
<1>1. SwitchTypes /\ RestInv => RestIsSwitched
  <2> SUFFICES ASSUME SwitchTypes, RestInv,
                      blocks = << >>, results = << >>, At("receive"), loader.pc = "off"
               PROVE  ~state.switching /\ state.applied = dsp.chain.selection
                      /\ state.requested = state.applied
    BY DEF RestIsSwitched
  <2>1. dsp.pc = "receive" /\ dsp.out = << >>
    BY DEF At
  <2>2. Said = << >>
    BY <2>1 DEF Said
  <2>3. 1 .. Len(Said) = {}
    BY <2>2
  <2>4. ~UnderWay
    BY <2>1 DEF UnderWay, InLoader, IsTaken, RestInv, OneAtWork
  <2> QED BY <2>3, <2>4 DEF RestInv, WhatIsSaid, Coherent, NoneApplied
<1> QED BY <1>1, SwitchIsInvariant, PTL

-----------------------------------------------------------------------------
(* Chain switch: what is heard is in order                                 *)

\* Blocks and frames that are numbered on from first, blocks of one epoch, frames that are
\* named after the block they are made of.
RowFrom(s, first) == \A i \in 1 .. Len(s) : s[i].start = first + i - 1
AllOf(s, e) == \A i \in 1 .. Len(s) : s[i].epoch = e
Named(frame, e) == frame.of.start = frame.start /\ frame.of.epoch = e
AllNamed(frames, e) == \A i \in 1 .. Len(frames) : Named(frames[i], e)

\* A chain that was fed the blocks up to the cursor, one after the other, and its last frames.
Fed(chain, frames, e, cursor) ==
    /\ (chain.next = None => chain.held = << >> /\ frames = << >>)
    /\ (chain.next # None =>
          /\ chain.next \in Nat /\ chain.next + Len(chain.held) = cursor
          /\ Len(chain.held) <= Delay[chain.selection]
          /\ RowFrom(chain.held, chain.next) /\ AllOf(chain.held, e)
          /\ Len(frames) <= chain.next
          /\ RowFrom(frames, chain.next - Len(frames)) /\ AllNamed(frames, e))

FirstFrame(run) == run.chain.next - Len(run.frames)

\* Blocks that a run goes on with.
GoesOn(run, input, e, cursor, first) ==
    /\ Fed(run.chain, run.frames, e, cursor)
    /\ input # << >> /\ first \in Nat /\ RowFrom(input, first) /\ AllOf(input, e)
    /\ (run.chain.next # None => first = cursor)

LEMMA JoinedIs ==
    ASSUME NEW s \in Seq(Frames), NEW t \in Seq(Frames)
    PROVE  /\ s \o t \in Seq(Frames) /\ Len(s \o t) = Len(s) + Len(t)
           /\ Len(s) \in Nat /\ Len(t) \in Nat
           /\ \A i \in 1 .. Len(s) : (s \o t)[i] = s[i]
           /\ \A i \in 1 .. Len(s \o t) : i > Len(s) => (s \o t)[i] = t[i - Len(s)]
  OBVIOUS

\* Where a row is cut by its numbers.
LEMMA OlderInRow ==
    ASSUME NEW S, NEW s \in Seq(S), NEW first \in Int, NEW start \in Int, RowFrom(s, first)
    PROVE  Older(start, s) = IF start <= first THEN 0
                             ELSE IF start - first >= Len(s) THEN Len(s) ELSE start - first
<1> DEFINE c == IF start <= first THEN 0
                ELSE IF start - first >= Len(s) THEN Len(s) ELSE start - first
           old == {i \in 1 .. Len(s) : s[i].start < start}
<1>1. Len(s) \in Nat
  OBVIOUS
<1>2. c \in 0 .. Len(s)
  BY <1>1
<1>3. \A i \in 1 .. Len(s) : s[i].start < start <=> i <= c
  BY <1>1 DEF RowFrom
<1> HIDE DEF c
<1>4. old = 1 .. c
  BY <1>1, <1>2, <1>3
<1>5. Cardinality(1 .. c) = c
  BY <1>1, <1>2, FS_Interval
<1> HIDE DEF old
<1>6. Older(start, s) = Cardinality(old)
  BY DEF Older, old
<1> QED BY <1>4, <1>5, <1>6 DEF c

\* What is kept of a row by its numbers is a row.
LEMMA SinceRow ==
    ASSUME NEW S, NEW s \in Seq(S), NEW first \in Int, NEW start \in Int, RowFrom(s, first)
    PROVE  /\ Since(start, s) \in Seq(S) /\ Len(Since(start, s)) <= Len(s)
           /\ RowFrom(Since(start, s), first + (Len(s) - Len(Since(start, s))))
           /\ \A i \in 1 .. Len(Since(start, s)) :
                Since(start, s)[i] = s[Len(s) - Len(Since(start, s)) + i]
           /\ (Since(start, s) = << >> => s = << >> \/ first + Len(s) <= start)
           /\ (Since(start, s) # << >> => first + Len(s) > start)
           /\ (start <= first => Len(Since(start, s)) = Len(s))
           /\ (start > first /\ start <= first + Len(s) =>
                 first + (Len(s) - Len(Since(start, s))) = start)
<1> PICK t : t = Since(start, s)
  OBVIOUS
<1> DEFINE c == Older(start, s)
<1>1. /\ c \in 0 .. Len(s) /\ t \in Seq(S) /\ Len(t) = Len(s) - c /\ Len(s) \in Nat
      /\ \A i \in 1 .. Len(s) - c : t[i] = s[c + i]
  BY SinceIs
<1>2. c = IF start <= first THEN 0 ELSE IF start - first >= Len(s) THEN Len(s) ELSE start - first
  BY OlderInRow
<1> HIDE DEF c
<1>3. RowFrom(t, first + c)
  <2> SUFFICES ASSUME NEW i \in 1 .. Len(t)
               PROVE  t[i].start = first + c + i - 1
    BY DEF RowFrom
  <2>1. i \in Int /\ c \in Int /\ c + i \in 1 .. Len(s) /\ t[i] = s[c + i]
    BY <1>1
  <2>2. s[c + i].start = first + (c + i) - 1
    BY <2>1 DEF RowFrom
  <2> QED BY <2>1, <2>2
<1>4. c = Len(s) - Len(t)
  BY <1>1
<1>5. t = << >> <=> Len(t) = 0
  BY <1>1
<1>6. s = << >> <=> Len(s) = 0
  OBVIOUS
<1> QED BY <1>1, <1>2, <1>3, <1>4, <1>5, <1>6

\* The same in one word, for blocks and for frames.
Rest(t, s, first, start) ==
    /\ Len(t) \in Nat /\ Len(t) <= Len(s)
    /\ RowFrom(t, first + (Len(s) - Len(t)))
    /\ \A i \in 1 .. Len(t) : t[i] = s[Len(s) - Len(t) + i]
    /\ (t = << >> => s = << >> \/ first + Len(s) <= start)
    /\ (t # << >> => first + Len(s) > start)
    /\ (start <= first => Len(t) = Len(s))
    /\ (start > first /\ start <= first + Len(s) => first + (Len(s) - Len(t)) = start)

LEMMA SinceBlocks ==
    ASSUME NEW s \in Seq(Pieces), NEW first \in Int, NEW start \in Int, RowFrom(s, first)
    PROVE  Since(start, s) \in Seq(Pieces) /\ Rest(Since(start, s), s, first, start)
  BY SinceRow DEF Rest

LEMMA SinceFrames ==
    ASSUME NEW s \in Seq(Frames), NEW first \in Int, NEW start \in Int, RowFrom(s, first)
    PROVE  Since(start, s) \in Seq(Frames) /\ Rest(Since(start, s), s, first, start)
  BY SinceRow DEF Rest

LEMMA RunFields ==
    ASSUME NEW run \in Runs, SwitchAssumption
    PROVE  /\ run.chain \in Chains /\ run.frames \in Seq(Frames)
           /\ run.chain.selection \in Selections /\ run.chain.next \in Int
           /\ run.chain.held \in Seq(Pieces) /\ Delay[run.chain.selection] \in Nat
           /\ Len(run.frames) \in Nat /\ Len(run.chain.held) \in Nat
BY DEF Runs, Chains, SwitchAssumption

\* A run that is fed what comes next.
LEMMA FedMore ==
    ASSUME SwitchAssumption, NEW run \in Runs, NEW input \in Seq(Pieces), NEW e, NEW cursor, NEW first,
           GoesOn(run, input, e, cursor, first)
    PROVE  /\ Feed(run, input) \in Runs
           /\ Fed(Feed(run, input).chain, Feed(run, input).frames, e, first + Len(input))
           /\ Feed(run, input).chain.next # None
           /\ Feed(run, input).chain.selection = run.chain.selection
           /\ (run.chain.next = None => /\ FirstFrame(Feed(run, input)) = first
                                        /\ Feed(run, input).chain.next >= first)
           /\ (run.chain.next # None => /\ FirstFrame(Feed(run, input)) = FirstFrame(run)
                                        /\ Feed(run, input).chain.next >= run.chain.next)
<1> PICK fed : fed = Feed(run, input)
  OBVIOUS
<1>p. /\ Fed(run.chain, run.frames, e, cursor) /\ input # << >> /\ first \in Nat
      /\ RowFrom(input, first) /\ AllOf(input, e) /\ (run.chain.next # None => first = cursor)
  BY DEF GoesOn
<1> DEFINE all == run.chain.held \o input
           next == IF run.chain.next = None /\ input # << >> THEN Head(input).start
                   ELSE run.chain.next
           d == Delay[run.chain.selection]
           count == Excess(Len(all), d)
           more == [i \in 1 .. count |-> [start |-> next + i - 1, of |-> all[i]]]
           held == SubSeq(all, count + 1, Len(all))
<1>0. /\ run.chain \in Chains /\ run.frames \in Seq(Frames) /\ run.chain.held \in Seq(Pieces)
      /\ run.chain.next \in Int /\ d \in Nat
      /\ Len(run.frames) \in Nat /\ Len(run.chain.held) \in Nat /\ Len(input) \in Nat
  BY RunFields
<1>1. /\ fed = [chain |-> [run.chain EXCEPT !.next = next + count, !.held = held],
                frames |-> run.frames \o more]
      /\ fed \in Runs /\ fed.chain.selection = run.chain.selection
  BY <1>p, FeedTypes DEF Feed
<1>2. Head(input) = input[1] /\ 1 \in 1 .. Len(input) /\ Len(input) > 0
  BY <1>p, <1>0
<1>3. /\ next \in Nat
      /\ (run.chain.next = None => next = first) /\ (run.chain.next # None => next = run.chain.next)
  BY <1>p, <1>2 DEF RowFrom, Fed
<1> HIDE DEF next
<1>4. /\ all \in Seq(Pieces) /\ Len(all) = Len(run.chain.held) + Len(input)
      /\ next + Len(all) = first + Len(input)
  <2>1. run.chain.next = None => run.chain.held = << >>
    BY <1>p DEF Fed
  <2>2. run.chain.next # None => run.chain.next + Len(run.chain.held) = first
    BY <1>p DEF Fed
  <2>3. run.chain.held = << >> => Len(run.chain.held) = 0
    OBVIOUS
  <2>4. all \in Seq(Pieces) /\ Len(all) = Len(run.chain.held) + Len(input)
    BY <1>p, <1>0
  <2>5. next + Len(run.chain.held) = first
    BY <1>p, <2>1, <2>3, <1>3, <2>2
  <2>6. next + Len(all) = first + Len(input)
    <3> DEFINE h == Len(run.chain.held)
    <3>1. h \in Nat /\ Len(input) \in Nat /\ next + h = first /\ Len(all) = h + Len(input)
      BY <1>p, <2>4, <2>5, <1>0
    <3> HIDE DEF h, all
    <3>2. next \in Nat
      BY <1>p, <1>3
    <3> QED BY <1>p, <3>1, <3>2
  <2> QED BY <1>p, <2>4, <2>6
<1>5. RowFrom(all, next) /\ AllOf(all, e)
  <2> SUFFICES ASSUME NEW i \in 1 .. Len(all)
               PROVE  all[i].start = next + i - 1 /\ all[i].epoch = e
    BY <1>p DEF RowFrom, AllOf
  <2>1. CASE i <= Len(run.chain.held)
    BY <1>p, <2>1, <1>0, <1>3 DEF Fed, RowFrom, AllOf
  <2>2. CASE i > Len(run.chain.held)
    <3> DEFINE k == i - Len(run.chain.held)
    <3>1. all[i] = input[k] /\ k \in 1 .. Len(input)
      BY <2>2, <1>0, <1>4
    <3>2. input[k].start = first + k - 1 /\ input[k].epoch = e
      BY <1>p, <3>1 DEF RowFrom, AllOf
    <3>3. first + k - 1 = next + i - 1
      <4> DEFINE h == Len(run.chain.held)
      <4>1. h \in Nat /\ Len(input) \in Nat /\ next + (h + Len(input)) = first + Len(input)
        BY <1>p, <1>0, <1>4
      <4>2. i \in Int /\ k = i - h
        OBVIOUS
      <4> HIDE DEF h, k, all
      <4> QED BY <1>p, <4>1, <4>2, <1>3
    <3> QED BY <1>p, <3>1, <3>2, <3>3
  <2> QED BY <1>p, <2>1, <2>2, <1>0
<1>6. count \in 0 .. Len(all) /\ Len(all) - count <= d /\ Len(all) \in Nat
  BY <1>0, <1>4 DEF Excess
<1> HIDE DEF all, count, d
<1>7. /\ held \in Seq(Pieces) /\ Len(held) = Len(all) - count
      /\ \A i \in 1 .. Len(held) : held[i] = all[count + i]
  BY <1>4, <1>6
<1>8. RowFrom(held, next + count) /\ AllOf(held, e)
  BY <1>p, <1>3, <1>5, <1>6, <1>7 DEF RowFrom, AllOf
<1> HIDE DEF held
<1>9. /\ more \in Seq(Frames) /\ Len(more) = count
      /\ \A i \in 1 .. count : more[i] = [start |-> next + i - 1, of |-> all[i]]
  BY <1>p, <1>3, <1>4, <1>6, IsASeq DEF Frames
<1> HIDE DEF more
<1> DEFINE frames == run.frames \o more
<1>10. /\ frames \in Seq(Frames) /\ Len(frames) = Len(run.frames) + count
       /\ \A i \in 1 .. Len(run.frames) : frames[i] = run.frames[i]
       /\ \A i \in 1 .. Len(frames) : i > Len(run.frames) => frames[i] = more[i - Len(run.frames)]
  BY <1>p, <1>0, <1>9, JoinedIs
<1> HIDE DEF frames
<1>11. /\ run.frames = << >> \/ run.chain.next # None
       /\ (run.frames = << >> => Len(run.frames) = 0)
       /\ (run.chain.next # None => /\ Len(run.frames) <= next
                                    /\ RowFrom(run.frames, next - Len(run.frames))
                                    /\ AllNamed(run.frames, e))
  BY <1>p, <1>0, <1>3 DEF Fed
<1>12. Len(frames) <= next + count
  BY <1>p, <1>0, <1>3, <1>6, <1>10, <1>11
<1>13. RowFrom(frames, (next + count) - Len(frames)) /\ AllNamed(frames, e)
  <2> SUFFICES ASSUME NEW i \in 1 .. Len(frames)
               PROVE  frames[i].start = (next + count) - Len(frames) + i - 1 /\ Named(frames[i], e)
    BY <1>p DEF RowFrom, AllNamed
  <2>0. i \in Nat /\ i >= 1 /\ i <= Len(run.frames) + count
    BY <1>p, <1>0, <1>6, <1>10
  <2>1. CASE i <= Len(run.frames)
    <3>1. frames[i] = run.frames[i] /\ i \in 1 .. Len(run.frames)
      BY <1>p, <2>0, <2>1, <1>0, <1>10
    <3>2. RowFrom(run.frames, next - Len(run.frames)) /\ AllNamed(run.frames, e)
      BY <1>p, <3>1, <1>0, <1>11
    <3>3. run.frames[i].start = next - Len(run.frames) + i - 1 /\ Named(run.frames[i], e)
      BY <1>p, <3>1, <3>2 DEF RowFrom, AllNamed
    <3> QED BY <1>p, <3>1, <3>3, <1>0, <1>3, <1>6, <1>10
  <2>2. CASE i > Len(run.frames)
    <3> DEFINE k == i - Len(run.frames)
    <3>1. frames[i] = more[k] /\ k \in 1 .. count /\ k \in 1 .. Len(all)
      BY <1>p, <2>0, <2>2, <1>0, <1>6, <1>10
    <3>2. more[k] = [start |-> next + k - 1, of |-> all[k]]
      BY <1>p, <3>1, <1>9
    <3>3. all[k].start = next + k - 1 /\ all[k].epoch = e
      BY <1>p, <3>1, <1>5 DEF RowFrom, AllOf
    <3> HIDE DEF k
    <3>4. frames[i].start = next + k - 1 /\ Named(frames[i], e)
      BY <1>p, <3>1, <3>2, <3>3 DEF Named
    <3>5. next + k - 1 = (next + count) - Len(frames) + i - 1
      <4> DEFINE f == Len(run.frames)
      <4>1. f \in Nat /\ count \in Nat /\ Len(frames) = f + count /\ k = i - f
        BY <1>p, <1>0, <1>6, <1>10 DEF k
      <4> HIDE DEF f
      <4> QED BY <1>p, <4>1, <1>3, <2>0
    <3> QED BY <1>p, <3>4, <3>5
  <2> QED BY <1>p, <2>0, <2>1, <2>2, <1>0
<1> DEFINE n == next + count
<1>14. n \in Nat /\ n >= next /\ n # None /\ n + Len(held) = first + Len(input)
  <2>1. /\ count \in Nat /\ Len(all) \in Nat /\ count <= Len(all) /\ Len(held) = Len(all) - count
        /\ next + Len(all) = first + Len(input) /\ Len(input) \in Nat
    BY <1>p, <1>0, <1>4, <1>6, <1>7
  <2>2. next \in Nat /\ first \in Nat
    BY <1>p, <1>3
  <2>3. n \in Nat /\ n >= next
    BY <1>p, <2>1, <2>2
  <2>4. n # None
    BY <1>p, <2>3 DEF None
  <2>5. n + (Len(all) - count) = next + Len(all)
    BY <1>p, <2>1, <2>2
  <2> HIDE DEF n
  <2> QED BY <1>p, <2>1, <2>3, <2>4, <2>5
<1>15. /\ fed.chain.next = n /\ fed.chain.held = held /\ fed.frames = frames
       /\ fed.chain.selection = run.chain.selection
  <2> HIDE DEF n
  <2> DEFINE c == [run.chain EXCEPT !.next = n, !.held = held]
  <2>1. fed = [chain |-> c, frames |-> frames]
    BY <1>p, <1>1 DEF n, frames
  <2>2. c.next = n /\ c.held = held /\ c.selection = run.chain.selection
    BY <1>p, <1>0 DEF Chains
  <2> HIDE DEF c
  <2>3. fed.chain = c /\ fed.frames = frames
    BY <1>p, <2>1
  <2> QED BY <1>p, <2>2, <2>3
<1>16. Fed(fed.chain, fed.frames, e, first + Len(input))
  BY <1>p, <1>6, <1>7, <1>15, <1>8, <1>12, <1>13, <1>14 DEF d, Fed
<1>17. FirstFrame(fed) = next - Len(run.frames)
  <2> DEFINE f == Len(run.frames)
  <2>1. f \in Nat /\ count \in Nat /\ Len(frames) = f + count
    BY <1>p, <1>0, <1>6, <1>10
  <2>2. FirstFrame(fed) = (next + count) - Len(frames)
    BY <1>p, <1>15 DEF FirstFrame
  <2> HIDE DEF f
  <2>3. (next + count) - Len(frames) = next - f
    BY <1>p, <2>1, <1>3
  <2> QED BY <1>p, <2>2, <2>3 DEF f
<1>18. run.chain.next = None => Len(run.frames) = 0
  BY <1>p, <1>11
<1>19. /\ (run.chain.next = None => FirstFrame(fed) = first /\ fed.chain.next >= first)
       /\ (run.chain.next # None => /\ FirstFrame(fed) = FirstFrame(run)
                                    /\ fed.chain.next >= run.chain.next)
  BY <1>p, <1>3, <1>18, <1>14, <1>15, <1>17 DEF FirstFrame
<1>20. fed.chain.next # None
  BY <1>p, <1>14, <1>15
<1> QED BY <1>p, <1>1, <1>16, <1>19, <1>20

\* A run that is fed nothing.
LEMMA FedNothing ==
    ASSUME SwitchAssumption, NEW run \in Runs, NEW e, NEW cursor,
           Fed(run.chain, run.frames, e, cursor)
    PROVE  /\ Feed(run, << >>) \in Runs /\ Feed(run, << >>).chain = run.chain
           /\ Feed(run, << >>).frames = run.frames
<1> PICK fed : fed = Feed(run, << >>)
  OBVIOUS
<1>0. /\ run.chain \in Chains /\ run.frames \in Seq(Frames) /\ run.chain.held \in Seq(Pieces)
      /\ run.chain.next \in Int /\ Delay[run.chain.selection] \in Nat
      /\ Len(run.frames) \in Nat /\ Len(run.chain.held) \in Nat
  BY RunFields
<1> DEFINE held == run.chain.held
           count == Excess(Len(held), Delay[run.chain.selection])
           more == [i \in 1 .. count |-> [start |-> run.chain.next + i - 1, of |-> held[i]]]
<1>1. held \o << >> = held /\ SubSeq(held, 1, Len(held)) = held
  BY <1>0
<1>2. Len(held) <= Delay[run.chain.selection]
  BY <1>0 DEF Fed
<1>3. count = 0
  BY <1>0, <1>2 DEF Excess
<1>4. << >> \in Seq(Pieces)
  BY EmptySeq
<1>5. fed = [chain |-> [run.chain EXCEPT !.next = run.chain.next + count,
                                         !.held = SubSeq(held, count + 1, Len(held))],
             frames |-> run.frames \o more]
  BY <1>1 DEF Feed
<1>6. more = << >>
  BY <1>3
<1>7. run.frames \o more = run.frames
  <2>1. run.frames \o << >> = run.frames
    BY <1>0
  <2> HIDE DEF more
  <2> QED BY <2>1, <1>6
<1>8. fed = [chain |-> [run.chain EXCEPT !.next = run.chain.next, !.held = held],
             frames |-> run.frames]
  <2> HIDE DEF held, more, count
  <2>1. run.chain.next + count = run.chain.next /\ count + 1 = 1
    BY <1>0, <1>3
  <2> QED BY <2>1, <1>1, <1>5, <1>7
<1>9. [run.chain EXCEPT !.next = run.chain.next, !.held = held] = run.chain
  BY <1>0 DEF Chains
<1>10. fed \in Runs
  BY <1>4, FeedTypes
<1> QED BY <1>8, <1>9, <1>10

\* The loader keeps the last frames only.
LEMMA FedKeeping ==
    ASSUME SwitchAssumption, NEW run \in Runs, NEW e, NEW cursor, Fed(run.chain, run.frames, e, cursor)
    PROVE  /\ Fed(run.chain, LastOf(run.frames, Kept), e, cursor)
           /\ (run.chain.next # None =>
                 \/ run.chain.next - Len(LastOf(run.frames, Kept)) = FirstFrame(run)
                 \/ run.chain.next - Len(LastOf(run.frames, Kept)) = run.chain.next - Kept)
<1> DEFINE s == run.frames
           t == LastOf(s, Kept)
           x == Excess(Len(s), Kept)
<1>1. s \in Seq(Frames) /\ Len(s) \in Nat /\ Kept \in Nat /\ run.chain.next \in Int
  BY RunFields DEF SwitchAssumption
<1>2. /\ t \in Seq(Frames) /\ Len(t) = Len(s) - x /\ x \in 0 .. Len(s)
      /\ \A i \in 1 .. Len(t) : t[i] = s[x + i]
  BY <1>1, LastOfIs
<1>3. x = 0 \/ Len(t) = Kept
  BY <1>1, <1>2 DEF Excess
<1> HIDE DEF t, x
<1>4. CASE run.chain.next = None
  BY <1>4, <1>2 DEF Fed, t
<1>5. CASE run.chain.next # None
  <2>1. Len(s) <= run.chain.next /\ RowFrom(s, run.chain.next - Len(s)) /\ AllNamed(s, e)
    BY <1>5 DEF Fed
  <2>2. Len(t) <= run.chain.next
    BY <2>1, <1>1, <1>2
  <2>3. RowFrom(t, run.chain.next - Len(t)) /\ AllNamed(t, e)
    <3> SUFFICES ASSUME NEW i \in 1 .. Len(t)
                 PROVE  t[i].start = (run.chain.next - Len(t)) + i - 1 /\ Named(t[i], e)
      BY DEF RowFrom, AllNamed
    <3> DEFINE k == x + i
    <3>1. k \in 1 .. Len(s) /\ t[i] = s[k]
      BY <1>1, <1>2
    <3>2. s[k].start = (run.chain.next - Len(s)) + k - 1 /\ Named(s[k], e)
      BY <3>1, <2>1 DEF RowFrom, AllNamed
    <3>3. (run.chain.next - Len(s)) + k - 1 = (run.chain.next - Len(t)) + i - 1
      BY <1>1, <1>2
    <3> QED BY <3>1, <3>2, <3>3
  <2>4. Fed(run.chain, t, e, cursor)
    BY <2>2, <2>3, <1>5 DEF Fed
  <2>5. \/ run.chain.next - Len(t) = FirstFrame(run)
        \/ run.chain.next - Len(t) = run.chain.next - Kept
    BY <1>1, <1>2, <1>3 DEF FirstFrame
  <2> QED BY <2>4, <2>5 DEF t
<1> QED BY <1>4, <1>5
-----------------------------------------------------------------------------
\* Where the blocks that are remembered begin, with the worker in front of the cursor.
Oldest(recent, cursor) == cursor - Len(recent)
Remembers(recent, cursor, e) ==
    /\ Len(recent) <= RecentLen
    /\ RowFrom(recent, Oldest(recent, cursor)) /\ AllOf(recent, e)
    /\ (recent # << >> => Oldest(recent, cursor) >= 0)

\* A chain has no block that is forgotten while nothing was forgotten yet.
Covered(chain, recent, cursor) ==
    chain.next # None =>
        recent # << >> /\ (Len(recent) < RecentLen => chain.next >= Oldest(recent, cursor))

\* With chains that hold back no more than a new one is warmed with, nothing is missing
\* at a switch while no epoch has passed.
Prompt == \A s \in Selections : Delay[s] <= Warm
NothingLost(e) == e = 0 /\ Prompt

\* Its frames begin early enough to go on where another chain ends.
Early(run, recent, cursor, e) ==
    run.chain.next # None /\ NothingLost(e) =>
        FirstFrame(run) <= cursor - Warm \/ FirstFrame(run) <= Oldest(recent, cursor)

\* A chain that the loader feeds, and one that the worker has fed the rest.
Warmed(r, recent, cursor, e) ==
    r.epoch = e =>
        /\ Fed(r.run.chain, r.run.frames, e, r.cursor)
        /\ Covered(r.run.chain, recent, cursor) /\ Early(r.run, recent, cursor, e)
        /\ (r.run.chain.next = None => r.cursor = 0)
        /\ (r.run.chain.next # None =>
              r.cursor <= cursor /\ (Len(recent) < RecentLen => r.cursor > Oldest(recent, cursor)))

InReach(run, recent, cursor, e, boundary, last) ==
    /\ Fed(run.chain, run.frames, e, cursor)
    /\ Covered(run.chain, recent, cursor) /\ Early(run, recent, cursor, e)
    /\ (NothingLost(e) /\ run.chain.next = None => recent = << >>)
    /\ (run.chain.next # None /\ last # None => boundary = last)
    /\ (run.chain.next # None /\ last = None => boundary = cursor)

\* The chain that runs.
InTurn(chain, recent, cursor, last, e) ==
    /\ Fed(chain, << >>, e, cursor) /\ Covered(chain, recent, cursor)
    /\ (NothingLost(e) =>
          /\ (cursor # None => recent # << >> /\ chain.next # None)
          /\ (last # None => chain.next # None /\ chain.next <= last))

\* What is heard and said counts up to a gap of the epoch there is.
Breaks(x, e) == x.kind = "gap" /\ x.epoch = e
Whole(q, e) == \A i \in 1 .. Len(q) : ~Breaks(q[i], e)
IsSound(x, e) == x.kind = "audio" /\ x.epoch = e
Tells(q, i, e) == IsSound(q[i], e) /\ \A k \in 1 .. i - 1 : ~Breaks(q[k], e)
Silent(q, i, k, e) == \A m \in i .. k : ~Tells(q, m, e)
Follows(a, b, e) ==
    /\ a.frame.start < b.frame.start
    /\ (a.generation = b.generation \/ NothingLost(e) => b.frame.start = a.frame.start + 1)
InLine(q, e) ==
    /\ \A i \in 1 .. Len(q) : Tells(q, i, e) => Named(q[i].frame, e)
    /\ \A i, k \in 1 .. Len(q) :
          i < k /\ Tells(q, i, e) /\ Tells(q, k, e) /\ Silent(q, i + 1, k - 1, e)
             => Follows(q[i], q[k], e)
IsFinal(q, i, e) == Tells(q, i, e) /\ Silent(q, i + 1, Len(q), e)
IsFirst(q, i, e) == Tells(q, i, e) /\ Silent(q, 1, i - 1, e)

\* The chain at work when something is said: the one applied last, or the one the session knows.
InForce(q, i, active, g) ==
    /\ \A k \in 1 .. i - 1 :
          q[k].kind = "applied" /\ (\A m \in k + 1 .. i - 1 : q[m].kind # "applied")
             => q[k].generation = g
    /\ ((\A k \in 1 .. i - 1 : q[k].kind # "applied") => active = g)

\* The last that was said was of the chain that runs, or an earlier one.
EndsWith(a) ==
    /\ dsp.last = a.frame.start + 1 /\ dsp.last # None /\ a.generation <= dsp.generation
    /\ (a.generation = dsp.generation => dsp.chain.next # None /\ dsp.chain.next <= dsp.last)

Now == shared.epoch
Line == heard \o Said
Unbroken == Whole(Line, Now)
LoaderFeeds == loader.pc \in {"look", "done"}

EpochsHold ==
    /\ dsp.epoch <= Now /\ dsp.seen <= Now /\ loader.epoch <= Now
    /\ \A p \in shared.prepared : p.epoch <= Now
    /\ (dsp.pc = "install" => dsp.epoch <= dsp.seen)
LineEpochs ==
    /\ \A i \in 1 .. Len(Line) : Line[i].kind \in {"audio", "gap"} => Line[i].epoch <= Now
    /\ \A i \in 1 .. Len(heard) : IsSound(heard[i], Now)
    /\ (dsp.epoch # Now => shared.recent = << >> /\ \A i \in 1 .. Len(Line) : ~IsSound(Line[i], Now))
ForceHolds ==
    /\ \A i \in 1 .. Len(Said) : Said[i].kind = "audio" => InForce(Said, i, state.active, Said[i].generation)
    /\ InForce(Said, Len(Said) + 1, state.active, dsp.generation)
BlocksHold ==
    /\ \A i \in 1 .. Len(blocks) : blocks[i] # Nudge => blocks[i].start >= 0
    /\ (dsp.work # Nudge => dsp.work.start >= 0)
RecentHolds ==
    /\ Remembers(shared.recent, dsp.cursor, Now)
    /\ (dsp.cursor # None => dsp.cursor >= 0)
    /\ (dsp.pc = "record" =>
          /\ dsp.work # Nudge /\ dsp.epoch = dsp.work.epoch
          /\ (shared.recent # << >> => dsp.work.start = dsp.cursor))
LoaderHolds ==
    /\ (loader.pc = "warm" =>
          loader.run.chain.next = None /\ loader.run.chain.held = << >> /\ loader.run.frames = << >>)
    /\ (Unbroken /\ LoaderFeeds => Warmed(loader, shared.recent, dsp.cursor, Now))
PreparedHolds ==
    Unbroken => \A p \in shared.prepared : p.pc = "done" => Warmed(p, shared.recent, dsp.cursor, Now)
TakenHolds ==
    Unbroken /\ dsp.pc = "install" /\ dsp.seen = Now => \A p \in dsp.prepared : p.pc # "failed" =>
        InReach(p.run, shared.recent, dsp.cursor, Now, dsp.boundary, dsp.last)
ChainHolds ==
    Unbroken /\ dsp.epoch = Now =>
        /\ InTurn(dsp.chain, shared.recent, dsp.cursor, dsp.last, Now)
        /\ (dsp.pc = "record" => dsp.cursor \in {None, dsp.work.start})
EndHolds ==
    Unbroken => \A i \in 1 .. Len(Line) : IsFinal(Line, i, Now) => EndsWith(Line[i])

HeardInv ==
    /\ EpochsHold /\ LineEpochs /\ ForceHolds /\ BlocksHold /\ RecentHolds
    /\ LoaderHolds /\ PreparedHolds /\ TakenHolds /\ ChainHolds /\ EndHolds
    /\ InLine(Line, Now)
-----------------------------------------------------------------------------
\* What tells in a line that grows, and in what is said last.
LEMMA TellsMore ==
    ASSUME NEW q \in Seq(Events), NEW more \in Seq(Events), NEW e
    PROVE  /\ \A i \in 1 .. Len(q) : Tells(q \o more, i, e) <=> Tells(q, i, e)
           /\ \A k \in 1 .. Len(more) :
                Tells(q \o more, Len(q) + k, e) <=> Whole(q, e) /\ Tells(more, k, e)
           /\ (Whole(q \o more, e) <=> Whole(q, e) /\ Whole(more, e))
<1> DEFINE r == q \o more
<1>0. /\ Len(r) = Len(q) + Len(more) /\ Len(q) \in Nat /\ Len(more) \in Nat
      /\ \A i \in 1 .. Len(q) : i \in 1 .. Len(r) /\ r[i] = q[i]
      /\ \A i \in 1 .. Len(more) : Len(q) + i \in 1 .. Len(r) /\ r[Len(q) + i] = more[i]
      /\ \A i \in 1 .. Len(r) : i \in 1 .. Len(q) \/ \E k \in 1 .. Len(more) : i = Len(q) + k
  BY Indices
<1> HIDE DEF r
<1>1. ASSUME NEW i \in 1 .. Len(q) PROVE Tells(r, i, e) <=> Tells(q, i, e)
  <2>1. \A k \in 1 .. i - 1 : k \in 1 .. Len(q)
    BY <1>0
  <2> QED BY <2>1, <1>0 DEF Tells
<1>2. ASSUME NEW k \in 1 .. Len(more)
      PROVE  Tells(r, Len(q) + k, e) <=> Whole(q, e) /\ Tells(more, k, e)
  <2> DEFINE n == Len(q) + k
  <2>1. r[n] = more[k] /\ n \in Nat /\ k \in Nat
    BY <1>0
  <2>2. ASSUME Tells(r, n, e) PROVE Whole(q, e) /\ Tells(more, k, e)
    <3>1. \A m \in 1 .. Len(q) : m \in 1 .. n - 1
      BY <1>0
    <3>2. \A m \in 1 .. k - 1 : Len(q) + m \in 1 .. n - 1 /\ m \in 1 .. Len(more)
      BY <1>0
    <3> HIDE DEF n
    <3> QED BY <2>1, <2>2, <3>1, <3>2, <1>0 DEF Tells, Whole
  <2>3. ASSUME Whole(q, e), Tells(more, k, e) PROVE Tells(r, n, e)
    <3>1. ASSUME NEW m \in 1 .. n - 1 PROVE ~Breaks(r[m], e)
      <4>1. m \in 1 .. Len(r)
        BY <1>0
      <4>2. CASE m \in 1 .. Len(q)
        BY <4>2, <2>3, <1>0 DEF Whole
      <4>3. CASE m \notin 1 .. Len(q)
        BY <4>1, <4>3, <1>0, <2>3 DEF Tells
      <4> QED BY <4>2, <4>3
    <3> HIDE DEF n
    <3> QED BY <3>1, <2>1, <2>3 DEF Tells
  <2> QED BY <2>2, <2>3
<1>3. Whole(r, e) <=> Whole(q, e) /\ Whole(more, e)
  BY <1>0 DEF Whole
<1> QED BY <1>1, <1>2, <1>3 DEF r

\* A line stays in order when what is said follows.
LEMMA InLineMore ==
    ASSUME NEW q \in Seq(Events), NEW more \in Seq(Events), NEW e, InLine(q, e),
           Whole(q, e) => /\ InLine(more, e)
                          /\ \A i \in 1 .. Len(q), k \in 1 .. Len(more) :
                                IsFinal(q, i, e) /\ IsFirst(more, k, e) => Follows(q[i], more[k], e)
    PROVE  InLine(q \o more, e)
<1> DEFINE r == q \o more
<1>0. /\ Len(r) = Len(q) + Len(more) /\ Len(q) \in Nat /\ Len(more) \in Nat
      /\ \A i \in 1 .. Len(q) : i \in 1 .. Len(r) /\ r[i] = q[i]
      /\ \A i \in 1 .. Len(more) : Len(q) + i \in 1 .. Len(r) /\ r[Len(q) + i] = more[i]
      /\ \A i \in 1 .. Len(r) : i \in 1 .. Len(q) \/ \E k \in 1 .. Len(more) : i = Len(q) + k
  BY Indices
<1>1. /\ \A i \in 1 .. Len(q) : Tells(r, i, e) <=> Tells(q, i, e)
      /\ \A k \in 1 .. Len(more) : Tells(r, Len(q) + k, e) <=> Whole(q, e) /\ Tells(more, k, e)
  BY TellsMore
<1> HIDE DEF r
<1>2. ASSUME NEW i \in 1 .. Len(r), Tells(r, i, e) PROVE Named(r[i].frame, e)
  BY <1>0, <1>1, <1>2 DEF InLine
<1>3. ASSUME NEW i \in 1 .. Len(r), NEW k \in 1 .. Len(r), i < k, Tells(r, i, e), Tells(r, k, e),
             Silent(r, i + 1, k - 1, e)
      PROVE  Follows(r[i], r[k], e)
  <2>1. CASE k \in 1 .. Len(q)
    <3>1. i \in 1 .. Len(q)
      BY <2>1, <1>0, <1>3
    <3>2. Silent(q, i + 1, k - 1, e)
      BY <2>1, <3>1, <1>0, <1>1, <1>3 DEF Silent
    <3> QED BY <2>1, <3>1, <3>2, <1>0, <1>1, <1>3 DEF InLine
  <2>2. CASE k \notin 1 .. Len(q)
    <3>1. PICK b \in 1 .. Len(more) : k = Len(q) + b
      BY <2>2, <1>0
    <3>2. Whole(q, e) /\ Tells(more, b, e) /\ r[k] = more[b]
      BY <3>1, <1>0, <1>1, <1>3
    <3>3. CASE i \in 1 .. Len(q)
      <4>1. IsFinal(q, i, e)
        BY <3>1, <3>3, <1>0, <1>1, <1>3 DEF Silent, IsFinal
      <4>2. IsFirst(more, b, e)
        <5>1. \A m \in 1 .. b - 1 : Len(q) + m \in i + 1 .. k - 1 /\ m \in 1 .. Len(more)
          BY <3>1, <3>3, <1>0
        <5>2. \A m \in 1 .. b - 1 : ~Tells(more, m, e)
          BY <5>1, <3>2, <1>1, <1>3 DEF Silent
        <5> QED BY <5>2, <3>2 DEF IsFirst, Silent
      <4> QED BY <4>1, <4>2, <3>2, <3>3, <1>0
    <3>4. CASE i \notin 1 .. Len(q)
      <4>1. PICK a \in 1 .. Len(more) : i = Len(q) + a
        BY <3>4, <1>0
      <4>2. Tells(more, a, e) /\ r[i] = more[a] /\ a < b
        BY <4>1, <3>1, <1>0, <1>1, <1>3
      <4>3. Silent(more, a + 1, b - 1, e)
        <5>1. \A m \in a + 1 .. b - 1 : Len(q) + m \in i + 1 .. k - 1 /\ m \in 1 .. Len(more)
          BY <3>1, <4>1, <1>0
        <5> QED BY <5>1, <3>2, <1>1, <1>3 DEF Silent
      <4>4. InLine(more, e)
        BY <3>2
      <4> QED BY <4>2, <4>3, <4>4, <3>2 DEF InLine
    <3> QED BY <3>3, <3>4
  <2> QED BY <2>1, <2>2
<1> QED BY <1>2, <1>3 DEF InLine, r

\* The last that tells is the last of what was said now, or was the last before.
LEMMA FinalMore ==
    ASSUME NEW q \in Seq(Events), NEW more \in Seq(Events), NEW e, Whole(q, e),
           NEW i \in 1 .. Len(q \o more), IsFinal(q \o more, i, e)
    PROVE  \/ \E k \in 1 .. Len(more) : IsFinal(more, k, e) /\ (q \o more)[i] = more[k]
           \/ /\ Silent(more, 1, Len(more), e)
              /\ i \in 1 .. Len(q) /\ IsFinal(q, i, e) /\ (q \o more)[i] = q[i]
<1> DEFINE r == q \o more
<1>0. /\ Len(r) = Len(q) + Len(more) /\ Len(q) \in Nat /\ Len(more) \in Nat
      /\ \A j \in 1 .. Len(q) : j \in 1 .. Len(r) /\ r[j] = q[j]
      /\ \A j \in 1 .. Len(more) : Len(q) + j \in 1 .. Len(r) /\ r[Len(q) + j] = more[j]
      /\ \A j \in 1 .. Len(r) : j \in 1 .. Len(q) \/ \E k \in 1 .. Len(more) : j = Len(q) + k
  BY Indices
<1>1. /\ \A j \in 1 .. Len(q) : Tells(r, j, e) <=> Tells(q, j, e)
      /\ \A k \in 1 .. Len(more) : Tells(r, Len(q) + k, e) <=> Tells(more, k, e)
  BY TellsMore
<1>2. i \in 1 .. Len(r) /\ Tells(r, i, e) /\ \A m \in i + 1 .. Len(r) : ~Tells(r, m, e)
  BY DEF IsFinal, Silent
<1> HIDE DEF r
<1>3. CASE i \in 1 .. Len(q)
  BY <1>0, <1>3, <1>1, <1>2 DEF IsFinal, Silent, r
<1>4. CASE i \notin 1 .. Len(q)
  <2>1. PICK k \in 1 .. Len(more) : i = Len(q) + k
    BY <1>0, <1>2, <1>4
  <2>2. \A m \in k + 1 .. Len(more) : Len(q) + m \in i + 1 .. Len(r) /\ m \in 1 .. Len(more)
    BY <1>0, <2>1
  <2>3. IsFinal(more, k, e)
    BY <2>1, <2>2, <1>1, <1>2 DEF IsFinal, Silent
  <2> QED BY <2>1, <2>3, <1>0 DEF r
<1> QED BY <1>3, <1>4

\* A line without an event that neither sounds nor breaks.
LEMMA InLineLess ==
    ASSUME NEW h \in Seq(Events), NEW s \in Seq(Events), s # << >>, NEW e,
           ~IsSound(Head(s), e), ~Breaks(Head(s), e), InLine(h \o s, e)
    PROVE  /\ InLine(h \o Tail(s), e) /\ (Whole(h \o Tail(s), e) => Whole(h \o s, e))
           /\ \A i \in 1 .. Len(h \o Tail(s)) : IsFinal(h \o Tail(s), i, e) =>
                \E k \in 1 .. Len(h \o s) :
                    IsFinal(h \o s, k, e) /\ (h \o s)[k] = (h \o Tail(s))[i]
           /\ \A i \in 1 .. Len(h \o Tail(s)) :
                \E k \in 1 .. Len(h \o s) : (h \o s)[k] = (h \o Tail(s))[i]
<1> PICK q : q = h \o s
  OBVIOUS
<1> PICK t : t = h \o Tail(s)
  OBVIOUS
<1> DEFINE n == Len(h)
           f(i) == IF i <= n THEN i ELSE i + 1
<1>0. /\ Len(q) = n + Len(s) /\ n \in Nat /\ Len(s) \in Nat /\ Len(s) >= 1
      /\ Len(t) = Len(q) - 1 /\ Len(q) \in Nat /\ Len(t) \in Nat
  BY Indices
<1>1. /\ \A i \in 1 .. n : q[i] = h[i] /\ t[i] = h[i]
      /\ q[n + 1] = Head(s)
      /\ \A i \in 1 .. Len(t) : i > n => t[i] = q[i + 1]
  BY Indices, <1>0
<1> HIDE DEF n
<1>2. ~IsSound(q[n + 1], e) /\ ~Breaks(q[n + 1], e)
  BY <1>1
<1>3. \A i \in 1 .. Len(t) : f(i) \in 1 .. Len(q) /\ q[f(i)] = t[i]
  BY <1>0, <1>1
\* What tells, tells as before.
<1>4. ASSUME NEW i \in 1 .. Len(t) PROVE Tells(t, i, e) <=> Tells(q, f(i), e)
  <2>1. ASSUME Tells(t, i, e), NEW k \in 1 .. f(i) - 1 PROVE ~Breaks(q[k], e)
    <3>1. CASE k <= n
      BY <3>1, <1>0, <2>1, <1>1 DEF Tells
    <3>2. CASE k = n + 1
      BY <3>2, <1>2
    <3>3. CASE k > n + 1
      <4>1. k - 1 \in 1 .. i - 1 /\ k - 1 \in 1 .. Len(t) /\ k - 1 > n /\ (k - 1) + 1 = k
        BY <3>3, <1>0
      <4> QED BY <4>1, <2>1, <1>1 DEF Tells
    <3> QED BY <3>1, <3>2, <3>3, <1>0
  <2>2. ASSUME Tells(q, f(i), e), NEW k \in 1 .. i - 1 PROVE ~Breaks(t[k], e)
    <3>1. k \in 1 .. Len(t) /\ f(k) \in 1 .. f(i) - 1
      BY <1>0
    <3> HIDE DEF f
    <3> QED BY <3>1, <2>2, <1>3 DEF Tells
  <2> HIDE DEF f
  <2> QED BY <2>1, <2>2, <1>3 DEF Tells
<1>5. ASSUME NEW j \in 1 .. Len(q), j # n + 1 PROVE \E i \in 1 .. Len(t) : f(i) = j
  <2>1. CASE j <= n
    <3>1. j \in 1 .. Len(t) /\ f(j) = j
      BY <2>1, <1>0, <1>5
    <3> QED BY <3>1
  <2>2. CASE j > n + 1
    <3>1. j - 1 \in 1 .. Len(t) /\ f(j - 1) = j
      BY <2>2, <1>0
    <3> QED BY <3>1
  <2> QED BY <2>1, <2>2, <1>5, <1>0
<1>6. ~Tells(q, n + 1, e)
  BY <1>2 DEF Tells
<1>7. ASSUME NEW i \in 1 .. Len(t), NEW k \in 1 .. Len(t)
      PROVE  i < k <=> f(i) < f(k)
  BY <1>0
<1>8. \A i \in 1 .. Len(t) : i \in Nat /\ f(i) \in Nat
  BY <1>0
<1> HIDE DEF f
<1>9. Whole(t, e) => Whole(q, e)
  <2> SUFFICES ASSUME Whole(t, e), NEW j \in 1 .. Len(q) PROVE ~Breaks(q[j], e)
    BY DEF Whole
  <2>1. CASE j = n + 1
    BY <2>1, <1>2
  <2>2. CASE j # n + 1
    BY <2>2, <1>3, <1>5 DEF Whole
  <2> QED BY <2>1, <2>2
<1>10. ASSUME NEW i \in 1 .. Len(t), NEW k \in 1 .. Len(t), i < k, Silent(t, i + 1, k - 1, e)
       PROVE  Silent(q, f(i) + 1, f(k) - 1, e)
  <2> SUFFICES ASSUME NEW m \in f(i) + 1 .. f(k) - 1, Tells(q, m, e) PROVE FALSE
    BY DEF Silent
  <2>1. m \in 1 .. Len(q) /\ m # n + 1 /\ f(i) < m /\ m < f(k)
    BY <1>3, <1>6, <1>8
  <2>2. PICK l \in 1 .. Len(t) : f(l) = m
    BY <2>1, <1>5
  <2>3. i < l /\ l < k
    BY <2>1, <2>2, <1>7
  <2>4. l \in i + 1 .. k - 1
    BY <2>3
  <2> QED BY <2>2, <2>4, <1>4, <1>10 DEF Silent
<1>11. InLine(q, e)
  OBVIOUS
<1>12. InLine(t, e)
  BY <1>3, <1>4, <1>11, <1>7, <1>10 DEF InLine
<1>13. ASSUME NEW i \in 1 .. Len(t), IsFinal(t, i, e)
       PROVE  \E k \in 1 .. Len(q) : IsFinal(q, k, e) /\ q[k] = t[i]
  <2>1. Tells(q, f(i), e) /\ f(i) \in 1 .. Len(q) /\ q[f(i)] = t[i]
    BY <1>3, <1>4, <1>13 DEF IsFinal
  <2>2. ASSUME NEW m \in f(i) + 1 .. Len(q), Tells(q, m, e) PROVE FALSE
    <3>1. m \in 1 .. Len(q) /\ m # n + 1 /\ f(i) < m
      <4>1. f(i) \in Nat /\ f(i) \in 1 .. Len(q) /\ Len(q) \in Nat
        BY <1>0, <1>3, <1>8
      <4>2. m # n + 1
        BY <2>2, <1>6
      <4> QED BY <4>1, <4>2
    <3>2. PICK l \in 1 .. Len(t) : f(l) = m
      BY <3>1, <1>5
    <3>3. l \in i + 1 .. Len(t)
      BY <3>1, <3>2, <1>7, <1>8
    <3> QED BY <2>2, <3>2, <3>3, <1>4, <1>13 DEF IsFinal, Silent
  <2> QED BY <2>1, <2>2 DEF IsFinal, Silent
<1> QED BY <1>3, <1>9, <1>12, <1>13

\* Frames that are said, behind the news of a new chain or without it.
Tell(more, t, off, g, e) ==
    /\ Len(more) = Len(t) + off
    /\ \A i \in 1 .. off : more[i].kind = "applied" /\ more[i].generation = g
    /\ \A i \in 1 .. Len(t) : more[i + off] = Audio(g, e, t[i])

\* What goes out of a run, behind what is applied with it.
LEMMA RowInLine ==
    ASSUME NEW more \in Seq(Events), NEW frames \in Seq(Frames), NEW off \in 0 .. 1, NEW g, NEW e,
           NEW first \in Int, RowFrom(frames, first), AllNamed(frames, e), Tell(more, frames, off, g, e)
    PROVE  /\ InLine(more, e) /\ Whole(more, e)
           /\ \A i \in 1 .. Len(more) : IsFirst(more, i, e) =>
                more[i].frame.start = first /\ more[i].generation = g /\ frames # << >>
           /\ \A i \in 1 .. Len(more) : IsFinal(more, i, e) =>
                /\ more[i].frame = frames[Len(frames)]
                /\ more[i].generation = g /\ frames # << >>
           /\ (Silent(more, 1, Len(more), e) => frames = << >>)
<1> /\ Len(more) = Len(frames) + off /\ \A i \in 1 .. off : more[i].kind = "applied"
    /\ \A i \in 1 .. Len(frames) : more[i + off] = Audio(g, e, frames[i])
  BY DEF Tell
<1>0. Len(frames) \in Nat /\ off \in Nat /\ Len(more) \in Nat
  OBVIOUS
<1>1. ASSUME NEW i \in 1 .. Len(more), i > off
      PROVE  /\ i - off \in 1 .. Len(frames) /\ more[i].kind = "audio" /\ more[i].epoch = e
             /\ more[i].frame = frames[i - off] /\ more[i].generation = g
             /\ more[i].frame.start = first + (i - off) - 1 /\ Named(more[i].frame, e)
  <2>1. i - off \in 1 .. Len(frames) /\ (i - off) + off = i
    BY <1>0, <1>1
  <2>2. more[i] = Audio(g, e, frames[i - off])
    BY <2>1
  <2>3. frames[i - off].start = first + (i - off) - 1 /\ Named(frames[i - off], e)
    BY <2>1 DEF RowFrom, AllNamed
  <2> QED BY <2>1, <2>2, <2>3 DEF Audio
<1>2. \A i \in 1 .. Len(more) : i <= off => more[i].kind = "applied"
  BY <1>0
<1>3. Whole(more, e)
  BY <1>1, <1>2 DEF Whole, Breaks
<1>4. ASSUME NEW i \in 1 .. Len(more) PROVE Tells(more, i, e) <=> i > off
  BY <1>0, <1>1, <1>2, <1>3 DEF Tells, IsSound, Whole
<1>5. ASSUME NEW i \in 1 .. Len(more), NEW k \in 1 .. Len(more), i < k, Tells(more, i, e),
             Tells(more, k, e), Silent(more, i + 1, k - 1, e)
      PROVE  Follows(more[i], more[k], e)
  <2>1. i > off /\ k > off
    BY <1>4, <1>5
  <2>2. k = i + 1
    <3>1. k # i + 1 => i + 1 \in i + 1 .. k - 1 /\ i + 1 \in 1 .. Len(more) /\ i + 1 > off
      BY <2>1, <1>0, <1>5
    <3> QED BY <3>1, <1>4, <1>5 DEF Silent
  <2>3. more[i].frame.start = first + (i - off) - 1 /\ more[k].frame.start = first + (k - off) - 1
    BY <2>1, <1>1
  <2>4. first + (k - off) - 1 = (first + (i - off) - 1) + 1 /\ first + (i - off) - 1 \in Int
    BY <2>2, <1>0
  <2> QED BY <2>3, <2>4 DEF Follows
<1>6. InLine(more, e)
  BY <1>1, <1>4, <1>5 DEF InLine
<1>7. ASSUME NEW i \in 1 .. Len(more), IsFirst(more, i, e)
      PROVE  more[i].frame.start = first /\ more[i].generation = g /\ frames # << >>
  BY <1>4, <1>7, <1>0, <1>1 DEF IsFirst, Silent
<1>8. ASSUME NEW i \in 1 .. Len(more), IsFinal(more, i, e)
      PROVE  more[i].frame = frames[Len(frames)] /\ more[i].generation = g /\ frames # << >>
  BY <1>4, <1>8, <1>0, <1>1 DEF IsFinal, Silent
<1>9. ASSUME Silent(more, 1, Len(more), e) PROVE frames = << >>
  BY <1>0, <1>4, <1>9 DEF Silent
<1> QED BY <1>3, <1>6, <1>7, <1>8, <1>9

\* Nothing that sounds.
LEMMA NothingSounds ==
    ASSUME NEW q \in Seq(Events), NEW e, \A i \in 1 .. Len(q) : ~IsSound(q[i], e)
    PROVE  /\ InLine(q, e) /\ Silent(q, 1, Len(q), e)
           /\ \A i \in 1 .. Len(q) : ~IsFirst(q, i, e) /\ ~IsFinal(q, i, e)
BY DEF InLine, Silent, IsFirst, IsFinal, Tells

\* The chain in force, when more is said, and when the first of it is taken.
LEMMA InForceMore ==
    ASSUME NEW q \in Seq(Events), NEW more \in Seq(Events), NEW active, NEW g,
           NEW i \in 1 .. Len(q) + 1
    PROVE  InForce(q \o more, i, active, g) <=> InForce(q, i, active, g)
<1>1. /\ Len(q) \in Nat /\ \A k \in 1 .. Len(q) : (q \o more)[k] = q[k]
  BY Indices
<1>2. \A k \in 1 .. i - 1 : k \in 1 .. Len(q) /\ \A m \in k + 1 .. i - 1 : m \in 1 .. Len(q)
  BY <1>1
<1> QED BY <1>1, <1>2 DEF InForce

LEMMA InForceOn ==
    ASSUME NEW q \in Seq(Events), NEW active, NEW g, NEW i \in 1 .. Len(q), q[i].kind # "applied",
           InForce(q, i, active, g)
    PROVE  InForce(q, i + 1, active, g)
  BY DEF InForce

LEMMA InForceApplied ==
    ASSUME NEW q \in Seq(Events), NEW active, NEW i \in 1 .. Len(q), q[i].kind = "applied"
    PROVE  InForce(q, i + 1, active, q[i].generation)
  BY DEF InForce

LEMMA InForceTaken ==
    ASSUME NEW q \in Seq(Events), q # << >>, NEW active, NEW g, NEW i \in 1 .. Len(q),
           InForce(q, i + 1, active, g), NEW t, t = Tail(q), NEW now,
           now = IF Head(q).kind = "applied" THEN Head(q).generation ELSE active
    PROVE  InForce(t, i, now, g)
<1>1. /\ Len(q) \in Nat /\ Len(q) >= 1 /\ Head(q) = q[1]
      /\ \A k \in 1 .. Len(q) - 1 : t[k] = q[k + 1]
  OBVIOUS
<1>2. (i + 1) - 1 = i /\ i \in Nat
  OBVIOUS
<1>3. ASSUME NEW k \in 1 .. i - 1, t[k].kind = "applied", \A m \in k + 1 .. i - 1 : t[m].kind # "applied"
      PROVE  t[k].generation = g
  <2>1. k \in 1 .. Len(q) - 1 /\ k + 1 \in 1 .. i
    BY <1>1
  <2>2. ASSUME NEW m \in (k + 1) + 1 .. i PROVE q[m].kind # "applied"
    <3>1. m - 1 \in k + 1 .. i - 1 /\ m - 1 \in 1 .. Len(q) - 1 /\ (m - 1) + 1 = m
      BY <1>1
    <3> QED BY <3>1, <1>1, <1>3
  <2> QED BY <2>1, <2>2, <1>1, <1>2, <1>3 DEF InForce
<1>4. ASSUME \A k \in 1 .. i - 1 : t[k].kind # "applied" PROVE now = g
  <2>1. ASSUME NEW m \in 2 .. i PROVE q[m].kind # "applied"
    <3>1. m - 1 \in 1 .. i - 1 /\ m - 1 \in 1 .. Len(q) - 1 /\ (m - 1) + 1 = m
      BY <1>1
    <3> QED BY <3>1, <1>1, <1>4
  <2>2. CASE q[1].kind = "applied"
    BY <2>1, <2>2, <1>2, <1>1 DEF InForce
  <2>3. CASE q[1].kind # "applied"
    BY <2>1, <2>3, <1>2, <1>1 DEF InForce
  <2> QED BY <2>2, <2>3
<1> QED BY <1>3, <1>4 DEF InForce
-----------------------------------------------------------------------------
\* The fields the invariant is about.
LEMMA HeardFields ==
    ASSUME SwitchTypes
    PROVE  /\ Now \in Nat /\ shared.recent \in Seq(Pieces) /\ Len(shared.recent) \in Nat
           /\ dsp.cursor \in Int /\ dsp.last \in Int /\ dsp.epoch \in Nat /\ dsp.seen \in Nat
           /\ dsp.boundary \in Int
           /\ dsp.generation \in Nat /\ dsp.chain \in Chains /\ dsp.out \in Seq(Events)
           /\ dsp.prepared \in SUBSET Loaders /\ shared.prepared \in SUBSET Loaders
           /\ results \in Seq(Events) /\ heard \in Seq(Events) /\ Said \in Seq(Events)
           /\ Line \in Seq(Events) /\ loader \in Loaders
  BY SaidIs, Indices, SharedFields, DspFields DEF SwitchTypes, Line, Now

\* A step that says no more than failures and moves neither the worker nor the epoch.
Calm ==
    /\ shared'.epoch = shared.epoch /\ shared'.recent = shared.recent /\ heard' = heard
    /\ dsp'.chain = dsp.chain /\ dsp'.generation = dsp.generation /\ dsp'.epoch = dsp.epoch
    /\ dsp'.cursor = dsp.cursor /\ dsp'.last = dsp.last
    /\ state'.active = state.active
    /\ \E more \in Seq(Events) :
          /\ Said' = Said \o more
          /\ \A i \in 1 .. Len(more) : more[i].kind = "failed"

LEMMA CalmIs ==
    ASSUME SwitchTypes, HeardInv, Calm
    PROVE  /\ Now' = Now /\ (Unbroken' => Unbroken)
           /\ LineEpochs' /\ ForceHolds' /\ InLine(Line, Now)' /\ EndHolds'
<1>0. /\ Now \in Nat /\ Said \in Seq(Events) /\ Line \in Seq(Events) /\ heard \in Seq(Events)
  BY HeardFields
<1>1. PICK more \in Seq(Events) :
        Said' = Said \o more /\ \A i \in 1 .. Len(more) : more[i].kind = "failed"
  BY DEF Calm
<1>2. Now' = Now /\ heard' = heard
  BY DEF Calm, Now
<1>3. Line' = Line \o more
  <2>1. heard \o (Said \o more) = (heard \o Said) \o more
    BY <1>0, ConcatAssociative
  <2> QED BY <2>1, <1>1, <1>2 DEF Line
<1>4. \A i \in 1 .. Len(more) : ~IsSound(more[i], Now)
  BY <1>1 DEF IsSound
<1>5. /\ InLine(more, Now) /\ Silent(more, 1, Len(more), Now)
      /\ \A i \in 1 .. Len(more) : ~IsFirst(more, i, Now) /\ ~IsFinal(more, i, Now)
  BY <1>4, NothingSounds
<1>6. InLine(Line \o more, Now)
  BY <1>0, <1>5, InLineMore DEF HeardInv
<1>7. Whole(Line \o more, Now) => Whole(Line, Now)
  BY <1>0, TellsMore
<1>8. \A i \in 1 .. Len(Line \o more) :
         \/ i \in 1 .. Len(Line) /\ (Line \o more)[i] = Line[i]
         \/ (Line \o more)[i].kind = "failed"
  BY <1>0, <1>1, Indices
<1>9. LineEpochs'
  BY <1>2, <1>3, <1>8 DEF LineEpochs, HeardInv, Calm, Now, IsSound
<1>10. ForceHolds'
  <2>1. /\ Len(Said \o more) = Len(Said) + Len(more) /\ Len(Said) \in Nat /\ Len(more) \in Nat
        /\ \A i \in 1 .. Len(Said) : (Said \o more)[i] = Said[i]
        /\ \A i \in 1 .. Len(Said \o more) :
             i \in 1 .. Len(Said) \/ \E k \in 1 .. Len(more) : i = Len(Said) + k
        /\ \A k \in 1 .. Len(more) : (Said \o more)[Len(Said) + k] = more[k]
    BY <1>0, Indices
  <2> DEFINE r == Said \o more
             n == Len(Said)
  <2> HIDE DEF r, n
  <2>2. ASSUME NEW i \in 1 .. Len(r), r[i].kind = "audio"
        PROVE  InForce(r, i, state.active, r[i].generation)
    BY <2>1, <2>2, <1>1, <1>0, InForceMore DEF r, n, HeardInv, ForceHolds
  <2>3. InForce(r, Len(r) + 1, state.active, dsp.generation)
    <3>1. InForce(Said, n + 1, state.active, dsp.generation)
      BY DEF HeardInv, ForceHolds, n
    <3>2. n + 1 \in 1 .. Len(Said) + 1 /\ n \in Nat /\ Len(r) = n + Len(more) /\ Len(more) \in Nat
      BY <2>1 DEF n, r
    <3>3. InForce(r, n + 1, state.active, dsp.generation)
      BY <3>1, <3>2, <1>0, InForceMore DEF r
    <3>4. \A k \in n + 1 .. Len(r) : r[k].kind # "applied"
      BY <2>1, <3>2, <1>1 DEF r, n
    <3>5. \A k \in 1 .. Len(r) : k \in 1 .. n \/ k \in n + 1 .. Len(r)
      BY <3>2
    <3>6. \A k \in 1 .. n : k \in 1 .. Len(r) /\ \A m \in k + 1 .. n : m \in k + 1 .. Len(r)
      BY <3>2
    <3>7. (n + 1) - 1 = n /\ (Len(r) + 1) - 1 = Len(r)
      BY <3>2
    <3>8. ASSUME NEW k \in 1 .. Len(r), r[k].kind = "applied",
                 \A m \in k + 1 .. Len(r) : r[m].kind # "applied"
          PROVE  r[k].generation = dsp.generation
      BY <3>3, <3>4, <3>5, <3>6, <3>7, <3>8 DEF InForce
    <3>9. (\A k \in 1 .. Len(r) : r[k].kind # "applied") => state.active = dsp.generation
      BY <3>3, <3>6, <3>7 DEF InForce
    <3> QED BY <3>7, <3>8, <3>9 DEF InForce
  <2>4. Said' = r /\ state'.active = state.active /\ dsp'.generation = dsp.generation
    BY <1>1 DEF Calm, r
  <2> QED BY <2>2, <2>3, <2>4 DEF ForceHolds
<1>11. EndHolds'
  BY <1>2, <1>3, <1>7, <1>0, <1>5, FinalMore DEF EndHolds, Unbroken, HeardInv, EndsWith, Calm
<1>12. Unbroken' => Unbroken
  BY <1>2, <1>3, <1>7 DEF Unbroken
<1>13. InLine(Line, Now)'
  BY <1>2, <1>3, <1>6
<1> QED BY <1>2, <1>9, <1>10, <1>11, <1>12, <1>13

\* What such a step leaves as it was.
LEMMA CalmStep ==
    ASSUME SwitchTypes, HeardInv, Calm, EpochsHold', BlocksHold', LoaderHolds', PreparedHolds',
           TakenHolds',
           dsp'.pc = "record" =>
              \/ dsp.pc = "record" /\ dsp'.work = dsp.work
              \/ /\ dsp'.work # Nudge /\ dsp.epoch = dsp'.work.epoch
                 /\ dsp.cursor \in {None, dsp'.work.start}
    PROVE  HeardInv'
<1>1. /\ Now' = Now /\ (Unbroken' => Unbroken)
      /\ LineEpochs' /\ ForceHolds' /\ InLine(Line, Now)' /\ EndHolds'
  BY CalmIs
<1>2. shared.recent # << >> => dsp.cursor # None
  BY HeardFields DEF HeardInv, RecentHolds, Remembers, Oldest, None
<1>3. RecentHolds'
  BY <1>1, <1>2 DEF HeardInv, RecentHolds, Calm
<1>4. ChainHolds'
  BY <1>1 DEF HeardInv, ChainHolds, Calm
<1> QED BY <1>1, <1>3, <1>4 DEF HeardInv

LEMMA CalmLoader ==
    ASSUME SwitchTypes, HeardInv, Calm, loader' = loader
    PROVE  LoaderHolds'
BY CalmIs DEF HeardInv, LoaderHolds, LoaderFeeds, Calm

LEMMA CalmPrepared ==
    ASSUME SwitchTypes, HeardInv, Calm, \A p \in shared'.prepared : p \in shared.prepared
    PROVE  PreparedHolds'
BY CalmIs DEF HeardInv, PreparedHolds, Calm

LEMMA CalmTaken ==
    ASSUME SwitchTypes, HeardInv, Calm,
           dsp'.pc = "install" =>
              /\ dsp.pc = "install" /\ dsp'.prepared = dsp.prepared
              /\ dsp'.seen = dsp.seen /\ dsp'.boundary = dsp.boundary
    PROVE  TakenHolds'
BY CalmIs DEF HeardInv, TakenHolds, Calm

LEMMA NothingMore ==
    ASSUME SwitchTypes, Said' = Said
    PROVE  \E more \in Seq(Events) :
              Said' = Said \o more /\ \A i \in 1 .. Len(more) : more[i].kind = "failed"
<1> DEFINE more == << >>
<1>1. more \in Seq(Events) /\ 1 .. Len(more) = {} /\ Said \in Seq(Events)
  BY EmptySeq, HeardFields
<1>2. Said \o more = Said
  BY <1>1, ConcatEmptySeq
<1> HIDE DEF more
<1> QED BY <1>1, <1>2

\* The blocks that are on their way are numbered.
LEMMA PutHolds ==
    ASSUME SwitchTypes, BlocksHold, NEW item \in Works, item # Nudge => item.start >= 0,
           blocks' = Put(item), dsp'.work = dsp.work
    PROVE  BlocksHold'
  BY DEF SwitchTypes, BlocksHold, Put
-----------------------------------------------------------------------------
\* A new epoch: nothing of the earlier ones counts any more.
LEMMA FlushStep ==
    ASSUME SwitchTypes, HeardInv, shared' = Flushed(shared), heard' = << >>,
           dsp' = dsp, loader' = loader, blocks' = Put(Nudge), ForceHolds', Said' \in Seq(Events),
           \A i \in 1 .. Len(Said') : \E k \in 1 .. Len(Said) : Said'[i] = Said[k]
    PROVE  HeardInv'
<1>0. /\ Now \in Nat /\ Said \in Seq(Events) /\ heard \in Seq(Events) /\ SharedTypes /\ DspTypes
      /\ dsp.epoch \in Nat /\ dsp.seen \in Nat /\ loader.epoch \in Nat
      /\ shared.prepared \in SUBSET Loaders
  BY HeardFields DEF SwitchTypes, Loaders
<1>1. shared'.epoch = Now + 1 /\ shared'.recent = << >> /\ shared'.prepared = shared.prepared
  BY <1>0, FlushedTypes DEF SharedTypes, Now
<1>2. Now' = Now + 1
  BY <1>1 DEF Now
<1>3. Line' = Said'
  BY EmptySeq, ConcatEmptySeq DEF Line
<1>4. \A i \in 1 .. Len(Line') : \E k \in 1 .. Len(Line) : Line'[i] = Line[k]
  <2>1. \A k \in 1 .. Len(Said) :
          Len(heard) + k \in 1 .. Len(Line) /\ Line[Len(heard) + k] = Said[k]
    BY <1>0, Indices DEF Line
  <2> QED BY <2>1, <1>3
<1>5. ASSUME NEW i \in 1 .. Len(Line'), Line'[i].kind \in {"audio", "gap"}
      PROVE  Line'[i].epoch <= Now + 1 /\ Line'[i].epoch # Now + 1
  <2>1. PICK k \in 1 .. Len(Line) : Line'[i] = Line[k]
    BY <1>4
  <2>2. Line[k].epoch <= Now
    BY <2>1, <1>5 DEF HeardInv, LineEpochs
  <2>3. Line[k].epoch \in Nat
    <3>1. Line[k] \in Events
      BY HeardFields
    <3> QED BY <3>1, <2>1, <1>5 DEF Events, Answered
  <2> QED BY <2>1, <2>2, <2>3, <1>0
<1>6. \A i \in 1 .. Len(Line') : ~IsSound(Line'[i], Now + 1)
  BY <1>5 DEF IsSound
<1>7. Line' \in Seq(Events)
  BY <1>3
<1>8. /\ InLine(Line', Now + 1)
      /\ \A i \in 1 .. Len(Line') : ~IsFinal(Line', i, Now + 1)
  BY <1>6, <1>7, NothingSounds
<1>9. /\ dsp.epoch <= Now /\ dsp.seen <= Now /\ loader.epoch <= Now
      /\ \A p \in shared.prepared : p.epoch <= Now /\ p.epoch \in Nat
  BY <1>0 DEF HeardInv, EpochsHold, Loaders
<1>10. /\ dsp.epoch <= Now + 1 /\ dsp.seen <= Now + 1 /\ loader.epoch <= Now + 1
       /\ dsp.epoch # Now + 1 /\ dsp.seen # Now + 1 /\ loader.epoch # Now + 1
       /\ \A p \in shared.prepared : p.epoch <= Now + 1 /\ p.epoch # Now + 1
  BY <1>0, <1>9
<1>11. EpochsHold'
  BY <1>1, <1>2, <1>10 DEF HeardInv, EpochsHold
<1>12. LineEpochs'
  BY <1>1, <1>2, <1>5, <1>6 DEF LineEpochs
<1>13. BlocksHold'
  BY EventTypes, PutHolds DEF HeardInv
<1>14. RecentHolds'
  BY <1>1, SwitchAssumption DEF SwitchAssumption, Remembers, RowFrom, AllOf, HeardInv,
     RecentHolds
<1>15. LoaderHolds' /\ PreparedHolds'
  BY <1>1, <1>2, <1>10 DEF HeardInv, LoaderHolds, PreparedHolds, Warmed
<1>16. TakenHolds' /\ ChainHolds'
  BY <1>2, <1>10 DEF TakenHolds, ChainHolds
<1>17. EndHolds'
  BY <1>2, <1>8 DEF EndHolds
<1>18. InLine(Line, Now)'
  BY <1>2, <1>8
<1> QED BY <1>11, <1>12, <1>13, <1>14, <1>15, <1>16, <1>17, <1>18 DEF HeardInv

\* The first that was said is taken: what is in force is what it told, or as before.
LEMMA TakenForce ==
    ASSUME SwitchTypes, ForceHolds, results # << >>, results' = Tail(results), dsp' = dsp,
           state'.active = IF Head(results).kind = "applied" THEN Head(results).generation
                           ELSE state.active
    PROVE  /\ ForceHolds' /\ Said' \in Seq(Events) /\ Said # << >>
           /\ Said' = Tail(Said) /\ Head(Said) = Head(results)
           /\ \A i \in 1 .. Len(Said') : \E k \in 1 .. Len(Said) : Said'[i] = Said[k]
<1>0. results \in Seq(Events) /\ DspTypes /\ Said \in Seq(Events)
  BY HeardFields DEF SwitchTypes
<1>1. Said # << >> /\ Head(Said) = Head(results) /\ Said' = Tail(Said)
  BY <1>0, SaidIsTaken
<1> DEFINE q == Said
           t == Tail(q)
           now == state'.active
<1>2. /\ q \in Seq(Events) /\ q # << >> /\ Len(q) \in Nat /\ Len(t) = Len(q) - 1 /\ t \in Seq(Events)
      /\ now = IF Head(q).kind = "applied" THEN Head(q).generation ELSE state.active
  BY <1>0, <1>1
<1> HIDE DEF q, now
<1>3. \A k \in 1 .. Len(q) - 1 : t[k] = q[k + 1]
  BY <1>2
<1>4. ASSUME NEW i \in 1 .. Len(t), t[i].kind = "audio"
      PROVE  InForce(t, i, now, t[i].generation)
  <2>1. i \in 1 .. Len(q) /\ i + 1 \in 1 .. Len(q) /\ t[i] = q[i + 1]
    BY <1>2, <1>3
  <2>2. InForce(q, i + 1, state.active, q[i + 1].generation)
    BY <2>1, <1>4 DEF ForceHolds, q
  <2> QED BY <2>1, <2>2, <1>2, InForceTaken
<1>5. InForce(t, Len(t) + 1, now, dsp.generation)
  <2>1. InForce(q, Len(q) + 1, state.active, dsp.generation)
    BY DEF ForceHolds, q
  <2>2. Len(q) \in 1 .. Len(q) /\ Len(t) + 1 = Len(q)
    BY <1>2
  <2>3. InForce(t, Len(q), now, dsp.generation)
    BY <2>1, <2>2, <1>2, InForceTaken
  <2> QED BY <2>2, <2>3
<1>6. Said' = t
  BY <1>1 DEF q
<1>7. \A i \in 1 .. Len(t) : i + 1 \in 1 .. Len(q)
  BY <1>2
<1>8. \A i \in 1 .. Len(t) : \E k \in 1 .. Len(q) : t[i] = q[k]
  BY <1>2, <1>3, <1>7
<1>9. ForceHolds'
  BY <1>4, <1>5, <1>6 DEF ForceHolds, now
<1> QED BY <1>1, <1>2, <1>6, <1>8, <1>9 DEF q

\* An event that the session drops, or that tells of a selection.
LEMMA DropStep ==
    ASSUME SwitchTypes, HeardInv, results # << >>, results' = Tail(results),
           UNCHANGED <<shared, blocks, dsp, loader, heard>>,
           ~IsSound(Head(results), Now), ~Breaks(Head(results), Now),
           state'.active = IF Head(results).kind = "applied" THEN Head(results).generation
                           ELSE state.active
    PROVE  HeardInv'
<1>0. Said \in Seq(Events) /\ heard \in Seq(Events) /\ Line \in Seq(Events)
  BY HeardFields
<1>1. /\ ForceHolds' /\ Said # << >> /\ Said' = Tail(Said) /\ Head(Said) = Head(results)
  BY TakenForce DEF HeardInv
<1> DEFINE q == heard \o Said
           t == heard \o Tail(Said)
<1>2. Line = q /\ Line' = t /\ Now' = Now /\ t \in Seq(Events) /\ q \in Seq(Events)
  BY <1>0, <1>1 DEF Line, Now
<1>3. ~IsSound(Head(Said), Now) /\ ~Breaks(Head(Said), Now)
  BY <1>1
<1>4. /\ InLine(t, Now) /\ (Whole(t, Now) => Whole(q, Now))
      /\ \A i \in 1 .. Len(t) : IsFinal(t, i, Now) =>
            \E k \in 1 .. Len(q) : IsFinal(q, k, Now) /\ q[k] = t[i]
      /\ \A i \in 1 .. Len(t) : \E k \in 1 .. Len(q) : q[k] = t[i]
  BY <1>2, <1>0, <1>1, <1>3, InLineLess DEF HeardInv
<1> HIDE DEF q, t
<1>5. Unbroken' => Unbroken
  BY <1>2, <1>4 DEF Unbroken
<1>6. EpochsHold' /\ BlocksHold' /\ RecentHolds'
  BY <1>2 DEF HeardInv, EpochsHold, BlocksHold, RecentHolds
<1>7. LineEpochs'
  BY <1>2, <1>4 DEF HeardInv, LineEpochs
<1>8. LoaderHolds' /\ PreparedHolds' /\ TakenHolds' /\ ChainHolds'
  BY <1>2, <1>5 DEF HeardInv, LoaderHolds, LoaderFeeds, PreparedHolds, TakenHolds, ChainHolds
<1>9. EndHolds'
  BY <1>2, <1>4, <1>5 DEF EndHolds, HeardInv, EndsWith
<1>10. InLine(Line, Now)'
  BY <1>2, <1>4
<1> QED BY <1>1, <1>6, <1>7, <1>8, <1>9, <1>10 DEF HeardInv

\* What the session takes up is what comes next in the line.
LEMMA HearStep ==
    ASSUME SwitchTypes, HeardInv, results # << >>, results' = Tail(results),
           UNCHANGED <<shared, blocks, dsp, loader, state>>,
           IsSound(Head(results), Now), heard' = Append(heard, Head(results))
    PROVE  HeardInv'
<1>0. Said \in Seq(Events) /\ heard \in Seq(Events) /\ Line \in Seq(Events)
  BY HeardFields
<1>1. /\ ForceHolds' /\ Said # << >> /\ Said' = Tail(Said) /\ Head(Said) = Head(results)
  BY TakenForce DEF IsSound, HeardInv
<1>2. Line' = Line /\ Now' = Now
  BY <1>0, <1>1, SeqEqual DEF Line, Now
<1>3. LineEpochs'
  <2>1. ASSUME NEW i \in 1 .. Len(heard') PROVE IsSound(heard'[i], Now)
    BY <1>0 DEF HeardInv, LineEpochs
  <2> QED BY <2>1, <1>2 DEF HeardInv, LineEpochs
<1>4. Unbroken' = Unbroken
  BY <1>2 DEF Unbroken
<1>5. EpochsHold' /\ BlocksHold' /\ RecentHolds'
  BY <1>2 DEF HeardInv, EpochsHold, BlocksHold, RecentHolds
<1>6. LoaderHolds' /\ PreparedHolds' /\ TakenHolds' /\ ChainHolds'
  BY <1>2, <1>4 DEF HeardInv, LoaderHolds, LoaderFeeds, PreparedHolds, TakenHolds, ChainHolds
<1>7. EndHolds' /\ InLine(Line, Now)'
  BY <1>2, <1>4 DEF HeardInv, EndHolds, EndsWith
<1> QED BY <1>1, <1>3, <1>5, <1>6, <1>7 DEF HeardInv

LEMMA TakeEventHeard ==
    ASSUME SwitchAssumption, SwitchTypes, HeardInv, TakeEvent
    PROVE  HeardInv'
<1> DEFINE x == Head(results)
<1>0. results # << >> /\ results' = Tail(results) /\ dsp' = dsp /\ loader' = loader
  BY DEF TakeEvent
<1>1. x \in Events /\ StateTypes /\ Now \in Nat /\ Said \in Seq(Events)
  BY <1>0, HeardFields DEF SwitchTypes
<1>2. CASE x.kind = "audio"
  <2>1. /\ heard' = IF x.epoch = shared.epoch /\ x.generation = state.active
                    THEN Append(heard, x) ELSE heard
        /\ UNCHANGED <<shared, blocks, state>>
    BY <1>2 DEF TakeEvent
  <2>2. CASE x.epoch = Now
    <3>1. state.active = x.generation
      <4>1. Said # << >> /\ Head(Said) = x
        BY <1>0, <1>1, SaidIsTaken DEF SwitchTypes
      <4>2. 1 \in 1 .. Len(Said) /\ Said[1] = x
        BY <4>1, <1>1
      <4>3. InForce(Said, 1, state.active, x.generation)
        BY <4>2, <1>2 DEF HeardInv, ForceHolds
      <4>4. \A k \in 1 .. 1 - 1 : FALSE
        OBVIOUS
      <4> QED BY <4>3, <4>4 DEF InForce
    <3>2. heard' = Append(heard, x)
      BY <2>1, <2>2, <3>1 DEF Now
    <3>3. IsSound(x, Now)
      BY <2>2, <1>2 DEF IsSound
    <3> QED BY <2>1, <3>2, <3>3, <1>0, HearStep
  <2>3. CASE x.epoch # Now
    BY <2>1, <2>3, <1>2, <1>0, DropStep DEF Now, IsSound, Breaks
  <2> QED BY <2>2, <2>3
<1>3. CASE x.kind = "gap"
  BY <1>3, <1>0, TakenForce, FlushStep, DropStep DEF TakeEvent, Now, HeardInv, IsSound, Breaks
<1>4. CASE x.kind \notin {"audio", "gap"}
  BY <1>4, <1>1, <1>0, DropStep DEF TakeEvent, Completed, StateTypes, IsSound, Breaks
<1> QED BY <1>2, <1>3, <1>4

LEMMA SessionHeard ==
    ASSUME SwitchAssumption, SwitchTypes, HeardInv,
           Capture \/ FlushBlocks \/ \E selection \in Selections : Request(selection)
    PROVE  HeardInv'
<1>0. SharedTypes /\ StateTypes /\ DspTypes /\ loader \in Loaders /\ Said \in Seq(Events)
  BY HeardFields DEF SwitchTypes
<1>1. CASE Capture
  <2> DEFINE n == state.blocks + 1
             item == [start |-> state.blocks, epoch |-> shared.epoch]
  <2>1. state' = [state EXCEPT !.blocks = n] /\ blocks' = Put(item)
        /\ UNCHANGED <<shared, results, dsp, loader, heard>>
    BY <1>1 DEF Capture
  <2>2. item \in Works /\ item.start >= 0
    BY <1>0 DEF Works, Pieces, SharedTypes, StateTypes
  <2> HIDE DEF n, item
  <2>3. state'.active = state.active
    BY <2>1, <1>0 DEF StateTypes
  <2>4. Said' = Said
    BY <2>1 DEF Said
  <2>5. Calm
    BY <2>1, <2>3, <2>4, NothingMore DEF Calm
  <2>6. EpochsHold'
    BY <2>1 DEF HeardInv, EpochsHold, Now
  <2>7. BlocksHold'
    BY <2>1, <2>2, PutHolds DEF HeardInv
  <2>8. LoaderHolds' /\ PreparedHolds' /\ TakenHolds'
    BY <2>1, <2>5, CalmLoader, CalmPrepared, CalmTaken
  <2> QED BY <2>1, <2>5, <2>6, <2>7, <2>8, CalmStep
<1>2. CASE FlushBlocks
  BY <1>2, <1>0, FlushStep DEF FlushBlocks, StateTypes, Said, HeardInv, ForceHolds
<1>3. ASSUME NEW selection \in Selections, Request(selection) PROVE HeardInv'
  <2> DEFINE n == shared.generation + 1
  <2>1. /\ state' = [state EXCEPT !.requested = selection, !.switching = TRUE, !.generation = n]
        /\ UNCHANGED <<results, dsp, heard>>
    BY <1>3 DEF Request
  <2>2. \/ /\ shared' = [shared EXCEPT !.desired = selection, !.generation = n, !.loading = TRUE]
           /\ loader' = (IF shared.loading THEN loader ELSE [loader EXCEPT !.pc = "start"])
           /\ blocks' = blocks
        \/ /\ shared' = [shared EXCEPT !.desired = selection, !.generation = n,
                               !.prepared = {[loader EXCEPT !.pc = "failed", !.generation = n]}]
           /\ blocks' = Put(Nudge)
           /\ loader' = loader
    BY <1>3 DEF Request
  <2> HIDE DEF n
  <2>3. state'.active = state.active
    BY <2>1, <1>0 DEF StateTypes
  <2>4. Said' = Said
    BY <2>1 DEF Said
  <2> DEFINE failure == [loader EXCEPT !.pc = "failed", !.generation = n]
             one == {failure}
  <2>5. failure.pc = "failed" /\ failure.epoch = loader.epoch
    BY <1>0 DEF Loaders
  <2>6. (\A p \in one : p = failure)
    OBVIOUS
  <2>7. \/ shared' = [shared EXCEPT !.desired = selection, !.generation = n, !.loading = TRUE]
        \/ shared' = [shared EXCEPT !.desired = selection, !.generation = n, !.prepared = one]
    BY <2>2
  <2> HIDE DEF failure, one
  <2>8. /\ shared'.epoch = shared.epoch /\ shared'.recent = shared.recent
        /\ shared'.prepared \in {shared.prepared, one}
    BY <2>7, <1>0 DEF SharedTypes
  <2>9. Calm
    BY <2>1, <2>3, <2>4, <2>8, NothingMore DEF Calm
  <2>10. loader' = loader \/ (loader'.pc = "start" /\ loader'.epoch = loader.epoch)
    BY <2>2, <1>0 DEF Loaders
  <2>11. EpochsHold'
    BY <2>5, <2>6, <2>8, <2>1, <2>10 DEF HeardInv, EpochsHold, Now
  <2>12. BlocksHold'
    BY <2>1, EventTypes, PutHolds, <2>2 DEF HeardInv, BlocksHold
  <2>13. LoaderHolds'
    BY <2>9, CalmLoader, <2>10 DEF LoaderHolds, LoaderFeeds
  <2>14. PreparedHolds'
    BY <2>9, CalmPrepared, <2>5, <2>6, <2>8 DEF PreparedHolds
  <2>15. TakenHolds'
    BY <2>1, <2>9, CalmTaken
  <2> QED BY <2>1, <2>9, <2>11, <2>12, <2>13, <2>14, <2>15, CalmStep
<1> QED BY <1>1, <1>2, <1>3
-----------------------------------------------------------------------------
\* Where a row begins and ends.
LEMMA RowEnds ==
    ASSUME NEW s \in Seq(Pieces) \union Seq(Frames), s # << >>, NEW first \in Int, RowFrom(s, first)
    PROVE  Head(s).start = first /\ Last(s).start + 1 = first + Len(s) /\ Len(s) \in Nat /\ Len(s) >= 1
  BY DEF Last, RowFrom

\* The loader feeds a chain, and keeps the last frames.
LEMMA KeptFed ==
    ASSUME SwitchAssumption, NEW run \in Runs, NEW input \in Seq(Pieces), NEW e, NEW cursor, NEW first,
           GoesOn(run, input, e, cursor, first)
    PROVE  /\ FeedKeeping(run, input) \in Runs
           /\ Fed(FeedKeeping(run, input).chain, FeedKeeping(run, input).frames, e, first + Len(input))
           /\ FeedKeeping(run, input).chain.next # None
           /\ FeedKeeping(run, input).chain.next \in Nat
           /\ FeedKeeping(run, input).chain.next <= first + Len(input)
           /\ (run.chain.next = None =>
                 /\ FeedKeeping(run, input).chain.next >= first
                 /\ FirstFrame(FeedKeeping(run, input))
                        \in {first, FeedKeeping(run, input).chain.next - Kept})
           /\ (run.chain.next # None =>
                 /\ FeedKeeping(run, input).chain.next >= run.chain.next
                 /\ FirstFrame(FeedKeeping(run, input))
                        \in {FirstFrame(run), FeedKeeping(run, input).chain.next - Kept})
<1> PICK kept : kept = FeedKeeping(run, input)
  OBVIOUS
<1>0. first \in Nat
  BY DEF GoesOn
<1> PICK fed : fed = Feed(run, input)
  OBVIOUS
<1>1. /\ fed \in Runs /\ Fed(fed.chain, fed.frames, e, first + Len(input))
      /\ fed.chain.next # None
      /\ (run.chain.next = None => FirstFrame(fed) = first /\ fed.chain.next >= first)
      /\ (run.chain.next # None => /\ FirstFrame(fed) = FirstFrame(run)
                                   /\ fed.chain.next >= run.chain.next)
  BY FedMore
<1>2. kept \in Runs /\ kept.chain = fed.chain /\ kept.frames = LastOf(fed.frames, Kept)
  BY FeedKeepingTypes
<1>3. /\ Fed(fed.chain, LastOf(fed.frames, Kept), e, first + Len(input))
      /\ \/ fed.chain.next - Len(LastOf(fed.frames, Kept)) = FirstFrame(fed)
         \/ fed.chain.next - Len(LastOf(fed.frames, Kept)) = fed.chain.next - Kept
  BY <1>1, FedKeeping
<1>4. FirstFrame(kept) \in {FirstFrame(fed), kept.chain.next - Kept}
  BY <1>2, <1>3 DEF FirstFrame
<1>5. Fed(kept.chain, kept.frames, e, first + Len(input))
  BY <1>2, <1>3
<1>6. kept.chain.next \in Nat /\ kept.chain.next <= first + Len(input)
  BY <1>1, <1>2, <1>5, RunFields, <1>0 DEF Fed
<1> QED BY <1>1, <1>2, <1>4, <1>5, <1>6

\* The blocks that are remembered.
LEMMA RememberedRow ==
    ASSUME SwitchAssumption, NEW recent \in Seq(Pieces), NEW cursor \in Int, NEW e,
           Remembers(recent, cursor, e), recent # << >>
    PROVE  /\ Len(recent) \in Nat /\ Len(recent) >= 1 /\ RecentLen \in Nat /\ Warm \in Nat
           /\ CatchUp \in Nat /\ Kept \in Nat
           /\ Oldest(recent, cursor) \in Nat /\ Oldest(recent, cursor) + Len(recent) = cursor
           /\ cursor # None /\ cursor \in Nat
           /\ RowFrom(recent, Oldest(recent, cursor)) /\ AllOf(recent, e)
  BY DEF SwitchAssumption, Remembers, Oldest, None

\* A fresh chain is warmed with the last blocks.
LEMMA WarmedFirst ==
    ASSUME SwitchAssumption, LimitsAssumption, NEW recent \in Seq(Pieces), NEW cursor \in Int, NEW e,
           Remembers(recent, cursor, e), NEW run \in Runs,
           run.chain.next = None, run.chain.held = << >>, run.frames = << >>,
           NEW input, input = LastOf(recent, Warm), input # << >>,
           NEW kept, kept = FeedKeeping(run, input)
    PROVE  /\ Fed(kept.chain, kept.frames, e, cursor) /\ kept.chain.next # None
           /\ Covered(kept.chain, recent, cursor) /\ Early(kept, recent, cursor, e)
           /\ Last(input).start + 1 = cursor /\ recent # << >> /\ cursor > Oldest(recent, cursor)
<1> DEFINE r == Len(recent)
           x == Excess(r, Warm)
           old == Oldest(recent, cursor)
           first == old + x
<1>0. Warm \in Nat /\ Kept \in Nat /\ Warm <= Kept
  BY DEF SwitchAssumption, LimitsAssumption
<1>1. /\ input \in Seq(Pieces) /\ Len(input) = r - x /\ x \in 0 .. r /\ r \in Nat
      /\ \A i \in 1 .. Len(input) : input[i] = recent[x + i]
  BY <1>0, LastOfIs
<1>2. recent # << >>
  BY <1>1
<1>3. /\ r >= 1 /\ old \in Nat /\ old + r = cursor /\ cursor \in Nat
      /\ RowFrom(recent, old) /\ AllOf(recent, e)
  BY <1>2, RememberedRow
<1>4. x = 0 \/ Len(input) = Warm
  BY <1>0, <1>1 DEF Excess
<1> HIDE DEF r, x, old
<1>5. first \in Nat /\ first + Len(input) = cursor /\ Len(input) \in Nat
  BY <1>1, <1>3
<1>6. RowFrom(input, first) /\ AllOf(input, e)
  <2> SUFFICES ASSUME NEW i \in 1 .. Len(input)
               PROVE  input[i].start = first + i - 1 /\ input[i].epoch = e
    BY DEF RowFrom, AllOf
  <2>1. x + i \in 1 .. r
    BY <1>1
  <2>2. recent[x + i].start = old + (x + i) - 1 /\ recent[x + i].epoch = e
    BY <2>1, <1>3 DEF RowFrom, AllOf, r
  <2>3. input[i] = recent[x + i] /\ x \in Int /\ i \in Int /\ old \in Int
    BY <1>1, <1>3
  <2>4. old + (x + i) - 1 = first + i - 1
    BY <2>3
  <2> QED BY <2>2, <2>3, <2>4
<1> HIDE DEF first
<1>7. GoesOn(run, input, e, first, first)
  BY <1>5, <1>6 DEF Fed, GoesOn
<1>8. /\ kept \in Runs /\ Fed(kept.chain, kept.frames, e, first + Len(input))
      /\ kept.chain.next # None /\ kept.chain.next \in Nat
      /\ kept.chain.next <= first + Len(input)
      /\ kept.chain.next >= first
      /\ FirstFrame(kept) \in {first, kept.chain.next - Kept}
  BY <1>1, <1>7, KeptFed
<1>9. kept.chain.next >= old
  BY <1>1, <1>3, <1>5, <1>8 DEF first
<1>10. Covered(kept.chain, recent, cursor)
  BY <1>2, <1>9 DEF Covered, old
<1>11. first <= cursor - Warm \/ first <= old
  BY <1>0, <1>1, <1>3, <1>4, <1>5 DEF first
<1>12. kept.chain.next - Kept <= cursor - Warm
  BY <1>0, <1>3, <1>5, <1>8
<1>13. Early(kept, recent, cursor, e)
  BY <1>8, <1>11, <1>12 DEF Early, old
<1>14. Last(input).start + 1 = cursor
  <2>1. input \in Seq(Pieces) \union Seq(Frames) /\ first \in Int /\ RowFrom(input, first)
    BY <1>1, <1>5, <1>6
  <2>2. Last(input).start + 1 = first + Len(input)
    BY <2>1, RowEnds
  <2> QED BY <2>2, <1>5
<1>15. cursor > old
  BY <1>1, <1>3
<1> QED BY <1>2, <1>5, <1>8, <1>10, <1>13, <1>14, <1>15 DEF old

\* A chain that was warmed is fed what was captured meanwhile.
LEMMA WarmedMore ==
    ASSUME SwitchAssumption, LimitsAssumption, NEW recent \in Seq(Pieces), NEW cursor \in Int, NEW e,
           Remembers(recent, cursor, e), NEW run \in Runs, NEW from \in Int,
           Fed(run.chain, run.frames, e, from),
           Covered(run.chain, recent, cursor), Early(run, recent, cursor, e),
           run.chain.next = None => from = 0,
           NEW input, input = Since(from, recent), input # << >>, Head(input).start = from,
           NEW kept, kept = FeedKeeping(run, input)
    PROVE  /\ Fed(kept.chain, kept.frames, e, cursor) /\ kept.chain.next # None
           /\ Covered(kept.chain, recent, cursor) /\ Early(kept, recent, cursor, e)
           /\ Last(input).start + 1 = cursor /\ recent # << >> /\ cursor > Oldest(recent, cursor)
<1> DEFINE r == Len(recent)
           old == Oldest(recent, cursor)
<1>0. Warm \in Nat /\ Kept \in Nat /\ Warm <= Kept
  BY DEF SwitchAssumption, LimitsAssumption
<1>1. recent # << >>
  BY SinceIs
<1>2. /\ r \in Nat /\ r >= 1 /\ old \in Nat /\ old + r = cursor /\ cursor \in Nat
      /\ RowFrom(recent, old) /\ AllOf(recent, e)
  BY <1>1, RememberedRow
<1> HIDE DEF old
<1>3. /\ input \in Seq(Pieces) /\ Len(input) <= r
      /\ RowFrom(input, old + (r - Len(input)))
      /\ \A i \in 1 .. Len(input) : input[i] = recent[r - Len(input) + i]
      /\ (from <= old => Len(input) = r)
  <2>1. RowFrom(recent, old) /\ old \in Int /\ from \in Int /\ recent \in Seq(Pieces)
    BY <1>2
  <2>2. input \in Seq(Pieces) /\ Rest(input, recent, old, from)
    BY <2>1, SinceBlocks
  <2> QED BY <2>2 DEF Rest
<1>4. Len(input) \in Nat
  BY <1>3
<1>5. from = old + (r - Len(input)) /\ Last(input).start + 1 = cursor /\ from + Len(input) = cursor
  BY <1>2, <1>3, <1>4, RowEnds
<1>6. from \in Nat
  BY <1>2, <1>3, <1>4, <1>5
<1>7. AllOf(input, e)
  BY <1>2, <1>3, <1>4 DEF AllOf
<1>8. GoesOn(run, input, e, from, from)
  BY <1>3, <1>5, <1>6, <1>7 DEF GoesOn
<1>9. /\ kept \in Runs /\ Fed(kept.chain, kept.frames, e, from + Len(input))
      /\ kept.chain.next # None /\ kept.chain.next \in Nat
      /\ kept.chain.next <= from + Len(input)
      /\ (run.chain.next = None =>
            /\ kept.chain.next >= from
            /\ FirstFrame(kept) \in {from, kept.chain.next - Kept})
      /\ (run.chain.next # None =>
            /\ kept.chain.next >= run.chain.next
            /\ FirstFrame(kept) \in {FirstFrame(run), kept.chain.next - Kept})
  BY <1>3, <1>8, KeptFed
<1>10. kept.chain.next - Kept <= cursor - Warm
  BY <1>0, <1>2, <1>5, <1>9
<1>11. run.chain.next = None => from = old
  BY <1>2, <1>3, <1>4, <1>5
<1>12. run.chain.next \in Int
  BY RunFields
<1>13. Covered(kept.chain, recent, cursor)
  BY <1>1, <1>2, <1>9, <1>11, <1>12 DEF Covered, old
<1>14. Early(kept, recent, cursor, e)
  BY <1>10, <1>2, <1>11, <1>9 DEF Early, old
<1>15. cursor > old
  BY <1>2
<1> QED BY <1>1, <1>5, <1>9, <1>13, <1>14, <1>15 DEF old
-----------------------------------------------------------------------------
\* A step of the loader by itself.
LEMMA LoaderStep ==
    ASSUME SwitchTypes, HeardInv, UNCHANGED <<shared, blocks, results, dsp, heard>>,
           state'.active = state.active, loader'.epoch <= Now, LoaderHolds'
    PROVE  HeardInv'
  BY NothingMore, CalmPrepared, CalmTaken, CalmStep DEF Said, Calm, HeardInv, EpochsHold,
     BlocksHold, Now

LEMMA LoaderStartHeard ==
    ASSUME SwitchTypes, HeardInv, LoaderStart
    PROVE  HeardInv'
  BY LoaderStep DEF LoaderStart, Chain, SwitchTypes, Loaders, LoaderHolds, LoaderFeeds,
     HeardInv, EpochsHold

LEMMA LoaderWarmHeard ==
    ASSUME SwitchAssumption, LimitsAssumption, SwitchTypes, HeardInv, LoaderWarm
    PROVE  HeardInv'
<1> DEFINE recent == LastOf(shared.recent, Warm)
           run == FeedKeeping(loader.run, recent)
           cursor == IF recent = << >> THEN 0 ELSE Last(recent).start + 1
           n == shared.epoch
<1>1. /\ loader' = [loader EXCEPT !.pc = "look", !.round = 0, !.epoch = n, !.run = run,
                                  !.cursor = cursor]
      /\ UNCHANGED <<shared, blocks, results, dsp, state, heard>> /\ loader.pc = "warm"
  BY DEF LoaderWarm
<1>2. /\ loader.run \in Runs /\ shared.recent \in Seq(Pieces) /\ dsp.cursor \in Int
      /\ loader.run.chain.next = None /\ loader.run.chain.held = << >> /\ loader.run.frames = << >>
      /\ Remembers(shared.recent, dsp.cursor, Now) /\ n = Now /\ Now \in Nat
  BY <1>1, HeardFields DEF HeardInv, LoaderHolds, RecentHolds, Loaders, Now
<1>3. /\ Fed(run.chain, run.frames, Now, cursor) /\ Covered(run.chain, shared.recent, dsp.cursor)
      /\ Early(run, shared.recent, dsp.cursor, Now) /\ (run.chain.next = None => cursor = 0)
      /\ (run.chain.next # None =>
            cursor <= dsp.cursor /\ (Len(shared.recent) < RecentLen => cursor > Oldest(shared.recent, dsp.cursor)))
  <2>1. CASE recent = << >>
    <3>1. Fed(loader.run.chain, loader.run.frames, Now, 0)
      BY <1>2 DEF Fed
    <3>2. Feed(loader.run, << >>).chain = loader.run.chain
      BY <3>1, <1>2, FedNothing
    <3>3. Feed(loader.run, << >>).frames = loader.run.frames
      BY <3>1, <1>2, FedNothing
    <3>4. << >> \in Seq(Pieces) /\ << >> \in Seq(Frames)
      BY EmptySeq
    <3>5. run.chain = loader.run.chain /\ run.frames = LastOf(<< >>, Kept)
      <4>1. recent = << >> /\ recent \in Seq(Pieces)
        BY <3>4, <2>1
      <4> HIDE DEF recent
      <4>2. /\ FeedKeeping(loader.run, recent).chain = Feed(loader.run, recent).chain
            /\ FeedKeeping(loader.run, recent).frames = LastOf(Feed(loader.run, recent).frames, Kept)
        BY <4>1, <1>2, FeedKeepingTypes
      <4>3. Feed(loader.run, recent) = Feed(loader.run, << >>)
        BY <4>1
      <4>4. LastOf(Feed(loader.run, recent).frames, Kept) = LastOf(<< >>, Kept)
        BY <4>3, <3>3, <1>2
      <4> QED BY <4>2, <4>3, <4>4, <3>2
    <3>6. LastOf(<< >>, Kept) = << >>
      <4>1. Kept \in Nat
        BY DEF SwitchAssumption
      <4>2. LastOf(<< >>, Kept) \in Seq(Frames) /\ Len(LastOf(<< >>, Kept)) = 0
        <5> DEFINE s == << >>
        <5>1. s \in Seq(Frames) /\ Len(s) = 0
          BY <3>4
        <5> HIDE DEF s
        <5>2. /\ LastOf(s, Kept) \in Seq(Frames) /\ Len(LastOf(s, Kept)) = Len(s) - Excess(Len(s), Kept)
              /\ Excess(Len(s), Kept) \in 0 .. Len(s)
          BY <5>1, <4>1, LastOfIs
        <5>3. LastOf(s, Kept) \in Seq(Frames) /\ Len(LastOf(s, Kept)) = 0
          BY <5>1, <5>2
        <5> QED BY <5>3 DEF s
      <4> QED BY <4>2
    <3>7. run.chain.next = None /\ run.chain.held = << >> /\ run.frames = << >> /\ cursor = 0
      BY <3>5, <3>6, <2>1, <1>2
    <3> HIDE DEF run, cursor
    <3> QED BY <3>7 DEF Fed, Covered, Early
  <2>2. CASE recent # << >>
    BY <1>2, <2>2, WarmedFirst
  <2> QED BY <2>1, <2>2
<1> HIDE DEF run, cursor, recent, n
<1>4. /\ loader'.pc = "look" /\ loader'.run = run /\ loader'.epoch = n /\ loader'.cursor = cursor
  BY <1>1 DEF SwitchTypes, Loaders
<1>5. Warmed(loader, shared.recent, dsp.cursor, Now)'
  BY <1>3, <1>4, <1>1 DEF Warmed, Now
<1>6. LoaderHolds'
  BY <1>4, <1>5 DEF LoaderHolds
<1>7. loader'.epoch <= Now
  BY <1>2, <1>4
<1> QED BY <1>1, <1>6, <1>7, LoaderStep

LEMMA LoaderLookHeard ==
    ASSUME SwitchAssumption, LimitsAssumption, SwitchTypes, HeardInv, LoaderLook
    PROVE  HeardInv'
<1> DEFINE pending == Since(loader.cursor, shared.recent)
           run == FeedKeeping(loader.run, pending)
           cursor == Last(pending).start + 1
           round == loader.round + 1
           blank == [chain |-> Reset(loader.run.chain), frames |-> << >>]
<1>1. /\ loader.pc = "look" /\ UNCHANGED <<shared, blocks, results, dsp, state, heard>>
      /\ \/ loader' = [loader EXCEPT !.pc = "done"]
         \/ loader' = [loader EXCEPT !.pc = "failed"]
         \/ shared.epoch # loader.epoch /\ loader' = [loader EXCEPT !.pc = "done", !.run = blank]
         \/ /\ shared.epoch = loader.epoch /\ pending # << >> /\ Head(pending).start = loader.cursor
            /\ loader' = [loader EXCEPT !.run = run, !.round = round, !.cursor = cursor]
  BY DEF LoaderLook
<1>2. /\ loader \in Loaders /\ loader.run \in Runs /\ loader.cursor \in Int
      /\ shared.recent \in Seq(Pieces) /\ dsp.cursor \in Int /\ Now \in Nat
      /\ Remembers(shared.recent, dsp.cursor, Now)
  BY <1>1, HeardFields DEF HeardInv, RecentHolds, Loaders
<1> HIDE DEF run, cursor, round, blank
<1>3. loader'.epoch = loader.epoch /\ loader'.pc \in {"look", "done", "failed"}
  BY <1>1, <1>2 DEF Loaders
<1>4. Unbroken' = Unbroken
  BY <1>1 DEF Unbroken, Line, Said, Now
<1>5. ASSUME Unbroken, loader'.pc # "failed"
      PROVE  Warmed(loader', shared.recent, dsp.cursor, Now)
  <2>1. Warmed(loader, shared.recent, dsp.cursor, Now)
    BY <1>1, <1>5 DEF HeardInv, LoaderHolds, LoaderFeeds
  <2>2. CASE loader' = [loader EXCEPT !.pc = "done"]
    BY <2>2, <1>2, <2>1, <1>3 DEF Loaders, Warmed
  <2>3. CASE loader' = [loader EXCEPT !.pc = "failed"]
    BY <2>3, <1>2, <1>5 DEF Loaders
  <2>4. CASE shared.epoch # loader.epoch
    BY <2>4, <1>3 DEF Warmed, Now
  <2>5. CASE /\ shared.epoch = loader.epoch /\ pending # << >> /\ Head(pending).start = loader.cursor
             /\ loader' = [loader EXCEPT !.run = run, !.round = round, !.cursor = cursor]
    <3>1. loader'.run = run /\ loader'.cursor = cursor
      BY <2>5, <1>2 DEF Loaders
    <3>2. /\ Fed(loader.run.chain, loader.run.frames, Now, loader.cursor)
          /\ Covered(loader.run.chain, shared.recent, dsp.cursor)
          /\ Early(loader.run, shared.recent, dsp.cursor, Now)
          /\ (loader.run.chain.next = None => loader.cursor = 0)
      BY <2>1, <2>5 DEF Warmed, Now
    <3>3. /\ Fed(run.chain, run.frames, Now, dsp.cursor) /\ run.chain.next # None
          /\ Covered(run.chain, shared.recent, dsp.cursor)
          /\ Early(run, shared.recent, dsp.cursor, Now)
          /\ cursor = dsp.cursor
          /\ dsp.cursor > Oldest(shared.recent, dsp.cursor)
      BY <3>2, <2>5, <1>2, WarmedMore DEF run, cursor
    <3> QED BY <3>1, <3>3, <1>2 DEF Warmed
  <2> QED BY <2>2, <2>3, <2>4, <2>5, <1>1
<1>6. LoaderHolds'
  BY <1>4, <1>1, <1>5, <1>3 DEF LoaderFeeds, Now, LoaderHolds
<1>7. loader'.epoch <= Now
  BY <1>3 DEF HeardInv, EpochsHold
<1> QED BY <1>1, <1>6, <1>7, LoaderStep

LEMMA LoaderHeard ==
    ASSUME SwitchAssumption, LimitsAssumption, SwitchTypes, HeardInv,
           LoaderStart \/ LoaderWarm \/ LoaderLook \/ LoaderFails \/ LoaderEnds
    PROVE  HeardInv'
<1>0. loader \in Loaders /\ SharedTypes /\ StateTypes /\ DspTypes
  BY DEF SwitchTypes
<1>1. CASE LoaderFails
  BY <1>1, <1>0, ErrorTypes, LoaderStep DEF LoaderFails, Loaders, StateTypes, HeardInv,
     EpochsHold, LoaderHolds, LoaderFeeds
<1>2. CASE LoaderEnds /\ Superseded
  BY <1>2, <1>0, LoaderStep DEF LoaderEnds, Loaders, HeardInv, EpochsHold, LoaderHolds,
     LoaderFeeds
<1>3. CASE LoaderEnds /\ ~Superseded
  <2> DEFINE one == {loader}
  <2>1. /\ shared' = [shared EXCEPT !.loading = FALSE, !.prepared = one] /\ blocks' = Put(Nudge)
        /\ loader' = [loader EXCEPT !.pc = "off"] /\ UNCHANGED <<results, dsp, state, heard>>
        /\ loader.pc \in {"done", "failed"}
    BY <1>3 DEF LoaderEnds
  <2>2. \A p \in one : p = loader
    OBVIOUS
  <2> HIDE DEF one
  <2>3. shared'.epoch = shared.epoch /\ shared'.recent = shared.recent /\ shared'.prepared = one
    BY <2>1, <1>0 DEF SharedTypes
  <2>4. loader'.pc = "off" /\ loader'.epoch = loader.epoch
    BY <2>1, <1>0 DEF Loaders
  <2>5. Said' = Said
    BY <2>1 DEF Said
  <2>6. Calm
    BY <2>1, <2>3, <2>5, NothingMore DEF Calm
  <2>7. Now' = Now /\ (Unbroken' => Unbroken)
    BY <2>6, CalmIs
  <2>8. EpochsHold'
    BY <2>1, <2>2, <2>3, <2>4, <2>7 DEF HeardInv, EpochsHold
  <2>9. BlocksHold'
    BY <2>1, EventTypes, PutHolds DEF HeardInv
  <2>10. LoaderHolds'
    BY <2>4 DEF LoaderHolds, LoaderFeeds
  <2>11. PreparedHolds'
    BY <2>2, <2>3, <2>7, <2>1 DEF PreparedHolds, HeardInv, LoaderHolds, LoaderFeeds
  <2>12. TakenHolds'
    BY <2>1, <2>6, CalmTaken
  <2> QED BY <2>1, <2>6, <2>8, <2>9, <2>10, <2>11, <2>12, CalmStep
<1> QED BY <1>1, <1>2, <1>3, LoaderStartHeard, LoaderWarmHeard, LoaderLookHeard
-----------------------------------------------------------------------------
\* The worker feeds a warmed chain the rest.
LEMMA FedTheRest ==
    ASSUME SwitchAssumption, LimitsAssumption, NEW recent \in Seq(Pieces), NEW cursor \in Int, NEW e,
           Remembers(recent, cursor, e), NEW r \in Loaders, r.epoch = e, Warmed(r, recent, cursor, e),
           Len(Since(r.cursor, recent)) <= CatchUp,
           NEW fed, fed = Feed(r.run, Since(r.cursor, recent))
    PROVE  /\ Fed(fed.chain, fed.frames, e, cursor)
           /\ Covered(fed.chain, recent, cursor) /\ Early(fed, recent, cursor, e)
           /\ (fed.chain.next = None => recent = << >>)
           /\ (fed.chain.next # None => recent # << >>)
<1> DEFINE run == r.run
           from == r.cursor
           old == Oldest(recent, cursor)
           n == Len(recent)
<1>0. /\ run \in Runs /\ from \in Int /\ run.chain.next \in Int /\ n \in Nat /\ CatchUp < RecentLen
      /\ CatchUp \in Nat /\ RecentLen \in Nat
  BY RunFields DEF Loaders, LimitsAssumption, SwitchAssumption
<1>1. /\ Fed(run.chain, run.frames, e, from)
      /\ Covered(run.chain, recent, cursor) /\ Early(run, recent, cursor, e)
      /\ (run.chain.next = None => from = 0)
      /\ (run.chain.next # None => from <= cursor /\ (n < RecentLen => from > old))
  BY DEF Warmed
<1> PICK input : input = Since(from, recent)
  OBVIOUS
<1>2. fed = Feed(run, input) /\ Len(input) <= CatchUp
  OBVIOUS
<1> HIDE DEF run, from, old, n
<1>3. CASE recent = << >>
  <2>1. run.chain.next = None
    BY <1>1, <1>3 DEF Covered
  <2>2. input \in Seq(Pieces) /\ Len(input) = 0
    <3>1. recent \in Seq(Pieces) /\ Len(recent) = 0
      BY <1>3
    <3>2. /\ input \in Seq(Pieces) /\ Len(input) = Len(recent) - Older(from, recent)
          /\ Older(from, recent) \in 0 .. Len(recent)
      BY SinceIs
    <3> QED BY <3>1, <3>2
  <2>3. input = << >>
    BY <2>2
  <2>4. fed.chain = run.chain /\ fed.frames = run.frames
    BY <2>3, <1>0, <1>1, <1>2, FedNothing
  <2>5. Fed(fed.chain, fed.frames, e, cursor)
    BY <2>1, <2>4, <1>1 DEF Fed
  <2> QED BY <2>1, <2>4, <2>5, <1>3 DEF Covered, Early
<1>4. CASE recent # << >>
  <2>1. /\ n >= 1 /\ old \in Nat /\ old + n = cursor /\ cursor \in Nat
        /\ RowFrom(recent, old) /\ AllOf(recent, e) /\ n <= RecentLen
    BY <1>4, RememberedRow DEF Remembers, n, old
  <2>2. /\ input \in Seq(Pieces) /\ Len(input) <= n
        /\ RowFrom(input, old + (n - Len(input)))
        /\ \A i \in 1 .. Len(input) : input[i] = recent[n - Len(input) + i]
        /\ (input = << >> => cursor <= from)
        /\ (from <= old => Len(input) = n)
        /\ (from > old /\ from <= cursor => old + (n - Len(input)) = from)
    <3>1. RowFrom(recent, old) /\ old \in Int /\ recent \in Seq(Pieces) /\ from \in Int
      BY <1>0, <2>1
    <3>2. input \in Seq(Pieces) /\ Rest(input, recent, old, from)
      BY <3>1, SinceBlocks
    <3>3. Len(recent) = n /\ old + n = cursor
      BY <2>1 DEF n
    <3> QED BY <3>2, <3>3, <1>4 DEF Rest
  <2>3. Len(input) \in Nat
    BY <2>2
  <2> DEFINE first == old + (n - Len(input))
  <2>4. first \in Nat /\ first + Len(input) = cursor
    BY <2>1, <2>2, <2>3, <1>0
  <2>5. AllOf(input, e)
    <3> SUFFICES ASSUME NEW i \in 1 .. Len(input) PROVE input[i].epoch = e
      BY DEF AllOf
    <3>1. n - Len(input) + i \in 1 .. n
      BY <2>2, <2>3, <1>0
    <3> QED BY <3>1, <2>1, <2>2 DEF AllOf, n
  <2>6. run.chain.next = None => first = old /\ input # << >>
    BY <2>1, <2>2, <2>3, <1>0, <1>1
  <2>7. ASSUME run.chain.next # None PROVE first = from
    <3>1. from <= cursor
      BY <2>7, <1>1
    <3>2. from > old
      <4>1. CASE n < RecentLen
        BY <4>1, <2>7, <1>1
      <4>2. CASE n = RecentLen
        BY <4>2, <1>0, <1>2, <2>3, <2>1, <2>2
      <4> QED BY <4>1, <4>2, <2>1, <1>0
    <3> QED BY <3>1, <3>2, <2>2
  <2> HIDE DEF first
  <2>8. CASE input = << >>
    <3>1. run.chain.next # None /\ from = cursor
      BY <2>8, <2>6, <2>2, <2>1, <1>0, <1>1
    <3>2. fed.chain = run.chain /\ fed.frames = run.frames
      BY <2>8, <1>0, <1>1, <1>2, FedNothing
    <3> QED BY <3>1, <3>2, <1>1, <1>4 DEF Early, FirstFrame
  <2>9. CASE input # << >>
    <3>1. GoesOn(run, input, e, from, first)
      BY <2>2, <2>4, <2>5, <2>7, <2>9, <1>1 DEF first, GoesOn
    <3>2. /\ Feed(run, input) \in Runs
          /\ Fed(Feed(run, input).chain, Feed(run, input).frames, e, first + Len(input))
          /\ Feed(run, input).chain.next # None
          /\ (run.chain.next = None => /\ FirstFrame(Feed(run, input)) = first
                                       /\ Feed(run, input).chain.next >= first)
          /\ (run.chain.next # None => /\ FirstFrame(Feed(run, input)) = FirstFrame(run)
                                       /\ Feed(run, input).chain.next >= run.chain.next)
      BY <3>1, <2>2, <1>0, FedMore
    <3>3. /\ fed \in Runs /\ Fed(fed.chain, fed.frames, e, cursor) /\ fed.chain.next # None
          /\ (run.chain.next = None => FirstFrame(fed) = old /\ fed.chain.next >= old)
          /\ (run.chain.next # None => /\ FirstFrame(fed) = FirstFrame(run)
                                       /\ fed.chain.next >= run.chain.next)
      BY <3>2, <2>4, <2>6, <1>2
    <3>4. fed.chain.next \in Int
      BY <3>3, RunFields
    <3>5. Covered(fed.chain, recent, cursor)
      BY <1>4, <1>1, <3>3, <3>4, <2>1, <1>0 DEF Covered, old, n
    <3>6. Early(fed, recent, cursor, e)
      BY <3>3, <2>1, <1>1 DEF Early, old
    <3> QED BY <3>3, <3>5, <3>6, <1>4
  <2> QED BY <2>8, <2>9
<1> QED BY <1>3, <1>4

LEMMA SendHeard ==
    ASSUME SwitchTypes, HeardInv, WorkerSend
    PROVE  HeardInv'
  BY SaidOnItsWay, NothingMore, CalmLoader, CalmPrepared, CalmTaken, CalmStep DEF SwitchTypes,
     WorkerSend, DspTypes, Calm, HeardInv, EpochsHold, BlocksHold, Now

LEMMA ReceiveHeard ==
    ASSUME SwitchTypes, HeardInv, WorkerReceive
    PROVE  HeardInv'
<1>0. DspTypes /\ results \in Seq(Events) /\ blocks \in Seq(Works)
  BY DEF SwitchTypes
<1> DEFINE w == Head(blocks)
<1>1. /\ dsp' = [dsp EXCEPT !.pc = "take", !.work = w] /\ blocks' = Tail(blocks) /\ blocks # << >>
      /\ UNCHANGED <<shared, results, loader, state, heard>>
  BY DEF WorkerReceive
<1>2. w = blocks[1] /\ 1 \in 1 .. Len(blocks)
      /\ \A i \in 1 .. Len(Tail(blocks)) : i + 1 \in 1 .. Len(blocks) /\ Tail(blocks)[i] = blocks[i + 1]
  BY <1>0, <1>1
<1> HIDE DEF w
<1>3. /\ dsp'.chain = dsp.chain /\ dsp'.generation = dsp.generation /\ dsp'.epoch = dsp.epoch
      /\ dsp'.cursor = dsp.cursor /\ dsp'.last = dsp.last /\ dsp'.pc = "take" /\ dsp'.work = w
      /\ dsp'.prepared = dsp.prepared /\ dsp'.seen = dsp.seen /\ dsp'.out = dsp.out
  BY <1>0, <1>1 DEF DspTypes
<1>4. Said' = Said
  BY <1>0, <1>1, <1>3, SaidTheSame
<1>5. Calm
  BY <1>1, <1>3, <1>4, NothingMore DEF Calm
<1>6. EpochsHold'
  BY <1>1, <1>3 DEF HeardInv, EpochsHold, Now
<1>7. BlocksHold'
  BY <1>1, <1>2, <1>3 DEF HeardInv, BlocksHold
<1>8. LoaderHolds' /\ PreparedHolds' /\ TakenHolds'
  BY <1>1, <1>3, <1>5, CalmLoader, CalmPrepared, CalmTaken
<1> QED BY <1>3, <1>5, <1>6, <1>7, <1>8, CalmStep

\* What is taken goes on where the chain that runs ends.
LEMMA TakenReach ==
    ASSUME SwitchAssumption, LimitsAssumption, SwitchTypes, HeardInv, Unbroken,
           NEW p \in shared.prepared, p.pc = "done", NEW c, c = CaughtUp(p), c.pc # "failed"
    PROVE  InReach(c.run, shared.recent, dsp.cursor, Now, Boundary(p), dsp.last)
<1>0. /\ p \in Loaders /\ shared.recent \in Seq(Pieces) /\ dsp.cursor \in Int /\ dsp.last \in Int
      /\ Now \in Nat /\ Remembers(shared.recent, dsp.cursor, Now) /\ p.epoch \in Nat /\ p.epoch <= Now
      /\ p.run \in Runs
  BY HeardFields DEF HeardInv, RecentHolds, EpochsHold, Loaders
<1> DEFINE blank == [chain |-> Reset(p.run.chain), frames |-> << >>]
           pending == Since(p.cursor, shared.recent)
           fed == Feed(p.run, pending)
<1>1. CASE p.epoch # Now
  <2>1. c = [p EXCEPT !.run = blank]
    BY <1>1 DEF CaughtUp, Now
  <2>2. blank.frames = << >> /\ blank.chain.next = None /\ blank.chain.held = << >>
    BY DEF Reset, Chain
  <2> HIDE DEF blank
  <2>3. c.run = blank
    BY <2>1, <1>0 DEF Loaders
  <2>4. ~NothingLost(Now)
    BY <1>0, <1>1 DEF NothingLost
  <2> QED BY <2>2, <2>3, <2>4 DEF InReach, Fed, Covered, Early
<1>2. CASE p.epoch = Now
  <2>1. /\ (Len(pending) > CatchUp => c = [p EXCEPT !.pc = "failed"])
        /\ (~(Len(pending) > CatchUp) => c = [p EXCEPT !.run = fed])
    BY <1>2 DEF CaughtUp, Now
  <2> HIDE DEF fed
  <2>2. ~(Len(pending) > CatchUp)
    BY <2>1, <1>0 DEF Loaders
  <2>3. c.run = fed
    BY <2>1, <2>2, <1>0 DEF Loaders
  <2>4. Len(pending) <= CatchUp
    BY <1>0, SinceIs, <2>2 DEF SwitchAssumption
  <2>5. Warmed(p, shared.recent, dsp.cursor, Now)
    BY DEF HeardInv, PreparedHolds
  <2>6. /\ Fed(fed.chain, fed.frames, Now, dsp.cursor)
        /\ Covered(fed.chain, shared.recent, dsp.cursor) /\ Early(fed, shared.recent, dsp.cursor, Now)
        /\ (fed.chain.next = None => shared.recent = << >>)
        /\ (fed.chain.next # None => shared.recent # << >>)
    BY <2>4, <2>5, <1>0, <1>2, FedTheRest DEF fed
  <2>7. shared.recent # << >> => dsp.cursor # None
    BY <1>0, RememberedRow
  <2>8. /\ (fed.chain.next # None /\ dsp.last # None => Boundary(p) = dsp.last)
        /\ (fed.chain.next # None /\ dsp.last = None => Boundary(p) = dsp.cursor)
    BY <2>6, <2>7 DEF Boundary
  <2> QED BY <2>3, <2>6, <2>8 DEF InReach
<1> QED BY <1>1, <1>2

LEMMA TakeHeard ==
    ASSUME SwitchAssumption, LimitsAssumption, SwitchTypes, HeardInv, WorkerTake
    PROVE  HeardInv'
<1>0. /\ DspTypes /\ SharedTypes /\ StateTypes /\ results \in Seq(Events) /\ Now \in Nat
      /\ Said \in Seq(Events) /\ shared.prepared \in SUBSET Loaders
  BY HeardFields DEF SwitchTypes
<1> DEFINE none == {}
<1>1. /\ shared' = [shared EXCEPT !.prepared = none] /\ dsp.out = << >>
      /\ UNCHANGED <<blocks, results, loader, heard>>
  BY DEF WorkerTake, At
<1>2. shared'.epoch = shared.epoch /\ shared'.recent = shared.recent /\ shared'.prepared = {}
  BY <1>0, <1>1 DEF SharedTypes
<1> HIDE DEF none
\* What all ways of it have in common.
<1>3. ASSUME /\ dsp'.chain = dsp.chain /\ dsp'.generation = dsp.generation /\ dsp'.epoch = dsp.epoch
             /\ dsp'.cursor = dsp.cursor /\ dsp'.last = dsp.last /\ dsp'.work = dsp.work
             /\ state'.active = state.active
             /\ \E more \in Seq(Events) :
                   Said' = Said \o more /\ \A i \in 1 .. Len(more) : more[i].kind = "failed",
             \/ dsp'.pc = "check" /\ dsp'.seen = dsp.seen
             \/ dsp'.pc = "install" /\ dsp'.seen = Now,
             Unbroken => TakenHolds'
      PROVE  HeardInv'
  <2>1. Calm
    BY <1>1, <1>2, <1>3 DEF Calm
  <2>2. Now' = Now /\ (Unbroken' => Unbroken)
    BY <2>1, CalmIs
  <2>3. EpochsHold'
    BY <1>0, <1>3, <2>2, <1>1, <1>2 DEF HeardInv, EpochsHold
  <2>4. BlocksHold'
    BY <1>1, <1>3 DEF HeardInv, BlocksHold
  <2>5. LoaderHolds' /\ PreparedHolds'
    BY <2>1, <1>1, <1>2, CalmLoader, CalmPrepared
  <2>6. TakenHolds'
    BY <2>2, <1>3 DEF TakenHolds
  <2>7. dsp'.pc # "record"
    BY <1>3
  <2> QED BY <2>1, <2>3, <2>4, <2>5, <2>6, <2>7, CalmStep
<1>4. CASE dsp' = [dsp EXCEPT !.pc = "check"] /\ UNCHANGED state
  BY <1>0, <1>4, <1>1, SaidTheSame, <1>3, NothingMore DEF DspTypes, TakenHolds
<1>5. ASSUME NEW p \in shared.prepared, dsp' = [dsp EXCEPT !.pc = "check", !.out = <<Failed(p.generation)>>],
             UNCHANGED state
      PROVE  HeardInv'
  <2> DEFINE x == Failed(p.generation)
             out == <<x>>
  <2>1. x \in Events /\ x.kind = "failed"
    BY <1>0, EventTypes DEF Loaders, Failed
  <2> HIDE DEF x
  <2>2. out \in Seq(Events) /\ \A i \in 1 .. Len(out) : out[i].kind = "failed"
    BY <2>1
  <2>3. dsp' = [dsp EXCEPT !.pc = "check", !.out = out]
    BY <1>5 DEF x
  <2> HIDE DEF out
  <2>4. /\ dsp'.chain = dsp.chain /\ dsp'.generation = dsp.generation /\ dsp'.epoch = dsp.epoch
        /\ dsp'.cursor = dsp.cursor /\ dsp'.last = dsp.last /\ dsp'.work = dsp.work
        /\ dsp'.pc = "check" /\ dsp'.seen = dsp.seen /\ dsp'.out = out
    BY <2>3, <1>0 DEF DspTypes
  <2>5. Said' = Said \o out
    BY <2>4, <1>0, <1>1, SaidMore
  <2>6. TakenHolds'
    BY <2>4 DEF TakenHolds
  <2> QED BY <2>2, <2>4, <2>5, <2>6, <1>3, <1>5
<1>6. ASSUME NEW p \in shared.prepared, NEW c \in {CaughtUp(p), [p EXCEPT !.pc = "failed"]},
             p.pc = "done", StateTypes, state'.active = state.active,
             dsp' = [dsp EXCEPT !.pc = "install", !.boundary = Boundary(p), !.seen = shared.epoch,
                                !.prepared = {c}]
      PROVE  HeardInv'
  <2> DEFINE b == Boundary(p)
             n == shared.epoch
             one == {c}
  <2>1. dsp' = [dsp EXCEPT !.pc = "install", !.boundary = b, !.seen = n, !.prepared = one]
    BY <1>6
  <2>2. \A q \in one : q = c
    OBVIOUS
  <2> HIDE DEF b, n, one
  <2>3. /\ dsp'.chain = dsp.chain /\ dsp'.generation = dsp.generation /\ dsp'.epoch = dsp.epoch
        /\ dsp'.cursor = dsp.cursor /\ dsp'.last = dsp.last /\ dsp'.work = dsp.work
        /\ dsp'.pc = "install" /\ dsp'.seen = n /\ dsp'.boundary = b /\ dsp'.prepared = one
        /\ dsp'.out = dsp.out
    BY <2>1, <1>0 DEF DspTypes
  <2>4. Said' = Said
    BY <2>3, <1>0, <1>1, SaidTheSame
  <2>5. ASSUME Unbroken PROVE TakenHolds'
    <3> SUFFICES ASSUME NEW q \in dsp'.prepared, q.pc # "failed"
                 PROVE  InReach(q.run, shared.recent, dsp.cursor, Now, dsp.boundary, dsp.last)'
      BY DEF TakenHolds
    <3>1. q = c /\ c.pc # "failed"
      BY <2>2, <2>3
    <3>2. c = CaughtUp(p)
      BY <1>0, <3>1, <1>6 DEF Loaders
    <3>3. InReach(c.run, shared.recent, dsp.cursor, Now, b, dsp.last)
      BY <3>1, <3>2, <2>5, <1>6, TakenReach DEF b
    <3> QED BY <3>1, <3>3, <2>3, <1>2 DEF Now
  <2> QED BY <2>3, <2>4, <2>5, <1>3, <1>6, NothingMore DEF n, Now
<1>7. WorkerTake
  OBVIOUS
<1>8. CASE \E p \in shared.prepared, fails \in BOOLEAN :
             /\ p.generation = shared.generation /\ p.pc = "done"
             /\ dsp' = [dsp EXCEPT
                         !.pc = "install", !.boundary = Boundary(p), !.seen = shared.epoch,
                         !.prepared = {IF fails THEN [p EXCEPT !.pc = "failed"] ELSE CaughtUp(p)}]
             /\ IF fails THEN MayFail /\ CountError ELSE UNCHANGED state
  BY <1>8, <1>0, ErrorTypes, <1>6 DEF StateTypes
<1>9. \/ dsp' = [dsp EXCEPT !.pc = "check"] /\ UNCHANGED state
      \/ \E p \in shared.prepared :
           dsp' = [dsp EXCEPT !.pc = "check", !.out = <<Failed(p.generation)>>] /\ UNCHANGED state
      \/ \E p \in shared.prepared, fails \in BOOLEAN :
             /\ p.generation = shared.generation /\ p.pc = "done"
             /\ dsp' = [dsp EXCEPT
                         !.pc = "install", !.boundary = Boundary(p), !.seen = shared.epoch,
                         !.prepared = {IF fails THEN [p EXCEPT !.pc = "failed"] ELSE CaughtUp(p)}]
             /\ IF fails THEN MayFail /\ CountError ELSE UNCHANGED state
  BY <1>7, Zenon DEF WorkerTake
<1> QED BY <1>4, <1>5, <1>8, <1>9
-----------------------------------------------------------------------------
\* The chain in force behind what is no change of it.
LEMMA InForceFar ==
    ASSUME NEW q \in Seq(Events), NEW active, NEW g, NEW i \in 1 .. Len(q) + 1,
           NEW j \in i .. Len(q) + 1, InForce(q, i, active, g),
           \A k \in i .. j - 1 : q[k].kind # "applied"
    PROVE  InForce(q, j, active, g)
  BY DEF InForce

\* What the worker says is of the chain that runs then; a new one is told first.
LEMMA ForceMore ==
    ASSUME SwitchTypes, ForceHolds, NEW more \in Seq(Events), Said' = Said \o more,
           state'.active = state.active, NEW off \in 0 .. 1, off <= Len(more),
           off = 0 => dsp'.generation = dsp.generation,
           \A i \in 1 .. off : more[i].kind = "applied" /\ more[i].generation = dsp'.generation,
           \A i \in off + 1 .. Len(more) :
              /\ more[i].kind # "applied"
              /\ (more[i].kind = "audio" => more[i].generation = dsp'.generation)
    PROVE  ForceHolds'
<1>0. Said \in Seq(Events)
  BY HeardFields
<1> PICK r : r = Said \o more
  OBVIOUS
<1> DEFINE n == Len(Said)
           g == dsp'.generation
<1>1. /\ r \in Seq(Events) /\ Len(r) = n + Len(more) /\ n \in Nat /\ Len(more) \in Nat
      /\ \A i \in 1 .. n : r[i] = Said[i]
      /\ \A k \in 1 .. Len(more) : n + k \in 1 .. Len(r) /\ r[n + k] = more[k]
      /\ off \in Nat
  BY <1>0, Indices
<1>2. \A i \in n + off + 1 .. Len(r) : i - n \in off + 1 .. Len(more) /\ r[i] = more[i - n]
  BY <1>1
<1> HIDE DEF n, g
<1>3. InForce(r, n + off + 1, state.active, g)
  <2>1. CASE off = 0
    BY <1>1, <1>0, InForceMore, <2>1 DEF ForceHolds, n, g
  <2>2. CASE off = 1
    <3>1. 1 \in 1 .. off /\ 1 \in 1 .. Len(more)
      BY <2>2, <1>1
    <3>2. n + 1 \in 1 .. Len(r) /\ r[n + 1] = more[1]
      BY <3>1, <1>1
    <3>3. more[1].kind = "applied" /\ more[1].generation = g
      BY <3>1 DEF g
    <3>4. InForce(r, (n + 1) + 1, state.active, g)
      <4> DEFINE m == n + 1
      <4>1. r \in Seq(Events) /\ m \in 1 .. Len(r) /\ r[m].kind = "applied" /\ r[m].generation = g
        BY <3>2, <3>3, <1>1
      <4> HIDE DEF m
      <4>2. InForce(r, m + 1, state.active, r[m].generation)
        BY <4>1, InForceApplied
      <4> QED BY <4>1, <4>2 DEF m
    <3>5. (n + 1) + 1 = n + off + 1
      BY <2>2, <1>1
    <3> QED BY <3>4, <3>5
  <2> QED BY <2>1, <2>2
<1>4. ASSUME NEW j \in n + off + 1 .. Len(r) + 1 PROVE InForce(r, j, state.active, g)
  <2>1. n + off + 1 \in 1 .. Len(r) + 1
    BY <1>1
  <2>2. \A k \in n + off + 1 .. j - 1 : k \in n + off + 1 .. Len(r)
    BY <1>1
  <2>3. \A k \in n + off + 1 .. j - 1 : r[k].kind # "applied"
    BY <2>2, <1>2
  <2> QED BY <2>1, <2>3, <1>1, <1>3, InForceFar
<1>5. ASSUME NEW i \in 1 .. Len(r), r[i].kind = "audio"
      PROVE  InForce(r, i, state.active, r[i].generation)
  <2>1. CASE i \in 1 .. n
    BY <2>1, <1>1, <1>5, <1>0, InForceMore DEF ForceHolds, n
  <2>2. CASE i \notin 1 .. n
    <3>1. i > n + off
      BY <2>2, <1>1, <1>5
    <3>2. i \in n + off + 1 .. Len(r)
      BY <3>1, <1>1
    <3>3. r[i].generation = g
      BY <3>2, <1>2, <1>5 DEF g
    <3>4. i \in n + off + 1 .. Len(r) + 1
      BY <3>2, <1>1
    <3> QED BY <3>3, <3>4, <1>4
  <2> QED BY <2>1, <2>2
<1>6. InForce(r, Len(r) + 1, state.active, g)
  BY <1>1, <1>4
<1> QED BY <1>5, <1>6 DEF ForceHolds, g

\* A chain that was warmed while nothing is remembered is blank, wherever the worker is.
LEMMA WarmedBlank ==
    ASSUME NEW r, NEW recent, recent = << >>, NEW c1, NEW c2, NEW e, Warmed(r, recent, c1, e)
    PROVE  Warmed(r, recent, c2, e)
BY DEF Warmed, Covered, Early, Fed

LEMMA NothingRemembered ==
    ASSUME SwitchAssumption, NEW recent, recent = << >>, NEW cursor, NEW e
    PROVE  Remembers(recent, cursor, e)
  BY DEF SwitchAssumption, Remembers, RowFrom, AllOf

\* The worker says more, of the epoch there is.
LEMMA MoreEpochs ==
    ASSUME SwitchTypes, HeardInv, shared'.epoch = shared.epoch, heard' = heard,
           NEW more \in Seq(Events), Said' = Said \o more,
           \A i \in 1 .. Len(more) : more[i].kind \in {"audio", "gap"} => more[i].epoch = Now,
           dsp'.epoch # Now => /\ shared'.recent = << >>
                               /\ \A i \in 1 .. Len(Line) : ~IsSound(Line[i], Now)
                               /\ \A i \in 1 .. Len(more) : ~IsSound(more[i], Now)
    PROVE  LineEpochs' /\ Line' = Line \o more /\ Now' = Now
<1>0. /\ Now \in Nat /\ Said \in Seq(Events) /\ Line \in Seq(Events) /\ heard \in Seq(Events)
  BY HeardFields
<1>1. Now' = Now
  BY DEF Now
<1>2. Line' = Line \o more
  BY <1>0, ConcatAssociative DEF Line
<1>3. \A i \in 1 .. Len(Line \o more) :
         \/ i \in 1 .. Len(Line) /\ (Line \o more)[i] = Line[i]
         \/ \E k \in 1 .. Len(more) : (Line \o more)[i] = more[k]
  BY <1>0, Indices
<1>4. \A i \in 1 .. Len(Line \o more) :
         (Line \o more)[i].kind \in {"audio", "gap"} => (Line \o more)[i].epoch <= Now
  <2> DEFINE s == Line \o more
  <2> SUFFICES ASSUME NEW i \in 1 .. Len(s), s[i].kind \in {"audio", "gap"}
               PROVE  s[i].epoch <= Now
    OBVIOUS
  <2> HIDE DEF s
  <2>1. \/ i \in 1 .. Len(Line) /\ s[i] = Line[i]
        \/ \E k \in 1 .. Len(more) : s[i] = more[k]
    BY <1>3 DEF s
  <2>2. ASSUME i \in 1 .. Len(Line), s[i] = Line[i] PROVE s[i].epoch <= Now
    BY <2>2 DEF HeardInv, LineEpochs
  <2>3. ASSUME NEW k \in 1 .. Len(more), s[i] = more[k] PROVE s[i].epoch <= Now
    <3>1. s[i].epoch = Now
      BY <2>3
    <3> QED BY <3>1, <1>0
  <2> QED BY <2>1, <2>2, <2>3
<1>5. \A i \in 1 .. Len(heard) : IsSound(heard[i], Now)
  BY DEF HeardInv, LineEpochs
<1>6. dsp'.epoch # Now => \A i \in 1 .. Len(Line \o more) : ~IsSound((Line \o more)[i], Now)
  BY <1>3
<1>7. LineEpochs'
  BY <1>1, <1>2, <1>4, <1>5, <1>6 DEF LineEpochs
<1> QED BY <1>1, <1>2, <1>7

\* The worker starts afresh: nothing is remembered, and nothing said counts.
LEMMA FreshStep ==
    ASSUME SwitchAssumption, SwitchTypes, HeardInv, shared' = shared, heard' = heard,
           blocks' = blocks, loader' = loader, dsp'.work = dsp.work, dsp'.pc # "install",
           shared.recent = << >>, \A i \in 1 .. Len(Line) : ~IsSound(Line[i], Now),
           NEW more \in Seq(Events), Said' = Said \o more,
           \A i \in 1 .. Len(more) : more[i].kind \in {"applied", "failed"},
           ForceHolds', dsp'.epoch <= Now, dsp'.seen <= Now,
           dsp'.cursor # None => dsp'.cursor >= 0,
           dsp'.pc = "record" => dsp'.work # Nudge /\ dsp'.epoch = dsp'.work.epoch,
           dsp'.epoch = Now => /\ dsp'.chain.next = None /\ dsp'.chain.held = << >>
                               /\ dsp'.cursor = None /\ dsp'.last = None
    PROVE  HeardInv'
<1>0. /\ Now \in Nat /\ Said \in Seq(Events) /\ Line \in Seq(Events) /\ heard \in Seq(Events)
  BY HeardFields
<1>1. /\ \A i \in 1 .. Len(more) : ~IsSound(more[i], Now)
      /\ \A i \in 1 .. Len(more) : more[i].kind \notin {"audio", "gap"}
  BY DEF IsSound
<1>2. LineEpochs' /\ Line' = Line \o more /\ Now' = Now
  BY <1>1, MoreEpochs
<1>3. Unbroken' => Unbroken
  BY <1>0, <1>2, TellsMore DEF Unbroken
<1>4. \A i \in 1 .. Len(Line \o more) : ~IsSound((Line \o more)[i], Now)
  <2>1. \A i \in 1 .. Len(Line \o more) :
           \/ i \in 1 .. Len(Line) /\ (Line \o more)[i] = Line[i]
           \/ \E k \in 1 .. Len(more) : (Line \o more)[i] = more[k]
    BY <1>0, Indices
  <2> QED BY <2>1, <1>1
<1>5. Line \o more \in Seq(Events)
  BY <1>0, Indices
<1>6. /\ InLine(Line \o more, Now)
      /\ \A i \in 1 .. Len(Line \o more) : ~IsFinal(Line \o more, i, Now)
  BY <1>4, <1>5, NothingSounds
<1>7. InLine(Line, Now)' /\ EndHolds'
  BY <1>2, <1>6 DEF EndHolds
<1>8. EpochsHold' /\ BlocksHold'
  BY <1>2 DEF HeardInv, EpochsHold, BlocksHold
<1>9. RecentHolds'
  BY NothingRemembered, <1>2 DEF RecentHolds
<1>10. LoaderHolds' /\ PreparedHolds'
  BY WarmedBlank, <1>2, <1>3 DEF HeardInv, LoaderHolds, LoaderFeeds, PreparedHolds
<1>11. TakenHolds'
  BY DEF TakenHolds
<1>12. ChainHolds'
  BY <1>2 DEF ChainHolds, InTurn, Fed, Covered
<1> QED BY <1>2, <1>7, <1>8, <1>9, <1>10, <1>11, <1>12 DEF HeardInv

\* A gap of the epoch there is: nothing that is said behind it counts.
LEMMA BrokenStep ==
    ASSUME SwitchAssumption, SwitchTypes, HeardInv, shared'.epoch = shared.epoch, heard' = heard,
           blocks' = blocks, loader' = loader, dsp'.work = dsp.work, dsp'.pc # "install",
           \A p \in shared'.prepared : p \in shared.prepared, dsp'.epoch = Now, dsp'.seen <= Now,
           NEW more \in Seq(Events), Said' = Said \o more, 1 \in 1 .. Len(more), Breaks(more[1], Now),
           \A i \in 1 .. Len(more) : more[i].kind # "audio" /\ (more[i].kind = "gap" => more[i].epoch = Now),
           ForceHolds', RecentHolds'
    PROVE  HeardInv'
<1>0. /\ Now \in Nat /\ Said \in Seq(Events) /\ Line \in Seq(Events) /\ heard \in Seq(Events)
  BY HeardFields
<1>1. \A i \in 1 .. Len(more) : ~IsSound(more[i], Now)
  BY DEF IsSound
<1>2. LineEpochs' /\ Line' = Line \o more /\ Now' = Now
  BY MoreEpochs
<1>3. ~Unbroken'
  BY <1>0, <1>2, TellsMore DEF Whole, Unbroken
<1>4. /\ InLine(more, Now) /\ \A i \in 1 .. Len(more) : ~IsFirst(more, i, Now)
  BY <1>1, NothingSounds
<1>5. InLine(Line \o more, Now)
  BY <1>0, <1>4, InLineMore DEF HeardInv
<1>6. EpochsHold'
  BY <1>0, <1>2 DEF HeardInv, EpochsHold
<1>7. BlocksHold'
  BY DEF HeardInv, BlocksHold
<1>8. LoaderHolds'
  BY <1>3 DEF HeardInv, LoaderHolds
<1>9. PreparedHolds' /\ TakenHolds' /\ ChainHolds' /\ EndHolds'
  BY <1>3 DEF PreparedHolds, TakenHolds, ChainHolds, EndHolds
<1>10. InLine(Line, Now)'
  BY <1>2, <1>5
<1> QED BY <1>2, <1>6, <1>7, <1>8, <1>9, <1>10 DEF HeardInv

LEMMA CheckHeard ==
    ASSUME SwitchAssumption, SwitchTypes, HeardInv, WorkerCheck
    PROVE  HeardInv'
<1>0. /\ DspTypes /\ SharedTypes /\ results \in Seq(Events) /\ Now \in Nat /\ Said \in Seq(Events)
      /\ dsp.chain \in Chains
  BY HeardFields DEF SwitchTypes
<1>1. /\ dsp.pc = "check" /\ dsp.out = << >> /\ UNCHANGED <<blocks, results, loader, state, heard>>
      /\ InEpochIs
  BY CheckIs
<1>2. ASSUME dsp.epoch = Now, NEW pc \in {"receive", "record"}, dsp' = [dsp EXCEPT !.pc = pc],
             UNCHANGED shared,
             pc = "record" => /\ dsp.work # Nudge /\ dsp.work.epoch = Now
                              /\ dsp.cursor \in {None, dsp.work.start}
      PROVE  HeardInv'
  BY <1>0, <1>2, <1>1, SaidTheSame, NothingMore, CalmLoader, CalmPrepared, CalmTaken, CalmStep
     DEF DspTypes, Calm, HeardInv, EpochsHold, BlocksHold, Now
<1>3. ASSUME dsp.epoch # Now, NEW pc \in {"receive", "record"},
             dsp' = [InEpoch EXCEPT !.pc = pc], UNCHANGED shared,
             pc = "record" => dsp.work # Nudge /\ dsp.work.epoch = Now
      PROVE  HeardInv'
  <2> DEFINE c == Reset(dsp.chain)
             e == shared.epoch
             n == None
             more == << >>
  <2>1. InEpoch = [dsp EXCEPT !.epoch = e, !.chain = c, !.cursor = n, !.last = n]
    BY <1>1, <1>3 DEF InEpochIs, Now
  <2>2. c.next = None /\ c.held = << >>
    BY DEF Reset, Chain
  <2> HIDE DEF c, e, n
  <2>3. /\ dsp'.chain = c /\ dsp'.generation = dsp.generation /\ dsp'.epoch = e
        /\ dsp'.cursor = n /\ dsp'.last = n /\ dsp'.work = dsp.work
        /\ dsp'.pc = pc /\ dsp'.seen = dsp.seen /\ dsp'.out = dsp.out
    BY <2>1, <1>0, <1>3 DEF DspTypes
  <2>4. Said' = Said
    BY <2>3, <1>0, <1>1, SaidTheSame
  <2>5. ForceHolds'
    BY <2>3, <2>4, <1>1 DEF HeardInv, ForceHolds
  <2>6. /\ shared.recent = << >> /\ \A i \in 1 .. Len(Line) : ~IsSound(Line[i], Now)
    BY <1>3 DEF HeardInv, LineEpochs
  <2>7. more \in Seq(Events) /\ Said' = Said \o more /\ \A i \in 1 .. Len(more) : FALSE
    BY <2>4, <1>0, EmptySeq, ConcatEmptySeq
  <2> HIDE DEF more
  <2>8. dsp'.seen <= Now /\ dsp'.epoch <= Now /\ dsp'.epoch = Now
    BY <2>3, <1>0 DEF HeardInv, EpochsHold, e, Now
  <2>9. dsp'.pc # "install" /\ (dsp'.pc = "record" => dsp'.work # Nudge /\ dsp'.epoch = dsp'.work.epoch)
    BY <2>3, <2>8, <1>3
  <2> QED BY <2>2, <2>3, <2>5, <2>6, <2>7, <2>8, <2>9, <1>1, <1>3, FreshStep DEF n
<1>4. ASSUME dsp.epoch = Now, dsp.work # Nudge, dsp.work.epoch = Now,
             dsp' = [dsp EXCEPT !.pc = "record", !.chain = Reset(dsp.chain), !.last = None,
                                !.out = <<[kind |-> "gap", epoch |-> shared.epoch]>>],
             shared' = [shared EXCEPT !.recent = << >>]
      PROVE  HeardInv'
  <2> DEFINE c == Reset(dsp.chain)
             x == [kind |-> "gap", epoch |-> shared.epoch]
             more == <<x>>
             n == None
             r == << >>
  <2>1. dsp' = [dsp EXCEPT !.pc = "record", !.chain = c, !.last = n, !.out = more]
        /\ shared' = [shared EXCEPT !.recent = r]
    BY <1>4
  <2>2. x \in Events /\ x.kind = "gap" /\ x.epoch = Now
    BY <1>0 DEF Events, Now
  <2> HIDE DEF c, x, n, r
  <2>3. more \in Seq(Events) /\ Len(more) = 1 /\ more[1] = x /\ 1 \in 1 .. Len(more)
        /\ \A i \in 1 .. Len(more) : more[i] = x
    BY <2>2
  <2> HIDE DEF more
  <2>4. /\ dsp'.generation = dsp.generation /\ dsp'.epoch = dsp.epoch
        /\ dsp'.cursor = dsp.cursor /\ dsp'.work = dsp.work
        /\ dsp'.pc = "record" /\ dsp'.seen = dsp.seen /\ dsp'.out = more
    BY <2>1, <1>0 DEF DspTypes
  <2>5. shared'.epoch = shared.epoch /\ shared'.prepared = shared.prepared /\ shared'.recent = << >>
    BY <2>1, <1>0 DEF SharedTypes, r
  <2>6. Said' = Said \o more
    BY <2>4, <1>0, <1>1, SaidMore
  <2>7. Breaks(more[1], Now)
        /\ \A i \in 1 .. Len(more) : more[i].kind # "audio" /\ (more[i].kind = "gap" => more[i].epoch = Now)
    BY <2>2, <2>3 DEF Breaks
  <2>8. ForceHolds'
    BY <1>1, <2>3, <2>2, <2>4, <2>6, ForceMore DEF HeardInv
  <2>9. RecentHolds'
    BY <2>5, NothingRemembered, <2>4, <1>4 DEF HeardInv, RecentHolds
  <2>10. dsp'.epoch = Now /\ dsp'.seen <= Now /\ dsp'.pc # "install"
    BY <2>4, <1>4 DEF HeardInv, EpochsHold
  <2> QED BY <2>3, <2>4, <2>5, <2>6, <2>7, <2>8, <2>9, <2>10, <1>1, BrokenStep
<1>5. CASE dsp.epoch = Now
  BY <1>1, <1>5, CheckIs, <1>2, <1>4 DEF InEpochIs, Now
<1>6. CASE dsp.epoch # Now
  BY <1>1, <1>6, <1>0, CheckIs, <1>3 DEF InEpochIs, Now, DspTypes
<1> QED BY <1>5, <1>6
-----------------------------------------------------------------------------
\* What is kept of the frames of a run, and where it goes on.
Cut(t, run, e, start) ==
    /\ RowFrom(t, run.chain.next - Len(t)) /\ AllNamed(t, e)
    /\ (t # << >> =>
          /\ t[Len(t)].start + 1 = run.chain.next /\ Last(t).start + 1 = run.chain.next
          /\ run.chain.next >= 1 /\ run.chain.next - Len(t) >= start)
    /\ (FirstFrame(run) <= start =>
          /\ (t # << >> => run.chain.next - Len(t) = start)
          /\ (t = << >> => run.chain.next <= start))

LEMMA CutRun ==
    ASSUME SwitchAssumption, NEW run \in Runs, NEW e, NEW cursor, NEW start \in Int,
           Fed(run.chain, run.frames, e, cursor), run.chain.next # None
    PROVE  Since(start, run.frames) \in Seq(Frames) /\ Cut(Since(start, run.frames), run, e, start)
<1> PICK t : t = Since(start, run.frames)
  OBVIOUS
<1> DEFINE s == run.frames
           n == Len(s)
           next == run.chain.next
           f == FirstFrame(run)
<1>0. s \in Seq(Frames) /\ n \in Nat
  BY RunFields
<1>1. next \in Nat /\ n <= next /\ RowFrom(s, next - n) /\ AllNamed(s, e) /\ f = next - n
  BY DEF Fed, FirstFrame
<1>2. f \in Nat /\ f + n = next /\ RowFrom(s, f) /\ (s = << >> => n = 0)
  BY <1>0, <1>1
<1> HIDE DEF s, n, next, f
<1>3. t \in Seq(Frames) /\ Rest(t, s, f, start)
  BY <1>0, <1>2, SinceFrames DEF s
<1>4. /\ Len(t) \in Nat /\ Len(t) <= n
      /\ RowFrom(t, f + (n - Len(t)))
      /\ \A i \in 1 .. Len(t) : t[i] = s[n - Len(t) + i]
      /\ (t = << >> => s = << >> \/ f + n <= start)
      /\ (t # << >> => f + n > start)
      /\ (start <= f => Len(t) = n)
      /\ (start > f /\ start <= f + n => f + (n - Len(t)) = start)
  BY <1>3 DEF Rest, n
<1>5. f + (n - Len(t)) = next - Len(t)
  BY <1>0, <1>1, <1>2, <1>4
<1>6. AllNamed(t, e)
  BY <1>0, <1>4, <1>1 DEF AllNamed, n
<1>7. ASSUME t # << >>
      PROVE  /\ t[Len(t)].start + 1 = next /\ Last(t).start + 1 = next
             /\ next >= 1 /\ next - Len(t) >= start
  <2>1. Len(t) # 0
    BY <1>3, <1>7
  <2>2. Len(t) \in 1 .. Len(t)
    BY <2>1, <1>4
  <2>3. t[Len(t)].start = (next - Len(t)) + Len(t) - 1
    BY <2>2, <1>4, <1>5 DEF RowFrom
  <2>4. t[Len(t)].start + 1 = next
    BY <2>3, <1>1, <1>4
  <2>5. next - Len(t) >= start
    BY <1>0, <1>1, <1>2, <1>4, <1>5, <1>7
  <2>6. next >= 1
    BY <2>1, <1>0, <1>1, <1>4
  <2> QED BY <2>4, <2>5, <2>6 DEF Last
<1>8. ASSUME f <= start
      PROVE  (t # << >> => next - Len(t) = start) /\ (t = << >> => next <= start)
  BY <1>0, <1>2, <1>4, <1>5, <1>8
<1>9. RowFrom(t, next - Len(t))
  BY <1>4, <1>5
<1> QED BY <1>3, <1>6, <1>7, <1>8, <1>9 DEF Cut, next, f

\* A run without its frames.
LEMMA FedAlone ==
    ASSUME SwitchAssumption, NEW run \in Runs, NEW e, NEW cursor, Fed(run.chain, run.frames, e, cursor)
    PROVE  Fed(run.chain, << >>, e, cursor)
  BY DEF Fed, RowFrom, AllNamed

\* They are a row that begins where the line ends, and the worker knows the new end of it.
Onward(t, g, first) ==
    /\ dsp'.generation = g /\ dsp.generation <= g
    /\ RowFrom(t, first) /\ AllNamed(t, Now)
    /\ (t # << >> =>
          /\ dsp'.last = t[Len(t)].start + 1 /\ dsp'.last # None
          /\ dsp'.chain.next # None /\ dsp'.chain.next <= dsp'.last)
    /\ (t = << >> => dsp'.last = dsp.last)
    /\ (t # << >> /\ dsp.last # None =>
          /\ first >= dsp.last
          /\ (NothingLost(Now) => first = dsp.last))
    /\ (g = dsp.generation /\ dsp.last # None /\ dsp.chain.next # None /\ dsp.chain.next <= dsp.last =>
          /\ (t # << >> => first = dsp.last)
          /\ (t = << >> => dsp'.chain.next # None /\ dsp'.chain.next <= dsp'.last))

\* What is said next goes on where the line ends.
LEMMA LineGoesOn ==
    ASSUME SwitchTypes, HeardInv, NEW more \in Seq(Events), Line' = Line \o more, Now' = Now,
           NEW t \in Seq(Frames), NEW off \in 0 .. 1, NEW g \in Nat, NEW first \in Int,
           Tell(more, t, off, g, Now), Unbroken => Onward(t, g, first)
    PROVE  InLine(Line, Now)' /\ EndHolds'
<1>0. /\ Now \in Nat /\ Line \in Seq(Events) /\ dsp.last \in Int /\ dsp.generation \in Nat
  BY HeardFields
<1>1. ASSUME Unbroken
      PROVE  /\ InLine(more, Now)
             /\ \A i \in 1 .. Len(more) : IsFirst(more, i, Now) =>
                  more[i].frame.start = first /\ more[i].generation = g /\ t # << >>
             /\ \A i \in 1 .. Len(more) : IsFinal(more, i, Now) =>
                  /\ more[i].frame = t[Len(t)]
                  /\ more[i].generation = g /\ t # << >>
             /\ (Silent(more, 1, Len(more), Now) => t = << >>)
  BY <1>1, RowInLine DEF Onward
<1>2. ASSUME NEW i \in 1 .. Len(Line), IsFinal(Line, i, Now), Unbroken
      PROVE  /\ EndsWith(Line[i]) /\ Line[i].generation \in Nat /\ Line[i].frame.start \in Int
  <2>1. Line[i] \in Events /\ Line[i].kind = "audio"
    BY <1>0, <1>2 DEF IsFinal, Tells, IsSound
  <2>2. Line[i].generation \in Nat /\ Line[i].frame.start \in Int
    BY <2>1 DEF Events, Answered, Frames
  <2> QED BY <2>2, <1>2 DEF HeardInv, EndHolds
<1>3. ASSUME NEW i \in 1 .. Len(Line), NEW k \in 1 .. Len(more), Unbroken,
             IsFinal(Line, i, Now), IsFirst(more, k, Now)
      PROVE  Follows(Line[i], more[k], Now)
  <2>1. /\ dsp.last = Line[i].frame.start + 1 /\ dsp.last # None
        /\ Line[i].generation <= dsp.generation
        /\ (Line[i].generation = dsp.generation => dsp.chain.next # None /\ dsp.chain.next <= dsp.last)
        /\ Line[i].generation \in Nat /\ Line[i].frame.start \in Int
    BY <1>2, <1>3 DEF EndsWith
  <2>2. more[k].frame.start = first /\ more[k].generation = g /\ t # << >>
    BY <1>1, <1>3
  <2>3. first >= dsp.last /\ (NothingLost(Now) => first = dsp.last) /\ dsp.generation <= g
    BY <2>1, <2>2, <1>3 DEF Onward
  <2>4. Line[i].frame.start < first
    BY <2>1, <2>3
  <2>6. Line[i].generation = g => g = dsp.generation
    BY <2>1, <2>3, <1>0
  <2>7. Line[i].generation = g => first = dsp.last
    BY <2>1, <2>2, <2>6, <1>3 DEF Onward
  <2> QED BY <2>1, <2>2, <2>3, <2>4, <2>7 DEF Follows
<1>4. Unbroken <=> Whole(Line, Now)
  BY DEF Unbroken
<1>5. InLine(Line \o more, Now)
  BY <1>0, <1>1, <1>3, <1>4, InLineMore DEF HeardInv
<1>6. EndHolds'
  <2> SUFFICES ASSUME Unbroken', NEW i \in 1 .. Len(Line'), IsFinal(Line', i, Now')
               PROVE  EndsWith(Line[i])'
    BY DEF EndHolds
  <2>1. i \in 1 .. Len(Line \o more) /\ IsFinal(Line \o more, i, Now) /\ Whole(Line \o more, Now)
    BY DEF Unbroken
  <2>2. Unbroken
    BY <2>1, <1>0, <1>4, TellsMore
  <2>3. \/ \E k \in 1 .. Len(more) : IsFinal(more, k, Now) /\ Line'[i] = more[k]
        \/ /\ Silent(more, 1, Len(more), Now)
           /\ i \in 1 .. Len(Line) /\ IsFinal(Line, i, Now) /\ Line'[i] = Line[i]
    BY <2>1, <2>2, <1>0, <1>4, FinalMore
  <2>4. ASSUME NEW k \in 1 .. Len(more), IsFinal(more, k, Now), Line'[i] = more[k]
        PROVE  EndsWith(Line[i])'
    BY <2>2, <2>4, <1>1 DEF Onward, EndsWith
  <2>5. ASSUME Silent(more, 1, Len(more), Now), i \in 1 .. Len(Line), IsFinal(Line, i, Now),
               Line'[i] = Line[i]
        PROVE  EndsWith(Line[i])'
    BY <2>2, <2>5, <1>1, <1>2, <1>0 DEF EndsWith, Onward
  <2> QED BY <2>3, <2>4, <2>5
<1>7. InLine(Line, Now)'
  BY <1>5
<1> QED BY <1>6, <1>7
-----------------------------------------------------------------------------
\* What is remembered when the worker has worked on one block more.
Later(recent, cursor, rem, c) ==
    /\ rem # << >> /\ Oldest(rem, c) \in Nat /\ c \in Nat
    /\ (recent # << >> => c = cursor + 1 /\ Oldest(rem, c) >= Oldest(recent, cursor))
    /\ (Len(rem) < RecentLen => Len(recent) < RecentLen)
    /\ (Len(rem) < RecentLen /\ recent # << >> => Oldest(rem, c) = Oldest(recent, cursor))

LEMMA RememberedIs ==
    ASSUME SwitchAssumption, LimitsAssumption, NEW recent \in Seq(Pieces), NEW cursor \in Int, NEW e,
           Remembers(recent, cursor, e), NEW work \in Pieces, work.epoch = e, work.start >= 0,
           recent # << >> => work.start = cursor,
           NEW rem, rem = LastOf(Append(recent, work), RecentLen)
    PROVE  /\ Remembers(rem, work.start + 1, e) /\ Later(recent, cursor, rem, work.start + 1)
           /\ Oldest(rem, work.start + 1) <= work.start
<1> DEFINE all == Append(recent, work)
           n == Len(recent)
           w == work.start
           x == Excess(n + 1, RecentLen)
<1>0. n \in Nat /\ w \in Nat /\ RecentLen \in Nat /\ RecentLen >= 1 /\ n <= RecentLen
      /\ (recent = << >> <=> n = 0)
  BY DEF SwitchAssumption, LimitsAssumption, Remembers, Pieces
<1>1. /\ all \in Seq(Pieces) /\ Len(all) = n + 1 /\ all[n + 1] = work
      /\ \A i \in 1 .. n : all[i] = recent[i]
  OBVIOUS
<1> HIDE DEF all
<1>2. /\ rem \in Seq(Pieces) /\ Len(rem) = Len(all) - Excess(Len(all), RecentLen)
      /\ \A i \in 1 .. Len(rem) : rem[i] = all[Excess(Len(all), RecentLen) + i]
  <2>1. rem = LastOf(all, RecentLen)
    BY DEF all
  <2>2. /\ LastOf(all, RecentLen) \in Seq(Pieces)
        /\ Len(LastOf(all, RecentLen)) = Len(all) - Excess(Len(all), RecentLen)
        /\ \A i \in 1 .. Len(LastOf(all, RecentLen)) :
             LastOf(all, RecentLen)[i] = all[Excess(Len(all), RecentLen) + i]
    <3>1. all \in Seq(Pieces) /\ RecentLen \in Nat
      BY <1>0, <1>1
    <3>2. \A s \in Seq(Pieces), count \in Nat :
            /\ LastOf(s, count) \in Seq(Pieces)
            /\ Len(LastOf(s, count)) = Len(s) - Excess(Len(s), count)
            /\ \A i \in 1 .. Len(LastOf(s, count)) : LastOf(s, count)[i] = s[Excess(Len(s), count) + i]
      BY LastOfIs
    <3> QED BY <3>1, <3>2
  <2> QED BY <2>1, <2>2
<1>3. x \in 0 .. 1 /\ (x = 1 => n = RecentLen) /\ (x = 0 => n < RecentLen)
  BY <1>0 DEF Excess
<1>4. Len(rem) = (n + 1) - x /\ \A i \in 1 .. Len(rem) : rem[i] = all[x + i]
  BY <1>1, <1>2
<1> HIDE DEF x
<1>5. recent # << >> => w = cursor /\ RowFrom(recent, w - n) /\ AllOf(recent, e) /\ w - n >= 0
  BY DEF Remembers, Oldest
<1>6. ASSUME NEW i \in 1 .. n + 1 PROVE all[i].start = (w - n) + i - 1 /\ all[i].epoch = e
  <2>1. CASE i = n + 1
    BY <2>1, <1>0, <1>1
  <2>2. CASE i # n + 1
    <3>1. i \in 1 .. n /\ n # 0
      BY <2>2, <1>0
    <3>2. recent[i].start = (w - n) + i - 1 /\ recent[i].epoch = e
      BY <3>1, <1>0, <1>5 DEF RowFrom, AllOf
    <3> QED BY <3>1, <3>2, <1>1
  <2> QED BY <2>1, <2>2
<1>7. Oldest(rem, w + 1) = (w - n) + x
  BY <1>0, <1>3, <1>4 DEF Oldest
<1>8. RowFrom(rem, (w - n) + x) /\ AllOf(rem, e)
  <2> SUFFICES ASSUME NEW i \in 1 .. Len(rem)
               PROVE  rem[i].start = ((w - n) + x) + i - 1 /\ rem[i].epoch = e
    BY DEF RowFrom, AllOf
  <2> DEFINE k == x + i
  <2>1. k \in 1 .. n + 1
    BY <1>0, <1>3, <1>4
  <2>2. rem[i] = all[k]
    BY <1>4
  <2>3. (w - n) + k - 1 = ((w - n) + x) + i - 1
    <3>1. n \in Nat /\ w \in Nat /\ x \in Nat /\ i \in Nat
      BY <1>0, <1>3, <1>4
    <3> HIDE DEF n, w
    <3> QED BY <3>1
  <2> HIDE DEF k
  <2> QED BY <2>1, <2>2, <2>3, <1>6
<1>9. Len(rem) <= RecentLen /\ Len(rem) >= 1 /\ (w - n) + x >= 0
      /\ (w - n) + x <= w
  BY <1>0, <1>5, <1>3, <1>4
<1>10. rem # << >>
  BY <1>9
<1>11. Remembers(rem, w + 1, e)
  BY <1>7, <1>8, <1>9 DEF Remembers
<1>12. Later(recent, cursor, rem, w + 1)
  <2>1. recent # << >> => w + 1 = cursor + 1 /\ (w - n) + x >= cursor - n
    BY <1>0, <1>3, <1>5
  <2>2. Len(rem) < RecentLen => n < RecentLen /\ x = 0
    BY <1>0, <1>3, <1>4
  <2>3. x = 0 => (w - n) + x = w - n
    BY <1>0
  <2>4. (w - n) + x \in Nat /\ w + 1 \in Nat
    BY <1>0, <1>3, <1>9
  <2> QED BY <2>1, <2>2, <2>3, <2>4, <1>5, <1>7, <1>10 DEF Later, Oldest
<1> QED BY <1>7, <1>9, <1>11, <1>12

LEMMA WarmedLater ==
    ASSUME SwitchAssumption, NEW recent \in Seq(Pieces), NEW cursor \in Int, NEW e,
           Remembers(recent, cursor, e), NEW rem \in Seq(Pieces), NEW c \in Int,
           Later(recent, cursor, rem, c), NEW r \in Loaders, Warmed(r, recent, cursor, e)
    PROVE  Warmed(r, rem, c, e)
<1> SUFFICES ASSUME r.epoch = e
             PROVE  /\ Fed(r.run.chain, r.run.frames, e, r.cursor)
                    /\ Covered(r.run.chain, rem, c) /\ Early(r.run, rem, c, e)
                    /\ (r.run.chain.next = None => r.cursor = 0)
                    /\ (r.run.chain.next # None =>
                          r.cursor <= c /\ (Len(rem) < RecentLen => r.cursor > Oldest(rem, c)))
  BY DEF Warmed
<1>1. /\ Fed(r.run.chain, r.run.frames, e, r.cursor)
      /\ Covered(r.run.chain, recent, cursor) /\ Early(r.run, recent, cursor, e)
      /\ (r.run.chain.next = None => r.cursor = 0)
      /\ (r.run.chain.next # None =>
            r.cursor <= cursor /\ (Len(recent) < RecentLen => r.cursor > Oldest(recent, cursor)))
  BY DEF Warmed
<1>2. CASE r.run.chain.next = None
  BY <1>1, <1>2 DEF Covered, Early
<1>3. CASE r.run.chain.next # None
  <2> DEFINE old == Oldest(recent, cursor)
             new == Oldest(rem, c)
             f == FirstFrame(r.run)
             n == r.run.chain.next
  <2>1. recent # << >> /\ (Len(recent) < RecentLen => n >= old)
    BY <1>1, <1>3 DEF Covered
  <2>2. /\ rem # << >> /\ c = cursor + 1 /\ new >= old
        /\ (Len(rem) < RecentLen => Len(recent) < RecentLen /\ new = old)
    BY <2>1 DEF Later
  <2>3. /\ Len(recent) \in Nat /\ Len(rem) \in Nat /\ old \in Int /\ new \in Int /\ n \in Int
        /\ f \in Int /\ r.cursor \in Int /\ Warm \in Nat
    BY RunFields DEF Loaders, Oldest, FirstFrame, SwitchAssumption
  <2>4. Covered(r.run.chain, rem, c)
    BY <2>1, <2>2 DEF Covered
  <2>5. NothingLost(e) => f <= cursor - Warm \/ f <= old
    BY <1>1, <1>3 DEF Early
  <2> HIDE DEF old, new, f, n
  <2>6. NothingLost(e) => f <= c - Warm \/ f <= new
    BY <2>2, <2>3, <2>5
  <2>7. Early(r.run, rem, c, e)
    BY <2>6 DEF Early, f, new
  <2>8. r.cursor <= c /\ (Len(rem) < RecentLen => r.cursor > new)
    BY <1>1, <1>3, <2>2, <2>3 DEF old
  <2> QED BY <2>4, <2>7, <2>8, <1>1, <1>3 DEF new
<1> QED BY <1>2, <1>3

\* The frames of the block that is worked on.
LEMMA RecordedOn ==
    ASSUME SwitchAssumption, SwitchTypes, HeardInv, Unbroken, dsp.pc = "record", dsp.work.epoch = Now,
           dsp'.generation = dsp.generation, dsp'.chain = Recorded.chain, dsp'.last = GivenLast,
           NEW rem \in Seq(Pieces), Later(shared.recent, dsp.cursor, rem, dsp.work.start + 1),
           Oldest(rem, dsp.work.start + 1) <= dsp.work.start
    PROVE  /\ Onward(Given, dsp.generation, Recorded.chain.next - Len(Given))
           /\ InTurn(Recorded.chain, rem, dsp.work.start + 1, GivenLast, Now)
<1> DEFINE w == dsp.work.start
           c == w + 1
           chain == dsp.chain
           last == dsp.last
           run == [chain |-> dsp.chain, frames |-> << >>]
           input == <<dsp.work>>
           next == Recorded.chain.next
           t == Given
           first == next - Len(t)
           recent == shared.recent
           cursor == dsp.cursor
<1>0. /\ dsp.work \in Pieces /\ SharedTypes /\ DspTypes /\ dsp.chain \in Chains /\ dsp.last \in Int
      /\ shared.recent \in Seq(Pieces) /\ dsp.cursor \in Int /\ dsp.epoch = Now
  BY HeardFields DEF SwitchTypes, HeardInv, RecentHolds
<1>1. w \in Nat
  BY <1>0 DEF HeardInv, RecentHolds, BlocksHold, Pieces
<1>2. InTurn(chain, recent, cursor, last, Now) /\ cursor \in {None, w}
  BY <1>0 DEF HeardInv, ChainHolds
<1>3. /\ Recorded \in Runs /\ Recorded.chain \in Chains /\ t \in Seq(Frames) /\ Len(t) \in Nat
      /\ Recorded = Feed(run, input)
  BY <1>0, RecordedTypes DEF Recorded
<1>4. run \in Runs /\ input \in Seq(Pieces) /\ input # << >> /\ Len(input) = 1 /\ input[1] = dsp.work
      /\ run.chain = chain /\ run.frames = << >> /\ Len(run.frames) = 0
  BY <1>0, EmptySeq DEF Runs
<1>5. /\ Fed(chain, << >>, Now, cursor) /\ Covered(chain, recent, cursor)
      /\ (NothingLost(Now) => /\ (cursor # None => recent # << >> /\ chain.next # None)
                              /\ (last # None => chain.next # None /\ chain.next <= last))
  BY <1>2 DEF InTurn
<1>6. chain.next # None => chain.next \in Nat /\ cursor = w
  BY <1>0, <1>5, <1>2 DEF Fed, Chains, None
<1> HIDE DEF run, input, t, next
<1>7. GoesOn(run, input, Now, cursor, w)
  BY <1>1, <1>4, <1>5, <1>6 DEF RowFrom, AllOf, GoesOn
<1>8. /\ Fed(Recorded.chain, Recorded.frames, Now, c) /\ next # None
      /\ (chain.next = None => FirstFrame(Recorded) = w /\ next >= w)
      /\ (chain.next # None => FirstFrame(Recorded) = FirstFrame(run) /\ next >= chain.next)
  <2>1. /\ Fed(Feed(run, input).chain, Feed(run, input).frames, Now, w + Len(input))
        /\ Feed(run, input).chain.next # None
        /\ (run.chain.next = None => /\ FirstFrame(Feed(run, input)) = w
                                     /\ Feed(run, input).chain.next >= w)
        /\ (run.chain.next # None => /\ FirstFrame(Feed(run, input)) = FirstFrame(run)
                                     /\ Feed(run, input).chain.next >= run.chain.next)
    BY <1>4, <1>7, FedMore
  <2>2. Fed(Recorded.chain, Recorded.frames, Now, c)
    BY <2>1, <1>3, <1>4
  <2>3. next = Feed(run, input).chain.next /\ FirstFrame(Recorded) = FirstFrame(Feed(run, input))
    BY <1>3 DEF next
  <2> QED BY <2>1, <2>2, <2>3, <1>4
<1>9. chain.next # None => FirstFrame(Recorded) = chain.next
  BY <1>4, <1>6, <1>8 DEF FirstFrame
<1>10. Cut(t, Recorded, Now, last)
  BY <1>0, <1>3, <1>8, CutRun DEF t, next, Given
<1>11. /\ RowFrom(t, first) /\ AllNamed(t, Now)
       /\ (t # << >> => /\ t[Len(t)].start + 1 = next /\ Last(t).start + 1 = next
                        /\ next >= 1 /\ first >= last)
       /\ (FirstFrame(Recorded) <= last => /\ (t # << >> => first = last)
                                           /\ (t = << >> => next <= last))
  BY <1>10 DEF Cut, next
<1>12. (t = << >> => GivenLast = last) /\ (t # << >> => GivenLast = next)
  BY <1>11 DEF GivenLast, t
<1>13. next \in Nat
  BY <1>8 DEF Fed, next
<1>14. Onward(t, dsp.generation, first)
  BY <1>0, <1>13, DspFields, <1>8, <1>11, <1>12, <1>5, <1>9 DEF next, Onward
<1>15. InTurn(Recorded.chain, rem, c, GivenLast, Now)
  <2>1. Fed(Recorded.chain, << >>, Now, c)
    BY <1>3, <1>8, FedAlone
  <2>2. Covered(Recorded.chain, rem, c)
    BY <1>1, <1>8, <1>13, <1>5, <1>6 DEF Later, Covered, next
  <2>3. ASSUME NothingLost(Now)
        PROVE  /\ (c # None => rem # << >> /\ next # None)
               /\ (GivenLast # None => next # None /\ next <= GivenLast)
    BY <1>8, <1>12, <1>13, <2>3, <1>5, <1>9, <1>11 DEF Later
  <2> QED BY <2>1, <2>2, <2>3 DEF InTurn, next
<1> QED BY <1>14, <1>15 DEF t, next
-----------------------------------------------------------------------------
LEMMA RecordHeard ==
    ASSUME SwitchAssumption, LimitsAssumption, SwitchTypes, HeardInv, WorkerRecord
    PROVE  HeardInv'
<1>0. /\ DspTypes /\ SharedTypes /\ StateTypes /\ results \in Seq(Events) /\ Now \in Nat
      /\ Said \in Seq(Events) /\ Line \in Seq(Events) /\ dsp.generation \in Nat /\ dsp.cursor \in Int
      /\ shared.recent \in Seq(Pieces) /\ dsp.chain \in Chains
  BY HeardFields DEF SwitchTypes
<1>1. /\ dsp.pc = "record" /\ dsp.out = << >> /\ UNCHANGED <<blocks, results, loader, heard>>
  BY RecordIs
<1>2. /\ dsp.work \in Pieces /\ dsp.work # Nudge /\ dsp.epoch = dsp.work.epoch /\ dsp.work.start \in Nat
      /\ (shared.recent # << >> => dsp.work.start = dsp.cursor)
      /\ Remembers(shared.recent, dsp.cursor, Now)
  BY <1>1 DEF SwitchTypes, HeardInv, RecentHolds, BlocksHold, Pieces
<1> DEFINE c == dsp.work.start + 1
           rem == Remembered
<1>3. c \in Nat /\ c \in Int /\ c # None
  BY <1>2 DEF None
<1>4. CASE /\ dsp.work.epoch # Now
           /\ dsp' = [dsp EXCEPT !.pc = "receive", !.cursor = dsp.work.start + 1]
           /\ UNCHANGED <<shared, state>>
  <2> DEFINE more == << >>
  <2>1. dsp' = [dsp EXCEPT !.pc = "receive", !.cursor = c]
    BY <1>4
  <2> HIDE DEF c
  <2>2. /\ dsp'.chain = dsp.chain /\ dsp'.generation = dsp.generation /\ dsp'.epoch = dsp.epoch
        /\ dsp'.cursor = c /\ dsp'.work = dsp.work
        /\ dsp'.pc = "receive" /\ dsp'.seen = dsp.seen /\ dsp'.out = dsp.out
    BY <2>1, <1>0 DEF DspTypes
  <2>3. Said' = Said
    BY <2>2, <1>0, <1>1, SaidTheSame
  <2>4. ForceHolds'
    BY <2>2, <2>3, <1>4 DEF HeardInv, ForceHolds
  <2>5. dsp.epoch # Now /\ shared.recent = << >> /\ \A i \in 1 .. Len(Line) : ~IsSound(Line[i], Now)
    BY <1>2, <1>4 DEF HeardInv, LineEpochs
  <2>6. more \in Seq(Events) /\ Said' = Said \o more /\ \A i \in 1 .. Len(more) : FALSE
    BY <2>3, <1>0, EmptySeq, ConcatEmptySeq
  <2> HIDE DEF more
  <2>7. dsp'.seen <= Now /\ dsp'.epoch <= Now /\ dsp'.epoch # Now /\ dsp'.cursor >= 0
    BY <2>2, <2>5, <1>3 DEF HeardInv, EpochsHold
  <2>8. dsp'.pc # "install" /\ dsp'.pc # "record"
    BY <2>2
  <2>9. shared' = shared /\ heard' = heard /\ blocks' = blocks /\ loader' = loader
    BY <1>1, <1>4
  <2> QED BY <2>2, <2>4, <2>5, <2>6, <2>7, <2>8, <2>9, FreshStep
\* What the other ways have in common: one block more is remembered.
<1>5. ASSUME dsp.work.epoch = Now
      PROVE  /\ rem \in Seq(Pieces) /\ Remembers(rem, c, Now)
             /\ Later(shared.recent, dsp.cursor, rem, c) /\ Oldest(rem, c) <= dsp.work.start
  BY <1>0, <1>2, RecordedTypes, <1>5, RememberedIs DEF Remembered
<1>6. ASSUME dsp.work.epoch = Now, shared'.recent = rem, shared'.epoch = shared.epoch,
             dsp'.cursor = c, dsp'.pc = "receive"
      PROVE  RecentHolds'
  BY <1>3, <1>5, <1>6 DEF Now, RecentHolds
<1>7. CASE /\ dsp.work.epoch = Now /\ shared' = [shared EXCEPT !.recent = Remembered]
           /\ CountError
           /\ dsp' = [dsp EXCEPT !.pc = "receive", !.cursor = dsp.work.start + 1,
                                       !.chain = Reset(dsp.chain), !.last = None,
                                       !.out = <<Gap, Failed(dsp.generation)>>]
  <2> DEFINE x == Gap
             y == Failed(dsp.generation)
             more == <<x, y>>
             chain == Reset(dsp.chain)
             n == None
  <2>1. dsp' = [dsp EXCEPT !.pc = "receive", !.cursor = c, !.chain = chain, !.last = n, !.out = more]
        /\ shared' = [shared EXCEPT !.recent = rem]
    BY <1>7
  <2>2. x \in Events /\ x.kind = "gap" /\ x.epoch = Now /\ y \in Events /\ y.kind = "failed"
    BY <1>0, EventTypes, DspFields, <1>2, <1>7 DEF Failed, Gap
  <2> HIDE DEF x, y, chain, n, c, rem
  <2>3. more \in Seq(Events) /\ Len(more) = 2 /\ more[1] = x /\ 1 \in 1 .. Len(more)
        /\ \A i \in 1 .. Len(more) : more[i] = x \/ more[i] = y
    BY <2>2
  <2> HIDE DEF more
  <2>4. /\ dsp'.generation = dsp.generation /\ dsp'.epoch = dsp.epoch
        /\ dsp'.cursor = c /\ dsp'.work = dsp.work
        /\ dsp'.pc = "receive" /\ dsp'.seen = dsp.seen /\ dsp'.out = more
    BY <2>1, <1>0 DEF DspTypes
  <2>5. shared'.epoch = shared.epoch /\ shared'.prepared = shared.prepared /\ shared'.recent = rem
    BY <2>1, <1>0 DEF SharedTypes
  <2>6. Said' = Said \o more
    BY <2>4, <1>0, <1>1, SaidMore
  <2>7. Breaks(more[1], Now)
        /\ \A i \in 1 .. Len(more) :
             more[i].kind # "audio" /\ more[i].kind # "applied" /\ (more[i].kind = "gap" => more[i].epoch = Now)
    BY <2>2, <2>3 DEF Breaks
  <2>8. state'.active = state.active
    BY <1>0, <1>7, ErrorTypes DEF StateTypes
  <2>9. ForceHolds'
    <3>1. ForceHolds
      BY DEF HeardInv
    <3>2. 0 \in 0 .. 1 /\ 0 <= Len(more) /\ \A i \in 1 .. 0 : FALSE
      BY <2>3
    <3>3. \A i \in 0 + 1 .. Len(more) : more[i].kind # "applied" /\ more[i].kind # "audio"
      BY <2>7
    <3> QED BY <3>1, <3>2, <3>3, <2>3, <2>4, <2>6, <2>8, ForceMore
  <2>10. RecentHolds'
    BY <2>4, <2>5, <1>6, <1>7
  <2>11. dsp'.epoch = Now /\ dsp'.seen <= Now /\ dsp'.pc # "install"
    BY <2>4, <1>2, <1>7 DEF HeardInv, EpochsHold
  <2> QED BY <2>3, <2>4, <2>5, <2>6, <2>7, <2>9, <2>10, <2>11, <1>1, BrokenStep
<1>8. CASE /\ dsp.work.epoch = Now /\ shared' = [shared EXCEPT !.recent = Remembered]
           /\ dsp' = [dsp EXCEPT !.pc = "receive", !.cursor = dsp.work.start + 1,
                                       !.chain = Recorded.chain, !.last = GivenLast,
                                       !.out = GivenAudio]
           /\ UNCHANGED state
  <2> DEFINE chain == Recorded.chain
             more == GivenAudio
             n == GivenLast
             t == Given
             first == Recorded.chain.next - Len(Given)
  <2>1. dsp' = [dsp EXCEPT !.pc = "receive", !.cursor = c, !.chain = chain, !.last = n, !.out = more]
        /\ shared' = [shared EXCEPT !.recent = rem]
    BY <1>8
  <2>2. /\ more \in Seq(Events) /\ Len(more) = Len(t) /\ t \in Seq(Frames) /\ Len(t) \in Nat
        /\ \A i \in 1 .. Len(t) : more[i] = Audio(dsp.generation, Now, t[i])
        /\ first \in Int
    <3>1. /\ Recorded.chain \in Chains /\ t \in Seq(Frames)
          /\ more \in Seq(Events) /\ Len(more) = Len(t)
          /\ \A i \in 1 .. Len(t) : more[i] = Audio(dsp.generation, dsp.epoch, t[i])
      BY <1>0, <1>2, RecordedTypes
    <3> HIDE DEF more, t
    <3>2. Recorded.chain.next \in Int /\ Len(t) \in Nat
      BY <3>1 DEF Chains
    <3> QED BY <3>1, <3>2, <1>2, <1>8 DEF t
  <2> HIDE DEF chain, n, c, rem, more, t, first
  <2>3. /\ dsp'.generation = dsp.generation /\ dsp'.epoch = Now
        /\ dsp'.cursor = c /\ dsp'.work = dsp.work /\ dsp'.chain = chain /\ dsp'.last = n
        /\ dsp'.pc = "receive" /\ dsp'.seen = dsp.seen /\ dsp'.out = more
    BY <2>1, <1>0, <1>2, <1>8 DEF DspTypes
  <2>4. shared'.epoch = shared.epoch /\ shared'.prepared = shared.prepared /\ shared'.recent = rem
    BY <2>1, <1>0 DEF SharedTypes
  <2>5. Said' = Said \o more
    BY <2>3, <1>0, <1>1, SaidMore
  <2>6. \A i \in 1 .. Len(more) :
           more[i].kind = "audio" /\ more[i].epoch = Now /\ more[i].generation = dsp.generation
    <3> SUFFICES ASSUME NEW i \in 1 .. Len(more)
                 PROVE  more[i].kind = "audio" /\ more[i].epoch = Now /\ more[i].generation = dsp.generation
      OBVIOUS
    <3>1. more[i] = Audio(dsp.generation, Now, t[i])
      BY <2>2
    <3> QED BY <3>1 DEF Audio
  <2>7. LineEpochs' /\ Line' = Line \o more /\ Now' = Now
    BY <2>6, <2>3, <1>1, <2>2, <2>4, <2>5, MoreEpochs
  <2>8. Unbroken' => Unbroken
    BY <2>2, <2>7, <1>0, TellsMore DEF Unbroken
  <2>9. ForceHolds'
    <3>1. ForceHolds /\ state'.active = state.active
      BY <1>8 DEF HeardInv
    <3>2. 0 \in 0 .. 1 /\ 0 <= Len(more) /\ \A i \in 1 .. 0 : FALSE
      BY <2>2
    <3>3. \A i \in 0 + 1 .. Len(more) :
             more[i].kind # "applied" /\ (more[i].kind = "audio" => more[i].generation = dsp'.generation)
      BY <2>3, <2>6
    <3> QED BY <3>1, <3>2, <3>3, <2>2, <2>3, <2>5, ForceMore
  <2>10. RecentHolds'
    BY <2>3, <2>4, <1>6, <1>8
  <2>11. EpochsHold'
    BY <1>0, <2>3, <2>4, <2>7, <1>1 DEF HeardInv, EpochsHold
  <2>12. BlocksHold'
    BY <2>3, <1>1 DEF HeardInv, BlocksHold
  <2>13. ASSUME NEW r \in Loaders, Warmed(r, shared.recent, dsp.cursor, Now)
         PROVE  Warmed(r, rem, c, Now)
    BY <2>13, <1>0, <1>2, <1>3, <1>5, <1>8, WarmedLater
  <2>14. LoaderHolds'
    BY HeardFields, <2>8, <1>1, <2>3, <2>4, <2>7, <2>13 DEF HeardInv, LoaderHolds,
       LoaderFeeds
  <2>15. PreparedHolds'
    BY HeardFields, <2>8, <2>3, <2>4, <2>7, <2>13 DEF HeardInv, PreparedHolds
  <2>16. TakenHolds'
    BY <2>3 DEF TakenHolds
  <2>17. ASSUME Unbroken
         PROVE  Onward(t, dsp.generation, first) /\ InTurn(chain, rem, c, n, Now)
    BY <2>3, <2>17, <1>1, <1>5, <1>8, RecordedOn DEF chain, n, c, t, first
  <2>18. ChainHolds'
    BY <2>3, <2>4, <2>7, <2>8, <2>17 DEF ChainHolds
  <2>19. InLine(Line, Now)' /\ EndHolds'
    <3>1. Tell(more, t, 0, dsp.generation, Now)
      BY <2>2 DEF Tell
    <3>2. 0 \in 0 .. 1
      OBVIOUS
    <3> QED BY <3>1, <3>2, <2>2, <2>7, <2>17, <1>0, LineGoesOn
  <2> QED BY <2>7, <2>9, <2>10, <2>11, <2>12, <2>14, <2>15, <2>16, <2>18, <2>19 DEF HeardInv
<1>9. \/ /\ dsp.work.epoch # Now
         /\ dsp' = [dsp EXCEPT !.pc = "receive", !.cursor = dsp.work.start + 1]
         /\ UNCHANGED <<shared, state>>
      \/ /\ dsp.work.epoch = Now /\ shared' = [shared EXCEPT !.recent = Remembered]
         /\ CountError
         /\ dsp' = [dsp EXCEPT !.pc = "receive", !.cursor = dsp.work.start + 1,
                                       !.chain = Reset(dsp.chain), !.last = None,
                                       !.out = <<Gap, Failed(dsp.generation)>>]
      \/ /\ dsp.work.epoch = Now /\ shared' = [shared EXCEPT !.recent = Remembered]
         /\ dsp' = [dsp EXCEPT !.pc = "receive", !.cursor = dsp.work.start + 1,
                                       !.chain = Recorded.chain, !.last = GivenLast,
                                       !.out = GivenAudio]
         /\ UNCHANGED state
  BY RecordIs DEF Now
<1> QED BY <1>4, <1>7, <1>8, <1>9
-----------------------------------------------------------------------------
\* A new chain begins early enough to go on where the last one ends.
LEMMA EarlyEnough ==
    ASSUME SwitchAssumption, LimitsAssumption, NEW recent \in Seq(Pieces), NEW cursor \in Int,
           NEW last \in Int, NEW e, Remembers(recent, cursor, e), NEW chain \in Chains,
           InTurn(chain, recent, cursor, last, e), NEW run \in Runs, Early(run, recent, cursor, e),
           run.chain.next # None, NothingLost(e), last # None
    PROVE  FirstFrame(run) <= last
<1> DEFINE old == Oldest(recent, cursor)
           f == FirstFrame(run)
           n == chain.next
           h == Len(chain.held)
           r == Len(recent)
<1>0. /\ r \in Nat /\ old = cursor - r /\ RecentLen \in Nat /\ Warm \in Nat /\ Warm <= RecentLen
      /\ n \in Int /\ h \in Nat /\ chain.selection \in Selections /\ r <= RecentLen
  BY DEF Chains, SwitchAssumption, LimitsAssumption, Oldest, Remembers
<1>1. f \in Int
  BY RunFields DEF FirstFrame
<1>2. n # None /\ n <= last
  BY DEF InTurn
<1>3. n + h = cursor /\ h <= Delay[chain.selection]
  BY <1>2 DEF InTurn, Fed
<1>4. Delay[chain.selection] <= Warm /\ Delay[chain.selection] \in Nat
  BY <1>0 DEF NothingLost, Prompt, SwitchAssumption
<1>5. r < RecentLen => n >= old
  BY <1>2 DEF InTurn, Covered
<1>6. f <= cursor - Warm \/ f <= old
  BY DEF Early
<1> HIDE DEF old, f, n, h, r
<1>7. n >= cursor - Warm
  BY <1>0, <1>3, <1>4
<1>8. n >= old
  BY <1>5, <1>0, <1>7
<1>9. f <= last
  BY <1>0, <1>1, <1>2, <1>6, <1>7, <1>8
<1> QED BY <1>9 DEF f

\* The frames of the chain that is installed.
LEMMA InstalledOn ==
    ASSUME SwitchAssumption, LimitsAssumption, SwitchTypes, HeardInv, Unbroken, dsp.pc = "install",
           dsp.seen = Now, NEW p \in dsp.prepared, p.pc # "failed", dsp.generation < p.generation,
           dsp'.generation = p.generation, dsp'.chain = NewChain(p), dsp'.last = NewLast(p)
    PROVE  /\ \E first \in Int : Onward(NewFrames(p), p.generation, first)
           /\ InTurn(NewChain(p), shared.recent, dsp.cursor, NewLast(p), Now)
<1> DEFINE t == NewFrames(p)
           run == p.run
           next == p.run.chain.next
           last == dsp.last
           recent == shared.recent
           cursor == dsp.cursor
           g == p.generation
<1>0. /\ p \in Loaders /\ SharedTypes /\ DspTypes /\ dsp.chain \in Chains /\ dsp.last \in Int
      /\ shared.recent \in Seq(Pieces) /\ dsp.cursor \in Int /\ dsp.boundary \in Int
      /\ dsp.generation \in Nat /\ Now \in Nat
      /\ Remembers(recent, cursor, Now) /\ dsp.epoch \in Nat
  BY HeardFields DEF SwitchTypes, HeardInv, RecentHolds
<1>1. p.run \in Runs /\ p.generation \in Nat /\ p.run.chain \in Chains
  BY <1>0, RunFields DEF Loaders
<1>2. /\ NewChain(p) = p.run.chain /\ t = Since(dsp.boundary, p.run.frames)
      /\ (t = << >> => NewLast(p) = last) /\ (t # << >> => NewLast(p) = Last(t).start + 1)
      /\ t \in Seq(Frames) /\ Len(t) \in Nat
  <2>1. t \in Seq(Frames)
    BY <1>0, InstalledTypes
  <2> QED BY <2>1 DEF NewChain, NewFrames, NewLast, Fresh, Now
<1>3. /\ Fed(p.run.chain, p.run.frames, Now, cursor)
      /\ Covered(p.run.chain, recent, cursor) /\ Early(p.run, recent, cursor, Now)
      /\ (NothingLost(Now) /\ next = None => recent = << >>)
      /\ (next # None /\ last # None => dsp.boundary = last)
      /\ (next # None /\ last = None => dsp.boundary = cursor)
  BY DEF HeardInv, TakenHolds, InReach
<1>4. dsp.epoch = Now => InTurn(dsp.chain, recent, cursor, last, Now)
  BY DEF HeardInv, ChainHolds
<1>5. dsp.epoch # Now => recent = << >>
  BY DEF HeardInv, LineEpochs
<1>6. NothingLost(Now) => dsp.epoch = Now
  BY <1>0 DEF HeardInv, EpochsHold, NothingLost
<1>7. ~(g = dsp.generation) /\ dsp.generation <= g /\ dsp'.generation = g
  BY <1>0, <1>1
<1>8. Fed(p.run.chain, << >>, Now, cursor)
  BY <1>1, <1>3, FedAlone
<1> HIDE DEF t, next, g
<1>9. CASE next = None
  <2>1. p.run.frames = << >>
    BY <1>3, <1>9 DEF Fed, next
  <2>2. Len(t) <= 0
    BY <2>1, <1>1, RunFields, SinceIs, <1>2
  <2>3. t = << >> /\ Len(t) = 0
    BY <2>2, <1>2
  <2>4. dsp'.last = last /\ NewLast(p) = last
    BY <2>3, <1>2
  <2>5. RowFrom(t, 0) /\ AllNamed(t, Now)
    BY <2>3 DEF RowFrom, AllNamed
  <2>6. Onward(t, g, 0)
    BY <2>3, <2>4, <2>5, <1>7 DEF Onward
  <2>7. ASSUME NothingLost(Now) PROVE cursor = None /\ last = None
    BY <2>7, <1>3, <1>4, <1>6, <1>9, <1>0 DEF InTurn, Fed, Chains, None
  <2>8. Covered(p.run.chain, recent, cursor)
    BY <1>3
  <2>9. InTurn(NewChain(p), recent, cursor, NewLast(p), Now)
    BY <2>4, <2>7, <2>8, <1>2, <1>8 DEF InTurn
  <2> QED BY <2>6, <2>9 DEF t, g
<1>10. CASE next # None
  <2>1. recent # << >> /\ dsp.epoch = Now
    BY <1>3, <1>5, <1>10 DEF Covered, next
  <2>2. InTurn(dsp.chain, recent, cursor, last, Now)
    BY <2>1, <1>4
  <2> DEFINE first == next - Len(t)
  <2>3. Cut(t, p.run, Now, dsp.boundary)
    BY <1>0, <1>1, <1>2, <1>3, <1>10, CutRun DEF next
  <2>4. next \in Nat
    BY <1>3, <1>10 DEF Fed, next
  <2>5. /\ RowFrom(t, first) /\ AllNamed(t, Now)
        /\ (t # << >> => /\ t[Len(t)].start + 1 = next /\ Last(t).start + 1 = next
                         /\ next >= 1 /\ first >= dsp.boundary)
        /\ (FirstFrame(p.run) <= dsp.boundary => /\ (t # << >> => first = dsp.boundary)
                                                 /\ (t = << >> => next <= dsp.boundary))
    BY <2>3 DEF Cut, next
  <2>6. first \in Int
    BY <2>4, <1>2
  <2> HIDE DEF first
  <2>7. NothingLost(Now) /\ last # None => FirstFrame(p.run) <= last
    BY <2>2, <1>0, <1>1, <1>3, <1>10, EarlyEnough DEF next
  <2>8. dsp'.chain.next = next /\ dsp'.last = NewLast(p) /\ next <= next
    BY <2>4, <1>2 DEF next
  <2>9. t # << >> => /\ dsp'.last = t[Len(t)].start + 1 /\ dsp'.last # None
                     /\ dsp'.chain.next # None /\ dsp'.chain.next <= dsp'.last
    BY <2>5, <2>8, <1>2, <1>10
  <2>10. t = << >> => dsp'.last = last
    BY <2>8, <1>2
  <2>11. t # << >> /\ last # None => first >= last /\ (NothingLost(Now) => first = last)
    BY <2>5, <2>7, <1>3, <1>10
  <2>12. Onward(t, g, first)
    BY <2>5, <2>9, <2>10, <2>11, <1>7 DEF Onward
  <2>13. ASSUME NothingLost(Now)
         PROVE  /\ (cursor # None => recent # << >> /\ next # None)
                /\ (NewLast(p) # None => next # None /\ next <= NewLast(p))
    BY <2>1, <2>5, <2>8, <1>2, <1>10, <2>7, <2>13, <1>3
  <2>14. InTurn(NewChain(p), recent, cursor, NewLast(p), Now)
    BY <2>13, <1>2, <1>3, <1>8 DEF InTurn, next
  <2> QED BY <2>6, <2>12, <2>14 DEF t, g
<1> QED BY <1>9, <1>10
-----------------------------------------------------------------------------
\* The worker goes on without a new chain.
LEMMA NotInstalled ==
    ASSUME SwitchTypes, HeardInv, UNCHANGED <<shared, blocks, loader, state, heard>>,
           dsp'.chain = dsp.chain, dsp'.generation = dsp.generation, dsp'.epoch = dsp.epoch,
           dsp'.cursor = dsp.cursor, dsp'.last = dsp.last, dsp'.work = dsp.work,
           dsp'.seen = dsp.seen, dsp'.pc = "check",
           \E more \in Seq(Events) :
              Said' = Said \o more /\ \A i \in 1 .. Len(more) : more[i].kind = "failed"
    PROVE  HeardInv'
  BY CalmLoader, CalmPrepared, CalmStep DEF Calm, HeardInv, EpochsHold, BlocksHold,
     TakenHolds, Now

LEMMA InstallHeard ==
    ASSUME SwitchAssumption, LimitsAssumption, SwitchTypes, RestInv, HeardInv, WorkerInstall
    PROVE  HeardInv'
<1>0. /\ DspTypes /\ SharedTypes /\ StateTypes /\ results \in Seq(Events) /\ Now \in Nat
      /\ Said \in Seq(Events) /\ Line \in Seq(Events) /\ dsp.generation \in Nat
      /\ dsp.epoch \in Nat /\ dsp.seen \in Nat
  BY HeardFields DEF SwitchTypes
<1>1. dsp.pc = "install" /\ dsp.out = << >>
  BY InstallIs DEF At
<1>2. UNCHANGED <<shared, blocks, results, loader, state, heard>>
  BY DEF WorkerInstall
<1>3. PICK p \in dsp.prepared : Installs(p)
  BY InstallIs
<1>4. p \in Loaders /\ p.generation \in Nat
  BY <1>0, DspFields DEF Loaders
<1> DEFINE none == {}
<1>5. CASE dsp' = [dsp EXCEPT !.pc = "check", !.prepared = {}]
  BY <1>5, <1>0, <1>2, SaidTheSame, NothingMore, NotInstalled DEF DspTypes
<1>6. CASE dsp' = [dsp EXCEPT !.pc = "check", !.prepared = {}, !.out = <<Failed(p.generation)>>]
  <2> DEFINE x == Failed(p.generation)
             out == <<x>>
  <2>1. x \in Events /\ x.kind = "failed"
    BY <1>4, EventTypes DEF Failed
  <2> HIDE DEF x
  <2>2. out \in Seq(Events) /\ \A i \in 1 .. Len(out) : out[i].kind = "failed"
    BY <2>1
  <2>3. dsp' = [dsp EXCEPT !.pc = "check", !.prepared = none, !.out = out]
    BY <1>6 DEF x
  <2> HIDE DEF out, none
  <2>4. /\ dsp'.chain = dsp.chain /\ dsp'.generation = dsp.generation /\ dsp'.epoch = dsp.epoch
        /\ dsp'.cursor = dsp.cursor /\ dsp'.last = dsp.last /\ dsp'.work = dsp.work
        /\ dsp'.pc = "check" /\ dsp'.seen = dsp.seen /\ dsp'.out = out
    BY <2>3, <1>0 DEF DspTypes
  <2>5. Said' = Said \o out
    BY <2>4, <1>0, <1>1, <1>2, SaidMore
  <2> QED BY <2>2, <2>4, <2>5, <1>2, NotInstalled
<1>7. CASE p.generation = shared.generation /\ p.pc # "failed"
           /\ dsp' = [dsp EXCEPT !.pc = "check", !.prepared = {},
                            !.chain = NewChain(p), !.generation = p.generation, !.epoch = shared.epoch,
                            !.cursor = IF shared.epoch # dsp.seen THEN None ELSE dsp.cursor,
                            !.last = NewLast(p), !.out = <<Applied(p)>> \o NewAudio(p)]
  <2> DEFINE c == NewChain(p)
             g == p.generation
             e == shared.epoch
             u == IF shared.epoch # dsp.seen THEN None ELSE dsp.cursor
             l == NewLast(p)
             o == <<Applied(p)>> \o NewAudio(p)
             t == NewFrames(p)
  <2>1. /\ o \in Seq(Events) /\ Len(o) = Len(t) + 1 /\ t \in Seq(Frames) /\ Len(t) \in Nat
        /\ o[1].kind = "applied" /\ o[1].generation = g
        /\ \A i \in 1 .. Len(t) : o[i + 1] = Audio(g, Now, t[i])
    BY <1>0, <1>4, InstalledTypes DEF Applied, Now
  <2>2. dsp' = [dsp EXCEPT !.pc = "check", !.prepared = none, !.chain = c, !.generation = g,
                           !.epoch = e, !.cursor = u, !.last = l, !.out = o]
    BY <1>7
  <2> HIDE DEF none, c, g, e, u, l, o, t
  <2>3. /\ dsp'.out = o /\ dsp'.generation = g /\ dsp'.chain = c /\ dsp'.pc = "check"
        /\ dsp'.epoch = Now /\ dsp'.cursor = u /\ dsp'.last = l /\ dsp'.work = dsp.work
        /\ dsp'.seen = dsp.seen
    BY <2>2, <1>0 DEF DspTypes, e, Now
  <2>4. Said' = Said \o o
    BY <2>3, <1>0, <1>1, <1>2, SaidMore
  <2>5. ASSUME NEW i \in 2 .. Len(o)
        PROVE  o[i].kind = "audio" /\ o[i].epoch = Now /\ o[i].generation = g
    <3> DEFINE k == i - 1
    <3>1. k \in 1 .. Len(t) /\ k + 1 = i
      BY <2>1
    <3> HIDE DEF k
    <3>2. o[k + 1] = Audio(g, Now, t[k])
      BY <3>1, <2>1
    <3> QED BY <3>1, <3>2 DEF Audio
  <2>6. \A i \in 1 .. Len(o) : i = 1 \/ i \in 2 .. Len(o)
    BY <2>1
  <2>7. ForceHolds'
    <3>1. ForceHolds /\ state'.active = state.active
      BY <1>2 DEF HeardInv
    <3>2. PICK off \in 0 .. 1 : off = 1
      OBVIOUS
    <3>3. off <= Len(o) /\ (off = 0 => dsp'.generation = dsp.generation)
          /\ \A i \in 1 .. off : o[i].kind = "applied" /\ o[i].generation = dsp'.generation
      BY <3>2, <2>1, <2>3
    <3>4. \A i \in off + 1 .. Len(o) :
             o[i].kind # "applied" /\ (o[i].kind = "audio" => o[i].generation = dsp'.generation)
      BY <3>2, <2>3, <2>5
    <3> QED BY <3>1, <3>3, <3>4, <2>1, <2>4, ForceMore
  <2>8. CASE shared.epoch # dsp.seen
    <3>1. c = Reset(p.run.chain) /\ t = << >> /\ u = None
      BY <2>8 DEF c, t, u, NewChain, NewFrames
    <3>2. l = None
      BY <2>8 DEF l, NewLast, NewFrames
    <3>3. c.next = None /\ c.held = << >>
      BY <3>1 DEF Reset, Chain
    <3>4. dsp.epoch # Now /\ dsp'.seen <= Now
      BY <2>8, <1>1, <2>3, <1>0 DEF HeardInv, EpochsHold, Now
    <3>5. shared.recent = << >> /\ \A i \in 1 .. Len(Line) : ~IsSound(Line[i], Now)
      BY <3>4 DEF HeardInv, LineEpochs
    <3>6. Len(o) = 1
      BY <3>1, <2>1
    <3>7. \A i \in 1 .. Len(o) : o[i].kind \in {"applied", "failed"}
      BY <3>6, <2>1
    <3>8. /\ shared' = shared /\ heard' = heard /\ blocks' = blocks /\ loader' = loader
          /\ dsp'.work = dsp.work /\ dsp'.pc # "install" /\ dsp'.pc # "record"
          /\ dsp'.epoch <= Now
      BY <2>3, <1>0, <1>2
    <3>9. /\ dsp'.chain.next = None /\ dsp'.chain.held = << >> /\ dsp'.cursor = None
          /\ dsp'.last = None
      BY <3>1, <3>2, <3>3, <2>3
    <3> QED BY <3>4, <3>5, <3>7, <3>8, <3>9, <2>1, <2>4, <2>7, FreshStep
  <2>9. CASE shared.epoch = dsp.seen
    <3>1. dsp.seen = Now /\ u = dsp.cursor
      BY <2>9 DEF u, Now
    <3>2. dsp.generation < g
      <4>1. dsp.generation # shared.generation /\ dsp.generation <= shared.generation
        BY <1>7, <1>1 DEF IsTaken, UnderWay, RestInv, WhatIsAsked, NoneIsLater
      <4>2. shared.generation \in Nat /\ g = shared.generation
        BY <1>0, <1>7, SharedFields DEF g
      <4> QED BY <4>1, <4>2, <1>0
    <3>3. LineEpochs' /\ Line' = Line \o o /\ Now' = Now
      BY <2>1, <2>5, <2>6, <2>3, <1>2, <2>4, MoreEpochs
    <3>4. Unbroken' => Unbroken
      BY <3>3, <2>1, <1>0, TellsMore DEF Unbroken
    <3>5. EpochsHold'
      BY <1>0, <3>3, <2>3, <1>2 DEF HeardInv, EpochsHold
    <3>6. BlocksHold' /\ RecentHolds'
      BY <3>1, <3>3, <2>3, <1>2 DEF HeardInv, BlocksHold, RecentHolds
    <3>7. LoaderHolds' /\ PreparedHolds' /\ TakenHolds'
      BY <3>1, <3>3, <3>4, <2>3, <1>2
         DEF HeardInv, LoaderHolds, LoaderFeeds, PreparedHolds, TakenHolds
    <3>8. ASSUME Unbroken
          PROVE  /\ \E first \in Int : Onward(t, g, first)
                 /\ InTurn(c, shared.recent, dsp.cursor, l, Now)
      BY <3>1, <3>2, <3>8, <2>3, <1>1, <1>7, InstalledOn DEF c, g, l, t
    <3>9. ChainHolds'
      BY <3>1, <3>3, <2>3, <1>2, <3>4, <3>8 DEF ChainHolds
    <3>10. InLine(Line, Now)' /\ EndHolds'
      <4>1. Tell(o, t, 1, g, Now)
        BY <2>1 DEF Tell
      <4>2. 1 \in 0 .. 1 /\ g \in Nat /\ 0 \in Int
        BY <1>4 DEF g
      <4>3. PICK first \in Int : Unbroken => Onward(t, g, first)
        BY <3>8, <4>2
      <4> QED BY <4>1, <4>2, <4>3, <3>3, <2>1, LineGoesOn
    <3> QED BY <3>3, <3>5, <3>6, <3>7, <3>9, <3>10, <2>7 DEF HeardInv
  <2> QED BY <2>8, <2>9
<1> QED BY <1>3, <1>5, <1>6, <1>7 DEF Installs
-----------------------------------------------------------------------------
LEMMA InitHeard ==
    ASSUME SwitchAssumption, SwitchInit
    PROVE  HeardInv
<1>1. PICK first \in Selections : SwitchInit!(first)
  BY DEF SwitchInit
<1>2. Said = << >> /\ Line = << >> /\ Now = 0 /\ heard = << >> /\ blocks = << >>
  BY <1>1 DEF Said, Line, Now
<1>3. /\ \A i \in 1 .. Len(Line) : FALSE
      /\ \A i \in 1 .. Len(Said) : FALSE
      /\ \A i \in 1 .. Len(heard) : FALSE
      /\ \A i \in 1 .. Len(blocks) : FALSE
      /\ Len(Said) + 1 = 1 /\ 1 .. 1 - 1 = {}
  BY <1>2
<1>4. /\ shared.recent = << >> /\ shared.prepared = {} /\ shared.epoch = 0
      /\ dsp.pc = "receive" /\ dsp.work = Nudge /\ dsp.prepared = {} /\ dsp.seen = 0
      /\ dsp.chain = Chain(first) /\ dsp.generation = 0 /\ dsp.epoch = 0 /\ dsp.cursor = None
      /\ dsp.last = None /\ loader.pc = "off" /\ loader.epoch = 0 /\ state.active = 0
  BY <1>1
<1>5. dsp.chain.next = None /\ dsp.chain.held = << >>
  BY <1>4 DEF Chain
<1>6. EpochsHold /\ BlocksHold
  BY <1>2, <1>3, <1>4 DEF EpochsHold, BlocksHold
<1>7. LineEpochs
  BY <1>2, <1>3, <1>4 DEF LineEpochs
<1>8. ForceHolds
  BY <1>3, <1>4 DEF InForce, ForceHolds
<1>9. RecentHolds
  BY <1>4, NothingRemembered DEF RecentHolds
<1>10. LoaderHolds /\ PreparedHolds /\ TakenHolds
  BY <1>4 DEF LoaderHolds, LoaderFeeds, PreparedHolds, TakenHolds
<1>11. ChainHolds
  BY <1>4, <1>5 DEF InTurn, Fed, Covered, ChainHolds
<1>12. EndHolds /\ InLine(Line, Now)
  BY <1>3 DEF EndHolds, InLine
<1> QED BY <1>6, <1>7, <1>8, <1>9, <1>10, <1>11, <1>12 DEF HeardInv
-----------------------------------------------------------------------------
LEMMA HeardStep ==
    ASSUME SwitchAssumption, LimitsAssumption, SwitchTypes, RestInv, HeardInv, [SwitchNext]_switchVars
    PROVE  HeardInv'
<1>1. CASE Capture \/ FlushBlocks \/ \E selection \in Selections : Request(selection)
  BY <1>1, SessionHeard
<1>2. CASE TakeEvent
  BY <1>2, TakeEventHeard
<1>3. CASE LoaderStart \/ LoaderWarm \/ LoaderLook \/ LoaderFails \/ LoaderEnds
  BY <1>3, LoaderHeard
<1>4. CASE WorkerSend
  BY <1>4, SendHeard
<1>5. CASE WorkerReceive
  BY <1>5, ReceiveHeard
<1>6. CASE WorkerTake
  BY <1>6, TakeHeard
<1>7. CASE WorkerInstall
  BY <1>7, InstallHeard
<1>8. CASE WorkerCheck
  BY <1>8, CheckHeard
<1>9. CASE WorkerRecord
  BY <1>9, RecordHeard
<1>10. CASE UNCHANGED switchVars
  <2>1. UNCHANGED <<shared, blocks, results, dsp, loader, state, heard>>
    BY <1>10 DEF switchVars
  <2>2. Said' = Said /\ Line' = Line /\ Now' = Now
    BY <2>1 DEF Said, Line, Now
  <2>3. EpochsHold' /\ LineEpochs' /\ ForceHolds' /\ BlocksHold' /\ RecentHolds'
    BY <2>1, <2>2 DEF HeardInv, EpochsHold, LineEpochs, ForceHolds, BlocksHold, RecentHolds
  <2>4. LoaderHolds' /\ PreparedHolds' /\ TakenHolds' /\ ChainHolds' /\ EndHolds'
    BY <2>1, <2>2 DEF HeardInv, LoaderHolds, LoaderFeeds, PreparedHolds, TakenHolds, ChainHolds,
                      EndHolds, EndsWith, Unbroken
  <2> QED BY <2>2, <2>3, <2>4 DEF HeardInv
<1> QED BY <1>1, <1>2, <1>3, <1>4, <1>5, <1>6, <1>7, <1>8, <1>9, <1>10 DEF SwitchNext

\* What holds of HeardInOrder whatever a chain holds back: the sounds are of this epoch and
\* made of the blocks they are named after, none comes twice, and of one chain none is missing.
EachChainInOrder ==
    \A i \in DOMAIN heard :
        /\ Named(heard[i].frame, shared.epoch)
        /\ i > 1 =>
            /\ heard[i].frame.start > heard[i - 1].frame.start
            /\ heard[i].generation = heard[i - 1].generation =>
                    heard[i].frame.start = heard[i - 1].frame.start + 1

\* In a line of sounds of this epoch each follows the one before it.
LEMMA InLineIsInOrder ==
    ASSUME SwitchTypes, HeardInv
    PROVE  EachChainInOrder /\ (Prompt => HeardInOrder)
<1>0. /\ heard \in Seq(Events) /\ Said \in Seq(Events) /\ Now \in Nat /\ Now = shared.epoch
  BY HeardFields DEF Now
<1>1. /\ Len(heard) \in Nat
      /\ \A i \in 1 .. Len(heard) : i \in 1 .. Len(Line) /\ Line[i] = heard[i]
  BY <1>0, Indices DEF Line
<1>2. \A i \in 1 .. Len(heard) : IsSound(heard[i], Now)
  BY DEF HeardInv, LineEpochs
<1>3. ASSUME NEW i \in 1 .. Len(heard) PROVE Tells(Line, i, Now)
  BY <1>1, <1>2 DEF Tells, IsSound, Breaks
<1>4. ASSUME NEW i \in 1 .. Len(heard)
      PROVE  heard[i].frame.of.start = heard[i].frame.start /\ heard[i].frame.of.epoch = Now
  BY <1>1, <1>3 DEF HeardInv, InLine, Named
<1>5. ASSUME NEW i \in 1 .. Len(heard), i > 1
      PROVE  /\ heard[i].frame.start > heard[i - 1].frame.start
             /\ heard[i].generation = heard[i - 1].generation \/ NothingLost(Now) =>
                     heard[i].frame.start = heard[i - 1].frame.start + 1
  <2> DEFINE k == i - 1
  <2>1. k \in 1 .. Len(heard) /\ k < i /\ k + 1 = i
    BY <1>1, <1>5
  <2> HIDE DEF k
  <2>2. Silent(Line, k + 1, i - 1, Now)
    BY <2>1 DEF Silent
  <2>3. Follows(Line[k], Line[i], Now)
    BY <2>1, <2>2, <1>1, <1>3 DEF HeardInv, InLine
  <2>4. Follows(heard[k], heard[i], Now)
    BY <2>1, <2>3, <1>1
  <2>5. heard[k].frame.start \in Int /\ heard[i].frame.start \in Int
    BY <2>1, <1>0, <1>2 DEF IsSound, Events, Answered, Frames
  <2>6. /\ heard[i].frame.start > heard[k].frame.start
        /\ (heard[k].generation = heard[i].generation \/ NothingLost(Now) =>
              heard[i].frame.start = heard[k].frame.start + 1)
    BY <2>4, <2>5 DEF Follows
  <2> QED BY <2>6 DEF k
<1>6. DOMAIN heard = 1 .. Len(heard)
  BY <1>0
<1>7. EachChainInOrder
  BY <1>0, <1>4, <1>5, <1>6 DEF EachChainInOrder, Named
<1>8. ASSUME Prompt PROVE HeardInOrder
  BY <1>0, <1>4, <1>5, <1>6, <1>8 DEF HeardInOrder, NothingLost
<1> QED BY <1>7, <1>8

\* Everything between the recorder and the session is in line: the blocks that are
\* remembered, what the loader and the lock have a chain from, what the worker is about
\* to install, and what is said and not yet heard.
THEOREM HeardIsInvariant == SwitchSpec => []HeardInv
<1>1. SwitchInit => HeardInv
  BY SwitchAssumption, InitHeard
<1>2. SwitchTypes /\ RestInv /\ HeardInv /\ [SwitchNext]_switchVars => HeardInv'
  BY SwitchAssumption, LimitsAssumption, HeardStep
<1>3. SwitchSpec => [](SwitchTypes /\ RestInv)
  BY SwitchIsInvariant
<1> QED BY <1>1, <1>2, <1>3, PTL DEF SwitchSpec

\* Whatever the chains hold back, nothing is heard of an earlier epoch or under another
\* block's name, none comes twice, and none is missing of one chain (audio_processing.rs:
\* recent, boundary and epoch, in the worker and in the loader).
THEOREM ChainsAreInOrder == SwitchSpec => []EachChainInOrder
<1>1. SwitchTypes /\ HeardInv => EachChainInOrder
  BY InLineIsInOrder
<1> QED BY <1>1, SwitchIsInvariant, HeardIsInvariant, PTL

\* With chains that hold back no more than a new one is warmed with, what the session takes
\* up is in order: every frame is made of the block it is named after and of this epoch,
\* none comes twice, and none is missing, where one chain is at work as well as at a switch,
\* unless the new chain was prepared in an earlier epoch (audio_processing.rs:334-340, what the
\* loader warms a chain with, and :110-176, from where on the worker sends its frames).
THEOREM SoundIsInOrder ==
    ASSUME Prompt
    PROVE  SwitchSpec => []HeardInOrder
<1>1. SwitchTypes /\ HeardInv => HeardInOrder
  BY InLineIsInOrder
<1> QED BY <1>1, SwitchIsInvariant, HeardIsInvariant, PTL

(***************************************************************************)
(* Why the ring of Playback gives the device the stream, nothing that was  *)
(* paused, and never stands still, for every value of the constants.       *)
(*                                                                         *)
(* None of it is inductive. The invariant says where each thread stands:   *)
(* one callback at most owns the ring; what is to be read lies in its      *)
(* place, as the session pushes only whole frames up to a target a frame   *)
(* short of the capacity; what a callback took is the stream unless the    *)
(* floor has passed it; the floor has passed a pause before anything is    *)
(* said to be prepared for the revision after it; and while no request is  *)
(* under way, the session fills, or has filled, for the revision and the   *)
(* target there are.                                                       *)
(***************************************************************************)

\* Where a callback is while it owns the ring.
Owning == {"output", "floor", "active", "ready", "count", "copy", "check", "cleared", "cue",
           "sample", "final", "store"}
\* Where it knows its place in the stream; how much it takes; that nothing was cleared.
Reading == Owning \ {"output", "floor"}
Filling == {"copy", "check", "cleared", "cue", "sample", "final", "store"}
Checked == {"cue", "sample", "final", "store"}

Outputs == [active : BOOLEAN, epoch : Nat]
Words == [active : BOOLEAN, epoch : Nat, generation : Nat, cue : Nat, cursor : Nat]

Locals ==
    [pc : Owning \union {"idle", "grow", "request"}, frames : Nat, owns : BOOLEAN, revision : Nat,
     output : Outputs, read : Nat, count : Nat, cells : Seq(Int), voice : BOOLEAN,
     word : Words \union {[cue |-> 0]}, cue : Nat, tries : Nat, floor : Nat, resumed : Nat,
     cuesBefore : Nat]

Fills ==
    [pc : {"idle", "revision", "clear", "active", "grow", "decode", "request", "play"},
     then : {"idle", "active", "request"}, revision : Nat, wanted : BOOLEAN,
     target : Nat, pushes : Nat, stored : BOOLEAN, word : Words]

Pasts == [heard : Nat, resumed : Nat, cues : Nat, cuesBefore : Nat, events : Nat]

PlaybackTypes ==
    /\ ring \in [0 .. Capacity - 1 -> Int]
    /\ pos \in [read : Nat, write : Nat, floor : Nat]
    /\ aim \in [target : Nat, reserve : Nat]
    /\ rendering \in BOOLEAN /\ revision \in Nat /\ ready \in Nat \union {-1}
    /\ signal \in [pending : BOOLEAN, sent : Nat]
    /\ word \in Words /\ late \in BOOLEAN
    /\ fill \in Fills
    /\ fill.stored => fill.pc \in {"grow", "decode"} /\ fill.pushes > 0
    /\ cb \in [Callbacks -> Locals]
    /\ life \in {"idle", "revise", "request"}
    /\ past \in Pasts

\* One callback owns the ring, and the flag says whether one does.
OneOwns ==
    /\ \A c \in Callbacks : cb[c].pc \in Owning => rendering
    /\ \A c, d \in Callbacks : cb[c].pc \in Owning /\ cb[d].pc \in Owning => c = d

Live == Larger(pos.read, pos.floor)

\* Whole frames of silence and sound fill the ring up to what is reserved, and a
\* frame of which a callback took a part.
Aimed ==
    /\ Prepared <= aim.target /\ aim.target <= MaxTarget
    /\ aim.reserve % Frame = 0 /\ aim.reserve <= MaxTarget /\ aim.reserve <= RoundUp(aim.target)
    /\ fill.pc \in {"grow", "decode"} => fill.target = aim.reserve
    /\ fill.pc \notin {"grow", "decode"} => fill.pushes = 0
    /\ pos.read <= pos.write /\ pos.floor <= pos.write
    /\ Available + fill.pushes * Frame <= aim.reserve + Frame - 1

\* Each place of the ring that is to be read holds its own sample.
Stored ==
    /\ \A p \in Live .. pos.write - 1 : ring[p % Capacity] = p
    /\ fill.stored => \A p \in pos.write .. pos.write + Frame - 1 : ring[p % Capacity] = p

Taken(c) == \A i \in DOMAIN cb[c].cells : cb[c].cells[i] = cb[c].read + i - 1

InStream(c) ==
    /\ cb[c].pc \in Reading => pos.read <= cb[c].read /\ cb[c].read + cb[c].count <= pos.write
    /\ cb[c].pc \in Owning \ Filling => cb[c].count = 0 /\ cb[c].cells = << >> /\ ~cb[c].voice
    /\ cb[c].pc = "copy" => cb[c].voice /\ Len(cb[c].cells) < cb[c].count
    /\ cb[c].pc \in Filling /\ cb[c].voice =>
         \/ Taken(c)
         \/ cb[c].pc \notin Checked /\ cb[c].read < pos.floor
    /\ cb[c].pc \in Checked /\ cb[c].voice => cb[c].floor <= cb[c].read

\* What a callback that owns the ring has taken is the stream, unless the ring was cleared.
TakesStream ==
    past.heard <= pos.read /\ \A c \in Callbacks : InStream(c)

\* The session has cleared the ring for the revision there is.
UpToDate == fill.revision = revision /\ ~(fill.pc = "clear" /\ fill.then = "active")

\* Between a pause that is revised and the next resumption.
Paused == ~word.active /\ life # "revise"

Revised ==
    /\ fill.revision <= revision /\ ready <= revision
    /\ past.resumed <= pos.write
    /\ UpToDate /\ Paused => pos.floor = pos.write
    /\ UpToDate /\ word.active => past.resumed <= pos.floor
    /\ Paused /\ fill.pc \in {"grow", "decode"} => fill.revision < revision
    /\ Paused => ready < revision
    /\ word.active /\ ready = revision => past.resumed <= pos.floor

\* A callback began in the output there is, which was not paused since.
SameOutput(c) == word.active /\ Output = cb[c].output

CueIsNew ==
    /\ word.cue # 0 => word.active /\ past.cuesBefore < word.cue
    /\ past.cuesBefore <= past.cues
    /\ fill.pc = "play" => fill.word.active

ResumedBy(c) ==
    /\ cb[c].revision <= revision
    /\ cb[c].pc \in Owning \ {"output"} =>
         /\ cb[c].output.epoch <= word.epoch
         /\ cb[c].output.active /\ ~word.active => cb[c].output.epoch < word.epoch
    /\ SameOutput(c) =>
         /\ (cb[c].pc \in {"count", "copy"} \/ (cb[c].pc = "check" /\ cb[c].voice))
              /\ cb[c].revision = revision => past.resumed <= pos.floor
         /\ cb[c].pc = "cleared" /\ cb[c].voice => past.resumed <= pos.floor
         /\ cb[c].pc \in Checked \ {"store"} /\ cb[c].voice => past.resumed <= cb[c].read
         /\ cb[c].pc = "final" /\ cb[c].cue # 0 => past.cuesBefore < cb[c].cue
    /\ cb[c].pc \in Owning \ {"final", "store"} => cb[c].cue = 0
    /\ cb[c].pc = "sample" => cb[c].word.cue # 0
    /\ cb[c].pc = "store" => (Sounds(c) => cb[c].resumed <= cb[c].read)
                             /\ (cb[c].cue # 0 => cb[c].cuesBefore < cb[c].cue)

Resumed == \A c \in Callbacks : ResumedBy(c)

\* Nobody is about to ask for a fill, and nobody has.
Quiet ==
    /\ signal.sent = 0 /\ life = "idle"
    /\ \A c \in Callbacks : cb[c].pc \notin {"grow", "request"}

\* Then what the session does, or did last, is for the revision, the target and the
\* content of the ring that there are.
Served ==
    /\ signal.sent = IF signal.pending THEN 1 ELSE 0
    /\ fill.pc = "clear" => fill.then # "idle"
    /\ Quiet =>
         /\ fill.pc \in {"active", "grow", "decode"} \/ (fill.pc = "clear" /\ fill.then = "active")
              => fill.revision = revision
         /\ fill.pc \in {"grow", "decode"} => aim.target <= fill.target
         /\ fill.pc = "decode" => fill.target <= Available + fill.pushes * Frame
         /\ fill.pc \in {"idle", "play"} /\ fill.wanted /\ word.active =>
              aim.target <= Available /\ ready = revision

\* A step of one callback changes some of its locals and none of the others'.
Moved(c, changed) ==
    /\ cb \in [Callbacks -> Locals] /\ cb' \in [Callbacks -> Locals] /\ c \in Callbacks
    /\ \A f \in DOMAIN cb[c] \ changed : cb'[c][f] = cb[c][f]
    /\ \A d \in Callbacks \ {c} : cb'[d] = cb[d]

LEMMA MovesTo ==
    ASSUME cb \in [Callbacks -> Locals], NEW c \in Callbacks, NEW l \in Locals, NEW changed,
           cb' = [cb EXCEPT ![c] = l], \A f \in DOMAIN cb[c] \ changed : l[f] = cb[c][f]
    PROVE  Moved(c, changed) /\ cb'[c] = l
BY DEF Moved

\* What a callback may take, and the sample it takes next.
Count(c) == Smaller(cb[c].frames, Larger(0, pos.write - cb[c].read))
Cell(c) == ring[(cb[c].read + Len(cb[c].cells)) % Capacity]

LEMMA LoadOutputMoves ==
    ASSUME PlaybackTypes, NEW c \in Callbacks, LoadOutput(c)
    PROVE  /\ Moved(c, {"pc", "output"})
           /\ cb[c].pc = "output"
           /\ cb'[c].pc = "floor"
           /\ cb'[c].output = Output
           /\ UNCHANGED sharedVars
<1> DEFINE out == Output
           l == [cb[c] EXCEPT !.pc = "floor", !.output = out]
<1>1. cb' = [To(c, "floor") EXCEPT ![c].output = out] /\ cb[c].pc = "output" /\ UNCHANGED sharedVars
  BY Zenon DEF LoadOutput
<1>2. cb \in [Callbacks -> Locals] /\ cb[c] \in Locals
  BY DEF PlaybackTypes
<1>3. out \in Outputs
  BY <1>1, <1>2 DEF PlaybackTypes, Locals, Owning, Output, Outputs, Words
<1> HIDE DEF out
<1>4. cb' = [cb EXCEPT ![c] = l]
  BY <1>1, <1>2 DEF To
<1>5. /\ l \in Locals
      /\ l.pc = "floor" /\ l.output = out
      /\ \A f \in DOMAIN cb[c] \ {"pc", "output"} : l[f] = cb[c][f]
  BY <1>2, <1>3 DEF Locals, Owning
<1> HIDE DEF l
<1>6. Moved(c, {"pc", "output"}) /\ cb'[c] = l
  BY <1>2, <1>4, <1>5, MovesTo
<1> QED BY <1>1, <1>5, <1>6 DEF out

LEMMA LoadFloorMoves ==
    ASSUME PlaybackTypes, NEW c \in Callbacks, LoadFloor(c)
    PROVE  /\ Moved(c, {"pc", "read"})
           /\ cb[c].pc = "floor"
           /\ cb'[c].pc = "active"
           /\ cb'[c].read = Live
           /\ UNCHANGED sharedVars
<1> DEFINE live == Live
           l == [cb[c] EXCEPT !.pc = "active", !.read = live]
<1>1. cb' = [To(c, "active") EXCEPT ![c].read = live] /\ cb[c].pc = "floor" /\ UNCHANGED sharedVars
  BY Zenon DEF LoadFloor, Live
<1>2. cb \in [Callbacks -> Locals] /\ cb[c] \in Locals
  BY DEF PlaybackTypes
<1>3. live \in Nat
  BY <1>1, <1>2 DEF PlaybackTypes, Locals, Owning, Live, Larger
<1> HIDE DEF live
<1>4. cb' = [cb EXCEPT ![c] = l]
  BY <1>1, <1>2 DEF To
<1>5. /\ l \in Locals
      /\ l.pc = "active" /\ l.read = live
      /\ \A f \in DOMAIN cb[c] \ {"pc", "read"} : l[f] = cb[c][f]
  BY <1>2, <1>3 DEF Locals, Owning
<1> HIDE DEF l
<1>6. Moved(c, {"pc", "read"}) /\ cb'[c] = l
  BY <1>2, <1>4, <1>5, MovesTo
<1> QED BY <1>1, <1>5, <1>6 DEF live

LEMMA LoadActiveMoves ==
    ASSUME PlaybackTypes, NEW c \in Callbacks, LoadActive(c)
    PROVE  /\ Moved(c, {"pc"})
           /\ cb[c].pc = "active"
           /\ cb'[c].pc = IF word.active THEN "ready" ELSE "check"
           /\ UNCHANGED sharedVars
<1> DEFINE pc == IF word.active THEN "ready" ELSE "check"
           l == [cb[c] EXCEPT !.pc = pc]
<1>1. cb' = To(c, pc) /\ cb[c].pc = "active" /\ UNCHANGED sharedVars
  BY Zenon DEF LoadActive
<1>2. cb \in [Callbacks -> Locals] /\ cb[c] \in Locals
  BY DEF PlaybackTypes
<1>3. pc \in Owning
  BY <1>1, <1>2 DEF PlaybackTypes, Locals, Owning
<1> HIDE DEF pc
<1>4. cb' = [cb EXCEPT ![c] = l]
  BY <1>1, <1>2 DEF To
<1>5. /\ l \in Locals
      /\ l.pc = pc
      /\ \A f \in DOMAIN cb[c] \ {"pc"} : l[f] = cb[c][f]
  BY <1>2, <1>3 DEF Locals, Owning
<1> HIDE DEF l
<1>6. Moved(c, {"pc"}) /\ cb'[c] = l
  BY <1>2, <1>4, <1>5, MovesTo
<1> QED BY <1>1, <1>5, <1>6 DEF pc

LEMMA LoadReadyMoves ==
    ASSUME PlaybackTypes, NEW c \in Callbacks, LoadReady(c)
    PROVE  /\ Moved(c, {"pc"})
           /\ cb[c].pc = "ready"
           /\ cb'[c].pc = IF ready = cb[c].revision THEN "count" ELSE "check"
           /\ UNCHANGED sharedVars
<1> DEFINE pc == IF ready = cb[c].revision THEN "count" ELSE "check"
           l == [cb[c] EXCEPT !.pc = pc]
<1>1. cb' = To(c, pc) /\ cb[c].pc = "ready" /\ UNCHANGED sharedVars
  BY Zenon DEF LoadReady
<1>2. cb \in [Callbacks -> Locals] /\ cb[c] \in Locals
  BY DEF PlaybackTypes
<1>3. pc \in Owning
  BY <1>1, <1>2 DEF PlaybackTypes, Locals, Owning
<1> HIDE DEF pc
<1>4. cb' = [cb EXCEPT ![c] = l]
  BY <1>1, <1>2 DEF To
<1>5. /\ l \in Locals
      /\ l.pc = pc
      /\ \A f \in DOMAIN cb[c] \ {"pc"} : l[f] = cb[c][f]
  BY <1>2, <1>3 DEF Locals, Owning
<1> HIDE DEF l
<1>6. Moved(c, {"pc"}) /\ cb'[c] = l
  BY <1>2, <1>4, <1>5, MovesTo
<1> QED BY <1>1, <1>5, <1>6 DEF pc

LEMMA LoadWriteMoves ==
    ASSUME PlaybackTypes, NEW c \in Callbacks, LoadWrite(c)
    PROVE  /\ Moved(c, {"pc", "voice", "count"})
           /\ cb[c].pc = "count"
           /\ cb'[c].pc = IF Count(c) > 0 THEN "copy" ELSE "check"
           /\ (cb'[c].voice <=> TRUE)
           /\ cb'[c].count = Count(c)
           /\ UNCHANGED sharedVars
<1> DEFINE pc == IF Count(c) > 0 THEN "copy" ELSE "check"
           count == Count(c)
           l == [cb[c] EXCEPT !.pc = pc, !.voice = TRUE, !.count = count]
<1>1. cb' = [To(c, pc) EXCEPT ![c].voice = TRUE, ![c].count = count] /\ cb[c].pc = "count" /\ UNCHANGED sharedVars
  BY Zenon DEF LoadWrite, Count
<1>2. cb \in [Callbacks -> Locals] /\ cb[c] \in Locals
  BY DEF PlaybackTypes
<1>3. pc \in Owning /\ count \in Nat
  BY <1>2 DEF PlaybackTypes, Locals, Count, Smaller, Larger, Owning
<1> HIDE DEF pc, count
<1>4. cb' = [cb EXCEPT ![c] = l]
  BY <1>1, <1>2 DEF To
<1>5. /\ l \in Locals
      /\ l.pc = pc /\ l.voice = TRUE /\ l.count = count
      /\ \A f \in DOMAIN cb[c] \ {"pc", "voice", "count"} : l[f] = cb[c][f]
  BY <1>2, <1>3 DEF Locals, Owning
<1> HIDE DEF l
<1>6. Moved(c, {"pc", "voice", "count"}) /\ cb'[c] = l
  BY <1>2, <1>4, <1>5, MovesTo
<1> QED BY <1>1, <1>5, <1>6 DEF pc, count

LEMMA CopySampleMoves ==
    ASSUME PlaybackTypes, NEW c \in Callbacks, CopySample(c)
    PROVE  /\ Moved(c, {"pc", "cells"})
           /\ cb[c].pc = "copy"
           /\ cb'[c].pc = IF Len(cb[c].cells) + 1 < cb[c].count THEN "copy" ELSE "check"
           /\ cb'[c].cells = Append(cb[c].cells, Cell(c))
           /\ UNCHANGED sharedVars
<1> DEFINE pc == IF Len(cb[c].cells) + 1 < cb[c].count THEN "copy" ELSE "check"
           cell == Cell(c)
           l == [cb[c] EXCEPT !.pc = pc, !.cells = Append(cb[c].cells, cell)]
<1>1. cb' = [To(c, pc) EXCEPT ![c].cells = Append(@, cell)] /\ cb[c].pc = "copy" /\ UNCHANGED sharedVars
  BY Zenon DEF CopySample, Cell
<1>2. cb \in [Callbacks -> Locals] /\ cb[c] \in Locals
  BY DEF PlaybackTypes
<1>3. pc \in Owning /\ cell \in Int /\ Append(cb[c].cells, cell) \in Seq(Int)
  <2>1. cb[c].cells \in Seq(Int) /\ Len(cb[c].cells) \in Nat /\ cb[c].read \in Nat
    BY <1>2 DEF Locals
  <2>2. (cb[c].read + Len(cb[c].cells)) % Capacity \in 0 .. Capacity - 1
    BY <2>1, PlaybackAssumption
  <2>3. cell \in Int
    BY <2>2 DEF PlaybackTypes, Cell
  <2> QED BY <2>1, <2>3 DEF Owning
<1> HIDE DEF pc, cell
<1>4. cb' = [cb EXCEPT ![c] = l]
  BY <1>1, <1>2 DEF To
<1>5. /\ l \in Locals
      /\ l.pc = pc /\ l.cells = Append(cb[c].cells, cell)
      /\ \A f \in DOMAIN cb[c] \ {"pc", "cells"} : l[f] = cb[c][f]
  BY <1>2, <1>3 DEF Locals, Owning
<1> HIDE DEF l
<1>6. Moved(c, {"pc", "cells"}) /\ cb'[c] = l
  BY <1>2, <1>4, <1>5, MovesTo
<1> QED BY <1>1, <1>5, <1>6 DEF pc, cell

LEMMA CheckFloorMoves ==
    ASSUME PlaybackTypes, NEW c \in Callbacks, CheckFloor(c)
    PROVE  /\ Moved(c, {"pc", "voice", "floor"})
           /\ cb[c].pc = "cleared"
           /\ cb'[c].pc = "cue"
           /\ (cb'[c].voice <=> cb[c].voice /\ ~Cleared(c))
           /\ cb'[c].floor = pos.floor
           /\ UNCHANGED sharedVars
<1> DEFINE voice == cb[c].voice /\ ~Cleared(c)
           floor == pos.floor
           l == [cb[c] EXCEPT !.pc = "cue", !.voice = voice, !.floor = floor]
<1>1. cb' = [cb EXCEPT ![c] = l] /\ cb[c].pc = "cleared" /\ UNCHANGED sharedVars
  BY DEF CheckFloor
<1>2. cb \in [Callbacks -> Locals] /\ cb[c] \in Locals
  BY DEF PlaybackTypes
<1>3. voice \in BOOLEAN /\ floor \in Nat
  BY <1>2 DEF PlaybackTypes, Locals
<1> HIDE DEF voice, floor
<1>5. /\ l \in Locals
      /\ l.pc = "cue" /\ l.voice = voice /\ l.floor = floor
      /\ \A f \in DOMAIN cb[c] \ {"pc", "voice", "floor"} : l[f] = cb[c][f]
  BY <1>2, <1>3 DEF Locals, Owning
<1> HIDE DEF l
<1>6. Moved(c, {"pc", "voice", "floor"}) /\ cb'[c] = l
  BY <1>1, <1>2, <1>5, MovesTo
<1> QED BY <1>1, <1>5, <1>6 DEF voice, floor

LEMMA CheckOutputMoves ==
    ASSUME PlaybackTypes, NEW c \in Callbacks, CheckOutput(c)
    PROVE  /\ Moved(c, {"pc", "voice", "cue", "resumed", "cuesBefore"})
           /\ cb[c].pc = "final"
           /\ cb'[c].pc = "store"
           /\ (cb'[c].voice <=> cb[c].voice /\ SameOutput(c))
           /\ cb'[c].cue = IF SameOutput(c) THEN cb[c].cue ELSE 0
           /\ cb'[c].resumed = past.resumed
           /\ cb'[c].cuesBefore = past.cuesBefore
           /\ UNCHANGED sharedVars
<1> DEFINE same == Output = cb[c].output /\ word.active
           voice == cb[c].voice /\ same
           cue == IF same THEN cb[c].cue ELSE 0
           resumed == past.resumed
           before == past.cuesBefore
           l == [cb[c] EXCEPT !.pc = "store", !.voice = voice, !.cue = cue,
                              !.resumed = resumed, !.cuesBefore = before]
<1>1. cb' = [cb EXCEPT ![c] = l] /\ cb[c].pc = "final" /\ UNCHANGED sharedVars
  BY DEF CheckOutput
<1>2. cb \in [Callbacks -> Locals] /\ cb[c] \in Locals
  BY DEF PlaybackTypes
<1>3. voice \in BOOLEAN /\ cue \in Nat /\ resumed \in Nat /\ before \in Nat
  BY <1>2 DEF Locals, PlaybackTypes, Pasts
<1>4. same <=> SameOutput(c)
  BY DEF SameOutput
<1> HIDE DEF voice, cue, resumed, before
<1>5. /\ l \in Locals
      /\ l.pc = "store" /\ l.voice = voice /\ l.cue = cue /\ l.resumed = resumed /\ l.cuesBefore = before
      /\ \A f \in DOMAIN cb[c] \ {"pc", "voice", "cue", "resumed", "cuesBefore"} : l[f] = cb[c][f]
  BY <1>2, <1>3 DEF Locals, Owning
<1> HIDE DEF l
<1>6. Moved(c, {"pc", "voice", "cue", "resumed", "cuesBefore"}) /\ cb'[c] = l
  BY <1>1, <1>2, <1>5, MovesTo
<1> QED BY <1>1, <1>4, <1>5, <1>6 DEF voice, cue, resumed, before

LEMMA StoreReadMoves ==
    ASSUME PlaybackTypes, NEW c \in Callbacks, StoreRead(c)
    PROVE  /\ Moved(c, {"pc"})
           /\ cb[c].pc = "store"
           /\ cb'[c].pc = "grow"
           /\ UNCHANGED <<ring, aim, revision, ready, signal, word, late, fill, life>>
<1> DEFINE l == [cb[c] EXCEPT !.pc = "grow"]
<1>1. cb' = To(c, "grow") /\ cb[c].pc = "store" /\ UNCHANGED <<ring, aim, revision, ready, signal, word, late, fill, life>>
  BY Zenon DEF StoreRead
<1>2. cb \in [Callbacks -> Locals] /\ cb[c] \in Locals
  BY DEF PlaybackTypes
<1>4. cb' = [cb EXCEPT ![c] = l]
  BY <1>1, <1>2 DEF To
<1>5. /\ l \in Locals
      /\ l.pc = "grow"
      /\ \A f \in DOMAIN cb[c] \ {"pc"} : l[f] = cb[c][f]
  BY <1>2 DEF Locals, Owning
<1> HIDE DEF l
<1>6. Moved(c, {"pc"}) /\ cb'[c] = l
  BY <1>2, <1>4, <1>5, MovesTo
<1> QED BY <1>1, <1>5, <1>6

LEMMA GrowTargetMoves ==
    ASSUME PlaybackTypes, NEW c \in Callbacks, GrowTarget(c)
    PROVE  /\ Moved(c, {"pc"})
           /\ cb[c].pc = "grow"
           /\ cb'[c].pc = "request"
           /\ UNCHANGED <<ring, pos, rendering, revision, ready, signal, word, late, fill, life, past>>
<1> DEFINE l == [cb[c] EXCEPT !.pc = "request"]
<1>1. cb' = To(c, "request") /\ cb[c].pc = "grow" /\ UNCHANGED <<ring, pos, rendering, revision, ready, signal, word, late, fill, life, past>>
  BY Zenon DEF GrowTarget
<1>2. cb \in [Callbacks -> Locals] /\ cb[c] \in Locals
  BY DEF PlaybackTypes
<1>4. cb' = [cb EXCEPT ![c] = l]
  BY <1>1, <1>2 DEF To
<1>5. /\ l \in Locals
      /\ l.pc = "request"
      /\ \A f \in DOMAIN cb[c] \ {"pc"} : l[f] = cb[c][f]
  BY <1>2 DEF Locals, Owning
<1> HIDE DEF l
<1>6. Moved(c, {"pc"}) /\ cb'[c] = l
  BY <1>2, <1>4, <1>5, MovesTo
<1> QED BY <1>1, <1>5, <1>6

LEMMA CheckRevisionMoves ==
    ASSUME PlaybackTypes, NEW c \in Callbacks, CheckRevision(c)
    PROVE  /\ Moved(c, {"pc", "voice"})
           /\ cb[c].pc = "check"
           /\ \/ cb'[c].pc = "cue" /\ ~cb'[c].voice
              \/ revision = cb[c].revision /\ cb'[c].pc = "cleared" /\ cb'[c].voice = cb[c].voice
           /\ UNCHANGED sharedVars
<1>1. cb \in [Callbacks -> Locals] /\ cb[c] \in Locals
  BY DEF PlaybackTypes
<1>2. CASE revision # cb[c].revision
  <2> DEFINE l == [cb[c] EXCEPT !.pc = "cue", !.voice = FALSE]
  <2>1. cb' = [cb EXCEPT ![c] = l]
    BY <1>1, <1>2 DEF CheckRevision, To
  <2>2. /\ l \in Locals /\ l.pc = "cue" /\ ~l.voice
        /\ \A f \in DOMAIN cb[c] \ {"pc", "voice"} : l[f] = cb[c][f]
    BY <1>1 DEF Locals, Owning
  <2> HIDE DEF l
  <2>3. Moved(c, {"pc", "voice"}) /\ cb'[c] = l
    BY <1>1, <2>1, <2>2, MovesTo
  <2> QED BY <2>2, <2>3 DEF CheckRevision
<1>3. CASE revision = cb[c].revision
  BY <1>1, <1>3, MovesTo DEF CheckRevision, To, Locals, Owning
<1> QED BY <1>2, <1>3

LEMMA LoadCueMoves ==
    ASSUME PlaybackTypes, NEW c \in Callbacks, LoadCue(c)
    PROVE  /\ Moved(c, {"pc", "word", "tries"})
           /\ cb[c].pc = "cue"
           /\ \/ cb'[c].pc = "sample" /\ word.cue # 0 /\ cb'[c].word = word
              \/ cb'[c].pc = "final"
           /\ UNCHANGED sharedVars
<1>1. cb \in [Callbacks -> Locals] /\ cb[c] \in Locals /\ word \in Words /\ cb[c].tries + 1 \in Nat
  BY DEF PlaybackTypes, Locals
<1> DEFINE plays == cb[c].output.active /\ Output = cb[c].output /\ word.cue # 0 /\ cb[c].tries < 2
<1>2. CASE plays
  <2> DEFINE tries == cb[c].tries + 1
             l == [cb[c] EXCEPT !.pc = "sample", !.word = word, !.tries = tries]
  <2>1. cb' = [cb EXCEPT ![c] = l]
    BY <1>1, <1>2 DEF LoadCue, To
  <2> HIDE DEF tries
  <2>2. /\ l \in Locals /\ l.pc = "sample" /\ l.word = word
        /\ \A f \in DOMAIN cb[c] \ {"pc", "word", "tries"} : l[f] = cb[c][f]
    BY <1>1 DEF Locals, Owning, tries
  <2> HIDE DEF l
  <2>3. Moved(c, {"pc", "word", "tries"}) /\ cb'[c] = l
    BY <1>1, <2>1, <2>2, MovesTo
  <2> QED BY <1>2, <2>2, <2>3 DEF LoadCue
<1>3. CASE ~plays
  BY <1>1, <1>3, MovesTo DEF LoadCue, To, Locals, Owning
<1> QED BY <1>2, <1>3

LEMMA SampleCueMoves ==
    ASSUME PlaybackTypes, NEW c \in Callbacks, SampleCue(c)
    PROVE  /\ Moved(c, {"pc", "cue"})
           /\ cb[c].pc = "sample"
           /\ \/ /\ word = cb[c].word /\ word' = AfterSample(word)
                 /\ cb'[c].pc = "final" /\ cb'[c].cue \in {0, word.cue}
              \/ UNCHANGED word /\ cb'[c].pc \in {"final", "cue"} /\ cb'[c].cue = cb[c].cue
           /\ UNCHANGED <<ring, pos, aim, rendering, revision, ready, signal, late, fill, life, past>>
<1>1. cb \in [Callbacks -> Locals] /\ cb[c] \in Locals /\ word \in Words /\ word.cue \in Nat
  BY DEF PlaybackTypes, Words
<1>2. CASE word = cb[c].word
  <2> DEFINE cue == IF late THEN 0 ELSE word.cue
             l == [cb[c] EXCEPT !.pc = "final", !.cue = cue]
  <2>1. cb' = [cb EXCEPT ![c] = l] /\ word' = AfterSample(word)
    BY <1>1, <1>2 DEF SampleCue, To
  <2>2. cue \in Nat /\ cue \in {0, word.cue}
    BY <1>1
  <2> HIDE DEF cue
  <2>3. /\ l \in Locals /\ l.pc = "final" /\ l.cue = cue
        /\ \A f \in DOMAIN cb[c] \ {"pc", "cue"} : l[f] = cb[c][f]
    BY <1>1, <2>2 DEF Locals, Owning
  <2> HIDE DEF l
  <2>4. Moved(c, {"pc", "cue"}) /\ cb'[c] = l
    BY <1>1, <2>1, <2>3, MovesTo
  <2> QED BY <1>2, <2>1, <2>2, <2>3, <2>4 DEF SampleCue
<1>3. CASE word # cb[c].word
  <2> DEFINE pc == IF late THEN "final" ELSE "cue"
             l == [cb[c] EXCEPT !.pc = pc]
  <2>1. cb' = [cb EXCEPT ![c] = l] /\ word' = word
    BY <1>1, <1>3 DEF SampleCue, To
  <2>2. pc \in {"final", "cue"}
    OBVIOUS
  <2> HIDE DEF pc
  <2>3. /\ l \in Locals /\ l.pc = pc /\ l.cue = cb[c].cue
        /\ \A f \in DOMAIN cb[c] \ {"pc", "cue"} : l[f] = cb[c][f]
    BY <1>1, <2>2 DEF Locals, Owning
  <2> HIDE DEF l
  <2>4. Moved(c, {"pc", "cue"}) /\ cb'[c] = l
    BY <1>1, <2>1, <2>3, MovesTo
  <2> QED BY <2>1, <2>2, <2>3, <2>4 DEF SampleCue
<1> QED BY <1>2, <1>3

LEMMA SilenceIsLocal ==
    /\ Silence \in Locals /\ Silence.pc = "idle" /\ Silence.count = 0 /\ Silence.cells = << >>
    /\ ~Silence.voice /\ Silence.cue = 0 /\ Silence.revision = 0
  BY DEF Silence, Locals, Outputs, Owning

LEMMA BeginMoves ==
    ASSUME PlaybackTypes, NEW c \in Callbacks, NEW frames \in Sizes, Begin(c, frames)
    PROVE  /\ Moved(c, DOMAIN cb[c])
           /\ cb[c].pc = "idle" /\ cb'[c].pc = IF rendering THEN "grow" ELSE "output"
           /\ cb'[c].revision = revision /\ cb'[c].count = 0 /\ cb'[c].cells = << >>
           /\ ~cb'[c].voice /\ cb'[c].cue = 0
           /\ rendering' = TRUE /\ past' = [past EXCEPT !.events = @ + 2]
           /\ UNCHANGED <<ring, pos, aim, revision, ready, signal, word, late, fill, life>>
  BY PlaybackAssumption, SilenceIsLocal, MovesTo DEF PlaybackTypes, Owning, Begin, Owns,
     Locals

LEMMA RequestByCallbackMoves ==
    ASSUME PlaybackTypes, NEW c \in Callbacks, RequestByCallback(c)
    PROVE  /\ Moved(c, DOMAIN cb[c])
           /\ cb[c].pc = "request" /\ cb'[c] = Silence
           /\ signal' = Requested
           /\ UNCHANGED <<ring, pos, aim, rendering, revision, ready, word, late, fill, life, past>>
  BY SilenceIsLocal, MovesTo DEF PlaybackTypes, RequestByCallback

\* A step of the session or of the lifecycle thread: fill and past are records.
LEMMA Records ==
    ASSUME PlaybackTypes
    PROVE  /\ fill.revision \in Nat /\ fill.target \in Nat /\ fill.pushes \in Nat
           /\ pos.read \in Nat /\ pos.write \in Nat /\ pos.floor \in Nat
           /\ aim.target \in Nat /\ aim.reserve \in Nat
           /\ word.epoch \in Nat /\ word.generation \in Nat /\ word.cue \in Nat /\ word.cursor \in Nat
           /\ past.heard \in Nat /\ past.resumed \in Nat /\ past.cues \in Nat
           /\ past.cuesBefore \in Nat /\ past.events \in Nat
           /\ signal.sent \in Nat /\ word.active \in BOOLEAN /\ fill.word \in Words
BY DEF PlaybackTypes, Fills, Pasts, Words

LEMMA RoundedUp ==
    ASSUME NEW n \in Nat
    PROVE  /\ RoundUp(n) \in Nat /\ RoundUp(n) % Frame = 0
           /\ n <= RoundUp(n) /\ RoundUp(n) <= n + Frame - 1
           /\ RoundUp(n) = (RoundUp(n) \div Frame) * Frame
           /\ RoundUp(n) \div Frame \in Nat
<1> DEFINE q == (n + Frame - 1) \div Frame
<1>0. Frame \in Nat \ {0}
  BY PlaybackAssumption
<1>1. q \in Nat /\ q * Frame <= n + Frame - 1 /\ n + Frame - 1 < (q + 1) * Frame
  BY <1>0
<1>2. q * Frame \in Nat /\ (q + 1) * Frame = q * Frame + Frame
  BY <1>0, <1>1
<1>3. RoundUp(n) = q * Frame
  BY DEF RoundUp
<1> HIDE DEF q
<1>4. (q * Frame) % Frame = 0 /\ (q * Frame) \div Frame = q
  BY <1>0, <1>1, Z3
<1> QED BY <1>0, <1>1, <1>2, <1>3, <1>4

LEMMA MaxTargetFits ==
    /\ MaxTarget \in Nat /\ MaxTarget % Frame = 0
    /\ Prepared \in Nat /\ Prepared <= MaxTarget /\ Prepared % Frame = 0
    /\ MaxTarget + Frame <= Capacity
<1> DEFINE q == Capacity \div Frame
<1>0. Frame \in Nat \ {0} /\ Capacity \in Nat /\ 3 * Frame <= Capacity
  BY PlaybackAssumption
<1>1. q \in Nat /\ q * Frame <= Capacity /\ Capacity < (q + 1) * Frame
  BY <1>0
<1>2. q >= 3
  BY <1>1, <1>0
<1>3. MaxTarget = (q - 1) * Frame
  BY DEF MaxTarget
<1> HIDE DEF q
<1>4. /\ (q - 1) * Frame = q * Frame - Frame
      /\ 2 * Frame <= (q - 1) * Frame /\ (q - 1) * Frame \in Nat
  BY <1>0, <1>1, <1>2
<1>5. ((q - 1) * Frame) % Frame = 0 /\ (2 * Frame) % Frame = 0
  BY <1>0, <1>1, <1>2, Z3
<1> QED BY <1>0, <1>1, <1>3, <1>4, <1>5 DEF Prepared

LEMMA RequestedIsSignal ==
    ASSUME PlaybackTypes
    PROVE  Requested \in [pending : BOOLEAN, sent : Nat]
BY DEF PlaybackTypes, Requested

LEMMA DivMod ==
    ASSUME NEW n \in Nat, NEW k \in Nat \ {0}
    PROVE  n \div k \in Nat /\ n = k * (n \div k) + (n % k)
OBVIOUS

LEMMA SamePlace ==
    ASSUME NEW p \in Nat, NEW r \in Nat, p - r < Capacity, r - p < Capacity,
           p % Capacity = r % Capacity
    PROVE  p = r
<1>0. Capacity \in Nat \ {0}
  BY PlaybackAssumption
<1>1. \A n \in Nat : n \div Capacity \in Nat /\ n = Capacity * (n \div Capacity) + (n % Capacity)
  BY <1>0, DivMod
<1> DEFINE a == p \div Capacity
           b == r \div Capacity
<1>2. p - r = Capacity * (a - b) /\ a \in Nat /\ b \in Nat
  BY <1>0, <1>1
<1> HIDE DEF a, b
<1>3. \A d \in Nat, k \in Nat \ {0} : k * (d + 1) >= k
  OBVIOUS
<1>4. a <= b
  BY <1>2, <1>0, <1>3
<1>5. b <= a
  BY <1>2, <1>0, <1>3
<1> QED BY <1>0, <1>2, <1>4, <1>5

LEMMA PushedIsRing ==
    ASSUME PlaybackTypes, PushSamples
    PROVE  ring' \in [0 .. Capacity - 1 -> Int]
           /\ (\A p \in pos.write .. pos.write + Frame - 1 : ring'[p % Capacity] = p)
           /\ (\A i \in 0 .. Capacity - 1 :
                 (\A p \in pos.write .. pos.write + Frame - 1 : i # p % Capacity) => ring'[i] = ring[i])
<1>0. /\ Frame \in Nat \ {0} /\ Capacity \in Nat /\ Frame < Capacity /\ Capacity > 0
      /\ pos.write \in Nat /\ DOMAIN ring = 0 .. Capacity - 1 /\ ring \in [0 .. Capacity - 1 -> Int]
  BY PlaybackAssumption DEF PlaybackTypes
<1> DEFINE w == pos.write
           Into(i) == CHOOSE p \in w .. w + Frame - 1 : i = p % Capacity
<1>1. \A i \in 0 .. Capacity - 1 :
        (\E k \in 0 .. Frame - 1 : i = (w + k) % Capacity) =>
          Into(i) \in w .. w + Frame - 1 /\ i = Into(i) % Capacity
  <2> TAKE i \in 0 .. Capacity - 1
  <2> HAVE \E k \in 0 .. Frame - 1 : i = (w + k) % Capacity
  <2>1. PICK k \in 0 .. Frame - 1 : i = (w + k) % Capacity
    OBVIOUS
  <2>2. w + k \in w .. w + Frame - 1
    BY <1>0
  <2> QED BY <2>1, <2>2
<1>2. ring' = [i \in 0 .. Capacity - 1 |->
                 IF \E k \in 0 .. Frame - 1 : i = (w + k) % Capacity THEN Into(i) ELSE ring[i]]
  BY <1>0 DEF PushSamples
<1>3. \A p \in w .. w + Frame - 1 : p % Capacity \in 0 .. Capacity - 1
                                   /\ \E k \in 0 .. Frame - 1 : p = w + k
  <2> TAKE p \in w .. w + Frame - 1
  <2>1. p - w \in 0 .. Frame - 1 /\ p = w + (p - w)
    BY <1>0
  <2> QED BY <1>0, <2>1
<1>4. \A p, r \in w .. w + Frame - 1 : p % Capacity = r % Capacity => p = r
  BY <1>0, SamePlace
<1> HIDE DEF Into, w
<1>5. w \in Nat
  BY <1>0 DEF w
<1>6. ring' \in [0 .. Capacity - 1 -> Int]
  <2>1. w .. w + Frame - 1 \subseteq Int
    BY <1>0, <1>5
  <2>2. ASSUME NEW i \in 0 .. Capacity - 1
        PROVE  (IF \E k \in 0 .. Frame - 1 : i = (w + k) % Capacity THEN Into(i) ELSE ring[i]) \in Int
    BY <1>0, <1>1, <2>1
  <2> QED BY <1>2, <2>2
<1>7. \A p \in w .. w + Frame - 1 : ring'[p % Capacity] = p
  BY <1>1, <1>2, <1>3, <1>4
<1>8. \A i \in 0 .. Capacity - 1 : (\A p \in w .. w + Frame - 1 : i # p % Capacity) => ring'[i] = ring[i]
  BY <1>0, <1>5, <1>2
<1> QED BY <1>6, <1>7, <1>8 DEF w

LEMMA CountedIsPast ==
    ASSUME PlaybackTypes
    PROVE  Counted \in Pasts
<1>1. past.events + 1 \in Nat
  BY Records
<1> QED BY <1>1 DEF PlaybackTypes, Pasts, Counted

LEMMA AfterSampleIsWord ==
    ASSUME PlaybackTypes
    PROVE  AfterSample(word) \in Words
<1>1. word.cursor + 1 \in Nat /\ word \in Words
  BY Records DEF PlaybackTypes
<1> DEFINE next == word.cursor + 1
<1> HIDE DEF next
<1>2. next \in Nat
  BY <1>1 DEF next
<1>3. AfterSample(word) \in {[word EXCEPT !.cue = 0, !.cursor = 0], [word EXCEPT !.cursor = next]}
  BY DEF AfterSample, next
<1>4. [word EXCEPT !.cue = 0, !.cursor = 0] \in Words
  BY <1>1 DEF Words
<1>5. [word EXCEPT !.cursor = next] \in Words
  BY <1>1, <1>2 DEF Words
<1> QED BY <1>3, <1>4, <1>5

LEMMA TypesNext ==
    ASSUME PlaybackTypes, PlaybackNext
    PROVE  PlaybackTypes'
<1>0. fill \in Fills /\ past \in Pasts /\ word \in Words /\ revision \in Nat
  BY DEF PlaybackTypes
<1>1. CASE WakeUp
  <2>1. signal.sent - 1 \in Nat
    BY <1>1, Records DEF WakeUp
  <2>2. fill' \in Fills /\ fill'.stored = fill.stored /\ ~fill.stored
    BY <1>0, <1>1 DEF WakeUp, Fills, PlaybackTypes
  <2> QED BY <1>1, <2>1, <2>2 DEF PlaybackTypes, WakeUp
<1>2. CASE LookAtRevision
  BY <1>0, <1>2 DEF LookAtRevision, Fills, PlaybackTypes
<1>3. CASE ClearRing
  BY <1>0, <1>3, MaxTargetFits DEF ClearRing, Fills, PlaybackTypes
<1>4. CASE LookAtActive
  <2> DEFINE target == RoundUp(aim.target)
             pushes == Larger(0, target - aim.reserve) \div Frame
  <2>1. target \in Nat
    BY Records, RoundedUp
  <2>2. Larger(0, target - aim.reserve) \in Nat
    BY <2>1, Records DEF Larger
  <2>3. pushes \in Nat
    BY <2>2, PlaybackAssumption, DivMod
  <2>4. /\ \/ /\ aim' = [aim EXCEPT !.reserve = target]
              /\ fill' = [fill EXCEPT !.pc = "grow", !.target = target, !.pushes = pushes]
           \/ fill' = [fill EXCEPT !.pc = "idle"] /\ UNCHANGED aim
        /\ fill.pc = "active"
        /\ UNCHANGED <<ring, pos, rendering, revision, ready, signal, word, late, cb, life, past>>
    BY <1>4 DEF LookAtActive
  <2> HIDE DEF target, pushes
  <2>5. fill' \in Fills /\ fill'.stored = fill.stored /\ ~fill.stored
    BY <1>0, <2>1, <2>3, <2>4 DEF Fills, PlaybackTypes
  <2> QED BY <2>1, <2>4, <2>5 DEF PlaybackTypes
<1>5. CASE LookAtBudget
  <2> DEFINE pushes == RoundUp(Larger(0, fill.target - Available)) \div Frame
  <2>1. Larger(0, fill.target - Available) \in Nat
    BY Records DEF Larger, Available
  <2>2. pushes \in Nat
    BY <2>1, RoundedUp
  <2>3. /\ fill' = [fill EXCEPT !.pc = "decode", !.pushes = pushes]
        /\ fill.pushes = 0
        /\ UNCHANGED <<ring, pos, aim, rendering, revision, ready, signal, word, late, cb, life, past>>
    BY <1>5 DEF LookAtBudget
  <2> HIDE DEF pushes
  <2>4. ~fill.stored
    BY <2>3 DEF PlaybackTypes
  <2>5. fill' \in Fills /\ fill'.stored = fill.stored
    BY <1>0, <2>2, <2>3 DEF Fills
  <2> QED BY <2>3, <2>4, <2>5 DEF PlaybackTypes
<1>6. CASE PushSamples
  BY <1>6, PushedIsRing, <1>0 DEF PushSamples, Fills, PlaybackTypes
<1>7. CASE PushWrite
  <2>1. pos.write + Frame \in Nat
    BY Records, PlaybackAssumption
  <2>2. fill.pushes - 1 \in Nat
    <3>1. fill.pushes > 0 /\ fill.pushes \in Nat
      BY <1>7, Records DEF PlaybackTypes, PushWrite
    <3> QED BY <3>1
  <2>3. fill' \in Fills /\ ~fill'.stored
    BY <1>0, <1>7, <2>2 DEF Fills, PushWrite
  <2> QED BY <1>7, <2>1, <2>3 DEF PlaybackTypes, PushWrite
<1>8. CASE SayPrepared
  <2>1. ~fill.stored
    BY <1>8 DEF PlaybackTypes, SayPrepared
  <2>2. fill' \in Fills /\ fill'.stored = fill.stored
    BY <1>0, <1>8 DEF Fills, SayPrepared
  <2>3. ready' \in Nat
    BY <1>8, Records DEF SayPrepared, PreparedFor
  <2> QED BY <1>8, <2>1, <2>2, <2>3 DEF PlaybackTypes, SayPrepared
<1>9. CASE ClearByCommand
  BY <1>0, <1>9, CountedIsPast DEF Fills, PlaybackTypes, ClearByCommand
<1>10. CASE RequestByCommand
  BY <1>0, <1>10, RequestedIsSignal DEF Fills, PlaybackTypes, RequestByCommand
<1>11. CASE PlayCue
  BY <1>0, <1>11, CountedIsPast DEF Fills, PlaybackTypes, PlayCue
<1>12. CASE PlayInEpoch
  <2>1. fill' \in Fills /\ fill'.stored = fill.stored /\ ~fill.stored
    BY <1>0, <1>12 DEF Fills, PlaybackTypes, PlayInEpoch
  <2>2. word.generation + 1 \in Nat /\ past.cues + 1 \in Nat
    BY Records
  <2>3. word' \in Words
    <3> DEFINE generation == word.generation + 1
               cue == past.cues + 1
    <3>1. \/ word' = [word EXCEPT !.generation = generation, !.cue = cue, !.cursor = 0]
          \/ word' = word
      BY <1>12 DEF PlayInEpoch
    <3>2. generation \in Nat /\ cue \in Nat
      BY <2>2
    <3> HIDE DEF generation, cue
    <3>3. [word EXCEPT !.generation = generation, !.cue = cue, !.cursor = 0] \in Words
      BY <1>0, <3>2 DEF Words
    <3> QED BY <1>0, <3>1, <3>3
  <2>4. past' \in Pasts
    BY <1>0, <1>12, <2>2 DEF PlayInEpoch, Pasts
  <2> QED BY <1>12, <2>1, <2>3, <2>4 DEF PlaybackTypes, PlayInEpoch
<1>13. CASE StopCue
  <2>2. word.generation + 1 \in Nat
    BY Records
  <2>3. word' \in Words
    BY <1>0, <1>13, <2>2 DEF StopCue, Words
  <2> QED BY <1>13, <2>3, CountedIsPast DEF PlaybackTypes, StopCue
<1>14. CASE CueLate
  BY <1>14, CountedIsPast DEF PlaybackTypes, CueLate
<1>15. CASE Pending
  BY <1>0, <1>15 DEF Pending, Words, PlaybackTypes
<1>16. CASE SetActive
  <2>1. word.epoch + 1 \in Nat
    BY Records
  <2>2. word' \in Words
    BY <1>0, <1>16, <2>1 DEF SetActive, Words
  <2> DEFINE counted == Counted
             resumed == IF word.active THEN counted.resumed ELSE pos.write
             before == IF word.active THEN counted.cuesBefore ELSE past.cues
  <2>3. past' = [counted EXCEPT !.resumed = resumed, !.cuesBefore = before]
    BY <1>16 DEF SetActive
  <2>4. counted \in Pasts
    BY CountedIsPast
  <2> HIDE DEF counted
  <2>5. resumed \in Nat /\ before \in Nat
    BY <2>4, Records DEF Pasts
  <2> HIDE DEF resumed, before
  <2>6. past' \in Pasts
    BY <2>3, <2>4, <2>5 DEF Pasts
  <2> QED BY <1>16, <2>2, <2>6 DEF PlaybackTypes, SetActive
<1>17. CASE Reconfigure
  BY <1>17, CountedIsPast DEF PlaybackTypes, Reconfigure
<1>18. CASE Revise
  BY <1>18 DEF PlaybackTypes, Revise
<1>19. CASE RequestByLife
  BY <1>19, RequestedIsSignal DEF PlaybackTypes, RequestByLife
<1>20. ASSUME NEW c \in Callbacks, Render(c)
       PROVE  PlaybackTypes'
  <2>1. ASSUME NEW frames \in Sizes, Begin(c, frames) PROVE PlaybackTypes'
    <3>1. past.events + 2 \in Nat
      BY Records
    <3>2. past' \in Pasts
      BY <1>0, <2>1, <3>1, BeginMoves DEF Pasts
    <3> QED BY <2>1, <3>2, BeginMoves DEF PlaybackTypes, Moved
  <2>2. CASE LoadOutput(c)
    BY <2>2, LoadOutputMoves DEF PlaybackTypes, Moved, sharedVars
  <2>3. CASE LoadFloor(c)
    BY <2>3, LoadFloorMoves DEF PlaybackTypes, Moved, sharedVars
  <2>4. CASE LoadActive(c)
    BY <2>4, LoadActiveMoves DEF PlaybackTypes, Moved, sharedVars
  <2>5. CASE LoadReady(c)
    BY <2>5, LoadReadyMoves DEF PlaybackTypes, Moved, sharedVars
  <2>6. CASE LoadWrite(c)
    BY <2>6, LoadWriteMoves DEF PlaybackTypes, Moved, sharedVars
  <2>7. CASE CopySample(c)
    BY <2>7, CopySampleMoves DEF PlaybackTypes, Moved, sharedVars
  <2>8. CASE CheckRevision(c)
    BY <2>8, CheckRevisionMoves DEF PlaybackTypes, Moved, sharedVars
  <2>9. CASE CheckFloor(c)
    BY <2>9, CheckFloorMoves DEF PlaybackTypes, Moved, sharedVars
  <2>10. CASE LoadCue(c)
    BY <2>10, LoadCueMoves DEF PlaybackTypes, Moved, sharedVars
  <2>11. CASE SampleCue(c)
    BY <2>11, AfterSampleIsWord, SampleCueMoves DEF PlaybackTypes, Moved
  <2>12. CASE CheckOutput(c)
    BY <2>12, CheckOutputMoves DEF PlaybackTypes, Moved, sharedVars
  <2>13. CASE StoreRead(c)
    <3>1. cb[c].read + cb[c].count \in Nat
      BY DEF PlaybackTypes, Locals
    <3>2. /\ pos' = [pos EXCEPT !.read = cb[c].read + cb[c].count]
          /\ rendering' = FALSE
          /\ past' = [past EXCEPT !.heard = IF Sounds(c) THEN cb[c].read + cb[c].count ELSE @]
      BY <2>13 DEF StoreRead
    <3>3. past' \in Pasts
      BY <1>0, <3>1, <3>2 DEF Pasts
    <3> QED BY <2>13, <3>1, <3>2, <3>3, StoreReadMoves DEF PlaybackTypes, Moved
  <2>14. CASE GrowTarget(c)
    <3>1. cb[c].frames \in Nat
      BY DEF PlaybackTypes, Locals
    <3>2. Larger(aim.target, Smaller(MaxTarget, Larger(Prepared, 2 * cb[c].frames))) \in Nat
      BY <3>1, Records, MaxTargetFits DEF Larger, Smaller
    <3>3. aim' = [aim EXCEPT !.target = Larger(@, Smaller(MaxTarget, Larger(Prepared, 2 * cb[c].frames)))]
      BY <2>14, Zenon DEF GrowTarget
    <3> QED BY <2>14, <3>2, <3>3, GrowTargetMoves DEF PlaybackTypes, Moved
  <2>15. CASE RequestByCallback(c)
    BY <2>15, RequestByCallbackMoves, RequestedIsSignal DEF PlaybackTypes, Moved
  <2> QED BY <1>20, <2>1, <2>2, <2>3, <2>4, <2>5, <2>6, <2>7, <2>8, <2>9, <2>10, <2>11, <2>12, <2>13,
             <2>14, <2>15 DEF Render
<1> QED BY <1>1, <1>2, <1>3, <1>4, <1>5, <1>6, <1>7, <1>8, <1>9, <1>10, <1>11, <1>12, <1>13, <1>14,
           <1>15, <1>16, <1>17, <1>18, <1>19, <1>20 DEF PlaybackNext, Session

\* The steps of the session and of the lifecycle thread.
Elsewhere ==
    \/ Session \/ CueLate \/ Pending \/ SetActive \/ Reconfigure \/ Revise \/ RequestByLife

LEMMA ElsewhereKeeps ==
    ASSUME Elsewhere
    PROVE  UNCHANGED <<cb, rendering>>
BY DEF Elsewhere, Session, WakeUp, LookAtRevision, ClearRing, LookAtActive, LookAtBudget, PushSamples,
       PushWrite, SayPrepared, ClearByCommand, RequestByCommand, PlayCue, PlayInEpoch, StopCue,
       CueLate, Pending, SetActive, Reconfigure, Revise, RequestByLife

\* What every step of a callback but the last of those in which it owns the ring keeps.
LEMMA RenderOwns ==
    ASSUME PlaybackTypes, NEW c \in Callbacks, Render(c)
    PROVE  /\ \A d \in Callbacks \ {c} : cb'[d] = cb[d]
           /\ \/ cb[c].pc \in Owning /\ cb'[c].pc \in Owning /\ rendering' = rendering
              \/ cb[c].pc \in Owning /\ cb'[c].pc \notin Owning /\ rendering' = FALSE
              \/ cb[c].pc \notin Owning /\ cb'[c].pc \in Owning /\ ~rendering /\ rendering' = TRUE
              \/ cb[c].pc \notin Owning /\ cb'[c].pc \notin Owning /\ (rendering => rendering')
<1>1. ASSUME NEW frames \in Sizes, Begin(c, frames)
      PROVE  /\ \A d \in Callbacks \ {c} : cb'[d] = cb[d]
             /\ \/ cb[c].pc \notin Owning /\ cb'[c].pc \in Owning /\ ~rendering /\ rendering' = TRUE
                \/ cb[c].pc \notin Owning /\ cb'[c].pc \notin Owning /\ (rendering => rendering')
  BY <1>1, BeginMoves DEF Moved, Owning
<1>2. CASE LoadOutput(c)
  BY <1>2, LoadOutputMoves DEF Moved, sharedVars, Owning
<1>3. CASE LoadFloor(c)
  BY <1>3, LoadFloorMoves DEF Moved, sharedVars, Owning
<1>4. CASE LoadActive(c)
  BY <1>4, LoadActiveMoves DEF Moved, sharedVars, Owning
<1>5. CASE LoadReady(c)
  BY <1>5, LoadReadyMoves DEF Moved, sharedVars, Owning
<1>6. CASE LoadWrite(c)
  BY <1>6, LoadWriteMoves DEF Moved, sharedVars, Owning
<1>7. CASE CopySample(c)
  BY <1>7, CopySampleMoves DEF Moved, sharedVars, Owning
<1>8. CASE CheckRevision(c)
  BY <1>8, CheckRevisionMoves DEF Moved, sharedVars, Owning
<1>9. CASE CheckFloor(c)
  BY <1>9, CheckFloorMoves DEF Moved, sharedVars, Owning
<1>10. CASE LoadCue(c)
  BY <1>10, LoadCueMoves DEF Moved, sharedVars, Owning
<1>11. CASE SampleCue(c)
  BY <1>11, SampleCueMoves DEF Moved, Owning
<1>12. CASE CheckOutput(c)
  BY <1>12, CheckOutputMoves DEF Moved, sharedVars, Owning
<1>13. CASE StoreRead(c)
  BY <1>13, StoreReadMoves DEF StoreRead, Moved, Owning
<1>14. CASE GrowTarget(c)
  BY <1>14, GrowTargetMoves DEF Moved, Owning
<1>15. CASE RequestByCallback(c)
  BY <1>15, RequestByCallbackMoves, SilenceIsLocal DEF Moved, Owning
<1> QED BY <1>1, <1>2, <1>3, <1>4, <1>5, <1>6, <1>7, <1>8, <1>9, <1>10, <1>11, <1>12, <1>13,
           <1>14, <1>15 DEF Render

LEMMA OneOwnsNext ==
    ASSUME PlaybackTypes, OneOwns, PlaybackNext
    PROVE  OneOwns'
  BY ElsewhereKeeps, RenderOwns DEF OneOwns, PlaybackTypes, PlaybackNext, Elsewhere

-----------------------------------------------------------------------------
LEMMA RoundUpBelow ==
    ASSUME NEW n \in Nat, NEW m \in Nat, m % Frame = 0, n <= m
    PROVE  RoundUp(n) <= m
<1>0. Frame \in Nat \ {0}
  BY PlaybackAssumption
<1> DEFINE q == (n + Frame - 1) \div Frame
           k == m \div Frame
<1>1. q \in Nat /\ q * Frame <= n + Frame - 1 /\ n + Frame - 1 < (q + 1) * Frame
  BY <1>0
<1>2. k \in Nat /\ m = Frame * k
  BY <1>0, DivMod
<1> HIDE DEF k
<1>3. RoundUp(n) = q * Frame
  BY DEF RoundUp
<1> HIDE DEF q
<1>4. q <= k
  BY <1>1, <1>2, <1>0
<1>5. \A a, b, f \in Nat : a <= b => a * f <= f * b
  OBVIOUS
<1> QED BY <1>0, <1>1, <1>2, <1>3, <1>4, <1>5

\* The difference of whole frames is whole frames.
LEMMA WholeFrames ==
    ASSUME NEW m \in Nat, NEW n \in Nat, m % Frame = 0, n % Frame = 0, n <= m
    PROVE  /\ (m - n) \div Frame \in Nat
           /\ ((m - n) \div Frame) * Frame = m - n
<1>0. Frame \in Nat \ {0}
  BY PlaybackAssumption
<1> DEFINE a == m \div Frame
           b == n \div Frame
<1>1. a \in Nat /\ m = Frame * a /\ b \in Nat /\ n = Frame * b
  BY <1>0, DivMod
<1> HIDE DEF a, b
<1>2. m - n = (a - b) * Frame /\ m - n \in Nat
  BY <1>0, <1>1
<1>3. a - b \in Nat
  BY <1>1, <1>0, <1>2
<1>4. \A d \in Nat, f \in Nat \ {0} : (d * f) \div f = d
  BY Z3
<1>5. (m - n) \div Frame = a - b
  BY <1>0, <1>2, <1>3, <1>4
<1> QED BY <1>2, <1>3, <1>5

LEMMA AvailableIs ==
    ASSUME PlaybackTypes, Aimed
    PROVE  /\ Available = pos.write - Live /\ Live \in Nat /\ Live <= pos.write
           /\ pos.read <= Live /\ pos.floor <= Live /\ Live \in {pos.read, pos.floor}
BY Records DEF Aimed, Available, Live, Larger

LEMMA Products ==
    ASSUME NEW n \in Nat
    PROVE  /\ n * Frame \in Nat /\ 0 * Frame = 0
           /\ (n - 1) * Frame = n * Frame - Frame
BY PlaybackAssumption

\* Aimed speaks of these alone.
LEMMA AimedAlike ==
    ASSUME PlaybackTypes, Aimed, UNCHANGED <<pos, aim>>, fill'.pushes = fill.pushes,
           \/ fill'.pc = fill.pc /\ fill'.target = fill.target
           \/ fill.pushes = 0 /\ fill'.pc \notin {"grow", "decode"}
    PROVE  Aimed'
BY DEF Aimed, Available

LEMMA AimedElsewhere ==
    ASSUME PlaybackTypes, Aimed, Elsewhere
    PROVE  Aimed'
<1>0. /\ fill \in Fills /\ Frame \in Nat \ {0} /\ Capacity \in Nat
      /\ pos \in [read : Nat, write : Nat, floor : Nat] /\ aim \in [target : Nat, reserve : Nat]
  BY PlaybackAssumption DEF PlaybackTypes
<1>1. CASE WakeUp
  BY <1>0, <1>1, AimedAlike DEF WakeUp, Fills, Aimed
<1>2. CASE LookAtRevision
  BY <1>0, <1>2, AimedAlike DEF LookAtRevision, Fills, Aimed
<1>3. CASE ClearRing
  <2>1. /\ fill.pc = "clear" /\ fill'.pushes = fill.pushes /\ fill'.pc = fill.then
        /\ fill.then \in {"idle", "active", "request"}
        /\ pos'.floor = pos.write /\ pos'.read = pos.read /\ pos'.write = pos.write
        /\ aim'.target = Prepared /\ aim'.reserve = Prepared
    BY <1>0, <1>3 DEF ClearRing, Fills
  <2>2. Available' = 0
    BY <2>1, Records DEF Aimed, Available, Larger
  <2>3. fill.pushes = 0 /\ fill'.pushes = 0 /\ 0 * Frame = 0 /\ 0 % Frame = 0
    BY <1>0, <2>1 DEF Aimed
  <2>4. Available' + fill'.pushes * Frame <= aim'.reserve + Frame - 1
    BY <1>0, <2>1, <2>2, <2>3, MaxTargetFits
  <2>5. Prepared <= RoundUp(Prepared)
    BY MaxTargetFits, RoundedUp
  <2>6. pos'.read <= pos'.write /\ pos'.floor <= pos'.write
    BY <2>1, Records DEF Aimed
  <2>7. fill'.pc \notin {"grow", "decode"}
    BY <2>1
  <2>8. Prepared <= Prepared
    BY MaxTargetFits
  <2> HIDE DEF Prepared
  <2> QED BY <2>1, <2>3, <2>4, <2>5, <2>6, <2>7, <2>8, MaxTargetFits DEF Aimed
<1>4. CASE LookAtActive
  <2> DEFINE target == RoundUp(aim.target)
             pushes == Larger(0, target - aim.reserve) \div Frame
  <2>1. /\ fill.pc = "active" /\ UNCHANGED pos
        /\ \/ /\ aim' = [aim EXCEPT !.reserve = target]
              /\ fill' = [fill EXCEPT !.pc = "grow", !.target = target, !.pushes = pushes]
           \/ fill' = [fill EXCEPT !.pc = "idle"] /\ UNCHANGED aim
    BY <1>4 DEF LookAtActive
  <2>2. /\ target \in Nat /\ target % Frame = 0 /\ aim.target <= target /\ target <= MaxTarget
        /\ aim.reserve <= target
    BY Records, RoundedUp, RoundUpBelow, MaxTargetFits DEF Aimed
  <2>3. pushes \in Nat /\ pushes * Frame = target - aim.reserve
    BY <2>2, Records, WholeFrames DEF Larger, Aimed
  <2>4. Available \in Nat /\ Available <= aim.reserve + Frame - 1 /\ Available' = Available
    <3>1. fill.pushes = 0
      BY <2>1 DEF Aimed
    <3>2. Available + 0 * Frame <= aim.reserve + Frame - 1
      BY <3>1 DEF Aimed
    <3>3. 0 * Frame = 0
      BY <1>0
    <3> QED BY <1>0, <2>1, <3>2, <3>3, Records, AvailableIs DEF Available
  <2>5. RoundUp(aim.target) = target
    OBVIOUS
  <2> HIDE DEF target, pushes
  <2>6. CASE aim' = [aim EXCEPT !.reserve = target]
             /\ fill' = [fill EXCEPT !.pc = "grow", !.target = target, !.pushes = pushes]
    BY <1>0, <2>6, <2>2, <2>3, <2>4, Records, <2>5, <2>1 DEF Fills, Aimed
  <2>7. CASE fill' = [fill EXCEPT !.pc = "idle"] /\ UNCHANGED aim
    BY <1>0, <2>1, <2>7, AimedAlike DEF Fills, Aimed
  <2> QED BY <2>1, <2>6, <2>7
<1>5. CASE LookAtBudget
  <2> DEFINE short == Larger(0, fill.target - Available)
             pushes == RoundUp(short) \div Frame
  <2>1. /\ fill.pc = "grow" /\ fill.pushes = 0 /\ UNCHANGED <<pos, aim>>
        /\ fill'.pc = "decode" /\ fill'.target = fill.target /\ fill'.pushes = pushes
    BY <1>0, <1>5 DEF LookAtBudget, Fills
  <2>2. Available \in Nat /\ fill.target \in Nat /\ fill.target = aim.reserve
    BY <2>1, Records, AvailableIs DEF Aimed
  <2>3. short \in Nat /\ short = IF fill.target > Available THEN fill.target - Available ELSE 0
    BY <2>2 DEF Larger
  <2>4. pushes * Frame = RoundUp(short) /\ RoundUp(short) <= short + Frame - 1
    BY <2>3, RoundedUp
  <2>5. RoundUp(0) <= 0
    BY <1>0, RoundUpBelow, Z3
  <2>6. Available <= aim.reserve + Frame - 1
    BY <2>1, <1>0, <2>2 DEF Aimed
  <2> HIDE DEF pushes, short
  <2>7. Available + pushes * Frame <= aim.reserve + Frame - 1
    <3>1. \A r \in Nat : r = RoundUp(short) => pushes * Frame = r /\ r <= short + Frame - 1
      BY <2>4
    <3>2. RoundUp(short) \in Nat /\ RoundUp(0) \in Nat
      BY <2>3, RoundedUp
    <3>3. CASE fill.target > Available
      BY <2>3, <3>3, <1>0, <2>2, <3>1, <3>2
    <3>4. CASE ~(fill.target > Available)
      BY <2>3, <2>5, <3>2, <3>4, <1>0, <2>2, <2>6, <3>1
    <3> QED BY <3>3, <3>4
  <2>8. Available' = Available
    BY <2>1 DEF Available
  <2> QED BY <2>1, <2>7, <2>8 DEF Aimed
<1>6. CASE PushSamples
  BY <1>0, <1>6, AimedAlike DEF PushSamples, Fills, Aimed
<1>7. CASE PushWrite
  <2>1. /\ fill'.pc = fill.pc /\ fill'.target = fill.target /\ fill'.pushes = fill.pushes - 1
        /\ pos'.write = pos.write + Frame /\ pos'.read = pos.read /\ pos'.floor = pos.floor
        /\ UNCHANGED aim /\ fill.stored
    BY <1>0, <1>7 DEF PushWrite, Fills
  <2>2. fill.pc \in {"grow", "decode"}
    BY <2>1 DEF PlaybackTypes
  <2>3. Available' = Available + Frame
    BY <1>0, <2>1, Records DEF Aimed, Available, Larger
  <2>4. Available \in Nat /\ aim.reserve \in Nat /\ fill.pushes \in Nat
    BY Records, AvailableIs
  <2>5. (fill.pushes - 1) * Frame = fill.pushes * Frame - Frame /\ fill.pushes * Frame \in Nat
    BY <2>4, Products
  <2> DEFINE product == fill.pushes * Frame
  <2>6. Available + product <= aim.reserve + Frame - 1
    BY DEF Aimed
  <2>7. (fill.pushes - 1) * Frame = product - Frame /\ product \in Nat
    BY <2>5
  <2> HIDE DEF product
  <2>8. Available' + fill'.pushes * Frame <= aim.reserve + Frame - 1
    BY <1>0, <2>1, <2>3, <2>4, <2>6, <2>7
  <2> QED BY <1>0, <2>1, <2>2, <2>8, Records DEF Aimed
<1>8. CASE SayPrepared
  BY <1>0, <1>8, AimedAlike DEF SayPrepared, Fills, Aimed
<1>9. CASE ClearByCommand
  BY <1>0, <1>9, AimedAlike DEF ClearByCommand, Fills, Aimed
<1>10. CASE RequestByCommand
  BY <1>0, <1>10, AimedAlike DEF RequestByCommand, Fills, Aimed
<1>11. CASE PlayCue
  BY <1>0, <1>11, AimedAlike DEF PlayCue, Fills, Aimed
<1>12. CASE PlayInEpoch
  BY <1>0, <1>12, AimedAlike DEF PlayInEpoch, Fills, Aimed
<1>13. CASE StopCue \/ CueLate \/ Pending \/ SetActive \/ Reconfigure \/ Revise \/ RequestByLife
  BY <1>13, AimedAlike DEF StopCue, CueLate, Pending, SetActive, Reconfigure, Revise, RequestByLife
<1> QED BY <1>1, <1>2, <1>3, <1>4, <1>5, <1>6, <1>7, <1>8, <1>9, <1>10, <1>11, <1>12, <1>13
        DEF Elsewhere, Session

LEMMA AimedNext ==
    ASSUME PlaybackTypes, Aimed, TakesStream, PlaybackNext
    PROVE  Aimed'
<1>1. ASSUME NEW c \in Callbacks, StoreRead(c)
      PROVE  Aimed'
  <2>1. /\ cb[c].pc = "store" /\ UNCHANGED <<fill, aim>>
        /\ pos'.read = cb[c].read + cb[c].count /\ pos'.write = pos.write /\ pos'.floor = pos.floor
    BY <1>1 DEF StoreRead, PlaybackTypes
  <2>2. cb[c].read \in Nat /\ cb[c].count \in Nat
    BY DEF PlaybackTypes, Locals
  <2>3. pos.read <= cb[c].read /\ cb[c].read + cb[c].count <= pos.write
    BY <2>1 DEF TakesStream, InStream, Reading, Owning
  <2>4. Available' \in Nat /\ Available' <= Available /\ Available \in Nat
    BY <2>1, <2>2, <2>3, Records DEF Aimed, Available, Larger
  <2> DEFINE product == fill.pushes * Frame
  <2>6. Available + product <= aim.reserve + Frame - 1
    BY DEF Aimed
  <2>7. product \in Nat
    BY Records, Products
  <2> HIDE DEF product
  <2>8. Available' + product <= aim.reserve + Frame - 1
    BY <2>4, <2>6, <2>7, Records, PlaybackAssumption
  <2>9. pos'.read <= pos'.write /\ pos'.floor <= pos'.write
    BY <2>1, <2>2, <2>3 DEF Aimed
  <2> QED BY <2>1, <2>8, <2>9 DEF Aimed, product
<1>2. ASSUME NEW c \in Callbacks, GrowTarget(c)
      PROVE  Aimed'
  <2>1. cb[c].frames \in Nat
    BY DEF PlaybackTypes, Locals
  <2> DEFINE wish == Smaller(MaxTarget, Larger(Prepared, 2 * cb[c].frames))
             target == Larger(aim.target, wish)
  <2>2. wish \in Nat /\ Prepared <= wish /\ wish <= MaxTarget
    BY <2>1, MaxTargetFits DEF Smaller, Larger
  <2>3. target \in Nat /\ aim.target <= target /\ Prepared <= target /\ target <= MaxTarget
    BY <2>2, Records, MaxTargetFits DEF Larger, Aimed
  <2>4. UNCHANGED <<pos, fill>> /\ aim' = [aim EXCEPT !.target = target]
    BY <1>2 DEF GrowTarget
  <2> HIDE DEF wish, target
  <2>5. aim'.target = target /\ aim'.reserve = aim.reserve
    BY <2>4 DEF PlaybackTypes
  <2>6. RoundUp(aim.target) <= RoundUp(target)
    BY <2>3, Records, RoundedUp, RoundUpBelow
  <2>7. aim'.reserve <= RoundUp(aim'.target)
    BY <2>3, <2>5, <2>6, Records, RoundedUp DEF Aimed
  <2> QED BY <2>3, <2>4, <2>5, <2>7 DEF Aimed, Available
<1>3. ASSUME NEW c \in Callbacks, Render(c), ~StoreRead(c), ~GrowTarget(c)
      PROVE  Aimed'
  <2>1. UNCHANGED <<pos, aim, fill>>
    BY <1>3 DEF Render, Begin, LoadOutput, LoadFloor, LoadActive, LoadReady, LoadWrite, CopySample,
                CheckRevision, CheckFloor, LoadCue, SampleCue, CheckOutput, RequestByCallback, sharedVars
  <2> QED BY <2>1, AimedAlike
<1> QED BY <1>1, <1>2, <1>3, AimedElsewhere DEF PlaybackNext, Elsewhere

-----------------------------------------------------------------------------
LEMMA PushFits ==
    ASSUME PlaybackTypes, Aimed, fill.pushes > 0
    PROVE  Available + Frame <= Capacity /\ Available \in Nat
  BY Records, AvailableIs, Products, MaxTargetFits, PlaybackAssumption DEF Aimed

LEMMA StoredNext ==
    ASSUME PlaybackTypes, Aimed, TakesStream, Stored, PlaybackNext
    PROVE  Stored'
<1>0. /\ fill \in Fills /\ Frame \in Nat \ {0} /\ Capacity \in Nat
      /\ pos \in [read : Nat, write : Nat, floor : Nat]
  BY PlaybackAssumption DEF PlaybackTypes
<1>1. CASE PushSamples
  <2>1. /\ UNCHANGED pos /\ fill.pushes > 0 /\ Live' = Live
        /\ Live \in Nat /\ pos.write \in Nat /\ Available = pos.write - Live
    BY <1>1, Records, AvailableIs DEF PushSamples, Live
  <2>2. Available + Frame <= Capacity
    BY <2>1, PushFits
  <2>3. \A p \in pos.write .. pos.write + Frame - 1 : ring'[p % Capacity] = p
    BY <1>1, PushedIsRing
  <2>4. ASSUME NEW p \in Live .. pos.write - 1
        PROVE  ring'[p % Capacity] = p
    <3>1. p \in Nat /\ p % Capacity \in 0 .. Capacity - 1 /\ ring[p % Capacity] = p
      BY <1>0, <2>1, PlaybackAssumption DEF Stored
    <3>2. ASSUME NEW r \in pos.write .. pos.write + Frame - 1
          PROVE  p % Capacity # r % Capacity
      BY <1>0, <2>1, <2>2, <3>1, SamePlace
    <3> QED BY <1>1, <3>1, <3>2, PushedIsRing
  <2> QED BY <2>1, <2>3, <2>4 DEF Stored
<1>2. CASE PushWrite
  BY <1>0, <1>2, Records, AvailableIs DEF PushWrite, Fills, Live, Stored
<1>3. CASE ClearRing
  <2>1. /\ pos'.floor = pos.write /\ pos'.write = pos.write /\ pos'.read = pos.read
        /\ ~fill.stored /\ ~fill'.stored
    BY <1>0, <1>3 DEF ClearRing, Fills, PlaybackTypes
  <2>2. Live' = pos.write
    BY <2>1, Records DEF Live, Larger, Aimed
  <2>3. \A p \in pos.write .. pos.write - 1 : FALSE
    BY Records
  <2> QED BY <2>1, <2>2, <2>3 DEF Stored
<1>4. ASSUME NEW c \in Callbacks, StoreRead(c)
      PROVE  Stored'
  <2>1. /\ cb[c].pc = "store" /\ UNCHANGED <<fill, ring>>
        /\ pos'.read = cb[c].read + cb[c].count /\ pos'.write = pos.write /\ pos'.floor = pos.floor
    BY <1>0, <1>4 DEF StoreRead
  <2>2. cb[c].read \in Nat /\ cb[c].count \in Nat
    BY DEF PlaybackTypes, Locals
  <2>3. pos.read <= cb[c].read
    BY <2>1 DEF TakesStream, InStream, Reading, Owning
  <2>4. Live' >= Live /\ Live' \in Nat /\ Live \in Nat
    BY <2>1, <2>2, <2>3, Records DEF Live, Larger
  <2>5. \A p \in Live' .. pos.write - 1 : p \in Live .. pos.write - 1
    BY <2>4, Records
  <2> QED BY <2>1, <2>5 DEF Stored
<1>5. ASSUME UNCHANGED <<ring, pos>>, fill'.stored = fill.stored
      PROVE  Stored'
  BY <1>5 DEF Stored, Live
<1>6. ASSUME Elsewhere, ~PushSamples, ~PushWrite, ~ClearRing
      PROVE  UNCHANGED <<ring, pos>> /\ fill'.stored = fill.stored
  BY <1>0, <1>6 DEF Elsewhere, Session, WakeUp, LookAtRevision, LookAtActive, LookAtBudget, SayPrepared,
       ClearByCommand, RequestByCommand, PlayCue, PlayInEpoch, StopCue, CueLate, Pending, SetActive,
       Reconfigure, Revise, RequestByLife, Fills
<1>7. ASSUME NEW c \in Callbacks, Render(c), ~StoreRead(c)
      PROVE  UNCHANGED <<ring, pos, fill>>
  BY <1>7 DEF Render, Begin, LoadOutput, LoadFloor, LoadActive, LoadReady, LoadWrite, CopySample,
              CheckRevision, CheckFloor, LoadCue, SampleCue, CheckOutput, GrowTarget,
              RequestByCallback, sharedVars
<1> QED BY <1>1, <1>2, <1>3, <1>4, <1>5, <1>6, <1>7 DEF PlaybackNext, Elsewhere

-----------------------------------------------------------------------------
LEMMA PosElsewhere ==
    ASSUME PlaybackTypes, Aimed, Elsewhere
    PROVE  /\ pos'.read = pos.read /\ pos.write <= pos'.write /\ pos.floor <= pos'.floor
           /\ past'.heard = past.heard
<1>0. past \in Pasts /\ pos \in [read : Nat, write : Nat, floor : Nat]
  BY DEF PlaybackTypes
<1>1. CASE ClearRing
  BY <1>1, <1>0, Records DEF ClearRing, Aimed
<1>2. CASE PushWrite
  BY <1>2, <1>0, Records, PlaybackAssumption DEF PushWrite
<1>3. ASSUME ~ClearRing, ~PushWrite
      PROVE  UNCHANGED pos /\ past'.heard = past.heard
  BY <1>0, <1>3 DEF Elsewhere, Session, WakeUp, LookAtRevision, LookAtActive, LookAtBudget, PushSamples,
       SayPrepared, ClearByCommand, RequestByCommand, PlayCue, PlayInEpoch, StopCue, CueLate, Pending,
       SetActive, Reconfigure, Revise, RequestByLife, Counted, Pasts
<1> QED BY <1>0, <1>1, <1>2, <1>3, Records

LEMMA InStreamKept ==
    ASSUME PlaybackTypes, PlaybackTypes', NEW d \in Callbacks, InStream(d), cb'[d] = cb[d],
           pos'.read = pos.read \/ cb[d].pc \notin Owning,
           pos.write <= pos'.write, pos.floor <= pos'.floor
    PROVE  InStream(d)'
<1>1. cb[d] \in Locals
  BY DEF PlaybackTypes
<1>2. /\ cb[d].read \in Nat /\ cb[d].count \in Nat
      /\ pos.read \in Nat /\ pos.write \in Nat /\ pos.floor \in Nat
      /\ pos'.read \in Nat /\ pos'.write \in Nat /\ pos'.floor \in Nat
  BY <1>1 DEF Locals, PlaybackTypes
<1>3. Taken(d)' <=> Taken(d)
  BY DEF Taken
<1> QED BY <1>2, <1>3 DEF InStream, Reading, Filling, Checked, Owning

LEMMA TakesStreamElsewhere ==
    ASSUME PlaybackTypes, PlaybackTypes', Aimed, TakesStream, Elsewhere
    PROVE  TakesStream'
  BY ElsewhereKeeps, PosElsewhere, InStreamKept, Records DEF TakesStream

\* A step of a callback, of which the others see at most that it took.
LEMMA TakesStreamBy ==
    ASSUME PlaybackTypes, PlaybackTypes', TakesStream, NEW c \in Callbacks, Moved(c, DOMAIN cb[c]),
           InStream(c)', UNCHANGED pos, past'.heard = past.heard
    PROVE  TakesStream'
  BY Records, InStreamKept DEF Moved, TakesStream

LEMMA MovedAtMost ==
    ASSUME NEW c, NEW changed, Moved(c, changed)
    PROVE  Moved(c, DOMAIN cb[c])
BY DEF Moved

\* A step that takes nothing.
LEMMA InStreamTakesNothing ==
    ASSUME PlaybackTypes, NEW c \in Callbacks, NEW changed, Moved(c, changed), InStream(c), UNCHANGED pos,
           changed \cap {"read", "count", "cells", "floor"} = {},
           cb'[c].voice => cb[c].voice,
           cb[c].pc \in Filling /\ cb'[c].pc \in Filling \ {"copy"},
           cb'[c].pc \in Checked /\ cb'[c].voice => cb[c].pc \in Checked
    PROVE  InStream(c)'
<1>1. cb[c] \in Locals /\ cb'[c] \in Locals
  BY DEF Moved
<1>2. /\ cb'[c].read = cb[c].read /\ cb'[c].count = cb[c].count
      /\ cb'[c].cells = cb[c].cells /\ cb'[c].floor = cb[c].floor
  BY <1>1 DEF Moved, Locals
<1>3. Taken(c)' <=> Taken(c)
  BY <1>2 DEF Taken
<1> QED BY <1>2, <1>3 DEF InStream, Reading, Filling, Checked, Owning

\* A callback that waits or has begun.
LEMMA InStreamEmpty ==
    ASSUME NEW c \in Callbacks,
           cb[c].pc \notin Reading,
           (cb[c].count = 0 /\ cb[c].cells = << >> /\ ~cb[c].voice) \/ cb[c].pc \notin Owning
    PROVE  InStream(c)
BY DEF InStream, Reading, Filling, Checked, Owning

LEMMA TakesStreamRender ==
    ASSUME PlaybackTypes, PlaybackTypes', OneOwns, Aimed, Stored, TakesStream,
           NEW c \in Callbacks, Render(c)
    PROVE  TakesStream'
<1>0. cb[c] \in Locals /\ cb'[c] \in Locals /\ InStream(c)
  BY DEF PlaybackTypes, TakesStream
<1> DEFINE read == cb[c].read
           write == pos.write
           floor == pos.floor
<1>a. write \in Nat /\ floor \in Nat
  BY Records
<1> HIDE DEF write, floor, read
<1>1. ASSUME NEW frames \in Sizes, Begin(c, frames) PROVE TakesStream'
  BY <1>1, BeginMoves, InStreamEmpty, TakesStreamBy DEF PlaybackTypes, Pasts, Reading, Owning,
     InStream, Filling, Checked
<1>2. CASE LoadOutput(c)
  <2>1. /\ Moved(c, {"pc", "output"}) /\ cb[c].pc = "output" /\ cb'[c].pc = "floor"
        /\ UNCHANGED <<pos, past>>
    BY <1>2, LoadOutputMoves DEF sharedVars
  <2>2. cb'[c].count = 0 /\ cb'[c].cells = << >> /\ ~cb'[c].voice
    BY <1>0, <2>1 DEF Moved, InStream, Locals, Owning, Filling
  <2>3. InStream(c)'
    BY <2>1, <2>2 DEF InStream, Reading, Filling, Checked, Owning
  <2> QED BY <2>1, <2>3, MovedAtMost, TakesStreamBy
<1>3. CASE LoadFloor(c)
  <2>1. /\ Moved(c, {"pc", "read"}) /\ cb[c].pc = "floor" /\ cb'[c].pc = "active"
        /\ cb'[c].read = Live /\ UNCHANGED <<pos, past>>
    BY <1>3, LoadFloorMoves DEF sharedVars
  <2>2. cb'[c].count = 0 /\ cb'[c].cells = << >> /\ ~cb'[c].voice
    BY <1>0, <2>1 DEF Moved, InStream, Locals, Owning, Filling
  <2>3. pos.read <= Live /\ Live + 0 <= pos.write
    BY AvailableIs, Records
  <2>4. InStream(c)'
    BY <2>1, <2>2, <2>3 DEF InStream, Reading, Filling, Checked, Owning
  <2> QED BY <2>1, <2>4, MovedAtMost, TakesStreamBy
<1>4. CASE LoadActive(c) \/ LoadReady(c)
  <2>1. /\ Moved(c, {"pc"}) /\ cb[c].pc \in {"active", "ready"}
        /\ cb'[c].pc \in {"ready", "count", "check"} /\ UNCHANGED <<pos, past>>
    BY <1>4, LoadActiveMoves, LoadReadyMoves DEF sharedVars
  <2>2. /\ cb[c].count = 0 /\ cb[c].cells = << >> /\ ~cb[c].voice
        /\ pos.read <= cb[c].read /\ cb[c].read + cb[c].count <= pos.write
    BY <1>0, <2>1 DEF InStream, Owning, Filling, Reading
  <2>3. /\ cb'[c].count = cb[c].count /\ cb'[c].cells = cb[c].cells /\ ~cb'[c].voice
        /\ cb'[c].read = cb[c].read
    BY <1>0, <2>1, <2>2 DEF Moved, Locals
  <2>4. InStream(c)'
    BY <2>1, <2>2, <2>3 DEF InStream, Reading, Filling, Checked, Owning
  <2> QED BY <2>1, <2>4, MovedAtMost, TakesStreamBy
<1>5. CASE LoadWrite(c)
  <2>1. /\ Moved(c, {"pc", "voice", "count"}) /\ cb[c].pc = "count"
        /\ cb'[c].pc = IF Count(c) > 0 THEN "copy" ELSE "check"
        /\ cb'[c].voice /\ cb'[c].count = Count(c) /\ UNCHANGED <<pos, past>>
    BY <1>5, LoadWriteMoves DEF sharedVars
  <2>2. /\ cb[c].cells = << >> /\ pos.read <= cb[c].read
        /\ cb[c].read + cb[c].count <= pos.write /\ cb[c].count = 0
    BY <1>0, <2>1 DEF InStream, Owning, Filling, Reading
  <2>3. cb'[c].cells = << >> /\ cb'[c].read = cb[c].read
    BY <1>0, <2>1, <2>2 DEF Moved, Locals
  <2>4. cb[c].read \in Nat /\ cb[c].frames \in Nat
    BY <1>0 DEF Locals
  <2>5. Count(c) \in Nat /\ cb[c].read + Count(c) <= pos.write
    BY <2>2, <2>4, <1>a DEF Smaller, Larger, read, write, Count
  <2>6. Taken(c)'
    BY <2>3 DEF Taken
  <2>7. InStream(c)'
    BY <2>1, <2>2, <2>3, <2>5, <2>6 DEF InStream, Reading, Filling, Checked, Owning
  <2> QED BY <2>1, <2>7, MovedAtMost, TakesStreamBy
<1>6. CASE CopySample(c)
  <2> DEFINE n == Len(cb[c].cells)
  <2>1. /\ Moved(c, {"pc", "cells"}) /\ cb[c].pc = "copy"
        /\ cb'[c].pc = IF n + 1 < cb[c].count THEN "copy" ELSE "check"
        /\ cb'[c].cells = Append(cb[c].cells, Cell(c)) /\ UNCHANGED <<pos, past>>
    BY <1>6, CopySampleMoves DEF sharedVars
  <2>2. /\ cb[c].voice /\ n < cb[c].count /\ pos.read <= cb[c].read
        /\ cb[c].read + cb[c].count <= pos.write
        /\ Taken(c) \/ cb[c].read < pos.floor
    BY <1>0, <2>1 DEF InStream, Owning, Filling, Reading
  <2>3. /\ cb'[c].voice /\ cb'[c].read = cb[c].read /\ cb'[c].count = cb[c].count
    BY <1>0, <2>1, <2>2 DEF Moved, Locals
  <2>4. /\ cb[c].read \in Nat /\ cb[c].count \in Nat /\ n \in Nat /\ cb[c].cells \in Seq(Int)
    BY <1>0 DEF Locals
  <2>5. CASE cb[c].read < pos.floor
    BY <2>1, <2>4, <2>2, <2>3, <2>5, MovedAtMost, TakesStreamBy DEF InStream, Reading,
       Filling, Checked, Owning
  <2>6. CASE Taken(c) /\ cb[c].read >= pos.floor
    <3>1. cb[c].read + n \in Live .. pos.write - 1
      <4>1. \A r, k, l, m, w \in Nat : l <= r /\ m < k /\ r + k <= w => r + m \in l .. w - 1
        OBVIOUS
      <4>2. Live \in Nat /\ pos.write \in Nat /\ Live <= cb[c].read
        BY <2>2, <2>4, <2>6, AvailableIs, Records
      <4> QED BY <2>2, <2>4, <4>1, <4>2
    <3>2. Cell(c) = cb[c].read + n
      BY <3>1 DEF Stored, Cell
    <3>3. ASSUME NEW i \in DOMAIN cb'[c].cells
          PROVE  cb'[c].cells[i] = cb[c].read + i - 1
      <4>1. /\ Len(cb'[c].cells) = n + 1 /\ i \in 1 .. n + 1
            /\ cb'[c].cells[i] = IF i <= n THEN cb[c].cells[i] ELSE Cell(c)
        BY <2>4, <3>2, <2>1, <3>3
      <4>2. i <= n => i \in DOMAIN cb[c].cells
        BY <2>4, <4>1
      <4> QED BY <2>4, <2>6, <3>2, <4>1, <4>2 DEF Taken
    <3>4. Taken(c)'
      BY <2>3, <3>3 DEF Taken
    <3>5. cb'[c].pc = "copy" => Len(cb'[c].cells) < cb[c].count
      BY <2>1, <2>4
    <3>6. InStream(c)'
      BY <2>1, <2>2, <2>3, <3>4, <3>5 DEF InStream, Reading, Filling, Checked, Owning
    <3> QED BY <2>1, <3>6, MovedAtMost, TakesStreamBy
  <2>7. cb[c].read < pos.floor \/ cb[c].read >= pos.floor
    BY <2>4, <1>a DEF read, floor
  <2> QED BY <2>2, <2>5, <2>6, <2>7
<1>7. CASE CheckRevision(c)
  BY <1>7, CheckRevisionMoves, <1>0, InStreamTakesNothing, MovedAtMost, TakesStreamBy DEF
     sharedVars, Filling, Checked
<1>8. CASE CheckFloor(c)
  <2>1. /\ Moved(c, {"pc", "voice", "floor"}) /\ cb[c].pc = "cleared" /\ cb'[c].pc = "cue"
        /\ (cb'[c].voice <=> cb[c].voice /\ ~(cb[c].read < pos.floor))
        /\ cb'[c].floor = pos.floor /\ UNCHANGED <<pos, past>>
    BY <1>8, CheckFloorMoves DEF sharedVars, Cleared
  <2>2. /\ cb'[c].read = cb[c].read /\ cb'[c].count = cb[c].count /\ cb'[c].cells = cb[c].cells
        /\ cb[c].read \in Nat
    BY <1>0, <2>1 DEF Moved, Locals
  <2>3. Taken(c)' <=> Taken(c)
    BY <2>2 DEF Taken
  <2>4. cb'[c].voice => pos.floor <= cb[c].read
    BY <2>1, <2>2, Records
  <2>5. InStream(c)'
    BY <1>0, <2>1, <2>2, <2>3, <2>4 DEF InStream, Reading, Filling, Checked, Owning
  <2> QED BY <2>1, <2>5, MovedAtMost, TakesStreamBy
<1>9. CASE LoadCue(c)
  <2>1. /\ Moved(c, {"pc", "word", "tries"}) /\ cb[c].pc = "cue" /\ UNCHANGED <<pos, past>>
        /\ cb'[c].pc \in {"sample", "final"}
    BY <1>9, LoadCueMoves DEF sharedVars
  <2>2. cb'[c].voice = cb[c].voice
    BY <1>0, <2>1 DEF Moved, Locals
  <2>3. InStream(c)'
    BY <1>0, <2>1, <2>2, InStreamTakesNothing DEF Filling, Checked
  <2> QED BY <2>1, <2>3, MovedAtMost, TakesStreamBy
<1>10. CASE SampleCue(c)
  <2>1. /\ Moved(c, {"pc", "cue"}) /\ cb[c].pc = "sample" /\ UNCHANGED <<pos, past>>
        /\ cb'[c].pc \in {"cue", "final"}
    BY <1>10, SampleCueMoves
  <2>2. cb'[c].voice = cb[c].voice
    BY <1>0, <2>1 DEF Moved, Locals
  <2>3. InStream(c)'
    BY <1>0, <2>1, <2>2, InStreamTakesNothing DEF Filling, Checked
  <2> QED BY <2>1, <2>3, MovedAtMost, TakesStreamBy
<1>11. CASE CheckOutput(c)
  BY <1>11, CheckOutputMoves, <1>0, InStreamTakesNothing, MovedAtMost, TakesStreamBy DEF
     sharedVars, Filling, Checked
<1>12. CASE StoreRead(c)
  <2>1. /\ cb[c].pc = "store" /\ cb'[c].pc = "grow" /\ Moved(c, {"pc"})
        /\ pos'.read = cb[c].read + cb[c].count /\ pos'.write = pos.write /\ pos'.floor = pos.floor
    BY <1>12, StoreReadMoves DEF StoreRead, PlaybackTypes
  <2>2. past'.heard = past.heard \/ past'.heard = cb[c].read + cb[c].count
    BY <1>12 DEF StoreRead, PlaybackTypes, Pasts
  <2>3. cb[c].read \in Nat /\ cb[c].count \in Nat
    BY <1>0 DEF Locals
  <2>4. pos.read <= cb[c].read
    BY <1>0, <2>1 DEF InStream, Reading, Owning
  <2>5. past'.heard <= pos'.read
    BY <2>1, <2>2, <2>3, <2>4, Records DEF TakesStream
  <2>6. InStream(c)'
    BY <2>1 DEF InStream, Reading, Filling, Checked, Owning
  <2>7. ASSUME NEW d \in Callbacks, d # c
        PROVE  InStream(d)'
    BY <2>1, <2>7, Records, InStreamKept DEF Moved, OneOwns, Owning, TakesStream
  <2> QED BY <2>5, <2>6, <2>7 DEF TakesStream
<1>13. CASE GrowTarget(c) \/ RequestByCallback(c)
  BY <1>13, GrowTargetMoves, RequestByCallbackMoves, MovedAtMost, SilenceIsLocal,
     TakesStreamBy DEF InStream, Reading, Filling, Checked, Owning
<1> QED BY <1>1, <1>2, <1>3, <1>4, <1>5, <1>6, <1>7, <1>8, <1>9, <1>10, <1>11, <1>12, <1>13 DEF Render

-----------------------------------------------------------------------------
\* What a callback changes for the others.
LEMMA RenderKeeps ==
    ASSUME PlaybackTypes, NEW c \in Callbacks, Render(c)
    PROVE  /\ UNCHANGED <<revision, ready, fill, life>>
           /\ pos'.write = pos.write /\ pos'.floor = pos.floor
           /\ word'.active = word.active /\ word'.epoch = word.epoch
           /\ word'.cue \in {0, word.cue}
           /\ past'.resumed = past.resumed /\ past'.cues = past.cues /\ past'.cuesBefore = past.cuesBefore
<1>0. /\ word \in Words /\ past \in Pasts /\ pos \in [read : Nat, write : Nat, floor : Nat]
  BY DEF PlaybackTypes
<1>1. CASE SampleCue(c)
  BY <1>1, SampleCueMoves, <1>0 DEF AfterSample, Words
<1>2. CASE StoreRead(c)
  BY <1>2, <1>0 DEF StoreRead, Pasts
<1>3. ASSUME NEW frames \in Sizes, Begin(c, frames)
      PROVE  /\ UNCHANGED <<revision, ready, fill, life, pos, word>>
             /\ past'.resumed = past.resumed /\ past'.cues = past.cues
             /\ past'.cuesBefore = past.cuesBefore
  BY <1>0, <1>3 DEF Begin, Pasts
<1>4. ASSUME ~SampleCue(c), ~StoreRead(c), \A frames \in Sizes : ~Begin(c, frames)
      PROVE  UNCHANGED <<revision, ready, fill, life, pos, word, past>>
  BY <1>4 DEF Render, LoadOutput, LoadFloor, LoadActive, LoadReady, LoadWrite, CopySample,
              CheckRevision, CheckFloor, LoadCue, CheckOutput, GrowTarget, RequestByCallback, sharedVars
<1> QED BY <1>1, <1>2, <1>3, <1>4

LEMMA RevisedAlike ==
    ASSUME Revised, UNCHANGED <<revision, ready>>, fill'.revision = fill.revision,
           pos'.write = pos.write, pos'.floor = pos.floor, word'.active = word.active,
           past'.resumed = past.resumed, Paused' => Paused, UpToDate' => UpToDate,
           fill'.pc \in {"grow", "decode"} => fill.pc \in {"grow", "decode"} \/ word.active
    PROVE  Revised'
BY DEF Revised, Paused

LEMMA RevisedNext ==
    ASSUME PlaybackTypes, Aimed, Revised, PlaybackNext
    PROVE  Revised'
<1>0. /\ word \in Words /\ past \in Pasts /\ pos \in [read : Nat, write : Nat, floor : Nat]
      /\ fill \in Fills /\ revision \in Nat /\ ready \in Int
  BY DEF PlaybackTypes
<1>1. CASE WakeUp
  BY <1>0, <1>1, RevisedAlike DEF WakeUp, Fills, UpToDate, Paused
<1>2. CASE LookAtRevision
  BY <1>0, <1>2 DEF LookAtRevision, Fills, UpToDate, Revised, Paused
<1>3. CASE ClearRing
  BY <1>0, <1>3 DEF ClearRing, Fills, Revised, Paused
<1>4. CASE LookAtActive
  BY <1>0, <1>4, RevisedAlike DEF LookAtActive, Fills, UpToDate, Paused
<1>5. CASE LookAtBudget
  BY <1>0, <1>5, RevisedAlike DEF LookAtBudget, Fills, UpToDate, Paused
<1>6. CASE PushSamples
  BY <1>0, <1>6, RevisedAlike DEF PushSamples, Fills, UpToDate, Paused
<1>7. CASE PushWrite
  <2>1. /\ fill.stored /\ fill'.pc = fill.pc /\ fill'.revision = fill.revision
        /\ pos'.floor = pos.floor /\ pos'.write = pos.write + Frame
        /\ UNCHANGED <<revision, ready, word, life, past>>
    BY <1>0, <1>7 DEF PushWrite, Fills
  <2>2. fill.pc \in {"grow", "decode"}
    BY <2>1 DEF PlaybackTypes
  <2>3. past.resumed <= pos'.write
    BY <2>1, Records, PlaybackAssumption DEF Revised
  <2>4. ~(UpToDate' /\ Paused')
    BY <1>0, <2>1, <2>2 DEF Revised, UpToDate, Paused, Fills
  <2>5. UpToDate' => UpToDate
    BY <2>1, <2>2 DEF UpToDate
  <2> QED BY <2>1, <2>3, <2>4, <2>5 DEF Revised, Paused
<1>8. CASE SayPrepared
  BY <1>0, <1>8 DEF SayPrepared, PreparedFor, Fills, UpToDate, Paused, Revised
<1>9. CASE ClearByCommand
  BY <1>0, <1>9, RevisedAlike DEF ClearByCommand, Counted, Pasts, Fills, UpToDate, Paused
<1>10. CASE RequestByCommand
  BY <1>0, <1>10, RevisedAlike DEF RequestByCommand, Fills, UpToDate, Paused
<1>11. CASE PlayCue
  BY <1>0, <1>11, RevisedAlike DEF PlayCue, Counted, Pasts, Fills, UpToDate, Paused
<1>12. CASE PlayInEpoch
  BY <1>0, <1>12, RevisedAlike DEF PlayInEpoch, Pasts, Words, Fills, UpToDate, Paused
<1>13. CASE StopCue \/ CueLate \/ Pending
  BY <1>0, <1>13, RevisedAlike DEF StopCue, CueLate, Pending, Counted, Pasts, Words, UpToDate,
     Paused
<1>14. CASE SetActive
  BY <1>0, <1>14 DEF SetActive, Words, Counted, Pasts, UpToDate, Paused, Revised
<1>15. CASE Reconfigure
  BY <1>0, <1>15, RevisedAlike DEF Reconfigure, Counted, Pasts, UpToDate, Paused
<1>16. CASE Revise
  BY <1>16, <1>0 DEF Revise, Revised, Fills, UpToDate
<1>17. CASE RequestByLife
  BY <1>17, RevisedAlike DEF RequestByLife, UpToDate, Paused
<1>18. ASSUME NEW c \in Callbacks, Render(c)
       PROVE  Revised'
  BY <1>18, RenderKeeps, RevisedAlike DEF UpToDate, Paused
<1> QED BY <1>1, <1>2, <1>3, <1>4, <1>5, <1>6, <1>7, <1>8, <1>9, <1>10, <1>11, <1>12, <1>13, <1>14,
           <1>15, <1>16, <1>17, <1>18 DEF PlaybackNext, Session

LEMMA CueIsNewNext ==
    ASSUME PlaybackTypes, CueIsNew, PlaybackNext
    PROVE  CueIsNew'
<1>0. /\ word \in Words /\ past \in Pasts /\ fill \in Fills /\ fill.then # "play"
      /\ fill.stored => fill.pc # "play"
  BY DEF PlaybackTypes, Fills
<1>1. CASE PlayInEpoch
  <2>1. /\ fill.pc = "play" /\ fill'.pc = "idle"
        /\ \/ SameEpoch(word, fill.word) /\ word'.cue = past.cues + 1 /\ word'.active = word.active
                /\ past'.cues = past.cues + 1 /\ past'.cuesBefore = past.cuesBefore
           \/ UNCHANGED <<word, past>>
    BY <1>0, <1>1 DEF PlayInEpoch, Words, Pasts, Fills
  <2> QED BY <2>1, Records DEF CueIsNew, SameEpoch
<1>2. CASE SetActive
  BY <1>0, <1>2, Records DEF SetActive, Counted, Pasts, Words, CueIsNew
<1>3. CASE PlayCue
  BY <1>0, <1>3 DEF PlayCue, Fills, Counted, Pasts, CueIsNew
<1>4. CASE StopCue \/ CueLate \/ Pending \/ Reconfigure
  BY <1>0, <1>4 DEF StopCue, CueLate, Pending, Reconfigure, Counted, Pasts, Words, CueIsNew
<1>5. CASE ClearByCommand
  BY <1>0, <1>5 DEF ClearByCommand, Counted, Pasts, Fills, CueIsNew
<1>6. ASSUME Elsewhere, ~PlayInEpoch, ~SetActive, ~PlayCue, ~StopCue, ~CueLate, ~Pending, ~Reconfigure,
             ~ClearByCommand
      PROVE  UNCHANGED <<word, past>> /\ (fill'.pc = "play" => fill' = fill)
  BY <1>0, <1>6 DEF Elsewhere, Session, WakeUp, LookAtRevision, ClearRing, LookAtActive, LookAtBudget,
       PushSamples, PushWrite, SayPrepared, RequestByCommand, Revise, RequestByLife, Fills
<1>7. ASSUME NEW c \in Callbacks, Render(c)
      PROVE  CueIsNew'
  BY <1>7, RenderKeeps DEF CueIsNew
<1> QED BY <1>1, <1>2, <1>3, <1>4, <1>5, <1>6, <1>7 DEF CueIsNew, PlaybackNext, Elsewhere

-----------------------------------------------------------------------------
\* A step of somebody else: nothing of the outputs is new, and what was cleared stays.
LEMMA ResumedByKept ==
    ASSUME PlaybackTypes, PlaybackTypes', NEW d \in Callbacks, ResumedBy(d), cb'[d] = cb[d],
           revision <= revision', pos.floor <= pos'.floor,
           word'.active = word.active, word'.epoch = word.epoch,
           past'.resumed = past.resumed, past'.cuesBefore = past.cuesBefore
    PROVE  ResumedBy(d)'
<1>1. cb[d] \in Locals /\ cb[d].revision \in Nat /\ cb[d].output.epoch \in Nat
  BY DEF PlaybackTypes, Locals, Outputs
<1>2. revision \in Nat /\ revision' \in Nat /\ pos.floor \in Nat /\ pos'.floor \in Nat /\ past.resumed \in Nat
  BY DEF PlaybackTypes, Pasts
<1>3. SameOutput(d)' <=> SameOutput(d)
  BY DEF SameOutput, Output
<1>4. Sounds(d)' <=> Sounds(d)
  BY DEF Sounds
<1> QED BY <1>1, <1>2, <1>3, <1>4 DEF ResumedBy

LEMMA ResumedElsewhere ==
    ASSUME PlaybackTypes, PlaybackTypes', Aimed, Resumed, Elsewhere
    PROVE  Resumed'
<1>0. /\ word \in Words /\ past \in Pasts /\ pos \in [read : Nat, write : Nat, floor : Nat]
      /\ revision \in Nat
  BY DEF PlaybackTypes
<1>1. CASE SetActive
  <2>1. /\ UNCHANGED <<revision, pos, cb>> /\ word'.active = ~word.active
        /\ word'.epoch = IF word.active THEN word.epoch + 1 ELSE word.epoch
    BY <1>0, <1>1 DEF SetActive, Words
  <2>2. ASSUME NEW c \in Callbacks
        PROVE  ResumedBy(c)'
    <3>1. cb[c] \in Locals
      BY DEF PlaybackTypes
    <3>2. cb[c].output.epoch \in Nat /\ word.epoch \in Nat
      BY <3>1, Records DEF Locals, Outputs
    <3>3. ResumedBy(c) /\ cb'[c] = cb[c]
      BY <2>1 DEF Resumed
    <3>4. SameOutput(c)' => ~word.active /\ cb[c].output.active /\ cb[c].output.epoch = word.epoch
      <4> HAVE SameOutput(c)'
      <4>1. word'.active /\ [active |-> word'.active, epoch |-> word'.epoch] = cb[c].output
        BY <3>3 DEF SameOutput, Output
      <4> DEFINE out == [active |-> word'.active, epoch |-> word'.epoch]
      <4>2. out.active = word'.active /\ out.epoch = word'.epoch
        OBVIOUS
      <4>3. cb[c].output.active = word'.active /\ cb[c].output.epoch = word'.epoch
        BY <4>1, <4>2, Zenon
      <4> QED BY <2>1, <4>1, <4>3
    <3>5. SameOutput(c)' => cb[c].pc \notin Owning \ {"output"}
      BY <3>2, <3>3, <3>4 DEF ResumedBy
    <3>6. Sounds(c)' <=> Sounds(c)
      BY <3>3 DEF Sounds
    <3>7. cb[c].pc \in Owning \ {"output"} =>
            /\ cb[c].output.epoch <= word'.epoch
            /\ cb[c].output.active /\ ~word'.active => cb[c].output.epoch < word'.epoch
      BY <2>1, <3>2, <3>3 DEF ResumedBy
    <3> QED BY <2>1, <3>3, <3>5, <3>6, <3>7 DEF ResumedBy, Checked, Owning
  <2> QED BY <2>2 DEF Resumed
<1>2. ASSUME ~SetActive
      PROVE  /\ word'.active = word.active /\ word'.epoch = word.epoch
             /\ past'.resumed = past.resumed /\ past'.cuesBefore = past.cuesBefore
  <2>1. CASE StopCue \/ CueLate \/ Pending \/ Reconfigure \/ ClearByCommand \/ PlayCue
    BY <1>0, <2>1 DEF StopCue, CueLate, Pending, Reconfigure, ClearByCommand, PlayCue, Counted, Words, Pasts
  <2>2. CASE PlayInEpoch
    BY <1>0, <2>2 DEF PlayInEpoch, Words, Pasts
  <2>3. ASSUME ~(StopCue \/ CueLate \/ Pending \/ Reconfigure \/ ClearByCommand \/ PlayCue), ~PlayInEpoch
        PROVE  UNCHANGED <<word, past>>
    BY <1>2, <2>3 DEF Elsewhere, Session, WakeUp, LookAtRevision, ClearRing, LookAtActive, LookAtBudget,
       PushSamples, PushWrite, SayPrepared, RequestByCommand, Revise, RequestByLife
  <2> QED BY <2>1, <2>2, <2>3
<1>3. revision <= revision'
  <2>1. CASE Revise
    BY <1>0, <2>1 DEF Revise
  <2>2. CASE ~Revise
    <3>1. revision' = revision
      BY <2>2 DEF Elsewhere, Session, WakeUp, LookAtRevision, ClearRing, LookAtActive, LookAtBudget, PushSamples,
       PushWrite, SayPrepared, ClearByCommand, RequestByCommand, PlayCue, PlayInEpoch, StopCue,
       CueLate, Pending, SetActive, Reconfigure, RequestByLife
    <3> QED BY <1>0, <3>1
  <2> QED BY <2>1, <2>2
<1>4. CASE ~SetActive
  BY ElsewhereKeeps, <1>2, <1>3, <1>4, PosElsewhere, ResumedByKept DEF Resumed
<1> QED BY <1>1, <1>4

LEMMA ResumedRender ==
    ASSUME PlaybackTypes, PlaybackTypes', Aimed, TakesStream, Revised, CueIsNew, Resumed,
           NEW c \in Callbacks, Render(c)
    PROVE  Resumed'
<1>0. /\ cb[c] \in Locals /\ cb'[c] \in Locals /\ ResumedBy(c) /\ InStream(c)
      /\ past.resumed \in Nat /\ pos.floor \in Nat /\ revision \in Nat /\ cb[c].read \in Nat
      /\ word.active \in BOOLEAN /\ word.epoch \in Nat
  BY Records DEF PlaybackTypes, Resumed, TakesStream, Locals
<1>a. /\ revision' = revision /\ pos'.floor = pos.floor
      /\ past'.resumed = past.resumed /\ past'.cuesBefore = past.cuesBefore
      /\ word'.active = word.active /\ word'.epoch = word.epoch
      /\ Output' = Output
  BY RenderKeeps DEF Output
<1>b. ASSUME NEW d \in Callbacks, d # c
      PROVE  ResumedBy(d)'
  <2>1. cb'[d] = cb[d] /\ ResumedBy(d)
    BY <1>b, RenderOwns DEF Resumed
  <2> QED BY <1>0, <1>a, <2>1, ResumedByKept
<1>c. SUFFICES ResumedBy(c)'
  BY <1>b DEF Resumed
<1>1. ASSUME NEW frames \in Sizes, Begin(c, frames) PROVE ResumedBy(c)'
  <2>1. cb'[c].pc \in {"output", "grow"} /\ cb'[c].revision = revision /\ cb'[c].cue = 0
    BY <1>1, BeginMoves
  <2> QED BY <1>0, <1>a, <2>1 DEF ResumedBy, Owning, Checked
<1>2. CASE LoadOutput(c)
  <2>1. /\ Moved(c, {"pc", "output"}) /\ cb[c].pc = "output" /\ cb'[c].pc = "floor"
        /\ cb'[c].output = Output
    BY <1>2, LoadOutputMoves
  <2>2. cb'[c].cue = cb[c].cue /\ cb'[c].revision = cb[c].revision
    BY <1>0, <2>1 DEF Moved, Locals
  <2>3. cb'[c].output.epoch = word.epoch /\ cb'[c].output.active = word.active
    BY <2>1 DEF Output
  <2> QED BY <1>0, <1>a, <2>1, <2>2, <2>3 DEF ResumedBy, Owning, Checked
<1>3. CASE LoadFloor(c)
  <2>1. /\ Moved(c, {"pc", "read"}) /\ cb[c].pc = "floor" /\ cb'[c].pc = "active"
    BY <1>3, LoadFloorMoves
  <2>2. cb'[c].cue = cb[c].cue /\ cb'[c].revision = cb[c].revision /\ cb'[c].output = cb[c].output
    BY <1>0, <2>1 DEF Moved, Locals
  <2> QED BY <1>0, <1>a, <2>1, <2>2 DEF ResumedBy, Owning, Checked
<1>4. CASE LoadActive(c)
  <2>1. /\ Moved(c, {"pc"}) /\ cb[c].pc = "active" /\ cb'[c].pc \in {"ready", "check"}
    BY <1>4, LoadActiveMoves
  <2>2. /\ cb'[c].cue = cb[c].cue /\ cb'[c].revision = cb[c].revision /\ cb'[c].output = cb[c].output
        /\ cb'[c].voice = cb[c].voice
    BY <1>0, <2>1 DEF Moved, Locals
  <2>3. ~cb[c].voice
    BY <1>0, <2>1 DEF InStream, Owning, Filling
  <2> QED BY <1>0, <1>a, <2>1, <2>2, <2>3 DEF ResumedBy, Owning, Checked
<1>5. CASE LoadReady(c)
  <2>1. /\ Moved(c, {"pc"}) /\ cb[c].pc = "ready" /\ cb'[c].pc \in {"count", "check"}
        /\ cb'[c].pc = "count" => ready = cb[c].revision
    BY <1>5, LoadReadyMoves
  <2>2. /\ cb'[c].cue = cb[c].cue /\ cb'[c].revision = cb[c].revision /\ cb'[c].output = cb[c].output
        /\ cb'[c].voice = cb[c].voice
    BY <1>0, <2>1 DEF Moved, Locals
  <2>3. ~cb[c].voice
    BY <1>0, <2>1 DEF InStream, Owning, Filling
  <2>4. cb'[c].pc = "count" /\ cb'[c].revision = revision /\ word.active => past.resumed <= pos.floor
    BY <2>1, <2>2 DEF Revised
  <2>5. SameOutput(c)' => word.active
    BY <1>a DEF SameOutput
  <2> QED BY <1>0, <1>a, <2>1, <2>2, <2>3, <2>4, <2>5 DEF ResumedBy, Owning, Checked
<1>d. ASSUME cb'[c].output = cb[c].output
      PROVE  SameOutput(c)' <=> SameOutput(c)
  BY <1>a, <1>d DEF SameOutput
<1>6. CASE LoadWrite(c) \/ CopySample(c)
  <2>1. /\ Moved(c, {"pc", "voice", "count", "cells"}) /\ cb[c].pc \in {"count", "copy"}
        /\ cb'[c].pc \in {"copy", "check"}
    BY <1>6, LoadWriteMoves, CopySampleMoves DEF Moved
  <2>2. cb'[c].cue = cb[c].cue /\ cb'[c].revision = cb[c].revision /\ cb'[c].output = cb[c].output
    BY <1>0, <2>1 DEF Moved, Locals
  <2> QED BY <1>0, <1>a, <1>d, <2>1, <2>2 DEF ResumedBy, Owning, Checked
<1>7. CASE CheckRevision(c)
  <2>1. /\ Moved(c, {"pc", "voice"}) /\ cb[c].pc = "check"
        /\ \/ cb'[c].pc = "cue" /\ ~cb'[c].voice
           \/ revision = cb[c].revision /\ cb'[c].pc = "cleared" /\ cb'[c].voice = cb[c].voice
    BY <1>7, CheckRevisionMoves
  <2>2. cb'[c].cue = cb[c].cue /\ cb'[c].revision = cb[c].revision /\ cb'[c].output = cb[c].output
    BY <1>0, <2>1 DEF Moved, Locals
  <2> QED BY <1>0, <1>a, <1>d, <2>1, <2>2 DEF ResumedBy, Owning, Checked
<1>8. CASE CheckFloor(c)
  <2>1. /\ Moved(c, {"pc", "voice", "floor"}) /\ cb[c].pc = "cleared" /\ cb'[c].pc = "cue"
        /\ (cb'[c].voice <=> cb[c].voice /\ ~(cb[c].read < pos.floor))
    BY <1>8, CheckFloorMoves DEF Cleared
  <2>2. /\ cb'[c].cue = cb[c].cue /\ cb'[c].revision = cb[c].revision /\ cb'[c].output = cb[c].output
        /\ cb'[c].read = cb[c].read
    BY <1>0, <2>1 DEF Moved, Locals
  <2>3. SameOutput(c) /\ cb'[c].voice => past.resumed <= cb[c].read
    BY <1>0, <2>1 DEF ResumedBy
  <2> QED BY <1>0, <1>a, <1>d, <2>1, <2>2, <2>3 DEF ResumedBy, Owning, Checked
<1>9. CASE LoadCue(c)
  <2>1. /\ Moved(c, {"pc", "word", "tries"}) /\ cb[c].pc = "cue"
        /\ \/ cb'[c].pc = "sample" /\ word.cue # 0 /\ cb'[c].word = word
           \/ cb'[c].pc = "final"
    BY <1>9, LoadCueMoves
  <2>2. /\ cb'[c].cue = cb[c].cue /\ cb'[c].revision = cb[c].revision /\ cb'[c].output = cb[c].output
        /\ cb'[c].read = cb[c].read /\ cb'[c].voice = cb[c].voice
    BY <1>0, <2>1 DEF Moved, Locals
  <2> QED BY <1>0, <1>a, <1>d, <2>1, <2>2 DEF ResumedBy, Owning, Checked
<1>10. CASE SampleCue(c)
  <2>1. /\ Moved(c, {"pc", "cue"}) /\ cb[c].pc = "sample"
        /\ \/ cb'[c].pc = "final" /\ cb'[c].cue \in {0, word.cue}
           \/ cb'[c].pc \in {"final", "cue"} /\ cb'[c].cue = cb[c].cue
    BY <1>10, SampleCueMoves
  <2>2. /\ cb'[c].revision = cb[c].revision /\ cb'[c].output = cb[c].output
        /\ cb'[c].read = cb[c].read /\ cb'[c].voice = cb[c].voice
    BY <1>0, <2>1 DEF Moved, Locals
  <2>3. cb[c].cue = 0
    BY <1>0, <2>1 DEF ResumedBy, Owning
  <2>4. cb'[c].cue # 0 => past.cuesBefore < cb'[c].cue
    BY <2>1, <2>3 DEF CueIsNew
  <2> QED BY <1>0, <1>a, <1>d, <2>1, <2>2, <2>3, <2>4 DEF ResumedBy, Owning, Checked
<1>11. CASE CheckOutput(c)
  <2>1. /\ Moved(c, {"pc", "voice", "cue", "resumed", "cuesBefore"}) /\ cb[c].pc = "final"
        /\ cb'[c].pc = "store"
        /\ (cb'[c].voice <=> cb[c].voice /\ SameOutput(c))
        /\ cb'[c].cue = IF SameOutput(c) THEN cb[c].cue ELSE 0
        /\ cb'[c].resumed = past.resumed /\ cb'[c].cuesBefore = past.cuesBefore
    BY <1>11, CheckOutputMoves
  <2>2. /\ cb'[c].revision = cb[c].revision /\ cb'[c].output = cb[c].output
        /\ cb'[c].read = cb[c].read
    BY <1>0, <2>1 DEF Moved, Locals
  <2>3. Sounds(c)' => cb'[c].resumed <= cb'[c].read
    BY <1>0, <2>1, <2>2 DEF ResumedBy, Checked, Sounds
  <2>4. cb'[c].cue # 0 => cb'[c].cuesBefore < cb'[c].cue
    BY <1>0, <2>1 DEF ResumedBy
  <2> QED BY <1>0, <1>a, <2>1, <2>2, <2>3, <2>4 DEF ResumedBy, Owning, Checked
<1>12. CASE StoreRead(c) \/ GrowTarget(c)
  <2>1. Moved(c, {"pc"}) /\ cb'[c].pc \in {"grow", "request"}
    BY <1>12, StoreReadMoves, GrowTargetMoves
  <2>2. cb'[c].revision = cb[c].revision
    BY <1>0, <2>1 DEF Moved, Locals
  <2> QED BY <1>0, <1>a, <2>1, <2>2 DEF ResumedBy, Owning, Checked
<1>13. CASE RequestByCallback(c)
  BY <1>13, RequestByCallbackMoves, SilenceIsLocal, <1>0, <1>a DEF ResumedBy, Owning, Checked
<1> QED BY <1>1, <1>2, <1>3, <1>4, <1>5, <1>6, <1>7, <1>8, <1>9, <1>10, <1>11, <1>12, <1>13, <1>0, <1>c DEF Render

-----------------------------------------------------------------------------
LEMMA RequestedIsSent ==
    ASSUME PlaybackTypes, Served, signal' = Requested
    PROVE  signal'.pending /\ signal'.sent = 1
BY DEF Served, Requested

\* Served speaks of these alone.
LEMMA ServedAlike ==
    ASSUME Served, UNCHANGED <<signal, fill, aim, pos, revision, ready>>, word'.active = word.active,
           Quiet' => Quiet
    PROVE  Served'
BY DEF Served, Available

LEMMA ServedElsewhere ==
    ASSUME PlaybackTypes, PlaybackTypes', Aimed, Served, Elsewhere
    PROVE  Served'
<1>0. /\ word \in Words /\ fill \in Fills /\ revision \in Nat /\ Frame \in Nat \ {0}
      /\ signal \in [pending : BOOLEAN, sent : Nat]
  BY PlaybackAssumption DEF PlaybackTypes
<1>a. UNCHANGED cb
  BY ElsewhereKeeps
<1>b. UNCHANGED signal /\ UNCHANGED life => (Quiet' <=> Quiet)
  BY <1>a DEF Quiet
<1>1. CASE WakeUp
  BY <1>0, <1>1 DEF WakeUp, Fills, Served
<1>2. CASE LookAtRevision
  BY <1>0, <1>2 DEF LookAtRevision, Fills, Served
<1>3. CASE ClearRing
  BY <1>0, <1>3, <1>b DEF ClearRing, Fills, Served
<1>4. CASE LookAtActive
  <2> DEFINE target == RoundUp(aim.target)
  <2>1. /\ fill.pc = "active" /\ fill'.revision = fill.revision
        /\ UNCHANGED <<signal, revision, life, pos, word, ready>>
        /\ \/ fill'.pc = "grow" /\ fill'.target = target /\ aim' = [aim EXCEPT !.reserve = target]
           \/ fill'.pc = "idle" /\ fill'.wanted = fill.wanted /\ ~(fill.wanted /\ word.active)
    BY <1>0, <1>4 DEF LookAtActive, Fills
  <2>2. aim.target <= target
    BY Records, RoundedUp
  <2> HIDE DEF target
  <2>3. fill'.pc = "grow" => aim'.target = aim.target
    BY <2>1 DEF PlaybackTypes
  <2> QED BY <1>b, <2>1, <2>2, <2>3 DEF Served
<1>5. CASE LookAtBudget
  BY <1>0, <1>5, Records, AvailableIs, RoundedUp, <1>b DEF LookAtBudget, Fills, Larger,
     Available, Served
<1>6. CASE PushSamples
  BY <1>0, <1>6, <1>b DEF PushSamples, Fills, Served, Available
<1>7. CASE PushWrite
  <2>1. /\ UNCHANGED <<signal, revision, life, aim, word, ready>> /\ fill.stored
        /\ fill'.pc = fill.pc /\ fill'.target = fill.target /\ fill'.pushes = fill.pushes - 1
        /\ fill'.revision = fill.revision /\ fill'.wanted = fill.wanted /\ fill'.then = fill.then
        /\ pos'.write = pos.write + Frame /\ pos'.read = pos.read /\ pos'.floor = pos.floor
    BY <1>0, <1>7 DEF PushWrite, Fills, PlaybackTypes
  <2>2. fill.pc \in {"grow", "decode"}
    BY <2>1 DEF PlaybackTypes
  <2>3. Available' = Available + Frame /\ Available \in Nat
    BY <1>0, <2>1, Records DEF Aimed, Available, Larger
  <2> DEFINE product == fill.pushes * Frame
  <2>4. (fill.pushes - 1) * Frame = product - Frame /\ product \in Nat
    BY Records, Products
  <2>5. Available' + fill'.pushes * Frame = Available + product
    BY <1>0, <2>1, <2>3, <2>4
  <2> QED BY <1>b, <2>1, <2>2, <2>5 DEF Served
<1>8. CASE SayPrepared
  BY <1>0, <1>8, AvailableIs, Records, <1>b DEF SayPrepared, Fills, PreparedFor, Available,
     Served
<1>9. CASE ClearByCommand
  BY <1>0, <1>9 DEF ClearByCommand, Fills, Served
<1>10. CASE RequestByCommand \/ RequestByLife
  BY <1>0, <1>10, RequestedIsSent DEF RequestByCommand, RequestByLife, Fills, Served, Quiet
<1>11. CASE PlayCue
  BY <1>0, <1>11, <1>b DEF PlayCue, Fills, Served, Available
<1>12. CASE PlayInEpoch
  BY <1>0, <1>12, <1>b DEF PlayInEpoch, Fills, Words, Served, Available
<1>13. CASE StopCue \/ CueLate \/ Pending
  BY <1>0, <1>13, <1>b, ServedAlike DEF StopCue, CueLate, Pending, Words
<1>14. CASE SetActive \/ Reconfigure \/ Revise
  BY <1>14 DEF SetActive, Reconfigure, Revise, Served, Quiet
<1> QED BY <1>1, <1>2, <1>3, <1>4, <1>5, <1>6, <1>7, <1>8, <1>9, <1>10, <1>11, <1>12, <1>13, <1>14
        DEF Elsewhere, Session

LEMMA ServedRender ==
    ASSUME PlaybackTypes, Served, NEW c \in Callbacks, Render(c)
    PROVE  Served'
<1>1. CASE StoreRead(c) \/ GrowTarget(c)
  BY <1>1, StoreReadMoves, GrowTargetMoves DEF Quiet, Served
<1>2. CASE RequestByCallback(c)
  BY <1>2, RequestByCallbackMoves, RequestedIsSent DEF Served, Quiet
<1>3. ASSUME ~StoreRead(c), ~GrowTarget(c), ~RequestByCallback(c)
      PROVE  Served'
  <2>1. UNCHANGED <<signal, fill, aim, pos, revision, ready, life>>
    BY <1>3 DEF Render, Begin, LoadOutput, LoadFloor, LoadActive, LoadReady, LoadWrite, CopySample,
                CheckRevision, CheckFloor, LoadCue, SampleCue, CheckOutput, sharedVars
  <2>2. cb[c].pc \in Owning \union {"idle"}
    BY <1>3 DEF Render, Begin, LoadOutput, LoadFloor, LoadActive, LoadReady, LoadWrite, CopySample,
                CheckRevision, CheckFloor, LoadCue, SampleCue, CheckOutput, Owning
  <2>3. Quiet' => Quiet
    BY <2>1, <2>2, RenderOwns DEF Quiet, Owning
  <2>4. word'.active = word.active
    BY RenderKeeps
  <2> QED BY <2>1, <2>3, <2>4, ServedAlike
<1> QED BY <1>1, <1>2, <1>3

-----------------------------------------------------------------------------
PlaybackInv ==
    /\ PlaybackTypes /\ OneOwns /\ Aimed /\ Stored /\ TakesStream
    /\ Revised /\ CueIsNew /\ Resumed /\ Served

LEMMA PlaybackStarts ==
    ASSUME PlaybackInit
    PROVE  PlaybackInv
<1>0. /\ Frame \in Nat \ {0} /\ Capacity \in Nat /\ Capacity >= 1
      /\ Prepared \in Nat /\ Prepared <= MaxTarget /\ MaxTarget \in Nat /\ Prepared % Frame = 0
  BY PlaybackAssumption, MaxTargetFits
<1>1. \A c \in Callbacks : cb[c] = Silence
  BY DEF PlaybackInit
<1>2. PlaybackTypes
  <2>1. word \in Words
    BY DEF PlaybackInit, Words
  <2>2. fill \in Fills /\ ~fill.stored
    BY <2>1 DEF PlaybackInit, Fills
  <2>3. past \in Pasts
    BY DEF PlaybackInit, Pasts
  <2>4. cb \in [Callbacks -> Locals]
    BY SilenceIsLocal DEF PlaybackInit
  <2>a. ring \in [0 .. Capacity - 1 -> Int]
    BY DEF PlaybackInit
  <2>b. pos \in [read : Nat, write : Nat, floor : Nat]
    BY DEF PlaybackInit
  <2>5. /\ rendering \in BOOLEAN /\ revision \in Nat /\ ready \in Nat \union {-1}
        /\ signal \in [pending : BOOLEAN, sent : Nat] /\ late \in BOOLEAN
        /\ life \in {"idle", "revise", "request"}
    BY DEF PlaybackInit
  <2>6. aim \in [target : Nat, reserve : Nat]
    BY <1>0 DEF PlaybackInit
  <2> QED BY <2>1, <2>2, <2>3, <2>4, <2>5, <2>6, <2>a, <2>b DEF PlaybackTypes
<1>a. \A c \in Callbacks : cb[c].pc = "idle" /\ cb[c].revision = 0
  BY <1>1, SilenceIsLocal
<1>b. /\ pos.read = 0 /\ pos.write = 0 /\ pos.floor = 0 /\ fill.pushes = 0 /\ fill.pc = "idle"
      /\ ~fill.stored /\ fill.revision = 0 /\ revision = 0 /\ ready = -1
      /\ word.active /\ word.cue = 0 /\ past.resumed = 0 /\ past.heard = 0
      /\ past.cues = 0 /\ past.cuesBefore = 0 /\ signal.pending /\ signal.sent = 1
      /\ aim.target = Prepared /\ aim.reserve = Prepared
  BY DEF PlaybackInit
<1>3. OneOwns
  BY <1>a DEF OneOwns, Owning
<1>4. Aimed
  BY <1>b, <1>0, RoundedUp DEF Available, Larger, Aimed
<1>5. Stored
  BY <1>b DEF Live, Larger, Stored
<1>6. TakesStream
  BY <1>a, <1>b DEF TakesStream, InStream, Reading, Filling, Checked, Owning
<1>7. Revised
  BY <1>b DEF Revised, Paused, UpToDate
<1>8. CueIsNew
  BY <1>b DEF CueIsNew
<1>9. Resumed
  BY <1>a, <1>b DEF Resumed, ResumedBy, Owning, Checked
<1>10. Served
  BY <1>b DEF Served, Quiet
<1> QED BY <1>2, <1>3, <1>4, <1>5, <1>6, <1>7, <1>8, <1>9, <1>10 DEF PlaybackInv

LEMMA PlaybackInvNext ==
    ASSUME PlaybackInv, [PlaybackNext]_playbackVars
    PROVE  PlaybackInv'
<1>1. CASE PlaybackNext
  <2>1. PlaybackTypes' /\ OneOwns' /\ Aimed' /\ Stored' /\ Revised' /\ CueIsNew'
    BY <1>1, TypesNext, OneOwnsNext, AimedNext, StoredNext, RevisedNext, CueIsNewNext DEF PlaybackInv
  <2>2. Elsewhere \/ \E c \in Callbacks : Render(c)
    BY <1>1 DEF PlaybackNext, Elsewhere
  <2>3. TakesStream' /\ Resumed' /\ Served'
    BY <2>1, <2>2, TakesStreamElsewhere, TakesStreamRender, ResumedElsewhere, ResumedRender,
       ServedElsewhere, ServedRender DEF PlaybackInv
  <2> QED BY <2>1, <2>3 DEF PlaybackInv
<1>2. CASE UNCHANGED playbackVars
  <2>1. PlaybackTypes' /\ OneOwns' /\ Aimed' /\ Stored'
    BY <1>2 DEF PlaybackInv, playbackVars, PlaybackTypes, OneOwns, Aimed, Stored, Available, Live
  <2>2. TakesStream'
    BY <1>2 DEF PlaybackInv, playbackVars, TakesStream, InStream, Taken
  <2>3. Revised' /\ CueIsNew'
    BY <1>2 DEF PlaybackInv, playbackVars, Revised, CueIsNew, UpToDate, Paused
  <2>4. Resumed'
    BY <1>2 DEF PlaybackInv, playbackVars, Resumed, ResumedBy, SameOutput, Output, Sounds
  <2>5. Served'
    BY <1>2 DEF PlaybackInv, playbackVars, Served, Quiet, Available
  <2> QED BY <2>1, <2>2, <2>3, <2>4, <2>5 DEF PlaybackInv
<1> QED BY <1>1, <1>2

LEMMA PlaybackInvHolds == PlaybackSpec => []PlaybackInv
<1>1. PlaybackInit => PlaybackInv
  BY PlaybackStarts
<1>2. PlaybackInv /\ [PlaybackNext]_playbackVars => PlaybackInv'
  BY PlaybackInvNext
<1> QED BY <1>1, <1>2, PTL DEF PlaybackSpec

\* What a callback of playback.rs hands to the device is a stretch of what the session
\* decoded: each sample of the ring is the one of its position, none was cleared before
\* the floor was looked at again, and none is given a second time, however many threads
\* the device has and wherever they stop.
THEOREM HeardIsTheStream == PlaybackSpec => []HeardIsWhole
<1>1. PlaybackInv => HeardIsWhole
  <2> SUFFICES ASSUME PlaybackInv, NEW c \in Callbacks, cb[c].pc = "store", Sounds(c)
               PROVE  /\ \A i \in DOMAIN cb[c].cells : cb[c].cells[i] = cb[c].read + i - 1
                      /\ cb[c].read >= cb[c].floor /\ cb[c].read >= past.heard
    BY DEF HeardIsWhole
  <2>1. InStream(c) /\ past.heard <= pos.read /\ PlaybackTypes
    BY DEF PlaybackInv, TakesStream
  <2>2. Taken(c) /\ cb[c].floor <= cb[c].read /\ pos.read <= cb[c].read
    BY <2>1 DEF InStream, Sounds, Filling, Checked, Reading, Owning
  <2>3. cb[c].read \in Nat /\ cb[c].floor \in Nat
    BY <2>1 DEF PlaybackTypes, Locals
  <2> DEFINE read == cb[c].read
  <2>4. read >= past.heard
    BY <2>1, Records, <2>2, <2>3
  <2>5. cb[c].read >= cb[c].floor
    BY <2>2, <2>3
  <2> QED BY <2>2, <2>4, <2>5 DEF Taken
<1> QED BY <1>1, PlaybackInvHolds, PTL

\* An output that was paused and resumed gives nothing of before: the session fills for
\* a new revision only after it cleared the ring, and a callback gives only what it took in
\* the output and for the revision that it finds again at its end.
THEOREM NothingOldIsResumed == PlaybackSpec => []ResumedIsFresh
<1>1. PlaybackInv => ResumedIsFresh
  BY DEF ResumedIsFresh, PlaybackInv, Resumed, PlaybackTypes, Locals, ResumedBy
<1> QED BY <1>1, PlaybackInvHolds, PTL

\* Nobody waits for the other: a request is pending whenever something was taken, wished or
\* revised that the session has not looked at, and what it pushes always has its place.
THEOREM NobodyWaits == PlaybackSpec => []RestIsFilled
<1>1. PlaybackInv => RestIsFilled
  BY PushFits, AvailableIs, Records DEF PlaybackInv, Quiet, Served, RestIsFilled
<1> QED BY <1>1, PlaybackInvHolds, PTL

============================================================================
