---------------------------- MODULE JitterQueue ----------------------------
(***************************************************************************)
(* The queue of one talker (tsclientlib_audio.rs, AudioQueue and its       *)
(* AudioHandler): the network loses, delays, reorders and repeats packets  *)
(* whose 16 bit numbers wrap; the playback decodes a frame at a time, with *)
(* error correction or concealment where packets are missing, waits at the *)
(* start, catches up when too much is queued and forgets a talker that has *)
(* ended. A member is shown as speaking while the queue is there.          *)
(*                                                                         *)
(* A sample of the program is 1 / (USUAL_FRAME_SIZE / Usual) here; the     *)
(* window of the last LAST_BUFFER_SIZE_COUNT queue sizes is kept as such,  *)
(* where the program keeps what its minimum and maximum need.              *)
(***************************************************************************)
EXTENDS PacketIds, Sequences, SequencesExt, FiniteSetsExt

CONSTANTS
    MaxBufferPackets,   \* MAX_BUFFER_PACKETS, also the reach of a number
    MaxPacketLosses,    \* MAX_PACKET_LOSSES
    MaxFrames,      \* MAX_BUFFER_SIZE / USUAL_FRAME_SIZE
    MaxWait,        \* MAX_BUFFER_TIME
    Usual,          \* USUAL_FRAME_SIZE
    SpeedChangeSteps,   \* SPEED_CHANGE_STEPS
    LastCount,      \* LAST_BUFFER_SIZE_COUNT
    Lengths,        \* samples of a packet
    Frame,          \* samples the playback asks for
    Averages,       \* avg_buffer_samples, from the queues of other talkers
    FirstSent,      \* number of the first packet that is looked at
    MaxSent,        \* bound: packets sent
    Reach           \* bound: how many packets a late one may be behind

ASSUME JitterAssumption ==
    /\ MaxBufferPackets \in Nat \ {0} /\ 2 * MaxBufferPackets < Ids
    /\ Reach \in Nat \ {0} /\ Reach + MaxBufferPackets < Ids
    /\ MaxPacketLosses \in Nat /\ MaxFrames \in Nat /\ MaxWait \in Nat
    /\ Usual \in Nat \ {0} /\ SpeedChangeSteps \in Nat \ {0, 1} /\ LastCount \in Nat \ {0}
    /\ Lengths \subseteq Nat \ {0} /\ Frame \in Nat /\ Averages \subseteq Nat
    /\ FirstSent \in Nat /\ MaxSent \in Nat

VARIABLES
    talker,         \* AudioQueue of the talker, or NoQueue
    sent,           \* packets the talker has sent
    arriving        \* the last of them, that may still arrive

jitterVars == <<talker, sent, arriving>>

\* n is the position of a packet in the stream; what it carries is the number Id(n).
Packet == [n : Nat, samples : Lengths \cup {0}, bad : BOOLEAN]
NoPacket == [n |-> 0, samples |-> 0, bad |-> FALSE]
IsEnd(p) == p.samples = 0

\* next_id is the number of the position next; heard is what was decoded last.
Queue == [next : Nat, buf : Seq(Packet), samples : Nat, decoded : Nat, last : Nat,
          lost : Nat, buffering : Nat, waited : Nat, sizes : Seq(Nat), heard : Nat]
NoQueue == [next |-> 0, buf |-> << >>, samples |-> 0, decoded |-> 0, last |-> 0,
            lost |-> 0, buffering |-> 0, waited |-> 0, sizes |-> << >>, heard |-> 0]

\* Distance of two numbers, as wrapping_sub gives it.
IdOf(p) == Id(p.n)
Ahead(id, base) == (id - base) % Ids
Samples(buf) ==
    LET First[k \in 0 .. Len(buf)] == IF k = 0 THEN 0 ELSE First[k - 1] + buf[k].samples
    IN First[Len(buf)]
Monus(a, b) == IF a > b THEN a - b ELSE 0

\* SlidingWindowMinimum::push, the greatest and the least of what it keeps.
Pushed(sizes, size) ==
    LET longer == Append(sizes, size)
    IN IF Len(longer) > LastCount THEN Tail(longer) ELSE longer
Least(q) == Min(ToSet(q.sizes))
Deviation(q) == Max(ToSet(q.sizes)) - Least(q)

JitterInit == talker = NoQueue /\ sent = FirstSent /\ arriving = << >>

------------------------------------------------------------------------------
(* AudioHandler::handle_packet.                                            *)

\* Mutant of AtOrAfter: numbers are compared as if they did not wrap.
AtOrAfterUnwrapped(q, p) ==
    Max({k \in 0 .. Len(q.buf) :
            \A i \in Len(q.buf) - k + 1 .. Len(q.buf) : IdOf(q.buf[i]) >= IdOf(p)})

\* How many at the end of the buffer have the number of p or a greater one.
AtOrAfter(q, p) ==
    Max({k \in 0 .. Len(q.buf) :
            \A i \in Len(q.buf) - k + 1 .. Len(q.buf) :
                Ahead(IdOf(q.buf[i]), IdOf(p)) <= MaxBufferPackets})

Accepts(q, p) ==
    /\ Len(q.buf) < MaxBufferPackets
    /\ Ahead(IdOf(p), Id(q.next)) <= MaxBufferPackets
    /\ AtOrAfter(q, p) > 0 => IdOf(q.buf[Len(q.buf) - AtOrAfter(q, p) + 1]) # IdOf(p)

\* Mutant of Awaited: the subtractions do not saturate.
AwaitedBelowZero(q, p) ==
    LET expected == IF q.buf = << >> THEN IdOf(p) ELSE (IdOf(Last(q.buf)) + 1) % Ids
    IN IF expected <= IdOf(p)
       THEN q.buffering - p.samples - (IdOf(p) - expected) * q.last
       ELSE q.buffering

\* The wait at the start gets shorter by what came and by what is missing before it.
Awaited(q, p) ==
    LET expected == IF q.buf = << >> THEN IdOf(p) ELSE (IdOf(Last(q.buf)) + 1) % Ids
    IN IF expected <= IdOf(p)
       THEN Monus(q.buffering, p.samples + (IdOf(p) - expected) * q.last)
       ELSE q.buffering

WithPacket(q, p) ==
    [q EXCEPT !.buf = InsertAt(@, Len(@) - AtOrAfter(q, p) + 1, p),
              !.samples = @ + p.samples,
              !.buffering = Awaited(q, p)]

\* AudioQueue::new, which counts the last packet in both channels.
NewQueue(p, buffering) ==
    [WithPacket([NoQueue EXCEPT !.next = p.n, !.last = 2 * p.samples, !.sizes = <<0>>], p)
        EXCEPT !.buffering = buffering]

HandlePacket ==
    \E p \in ToSet(arriving) :
        /\ IF talker # NoQueue THEN Accepts(talker, p) /\ talker' = WithPacket(talker, p)
           ELSE /\ ~IsEnd(p)
                /\ \E buffering \in Averages : talker' = NewQueue(p, buffering)
        /\ UNCHANGED <<sent, arriving>>

------------------------------------------------------------------------------
(* AudioHandler::fill_buffer_with_proc, for the playback's next frame.     *)

\* Mutant of Decoded: concealment does not count as a loss.
DecodedAsHeard(q, p, fec) ==
    LET size == IF p = NoPacket THEN q.last ELSE p.samples
    IN [q EXCEPT !.decoded = @ + size, !.last = size,
                 !.lost = IF ~fec THEN 0 ELSE @ + 1,
                 !.sizes = Pushed(@, q.samples \div Usual)]

\* decode_packet: a packet, its correction of the one before it, or concealment
\* (NoPacket).
Decoded(q, p, fec) ==
    LET size == IF p = NoPacket THEN q.last ELSE p.samples
        missing == IF q.buf = << >> THEN 0
                   ELSE Ahead(IdOf(Last(q.buf)), Id(q.next)) + 1 - Len(q.buf)
    IN [q EXCEPT !.decoded = @ + size,
                 !.last = size,
                 !.lost = IF p # NoPacket /\ ~fec THEN 0 ELSE @ + 1,
                 !.sizes = Pushed(@, (q.samples + missing * size) \div Usual)]

\* The first packet leaves the buffer, and the number of the next one is counted.
Taken(q) ==
    [q EXCEPT !.buf = Tail(@), !.samples = @ - Head(q.buf).samples, !.next = @ + 1]

DecodedNext[q \in Queue] ==
    IF q.buf = << >> THEN Decoded(q, NoPacket, FALSE)
    ELSE LET p == Head(q.buf)
             rest == Taken(q)
             again == IF IdOf(p) = Id(rest.next) THEN Decoded(rest, p, TRUE)
                      ELSE Decoded(rest, NoPacket, FALSE)
         IN IF IdOf(p) = Id(q.next) THEN [Decoded(rest, p, FALSE) EXCEPT !.heard = p.n]
            ELSE [again EXCEPT !.buf = <<p>> \o @, !.samples = @ + p.samples]

\* The end of the stream has come up, or a packet that cannot be decoded.
Stops(q) ==
    q.buf # << >> /\
        LET p == Head(q.buf)
        IN IsEnd(p) \/ (p.bad /\ Ahead(IdOf(p), Id(q.next)) \in {0, 1})

\* For long the queue has held too much: most of it is dropped.
Truncated(q) ==
    LET Kept(k) == SubSeq(q.buf, Len(q.buf) - k + 1, Len(q.buf))
        kept == Kept(Max({k \in 0 .. Len(q.buf) :
                             k = 0 \/ Samples(Kept(k)) < Least(q) + Usual}))
    IN [q EXCEPT !.buf = kept, !.samples = Samples(kept),
                 !.next = IF kept = << >> THEN @ ELSE Head(kept).n]

\* It has held more than the network varies: a little is left out.
CaughtUp[q \in Queue] ==
    IF Least(q) > MaxFrames THEN Truncated(q)
    ELSE IF Least(q) > Deviation(q) THEN [q EXCEPT !.decoded = @ - q.last \div SpeedChangeSteps]
    ELSE q

\* One round of the loop of get_next_data; what it decodes and keeps is never empty.
Round[q \in Queue] ==
    IF q = NoQueue \/ q.decoded >= Frame THEN q
    ELSE IF Stops(q) THEN NoQueue
    ELSE CaughtUp[DecodedNext[q]]

\* get_next_data, once the buffering is over: Frame rounds decode a frame.
NextData(q) ==
    LET After[k \in 0 .. Frame] == IF k = 0 THEN q ELSE Round[After[k - 1]]
    IN IF After[Frame] = NoQueue THEN NoQueue
       ELSE [After[Frame] EXCEPT !.decoded = @ - Frame]

\* A talker that has gone is removed, unless packets came in the last moment.
Gone(q) == q.lost >= MaxPacketLosses /\ q.buf = << >>

FillBuffer ==
    /\ talker # NoQueue
    /\ talker' = IF Gone(talker) THEN NoQueue
                ELSE IF talker.buffering > 0 /\ talker.waited < MaxWait
                THEN [talker EXCEPT !.waited = @ + 2 * Frame]
                ELSE NextData(IF talker.buffering > 0
                              THEN [talker EXCEPT !.buffering = 0, !.waited = 0] ELSE talker)
    /\ UNCHANGED <<sent, arriving>>

\* AudioHandler::reset and the removal of a member: a channel is left, all is muted.
ResetQueue == talker # NoQueue /\ talker' = NoQueue /\ UNCHANGED <<sent, arriving>>

------------------------------------------------------------------------------
(* The talker and the network (external).                                  *)

\* A packet is sent, the end of a talk too; what is older than Reach is lost by now.
Talk ==
    /\ sent < FirstSent + MaxSent
    /\ sent' = sent + 1
    /\ \E samples \in Lengths \cup {0}, bad \in BOOLEAN :
        /\ samples = 0 => ~bad
        /\ LET longer == Append(arriving, [n |-> sent', samples |-> samples, bad |-> bad])
           IN arriving' = IF Len(longer) > Reach THEN Tail(longer) ELSE longer
    /\ UNCHANGED talker

JitterNext == HandlePacket \/ FillBuffer \/ ResetQueue \/ Talk

\* The playback asks for frames as long as it is active.
JitterFairness == WF_jitterVars(FillBuffer)

JitterSpec == JitterInit /\ [][JitterNext]_jitterVars /\ JitterFairness

------------------------------------------------------------------------------
(* Properties.                                                             *)

\* The counts of a queue are usize: none of the subtractions goes below zero, in
\* particular not the one that counts the missing packets of a decoded queue
\* (AudioQueue::decode_packet) nor that of the samples that leave the buffer.
JitterTypeOK == talker \in Queue /\ sent \in Nat /\ arriving \in Seq(Packet)

\* The packets of a queue are in the order they were sent in, each once, none from
\* before what was heard, and the queue knows how much they are, with no count below
\* zero, though numbers wrap, packets come late, twice or never, and a part of the
\* queue is dropped
\* ("malformed_packets_preserve_invariants_and_other_talkers").
QueueInOrder ==
    /\ JitterTypeOK
    /\ talker.samples = Samples(talker.buf)
    /\ \A i \in DOMAIN talker.buf :
        /\ talker.buf[i].n > talker.heard
        /\ i > 1 => talker.buf[i].n > talker.buf[i - 1].n
        /\ Ahead(IdOf(talker.buf[i]), Id(talker.next)) <= MaxBufferPackets

\* Nobody is shown as speaking for ever: whatever is lost, a talker's queue ends.
TalkerEnds == talker # NoQueue ~> talker = NoQueue
=============================================================================
