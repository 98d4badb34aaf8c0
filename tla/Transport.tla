----------------------------- MODULE Transport -----------------------------
(***************************************************************************)
(* The reliable half of the voice protocol: commands that are split,       *)
(* numbered, sent until they are acknowledged, and put in order again      *)
(* (tsproto: resend.rs, packet_codec.rs, connection.rs).                   *)
(*                                                                         *)
(* Both ends run the same code. The module takes the sending half of one   *)
(* and the receiving half of the other, over a network that loses, delays, *)
(* reorders and duplicates. A packet is its position n in the stream: its  *)
(* packet_id is n modulo Ids, its generation n divided by Ids. What an end *)
(* reads off a packet is its id; it proves to be of a generation only when *)
(* it is decrypted. Compression is left out. An ack that waits for the     *)
(* socket (acks_to_send), or for an end that stopped reading because of    *)
(* them, is on the wire: it is as late as a slow network would make it.    *)
(***************************************************************************)
EXTENDS PacketIds, FiniteSetsExt, SequencesExt

CONSTANTS
    QueueLen,       \* MAX_QUEUE_LEN, 200 in the program
    Fragments,      \* MAX_FRAGMENTS_LENGTH, 40960 bytes in the program, in packets
    Windows,        \* the congestion windows: CUBIC, from 1 to half of the ids
    Start,          \* the packets that were sent and acknowledged before
    MaxPackets,     \* bound: the packets a run adds to them
    MaxParts,       \* bound: the packets of one command
    MaxLosses,      \* bound: the datagrams the network loses
    MaxCopies       \* bound: how many copies of an early packet are kept

ASSUME TransportAssumption ==
    /\ QueueLen \in Nat \ {0} /\ QueueLen < Ids \div 2
    /\ Fragments \in Nat \ {0}
    /\ Windows \subseteq Nat \ {0} /\ Windows # {}
    /\ Start \in Nat /\ MaxPackets \in Nat /\ MaxParts \in Nat \ {0}
    /\ MaxLosses \in Nat /\ MaxCopies \in Nat \ {0}

VARIABLES
    commands,   \* history: the commands handed to send_packet, each the sequence of its packets
    outgoing,   \* outgoing_p_ids: the position of the next packet
    queue,      \* the Resender's queues, below
    wire,       \* the packets and the acks under way
    incoming,   \* incoming_p_ids: the id of the next packet in order
    receiveQueue,   \* receive_queue: the copies of each packet that came too early
    fragmented,     \* fragmented_queue: the packets of an unfinished command
    received,   \* the commands handed to the application
    lost        \* the ends that gave the connection up

vars == <<commands, outgoing, queue, wire, incoming, receiveQueue, fragmented, received, lost>>

receiverVars == <<incoming, receiveQueue, fragmented, received>>

Positions == Start .. Start + MaxPackets - 1

\* full is full_send_queue, the unacknowledged packets, TRUE for those that were
\* sent; heap is send_queue, what may be sent now, with the flag it was put in
\* with (like copies of an entry count once); index is send_queue_indices, where the heap ends in full.
Queues ==
    [full : UNION {[records -> BOOLEAN] : records \in SUBSET Positions},
     heap : SUBSET [at : Positions, tried : BOOLEAN],
     index : Nat]

EmptyQueue == [full |-> << >>, heap |-> {}, index |-> 0]

TypeOK ==
    /\ commands \in Seq(Seq(Positions))
    /\ outgoing \in Start .. Start + MaxPackets
    /\ queue \in Queues
    /\ wire \in [packets : SUBSET Positions, acks : SUBSET Positions, losses : 0 .. MaxLosses]
    /\ incoming \in Nat
    /\ receiveQueue \in [Positions -> 0 .. MaxCopies]
    /\ fragmented \in Seq(Positions) /\ Len(fragmented) <= Fragments
    /\ received \in Seq(Seq(Positions))
    /\ lost \subseteq {"sender", "receiver"}

-----------------------------------------------------------------------------
(* Sending.                                                                *)

\* The id of the record a packet is queued under. encode_packet takes the
\* generation behind the packet, so that of the last id of a generation is one
\* too high, and the record sorts behind those of the next generation.
RecordId(n) == IF Id(n) = Ids - 1 THEN n + Ids ELSE n

\* The records from an id on and before a record.
Between(q, from, n) ==
    {m \in DOMAIN q.full : RecordId(m) >= from /\ RecordId(m) < RecordId(n)}

\* fill_up_send_queue: the first records from the index on, up to the window.
Fills(q, window, n) ==
    /\ RecordId(n) >= q.index
    /\ Cardinality(Between(q, q.index, n)) < window - Cardinality(q.heap)

Filled(q, window) ==
    LET new == {n \in DOMAIN q.full : Fills(q, window, n)}
    IN  [q EXCEPT !.heap = @ \union {[at |-> n, tried |-> q.full[n]] : n \in new},
                  !.index = Max({@} \union {RecordId(n) + 1 : n \in new})]

\* Resender::send_packet for one packet.
\* Mutant of Queued: the index stays where it is when a record is put below it.
Recorded(q, n) == [m \in DOMAIN q.full \union {n} |-> IF m = n THEN FALSE ELSE q.full[m]]

QueuedAbove(q, n, window) == Filled([q EXCEPT !.full = Recorded(q, n)], window)

Queued(q, n, window) ==
    Filled([full |-> Recorded(q, n), heap |-> q.heap,
            index |-> IF RecordId(n) < q.index THEN RecordId(n) ELSE q.index], window)

\* Connection::send_packet: the packets of a command are queued one after the other.
Enqueued(parts, window) ==
    LET after[i \in 0 .. parts] ==
            IF i = 0 THEN queue ELSE Queued(after[i - 1], outgoing + i - 1, window)
    IN  after[parts]

\* Connection::send_packet: a command is split, and each of its packets queued.
Send(parts) ==
    /\ "sender" \notin lost
    /\ outgoing + parts <= Start + MaxPackets
    /\ commands' = Append(commands, [i \in 1 .. parts |-> outgoing + i - 1])
    /\ \E window \in Windows : queue' = Enqueued(parts, window)
    /\ outgoing' = outgoing + parts
    /\ UNCHANGED <<wire, receiverVars, lost>>

\* The heap hands out what was never sent before what was.
IsNext(r) ==
    /\ "sender" \notin lost
    /\ r \in queue.heap
    /\ r.tried => \A s \in queue.heap : s.tried

\* poll_resend: an entry whose record was acknowledged makes room for others.
DropAcknowledged(r) ==
    /\ IsNext(r) /\ r.at \notin DOMAIN queue.full
    /\ \E window \in Windows :
         queue' = Filled([full |-> queue.full, heap |-> queue.heap \ {r},
                          index |-> queue.index], window)
    /\ UNCHANGED <<commands, outgoing, wire, receiverVars, lost>>

\* poll_resend: a packet is sent, and once more when its retransmission timeout
\* is over. The second time the congestion window shrinks, and the heap is filled
\* again from the front.
Transmit(r) ==
    /\ IsNext(r) /\ r.at \in DOMAIN queue.full
    /\ IF r.tried
       THEN \E window \in Windows :
              queue' = Filled([full |-> queue.full, heap |-> {}, index |-> 0], window)
       ELSE queue' = [full |-> [queue.full EXCEPT ![r.at] = TRUE],
                      heap |-> (queue.heap \ {r}) \union {[at |-> r.at, tried |-> TRUE]},
                      index |-> queue.index]
    /\ wire' = [wire EXCEPT !.packets = @ \union {r.at}]
    /\ UNCHANGED <<commands, outgoing, receiverVars, lost>>

\* poll_resend: a packet that is due was queued too long ago.
GiveUp(r) ==
    /\ IsNext(r) /\ r.at \in DOMAIN queue.full
    /\ lost' = lost \union {"sender"}
    /\ UNCHANGED <<commands, outgoing, queue, wire, receiverVars>>

\* Resender::ack_packet: the id alone names the record; its generation is
\* guessed from the first record.
IsFirst(q, n) == n \in DOMAIN q.full /\ Between(q, 0, n) = {}

AckPacket(q, id) ==
    LET records == DOMAIN q.full
        first == CHOOSE n \in records : IsFirst(q, n)
        named == {n \in records :
                    \/ n = first /\ Id(first) = id
                    \/ /\ Id(first) # id
                       /\ Id(n) = id
                       /\ Generation(RecordId(n)) =
                            Generation(RecordId(first)) + IF id < Id(first) THEN 1 ELSE 0}
    IN  IF records = {} THEN q
        ELSE [q EXCEPT !.full = [n \in records \ named |-> @[n]]]

-----------------------------------------------------------------------------
(* Receiving. A datagram may arrive again and again until it is lost.       *)

\* No datagram is on its way for longer than half of the ids take.
OnWire(n, datagrams) == n \in datagrams /\ outgoing - n <= Ids \div 2

\* The first and the last packet of a command of several carry the flag.
IsFragmented(n) ==
    \E i \in DOMAIN commands :
        Len(commands[i]) > 1 /\ n \in {Head(commands[i]), Last(commands[i])}

\* receive_queue keeps the order of arrival: of two packets with one id the
\* earlier position came first, and is the one that is found.
Kept == {p \in Positions : receiveQueue[p] > 0}
\* Mutant of Behind: a packet further ahead will do as well.
BehindOrAhead(k) == {p \in Kept : Id(p) >= Id(incoming + k)}

Behind(k) == {p \in Kept : Id(p) = Id(incoming + k)}
Found(k) == Min(Behind(k))

\* handle_command_packet: the packets taken with the one that was waited for are
\* found by their ids, one after the other. Bound: a row is shorter than a round.
InRow == Max({k \in 0 .. Ids - 1 : \A i \in 1 .. k : Behind(i) # {}})

Left(count) ==
    [p \in Positions |->
        IF \E k \in 1 .. count : p = Found(k) THEN receiveQueue[p] - 1 ELSE receiveQueue[p]]

\* A packet in the middle of a command of several is appended up to a length.
\* Mutant of Extended: one packet more than fits is let in.
ExtendedByTwo(s, n) ==
    IF Len(s.fragmented) <= Fragments
    THEN [s EXCEPT !.fragmented = Append(@, n)] ELSE [s EXCEPT !.tooLong = TRUE]

Extended(s, n) ==
    IF Len(s.fragmented) < Fragments
    THEN [s EXCEPT !.fragmented = Append(@, n)] ELSE [s EXCEPT !.tooLong = TRUE]

\* One packet in its turn: with the flag it starts or ends a command of several,
\* without it is in the middle of one, or a command of its own.
Joined(s, n) ==
    CASE IsFragmented(n) /\ s.fragmented = << >> -> [s EXCEPT !.fragmented = <<n>>]
      [] IsFragmented(n) /\ s.fragmented # << >> ->
            [fragmented |-> << >>, received |-> Append(s.received, Append(s.fragmented, n)),
             tooLong |-> s.tooLong]
      [] ~IsFragmented(n) /\ s.fragmented = << >> -> [s EXCEPT !.received = Append(@, <<n>>)]
      [] ~IsFragmented(n) /\ s.fragmented # << >> -> Extended(s, n)

Assembled(n, row) ==
    LET after[k \in 0 .. row] ==
            IF k = 0
            THEN Joined([fragmented |-> fragmented, received |-> received, tooLong |-> FALSE], n)
            ELSE Joined(after[k - 1], Found(k))
    IN  after[row]

FitsQueue(id) ==
    IF Generation(incoming + QueueLen) # Generation(incoming)
    THEN id >= Id(incoming) \/ id < Id(incoming + QueueLen)
    ELSE id >= Id(incoming) /\ id < Id(incoming + QueueLen)

\* PacketCodec::handle_udp_packet for a command.
Arrives(n) == "receiver" \notin lost /\ OnWire(n, wire.packets)

Deciphers(n) ==
    InReceiveWindow(incoming, Id(n)) /\ GenerationOf(incoming, Id(n)) = Generation(n)

Acknowledge(n) == wire' = [wire EXCEPT !.acks = @ \union {n}]

ReceiveNext(n) ==
    /\ Arrives(n) /\ Deciphers(n)
    /\ Id(n) = Id(incoming)
    /\ incoming' = incoming + InRow + 1
    /\ receiveQueue' = Left(InRow)
    /\ \E after \in {Assembled(n, InRow)} :
           IF after.tooLong
           THEN /\ lost' = lost \union {"receiver"}
                /\ UNCHANGED <<fragmented, received, wire>>
           ELSE /\ fragmented' = after.fragmented
                /\ received' = after.received
                /\ Acknowledge(n)
                /\ UNCHANGED lost
    /\ UNCHANGED <<commands, outgoing, queue>>

\* A packet ahead of its turn is kept, another copy of it as well.
\* Mutant of ReceiveEarly: a packet ahead of its turn is acknowledged, but not kept.
ReceiveEarlyAcksOnly(n) ==
    /\ Arrives(n) /\ Deciphers(n)
    /\ Id(n) # Id(incoming)
    /\ Acknowledge(n)
    /\ UNCHANGED <<commands, outgoing, queue, receiverVars, lost>>

ReceiveEarly(n) ==
    /\ Arrives(n) /\ Deciphers(n)
    /\ Id(n) # Id(incoming)
    /\ FitsQueue(Id(n))
    /\ receiveQueue' = [receiveQueue EXCEPT ![n] = IF @ < MaxCopies THEN @ + 1 ELSE @]
    /\ Acknowledge(n)
    /\ UNCHANGED <<commands, outgoing, queue, incoming, fragmented, received, lost>>

\* A packet too far ahead ends the connection.
ReceiveTooEarly(n) ==
    /\ Arrives(n) /\ Deciphers(n)
    /\ Id(n) # Id(incoming)
    /\ ~FitsQueue(Id(n))
    /\ lost' = lost \union {"receiver"}
    /\ UNCHANGED <<commands, outgoing, queue, wire, receiverVars>>

\* A packet from before was received: its ack may have been lost.
ReceiveAgain(n) ==
    /\ Arrives(n)
    /\ ~InReceiveWindow(incoming, Id(n))
    /\ Acknowledge(n)
    /\ UNCHANGED <<commands, outgoing, queue, receiverVars, lost>>

ReceiveAck(n) ==
    /\ "sender" \notin lost
    /\ OnWire(n, wire.acks)
    /\ queue' = AckPacket(queue, Id(n))
    /\ UNCHANGED <<commands, outgoing, wire, receiverVars, lost>>

Lose(n) ==
    /\ wire.losses < MaxLosses
    /\ \/ /\ n \in wire.packets
          /\ wire' = [packets |-> wire.packets \ {n}, acks |-> wire.acks, losses |-> wire.losses + 1]
       \/ /\ n \in wire.acks
          /\ wire' = [packets |-> wire.packets, acks |-> wire.acks \ {n}, losses |-> wire.losses + 1]
    /\ UNCHANGED <<commands, outgoing, queue, receiverVars, lost>>

-----------------------------------------------------------------------------
Init ==
    /\ commands = << >> /\ outgoing = Start /\ queue = [EmptyQueue EXCEPT !.index = Start]
    /\ wire = [packets |-> {}, acks |-> {}, losses |-> 0]
    /\ incoming = Start /\ receiveQueue = [p \in Positions |-> 0] /\ fragmented = << >>
    /\ received = << >> /\ lost = {}

Receive(n) == ReceiveNext(n) \/ ReceiveEarly(n) \/ ReceiveTooEarly(n) \/ ReceiveAgain(n)

PollResend == \E r \in queue.heap : Transmit(r) \/ DropAcknowledged(r)

Next ==
    \/ \E parts \in 1 .. MaxParts : Send(parts)
    \/ PollResend
    \/ \E r \in queue.heap : GiveUp(r)
    \/ \E n \in Positions : Receive(n) \/ ReceiveAck(n) \/ Lose(n)

\* poll_resend takes the oldest entry, so the first record has its turn again and
\* again; a datagram that is sent again and again gets through, both ways.
First == {n \in DOMAIN queue.full : IsFirst(queue, n)}
PollFirst == \E r \in queue.heap : r.at \in First /\ Transmit(r)
FirstArrives == \E n \in First : Receive(n)
FirstAcknowledged == \E n \in First : ReceiveAck(n)

Fairness ==
    /\ WF_vars(PollResend) /\ SF_vars(PollFirst)
    /\ SF_vars(FirstArrives) /\ SF_vars(FirstAcknowledged)

Spec == Init /\ [][Next]_vars
FairSpec == Spec /\ Fairness

-----------------------------------------------------------------------------
(* Properties.                                                             *)

\* packet_codec.rs:140: "Be careful with command packets, they are guaranteed to
\* be in the right order now." What the application gets is what was sent, each
\* command once, in order, whole.
InOrder == IsPrefix(received, commands)

\* A packet leaves the sender's queue only when the other end has it. Acks carry
\* an id without its generation, records the wrong generation at a wrap.
AcknowledgedWasReceived ==
    \A n \in Start .. outgoing - 1 :
        n \in DOMAIN queue.full \/ n < incoming \/ n \in Kept

\* resend.rs:218: the records below the index are in the heap, so that each is
\* sent again until it is acknowledged, however the window moves.
NothingForgotten ==
    \A n \in DOMAIN queue.full :
        RecordId(n) < queue.index => \E r \in queue.heap : r.at = n

\* The commands that were sent arrive, unless an end gives the connection up.
CommandsArrive == []<>(Len(received) = Len(commands) \/ lost # {})

=============================================================================
