----------------------------- MODULE Handshake -----------------------------
(***************************************************************************)
(* How a connection is begun (tsproto's client.rs and packet_codec.rs,     *)
(* connect in tsclientlib's lib.rs): three init packets and their answers, *)
(* the exchange of keys by two commands, clientinit and initserver, over a *)
(* network that loses, repeats and reorders, with a server that may refuse *)
(* or say nothing. What is not acknowledged is sent again and given up     *)
(* after five seconds; then the next address is tried.                     *)
(*                                                                         *)
(* Nothing but an unacknowledged packet ends most of the waiting: the code *)
(* has a timer of its own for the last answer only.                        *)
(***************************************************************************)
EXTENDS Naturals

CONSTANTS
    MaxAddress,     \* how many addresses the name has
    MaxRestarts,    \* bound: how often the server has the handshake begun again
    MaxAcks         \* bound: the Ack packets of the server that are told apart

VARIABLES
    hand,       \* client::Client::connect and Connection::connect: where they wait
    unacked,    \* the resender's records
    toServer,   \* datagrams
    toClient,
    acks        \* how many Ack packets the server has sent

handVars == <<hand, unacked, toServer, toClient, acks>>

Waiting == {"Init1", "Init3", "initivexpand2", "Ack", "initserver"}
Over == {"connected", "failed"}

HandshakeInit ==
    /\ hand = [waits |-> "idle", address |-> 0, restarts |-> 0]
    /\ unacked = {} /\ toServer = {} /\ toClient = {} /\ acks = 0

Goes(waits) == hand' = [hand EXCEPT !.waits = waits]

\* A new client with a socket of its own: the old datagrams do not reach it.
Attempt(address) ==
    /\ hand' = [waits |-> "Init1", address |-> address, restarts |-> hand.restarts]
    /\ unacked' = {"Init0"} /\ toServer' = {} /\ toClient' = {} /\ acks' = 0

Begins == hand.waits = "idle" /\ Attempt(1)

Ends(waits) == Goes(waits) /\ unacked' = {} /\ toServer' = {} /\ toClient' = {} /\ acks' = 0

\* An address failed; a refusal is not tried anywhere else.
AddressFails == IF hand.address < MaxAddress THEN Attempt(hand.address + 1) ELSE Ends("failed")

-----------------------------------------------------------------------------
(* The wire. What was sent stays there: it may come late, twice, or never, *)
(* for nothing makes it come.                                              *)

\* poll_resend: the first time; each time again is in what stays.
Transmit(packet) ==
    /\ packet \in unacked \ toServer
    /\ toServer' = toServer \cup {packet} /\ UNCHANGED <<hand, unacked, toClient, acks>>

\* The resender gives up: a packet was not acknowledged for five seconds.
NotAcked == hand.waits \in Waiting /\ unacked # {} /\ AddressFails

\* Mutant of InitserverTimeout: only the packets' timeout ends the last wait.
InitserverNoTimeout == FALSE
\* INITSERVER_TIMEOUT, five seconds around the whole of wait_initserver.
InitserverTimeout == hand.waits = "initserver" /\ AddressFails

-----------------------------------------------------------------------------
(* The server (external). It answers what it gets, well or not, sends its  *)
(* commands again, and may say nothing.                                    *)

Answers(packet) ==
    CASE packet = "Init0" -> {"Init1"}
      [] packet = "Init2" -> {"Init3", "Init127", "hardInit3"}
      [] packet = "Init4" -> {"initivexpand2", "badExpand"}
      [] packet = "clientek" -> {}
      [] packet = "clientinit" -> {"initserver", "error"}

Said(answer) == [of |-> answer, number |-> 0]
Got(answer) == Said(answer) \in toClient

\* It stays with its answer, except that a handshake that begins again has another.
ServerAnswers ==
    /\ \E packet \in toServer : \E answer \in Answers(packet) :
          /\ \A other \in Answers(packet) : Got(other) => other = "Init127"
          /\ answer = "Init127" => hand.restarts < MaxRestarts
          /\ toClient' = toClient \cup {Said(answer)}
    /\ UNCHANGED <<hand, unacked, toServer, acks>>

\* It acknowledges commands as often as they come, with Acks numbered on.
ServerAcks ==
    /\ acks < MaxAcks /\ acks' = acks + 1
    /\ \E packet \in toServer \cap {"clientek", "clientinit"} :
          toClient' = toClient \cup {[of |-> packet, number |-> acks]}
    /\ UNCHANGED <<hand, unacked, toServer>>

-----------------------------------------------------------------------------
(* What the client makes of a datagram. An init packet acknowledges the    *)
(* one it answers, initivexpand2 the last of them, initserver clientinit.  *)

Sends(packet, acked) == unacked' = (unacked \ acked) \cup {packet}
Wire == UNCHANGED <<toServer, toClient, acks>>

\* get_init, for the step that is waited for; others are dropped.
TakeInit1 ==
    /\ Got("Init1") /\ hand.waits = "Init1"
    /\ Goes("Init3") /\ Sends("Init2", {"Init0"}) /\ Wire
\* A copy of it is dropped by get_init and get_command, and acknowledges still.
TakeInit3 ==
    /\ Got("Init3") /\ hand.waits = "Init3"
    /\ Goes("initivexpand2") /\ Sends("Init4", {"Init2"}) /\ Wire
TakeEarlyInit3 ==
    /\ Got("Init3") /\ hand.waits = "Init1" /\ "Init2" \in unacked
    /\ unacked' = unacked \ {"Init2"} /\ UNCHANGED hand /\ Wire
\* Begin again. Whether this acknowledges Init2 is the packet library's.
TakeInit127 ==
    /\ Got("Init127") /\ hand.waits = "Init3" /\ hand.restarts < MaxRestarts
    /\ hand' = [hand EXCEPT !.waits = "Init1", !.restarts = @ + 1]
    /\ \E acked \in {{}, {"Init2"}} : Sends("Init0", acked)
    /\ Wire
\* The puzzle is too hard.
TakeHardInit3 == Got("hardInit3") /\ hand.waits = "Init3" /\ AddressFails

\* get_command takes the first command, and it has to be a good initivexpand2.
TakeExpand ==
    /\ Got("initivexpand2") /\ hand.waits = "initivexpand2"
    /\ Goes("Ack") /\ Sends("clientek", {"Init4"}) /\ Wire
TakeBadExpand ==
    /\ Got("badExpand") /\ hand.waits = "initivexpand2"
    /\ AddressFails

\* The Ack with the number one is taken for that of clientinit, and dropped.
IsHeeded(ack) == ack.number # 1
\* wait_for_ack: then clientinit goes out.
TakeAck ==
    /\ \E ack \in toClient : ack.of = "clientek" /\ IsHeeded(ack)
    /\ hand.waits = "Ack"
    /\ Goes("initserver") /\ Sends("clientinit", {"clientek"}) /\ Wire
TakeInitAck ==
    /\ \E ack \in toClient : ack.of = "clientinit" /\ IsHeeded(ack)
    /\ "clientinit" \in unacked
    /\ unacked' = unacked \ {"clientinit"} /\ UNCHANGED hand /\ Wire

\* wait_initserver drops other commands; a refusal ends the connecting.
TakeInitserver == Got("initserver") /\ hand.waits = "initserver" /\ Ends("connected")
TakeRefusal == Got("error") /\ hand.waits = "initserver" /\ Ends("failed")

HandshakeNext ==
    \/ Begins \/ NotAcked \/ InitserverTimeout
    \/ \E packet \in unacked : Transmit(packet)
    \/ ServerAnswers \/ ServerAcks
    \/ TakeInit1 \/ TakeInit3 \/ TakeEarlyInit3 \/ TakeInit127 \/ TakeHardInit3
    \/ TakeExpand \/ TakeBadExpand \/ TakeAck \/ TakeInitAck \/ TakeInitserver \/ TakeRefusal

(* The timers of the runtime fire. Nothing is asked of the network or of   *)
(* the server.                                                             *)
HandshakeFairness == WF_handVars(NotAcked) /\ WF_handVars(InitserverTimeout)

-----------------------------------------------------------------------------
(* Connecting ends, whatever the network and the server do: at every wait  *)
(* there is a packet to give up on, or a timer.                            *)
ConnectingEnds == (hand.waits \in Waiting) ~> (hand.waits \in Over)
=============================================================================
