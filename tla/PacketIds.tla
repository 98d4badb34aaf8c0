----------------------------- MODULE PacketIds -----------------------------
(***************************************************************************)
(* The numbers of packets (tsproto: resend.rs, connection.rs).             *)
(*                                                                         *)
(* A packet carries packet_id, which wraps; both ends count the wraps as   *)
(* its generation_id, which no packet carries. Ids stands for 2^16. The    *)
(* pair is written as the number generation_id * Ids + packet_id, which is *)
(* ordered as the pair is and where + 1 counts the wrap.                   *)
(***************************************************************************)
EXTENDS Integers

CONSTANT Ids

ASSUME IdsAssumption == Ids \in Nat /\ Ids >= 4

Id(n) == n % Ids
Generation(n) == n \div Ids

\* The receive window is the half of the ids that starts at the expected one.
Half == (Ids - 1) \div 2
Limit(next) == Id(next + Half)
Wraps(next) == Generation(next + Half) # Generation(next)

InReceiveWindow(next, id) ==
    IF Wraps(next) THEN id >= Id(next) \/ id < Limit(next)
                   ELSE id >= Id(next) /\ id < Limit(next)

\* The generation a received id is taken for.
\* Mutant of GenerationOf: a window that wraps is taken for one generation.
GenerationOfNext(next, id) == Generation(next)

GenerationOf(next, id) ==
    IF InReceiveWindow(next, id)
    THEN IF Wraps(next) /\ id < Limit(next) THEN Generation(next) + 1 ELSE Generation(next)
    ELSE IF id < Id(next) THEN Generation(next) ELSE Generation(next) - 1

=============================================================================
