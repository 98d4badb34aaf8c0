---------------------------- MODULE ChatLedger ----------------------------
(***************************************************************************)
(* What the chat history promises, whatever the worker, its queue and its  *)
(* files do: every server has one ledger of messages. A ledger only grows  *)
(* at its end, a message in it changes only while it waits for an answer,  *)
(* and only the end of the process may lose what was not saved by then.    *)
(***************************************************************************)
EXTENDS Naturals, Sequences

CONSTANTS Server, Message

VARIABLES
    ledger, \* per server, every message of it that was accepted
    saved,  \* per server, what a new process would read
    run     \* the process that is running

lvars == <<ledger, saved, run>>

\* What settling and growing may make of a log.
Continues(log, next) ==
    /\ Len(log) <= Len(next)
    /\ \A i \in DOMAIN log :
           /\ next[i].id = log[i].id
           /\ log[i].status # "pending" => next[i] = log[i]

Init ==
    /\ ledger \in [Server -> Seq(Message)]
    /\ saved = ledger
    /\ run \in Nat

\* Messages arrive and are settled, and may be saved before or after that.
Carry ==
    /\ \A s \in Server :
           /\ Continues(ledger[s], ledger'[s])
           /\ saved'[s] \in {saved[s], ledger[s], ledger'[s]}
    /\ run' = run

\* The process ends, and the next one has what was saved.
Lapse == ledger' = saved /\ saved' = saved /\ run' = run + 1

Next == Carry \/ Lapse

Spec == Init /\ [][Next]_lvars
=============================================================================
