-------------------------- MODULE MCChatHistory --------------------------
(***************************************************************************)
(* Small instances of ChatHistory.                                         *)
(***************************************************************************)
EXTENDS ChatHistory, TLC

Identities == Permutations(Server) \cup Permutations(Msg)

\* A new process finds what the one before left: at most one message, of one
\* server, in any state. The others are still to be made.
LeftLog(m) == {<< >>} \cup {<<[id |-> m, status |-> status]>> : status \in Statuses}

LeftInit ==
    \E s \in Server, m \in Msg : \E log \in LeftLog(m) :
        /\ session = NoSession /\ chan = << >>
        /\ worker = [at |-> "idle", count |-> 0] /\ hist = EmptyHistory
        /\ disk = [x \in Server |-> IF x = s THEN log ELSE << >>]
        /\ out = [epoch |-> 0, shown |-> NoSnapshot]
        /\ run = 2 /\ missed = {} /\ faults = 0
        /\ born = [x \in Msg |->
                      IF x = m /\ log # << >> THEN [run |-> 1, server |-> s] ELSE Unborn]
LeftSpec == LeftInit /\ [][Next]_vars
=============================================================================
