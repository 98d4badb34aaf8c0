--------------------------- MODULE MCVoiceGate ---------------------------
(***************************************************************************)
(* Small instances of VoiceGate. A token is compared with other tokens and *)
(* with the bound only, so a run may start at any of them: the later, the  *)
(* fewer disturbances it explores.                                         *)
(***************************************************************************)
EXTENDS VoiceGate

MCTouch == {"mute", "join", "move", "sound"}
MCNothing == {}
MCAll == AllDisturbances

InitAt(token) ==
    /\ at = "offline"
    /\ speech \in [mode : Modes, ready : {FALSE}, available : {FALSE},
                   pressed : {FALSE}, token : {token}]
    /\ published = [token |-> token, available |-> FALSE]
    /\ gate = [active |-> FALSE, muted |-> TRUE, subscribed |-> FALSE, joins |-> 0,
               opus |-> FALSE, switching |-> FALSE]
    /\ conn = NoConnection
    /\ ui = [token |-> token, available |-> FALSE, held |-> NoToken, segment |-> 0]

\* The state Connect, ConnectionUp, TakeBookEvents, SetAppActive, SetCaptureReady
\* and Mute lead to.
ConnectedAt(mode, token) ==
    /\ at = "select"
    /\ speech = [mode |-> mode, ready |-> TRUE, available |-> TRUE,
                 pressed |-> FALSE, token |-> token]
    /\ published = [token |-> token, available |-> TRUE]
    /\ gate = [active |-> TRUE, muted |-> FALSE, subscribed |-> TRUE, joins |-> 0,
               opus |-> TRUE, switching |-> FALSE]
    /\ conn = [NoConnection EXCEPT !.up = TRUE, !.allows = TRUE, !.opus = TRUE]
    /\ ui = [token |-> token, available |-> TRUE, held |-> NoToken, segment |-> 0]

Quiet ==
    /\ cmds = << >> /\ pcm = << >> /\ work = << >> /\ events = << >>
    /\ captureEpoch = 0 /\ dspEpoch = 0 /\ hole = FALSE
    /\ worker = [pc |-> "idle", item |-> Wake, epoch |-> 0, cursor |-> FALSE,
                 chain |-> << >>, out |-> << >>]
    /\ voice = [speaking |-> FALSE, pending |-> << >>]
    /\ pressSegment = 0 /\ refused = NoToken /\ wire = << >>

\* A connected session in either mode.
TouchInit == Quiet /\ reader = NoRead(0) /\ \E mode \in Modes : ConnectedAt(mode, 1)
TouchSpec == TouchInit /\ [][Next]_vars

\* A connected session in either mode, or no session yet, where nobody speaks; or one
\* that is left alone, where somebody does. Its loop is scheduled fairly.
SessionInit ==
    /\ Quiet
    /\ \/ reader = NoRead(MaxReads) /\ \E mode \in Modes : ConnectedAt(mode, MaxToken - 1)
       \/ reader = NoRead(MaxReads) /\ InitAt(MaxToken - 2)
       \/ reader = NoRead(0) /\ ConnectedAt("automatic", MaxToken)
SessionSpec == SessionInit /\ [][Next]_vars /\ Fairness
=============================================================================
