------------------------------ MODULE MCAudio ------------------------------
(***************************************************************************)
(* The three paths of sound side by side: the microphone's (VoiceGate),    *)
(* the switch of its chain (ChainSwitch) and the loudspeaker's (Playback). *)
(* They share no variable here; a behaviour moves one of them, from its    *)
(* own initial states, so the run is as large as the three after another.  *)
(***************************************************************************)
EXTENDS MCVoiceGate, MCChainSwitch, Playback

MCCallbacks == Permutations(Callbacks)

VARIABLE path   \* which of them moves

AudioInit ==
    /\ path \in {"gate", "switch", "playback"}
    /\ TouchInit /\ (path # "gate" => speech.mode = "automatic")
    /\ SwitchInit /\ (path # "switch" => state.requested = "plain")
    /\ PlaybackInit

AudioNext ==
    /\ UNCHANGED path
    /\ \/ path = "gate" /\ Next /\ UNCHANGED <<switchVars, playbackVars>>
       \/ path = "switch" /\ SwitchNext /\ UNCHANGED <<vars, playbackVars>>
       \/ path = "playback" /\ PlaybackNext /\ UNCHANGED <<vars, switchVars>>

AudioSpec == AudioInit /\ [][AudioNext]_<<path, vars, switchVars, playbackVars>>

=============================================================================
