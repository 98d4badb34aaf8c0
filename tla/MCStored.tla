------------------------------ MODULE MCStored ------------------------------
(***************************************************************************)
(* What a worker thread writes to files of its own, side by side: the      *)
(* messages of the channels (ChatHistory) and the volume of each member    *)
(* (Volumes). They share no variable; a behaviour moves one of them.       *)
(***************************************************************************)
EXTENDS MCChatHistory, Volumes

VARIABLE part   \* which of them moves

StoredInit ==
    /\ part \in {"chat", "volumes"}
    /\ LeftInit /\ (part # "chat" => \A s \in Server : disk[s] = << >>)
    /\ VolumeInit /\ (part # "volumes" => saving.file.readable)

StoredNext ==
    /\ UNCHANGED part
    /\ \/ part = "chat" /\ Next /\ UNCHANGED volumeVars
       \/ part = "volumes" /\ VolumeNext /\ UNCHANGED vars

StoredSpec == StoredInit /\ [][StoredNext]_<<part, vars, volumeVars>>
=============================================================================
