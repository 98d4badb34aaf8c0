----------------------------- MODULE MCAnswers -----------------------------
(***************************************************************************)
(* What a user waits for comes: a message that the program took is shown   *)
(* (ChatHistory), a directory that is loading is there or failed           *)
(* (ChannelFiles), connecting ends (Handshake), a talker that falls silent *)
(* is no longer shown as speaking (JitterQueue), and the nickname and the  *)
(* end of a connection are as the user was told (Lifecycle). They share no *)
(* variable here; a behaviour moves one of them.                           *)
(***************************************************************************)
EXTENDS MCChatHistory, Lifecycle, JitterQueue

CONSTANTS Channels, MaxRunning, MaxCommands, FileTroubles,
          MaxAddress, MaxRestarts, MaxAcks

VARIABLES
    part,       \* which of them moves
    files, fileDisk, fileLink, toFileServer, fromFileServer, fileReady, updates, directories, spent,
    hand, unacked, initsToServer, initsToClient, acks

Files == INSTANCE ChannelFiles
Hand == INSTANCE Handshake WITH toServer <- initsToServer, toClient <- initsToClient

filesVars ==
    <<files, fileDisk, fileLink, toFileServer, fromFileServer, fileReady, updates, directories, spent>>
handVars == <<hand, unacked, initsToServer, initsToClient, acks>>

AnswersInit ==
    /\ part \in {"chat", "files", "life", "handshake", "talker"}
    /\ Init /\ Files!FilesInit /\ Hand!HandshakeInit /\ JitterInit
    /\ LifeInit
    /\ part # "life" => prof.name = (CHOOSE name \in Nicknames : TRUE) /\ ~prof.blocked

AnswersNext ==
    /\ UNCHANGED part
    /\ \/ part = "chat" /\ Next /\ UNCHANGED <<filesVars, lifeVars, handVars, jitterVars>>
       \/ part = "files" /\ Files!FilesNext /\ UNCHANGED <<vars, lifeVars, handVars, jitterVars>>
       \/ part = "life" /\ LifeNext /\ UNCHANGED <<vars, filesVars, handVars, jitterVars>>
       \/ part = "handshake" /\ Hand!HandshakeNext
          /\ UNCHANGED <<vars, filesVars, lifeVars, jitterVars>>
       \/ part = "talker" /\ JitterNext
          /\ UNCHANGED <<vars, filesVars, lifeVars, handVars>>

\* Where a part does not move, its fairness asks for nothing: no step of it is possible.
AnswersSpec ==
    /\ AnswersInit /\ [][AnswersNext]_<<part, vars, filesVars, lifeVars, handVars, jitterVars>>
    /\ Fairness /\ Files!FilesFairness /\ Hand!HandshakeFairness /\ JitterFairness

\* The properties of the others, under names of this module.
LoadingEnds == Files!LoadingEnds
ConnectingEnds == Hand!ConnectingEnds
=============================================================================
