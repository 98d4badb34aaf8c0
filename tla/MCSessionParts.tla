--------------------------- MODULE MCSessionParts ---------------------------
(***************************************************************************)
(* Parts of the session that share no variable, side by side: the avatar   *)
(* of the own client (AvatarSync), the files of the channels               *)
(* (ChannelFiles), the pictures of the others (MediaDownloads), what is    *)
(* unread (Unread) and the bars of the connection (NetworkQuality). The    *)
(* session gives each its own handles, directories, commands and answers;  *)
(* a behaviour moves one of them.                                          *)
(***************************************************************************)
EXTENDS AvatarSync, MediaDownloads, Unread, ChannelFiles

CONSTANTS Freshness, RttFreshness, Recovery, Window, Levels     \* NetworkQuality

\* network_quality.rs:8-12: 2 s and 5 s until what was heard is stale, 5 s until a level gets
\* better, and a window of 30 s.
ASSUME QualityAssumption ==
    /\ Freshness \in Nat /\ RttFreshness \in Nat /\ Recovery \in Nat /\ Window \in Nat
    /\ Freshness <= Window /\ RttFreshness < Window
    /\ Levels \in Nat \ {0}

VARIABLES
    part,       \* which of them moves
    net, stats, slept, watch

Net == INSTANCE NetworkQuality

netVars == <<net, stats, slept, watch>>

PartsInit ==
    /\ part \in {"avatar", "files", "media", "unread", "net"}
    /\ Init /\ (part # "avatar" => server.avatar = NoContent)
    /\ FilesInit /\ MediaInit /\ UnreadInit /\ Net!NetInit

PartsNext ==
    /\ UNCHANGED part
    /\ \/ part = "avatar" /\ Next
          /\ UNCHANGED <<filesVars, mediaVars, unreadVars, netVars>>
       \/ part = "files" /\ FilesNext
          /\ UNCHANGED <<vars, mediaVars, unreadVars, netVars>>
       \/ part = "media" /\ MediaNext
          /\ UNCHANGED <<vars, filesVars, unreadVars, netVars>>
       \/ part = "unread" /\ UnreadNext
          /\ UNCHANGED <<vars, filesVars, mediaVars, netVars>>
       \/ part = "net" /\ Net!NetNext
          /\ UNCHANGED <<vars, filesVars, mediaVars, unreadVars>>

PartsSpec ==
    PartsInit /\ [][PartsNext]_<<part, vars, filesVars, mediaVars, unreadVars, netVars>>

\* The types of the three that use file transfers.
TypesOK == TypeOK /\ FilesTypeOK /\ MediaTypeOK

\* Whatever the program unwraps is there: the transfer a drain asks for (avatar.rs:508),
\* the record of a handle (Files::download), the job of a handle (Downloads::download).
UnwrapsFind == DrainNamesTransfer /\ HandlesLead /\ WaitingLeads

\* The property of the instance, under a name of this module.
QualityIsObserved == Net!QualityIsObserved
=============================================================================
