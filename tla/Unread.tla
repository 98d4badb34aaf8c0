------------------------------- MODULE Unread -------------------------------
(***************************************************************************)
(* Which messages count as unread (UnreadState in lib.rs, and the chat     *)
(* screens of the Android app). The app tells the core which conversation  *)
(* is on the screen, with a token of that screen, over the command         *)
(* channel; the core counts and announces what comes for the others. The   *)
(* app acts on the last snapshot it looked at. The server is the same for  *)
(* the whole session.                                                      *)
(***************************************************************************)
EXTENDS Naturals, Sequences, FiniteSets

CONSTANTS
    Rooms,          \* conversations "channel:..."
    Peers,          \* conversations "client:..."
    Nothing,        \* no conversation, no channel
    MaxScreens,     \* bound: screens that are opened
    MaxMessages,    \* bound: messages that arrive
    MaxChanges,     \* bound: changes of the connection and of the app's activity
    MaxSent         \* bound: commands on their way

ASSUME UnreadAssumption == Rooms \cap Peers = {} /\ Nothing \notin Rooms \cup Peers

VARIABLES
    unread,         \* UnreadState; its server is there or not
    online,         \* the connection
    screens,        \* the app: what it knows of the connection, its open screens
    sent,           \* commands on their way to the session
    unseen,         \* history: messages that came while no screen showed them
    countSpent      \* history: what the bounds count

unreadVars == <<unread, online, screens, sent, unseen, countSpent>>

Conversations == Rooms \cup Peers
NoScreen == [conversation |-> Nothing, token |-> 0]
NewUnread(active) ==
    [server |-> FALSE, channel |-> Nothing, visible |-> NoScreen, active |-> active,
     counts |-> [c \in Conversations |-> 0]]

UnreadInit ==
    /\ unread = NewUnread(TRUE)
    /\ online = [server |-> FALSE, channel |-> Nothing]
    /\ screens = [known |-> online, open |-> {}, active |-> TRUE, next |-> 1]
    /\ sent = <<>>
    /\ unseen = [p \in Peers |-> 0]
    /\ countSpent = [messages |-> 0, changes |-> 0]

-----------------------------------------------------------------------------
\* The core.

\* sync: another channel ends what was visible and counted of the last one. The first
\* sync of a session, when its server is new, clears what is empty anyway.
Sync(channel) ==
    IF unread.channel = channel THEN [unread EXCEPT !.server = TRUE]
    ELSE [unread EXCEPT !.server = TRUE, !.channel = channel,
            !.visible = IF @.conversation \in Rooms THEN NoScreen ELSE @,
            !.counts = [c \in Conversations |-> IF c \in Rooms THEN 0 ELSE @[c]]]

\* should_notify: the message is not in front of the user.
ShouldNotify(state, conversation) ==
    /\ state.server
    /\ ~(state.active /\ state.visible.conversation = conversation)
    /\ conversation \in Rooms => state.channel = conversation

Record(state, conversation) ==
    IF ShouldNotify(state, conversation)
      THEN [state EXCEPT !.counts[conversation] = @ + 1] ELSE state

\* clear_visible.
Cleared(state) ==
    IF state.active /\ state.visible # NoScreen
      THEN [state EXCEPT !.counts[state.visible.conversation] = 0] ELSE state

Shown(conversation) ==
    \E screen \in screens.open : screen.conversation = conversation

\* ServerEvents: the own client is in a channel, and a message may be among the events. A
\* session begins when the user connects, on the home page.
ServerEvents(channel, conversation) ==
    /\ online' = [server |-> TRUE, channel |-> channel]
    /\ ~unread.server => screens.open = {} /\ ~screens.known.server
    /\ online' # online => countSpent.changes < MaxChanges
    /\ conversation # Nothing => countSpent.messages < MaxMessages
    /\ online' # online \/ conversation # Nothing
    /\ conversation \in Rooms => conversation = channel
    /\ unread' = IF conversation = Nothing THEN Sync(channel)
                 ELSE Record(Sync(channel), conversation)
    /\ unseen' = IF conversation \in Peers /\ ~(Shown(conversation) /\ screens.active)
                   THEN [unseen EXCEPT ![conversation] = @ + 1] ELSE unseen
    /\ countSpent' = [messages |-> countSpent.messages + (IF conversation = Nothing THEN 0 ELSE 1),
                      changes |-> countSpent.changes + (IF online' = online THEN 0 ELSE 1)]
    /\ UNCHANGED <<screens, sent>>

\* DisconnectedTemporarily: nothing of unread changes (server_id is None, sync returns).
\* The end of the session makes another UnreadState for the next.
Offline(ends) ==
    /\ online.server /\ countSpent.changes < MaxChanges
    /\ online' = [server |-> FALSE, channel |-> Nothing]
    /\ unread' = IF ends THEN NewUnread(unread.active) ELSE unread
    /\ unseen' = IF ends THEN [p \in Peers |-> 0] ELSE unseen
    /\ countSpent' = [countSpent EXCEPT !.changes = @ + 1]
    /\ UNCHANGED <<screens, sent>>

\* Mutant of OfVisible: any screen of the conversation hides it.
OfVisibleConversation(screen) == unread.visible.conversation = screen.conversation

\* Whether a command to hide is of the screen that is visible.
OfVisible(screen) == unread.visible = screen

\* set_visible, set_app_active.
Taken(command) ==
    LET screen == command.screen IN
    CASE command.what = "active" -> Cleared([unread EXCEPT !.active = TRUE])
      [] command.what = "inactive" -> [unread EXCEPT !.active = FALSE]
      [] command.what = "show" ->
           IF unread.server /\ screen.conversation \in Peers \cup {unread.channel}
             THEN Cleared([unread EXCEPT !.visible = screen]) ELSE unread
      [] command.what = "hide" ->
           IF unread.server /\ OfVisible(screen)
             THEN [unread EXCEPT !.visible = NoScreen] ELSE unread

TakeCommand ==
    /\ sent # <<>> /\ sent' = Tail(sent) /\ unread' = Taken(Head(sent))
    /\ UNCHANGED <<online, screens, unseen, countSpent>>

-----------------------------------------------------------------------------
\* The app.

\* setChatVisible: without a server in the snapshot nothing is sent.
SetChatVisible(what, screen) ==
    sent' = IF screens.known.server THEN Append(sent, [what |-> what, screen |-> screen]) ELSE sent

\* A poll brings the snapshot of the connection; what it was in between is not seen.
Look ==
    /\ screens.known # online
    /\ screens' = [screens EXCEPT !.known = online]
    /\ UNCHANGED <<unread, online, sent, unseen, countSpent>>

\* What the user sees is seen.
SeenIn(open, active) ==
    [p \in Peers |-> IF active /\ \E s \in open : s.conversation = p THEN 0 ELSE unseen[p]]

\* The user opens a chat from the list of members or the own channel; or the screen of a
\* chat is made anew, and the new one is there before the old one is disposed of.
Open(conversation) ==
    /\ Len(sent) < MaxSent /\ screens.next <= MaxScreens
    /\ screens.known.server
    /\ \/ screens.open = {} /\ conversation \in Peers \cup {screens.known.channel}
       \/ Cardinality(screens.open) = 1 /\ Shown(conversation)
    /\ LET screen == [conversation |-> conversation, token |-> screens.next] IN
       /\ screens' = [screens EXCEPT !.open = @ \cup {screen}, !.next = @ + 1]
       /\ SetChatVisible("show", screen)
    /\ unseen' = SeenIn(screens'.open, screens.active)
    /\ UNCHANGED <<unread, online, countSpent>>

\* onDispose: the user goes back, the connection or the channel is gone from the snapshot,
\* or the screen was made anew (the older of the two).
Dispose(screen) ==
    /\ Len(sent) < MaxSent /\ screen \in screens.open
    /\ \A s \in screens.open : screen.token <= s.token
    /\ screens' = [screens EXCEPT !.open = @ \ {screen}]
    /\ SetChatVisible("hide", screen)
    /\ UNCHANGED <<unread, online, unseen, countSpent>>

SetAppActive ==
    /\ Len(sent) < MaxSent /\ countSpent.changes < MaxChanges
    /\ screens' = [screens EXCEPT !.active = ~@]
    /\ sent' = Append(sent, [what |-> IF screens.active THEN "inactive" ELSE "active",
                             screen |-> NoScreen])
    /\ unseen' = SeenIn(screens.open, ~screens.active)
    /\ countSpent' = [countSpent EXCEPT !.changes = @ + 1]
    /\ UNCHANGED <<unread, online>>

UnreadNext ==
    \/ \E room \in Rooms, c \in Conversations \cup {Nothing} : ServerEvents(room, c)
    \/ \E ends \in BOOLEAN : Offline(ends)
    \/ TakeCommand \/ Look \/ SetAppActive
    \/ \E c \in Conversations : Open(c)
    \/ \E screen \in screens.open : Dispose(screen)

UnreadSpec == UnreadInit /\ [][UnreadNext]_unreadVars

-----------------------------------------------------------------------------
\* A message that was in front of the user, on a screen of its conversation in the active
\* app, is not unread: once the commands are through, no more is counted of a peer than
\* came while it was not shown. (Of a channel it is not so: one that the user is moved out
\* of and back to between two looks stays open, and the core has ended its visibility.)
SeenIsNotUnread ==
    sent = <<>> => \A p \in Peers : unread.counts[p] <= unseen[p]

\* A message that no screen shows is unread and announced: when the app has nothing left to
\* tell, should_notify holds for every peer whose chat is not in front of the user.
UnseenIsUnread ==
    sent = <<>> /\ screens.known = online /\ online.server =>
        \A p \in Peers : ~(Shown(p) /\ screens.active) => ShouldNotify(unread, p)
=============================================================================
