------------------------------ MODULE Volumes ------------------------------
(***************************************************************************)
(* How loud each member is heard (receive_audio.rs): the user sets a       *)
(* volume for a member on the screen, the session finds out whether it is  *)
(* still the same member, the talker's queue gets it, and the preferences  *)
(* keep it per server and identity, also over a crash. A server gives the  *)
(* number of a member that left to the next one; the identity of a member  *)
(* may become known late, and one person may be there twice; sound arrives *)
(* from a member the bookkeeping does not have; a file that cannot be read *)
(* is left alone.                                                          *)
(***************************************************************************)
EXTENDS Integers, FiniteSets, SequencesExt

CONSTANTS
    Servers,
    Clients,        \* numbers the server gives to members
    Persons,        \* identities
    Nobody,         \* no identity, no member, no server
    Percents,       \* volumes the user chooses from
    MaxUserTokens,  \* bound: NEXT_TOKEN
    MaxVisits,      \* bound: members that enter
    MaxChoices,     \* bound: commands of the user
    MaxJobs         \* bound: jobs in the channel of the persistence thread

ASSUME VolumesAssumption ==
    /\ Nobody \notin Servers \cup Persons
    /\ 0 \notin Clients                \* the number of the server itself
    /\ Percents \subseteq Nat /\ MaxVisits \in Nat

VARIABLES
    prefs,          \* Preferences
    receive,        \* Session: the users of the server, NEXT_TOKEN
    queues,         \* volume of the queue of each talker
    book,           \* the bookkeeping of the connection
    screen,         \* what the user sees, and the command on its way
    saving,         \* channel of the persistence thread, and the file
    meant,          \* history: what the user chose, for persons and for visits
    volumeSpent     \* history: what the bounds count

volumeVars == <<prefs, receive, queues, book, screen, saving, meant, volumeSpent>>

Default == 100
Silent == -1
NotChosen == -1
Unset == [server \in Servers |-> [person \in Persons |-> Default]]
NoUser == [uid |-> Nobody, token |-> 0, percent |-> Default, temporary |-> FALSE]
NoMember == [person |-> Nobody, known |-> FALSE, visit |-> 0]
NoCommand == [server |-> Nobody, client |-> 0, uid |-> Nobody, token |-> 0,
              percent |-> Default, visit |-> 0]

UidOf(member) == IF member.known THEN member.person ELSE Nobody
Volume(users, server, uid) == IF uid = Nobody THEN Default ELSE users[server][uid]

\* The file could be read when the app started, or it is left alone.
LoadedPrefs(file) ==
    [users |-> file.users, writable |-> file.readable, dirty |-> FALSE]

VolumeInit ==
    /\ saving \in {[file |-> [readable |-> readable, users |-> Unset], jobs |-> <<>>,
                    failed |-> FALSE] : readable \in BOOLEAN}
    /\ prefs = LoadedPrefs(saving.file)
    /\ receive = [server |-> Nobody, users |-> [id \in Clients |-> NoUser], next |-> 1]
    /\ queues = [id \in Clients |-> Silent]
    /\ book = [server |-> Nobody, members |-> [id \in Clients |-> NoMember]]
    /\ screen = [server |-> Nobody, rows |-> <<>>, command |-> NoCommand]
    /\ meant = [users |-> Unset, visits |-> [visit \in 1..MaxVisits |-> NotChosen]]
    /\ volumeSpent = [visits |-> 0, choices |-> 0]

-----------------------------------------------------------------------------
\* Session::sync.

\* The user's entry for a number: kept, bound to the identity that arrived, or made anew.
\* A token that is given out is the next one; the order of two members is not modelled.
Synced(user, uid, token, percent) ==
    IF user.token # 0 /\ user.uid = uid THEN user
    ELSE IF user.token # 0 THEN [user EXCEPT !.uid = uid, !.token = token, !.percent = percent]
    ELSE [uid |-> uid, token |-> token, percent |-> percent, temporary |-> FALSE]

\* A choice made before the identity was known goes to the identity.
Binds(user, uid) == user.token # 0 /\ user.uid = Nobody /\ uid # Nobody /\ user.temporary

Present(members) == {i \in Clients : members[i] # NoMember}

\* receive.remove and audio.remove for the member that left, and retain: the others stay
\* as long as they are on the server or sound, and it is the same server.
Sounding(server, left) == {i \in Clients : receive.server = server /\ i # left /\ queues[i] # Silent}
KeptUsers(server, members, left) ==
    [i \in Clients |-> IF receive.server = server /\ i # left
                          /\ i \in Present(members) \cup Sounding(server, left)
                       THEN receive.users[i] ELSE NoUser]

\* The numbers whose choice goes to the identity that arrived, and what is kept then.
Binding(kept, members) == {i \in Present(members) : Binds(kept[i], UidOf(members[i]))}
Bound(server, kept, members) ==
    IF Binding(kept, members) = {} THEN prefs.users
    ELSE [prefs.users EXCEPT ![server] = [p \in Persons |->
            IF \E i \in Binding(kept, members) : UidOf(members[i]) = p
              THEN kept[CHOOSE i \in Binding(kept, members) : UidOf(members[i]) = p].percent
              ELSE @[p]]]

\* History: what was chosen for a visit is chosen for the person it turns out to be.
Meant(server, members, id) ==
    IF /\ id \in Present(members) /\ members[id].known
       /\ book.members[id].visit = members[id].visit /\ ~book.members[id].known
       /\ meant.visits[members[id].visit] # NotChosen
      THEN [meant EXCEPT !.users[server][members[id].person] = meant.visits[members[id].visit]]
      ELSE meant

\* The users of the members; the volume of an identity is the one that is kept.
Users(server, kept, members, saved) ==
    LET Made(i) == IF i \notin Present(members) THEN kept[i]
                   ELSE Synced(kept[i], UidOf(members[i]), receive.next,
                               Volume(saved, server, UidOf(members[i])))
    IN [i \in Clients |-> IF Made(i).uid = Nobody THEN Made(i)
                          ELSE [Made(i) EXCEPT !.percent = saved[server][Made(i).uid]]]

\* Sync, then the queues' volumes. The bookkeeping and its events come in one poll: one
\* number changes at a time.
BookEvents(server, members, id, left) ==
    LET kept == KeptUsers(server, members, left)
        saved == Bound(server, kept, members)
        users == Users(server, kept, members, saved)
        renewed == {i \in Present(members) : kept[i].token = 0 \/ kept[i].uid # UidOf(members[i])}
        other == {i \in Present(members) :
                    kept[i].token # 0 /\ kept[i].uid \notin {Nobody, UidOf(members[i])}}
    IN /\ Cardinality(renewed) <= 1 /\ receive.next + Cardinality(renewed) <= MaxUserTokens + 1
       /\ receive' = [server |-> server, users |-> users,
                      next |-> receive.next + Cardinality(renewed)]
       /\ prefs' = [prefs EXCEPT !.users = saved, !.dirty = @ \/ Binding(kept, members) # {}]
       /\ queues' = [i \in Clients |->
                        IF i \in Sounding(server, left) \ other /\ users[i].token # 0
                          THEN users[i].percent ELSE Silent]
       /\ book' = [server |-> server, members |-> members]
       /\ meant' = Meant(server, members, id)
       /\ UNCHANGED <<screen, saving>>

ServerKnown(server) ==
    /\ book.server = Nobody
    /\ BookEvents(server, [i \in Clients |-> NoMember], 0, 0)
    /\ UNCHANGED volumeSpent

\* A member comes, its identity known or not, under a number that is free, or (the server
\* reused a number without telling) that another had.
Enter(id, person, known) ==
    /\ book.server # Nobody /\ volumeSpent.visits < MaxVisits
    /\ book.members[id] = NoMember \/ (book.members[id].known /\ known)
    /\ volumeSpent' = [volumeSpent EXCEPT !.visits = @ + 1]
    /\ BookEvents(book.server,
                  [book.members EXCEPT ![id] = [person |-> person, known |-> known,
                                                visit |-> volumeSpent.visits + 1]], id, 0)

UidArrives(id) ==
    /\ book.members[id] # NoMember /\ ~book.members[id].known
    /\ BookEvents(book.server, [book.members EXCEPT ![id].known = TRUE], id, 0)
    /\ UNCHANGED volumeSpent

Leave(id) ==
    /\ book.members[id] # NoMember
    /\ BookEvents(book.server, [book.members EXCEPT ![id] = NoMember], id, id)
    /\ UNCHANGED volumeSpent

\* DisconnectedTemporarily, or the end of the session: receive.clear and audio.reset.
Cut ==
    /\ book.server # Nobody
    /\ book' = [server |-> Nobody, members |-> [i \in Clients |-> NoMember]]
    /\ receive' = [receive EXCEPT !.server = Nobody, !.users = [i \in Clients |-> NoUser]]
    /\ queues' = [i \in Clients |-> Silent]
    /\ UNCHANGED <<prefs, screen, saving, meant, volumeSpent>>

-----------------------------------------------------------------------------
\* Sound.

\* handle_packet, prepare_audio and the volume of the queue.
Audio(id) ==
    /\ book.server # Nobody /\ queues[id] = Silent
    /\ LET entered == receive.users[id].token = 0
           user == IF entered THEN [NoUser EXCEPT !.token = receive.next]
                   ELSE receive.users[id]
       IN /\ entered => receive.next <= MaxUserTokens
          /\ receive' = [receive EXCEPT !.users[id] = user,
                                        !.next = IF entered THEN @ + 1 ELSE @]
          /\ queues' = [queues EXCEPT ![id] = user.percent]
    /\ UNCHANGED <<prefs, book, screen, saving, meant, volumeSpent>>

\* The talker ends, or audio.reset drops all of them.
QueueEnds ==
    /\ \E gone \in {Clients} \cup {{id} : id \in Clients} :
          /\ \E id \in gone : queues[id] # Silent
          /\ queues' = [id \in Clients |-> IF id \in gone THEN Silent ELSE queues[id]]
    /\ UNCHANGED <<prefs, receive, book, screen, saving, meant, volumeSpent>>

-----------------------------------------------------------------------------
\* The user's choice.

\* The app shows the snapshot of the session; until the next look it may be an old one.
ShowRows ==
    /\ book.server # Nobody
    /\ screen' = [screen EXCEPT !.server = book.server,
                    !.rows = [id \in {i \in Clients : book.members[i] # NoMember} |->
                                [uid |-> UidOf(book.members[id]), token |-> receive.users[id].token,
                                 visit |-> book.members[id].visit]]]
    /\ UNCHANGED <<prefs, receive, queues, book, saving, meant, volumeSpent>>

UserSets(id, percent) ==
    /\ id \in DOMAIN screen.rows /\ screen.command = NoCommand
    /\ volumeSpent.choices < MaxChoices
    /\ volumeSpent' = [volumeSpent EXCEPT !.choices = @ + 1]
    /\ LET row == screen.rows[id] IN
       screen' = [screen EXCEPT !.command =
                    [server |-> screen.server, client |-> id, uid |-> row.uid,
                     token |-> row.token, percent |-> percent, visit |-> row.visit]]
    /\ UNCHANGED <<prefs, receive, queues, book, saving, meant>>

\* Mutant of StillMeant: the token of the member is not compared.
StillThatNumber(command) ==
    /\ command.server = receive.server
    /\ receive.users[command.client].uid = command.uid

\* set_volume: the server and the member are those the user saw.
StillMeant(command) ==
    /\ command.server = receive.server
    /\ receive.users[command.client].token = command.token
    /\ receive.users[command.client].uid = command.uid

\* Command::SetUserVolume, and the queues' volumes. Without a connection it is refused
\* (connection_recovering), as by preferences that could not be read.
SetUserVolume ==
    /\ screen.command # NoCommand
    /\ screen' = [screen EXCEPT !.command = NoCommand]
    /\ LET command == screen.command
           to == IF command.uid = Nobody THEN {command.client}
                 ELSE {id \in Clients : receive.users[id].uid = command.uid}
       IN IF book.server = Nobody \/ ~StillMeant(command) \/ ~prefs.writable
            THEN UNCHANGED <<receive, queues, prefs, meant>>
            ELSE /\ receive' = [receive EXCEPT !.users = [id \in Clients |->
                        IF id \in to THEN [receive.users[id] EXCEPT !.percent = command.percent,
                                             !.temporary = @ \/ command.uid = Nobody]
                        ELSE receive.users[id]]]
                 /\ queues' = [id \in Clients |->
                        IF queues[id] # Silent /\ id \in to THEN command.percent ELSE queues[id]]
                 /\ prefs' = IF command.uid = Nobody THEN prefs
                             ELSE [prefs EXCEPT !.users[command.server][command.uid] = command.percent,
                                                !.dirty = TRUE]
                 /\ meant' = IF command.uid = Nobody
                               THEN [meant EXCEPT !.visits[command.visit] = command.percent]
                               ELSE [meant EXCEPT !.users[command.server][command.uid] = command.percent]
    /\ UNCHANGED <<book, saving, volumeSpent>>

-----------------------------------------------------------------------------
\* The file.

\* set_agc and set_speech_mode change what is stored beside the volumes.
OtherPreference ==
    /\ prefs.writable /\ ~prefs.dirty /\ prefs' = [prefs EXCEPT !.dirty = TRUE]
    /\ UNCHANGED <<receive, queues, book, screen, saving, meant, volumeSpent>>

\* flush, whether the time has come or it is forced; a choice cannot wait for more than it.
FlushPrefs ==
    /\ prefs.dirty /\ Len(saving.jobs) < MaxJobs
    /\ prefs' = [prefs EXCEPT !.dirty = FALSE]
    /\ saving' = [saving EXCEPT !.jobs = Append(@, prefs.users)]
    /\ UNCHANGED <<receive, queues, book, screen, meant, volumeSpent>>

\* Mutant of Coalesced: a job does not replace the one before it.
CoalescedFirst(jobs) == Head(jobs)

\* latest.insert for each job: they are all for one path.
Coalesced(jobs) == Last(jobs)

\* The persistence thread takes jobs until try_recv finds none, and writes; what is sent
\* meanwhile is for the next round. A failed write is told, not retried.
WritePrefs(fails) ==
    /\ saving.jobs # <<>>
    /\ saving' = [file |-> IF fails THEN saving.file
                           ELSE [readable |-> TRUE, users |-> Coalesced(saving.jobs)],
                  jobs |-> <<>>, failed |-> fails]
    /\ UNCHANGED <<prefs, receive, queues, book, screen, meant, volumeSpent>>

\* The app starts again (Configure loads the file), and chosen is what was chosen.
Restarts(chosen) ==
    /\ prefs' = LoadedPrefs(saving.file)
    /\ saving' = [saving EXCEPT !.jobs = <<>>, !.failed = FALSE]
    /\ receive' = [server |-> Nobody, users |-> [id \in Clients |-> NoUser], next |-> 1]
    /\ queues' = [id \in Clients |-> Silent]
    /\ book' = [server |-> Nobody, members |-> [id \in Clients |-> NoMember]]
    /\ screen' = [server |-> Nobody, rows |-> <<>>, command |-> NoCommand]
    /\ meant' = [users |-> chosen, visits |-> [visit \in 1..MaxVisits |-> NotChosen]]
    /\ UNCHANGED volumeSpent

\* It is killed, wherever it is. It knows what the file holds.
AppDies == Restarts(saving.file.users)

\* Mutant of Drained: the persistence thread is not waited for.
DrainedByTheWorker == ~prefs.dirty

\* Shutdown flushes, and the persistence thread ends when its channel is empty and closed.
Drained == ~prefs.dirty /\ saving.jobs = <<>>

\* It is closed (Bridge::drop waits for the threads): what was chosen stays chosen, unless
\* the last write failed or the file could not be read.
AppCloses ==
    /\ Drained
    /\ Restarts(IF prefs.writable /\ ~saving.failed THEN meant.users ELSE saving.file.users)

VolumeNext ==
    \/ \E server \in Servers : ServerKnown(server)
    \/ \E id \in Clients : \/ \E person \in Persons, known \in BOOLEAN : Enter(id, person, known)
                           \/ UidArrives(id) \/ Leave(id) \/ Audio(id)
                           \/ \E percent \in Percents : UserSets(id, percent)
    \/ Cut \/ QueueEnds \/ ShowRows \/ SetUserVolume
    \/ OtherPreference \/ FlushPrefs \/ AppDies \/ AppCloses
    \/ \E fails \in BOOLEAN : WritePrefs(fails)

VolumeSpec == VolumeInit /\ [][VolumeNext]_volumeVars

-----------------------------------------------------------------------------
\* Every member is as loud as the user chose for it: one whose identity is known as was
\* chosen for the person on this server, whenever and under whatever number; another as was
\* chosen for this visit. The sound that plays has that volume.
HeardAsChosen ==
    \A id \in Clients :
        LET member == book.members[id]  user == receive.users[id] IN
        /\ member # NoMember =>
              /\ user.token # 0 /\ user.uid = UidOf(member)
              /\ user.percent = IF member.known THEN meant.users[book.server][member.person]
                                ELSE IF meant.visits[member.visit] = NotChosen THEN Default
                                ELSE meant.visits[member.visit]
        /\ queues[id] # Silent => user.token # 0 /\ queues[id] = user.percent

\* What was chosen for a person is what is kept, also by a start after an orderly end; at
\* rest, when every job is written, it is what the file holds; a file that could not be
\* read is not written over.
KeptAsChosen ==
    /\ prefs.users = meant.users
    /\ saving.file.readable = prefs.writable
    /\ ~prefs.dirty /\ saving.jobs = <<>> /\ ~saving.failed /\ prefs.writable =>
          saving.file.users = prefs.users

\* The volume of a member is the one the user chose for it, on the screen, in the sound and
\* in the file: the whole way of receive_audio.rs.
VolumesAreChosen == HeardAsChosen /\ KeptAsChosen
=============================================================================
