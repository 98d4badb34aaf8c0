---------------------------- MODULE ChosenProofs -----------------------------
(***************************************************************************)
(* What the user chose stays chosen.                                       *)
(*                                                                         *)
(* Volumes: a member is as loud as the user chose for it, and what was     *)
(* chosen is what is kept, whoever comes under whatever number.            *)
(* Lifecycle: the name on the server ends up as the last one saved, and    *)
(* the user is told of every end that was not asked for, once.             *)
(***************************************************************************)
EXTENDS Volumes, Lifecycle, FiniteSetTheorems, SequenceTheorems, TLAPS

-----------------------------------------------------------------------------
(* Volumes: the invariant.                                                 *)

Books == [Servers -> [Persons -> Nat]]
Uids == Persons \cup {Nobody}
UserRecords == [uid : Uids, token : Nat, percent : Nat, temporary : BOOLEAN]
Members == [person : Uids, known : BOOLEAN, visit : 0 .. MaxVisits]
Rows == [uid : Uids, token : Nat, visit : 0 .. MaxVisits]
Orders == [server : Servers \cup {Nobody}, client : Clients \cup {0}, uid : Uids, token : Nat,
           percent : Nat, visit : 0 .. MaxVisits]

VolumeTypeOK ==
    /\ prefs \in [users : Books, writable : BOOLEAN, dirty : BOOLEAN]
    /\ receive \in [server : Servers \cup {Nobody}, users : [Clients -> UserRecords], next : Nat \ {0}]
    /\ queues \in [Clients -> Nat \cup {Silent}]
    /\ book \in [server : Servers \cup {Nobody}, members : [Clients -> Members]]
    /\ screen \in [server : Servers \cup {Nobody}, rows : UNION {[S -> Rows] : S \in SUBSET Clients},
                   command : Orders]
    /\ saving \in [file : [readable : BOOLEAN, users : Books], jobs : Seq(Books), failed : BOOLEAN]
    /\ meant \in [users : Books, visits : [1 .. MaxVisits -> Nat \cup {NotChosen}]]
    /\ volumeSpent \in [visits : 0 .. MaxVisits, choices : Nat]

\* The session knows the server that the bookkeeping knows, and nobody without one.
OneServer ==
    /\ book.server = receive.server
    /\ book.server = Nobody => \A i \in Clients : /\ book.members[i] = NoMember
                                                  /\ receive.users[i] = NoUser
                                                  /\ queues[i] = Silent

\* Every visit is one of one member.
VisitsAreOne ==
    /\ \A i \in Clients : book.members[i] # NoMember =>
          book.members[i].person \in Persons /\ book.members[i].visit \in 1 .. volumeSpent.visits
    /\ \A i, j \in Clients : (book.members[i] # NoMember /\ book.members[j] # NoMember
                              /\ book.members[i].visit = book.members[j].visit) => i = j
    /\ \A v \in 1 .. MaxVisits : v > volumeSpent.visits => meant.visits[v] = NotChosen

\* A user without a member is the one of sound that came first.
UsersAreMembers ==
    \A i \in Clients :
        LET user == receive.users[i]  member == book.members[i] IN
        /\ user.token < receive.next /\ (user.token = 0 => user = NoUser)
        /\ user.temporary => prefs.writable
        /\ member = NoMember => user.uid = Nobody /\ ~user.temporary /\ user.percent = Default
        /\ member # NoMember /\ ~member.known =>
              (user.temporary <=> meant.visits[member.visit] # NotChosen)

\* A token on the screen or on its way names one user; without an identity it names one visit.
Names(row, i) ==
    /\ row.token # 0 /\ row.token < receive.next
    /\ row.uid = Nobody /\ receive.users[i].token = row.token /\ receive.users[i].uid = Nobody =>
          /\ book.members[i] # NoMember /\ ~book.members[i].known
          /\ book.members[i].visit = row.visit
TokensName ==
    /\ \A i \in DOMAIN screen.rows : Names(screen.rows[i], i)
    /\ screen.command # NoCommand =>
          screen.command.client \in Clients /\ Names(screen.command, screen.command.client)

\* Only preferences that could be read change, and the latest of them is on its way.
OnTheWay ==
    /\ prefs.dirty \/ saving.jobs # << >> => prefs.writable
    /\ saving.jobs # << >> /\ ~prefs.dirty => Coalesced(saving.jobs) = prefs.users

VolumeInv ==
    /\ VolumeTypeOK /\ OneServer /\ VisitsAreOne /\ UsersAreMembers /\ TokensName /\ OnTheWay
    /\ HeardAsChosen /\ KeptAsChosen

-----------------------------------------------------------------------------
(* What sync makes of the users                                            *)

LEMMA VolumeParts ==
    ASSUME VolumeTypeOK
    PROVE  /\ prefs.users \in Books /\ prefs.writable \in BOOLEAN /\ prefs.dirty \in BOOLEAN
           /\ receive.server \in Servers \cup {Nobody} /\ receive.next \in Nat \ {0}
           /\ receive.users \in [Clients -> UserRecords]
           /\ \A i \in Clients : /\ receive.users[i] \in UserRecords /\ book.members[i] \in Members
                                 /\ queues[i] \in Nat \cup {Silent}
           /\ book.server \in Servers \cup {Nobody} /\ book.members \in [Clients -> Members]
           /\ meant.users \in Books /\ meant.visits \in [1 .. MaxVisits -> Nat \cup {NotChosen}]
           /\ volumeSpent.visits \in 0 .. MaxVisits /\ MaxVisits \in Nat
  BY VolumesAssumption DEF VolumeTypeOK

LEMMA Defaults ==
    /\ NoUser \in UserRecords /\ NoUser.token = 0 /\ NoUser.uid = Nobody /\ NoUser.percent = Default
    /\ ~NoUser.temporary /\ NoMember \in Members /\ UidOf(NoMember) = Nobody /\ ~NoMember.known
    /\ NoMember.visit = 0 /\ Default \in Nat /\ Silent \notin Nat /\ NotChosen \notin Nat
  BY VolumesAssumption DEF NoUser, UserRecords, Uids, NoMember, Members, UidOf, Default, Silent, NotChosen

\* What a poll may bring of the bookkeeping: the own server, or one number that another
\* member enters, whose identity arrives, or that is left.
Moved(server, members, id, left) ==
    /\ server \in Servers /\ members \in [Clients -> Members]
    /\ volumeSpent' \in [visits : 0 .. MaxVisits, choices : Nat]
    /\ \A i \in Clients : i # id => members[i] = book.members[i]
    /\ \/ /\ id \notin Clients /\ left \notin Clients /\ book.server = Nobody
          /\ volumeSpent'.visits = volumeSpent.visits
       \/ /\ id \in Clients /\ book.server = server /\ book.members[id] # NoMember
          /\ left = id /\ members[id] = NoMember
          /\ volumeSpent'.visits = volumeSpent.visits
       \/ /\ id \in Clients /\ book.server = server /\ left \notin Clients
          /\ book.members[id] # NoMember /\ ~book.members[id].known
          /\ members[id] = [book.members[id] EXCEPT !.known = TRUE]
          /\ volumeSpent'.visits = volumeSpent.visits
       \/ /\ id \in Clients /\ book.server = server /\ left \notin Clients
          /\ book.members[id] = NoMember \/ (book.members[id].known /\ members[id].known)
          /\ members[id].person \in Persons /\ members[id].visit = volumeSpent.visits + 1
          /\ volumeSpent'.visits = volumeSpent.visits + 1 /\ volumeSpent.visits + 1 \in 1 .. MaxVisits

LEMMA KeptIs ==
    ASSUME VolumeInv, NEW server, NEW members, NEW id, NEW left, Moved(server, members, id, left),
           NEW i \in Clients
    PROVE  LET k == KeptUsers(server, members, left)[i] IN
           /\ k \in UserRecords
           /\ k = NoUser \/ (k = receive.users[i] /\ receive.server = server /\ i # left)
           /\ members[i] # NoMember /\ book.members[i] # NoMember => k = receive.users[i]
           /\ members[i] = NoMember => k.uid = Nobody /\ ~k.temporary /\ k.percent = Default
           /\ queues[i] # Silent /\ receive.server = server /\ i # left => k = receive.users[i]
  BY VolumeParts, Defaults DEF VolumeInv, KeptUsers, OneServer, Moved, Present, Members,
     UsersAreMembers, Sounding

\* A choice for a visit goes to its person when the identity arrives, and only then.
LEMMA BindingIs ==
    ASSUME VolumeInv, NEW server, NEW members, NEW id, NEW left, Moved(server, members, id, left)
    PROVE  LET kept == KeptUsers(server, members, left)
               chosen == meant.visits[members[id].visit] IN
           \/ Binding(kept, members) = {} /\ Meant(server, members, id) = meant
           \/ /\ Binding(kept, members) = {id} /\ id \in Clients /\ members[id].known
              /\ members[id].person \in Persons /\ kept[id].percent = chosen /\ prefs.writable
              /\ Meant(server, members, id) =
                    [meant EXCEPT !.users[server][members[id].person] = chosen]
<1> DEFINE kept == KeptUsers(server, members, left)
           chosen == meant.visits[members[id].visit]
           turns == /\ id \in Present(members) /\ members[id].known
                    /\ book.members[id].visit = members[id].visit /\ ~book.members[id].known
                    /\ chosen # NotChosen
<1>0. VolumeTypeOK /\ OneServer /\ UsersAreMembers /\ VisitsAreOne /\ HeardAsChosen
  BY DEF VolumeInv
<1>1. Meant(server, members, id) =
         IF turns THEN [meant EXCEPT !.users[server][members[id].person] = chosen] ELSE meant
  BY DEF Meant
<1>2. ASSUME NEW i \in Clients, members[i] # NoMember, Binds(kept[i], UidOf(members[i]))
      PROVE  /\ i = id /\ book.members[i] # NoMember /\ ~book.members[i].known
             /\ members[i] = [book.members[i] EXCEPT !.known = TRUE]
             /\ kept[i] = receive.users[i] /\ receive.users[i].temporary
  <2>1. /\ kept[i].token # 0 /\ kept[i].uid = Nobody /\ UidOf(members[i]) # Nobody
        /\ kept[i].temporary
    BY <1>2 DEF Binds
  <2>2. kept[i] = receive.users[i]
    BY <2>1, KeptIs, Defaults
  <2>3. book.members[i] # NoMember
    BY <1>0, <2>1, <2>2 DEF UsersAreMembers
  <2>4. UidOf(book.members[i]) = Nobody
    BY <1>0, <2>1, <2>2, <2>3 DEF HeardAsChosen
  <2>5. i = id
    BY <2>1, <2>4 DEF Moved
  <2>6. ~book.members[i].known
    BY <1>0, <2>3, <2>4, VolumesAssumption DEF VisitsAreOne, UidOf
  <2>7. members[i] = [book.members[i] EXCEPT !.known = TRUE]
    BY <1>2, <2>3, <2>5, <2>6 DEF Moved
  <2> QED BY <2>1, <2>2, <2>3, <2>5, <2>6, <2>7
<1>3. ASSUME turns
      PROVE  /\ id \in Clients /\ book.members[id] # NoMember /\ ~book.members[id].known
             /\ members[id] = [book.members[id] EXCEPT !.known = TRUE]
  BY <1>3, <1>0, VolumeParts, Defaults DEF Present, VisitsAreOne, Moved
<1>4. ASSUME NEW i \in Clients, book.members[i] # NoMember, ~book.members[i].known,
             members[i] = [book.members[i] EXCEPT !.known = TRUE], receive.users[i].temporary
      PROVE  /\ members[i] # NoMember /\ members[i].known
             /\ members[i].person \in Persons /\ members[i].visit = book.members[i].visit
             /\ meant.visits[members[i].visit] # NotChosen
             /\ receive.users[i].percent = meant.visits[members[i].visit] /\ prefs.writable
             /\ receive.users[i].token # 0 /\ receive.users[i].uid = Nobody
  BY <1>0, <1>4, VolumeParts, Defaults DEF Members, VisitsAreOne, UsersAreMembers,
     HeardAsChosen, UidOf
<1> HIDE DEF kept
<1>5. CASE Binding(kept, members) = {}
  BY <1>3, <1>0, <1>4, KeptIs, VolumesAssumption, <1>5, <1>1 DEF UsersAreMembers, kept, Binds,
     UidOf, Binding, Present
<1>6. CASE Binding(kept, members) # {}
  <2>1. PICK i \in Clients : members[i] # NoMember /\ Binds(kept[i], UidOf(members[i]))
    BY <1>6 DEF Binding, Present
  <2>2. Binding(kept, members) = {id}
    BY <1>2, <2>1 DEF Binding, Present, kept
  <2>3. /\ id \in Clients /\ book.members[id] # NoMember /\ ~book.members[id].known
        /\ members[id] = [book.members[id] EXCEPT !.known = TRUE]
        /\ kept[id] = receive.users[id] /\ receive.users[id].temporary
    BY <1>2, <2>1 DEF kept
  <2>4. /\ members[id] # NoMember /\ members[id].known
        /\ members[id].person \in Persons /\ members[id].visit = book.members[id].visit
        /\ chosen # NotChosen /\ receive.users[id].percent = chosen /\ prefs.writable
    BY <1>4, <2>3
  <2>5. turns
    BY <2>3, <2>4 DEF Present
  <2> QED BY <1>1, <2>2, <2>3, <2>4, <2>5 DEF kept
<1> QED BY <1>5, <1>6 DEF kept

\* What is kept of the volumes is what was chosen, also when an identity has arrived.
LEMMA BoundIs ==
    ASSUME VolumeInv, NEW server, NEW members, NEW id, NEW left, Moved(server, members, id, left)
    PROVE  LET kept == KeptUsers(server, members, left)
               saved == Bound(server, kept, members)
               told == Meant(server, members, id) IN
           /\ saved \in Books /\ told \in [users : Books, visits : [1 .. MaxVisits -> Nat \cup {NotChosen}]]
           /\ saved = told.users /\ told.visits = meant.visits
           /\ Binding(kept, members) # {} => prefs.writable
           /\ Binding(kept, members) = {} => saved = prefs.users
<1> DEFINE kept == KeptUsers(server, members, left)
           saved == Bound(server, kept, members)
           told == Meant(server, members, id)
           chosen == meant.visits[members[id].visit]
<1>0. /\ prefs.users \in Books /\ meant.users = prefs.users
      /\ meant \in [users : Books, visits : [1 .. MaxVisits -> Nat \cup {NotChosen}]]
  BY DEF VolumeInv, VolumeTypeOK, KeptAsChosen
<1>1. CASE Binding(kept, members) = {} /\ told = meant
  BY <1>1, <1>0 DEF Bound
<1>2. CASE /\ Binding(kept, members) = {id} /\ id \in Clients /\ members[id].known
           /\ members[id].person \in Persons /\ kept[id].percent = chosen /\ prefs.writable
           /\ told = [meant EXCEPT !.users[server][members[id].person] = chosen]
  <2> DEFINE p0 == members[id].person
             book1 == [p \in Persons |-> IF p = p0 THEN chosen ELSE prefs.users[server][p]]
             books == [prefs.users EXCEPT ![server] = book1]
  <2>1. server \in Servers
    BY DEF Moved
  <2>2. chosen \in Nat
    BY <1>2, KeptIs DEF UserRecords
  <2>3. /\ UidOf(members[id]) = p0 /\ p0 \in Persons
        /\ (CHOOSE i \in {id} : UidOf(members[i]) = p0) = id
    BY <1>2 DEF UidOf
  <2> HIDE DEF kept, told, chosen, p0
  <2>4. saved = [prefs.users EXCEPT ![server] = [p \in Persons |->
                   IF \E i \in {id} : UidOf(members[i]) = p
                     THEN kept[CHOOSE i \in {id} : UidOf(members[i]) = p].percent
                     ELSE prefs.users[server][p]]]
    BY <1>0, <1>2, <2>1 DEF Bound, Books
  <2>5. [p \in Persons |->
                   IF \E i \in {id} : UidOf(members[i]) = p
                     THEN kept[CHOOSE i \in {id} : UidOf(members[i]) = p].percent
                     ELSE prefs.users[server][p]] = book1
    BY <2>3, <1>2
  <2>6. saved = books
    BY <2>4, <2>5
  <2>7. [meant.users[server] EXCEPT ![p0] = chosen] = book1
    BY <1>0, <2>1 DEF Books
  <2>8. told = [meant EXCEPT !.users = [meant.users EXCEPT ![server] =
                                         [meant.users[server] EXCEPT ![p0] = chosen]]]
    BY <1>0, <1>2, <2>1 DEF Books, p0
  <2>9. told = [meant EXCEPT !.users = books]
    BY <1>0, <2>7, <2>8
  <2>10. books \in Books
    BY <1>0, <2>1, <2>2 DEF Books
  <2> HIDE DEF books, saved
  <2>11. told.users = books /\ told.visits = meant.visits
         /\ told \in [users : Books, visits : [1 .. MaxVisits -> Nat \cup {NotChosen}]]
    BY <1>0, <2>9, <2>10
  <2> QED BY <1>2, <2>6, <2>10, <2>11 DEF saved, told, kept
<1>3. \/ Binding(kept, members) = {} /\ told = meant
      \/ /\ Binding(kept, members) = {id} /\ id \in Clients /\ members[id].known
         /\ members[id].person \in Persons /\ kept[id].percent = chosen /\ prefs.writable
         /\ told = [meant EXCEPT !.users[server][members[id].person] = chosen]
  BY BindingIs
<1> QED BY <1>1, <1>2, <1>3

\* The user of one number.
LEMMA UserIs ==
    ASSUME NEW server, NEW kept, NEW members, NEW saved \in Books, server \in Servers,
           receive.next \in Nat \ {0},
           NEW i \in Clients, kept[i] \in UserRecords, members[i] \in Members,
           members[i] = NoMember => kept[i].uid = Nobody,
           members[i] # NoMember => members[i].person \in Persons
    PROVE  LET u == Users(server, kept, members, saved)[i]
               k == kept[i]
               uid == UidOf(members[i]) IN
           /\ u \in UserRecords
           /\ members[i] = NoMember => u = k
           /\ members[i] # NoMember =>
                 /\ u.uid = uid /\ u.token # 0
                 /\ u.token = (IF k.token # 0 /\ k.uid = uid THEN k.token ELSE receive.next)
                 /\ u.percent = (IF uid # Nobody THEN saved[server][uid]
                                 ELSE IF k.token # 0 /\ k.uid = uid THEN k.percent ELSE Default)
                 /\ u.temporary = (k.token # 0 /\ k.temporary)
<1> DEFINE u == Users(server, kept, members, saved)[i]
           k == kept[i]
           uid == UidOf(members[i])
           made == IF members[i] = NoMember THEN k
                   ELSE Synced(k, uid, receive.next, Volume(saved, server, uid))
           percent == Volume(saved, server, uid)
<1>1. u = IF made.uid = Nobody THEN made ELSE [made EXCEPT !.percent = saved[server][made.uid]]
  BY DEF Users, Present
<1>2. k \in UserRecords /\ uid \in Uids /\ Default \in Nat
  BY Defaults DEF UidOf, Members, Uids
<1>3. \A p \in Persons : saved[server][p] \in Nat
  BY DEF Books
<1>4. percent = (IF uid = Nobody THEN Default ELSE saved[server][uid]) /\ percent \in Nat
  BY <1>2, <1>3 DEF Volume, Uids
<1>5. ASSUME members[i] = NoMember
      PROVE  u = k
  BY <1>1, <1>5
<1> HIDE DEF k, uid, u, percent
<1>6. ASSUME members[i] # NoMember
      PROVE  /\ made \in UserRecords /\ made.uid = uid
             /\ made.token = (IF k.token # 0 /\ k.uid = uid THEN k.token ELSE receive.next)
             /\ made.percent = (IF k.token # 0 /\ k.uid = uid THEN k.percent ELSE percent)
             /\ made.temporary = (k.token # 0 /\ k.temporary)
  <2>0. made = Synced(k, uid, receive.next, percent)
    BY <1>6 DEF percent
  <2>1. CASE k.token # 0 /\ k.uid = uid
    BY <2>0, <2>1, <1>2 DEF Synced, UserRecords
  <2>2. CASE k.token # 0 /\ k.uid # uid
    BY <2>0, <2>2, <1>2, <1>4 DEF Synced, UserRecords
  <2>3. CASE k.token = 0
    <3>1. made = [uid |-> uid, token |-> receive.next, percent |-> percent, temporary |-> FALSE]
      BY <2>0, <2>3 DEF Synced
    <3> HIDE DEF made
    <3> QED BY <1>2, <1>4, <2>3, <3>1 DEF UserRecords
  <2> QED BY <2>1, <2>2, <2>3
<1> HIDE DEF made
<1>7. ASSUME members[i] # NoMember
      PROVE  /\ u \in UserRecords /\ u.uid = uid /\ u.token = made.token /\ u.temporary = made.temporary
             /\ u.percent = (IF uid # Nobody THEN saved[server][uid] ELSE made.percent)
  BY <1>1, <1>6, <1>7, <1>2, <1>3 DEF Uids, UserRecords
<1>8. ASSUME members[i] # NoMember
      PROVE  /\ u.uid = uid /\ u.token # 0
             /\ u.token = (IF k.token # 0 /\ k.uid = uid THEN k.token ELSE receive.next)
             /\ u.percent = (IF uid # Nobody THEN saved[server][uid]
                             ELSE IF k.token # 0 /\ k.uid = uid THEN k.percent ELSE Default)
             /\ u.temporary = (k.token # 0 /\ k.temporary)
  BY <1>6, <1>7, <1>8, <1>4
<1>9. u \in UserRecords
  BY <1>2, <1>5, <1>7
<1> QED BY <1>5, <1>8, <1>9 DEF k, u, uid

-----------------------------------------------------------------------------
(* Every step keeps the invariant                                          *)

LEMMA BookKeeps ==
    ASSUME VolumeInv, NEW server, NEW members, NEW id, NEW left, Moved(server, members, id, left),
           BookEvents(server, members, id, left)
    PROVE  VolumeInv'
<1> DEFINE kept == KeptUsers(server, members, left)
           saved == Bound(server, kept, members)
           users == Users(server, kept, members, saved)
           renewed == {i \in Present(members) : kept[i].token = 0 \/ kept[i].uid # UidOf(members[i])}
           other == {i \in Present(members) :
                       kept[i].token # 0 /\ kept[i].uid \notin {Nobody, UidOf(members[i])}}
           told == Meant(server, members, id)
<1>0. /\ VolumeTypeOK /\ OneServer /\ UsersAreMembers /\ VisitsAreOne /\ TokensName /\ OnTheWay
      /\ HeardAsChosen /\ KeptAsChosen
  BY DEF VolumeInv
<1>1. /\ receive' = [server |-> server, users |-> users, next |-> receive.next + Cardinality(renewed)]
      /\ prefs' = [prefs EXCEPT !.users = saved, !.dirty = @ \/ Binding(kept, members) # {}]
      /\ queues' = [i \in Clients |->
                       IF i \in Sounding(server, left) \ other /\ users[i].token # 0
                         THEN users[i].percent ELSE Silent]
      /\ book' = [server |-> server, members |-> members]
      /\ meant' = told
      /\ UNCHANGED <<screen, saving>>
  BY DEF BookEvents
<1>2. /\ saved \in Books /\ told \in [users : Books, visits : [1 .. MaxVisits -> Nat \cup {NotChosen}]]
      /\ saved = told.users /\ told.visits = meant.visits
      /\ Binding(kept, members) # {} => prefs.writable
      /\ Binding(kept, members) = {} => saved = prefs.users
  BY BoundIs
<1>3. server \in Servers /\ members \in [Clients -> Members] /\ server # Nobody
  BY VolumesAssumption DEF Moved
<1>4. /\ book'.server = server /\ book'.members = members
      /\ book' \in [server : Servers \cup {Nobody}, members : [Clients -> Members]]
  BY <1>1, <1>3
<1>5. \A i \in Clients : members[i] # NoMember =>
         /\ members[i].person \in Persons /\ members[i].visit \in 1 .. volumeSpent'.visits
         /\ members[i] = book.members[i]
            \/ (i = id /\ book.members[i] # NoMember /\ ~book.members[i].known
                /\ members[i] = [book.members[i] EXCEPT !.known = TRUE])
            \/ (i = id /\ members[i].visit = volumeSpent.visits + 1
                /\ volumeSpent'.visits = volumeSpent.visits + 1
                /\ (book.members[i] = NoMember \/ (book.members[i].known /\ members[i].known)))
  <2> TAKE i \in Clients
  <2> HAVE members[i] # NoMember
  <2>1. /\ volumeSpent.visits \in Nat /\ volumeSpent'.visits \in {volumeSpent.visits, volumeSpent.visits + 1}
        /\ book.members[i] \in Members
    BY <1>0, VolumeParts DEF Moved
  <2>2. book.members[i] # NoMember =>
           book.members[i].person \in Persons /\ book.members[i].visit \in 1 .. volumeSpent.visits
    BY <1>0 DEF VisitsAreOne
  <2>3. CASE members[i] = book.members[i]
    BY <2>1, <2>2, <2>3
  <2>4. CASE /\ i = id /\ book.members[i] # NoMember /\ ~book.members[i].known
             /\ members[i] = [book.members[i] EXCEPT !.known = TRUE]
    BY <2>1, <2>4, <2>2 DEF Members
  <2>5. CASE /\ i = id /\ members[i].visit = volumeSpent.visits + 1 /\ members[i].person \in Persons
             /\ volumeSpent'.visits = volumeSpent.visits + 1
             /\ (book.members[i] = NoMember \/ (book.members[i].known /\ members[i].known))
    BY <2>1, <2>5
  <2> QED BY <2>3, <2>4, <2>5 DEF Moved
<1>6. ASSUME NEW i \in Clients
      PROVE  /\ kept[i] \in UserRecords
             /\ kept[i] = NoUser \/ (kept[i] = receive.users[i] /\ receive.server = server /\ i # left)
             /\ members[i] # NoMember /\ book.members[i] # NoMember => kept[i] = receive.users[i]
             /\ members[i] = NoMember => kept[i].uid = Nobody /\ ~kept[i].temporary /\ kept[i].percent = Default
             /\ queues[i] # Silent /\ receive.server = server /\ i # left => kept[i] = receive.users[i]
  BY KeptIs
<1>7. \A i \in Clients : members[i] \in Members
  BY <1>3
<1>8. ASSUME NEW i \in Clients
      PROVE  /\ users[i] \in UserRecords
             /\ members[i] = NoMember => users[i] = kept[i]
             /\ members[i] # NoMember =>
                   /\ users[i].uid = UidOf(members[i]) /\ users[i].token # 0
                   /\ users[i].token = (IF kept[i].token # 0 /\ kept[i].uid = UidOf(members[i])
                                        THEN kept[i].token ELSE receive.next)
                   /\ users[i].percent = (IF UidOf(members[i]) # Nobody THEN saved[server][UidOf(members[i])]
                                          ELSE IF kept[i].token # 0 /\ kept[i].uid = UidOf(members[i])
                                               THEN kept[i].percent ELSE Default)
                   /\ users[i].temporary = (kept[i].token # 0 /\ kept[i].temporary)
  BY <1>0, <1>5, <1>6, <1>7, VolumeParts, <1>2, <1>3, UserIs
<1> HIDE DEF kept, saved, users, told
<1>9. users \in [Clients -> UserRecords]
  BY <1>8 DEF users, Users
<1>10. /\ renewed \subseteq {id}
       /\ \A i \in Clients : members[i] # NoMember /\ users[i].token = receive.next => renewed # {}
       /\ Cardinality(renewed) \in {0, 1} /\ (renewed # {} => Cardinality(renewed) = 1)
  <2>1. ASSUME NEW i \in Clients, members[i] # NoMember, i # id
        PROVE  kept[i].token # 0 /\ kept[i].uid = UidOf(members[i])
    BY <2>1, <1>6, <1>0 DEF Moved, HeardAsChosen
  <2>2. renewed \subseteq {id}
    BY <2>1 DEF Present
  <2>3. ASSUME NEW i \in Clients, members[i] # NoMember, users[i].token = receive.next
        PROVE  renewed # {}
    BY <1>8, <2>3, <1>6, Defaults, <1>0, VolumeParts DEF UsersAreMembers, UserRecords,
       Present
  <2>4. renewed = {} \/ renewed = {id}
    BY <2>2
  <2>5. Cardinality({}) = 0 /\ Cardinality({id}) = 1
    BY FS_EmptySet, FS_Singleton
  <2> HIDE DEF renewed
  <2> QED BY <2>2, <2>3, <2>4, <2>5
<1> DEFINE next == receive.next + Cardinality(renewed)
<1>11. /\ next \in Nat \ {0} /\ receive.next <= next
       /\ \A i \in Clients : users[i].token < next
  <2>1. receive.next \in Nat \ {0} /\ next \in Nat \ {0} /\ receive.next <= next
    BY <1>0, <1>10, VolumeParts
  <2>2. ASSUME NEW i \in Clients
        PROVE  users[i].token < next
    BY <2>1, Defaults, <1>0, <1>6, <1>8, <1>10 DEF UsersAreMembers, UserRecords
  <2> HIDE DEF next
  <2> QED BY <2>1, <2>2
<1>12. receive'.server = server /\ receive'.users = users /\ receive'.next = next
       /\ receive' \in [server : Servers \cup {Nobody}, users : [Clients -> UserRecords], next : Nat \ {0}]
  BY <1>1, <1>3, <1>9, <1>11
<1> HIDE DEF next, renewed, other
<1>13. /\ prefs'.users = saved /\ prefs'.writable = prefs.writable
       /\ prefs'.dirty = (prefs.dirty \/ Binding(kept, members) # {})
       /\ prefs' \in [users : Books, writable : BOOLEAN, dirty : BOOLEAN]
  BY <1>1, <1>0, <1>2 DEF VolumeTypeOK
<1>14. volumeSpent'.visits \in 0 .. MaxVisits
       /\ volumeSpent.visits \in Nat /\ volumeSpent'.visits \in Nat
       /\ volumeSpent'.visits \in {volumeSpent.visits, volumeSpent.visits + 1}
  BY <1>0, VolumeParts DEF Moved
<1>15. queues' \in [Clients -> Nat \cup {Silent}]
  BY <1>8, <1>1 DEF UserRecords
<1>16. VolumeTypeOK'
  BY <1>0, <1>1, <1>2, <1>4, <1>12, <1>13, <1>15 DEF VolumeTypeOK, Moved
<1>17. OneServer'
  BY <1>3, <1>4, <1>12 DEF OneServer
<1>18. VisitsAreOne'
  <2>1. ASSUME NEW i \in Clients, NEW j \in Clients, members[i] # NoMember, members[j] # NoMember,
               members[i].visit = members[j].visit
        PROVE  i = j
    <3> DEFINE Came(k) == /\ k = id /\ members[k].visit = volumeSpent.visits + 1
               Stays(k) == /\ book.members[k] # NoMember /\ members[k].visit = book.members[k].visit
                           /\ members[k].visit \in 1 .. volumeSpent.visits
    <3>1. ASSUME NEW k \in Clients, members[k] # NoMember
          PROVE  Came(k) \/ Stays(k)
      BY <1>0, <3>1, VolumeParts, <1>5 DEF VisitsAreOne, Members
    <3>2. CASE Came(i) /\ Came(j)
      BY <3>2
    <3>3. CASE Stays(i) /\ Stays(j)
      BY <1>0, <2>1, <3>3 DEF VisitsAreOne
    <3>4. CASE (Came(i) /\ Stays(j)) \/ (Came(j) /\ Stays(i))
      BY <1>14, <2>1, <3>4
    <3> QED BY <2>1, <3>1, <3>2, <3>3, <3>4
  <2>2. \A v \in 1 .. MaxVisits : v > volumeSpent'.visits => told.visits[v] = NotChosen
    BY <1>14, <1>0, <1>2 DEF VisitsAreOne
  <2>3. meant'.visits = told.visits
    BY <1>1
  <2>4. \A i \in Clients : members[i] # NoMember =>
           members[i].person \in Persons /\ members[i].visit \in 1 .. volumeSpent'.visits
    BY <1>5
  <2> QED BY <1>4, <2>1, <2>2, <2>3, <2>4 DEF VisitsAreOne
\* A member whose identity is not known has the user of before, or a new one.
<1>19. ASSUME NEW i \in Clients, members[i] # NoMember, ~members[i].known
       PROVE  /\ users[i].uid = Nobody
              /\ users[i].percent = IF told.visits[members[i].visit] = NotChosen THEN Default
                                    ELSE told.visits[members[i].visit]
              /\ users[i].temporary <=> told.visits[members[i].visit] # NotChosen
  <2>0. UidOf(members[i]) = Nobody
    BY <1>19 DEF UidOf
  <2>1. users[i].uid = Nobody
    BY <1>8, <1>19, <2>0
  <2>2. CASE members[i] = book.members[i]
    BY <1>6, <1>19, <2>2, <1>0, <2>0, <1>8, <1>2, <2>1 DEF HeardAsChosen, UsersAreMembers,
       UserRecords
  <2>3. CASE members[i] # book.members[i]
    <3>1. /\ i = id /\ members[i].visit = volumeSpent.visits + 1 /\ book.members[i] = NoMember
          /\ members[i].visit \in 1 .. volumeSpent'.visits
      BY <1>0, <1>19, VolumeParts, <1>5, <2>3 DEF Members
    <3>2. told.visits[members[i].visit] = NotChosen
      BY <1>14, <3>1, <1>0, <1>2 DEF VisitsAreOne
    <3>3. kept[i].uid = Nobody /\ ~kept[i].temporary /\ kept[i].percent = Default
      BY Defaults, <1>0, <3>1, <1>6 DEF UsersAreMembers
    <3>4. users[i].percent = Default /\ ~users[i].temporary
      BY <1>8, <1>19, <2>0, <3>3
    <3> QED BY <2>1, <3>2, <3>4
  <2> QED BY <2>2, <2>3
<1>20. UsersAreMembers'
  <2>1. ASSUME NEW i \in Clients
        PROVE  /\ users[i].token = 0 => users[i] = NoUser
               /\ users[i].temporary => prefs.writable
               /\ members[i] = NoMember =>
                     users[i].uid = Nobody /\ ~users[i].temporary /\ users[i].percent = Default
    <3>1. kept[i].token = 0 => kept[i] = NoUser
      BY <1>0, <1>6 DEF UsersAreMembers
    <3>2. kept[i].temporary => prefs.writable
      BY <1>0, <1>6, Defaults DEF UsersAreMembers
    <3> QED BY <1>6, <1>8, <3>1, <3>2
  <2>2. \A i \in Clients : members[i] # NoMember /\ ~members[i].known =>
           (users[i].temporary <=> told.visits[members[i].visit] # NotChosen)
    BY <1>19
  <2>3. meant' = told
    BY <1>1
  <2> QED BY <1>4, <1>11, <1>12, <1>13, <2>1, <2>2, <2>3 DEF UsersAreMembers
<1>21. TokensName'
  <2>1. ASSUME NEW row, NEW i \in Clients, Names(row, i), row.token \in Nat
        PROVE  Names(row, i)'
    <3>1. row.token # 0 /\ row.token < receive.next /\ row.token < next
      BY <2>1, <1>0, <1>11, VolumeParts DEF Names
    <3>2. ASSUME row.uid = Nobody, users[i].token = row.token, users[i].uid = Nobody
          PROVE  members[i] # NoMember /\ ~members[i].known /\ members[i].visit = row.visit
      <4>1. users[i].token = kept[i].token /\ kept[i].uid = Nobody /\ kept[i].token # 0
        BY <1>0, <2>1, <3>1, <3>2, VolumeParts, <1>8
      <4>2. kept[i] = receive.users[i] /\ receive.server = server /\ i # left
        BY <1>6, <4>1, Defaults
      <4>3. book.members[i] # NoMember /\ ~book.members[i].known /\ book.members[i].visit = row.visit
        BY <2>1, <3>2, <4>1, <4>2 DEF Names
      <4>4. members[i] # NoMember
        BY <4>3, <4>2, <1>0, <1>3, VolumeParts, Defaults DEF Moved, OneServer, Members
      <4>5. UidOf(members[i]) = Nobody
        BY <1>8, <3>2, <4>4
      <4>6. ~members[i].known
        BY <1>5, <4>4, VolumesAssumption, <4>5 DEF UidOf
      <4>7. members[i] = book.members[i]
        BY <1>0, <4>6, VolumeParts, <1>5, <4>3, <4>4 DEF Members
      <4> QED BY <4>3, <4>4, <4>6, <4>7
    <3> QED BY <1>4, <1>12, <3>1, <3>2 DEF Names
  <2>2. ASSUME NEW i \in DOMAIN screen.rows
        PROVE  Names(screen.rows[i], i)'
    BY <1>0, <1>1, <2>1 DEF VolumeTypeOK, TokensName, Rows, Names
  <2>3. ASSUME screen.command # NoCommand
        PROVE  screen.command.client \in Clients /\ Names(screen.command, screen.command.client)'
    BY <1>0, <2>3, <2>1, <1>1 DEF TokensName, VolumeTypeOK, Orders, Names
  <2>4. screen' = screen
    BY <1>1
  <2> QED BY <2>2, <2>3, <2>4 DEF TokensName
<1>22. OnTheWay'
  BY <1>0, <1>2, <1>13, <1>1 DEF OnTheWay
<1>23. HeardAsChosen'
  <2>1. ASSUME NEW i \in Clients, members[i] # NoMember
        PROVE  /\ users[i].token # 0 /\ users[i].uid = UidOf(members[i])
               /\ users[i].percent = IF members[i].known THEN told.users[server][members[i].person]
                                     ELSE IF told.visits[members[i].visit] = NotChosen THEN Default
                                     ELSE told.visits[members[i].visit]
    <3>1. CASE ~members[i].known
      BY <1>8, <1>19, <2>1, <3>1
    <3>2. CASE members[i].known
      BY <1>5, <2>1, <3>2, VolumesAssumption, <1>2, <1>8 DEF UidOf
    <3> QED BY <3>1, <3>2
  <2>2. \A i \in Clients : queues'[i] # Silent =>
           users[i].token # 0 /\ queues'[i] = users[i].percent
    BY <1>1
  <2>3. meant' = told
    BY <1>1
  <2> QED BY <1>4, <1>12, <2>1, <2>2, <2>3 DEF HeardAsChosen
<1>24. KeptAsChosen'
  BY <1>2, <1>13, <1>0, <1>1 DEF KeptAsChosen
<1> QED BY <1>16, <1>17, <1>18, <1>20, <1>21, <1>22, <1>23, <1>24 DEF VolumeInv

LEMMA ServerKeeps ==
    ASSUME VolumeInv, NEW server \in Servers, ServerKnown(server)
    PROVE  VolumeInv'
<1> DEFINE members == [i \in Clients |-> NoMember]
<1>1. /\ book.server = Nobody /\ volumeSpent' = volumeSpent
      /\ BookEvents(server, members, 0, 0)
  BY DEF ServerKnown
<1>2. volumeSpent \in [visits : 0 .. MaxVisits, choices : Nat]
  BY DEF VolumeInv, VolumeTypeOK
<1>3. \A i \in Clients : book.members[i] = NoMember
  BY <1>1 DEF VolumeInv, OneServer
<1>4. Moved(server, members, 0, 0)
  BY <1>1, <1>2, <1>3, Defaults, VolumesAssumption DEF Moved
<1> HIDE DEF members
<1> QED BY <1>1, <1>4, BookKeeps

LEMMA EnterKeeps ==
    ASSUME VolumeInv, NEW id \in Clients, NEW person \in Persons, NEW known \in BOOLEAN,
           Enter(id, person, known)
    PROVE  VolumeInv'
<1> DEFINE member == [person |-> person, known |-> known, visit |-> volumeSpent.visits + 1]
           members == [book.members EXCEPT ![id] = member]
<1>1. /\ book.server # Nobody /\ volumeSpent.visits < MaxVisits
      /\ book.members[id] = NoMember \/ (book.members[id].known /\ known)
      /\ volumeSpent' = [volumeSpent EXCEPT !.visits = @ + 1]
      /\ BookEvents(book.server, members, id, 0)
  BY DEF Enter
<1>2. /\ volumeSpent \in [visits : 0 .. MaxVisits, choices : Nat] /\ MaxVisits \in Nat
      /\ book.server \in Servers /\ book.members \in [Clients -> Members]
  BY <1>1, VolumesAssumption DEF VolumeInv, VolumeTypeOK
<1>3. volumeSpent.visits + 1 \in 1 .. MaxVisits
  BY <1>1, <1>2
<1>4. /\ volumeSpent'.visits = volumeSpent.visits + 1
      /\ volumeSpent' \in [visits : 0 .. MaxVisits, choices : Nat]
  BY <1>1, <1>2, <1>3
<1>5. member \in Members
  BY <1>3 DEF Members, Uids
<1>6. /\ members \in [Clients -> Members] /\ members[id] = member
      /\ \A i \in Clients : i # id => members[i] = book.members[i]
  BY <1>2, <1>5
<1>7. member.person = person /\ member.known = known /\ member.visit = volumeSpent.visits + 1
  OBVIOUS
<1> HIDE DEF member, members
<1>8. Moved(book.server, members, id, 0)
  BY <1>1, <1>2, <1>3, <1>4, <1>6, <1>7, VolumesAssumption DEF Moved
<1> QED BY <1>1, <1>8, BookKeeps

LEMMA UidKeeps ==
    ASSUME VolumeInv, NEW id \in Clients, UidArrives(id)
    PROVE  VolumeInv'
<1> DEFINE members == [book.members EXCEPT ![id].known = TRUE]
<1>1. /\ book.members[id] # NoMember /\ ~book.members[id].known /\ volumeSpent' = volumeSpent
      /\ BookEvents(book.server, members, id, 0)
  BY DEF UidArrives
<1>2. /\ volumeSpent \in [visits : 0 .. MaxVisits, choices : Nat]
      /\ book.server \in Servers /\ book.members \in [Clients -> Members]
  BY <1>1, VolumesAssumption DEF VolumeInv, VolumeTypeOK, OneServer
<1>3. [book.members[id] EXCEPT !.known = TRUE] \in Members
  BY <1>2 DEF Members
<1>4. /\ members \in [Clients -> Members]
      /\ members[id] = [book.members[id] EXCEPT !.known = TRUE]
      /\ \A i \in Clients : i # id => members[i] = book.members[i]
  BY <1>2, <1>3
<1> HIDE DEF members
<1>5. Moved(book.server, members, id, 0)
  BY <1>1, <1>2, <1>4, VolumesAssumption DEF Moved
<1> QED BY <1>1, <1>5, BookKeeps

LEMMA LeaveKeeps ==
    ASSUME VolumeInv, NEW id \in Clients, Leave(id)
    PROVE  VolumeInv'
<1> DEFINE members == [book.members EXCEPT ![id] = NoMember]
<1>1. /\ book.members[id] # NoMember /\ volumeSpent' = volumeSpent
      /\ BookEvents(book.server, members, id, id)
  BY DEF Leave
<1>2. /\ volumeSpent \in [visits : 0 .. MaxVisits, choices : Nat]
      /\ book.server \in Servers /\ book.members \in [Clients -> Members]
  BY <1>1, VolumesAssumption DEF VolumeInv, VolumeTypeOK, OneServer
<1>3. /\ members \in [Clients -> Members] /\ members[id] = NoMember
      /\ \A i \in Clients : i # id => members[i] = book.members[i]
  BY <1>2, Defaults
<1> HIDE DEF members
<1>4. Moved(book.server, members, id, id)
  BY <1>1, <1>2, <1>3 DEF Moved
<1> QED BY <1>1, <1>4, BookKeeps

LEMMA CutKeeps ==
    ASSUME VolumeInv, Cut
    PROVE  VolumeInv'
<1>0. /\ VolumeTypeOK /\ OneServer /\ UsersAreMembers /\ VisitsAreOne /\ TokensName /\ OnTheWay
      /\ HeardAsChosen /\ KeptAsChosen
  BY DEF VolumeInv
<1>1. /\ book' = [server |-> Nobody, members |-> [i \in Clients |-> NoMember]]
      /\ receive' = [receive EXCEPT !.server = Nobody, !.users = [i \in Clients |-> NoUser]]
      /\ queues' = [i \in Clients |-> Silent]
      /\ UNCHANGED <<prefs, screen, saving, meant, volumeSpent>>
  BY DEF Cut
<1>2. /\ receive'.server = Nobody /\ receive'.users = [i \in Clients |-> NoUser]
      /\ receive'.next = receive.next
      /\ receive' \in [server : Servers \cup {Nobody}, users : [Clients -> UserRecords], next : Nat \ {0}]
  BY Defaults, <1>1, <1>0 DEF VolumeTypeOK
<1>3. VolumeTypeOK'
  BY <1>0, <1>1, <1>2, Defaults DEF VolumeTypeOK
<1>4. OneServer'
  BY <1>1, <1>2 DEF OneServer
<1>5. VisitsAreOne'
  BY <1>0, <1>1 DEF VisitsAreOne
<1>6. UsersAreMembers'
  BY <1>0, <1>1, <1>2, VolumeParts, Defaults DEF UsersAreMembers
<1>7. TokensName'
  BY <1>2, Defaults, <1>0, <1>1 DEF Names, VolumeTypeOK, TokensName
<1>8. OnTheWay' /\ KeptAsChosen'
  BY <1>0, <1>1 DEF OnTheWay, KeptAsChosen
<1>9. HeardAsChosen'
  BY <1>1 DEF HeardAsChosen
<1> QED BY <1>3, <1>4, <1>5, <1>6, <1>7, <1>8, <1>9 DEF VolumeInv

LEMMA AudioKeeps ==
    ASSUME VolumeInv, NEW id \in Clients, Audio(id)
    PROVE  VolumeInv'
<1> DEFINE entered == receive.users[id].token = 0
           user == IF entered THEN [NoUser EXCEPT !.token = receive.next] ELSE receive.users[id]
           next == IF entered THEN receive.next + 1 ELSE receive.next
<1>0. /\ VolumeTypeOK /\ OneServer /\ UsersAreMembers /\ VisitsAreOne /\ TokensName /\ OnTheWay
      /\ HeardAsChosen /\ KeptAsChosen
  BY DEF VolumeInv
<1>1. /\ book.server # Nobody /\ queues[id] = Silent
      /\ receive' = [receive EXCEPT !.users[id] = user, !.next = IF entered THEN @ + 1 ELSE @]
      /\ queues' = [queues EXCEPT ![id] = user.percent]
      /\ UNCHANGED <<prefs, book, screen, saving, meant, volumeSpent>>
  BY DEF Audio
<1>2. /\ receive.next \in Nat \ {0} /\ receive.users[id] \in UserRecords
      /\ receive.users[id].token < receive.next
  BY <1>0, VolumeParts DEF UsersAreMembers
<1>3. /\ user \in UserRecords /\ user.uid = receive.users[id].uid /\ user.percent = receive.users[id].percent
      /\ user.temporary = receive.users[id].temporary /\ user.token # 0
      /\ user.token = IF entered THEN receive.next ELSE receive.users[id].token
  BY <1>0, <1>2, Defaults DEF UsersAreMembers, NoUser, UserRecords, Uids
<1>4. /\ next \in Nat \ {0} /\ receive.next <= next /\ user.token < next
  BY <1>2, <1>3
<1>5. entered => book.members[id] = NoMember
  BY <1>0 DEF HeardAsChosen
<1>6. /\ receive'.server = receive.server /\ receive'.users = [receive.users EXCEPT ![id] = user]
      /\ receive'.next = next
      /\ receive' \in [server : Servers \cup {Nobody}, users : [Clients -> UserRecords], next : Nat \ {0}]
  BY <1>0, <1>3, VolumeParts, <1>1, <1>4 DEF VolumeTypeOK
<1> HIDE DEF user, next, entered
<1>7. \A i \in Clients : /\ receive'.users[i] = IF i = id THEN user ELSE receive.users[i]
                         /\ queues'[i] = IF i = id THEN user.percent ELSE queues[i]
  BY <1>0, <1>1, <1>6, VolumeParts DEF VolumeTypeOK
<1>8. VolumeTypeOK'
  BY <1>3, <1>0, <1>1, <1>6 DEF UserRecords, VolumeTypeOK
<1>9. OneServer'
  BY <1>0, <1>1, <1>6 DEF OneServer
<1>10. VisitsAreOne'
  BY <1>0, <1>1 DEF VisitsAreOne
<1>11. UsersAreMembers'
  BY <1>0, VolumeParts, <1>2, <1>4, <1>6, <1>7, <1>3, <1>1 DEF UsersAreMembers, UserRecords
<1>12. TokensName'
  BY <1>2, <1>4, <1>3, <1>7, <1>1, <1>6, <1>0 DEF Names, VolumeTypeOK, TokensName, Rows,
     Orders
<1>13. OnTheWay' /\ KeptAsChosen'
  BY <1>0, <1>1 DEF OnTheWay, KeptAsChosen
<1>14. HeardAsChosen'
  <2>1. \A i \in Clients : book.members[i] # NoMember => receive'.users[i] = receive.users[i]
    BY <1>5, <1>7 DEF user
  <2>2. \A i \in Clients : queues'[i] # Silent =>
           receive'.users[i].token # 0 /\ queues'[i] = receive'.users[i].percent
    BY <1>0, <1>3, <1>7 DEF HeardAsChosen
  <2>3. book' = book /\ meant' = meant
    BY <1>1
  <2> QED BY <1>0, <2>1, <2>2, <2>3 DEF HeardAsChosen
<1> QED BY <1>8, <1>9, <1>10, <1>11, <1>12, <1>13, <1>14 DEF VolumeInv

LEMMA QueueKeeps ==
    ASSUME VolumeInv, QueueEnds
    PROVE  VolumeInv'
<1>0. /\ VolumeTypeOK /\ OneServer /\ UsersAreMembers /\ VisitsAreOne /\ TokensName /\ OnTheWay
      /\ HeardAsChosen /\ KeptAsChosen
  BY DEF VolumeInv
<1>1. PICK gone : queues' = [i \in Clients |-> IF i \in gone THEN Silent ELSE queues[i]]
  BY DEF QueueEnds
<1>2. UNCHANGED <<prefs, receive, book, screen, saving, meant, volumeSpent>>
  BY DEF QueueEnds
<1>3. VolumeTypeOK'
  BY <1>0, <1>1, <1>2 DEF VolumeTypeOK
<1>4. OneServer'
  BY <1>0, <1>1, <1>2 DEF OneServer
<1>5. VisitsAreOne' /\ UsersAreMembers'
  BY <1>0, <1>2 DEF VisitsAreOne, UsersAreMembers
<1>6. TokensName' /\ OnTheWay' /\ KeptAsChosen'
  BY <1>0, <1>2 DEF TokensName, Names, OnTheWay, KeptAsChosen
<1>7. HeardAsChosen'
  BY <1>0, <1>1, <1>2 DEF HeardAsChosen
<1> QED BY <1>3, <1>4, <1>5, <1>6, <1>7 DEF VolumeInv

LEMMA ScreenKeeps ==
    ASSUME VolumeInv, ShowRows
    PROVE  VolumeInv'
<1> DEFINE here == {i \in Clients : book.members[i] # NoMember}
           rows == [i \in here |-> [uid |-> UidOf(book.members[i]), token |-> receive.users[i].token,
                                    visit |-> book.members[i].visit]]
<1>0. /\ VolumeTypeOK /\ OneServer /\ UsersAreMembers /\ VisitsAreOne /\ TokensName /\ OnTheWay
      /\ HeardAsChosen /\ KeptAsChosen
  BY DEF VolumeInv
<1>1. /\ book.server # Nobody /\ screen' = [screen EXCEPT !.server = book.server, !.rows = rows]
      /\ UNCHANGED <<prefs, receive, queues, book, saving, meant, volumeSpent>>
  BY DEF ShowRows
<1>2. ASSUME NEW i \in here
      PROVE  rows[i] \in Rows /\ Names(rows[i], i)
  BY <1>0, VolumeParts, VolumesAssumption DEF UidOf, Members, Uids, Rows, UserRecords,
     HeardAsChosen, UsersAreMembers, VisitsAreOne, Names
<1>3. rows \in UNION {[S -> Rows] : S \in SUBSET Clients} /\ DOMAIN rows = here
  <2>1. here \in SUBSET Clients /\ rows = [i \in here |-> rows[i]]
    OBVIOUS
  <2> HIDE DEF rows, here
  <2>2. rows \in [here -> Rows]
    BY <1>2, <2>1
  <2> QED BY <2>1, <2>2
<1> HIDE DEF rows, here
<1>4. /\ screen'.server = book.server /\ screen'.rows = rows /\ screen'.command = screen.command
      /\ screen' \in [server : Servers \cup {Nobody}, rows : UNION {[S -> Rows] : S \in SUBSET Clients},
                      command : Orders]
  BY <1>0, <1>1, <1>3 DEF VolumeTypeOK
<1>5. VolumeTypeOK'
  BY <1>0, <1>1, <1>4 DEF VolumeTypeOK
<1>6. OneServer' /\ VisitsAreOne' /\ UsersAreMembers'
  BY <1>0, <1>1 DEF OneServer, VisitsAreOne, UsersAreMembers
<1>7. TokensName'
  BY <1>1, <1>2, <1>4, <1>0, <1>3 DEF Names, TokensName
<1>8. OnTheWay' /\ HeardAsChosen' /\ KeptAsChosen'
  BY <1>0, <1>1 DEF OnTheWay, HeardAsChosen, KeptAsChosen
<1> QED BY <1>5, <1>6, <1>7, <1>8 DEF VolumeInv

LEMMA UserSetsKeeps ==
    ASSUME VolumeInv, NEW id \in Clients, NEW percent \in Percents, UserSets(id, percent)
    PROVE  VolumeInv'
<1> DEFINE row == screen.rows[id]
           command == [server |-> screen.server, client |-> id, uid |-> row.uid,
                       token |-> row.token, percent |-> percent, visit |-> row.visit]
<1>0. /\ VolumeTypeOK /\ OneServer /\ UsersAreMembers /\ VisitsAreOne /\ TokensName /\ OnTheWay
      /\ HeardAsChosen /\ KeptAsChosen
  BY DEF VolumeInv
<1>1. /\ id \in DOMAIN screen.rows /\ screen' = [screen EXCEPT !.command = command]
      /\ volumeSpent' = [volumeSpent EXCEPT !.choices = @ + 1]
      /\ UNCHANGED <<prefs, receive, queues, book, saving, meant>>
  BY DEF UserSets
<1>2. row \in Rows /\ Names(row, id) /\ percent \in Nat /\ screen.server \in Servers \cup {Nobody}
  BY <1>0, <1>1, VolumesAssumption DEF VolumeTypeOK, TokensName
<1>3. /\ command \in Orders /\ command.client = id /\ command.uid = row.uid
      /\ command.token = row.token /\ command.visit = row.visit
  BY <1>2 DEF Orders, Rows
<1> HIDE DEF row, command
<1>4. /\ screen'.server = screen.server /\ screen'.rows = screen.rows /\ screen'.command = command
      /\ screen' \in [server : Servers \cup {Nobody}, rows : UNION {[S -> Rows] : S \in SUBSET Clients},
                      command : Orders]
  BY <1>0, <1>1, <1>3 DEF VolumeTypeOK
<1>5. /\ volumeSpent'.visits = volumeSpent.visits
      /\ volumeSpent' \in [visits : 0 .. MaxVisits, choices : Nat]
  BY <1>0, <1>1 DEF VolumeTypeOK
<1>6. VolumeTypeOK'
  BY <1>0, <1>1, <1>4, <1>5 DEF VolumeTypeOK
<1>7. OneServer' /\ VisitsAreOne' /\ UsersAreMembers'
  BY <1>0, <1>1, <1>5 DEF OneServer, VisitsAreOne, UsersAreMembers
<1>8. TokensName'
  BY <1>2, <1>3, <1>0, <1>1, <1>4 DEF Names, TokensName
<1>9. OnTheWay' /\ HeardAsChosen' /\ KeptAsChosen'
  BY <1>0, <1>1 DEF OnTheWay, HeardAsChosen, KeptAsChosen
<1> QED BY <1>6, <1>7, <1>8, <1>9 DEF VolumeInv

\* A volume that is taken is that of the visit or of the person that the user saw.
LEMMA SetKeeps ==
    ASSUME VolumeInv, SetUserVolume
    PROVE  VolumeInv'
<1> DEFINE command == screen.command
           to == IF command.uid = Nobody THEN {command.client}
                 ELSE {i \in Clients : receive.users[i].uid = command.uid}
           taken == ~(book.server = Nobody \/ ~StillMeant(command) \/ ~prefs.writable)
           set == [i \in Clients |->
                     IF i \in to THEN [receive.users[i] EXCEPT !.percent = command.percent,
                                          !.temporary = @ \/ command.uid = Nobody]
                     ELSE receive.users[i]]
<1>0. /\ VolumeTypeOK /\ OneServer /\ UsersAreMembers /\ VisitsAreOne /\ TokensName /\ OnTheWay
      /\ HeardAsChosen /\ KeptAsChosen
  BY DEF VolumeInv
<1>1. /\ command # NoCommand /\ screen' = [screen EXCEPT !.command = NoCommand]
      /\ UNCHANGED <<book, saving, volumeSpent>>
      /\ ~taken => UNCHANGED <<receive, queues, prefs, meant>>
      /\ taken =>
           /\ receive' = [receive EXCEPT !.users = set]
           /\ queues' = [i \in Clients |->
                           IF queues[i] # Silent /\ i \in to THEN command.percent ELSE queues[i]]
           /\ prefs' = IF command.uid = Nobody THEN prefs
                       ELSE [prefs EXCEPT !.users[command.server][command.uid] = command.percent,
                                          !.dirty = TRUE]
           /\ meant' = IF command.uid = Nobody
                         THEN [meant EXCEPT !.visits[command.visit] = command.percent]
                         ELSE [meant EXCEPT !.users[command.server][command.uid] = command.percent]
  BY DEF SetUserVolume
<1>2. /\ command.server \in Servers \cup {Nobody} /\ command.client \in Clients
      /\ command.uid \in Uids /\ command.percent \in Nat /\ Names(command, command.client)
      /\ command.visit \in 0 .. MaxVisits
  BY <1>0, <1>1 DEF VolumeTypeOK, TokensName, Orders
<1>3. NoCommand \in Orders
  BY VolumesAssumption DEF NoCommand, Orders, Uids, Default
<1>4. /\ screen'.server = screen.server /\ screen'.rows = screen.rows /\ screen'.command = NoCommand
      /\ screen' \in [server : Servers \cup {Nobody}, rows : UNION {[S -> Rows] : S \in SUBSET Clients},
                      command : Orders]
  BY <1>0, <1>1, <1>3 DEF VolumeTypeOK
<1> HIDE DEF command, to, set
<1>5. CASE ~taken
  <2>0. UNCHANGED <<receive, queues, prefs, meant, book, saving, volumeSpent>>
    BY <1>1, <1>5
  <2> HIDE DEF taken
  <2>1. VolumeTypeOK'
    BY <1>0, <1>4, <2>0 DEF VolumeTypeOK
  <2>2. OneServer' /\ VisitsAreOne' /\ UsersAreMembers'
    BY <1>0, <2>0 DEF OneServer, VisitsAreOne, UsersAreMembers
  <2>3. TokensName'
    BY <1>0, <1>4, <2>0 DEF TokensName, Names
  <2>4. OnTheWay' /\ HeardAsChosen' /\ KeptAsChosen'
    BY <1>0, <2>0 DEF OnTheWay, HeardAsChosen, KeptAsChosen
  <2> QED BY <2>1, <2>2, <2>3, <2>4 DEF VolumeInv
<1>6. CASE taken
  <2>1. /\ book.server # Nobody /\ prefs.writable /\ command.server = receive.server
        /\ receive.users[command.client].token = command.token
        /\ receive.users[command.client].uid = command.uid
    BY <1>6 DEF StillMeant
  <2>2. command.server = book.server /\ command.server \in Servers
    BY <1>0, <1>2, <2>1 DEF OneServer
  <2>3. /\ receive' = [receive EXCEPT !.users = set]
        /\ queues' = [i \in Clients |->
                        IF queues[i] # Silent /\ i \in to THEN command.percent ELSE queues[i]]
    BY <1>1, <1>6
  <2>4. ASSUME NEW i \in Clients
        PROVE  /\ set[i] \in UserRecords /\ set[i].uid = receive.users[i].uid
               /\ set[i].token = receive.users[i].token
               /\ set[i].percent = IF i \in to THEN command.percent ELSE receive.users[i].percent
               /\ i \in to => set[i].temporary = (receive.users[i].temporary \/ command.uid = Nobody)
               /\ i \notin to => set[i] = receive.users[i]
    BY <1>0, VolumeParts, <1>2 DEF set, UserRecords
  <2>5. /\ receive'.server = receive.server /\ receive'.next = receive.next /\ receive'.users = set
        /\ receive' \in [server : Servers \cup {Nobody}, users : [Clients -> UserRecords], next : Nat \ {0}]
    BY <2>4, <1>0, <2>3 DEF set, VolumeTypeOK
  <2>6. queues' \in [Clients -> Nat \cup {Silent}]
    BY <1>0, <1>2, <2>3 DEF VolumeTypeOK
  <2>7. OneServer'
    BY <1>0, <1>1, <2>1, <2>5 DEF OneServer
  <2>8. TokensName'
    <3>1. \A i \in DOMAIN screen.rows : i \in Clients /\ Names(screen.rows[i], i)
      BY <1>0 DEF VolumeTypeOK, TokensName
    <3>2. \A row : \A i \in Clients : Names(row, i) => Names(row, i)'
      BY <1>1, <2>4, <2>5 DEF Names
    <3>3. ASSUME NEW i \in DOMAIN screen.rows
          PROVE  Names(screen.rows[i], i)'
      BY <3>1, <3>2, <1>4 DEF Names
    <3> QED BY <1>4, <3>3 DEF TokensName
  \* Without an identity: the visit of the member.
  <2>9. CASE command.uid = Nobody
    <3> DEFINE v == command.visit
    <3>1. /\ prefs' = prefs /\ meant' = [meant EXCEPT !.visits[v] = command.percent]
          /\ to = {command.client}
      BY <1>1, <1>6, <2>9 DEF to
    <3>2. /\ book.members[command.client] # NoMember /\ ~book.members[command.client].known
          /\ book.members[command.client].visit = v
      BY <1>2, <2>1, <2>9 DEF Names
    <3>3. v \in 1 .. volumeSpent.visits /\ v \in 1 .. MaxVisits
      BY <1>0, <1>2, <3>2, VolumeParts DEF VisitsAreOne
    <3> HIDE DEF v
    <3>4. /\ meant'.users = meant.users /\ meant'.visits = [meant.visits EXCEPT ![v] = command.percent]
          /\ meant' \in [users : Books, visits : [1 .. MaxVisits -> Nat \cup {NotChosen}]]
      BY <1>0, <1>2, VolumeParts, <3>1 DEF VolumeTypeOK
    <3>5. \A w \in 1 .. MaxVisits : meant'.visits[w] = IF w = v THEN command.percent ELSE meant.visits[w]
      BY <1>0, <3>4, VolumeParts
    <3>6. VolumeTypeOK'
      BY <1>0, <1>1, <1>4, <2>5, <2>6, <3>1, <3>4 DEF VolumeTypeOK
    <3>7. VisitsAreOne'
      BY <1>0, VolumeParts, <3>3, <3>5, <1>1 DEF VisitsAreOne
    <3>8. ASSUME NEW i \in Clients, book.members[i] # NoMember, i # command.client
          PROVE  /\ book.members[i].visit \in 1 .. MaxVisits
                 /\ meant'.visits[book.members[i].visit] = meant.visits[book.members[i].visit]
                 /\ set[i] = receive.users[i]
      BY <1>0, <1>2, <3>2, <3>8, VolumeParts, <2>4, <3>1, <3>5 DEF VisitsAreOne
    <3>9. /\ set[command.client].temporary /\ set[command.client].percent = command.percent
          /\ meant'.visits[v] = command.percent /\ command.percent # NotChosen
      <4>1. command.client \in to
        BY <3>1
      <4>2. set[command.client].temporary = TRUE
        BY <1>2, <2>4, <2>9, <4>1
      <4> QED BY <1>2, <2>4, <3>3, <3>5, <4>1, <4>2 DEF NotChosen
    <3>10. UsersAreMembers'
      <4>1. ASSUME NEW i \in Clients
            PROVE  /\ set[i].token < receive.next /\ (set[i].token = 0 => set[i] = NoUser)
                   /\ book.members[i] = NoMember =>
                         set[i].uid = Nobody /\ ~set[i].temporary /\ set[i].percent = Default
                   /\ book.members[i] # NoMember /\ ~book.members[i].known =>
                         (set[i].temporary <=> meant'.visits[book.members[i].visit] # NotChosen)
        BY <1>2, <2>1, <2>4, <3>2, <3>9, <3>1, <1>0, <3>8 DEF Names, UsersAreMembers
      <4> QED BY <1>1, <2>1, <2>5, <3>1, <4>1 DEF UsersAreMembers
    <3>11. OnTheWay' /\ KeptAsChosen'
      BY <1>0, <1>1, <3>1, <3>4 DEF OnTheWay, KeptAsChosen
    <3>12. HeardAsChosen'
      <4>1. ASSUME NEW i \in Clients
            PROVE  /\ book.members[i] # NoMember =>
                        /\ set[i].token # 0 /\ set[i].uid = UidOf(book.members[i])
                        /\ set[i].percent =
                             IF book.members[i].known THEN meant.users[book.server][book.members[i].person]
                             ELSE IF meant'.visits[book.members[i].visit] = NotChosen THEN Default
                             ELSE meant'.visits[book.members[i].visit]
                   /\ queues'[i] # Silent => set[i].token # 0 /\ queues'[i] = set[i].percent
        BY <1>0, <2>4, <3>2, <2>3, <3>1, <3>9, <3>8 DEF HeardAsChosen
      <4> QED BY <1>1, <2>5, <3>4, <4>1 DEF HeardAsChosen
    <3> QED BY <2>7, <2>8, <3>6, <3>7, <3>10, <3>11, <3>12 DEF VolumeInv
  \* With one: the person on this server, under every number.
  <2>10. CASE command.uid # Nobody
    <3> DEFINE person == command.uid
               books == [prefs.users EXCEPT ![command.server] =
                           [prefs.users[command.server] EXCEPT ![person] = command.percent]]
    <3>1. person \in Persons /\ to = {i \in Clients : receive.users[i].uid = person}
      BY <1>2, <2>10 DEF Uids, to
    <3>2. /\ prefs' = [prefs EXCEPT !.users = books, !.dirty = TRUE]
          /\ meant' = [meant EXCEPT !.users = books]
      BY <1>0, <1>1, <1>6, <2>2, <2>10 DEF VolumeTypeOK, Books, KeptAsChosen
    <3>3. /\ books \in Books
          /\ \A p \in Persons : books[command.server][p] =
                IF p = person THEN command.percent ELSE meant.users[command.server][p]
      BY <1>0, <1>2, <2>2, <3>1 DEF VolumeTypeOK, KeptAsChosen, Books
    <3> HIDE DEF person, books
    <3>4. /\ prefs'.users = books /\ prefs'.dirty /\ prefs'.writable = prefs.writable
          /\ prefs' \in [users : Books, writable : BOOLEAN, dirty : BOOLEAN]
          /\ meant'.users = books /\ meant'.visits = meant.visits
          /\ meant' \in [users : Books, visits : [1 .. MaxVisits -> Nat \cup {NotChosen}]]
      BY <1>0, <3>2, <3>3 DEF VolumeTypeOK
    <3>5. VolumeTypeOK'
      BY <1>0, <1>1, <1>4, <2>5, <2>6, <3>4 DEF VolumeTypeOK
    <3>6. VisitsAreOne'
      BY <1>0, <1>1, <3>4 DEF VisitsAreOne
    <3>7. ASSUME NEW i \in Clients, i \in to
          PROVE  /\ book.members[i] # NoMember /\ book.members[i].known
                 /\ book.members[i].person = person /\ set[i].token # 0
                 /\ receive.users[i].uid = person
      BY <2>10, <3>1, <3>7, <1>0, <2>4 DEF person, UsersAreMembers, HeardAsChosen, UidOf
    <3>8. UsersAreMembers'
      BY <1>0, <2>4, <3>7, <1>1, <2>1, <2>5, <3>4 DEF UsersAreMembers
    <3>9. OnTheWay' /\ KeptAsChosen'
      BY <1>0, <1>1, <2>1, <3>4 DEF OnTheWay, KeptAsChosen
    <3>10. HeardAsChosen'
      <4>1. ASSUME NEW i \in Clients
            PROVE  /\ book.members[i] # NoMember =>
                        /\ set[i].token # 0 /\ set[i].uid = UidOf(book.members[i])
                        /\ set[i].percent =
                             IF book.members[i].known THEN books[book.server][book.members[i].person]
                             ELSE IF meant.visits[book.members[i].visit] = NotChosen THEN Default
                             ELSE meant.visits[book.members[i].visit]
                   /\ queues'[i] # Silent => set[i].token # 0 /\ queues'[i] = set[i].percent
        BY <1>0, <2>4, <3>7, <2>2, <3>1, <3>3, <2>3 DEF HeardAsChosen, VisitsAreOne,
           UidOf
      <4> QED BY <1>1, <2>5, <3>4, <4>1 DEF HeardAsChosen
    <3> QED BY <2>7, <2>8, <3>5, <3>6, <3>8, <3>9, <3>10 DEF VolumeInv
  <2> QED BY <2>9, <2>10
<1> QED BY <1>5, <1>6

LEMMA OtherKeeps ==
    ASSUME VolumeInv, OtherPreference
    PROVE  VolumeInv'
<1>0. /\ VolumeTypeOK /\ OneServer /\ UsersAreMembers /\ VisitsAreOne /\ TokensName /\ OnTheWay
      /\ HeardAsChosen /\ KeptAsChosen
  BY DEF VolumeInv
<1>1. /\ prefs.writable /\ ~prefs.dirty /\ prefs' = [prefs EXCEPT !.dirty = TRUE]
      /\ UNCHANGED <<receive, queues, book, screen, saving, meant, volumeSpent>>
  BY DEF OtherPreference
<1>2. /\ prefs'.users = prefs.users /\ prefs'.dirty /\ prefs'.writable = prefs.writable
      /\ prefs' \in [users : Books, writable : BOOLEAN, dirty : BOOLEAN]
  BY <1>0, <1>1 DEF VolumeTypeOK
<1>3. VolumeTypeOK' /\ OneServer' /\ VisitsAreOne'
  BY <1>0, <1>1, <1>2 DEF VolumeTypeOK, OneServer, VisitsAreOne
<1>4. UsersAreMembers' /\ TokensName'
  BY <1>0, <1>1, <1>2 DEF UsersAreMembers, TokensName, Names
<1>5. OnTheWay' /\ HeardAsChosen' /\ KeptAsChosen'
  BY <1>0, <1>1, <1>2 DEF OnTheWay, HeardAsChosen, KeptAsChosen
<1> QED BY <1>3, <1>4, <1>5 DEF VolumeInv

\* The job sent last is the one that is written.
LEMMA LastJob ==
    ASSUME NEW jobs \in Seq(Books), NEW users \in Books
    PROVE  /\ Append(jobs, users) \in Seq(Books) /\ Append(jobs, users) # << >>
           /\ Coalesced(Append(jobs, users)) = users
           /\ jobs # << >> => Coalesced(jobs) \in Books
<1>1. /\ Append(jobs, users) \in Seq(Books) /\ Len(Append(jobs, users)) = Len(jobs) + 1
      /\ Append(jobs, users)[Len(jobs) + 1] = users /\ Append(jobs, users) # << >>
  BY AppendProperties
<1>2. jobs # << >> => jobs[Len(jobs)] \in Books
  OBVIOUS
<1> QED BY <1>1, <1>2 DEF Coalesced, Last

LEMMA FlushKeeps ==
    ASSUME VolumeInv, FlushPrefs
    PROVE  VolumeInv'
<1>0. /\ VolumeTypeOK /\ OneServer /\ UsersAreMembers /\ VisitsAreOne /\ TokensName /\ OnTheWay
      /\ HeardAsChosen /\ KeptAsChosen
  BY DEF VolumeInv
<1>1. /\ prefs.dirty /\ prefs' = [prefs EXCEPT !.dirty = FALSE]
      /\ saving' = [saving EXCEPT !.jobs = Append(@, prefs.users)]
      /\ UNCHANGED <<receive, queues, book, screen, meant, volumeSpent>>
  BY DEF FlushPrefs
<1>2. /\ prefs'.users = prefs.users /\ ~prefs'.dirty /\ prefs'.writable = prefs.writable
      /\ prefs' \in [users : Books, writable : BOOLEAN, dirty : BOOLEAN]
  BY <1>0, <1>1 DEF VolumeTypeOK
<1>3. /\ saving'.file = saving.file /\ saving'.failed = saving.failed /\ saving'.jobs # << >>
      /\ Coalesced(saving'.jobs) = prefs.users
      /\ saving' \in [file : [readable : BOOLEAN, users : Books], jobs : Seq(Books), failed : BOOLEAN]
  <2> DEFINE jobs == Append(saving.jobs, prefs.users)
  <2>1. jobs \in Seq(Books) /\ jobs # << >> /\ Coalesced(jobs) = prefs.users
    BY <1>0, LastJob DEF VolumeTypeOK
  <2>2. saving' = [saving EXCEPT !.jobs = jobs]
    BY <1>1
  <2> HIDE DEF jobs
  <2>3. /\ saving'.file = saving.file /\ saving'.failed = saving.failed /\ saving'.jobs = jobs
        /\ saving' \in [file : [readable : BOOLEAN, users : Books], jobs : Seq(Books), failed : BOOLEAN]
    BY <1>0, <2>1, <2>2 DEF VolumeTypeOK
  <2> QED BY <2>1, <2>3
<1>4. VolumeTypeOK' /\ OneServer' /\ VisitsAreOne'
  BY <1>0, <1>1, <1>2, <1>3 DEF VolumeTypeOK, OneServer, VisitsAreOne
<1>5. UsersAreMembers' /\ TokensName'
  BY <1>0, <1>1, <1>2 DEF UsersAreMembers, TokensName, Names
<1>6. OnTheWay'
  BY <1>0, <1>1, <1>2, <1>3 DEF OnTheWay
<1>7. HeardAsChosen' /\ KeptAsChosen'
  BY <1>0, <1>1, <1>2, <1>3 DEF HeardAsChosen, KeptAsChosen
<1> QED BY <1>4, <1>5, <1>6, <1>7 DEF VolumeInv

LEMMA WriteKeeps ==
    ASSUME VolumeInv, NEW fails \in BOOLEAN, WritePrefs(fails)
    PROVE  VolumeInv'
<1> DEFINE file == IF fails THEN saving.file ELSE [readable |-> TRUE, users |-> Coalesced(saving.jobs)]
<1>0. /\ VolumeTypeOK /\ OneServer /\ UsersAreMembers /\ VisitsAreOne /\ TokensName /\ OnTheWay
      /\ HeardAsChosen /\ KeptAsChosen
  BY DEF VolumeInv
<1>1. /\ saving.jobs # << >> /\ saving' = [file |-> file, jobs |-> << >>, failed |-> fails]
      /\ UNCHANGED <<prefs, receive, queues, book, screen, meant, volumeSpent>>
  BY DEF WritePrefs
<1>2. Coalesced(saving.jobs) \in Books /\ prefs.writable /\ saving.file.readable
      /\ (~prefs.dirty => Coalesced(saving.jobs) = prefs.users)
  BY <1>0, <1>1, LastJob DEF VolumeTypeOK, OnTheWay, KeptAsChosen
<1>3. file \in [readable : BOOLEAN, users : Books] /\ file.readable
      /\ (~fails => file.users = Coalesced(saving.jobs))
  BY <1>0, <1>2 DEF VolumeTypeOK
<1> HIDE DEF file
<1>4. /\ saving'.file = file /\ saving'.jobs = << >> /\ saving'.failed = fails
      /\ saving' \in [file : [readable : BOOLEAN, users : Books], jobs : Seq(Books), failed : BOOLEAN]
  BY <1>1, <1>3
<1>5. VolumeTypeOK' /\ OneServer' /\ VisitsAreOne'
  BY <1>0, <1>1, <1>4 DEF VolumeTypeOK, OneServer, VisitsAreOne
<1>6. UsersAreMembers' /\ TokensName'
  BY <1>0, <1>1 DEF UsersAreMembers, TokensName, Names
<1>7. OnTheWay' /\ HeardAsChosen'
  BY <1>0, <1>1, <1>2, <1>4 DEF OnTheWay, HeardAsChosen
<1>8. KeptAsChosen'
  BY <1>0, <1>1, <1>2, <1>3, <1>4 DEF KeptAsChosen
<1> QED BY <1>5, <1>6, <1>7, <1>8 DEF VolumeInv

\* A start of the app, when what is in the file is what was chosen.
LEMMA RestartKeeps ==
    ASSUME VolumeInv, Restarts(saving.file.users)
    PROVE  VolumeInv'
<1> DEFINE unchosen == [visit \in 1 .. MaxVisits |-> NotChosen]
           users == [i \in Clients |-> NoUser]
           members == [i \in Clients |-> NoMember]
<1>0. /\ VolumeTypeOK /\ KeptAsChosen
  BY DEF VolumeInv
<1>1. /\ prefs' = [users |-> saving.file.users, writable |-> saving.file.readable, dirty |-> FALSE]
      /\ saving' = [saving EXCEPT !.jobs = << >>, !.failed = FALSE]
      /\ receive' = [server |-> Nobody, users |-> users, next |-> 1]
      /\ queues' = [i \in Clients |-> Silent]
      /\ book' = [server |-> Nobody, members |-> members]
      /\ screen' = [server |-> Nobody, rows |-> << >>, command |-> NoCommand]
      /\ meant' = [users |-> saving.file.users, visits |-> unchosen]
      /\ volumeSpent' = volumeSpent
  BY DEF Restarts, LoadedPrefs
<1>2. /\ unchosen \in [1 .. MaxVisits -> Nat \cup {NotChosen}]
      /\ users \in [Clients -> UserRecords] /\ members \in [Clients -> Members]
      /\ NoCommand \in Orders
      /\ \A v \in 1 .. MaxVisits : unchosen[v] = NotChosen
      /\ \A i \in Clients : users[i] = NoUser /\ members[i] = NoMember
  BY Defaults, VolumesAssumption DEF NoCommand, Orders, Uids, Default
<1> HIDE DEF unchosen, users, members
<1>3. /\ saving'.file = saving.file /\ saving'.jobs = << >> /\ ~saving'.failed
      /\ saving' \in [file : [readable : BOOLEAN, users : Books], jobs : Seq(Books), failed : BOOLEAN]
  <2>0. << >> \in Seq(Books)
    OBVIOUS
  <2>1. PICK none \in Seq(Books) : none = << >>
    BY <2>0, Zenon
  <2>2. /\ saving' = [saving EXCEPT !.jobs = none, !.failed = FALSE]
        /\ saving \in [file : [readable : BOOLEAN, users : Books], jobs : Seq(Books), failed : BOOLEAN]
    BY <1>0, <1>1, <2>1 DEF VolumeTypeOK
  <2>3. /\ saving'.file = saving.file /\ saving'.jobs = none /\ ~saving'.failed
        /\ saving' \in [file : [readable : BOOLEAN, users : Books], jobs : Seq(Books), failed : BOOLEAN]
    BY <2>2
  <2> QED BY <2>1, <2>3
<1>4. /\ saving.file.users \in Books /\ saving.file.readable \in BOOLEAN
      /\ prefs'.users = saving.file.users /\ prefs'.writable = saving.file.readable /\ ~prefs'.dirty
  BY <1>0, <1>1 DEF VolumeTypeOK
<1>5. VolumeTypeOK'
  <2>1. prefs' \in [users : Books, writable : BOOLEAN, dirty : BOOLEAN]
        /\ meant' \in [users : Books, visits : [1 .. MaxVisits -> Nat \cup {NotChosen}]]
    BY <1>1, <1>2, <1>4
  <2>2. /\ receive' \in [server : Servers \cup {Nobody}, users : [Clients -> UserRecords], next : Nat \ {0}]
        /\ book' \in [server : Servers \cup {Nobody}, members : [Clients -> Members]]
        /\ queues' \in [Clients -> Nat \cup {Silent}]
    BY <1>1, <1>2
  <2>3. screen' \in [server : Servers \cup {Nobody}, rows : UNION {[S -> Rows] : S \in SUBSET Clients},
                     command : Orders]
    <3>1. << >> \in [{} -> Rows]
      OBVIOUS
    <3>2. << >> \in UNION {[S -> Rows] : S \in SUBSET Clients}
      BY <3>1
    <3> QED BY <1>1, <1>2, <3>2
  <2> QED BY <1>0, <1>1, <1>3, <2>1, <2>2, <2>3 DEF VolumeTypeOK
<1>6. OneServer'
  BY <1>1, <1>2 DEF OneServer
<1>7. VisitsAreOne'
  BY <1>1, <1>2 DEF VisitsAreOne
<1>8. UsersAreMembers'
  BY <1>1, <1>2, Defaults DEF UsersAreMembers
<1>9. TokensName'
  BY <1>1 DEF TokensName
<1>10. OnTheWay' /\ KeptAsChosen'
  BY <1>1, <1>3, <1>4 DEF OnTheWay, KeptAsChosen
<1>11. HeardAsChosen'
  BY <1>1, <1>2 DEF HeardAsChosen
<1> QED BY <1>5, <1>6, <1>7, <1>8, <1>9, <1>10, <1>11 DEF VolumeInv

\* After an orderly end the file has what was chosen, if it could be written.
LEMMA CloseKeeps ==
    ASSUME VolumeInv, AppCloses
    PROVE  VolumeInv'
<1>1. (prefs.writable /\ ~saving.failed) => meant.users = saving.file.users
  BY DEF VolumeInv, KeptAsChosen, AppCloses, Drained
<1>2. Restarts(saving.file.users)
  BY <1>1 DEF AppCloses
<1> QED BY <1>2, RestartKeeps

LEMMA VolumeStarts ==
    ASSUME VolumeInit
    PROVE  VolumeInv
<1> DEFINE unchosen == [visit \in 1 .. MaxVisits |-> NotChosen]
           users == [i \in Clients |-> NoUser]
           members == [i \in Clients |-> NoMember]
<1>1. PICK readable \in BOOLEAN :
         saving = [file |-> [readable |-> readable, users |-> Unset], jobs |-> << >>, failed |-> FALSE]
  BY DEF VolumeInit
<1>2. /\ prefs = [users |-> saving.file.users, writable |-> saving.file.readable, dirty |-> FALSE]
      /\ receive = [server |-> Nobody, users |-> users, next |-> 1]
      /\ queues = [i \in Clients |-> Silent]
      /\ book = [server |-> Nobody, members |-> members]
      /\ screen = [server |-> Nobody, rows |-> << >>, command |-> NoCommand]
      /\ meant = [users |-> Unset, visits |-> unchosen]
      /\ volumeSpent = [visits |-> 0, choices |-> 0]
  BY DEF VolumeInit, LoadedPrefs
<1>3. /\ unchosen \in [1 .. MaxVisits -> Nat \cup {NotChosen}]
      /\ users \in [Clients -> UserRecords] /\ members \in [Clients -> Members]
      /\ NoCommand \in Orders /\ MaxVisits \in Nat
      /\ \A v \in 1 .. MaxVisits : unchosen[v] = NotChosen
      /\ \A i \in Clients : users[i] = NoUser /\ members[i] = NoMember
  BY Defaults, VolumesAssumption DEF NoCommand, Orders, Uids, Default
<1>4. Unset \in Books
  BY DEF Unset, Books, Default
<1> HIDE DEF unchosen, users, members
<1>5. VolumeTypeOK
  <2>1. /\ prefs \in [users : Books, writable : BOOLEAN, dirty : BOOLEAN]
        /\ meant \in [users : Books, visits : [1 .. MaxVisits -> Nat \cup {NotChosen}]]
        /\ saving \in [file : [readable : BOOLEAN, users : Books], jobs : Seq(Books), failed : BOOLEAN]
    BY <1>1, <1>2, <1>3, <1>4
  <2>2. /\ receive \in [server : Servers \cup {Nobody}, users : [Clients -> UserRecords], next : Nat \ {0}]
        /\ book \in [server : Servers \cup {Nobody}, members : [Clients -> Members]]
        /\ queues \in [Clients -> Nat \cup {Silent}]
        /\ volumeSpent \in [visits : 0 .. MaxVisits, choices : Nat]
    BY <1>2, <1>3
  <2>3. screen \in [server : Servers \cup {Nobody}, rows : UNION {[S -> Rows] : S \in SUBSET Clients},
                    command : Orders]
    <3>1. << >> \in [{} -> Rows]
      OBVIOUS
    <3>2. << >> \in UNION {[S -> Rows] : S \in SUBSET Clients}
      BY <3>1
    <3> QED BY <1>2, <1>3, <3>2
  <2> QED BY <2>1, <2>2, <2>3 DEF VolumeTypeOK
<1>6. OneServer /\ VisitsAreOne
  BY <1>2, <1>3 DEF OneServer, VisitsAreOne
<1>7. UsersAreMembers
  BY <1>2, <1>3, Defaults DEF UsersAreMembers
<1>8. TokensName
  BY <1>2 DEF TokensName
<1>9. OnTheWay /\ KeptAsChosen
  BY <1>1, <1>2 DEF OnTheWay, KeptAsChosen
<1>10. HeardAsChosen
  BY <1>2, <1>3 DEF HeardAsChosen
<1> QED BY <1>5, <1>6, <1>7, <1>8, <1>9, <1>10 DEF VolumeInv

LEMMA VolumeStep ==
    ASSUME VolumeInv, [VolumeNext]_volumeVars
    PROVE  VolumeInv'
<1>1. CASE UNCHANGED volumeVars
  BY <1>1 DEF volumeVars, VolumeInv, VolumeTypeOK, OneServer, VisitsAreOne, UsersAreMembers,
              TokensName, Names, OnTheWay, HeardAsChosen, KeptAsChosen
<1>2. CASE \E server \in Servers : ServerKnown(server)
  BY <1>2, ServerKeeps
<1>3. ASSUME NEW id \in Clients,
             \/ \E person \in Persons, known \in BOOLEAN : Enter(id, person, known)
             \/ UidArrives(id) \/ Leave(id) \/ Audio(id)
             \/ \E percent \in Percents : UserSets(id, percent)
      PROVE  VolumeInv'
  BY <1>3, EnterKeeps, UidKeeps, LeaveKeeps, AudioKeeps, UserSetsKeeps
<1>4. CASE Cut \/ QueueEnds \/ ShowRows \/ SetUserVolume
  BY <1>4, CutKeeps, QueueKeeps, ScreenKeeps, SetKeeps
<1>5. CASE OtherPreference \/ FlushPrefs \/ \E fails \in BOOLEAN : WritePrefs(fails)
  BY <1>5, OtherKeeps, FlushKeeps, WriteKeeps
<1>6. CASE AppDies
  BY <1>6, RestartKeeps DEF AppDies
<1>7. CASE AppCloses
  BY <1>7, CloseKeeps
<1> QED BY <1>1, <1>2, <1>3, <1>4, <1>5, <1>6, <1>7 DEF VolumeNext

-----------------------------------------------------------------------------
\* For every server, member, person and volume, and whatever is lost in between: a member is
\* as loud, on the screen and in the sound, as the user chose for the person or for the
\* visit; what was chosen is what is kept, at rest also in the file; and preferences that
\* could not be read are not written over (receive_audio.rs).
THEOREM VolumesStayChosen == VolumeSpec => []VolumesAreChosen
<1>1. VolumeInit => VolumeInv
  BY VolumeStarts
<1>2. VolumeInv /\ [VolumeNext]_volumeVars => VolumeInv'
  BY VolumeStep
<1>3. VolumeInv => VolumesAreChosen
  BY DEF VolumeInv, VolumesAreChosen
<1> QED BY <1>1, <1>2, <1>3, PTL DEF VolumeSpec

-----------------------------------------------------------------------------
(* Lifecycle: the invariant                                                *)

Called == Nicknames \cup {NoName}
Links == [state : {"none", "connecting", "leveling", "connected"}, again : BOOLEAN,
          name : Called, options : Called, link : {"connected", "disconnected"},
          actual : Called, code : Nat]
Sessions == [on : BOOLEAN, first : BOOLEAN, subscribed : BOOLEAN,
             status : {"disconnected", "connecting", "reconnecting", "connected"}]
Alarms == [entered : BOOLEAN, alerted : BOOLEAN]
Profiles == [name : Nicknames, revision : Nat, request : Nat, blocked : BOOLEAN]
Applications == [queued : BOOLEAN, next : Nat, pending : [token : Nat, revision : Nat]]
Operations == [handle : Nat, token : Nat]
Renaming == [handle : Nat, name : Nicknames]
Telling == [type : {"own", "updated"}, name : Nicknames]
Reply == [type : {"ok", "refused"}, handle : Nat]
Histories == [alerts : {0, 1}, ended : {"no", "user", "self"}, refused : BOOLEAN,
              foreign : BOOLEAN, troubles : Nat]

LifeTypeOK ==
    /\ con \in Links /\ sess \in Sessions /\ cue \in Alarms /\ prof \in Profiles
    /\ items \in {<< >>, <<"temporarily">>, <<"book", "temporarily">>}
    /\ app \in Applications /\ ops \in SUBSET Operations
    /\ toServer \in Seq(Renaming) /\ toClient \in Seq(Telling \cup Reply)
    /\ named \in Called /\ seen \in Histories

\* The alert that is out is the one that is counted.
AlertIsTold ==
    /\ cue.alerted <=> seen.alerts = 1
    /\ seen.ended = "self" => cue.alerted
    /\ seen.ended # "no" => ~sess.on

\* What the session shows and what the connection is.
OneStage ==
    /\ sess.on <=> con.state # "none"
    /\ sess.status = "disconnected" <=> ~sess.on
    /\ con.actual # NoName => con.state = "connected" /\ sess.status = "connected"
    /\ items # << >> => con.state = "connecting"
    /\ con.state # "connected" /\ items = << >> => sess.status # "connected"

\* The options have the saved name, and so has a handshake.
SavedIsOffered ==
    /\ sess.on => con.options = prof.name
    /\ con.state = "connecting" => con.name = con.options

\* Between two connections nothing of the old one is waited for.
NothingOld ==
    con.state # "connected" /\ items = << >> =>
        app.pending = NoRename /\ ops = {} /\ toServer = << >> /\ toClient = << >>

Answers(command) == command.type \in {"ok", "refused"}
NoAnswer(told) == \A i \in 1 .. Len(told) : ~Answers(told[i])
NotGranted(told) == \A i \in 1 .. Len(told) : told[i].type # "ok"

\* One rename at a time, on its way there or its answer on the way back.
OneRename(a, o, asked, told) ==
    /\ \A i, k \in 1 .. Len(told) : Answers(told[i]) /\ Answers(told[k]) => i = k
    /\ Len(asked) <= 1
    /\ asked # << >> => NoAnswer(told)
    /\ a.pending = NoRename => o = {} /\ asked = << >> /\ NoAnswer(told)
    /\ a.pending # NoRename =>
          /\ \E op \in o : o = {op} /\ op.token = a.pending.token
          /\ asked = << >> => ~NoAnswer(told)

\* A change waits for an answer or for the own client, no longer.
NoWait(c, a) == a.queued /\ a.pending = NoRename => c.actual = NoName

\* The rename under way is the last one saved, or another one is waited for.
LatestIsAsked(p, a, asked, told, has, s) ==
    /\ a.pending.revision <= p.revision
    /\ a.pending # NoRename /\ ~a.queued =>
          /\ a.pending.revision = p.revision
          /\ \A i \in 1 .. Len(asked) : asked[i].name = p.name
          /\ ~NotGranted(told) => has = p.name \/ s.foreign
    /\ a.pending = NoRename /\ ~a.queued => has = p.name \/ s.refused \/ s.foreign

\* Unless somebody else renames the client, it is told the name the server has, and a
\* rename right before it is confirmed.
LastTold(c, told, i) == IF i = 0 THEN c.actual ELSE told[i].name
NameIsTold(c, told, has, s) ==
    ~s.foreign =>
        /\ \A i \in 1 .. Len(told) : told[i].type = "ok" =>
              i = Len(told) /\ LastTold(c, told, i - 1) = has
        /\ NotGranted(told) =>
              /\ c.actual \in {NoName, has}
              /\ \A i \in 1 .. Len(told) : ~Answers(told[i]) => told[i].name = has

Live == con.state = "connected" /\ con.link = "connected"

Settling ==
    /\ OneRename(app, ops, toServer, toClient) /\ NoWait(con, app)
    /\ LatestIsAsked(prof, app, toServer, toClient, named, seen)
    /\ NameIsTold(con, toClient, named, seen)

LifeInv ==
    /\ LifeTypeOK /\ AlertIsTold /\ OneStage /\ SavedIsOffered /\ NothingOld
    /\ Live => Settling

-----------------------------------------------------------------------------
(* What follows from it, and where it starts                               *)

\* At rest nothing is under way, and then nothing but the last name is confirmed.
LEMMA LifeInvHolds == LifeInv => NameSettles /\ UserKnows
<1> SUFFICES ASSUME LifeInv PROVE NameSettles /\ UserKnows
  OBVIOUS
<1>1. ASSUME Rest PROVE named = prof.name \/ seen.refused \/ seen.foreign
  BY <1>1 DEF LifeInv, Rest, Live, NoAnswer, Settling, OneRename, NoWait, LatestIsAsked
<1>2. ASSUME con.state = "connecting" PROVE con.name = prof.name
  BY <1>2 DEF LifeInv, OneStage, SavedIsOffered
<1>3. NameSettles
  BY <1>1, <1>2 DEF NameSettles
<1>4. seen.alerts <= 1
  BY DEF LifeInv, LifeTypeOK, Histories
<1>5. UserKnows
  BY <1>4 DEF LifeInv, AlertIsTold, OneStage, UserKnows
<1> QED BY <1>3, <1>5

LEMMA LifeInitOK == LifeInit => LifeInv
<1> SUFFICES ASSUME LifeInit PROVE LifeInv
  OBVIOUS
<1> USE DEF LifeInit, NoConnection, NewApplication, NoRename
<1>1. con \in Links /\ sess \in Sessions /\ cue \in Alarms /\ prof \in Profiles /\ app \in Applications
  BY DEF Links, Called, Sessions, Alarms, Profiles, Applications
<1>2. << >> \in Seq(Renaming) /\ << >> \in Seq(Telling \cup Reply)
  BY EmptySeq
<1>3. LifeTypeOK
  BY <1>1, <1>2 DEF LifeTypeOK, Called, Histories
<1>4. AlertIsTold /\ OneStage /\ SavedIsOffered /\ NothingOld /\ ~Live
  BY DEF AlertIsTold, OneStage, SavedIsOffered, NothingOld, Live
<1> QED BY <1>3, <1>4 DEF LifeInv

-----------------------------------------------------------------------------
(* The application of the nickname                                         *)

LEMMA WithNameKeeps ==
    ASSUME NEW c \in Links, NEW name \in Nicknames
    PROVE  /\ WithName(c, name) \in Links /\ WithName(c, name).options = name
           /\ WithName(c, name).state = c.state /\ WithName(c, name).link = c.link
           /\ WithName(c, name).actual = c.actual /\ WithName(c, name).code = c.code
           /\ c.name = c.options /\ c.state = "connecting" => WithName(c, name).name = name
  BY DEF WithName, Links, Called

\* A rename is asked for, or it is not and no one is waited for.
Asks(p, c, a) == Plans(a, c.actual) /\ c.state = "connected" /\ c.actual # p.name

LEMMA ApplyDoes ==
    ASSUME NEW p \in Profiles, NEW c \in Links, NEW a \in Applications, NEW o \in SUBSET Operations,
           c.actual # NoName => c.state = "connected",
           toServer \in Seq(Renaming), ApplyNickname(p, c, a, o)
    PROVE  /\ con' \in Links /\ con'.state = c.state /\ con'.link = c.link /\ con'.name = c.name
           /\ con'.options = c.options /\ con'.actual = c.actual
           /\ app' \in Applications /\ ops' \in SUBSET Operations /\ toServer' \in Seq(Renaming)
           /\ Asks(p, c, a) =>
                 /\ ~app'.queued /\ app'.pending # NoRename /\ app'.pending.revision = p.revision
                 /\ \E asked \in Renaming : asked.name = p.name /\ toServer' = Append(toServer, asked)
                 /\ o = {} => \E op \in ops' : ops' = {op} /\ op.token = app'.pending.token
           /\ ~Asks(p, c, a) =>
                 /\ con' = c /\ app'.pending = a.pending /\ ops' = o /\ toServer' = toServer
                 /\ IF Plans(a, c.actual) THEN ~app'.queued ELSE app' = a
<1> DEFINE actual == IF c.state = "connected" THEN c.actual ELSE NoName
<1>1. actual = c.actual
  BY DEF Links
<1>2. CASE Asks(p, c, a)
  <2> DEFINE asked == [handle |-> c.code, name |-> p.name]
             op == [handle |-> c.code, token |-> a.next + 1]
  <2>1. /\ con' = [c EXCEPT !.code = @ + 1]
        /\ app' = [queued |-> FALSE, next |-> a.next + 1,
                   pending |-> [token |-> a.next + 1, revision |-> p.revision]]
        /\ ops' = {known \in o : known.handle # c.code} \cup {op}
        /\ toServer' = Append(toServer, asked)
    BY <1>1, <1>2 DEF ApplyNickname, Asks
  <2>2. asked \in Renaming /\ op \in Operations
    BY DEF Renaming, Operations, Links, Profiles, Applications
  <2>3. con' \in Links /\ con'.state = c.state /\ con'.link = c.link /\ con'.name = c.name
        /\ con'.options = c.options /\ con'.actual = c.actual
    <3>1. con' = [c EXCEPT !.code = c.code + 1]
      BY <2>1, Zenon
    <3> QED BY <3>1 DEF Links
  <2>4. /\ app' \in Applications /\ ~app'.queued /\ app'.pending # NoRename
        /\ app'.pending.revision = p.revision /\ app'.pending.token = op.token
    BY <2>1 DEF Applications, Profiles, NoRename
  <2>5. toServer' \in Seq(Renaming)
    BY <2>1, <2>2, AppendProperties
  <2>6. ops' \in SUBSET Operations
    BY <2>1, <2>2
  <2>7. ASSUME o = {} PROVE \E one \in ops' : ops' = {one} /\ one.token = app'.pending.token
    BY <2>1, <2>4, <2>7
  <2> HIDE DEF asked, op
  <2>8. asked.name = p.name
    BY DEF asked
  <2> QED BY <1>2, <2>1, <2>2, <2>3, <2>4, <2>5, <2>6, <2>7, <2>8
<1>3. CASE ~Asks(p, c, a)
  BY <1>1, <1>3 DEF Plans, Asks, ApplyNickname, Applications
<1> QED BY <1>2, <1>3

LEMMA ApplySettles ==
    ASSUME NEW p \in Profiles, NEW c \in Links, NEW a \in Applications, NEW o \in SUBSET Operations,
           NEW told \in Seq(Telling \cup Reply), NEW has, NEW s,
           c.actual # NoName => c.state = "connected",
           toServer \in Seq(Renaming), ApplyNickname(p, c, a, o),
           OneRename(a, o, toServer, told), LatestIsAsked(p, a, toServer, told, has, s),
           NameIsTold(c, told, has, s)
    PROVE  /\ OneRename(app', ops', toServer', told) /\ NoWait(con', app')
           /\ LatestIsAsked(p, app', toServer', told, has, s) /\ NameIsTold(con', told, has, s)
<1>1. NameIsTold(con', told, has, s)
  BY ApplyDoes DEF NameIsTold, LastTold
<1>2. CASE Asks(p, c, a)
  <2>1. a.pending = NoRename /\ o = {} /\ toServer = << >> /\ NoAnswer(told)
    BY <1>2 DEF Asks, Plans, OneRename
  <2>2. /\ ~app'.queued /\ app'.pending # NoRename /\ app'.pending.revision = p.revision
        /\ \E asked \in Renaming : asked.name = p.name /\ toServer' = Append(toServer, asked)
        /\ \E op \in ops' : ops' = {op} /\ op.token = app'.pending.token
    BY <1>2, <2>1, ApplyDoes
  <2>3. PICK asked \in Renaming : asked.name = p.name /\ toServer' = Append(toServer, asked)
    BY <2>2
  <2>4. Len(toServer') = 1 /\ toServer'[1] = asked /\ toServer' # << >>
    BY <2>1, <2>3
  <2>5. OneRename(app', ops', toServer', told)
    BY <2>1, <2>2, <2>4 DEF OneRename, NoAnswer
  <2>6. NotGranted(told)
    BY <2>1 DEF NoAnswer, NotGranted, Answers
  <2>7. app'.pending.revision \in Nat /\ app'.pending.revision <= p.revision
    BY <2>2 DEF Profiles
  <2>8. LatestIsAsked(p, app', toServer', told, has, s)
    BY <2>2, <2>3, <2>4, <2>6, <2>7 DEF LatestIsAsked
  <2>9. NoWait(con', app')
    BY <2>2 DEF NoWait
  <2> QED BY <1>1, <2>5, <2>8, <2>9
<1>3. CASE ~Asks(p, c, a)
  BY <1>3, ApplyDoes, <1>1 DEF OneRename, Asks, Plans, NoAnswer, NotGranted, Answers,
     NameIsTold, LatestIsAsked, NoWait
<1> QED BY <1>2, <1>3

-----------------------------------------------------------------------------
(* The ends of a connection                                                *)

\* The alert that is told of: the one that was out, or a new one.
LEMMA AlertOnce ==
    ASSUME LifeInv, NEW n \in Nat, NEW how \in {"no", "user", "self"},
           cue' \in Alarms, cue'.alerted,
           seen' = [seen EXCEPT !.alerts = @ + Alerts(cue), !.ended = how, !.troubles = n],
           how # "no" => ~sess'.on
    PROVE  seen' \in Histories /\ AlertIsTold'
<1>1. seen \in Histories /\ cue \in Alarms /\ (cue.alerted <=> seen.alerts = 1)
  BY DEF LifeInv, LifeTypeOK, AlertIsTold
<1>2. seen.alerts + Alerts(cue) = 1
  BY <1>1 DEF Histories, Alerts
<1>3. seen' = [seen EXCEPT !.alerts = 1, !.ended = how, !.troubles = n]
  BY <1>2
<1>4. seen' \in Histories /\ seen'.alerts = 1 /\ seen'.ended = how
  BY <1>1, <1>3 DEF Histories
<1> QED BY <1>4 DEF AlertIsTold

\* Nothing is left of a connection that ended.
LEMMA EndedKeeps ==
    ASSUME LifeInv, NEW how, Ended(how), cue' \in Alarms, seen' \in Histories, AlertIsTold'
    PROVE  LifeInv'
<1>1. /\ con' = NoConnection /\ items' = << >> /\ ops' = {} /\ app' = NewApplication
      /\ toServer' = << >> /\ toClient' = << >> /\ named' = NoName /\ prof' = prof
      /\ sess' = [on |-> FALSE, first |-> FALSE, subscribed |-> FALSE, status |-> "disconnected"]
  BY DEF Ended
<1>2. con' \in Links /\ con'.state = "none" /\ con'.actual = NoName
  BY <1>1 DEF NoConnection, Links, Called
<1>3. sess' \in Sessions /\ ~sess'.on /\ sess'.status = "disconnected"
  BY <1>1 DEF Sessions
<1>4. app' \in Applications /\ app'.pending = NoRename
  BY <1>1 DEF NewApplication, NoRename, Applications
<1>5. prof' \in Profiles
  BY <1>1 DEF LifeInv, LifeTypeOK
<1>6. toServer' \in Seq(Renaming) /\ toClient' \in Seq(Telling \cup Reply)
  BY EmptySeq, <1>1
<1>7. LifeTypeOK'
  BY <1>1, <1>2, <1>3, <1>4, <1>5, <1>6 DEF LifeTypeOK, Called
<1>8. OneStage' /\ SavedIsOffered' /\ NothingOld' /\ ~Live'
  BY <1>1, <1>2, <1>3, <1>4 DEF OneStage, SavedIsOffered, NothingOld, Live
<1> QED BY <1>7, <1>8 DEF LifeInv

LEMMA FailsKeeps ==
    ASSUME LifeInv, Fails
    PROVE  LifeInv'
  BY AlertOnce, EndedKeeps DEF Fails, LifeInv, LifeTypeOK, Alarms, Unexpected, Ended,
     Histories

LEMMA DisconnectKeeps ==
    ASSUME LifeInv, Disconnect
    PROVE  LifeInv'
  BY EndedKeeps DEF Disconnect, LifeInv, LifeTypeOK, AlertIsTold, Histories, Ended

\* A connection that is lost forgets what it was asked, and offers the last name again.
LEMMA InterruptedKeeps ==
    ASSUME LifeInv, sess.on, NEW c \in Links, NEW n \in Nat,
           c.state = "connecting", c.actual = NoName, c.name = c.options,
           LinkInterrupted(c), items' = << >>, prof' = prof,
           seen' = [seen EXCEPT !.alerts = @ + Alerts(cue), !.troubles = n]
    PROVE  LifeInv'
<1>1. /\ cue' = Recovering /\ con' = WithName(c, prof.name) /\ app' = Disconnected(app) /\ ops' = {}
      /\ sess' = [sess EXCEPT !.subscribed = FALSE, !.status = "reconnecting"]
      /\ toServer' = << >> /\ toClient' = << >> /\ named' = NoName
  BY DEF LinkInterrupted
<1>2. prof \in Profiles /\ sess \in Sessions /\ seen \in Histories /\ app \in Applications /\ cue \in Alarms
  BY DEF LifeInv, LifeTypeOK
<1>3. con' \in Links /\ con'.state = "connecting" /\ con'.actual = NoName
      /\ con'.options = prof.name /\ con'.name = prof.name
  BY <1>2, <1>1, WithNameKeeps DEF Profiles
<1>4. sess' \in Sessions /\ sess'.on /\ sess'.status = "reconnecting"
  BY <1>1, <1>2 DEF Sessions
<1>5. app' \in Applications /\ app'.pending = NoRename
  BY <1>1, <1>2 DEF Disconnected, NoRename, Applications
<1>6. cue' \in Alarms /\ cue'.alerted
  BY <1>1, <1>2 DEF Recovering, Unexpected, Alarms
<1>7. toServer' \in Seq(Renaming) /\ toClient' \in Seq(Telling \cup Reply)
  BY EmptySeq, <1>1
<1>8. seen' \in Histories /\ AlertIsTold'
  BY <1>2, <1>6, AlertOnce DEF LifeInv, AlertIsTold, Histories
<1>9. LifeTypeOK'
  BY <1>1, <1>2, <1>3, <1>4, <1>5, <1>6, <1>7, <1>8 DEF LifeTypeOK, Called
<1>10. OneStage' /\ SavedIsOffered' /\ NothingOld' /\ ~Live'
  BY <1>1, <1>3, <1>4, <1>5 DEF OneStage, SavedIsOffered, NothingOld, Live
<1> QED BY <1>8, <1>9, <1>10 DEF LifeInv

-----------------------------------------------------------------------------
(* Before a connection is there                                            *)

LEMMA SessionStartsKeeps ==
    ASSUME LifeInv, SessionStarts
    PROVE  LifeInv'
<1>1. /\ sess' = [on |-> TRUE, first |-> TRUE, subscribed |-> FALSE, status |-> "connecting"]
      /\ con' = [NoConnection EXCEPT !.state = "connecting", !.name = prof.name, !.options = prof.name]
      /\ cue' = [entered |-> FALSE, alerted |-> FALSE]
      /\ seen' = [seen EXCEPT !.alerts = 0, !.ended = "no", !.troubles = @ + 1]
      /\ UNCHANGED <<items, prof, app, ops, toServer, toClient, named>>
  BY DEF SessionStarts
<1>2. con.state = "none" /\ items = << >>
  BY DEF SessionStarts, LifeInv, OneStage
<1>3. NothingOld
  BY DEF LifeInv
<1>4. prof \in Profiles /\ seen \in Histories
  BY DEF LifeInv, LifeTypeOK
<1>5. /\ con' \in Links /\ con'.state = "connecting" /\ con'.actual = NoName
      /\ con'.name = prof.name /\ con'.options = prof.name
  BY <1>1, <1>4 DEF NoConnection, Links, Called, Profiles
<1>6. sess' \in Sessions /\ sess'.on /\ sess'.status = "connecting"
  BY <1>1 DEF Sessions
<1>7. cue' \in Alarms /\ ~cue'.alerted
  BY <1>1 DEF Alarms
<1>8. seen' \in Histories /\ seen'.alerts = 0 /\ seen'.ended = "no"
  <2>1. PICK n \in Nat : n = seen.troubles + 1
    BY <1>4 DEF Histories
  <2>2. seen' = [seen EXCEPT !.alerts = 0, !.ended = "no", !.troubles = n]
    BY <1>1, <2>1
  <2> QED BY <1>4, <2>2 DEF Histories
<1>9. LifeTypeOK'
  BY <1>1, <1>5, <1>6, <1>7, <1>8 DEF LifeInv, LifeTypeOK
<1>10. AlertIsTold' /\ OneStage' /\ SavedIsOffered' /\ ~Live'
  BY <1>1, <1>2, <1>5, <1>6, <1>7, <1>8 DEF AlertIsTold, OneStage, SavedIsOffered, Live
<1>11. NothingOld'
  BY <1>1, <1>2, <1>3 DEF NothingOld
<1> QED BY <1>9, <1>10, <1>11 DEF LifeInv

\* A connection that is not there yet changes its stage: nothing else does.
LEMMA StageKeeps ==
    ASSUME LifeInv, sess.on, con.state # "connected",
           con' \in Links, con'.state \in {"connecting", "leveling"}, con'.actual = NoName,
           con'.options = con.options, con'.state = "connecting" => con'.name = con'.options,
           items = << >>, seen' = seen \/ seen' = [seen EXCEPT !.troubles = @ + 1],
           UNCHANGED <<items, sess, cue, prof, app, ops, toServer, toClient, named>>
    PROVE  LifeInv'
  BY DEF LifeInv, LifeTypeOK, Histories, AlertIsTold, OneStage, SavedIsOffered, Live,
     NothingOld

LEMMA HandshakeFailsKeeps ==
    ASSUME LifeInv, NEW reason, HandshakeFails(reason)
    PROVE  LifeInv'
  BY StageKeeps, FailsKeeps DEF HandshakeFails, Polls, LifeInv, LifeTypeOK, OneStage, Links

LEMMA LevelKeeps ==
    ASSUME LifeInv, LevelNeeded \/ LevelReached
    PROVE  LifeInv'
  BY FailsKeeps, StageKeeps DEF LifeInv, LifeTypeOK, OneStage, Polls, Links, LevelReached,
     LevelNeeded

\* Without an own client nothing is asked.
LEMMA ApplyRests ==
    ASSUME NEW p \in Profiles, NEW c \in Links, NEW a \in Applications, NEW o \in SUBSET Operations,
           c.actual = NoName, toServer \in Seq(Renaming), ApplyNickname(p, c, a, o)
    PROVE  con' = c /\ app' = a /\ ops' = o /\ toServer' = toServer
  BY ApplyDoes DEF Asks, Plans

LEMMA HandshakeDoneKeeps ==
    ASSUME LifeInv, HandshakeDone
    PROVE  LifeInv'
<1>1. PICK given \in Nicknames :
         /\ given = con.name \/ Trouble
         /\ named' = given
         /\ seen' = [seen EXCEPT !.foreign = given # con.name,
                                 !.troubles = IF given = con.name THEN @ ELSE @ + 1]
  BY DEF HandshakeDone
<1> DEFINE c == [con EXCEPT !.state = "connected", !.link = "connected", !.actual = NoName, !.code = 0]
<1>2. /\ sess.on /\ items = << >> /\ con.state = "connecting"
      /\ ApplyNickname(prof, WithName(c, prof.name), app, ops)
      /\ cue' = Entered(FALSE) /\ toClient' = <<[type |-> "own", name |-> named']>>
      /\ sess' = [sess EXCEPT !.subscribed = TRUE] /\ items' = items /\ prof' = prof
  BY DEF HandshakeDone, Polls
<1>3. /\ con \in Links /\ prof \in Profiles /\ sess \in Sessions /\ seen \in Histories /\ app \in Applications
      /\ ops \in SUBSET Operations /\ cue \in Alarms /\ toServer \in Seq(Renaming)
  BY DEF LifeInv, LifeTypeOK
<1>4. c \in Links /\ c.state = "connected" /\ c.link = "connected" /\ c.actual = NoName
  BY <1>3 DEF Links, Called
<1>5. prof.name \in Nicknames
  BY <1>3 DEF Profiles
<1> HIDE DEF c
<1>6. /\ WithName(c, prof.name) \in Links /\ WithName(c, prof.name).options = prof.name
      /\ WithName(c, prof.name).state = "connected" /\ WithName(c, prof.name).actual = NoName
      /\ WithName(c, prof.name).link = "connected"
  BY <1>4, <1>5, WithNameKeeps
<1>7. con' = WithName(c, prof.name) /\ app' = app /\ ops' = ops /\ toServer' = toServer
  BY <1>2, <1>3, <1>6, ApplyRests
<1>8. con.name = prof.name /\ app.pending = NoRename /\ ops = {} /\ toServer = << >>
  BY <1>2 DEF LifeInv, NothingOld, SavedIsOffered
<1>9. /\ seen' \in Histories /\ seen'.alerts = seen.alerts /\ seen'.ended = seen.ended
      /\ seen'.foreign = (given # prof.name)
  <2>1. PICK n \in Nat : n = IF given = con.name THEN seen.troubles ELSE seen.troubles + 1
    BY <1>3 DEF Histories
  <2>2. PICK foreign \in BOOLEAN : foreign = (given # prof.name)
    OBVIOUS
  <2>3. seen' = [seen EXCEPT !.foreign = foreign, !.troubles = n]
    BY <1>1, <1>8, <2>1, <2>2
  <2> QED BY <1>3, <2>2, <2>3 DEF Histories
<1>10. sess' \in Sessions /\ sess'.on = sess.on /\ sess'.status = sess.status
  BY <1>2, <1>3 DEF Sessions
<1>11. cue' = cue
  BY <1>2 DEF Entered
<1>12. /\ toClient' \in Seq(Telling \cup Reply) /\ Len(toClient') = 1
       /\ toClient'[1].type = "own" /\ toClient'[1].name = given
  BY <1>1, <1>2 DEF Telling
<1>13. LifeTypeOK'
  BY <1>1, <1>2, <1>3, <1>6, <1>7, <1>9, <1>10, <1>11, <1>12 DEF LifeInv, LifeTypeOK, Called
<1>14. AlertIsTold' /\ OneStage' /\ SavedIsOffered' /\ NothingOld'
  BY <1>2, <1>6, <1>7, <1>9, <1>10, <1>11
     DEF LifeInv, AlertIsTold, OneStage, SavedIsOffered, NothingOld
<1>15. OneRename(app', ops', toServer', toClient')
  BY <1>7, <1>8, <1>12 DEF OneRename, NoAnswer, Answers
<1>16. LatestIsAsked(prof', app', toServer', toClient', named', seen')
  <2>1. app.pending.revision = 0 /\ prof.revision \in Nat
    BY <1>3, <1>8 DEF NoRename, Profiles
  <2>2. app'.pending.revision <= prof'.revision
    BY <1>2, <1>7, <2>1
  <2>3. named' = prof'.name \/ seen'.foreign
    BY <1>1, <1>2, <1>9
  <2>4. app'.pending = NoRename
    BY <1>7, <1>8
  <2> QED BY <2>2, <2>3, <2>4 DEF LatestIsAsked
<1>17. NameIsTold(con', toClient', named', seen') /\ NoWait(con', app')
  BY <1>1, <1>6, <1>7, <1>12 DEF NameIsTold, NoWait, NotGranted
<1> QED BY <1>13, <1>14, <1>15, <1>16, <1>17 DEF LifeInv, Settling

-----------------------------------------------------------------------------
(* The connection is lost, or the server ends it                           *)

LEMMA AgainIs ==
    ASSUME NEW c \in Links
    PROVE  /\ Again(c) \in Links /\ Again(c).state = "connecting" /\ Again(c).actual = NoName
           /\ Again(c).options = c.options /\ Again(c).name = c.options
  BY DEF Again, Links, Called

LEMMA TimesOutKeeps ==
    ASSUME LifeInv, TimesOut
    PROVE  LifeInv'
<1>1. /\ sess.on /\ items = << >> /\ LinkInterrupted(Again(con)) /\ items' = items /\ prof' = prof
      /\ seen' = [seen EXCEPT !.alerts = @ + Alerts(cue), !.troubles = @ + 1]
  BY DEF TimesOut, Polls
<1>2. con \in Links /\ seen \in Histories
  BY DEF LifeInv, LifeTypeOK
<1>3. PICK c \in Links : c = Again(con)
  BY <1>2, AgainIs
<1>4. c.state = "connecting" /\ c.actual = NoName /\ c.name = c.options
  BY <1>2, <1>3, AgainIs
<1>5. PICK n \in Nat : n = seen.troubles + 1
  BY <1>2 DEF Histories
<1>6. seen' = [seen EXCEPT !.alerts = @ + Alerts(cue), !.troubles = n]
  BY <1>1, <1>5
<1>7. LinkInterrupted(c) /\ items' = << >>
  BY <1>1, <1>3
<1> QED BY <1>1, <1>4, <1>6, <1>7, InterruptedKeeps

LEMMA ServerShutsDownKeeps ==
    ASSUME LifeInv, ServerShutsDown
    PROVE  LifeInv'
<1>1. /\ sess.on /\ items = << >> /\ con.state = "connected"
      /\ con' = Again(con) /\ items' = <<"book", "temporarily">>
      /\ seen' = [seen EXCEPT !.troubles = @ + 1]
      /\ UNCHANGED <<sess, cue, prof, app, ops, toServer, toClient, named>>
  BY DEF ServerShutsDown, Polls
<1>2. con \in Links /\ seen \in Histories
  BY DEF LifeInv, LifeTypeOK
<1>3. /\ con' \in Links /\ con'.state = "connecting" /\ con'.actual = NoName
      /\ con'.options = con.options /\ con'.name = con.options
  BY <1>1, <1>2, AgainIs
<1>4. seen' \in Histories /\ seen'.alerts = seen.alerts /\ seen'.ended = seen.ended
  BY <1>1, <1>2 DEF Histories
<1>5. LifeTypeOK'
  BY <1>1, <1>3, <1>4 DEF LifeInv, LifeTypeOK
<1>6. AlertIsTold' /\ OneStage' /\ SavedIsOffered' /\ NothingOld' /\ ~Live'
  BY <1>1, <1>3, <1>4 DEF LifeInv, AlertIsTold, OneStage, SavedIsOffered, NothingOld, Live
<1> QED BY <1>5, <1>6 DEF LifeInv

LEMMA NextItemKeeps ==
    ASSUME LifeInv, NextItem
    PROVE  LifeInv'
<1>1. sess.on /\ items # << >> /\ items' = Tail(items) /\ prof' = prof
  BY DEF NextItem
<1>2. /\ con \in Links /\ prof \in Profiles /\ app \in Applications /\ ops \in SUBSET Operations
      /\ toServer \in Seq(Renaming) /\ seen \in Histories
      /\ items \in {<<"temporarily">>, <<"book", "temporarily">>}
  BY <1>1 DEF LifeInv, LifeTypeOK
<1>3. con.state = "connecting" /\ con.actual = NoName /\ con.options = prof.name /\ con.name = con.options
  BY <1>1 DEF LifeInv, OneStage, SavedIsOffered
<1>4. CASE Head(items) = "book"
  <2>1. items = <<"book", "temporarily">>
    BY <1>2, <1>4
  <2>2. items' = <<"temporarily">>
    BY <1>1, <2>1
  <2>3. /\ ApplyNickname(prof, WithName(con, prof.name), app, ops)
        /\ UNCHANGED <<sess, cue, toClient, named, seen>>
    BY <1>4 DEF NextItem
  <2>4. WithName(con, prof.name) = con
    BY <1>3 DEF WithName
  <2>5. con' = con /\ app' = app /\ ops' = ops /\ toServer' = toServer
    BY <1>2, <1>3, <2>3, <2>4, ApplyRests
  <2>6. LifeTypeOK'
    BY <1>1, <2>2, <2>3, <2>5 DEF LifeInv, LifeTypeOK
  <2>7. items' # << >>
    BY <2>2
  <2>8. AlertIsTold' /\ OneStage' /\ SavedIsOffered' /\ NothingOld' /\ ~Live'
    BY <1>1, <1>3, <2>3, <2>5, <2>7
       DEF LifeInv, AlertIsTold, OneStage, SavedIsOffered, NothingOld, Live
  <2> QED BY <2>6, <2>8 DEF LifeInv
<1>5. CASE Head(items) # "book"
  <2>1. items = <<"temporarily">>
    BY <1>2, <1>5
  <2>2. items' = << >>
    BY <1>1, <2>1
  <2>3. LinkInterrupted(con) /\ seen' = [seen EXCEPT !.alerts = @ + Alerts(cue)]
    BY <1>5 DEF NextItem
  <2>4. [seen EXCEPT !.alerts = @ + Alerts(cue)]
           = [seen EXCEPT !.alerts = @ + Alerts(cue), !.troubles = seen.troubles]
    BY <1>2 DEF Histories
  <2>5. PICK n \in Nat : n = seen.troubles
    BY <1>2 DEF Histories
  <2>6. seen' = [seen EXCEPT !.alerts = @ + Alerts(cue), !.troubles = n]
    BY <2>3, <2>4, <2>5
  <2> QED BY <1>1, <1>2, <1>3, <2>2, <2>3, <2>6, InterruptedKeeps
<1> QED BY <1>4, <1>5

LEMMA RemovedKeeps ==
    ASSUME LifeInv, Removed
    PROVE  LifeInv'
<1> DEFINE c == [con EXCEPT !.link = "disconnected", !.actual = NoName]
<1>1. /\ sess.on /\ items = << >> /\ con.state = "connected"
      /\ ApplyNickname(prof, WithName(c, prof.name), app, ops)
      /\ cue' = Recovering /\ toClient' = << >> /\ named' = NoName
      /\ seen' = [seen EXCEPT !.alerts = @ + Alerts(cue), !.troubles = @ + 1]
      /\ items' = items /\ sess' = sess /\ prof' = prof
  BY DEF Removed, Polls
<1>2. /\ con \in Links /\ prof \in Profiles /\ app \in Applications /\ ops \in SUBSET Operations
      /\ toServer \in Seq(Renaming) /\ seen \in Histories /\ cue \in Alarms
  BY DEF LifeInv, LifeTypeOK
<1>3. c \in Links /\ c.state = "connected" /\ c.link = "disconnected" /\ c.actual = NoName
  BY <1>1, <1>2 DEF Links, Called
<1>4. prof.name \in Nicknames
  BY <1>2 DEF Profiles
<1> HIDE DEF c
<1>5. /\ WithName(c, prof.name) \in Links /\ WithName(c, prof.name).options = prof.name
      /\ WithName(c, prof.name).state = "connected" /\ WithName(c, prof.name).actual = NoName
      /\ WithName(c, prof.name).link = "disconnected"
  BY <1>3, <1>4, WithNameKeeps
<1>6. con' = WithName(c, prof.name) /\ app' = app /\ ops' = ops /\ toServer' = toServer
  BY <1>1, <1>2, <1>5, ApplyRests
<1>7. cue' \in Alarms /\ cue'.alerted
  BY <1>1, <1>2 DEF Recovering, Unexpected, Alarms
<1>8. seen' \in Histories /\ AlertIsTold'
  <2>1. seen.ended = "no"
    BY <1>1, <1>2 DEF LifeInv, AlertIsTold, Histories
  <2>2. PICK n \in Nat : n = seen.troubles + 1
    BY <1>2 DEF Histories
  <2>3. [seen EXCEPT !.alerts = @ + Alerts(cue), !.troubles = n]
           = [seen EXCEPT !.alerts = @ + Alerts(cue), !.ended = "no", !.troubles = n]
    BY <1>2, <2>1 DEF Histories
  <2>4. seen' = [seen EXCEPT !.alerts = @ + Alerts(cue), !.ended = "no", !.troubles = n]
    BY <1>1, <2>2, <2>3
  <2> QED BY <1>7, <2>4, AlertOnce
<1>9. toClient' \in Seq(Telling \cup Reply)
  BY EmptySeq, <1>1
<1>10. LifeTypeOK'
  BY <1>1, <1>5, <1>6, <1>7, <1>8, <1>9 DEF LifeInv, LifeTypeOK, Called
<1>11. OneStage' /\ SavedIsOffered' /\ NothingOld' /\ ~Live'
  BY <1>1, <1>5, <1>6 DEF LifeInv, OneStage, SavedIsOffered, NothingOld, Live
<1> QED BY <1>8, <1>10, <1>11 DEF LifeInv

-----------------------------------------------------------------------------
(* What the server tells, in its order                                     *)

Commands == Seq(Telling \cup Reply)

LEMMA RestIs ==
    ASSUME NEW told \in Commands, told # << >>
    PROVE  /\ Tail(told) \in Commands /\ Len(told) \in Nat \ {0}
           /\ Len(Tail(told)) = Len(told) - 1 /\ Head(told) = told[1]
           /\ \A i \in 1 .. Len(Tail(told)) : i + 1 \in 1 .. Len(told) /\ Tail(told)[i] = told[i + 1]
           /\ \A i \in 1 .. Len(told) : i = 1 \/ (i - 1 \in 1 .. Len(Tail(told)) /\ Tail(told)[i - 1] = told[i])
  BY DEF Commands

LEMMA NameTakenKeepsOne ==
    ASSUME NEW a, NEW o, NEW asked, NEW told \in Commands, told # << >>, ~Answers(Head(told)),
           OneRename(a, o, asked, told)
    PROVE  OneRename(a, o, asked, Tail(told))
<1>1. ASSUME NEW i \in 1 .. Len(Tail(told)), NEW k \in 1 .. Len(Tail(told)),
             Answers(Tail(told)[i]), Answers(Tail(told)[k])
      PROVE  i = k
  BY <1>1, RestIs DEF OneRename
<1>2. NoAnswer(told) <=> NoAnswer(Tail(told))
  BY RestIs DEF NoAnswer
<1> QED BY <1>1, <1>2 DEF OneRename

LEMMA NameTakenIsTold ==
    ASSUME NEW c, NEW d, NEW has, NEW s, NEW told \in Commands, told # << >>, ~Answers(Head(told)),
           d.actual = Head(told).name, NameIsTold(c, told, has, s)
    PROVE  /\ NotGranted(Tail(told)) <=> NotGranted(told)
           /\ NameIsTold(d, Tail(told), has, s)
  BY RestIs DEF Answers, NotGranted, NameIsTold, LastTold

LEMMA AnswerIsAwaited ==
    ASSUME NEW a, NEW o, NEW asked, NEW told \in Commands, told # << >>, Answers(Head(told)),
           OneRename(a, o, asked, told)
    PROVE  /\ a.pending # NoRename /\ asked = << >> /\ NoAnswer(Tail(told))
           /\ \A op \in o : o = {op} /\ op.token = a.pending.token
  BY RestIs DEF OneRename, NoAnswer

LEMMA NothingAwaited ==
    ASSUME NEW a, NEW told, a.pending = NoRename, NoAnswer(told)
    PROVE  OneRename(a, {}, << >>, told)
  BY DEF OneRename, NoAnswer

LEMMA AnswerTakenIsTold ==
    ASSUME NEW c, NEW has, NEW s, NEW told \in Commands, told # << >>, Answers(Head(told)),
           NoAnswer(Tail(told)), NameIsTold(c, told, has, s)
    PROVE  NameIsTold(c, Tail(told), has, s)
<1>1. Head(told) = told[1] /\ 1 \in 1 .. Len(told)
  BY RestIs
<1>2. NotGranted(Tail(told))
  BY DEF NoAnswer, NotGranted, Answers
<1> SUFFICES ASSUME ~s.foreign
             PROVE  /\ c.actual \in {NoName, has}
                    /\ \A i \in 1 .. Len(Tail(told)) : Tail(told)[i].name = has
  BY <1>2 DEF NameIsTold, NotGranted
<1>3. CASE told[1].type = "ok"
  BY <1>1, <1>3, RestIs DEF NameIsTold, LastTold
<1>4. CASE told[1].type # "ok"
  <2>1. NotGranted(told)
    BY <1>4, RestIs, <1>2 DEF NotGranted
  <2>2. /\ c.actual \in {NoName, has}
        /\ \A i \in 1 .. Len(told) : ~Answers(told[i]) => told[i].name = has
    BY <2>1 DEF NameIsTold
  <2>3. ASSUME NEW i \in 1 .. Len(Tail(told)) PROVE Tail(told)[i].name = has
    BY RestIs, <2>2 DEF NoAnswer
  <2> QED BY <2>2, <2>3
<1> QED BY <1>3, <1>4

-----------------------------------------------------------------------------
(* The name is changed, told and answered                                  *)

\* A step of the name that neither ends a connection nor starts one.
LEMMA NameStepKeeps ==
    ASSUME LifeInv, LifeTypeOK', AlertIsTold', sess'.on = sess.on, items' = items, con'.state = con.state,
           con'.actual # NoName => con'.state = "connected" /\ sess'.status = "connected",
           con.state # "connected" => sess' = sess, sess'.status = "disconnected" <=> ~sess.on,
           sess.on => con'.options = prof'.name, con.state = "connecting" => con'.name = con'.options,
           con.state # "connected" /\ items = << >> =>
               app'.pending = NoRename /\ ops' = {} /\ toServer' = << >> /\ toClient' = << >>,
           Live' => Settling'
    PROVE  LifeInv'
  BY DEF LifeInv, OneStage, SavedIsOffered, NothingOld

LEMMA SavesIs ==
    ASSUME NEW p, prof \in Profiles, NEW name \in Nicknames, NEW request \in Nat, NEW ok \in BOOLEAN,
           p = Saves(name, request, ok)
    PROVE  /\ p \in Profiles
           /\ p.revision = prof.revision => p.name = prof.name
           /\ p.revision # prof.revision => p.revision = prof.revision + 1 /\ p.name = name
<1>1. prof.revision \in Nat
  BY DEF Profiles
<1>2. CASE request <= prof.request
  BY <1>2 DEF Saves
<1>3. CASE ~(request <= prof.request) /\ ok
  <2>1. PICK n \in Nat : n = prof.revision + 1
    BY <1>1
  <2>2. p = [prof EXCEPT !.request = request, !.name = name, !.revision = n]
    BY <1>3, <2>1 DEF Saves
  <2>3. p \in Profiles /\ p.name = name /\ p.revision = n
    BY <2>2 DEF Profiles
  <2> QED BY <1>1, <2>1, <2>3
<1>4. CASE ~(request <= prof.request) /\ ~ok
  BY <1>4 DEF Saves, Profiles
<1> QED BY <1>2, <1>3, <1>4

LEMMA SetNicknameKeeps ==
    ASSUME LifeInv, NEW name \in Nicknames, NEW request \in 1 .. MaxRequests, SetNickname(name, request)
    PROVE  LifeInv'
<1>1. /\ con \in Links /\ prof \in Profiles /\ app \in Applications /\ ops \in SUBSET Operations
      /\ toServer \in Seq(Renaming) /\ toClient \in Seq(Telling \cup Reply) /\ seen \in Histories
      /\ request \in Nat
  BY DEF LifeInv, LifeTypeOK
<1>2. /\ items' = items /\ sess' = sess /\ cue' = cue /\ toClient' = toClient /\ named' = named
  BY DEF SetNickname
<1>3. /\ prof' \in Profiles
      /\ prof'.revision = prof.revision => prof'.name = prof.name
      /\ prof'.revision # prof.revision => prof'.revision = prof.revision + 1 /\ prof'.name = name
  <2>1. PICK ok \in BOOLEAN : prof' = Saves(name, request, ok)
    BY DEF SetNickname
  <2>2. PICK p : p = prof'
    OBVIOUS
  <2>3. p = Saves(name, request, ok)
    BY <2>1, <2>2
  <2>4. /\ p \in Profiles
        /\ p.revision = prof.revision => p.name = prof.name
        /\ p.revision # prof.revision => p.revision = prof.revision + 1 /\ p.name = name
    BY <1>1, <2>3, SavesIs
  <2> QED BY <2>2, <2>4
<1>4. CASE prof'.revision = prof.revision
  <2>1. con' = con /\ app' = app /\ ops' = ops /\ toServer' = toServer /\ seen' = seen
    BY <1>4 DEF SetNickname
  <2>2. prof'.name = prof.name
    BY <1>3, <1>4
  <2>3. LifeTypeOK' /\ AlertIsTold'
    BY <1>2, <1>3, <2>1 DEF LifeInv, LifeTypeOK, AlertIsTold
  <2>4. OneStage' /\ SavedIsOffered' /\ NothingOld'
    BY <1>2, <2>1, <2>2 DEF LifeInv, OneStage, SavedIsOffered, NothingOld
  <2>5. ASSUME Live' PROVE Settling'
    BY <2>1, <2>5, <1>4, <2>2, <1>2 DEF LifeInv, Live, Settling, LatestIsAsked
  <2> QED BY <2>3, <2>4, <2>5 DEF LifeInv
<1>5. CASE prof'.revision # prof.revision
  <2>1. prof'.revision = prof.revision + 1 /\ prof'.name = name /\ seen' = [seen EXCEPT !.refused = FALSE]
    BY <1>3, <1>5 DEF SetNickname
  <2>2. seen' \in Histories /\ seen'.alerts = seen.alerts /\ seen'.ended = seen.ended
        /\ seen'.foreign = seen.foreign
    BY <1>1, <2>1 DEF Histories
  <2>3. AlertIsTold'
    BY <1>2, <2>2 DEF LifeInv, AlertIsTold
  <2>4. CASE ~sess.on
    BY <1>5, <2>4, <1>2, <1>3, <2>2, <2>3 DEF SetNickname, LifeInv, LifeTypeOK, OneStage,
       SavedIsOffered, NothingOld, Live
  <2>5. CASE sess.on
    <3>1. PICK c \in Links : c = WithName(con, name)
      BY <1>1, WithNameKeeps
    <3>2. /\ c.options = name /\ c.state = con.state /\ c.link = con.link /\ c.actual = con.actual
          /\ con.state = "connecting" => c.name = name
      BY <1>1, <3>1, WithNameKeeps DEF LifeInv, SavedIsOffered
    <3>3. PICK a \in Applications : a = [app EXCEPT !.queued = TRUE]
      BY <1>1 DEF Applications
    <3>4. a.queued /\ a.pending = app.pending
      BY <1>1, <3>3 DEF Applications
    <3>5. PICK p \in Profiles : p = prof'
      BY <1>3
    <3>6. ApplyNickname(p, c, a, ops)
      BY <1>5, <2>5, <2>1, <3>1, <3>3, <3>5 DEF SetNickname
    <3>7. c.actual # NoName => c.state = "connected" /\ sess.status = "connected"
      BY <3>2 DEF LifeInv, OneStage
    <3>8. /\ con' \in Links /\ con'.state = con.state /\ con'.link = con.link /\ con'.name = c.name
          /\ con'.options = name /\ con'.actual = con.actual
          /\ app' \in Applications /\ ops' \in SUBSET Operations /\ toServer' \in Seq(Renaming)
      BY <1>1, <3>2, <3>6, <3>7, ApplyDoes
    <3>9. LifeTypeOK'
      BY <1>2, <1>3, <2>2, <3>8 DEF LifeInv, LifeTypeOK
    <3>10. ASSUME con.state # "connected", items = << >>
           PROVE  app'.pending = NoRename /\ ops' = {} /\ toServer' = << >> /\ toClient' = << >>
      BY <3>2, <3>7, <3>10, <1>1, <3>6, ApplyRests, <1>2, <3>4 DEF LifeInv, NothingOld
    <3>11. ASSUME Live' PROVE Settling'
      <4>1. Settling
        BY <3>8, <3>11 DEF LifeInv, Live
      <4>2. OneRename(a, ops, toServer, toClient)
        BY <3>4, <4>1 DEF Settling, OneRename
      <4>3. LatestIsAsked(p, a, toServer, toClient, named, seen')
        BY <1>1, <4>1, <2>1, <3>4, <3>5 DEF Settling, LatestIsAsked, Applications,
           Profiles
      <4>4. NameIsTold(c, toClient, named, seen')
        BY <2>2, <3>2, <4>1 DEF Settling, NameIsTold, LastTold
      <4>5. PICK s : s = seen'
        OBVIOUS
      <4>6. LatestIsAsked(p, a, toServer, toClient, named, s) /\ NameIsTold(c, toClient, named, s)
        BY <4>3, <4>4, <4>5
      <4>7. /\ OneRename(app', ops', toServer', toClient) /\ NoWait(con', app')
            /\ LatestIsAsked(p, app', toServer', toClient, named, s) /\ NameIsTold(con', toClient, named, s)
        BY <1>1, <3>6, <3>7, <4>2, <4>6, ApplySettles
      <4> QED BY <1>2, <3>5, <4>5, <4>7 DEF Settling
    <3>12. sess.status = "disconnected" <=> ~sess.on
      BY DEF LifeInv, OneStage
    <3> QED BY <1>2, <2>1, <2>3, <3>2, <3>7, <3>8, <3>9, <3>10, <3>11, <3>12, NameStepKeeps
  <2> QED BY <2>4, <2>5
<1> QED BY <1>4, <1>5

LEMMA NameAdded ==
    ASSUME NEW told \in Commands, NEW new \in Telling,
           NEW a, NEW o, NEW asked, OneRename(a, o, asked, told)
    PROVE  /\ Append(told, new) \in Commands /\ OneRename(a, o, asked, Append(told, new))
           /\ NotGranted(Append(told, new)) <=> NotGranted(told)
  BY DEF Commands, Telling, Answers, NoAnswer, OneRename, NotGranted

LEMMA RenamedByOtherKeeps ==
    ASSUME LifeInv, RenamedByOther
    PROVE  LifeInv'
<1>1. PICK name \in Nicknames :
         named' = name /\ toClient' = Append(toClient, [type |-> "updated", name |-> name])
  BY DEF RenamedByOther
<1>2. /\ sess.on /\ items = << >> /\ con.state = "connected"
      /\ seen' = [seen EXCEPT !.foreign = TRUE, !.troubles = @ + 1]
      /\ UNCHANGED <<con, items, sess, cue, prof, app, ops, toServer>>
  BY DEF RenamedByOther, Polls
<1>3. seen \in Histories /\ toClient \in Commands
  BY DEF LifeInv, LifeTypeOK, Commands
<1>4. PICK new \in Telling : new = [type |-> "updated", name |-> name]
  BY DEF Telling
<1>5. /\ seen' \in Histories /\ seen'.alerts = seen.alerts /\ seen'.ended = seen.ended
      /\ seen'.foreign /\ seen'.refused = seen.refused
  <2>1. PICK n \in Nat : n = seen.troubles + 1
    BY <1>3 DEF Histories
  <2>2. seen' = [seen EXCEPT !.foreign = TRUE, !.troubles = n]
    BY <1>2, <2>1
  <2> QED BY <1>3, <2>2 DEF Histories
<1>6. toClient' = Append(toClient, new)
  BY <1>1, <1>4
<1>7. toClient' \in Commands
  BY <1>3, <1>6 DEF Commands
<1>8. LifeTypeOK'
  BY <1>1, <1>2, <1>5, <1>7 DEF LifeInv, LifeTypeOK, Called, Commands
<1>9. AlertIsTold' /\ OneStage' /\ SavedIsOffered' /\ NothingOld'
  BY <1>2, <1>5 DEF LifeInv, AlertIsTold, OneStage, SavedIsOffered, NothingOld
<1>10. ASSUME Live' PROVE Settling'
  BY <1>2, <1>10, <1>3, NameAdded, <1>5, <1>6 DEF LifeInv, Live, Settling, LatestIsAsked,
     NameIsTold
<1> QED BY <1>8, <1>9, <1>10 DEF LifeInv

LEMMA RenamesKeeps ==
    ASSUME LifeInv, Renames
    PROVE  LifeInv'
<1>1. toServer # << >> /\ toServer' = Tail(toServer)
      /\ UNCHANGED <<con, items, sess, cue, prof, app, ops>>
  BY DEF Renames
<1>2. /\ seen \in Histories /\ toClient \in Commands /\ toServer \in Seq(Renaming)
      /\ app \in Applications /\ prof \in Profiles /\ named \in Called
  BY DEF LifeInv, LifeTypeOK, Commands
<1>3. PICK job \in Renaming : job = Head(toServer)
  BY <1>1, <1>2
<1>4. toServer' \in Seq(Renaming) /\ job = toServer[1] /\ 1 \in 1 .. Len(toServer)
      /\ Len(toServer') = Len(toServer) - 1
  BY <1>1, <1>2, <1>3
<1>5. ASSUME con.state # "connected", items = << >> PROVE FALSE
  BY <1>1, <1>5 DEF LifeInv, NothingOld
<1>6. ASSUME Live
      PROVE  /\ Settling /\ Len(toServer) = 1 /\ toServer' = << >> /\ NoAnswer(toClient)
             /\ app.pending # NoRename /\ \E op \in ops : ops = {op} /\ op.token = app.pending.token
             /\ NotGranted(toClient)
  BY <1>6, <1>2, <1>4, <1>1 DEF LifeInv, Settling, OneRename, NoAnswer, NotGranted, Answers
<1>7. CASE /\ named' = job.name /\ seen' = [seen EXCEPT !.foreign = FALSE]
           /\ toClient' = toClient \o <<[type |-> "updated", name |-> job.name],
                                        [type |-> "ok", handle |-> job.handle]>>
  <2>1. PICK new \in Telling : new = [type |-> "updated", name |-> job.name]
    BY DEF Telling, Renaming
  <2>2. PICK reply \in Reply : reply = [type |-> "ok", handle |-> job.handle]
    BY DEF Reply, Renaming
  <2>3. new.type = "updated" /\ new.name = job.name /\ reply.type = "ok"
    BY <2>1, <2>2
  <2>4. toClient' = toClient \o <<new, reply>>
    BY <1>7, <2>1, <2>2
  <2>5. new \in Telling \cup Reply /\ reply \in Telling \cup Reply
    OBVIOUS
  <2>6. toClient' \in Commands
    BY <1>2, <2>4, <2>5 DEF Commands
  <2>7. /\ Len(toClient') = Len(toClient) + 2 /\ Len(toClient) \in Nat
        /\ \A i \in 1 .. Len(toClient) : toClient'[i] = toClient[i]
        /\ toClient'[Len(toClient) + 1] = new /\ toClient'[Len(toClient) + 2] = reply
    BY <1>2, <2>4 DEF Commands
  <2>8. /\ seen' \in Histories /\ seen'.alerts = seen.alerts /\ seen'.ended = seen.ended
        /\ ~seen'.foreign /\ seen'.refused = seen.refused
    BY <1>2, <1>7 DEF Histories
  <2>9. job.name \in Nicknames
    BY DEF Renaming
  <2>10. LifeTypeOK'
    BY <1>1, <1>4, <1>7, <2>6, <2>8, <2>9 DEF LifeInv, LifeTypeOK, Called, Commands
  <2>11. AlertIsTold' /\ OneStage' /\ SavedIsOffered' /\ NothingOld'
    BY <1>1, <1>5, <2>8 DEF LifeInv, AlertIsTold, OneStage, SavedIsOffered, NothingOld
  <2>12. ASSUME Live' PROVE Settling'
    <3>1. /\ Settling /\ Len(toServer) = 1 /\ toServer' = << >> /\ NoAnswer(toClient)
          /\ app.pending # NoRename /\ \E op \in ops : ops = {op} /\ op.token = app.pending.token
          /\ NotGranted(toClient)
      BY <1>1, <1>6, <2>12 DEF Live
    <3>2. PICK told \in Commands : told = toClient'
      BY <2>6
    <3>3. \A i \in 1 .. Len(told) :
             \/ i \in 1 .. Len(toClient) /\ told[i] = toClient[i]
             \/ i = Len(toClient) + 1 /\ told[i] = new
             \/ i = Len(toClient) + 2 /\ told[i] = reply
      BY <2>7, <3>2
    <3>4. \A i \in 1 .. Len(told) : Answers(told[i]) \/ told[i].type = "ok" => i = Len(told)
      BY <2>3, <2>7, <3>1, <3>2, <3>3 DEF NoAnswer, Answers
    <3>5. Len(told) \in 1 .. Len(told) /\ told[Len(told)] = reply /\ told[Len(told) - 1] = new
          /\ Len(told) - 1 # 0
      BY <2>7, <3>2
    <3>6. ~NoAnswer(told) /\ ~NotGranted(told)
      BY <2>3, <3>5 DEF NoAnswer, NotGranted, Answers
    <3>7. OneRename(app, ops, << >>, told)
      BY <3>4, <3>1, <3>6 DEF OneRename
    <3>8. ASSUME ~app.queued
          PROVE  app.pending.revision = prof.revision /\ job.name = prof.name
      BY <1>4, <3>1, <3>8 DEF Settling, LatestIsAsked
    <3>9. PICK s \in Histories : s = seen'
      BY <2>8
    <3>10. LatestIsAsked(prof, app, << >>, told, job.name, s)
      BY <3>1, <3>8 DEF Settling, LatestIsAsked
    <3>11. NameIsTold(con, told, job.name, s)
      BY <2>3, <3>5, <3>4, <3>6 DEF LastTold, NameIsTold
    <3>12. NoWait(con, app)
      BY <3>1 DEF NoWait
    <3> QED BY <1>1, <1>7, <3>1, <3>2, <3>7, <3>9, <3>10, <3>11, <3>12 DEF Settling
  <2> QED BY <2>10, <2>11, <2>12 DEF LifeInv
<1>8. CASE /\ toClient' = Append(toClient, [type |-> "refused", handle |-> job.handle])
           /\ UNCHANGED <<named, seen>>
  <2>1. PICK reply \in Reply : reply = [type |-> "refused", handle |-> job.handle]
    BY DEF Reply, Renaming
  <2>2. reply.type = "refused" /\ toClient' = Append(toClient, reply)
    BY <1>8, <2>1
  <2>3. reply \in Telling \cup Reply
    OBVIOUS
  <2>4. toClient' \in Commands
    BY <1>2, <2>2, <2>3 DEF Commands
  <2>5. /\ Len(toClient') = Len(toClient) + 1 /\ Len(toClient) \in Nat
        /\ \A i \in 1 .. Len(toClient) : toClient'[i] = toClient[i]
        /\ toClient'[Len(toClient) + 1] = reply
    BY <1>2, <2>2 DEF Commands
  <2>6. LifeTypeOK'
    BY <1>1, <1>4, <1>8, <2>4 DEF LifeInv, LifeTypeOK, Commands
  <2>7. AlertIsTold' /\ OneStage' /\ SavedIsOffered' /\ NothingOld'
    BY <1>1, <1>5, <1>8 DEF LifeInv, AlertIsTold, OneStage, SavedIsOffered, NothingOld
  <2>8. ASSUME Live' PROVE Settling'
    BY <1>1, <1>6, <2>8, <2>4, <2>5, <2>2, <1>8 DEF Live, NoAnswer, Answers, NotGranted,
       OneRename, Settling, LatestIsAsked, NameIsTold
  <2> QED BY <2>6, <2>7, <2>8 DEF LifeInv
<1> QED BY <1>3, <1>7, <1>8 DEF Renames

LEMMA BookCommandKeeps ==
    ASSUME LifeInv, BookCommand
    PROVE  LifeInv'
<1>1. /\ sess.on /\ items = << >> /\ con.state = "connected" /\ toClient # << >>
      /\ Head(toClient).type \in {"own", "updated"}
      /\ ApplyNickname(prof, Told(con, Head(toClient)), app, ops) /\ toClient' = Tail(toClient)
      /\ cue' = Entered(TRUE) /\ sess' = [sess EXCEPT !.first = FALSE, !.status = "connected"]
      /\ seen' = [seen EXCEPT !.alerts = IF cue'.entered /\ ~cue.entered THEN 0 ELSE @]
      /\ UNCHANGED <<items, prof, named>>
  BY DEF BookCommand, Polls
<1>2. /\ con \in Links /\ prof \in Profiles /\ app \in Applications /\ ops \in SUBSET Operations
      /\ toServer \in Seq(Renaming) /\ toClient \in Commands /\ seen \in Histories
      /\ cue \in Alarms /\ sess \in Sessions
  BY DEF LifeInv, LifeTypeOK, Commands
<1>3. PICK new \in Telling : new = Head(toClient)
  BY <1>1, <1>2 DEF Commands, Reply
<1>4. new.name \in Nicknames /\ prof.name \in Nicknames
  BY <1>2 DEF Telling, Profiles
<1>5. PICK options \in Called : options = IF new.type = "updated" THEN new.name ELSE con.options
  BY <1>2, <1>4 DEF Links, Called
<1>6. PICK d : d = [con EXCEPT !.options = options, !.actual = new.name]
  OBVIOUS
<1>7. d \in Links /\ d.actual = new.name /\ d.state = con.state /\ d.link = con.link
  BY <1>2, <1>4, <1>5, <1>6 DEF Links, Called
<1>8. Told(con, new) = WithName(d, prof.name)
  BY <1>5, <1>6 DEF Told
<1>9. PICK c \in Links : c = Told(con, new)
  BY <1>4, <1>7, <1>8, WithNameKeeps
<1>10. c.options = prof.name /\ c.state = "connected" /\ c.link = con.link /\ c.actual = new.name
  BY <1>1, <1>4, <1>7, <1>8, <1>9, WithNameKeeps
<1>11. ApplyNickname(prof, c, app, ops)
  BY <1>1, <1>3, <1>9
<1>12. /\ con' \in Links /\ con'.state = "connected" /\ con'.link = con.link
      /\ con'.options = prof.name /\ con'.actual = new.name
      /\ app' \in Applications /\ ops' \in SUBSET Operations /\ toServer' \in Seq(Renaming)
  BY <1>2, <1>10, <1>11, ApplyDoes
<1>13. toClient' \in Commands
  BY <1>1, <1>2, RestIs
<1>14. sess' \in Sessions /\ sess'.on = sess.on /\ sess'.status = "connected"
  BY <1>1, <1>2 DEF Sessions
<1>15. /\ cue' \in Alarms /\ seen' \in Histories /\ seen'.ended = seen.ended
       /\ seen'.foreign = seen.foreign /\ seen'.refused = seen.refused /\ AlertIsTold'
  BY <1>1, <1>2, <1>14 DEF Entered, Histories, LifeInv, AlertIsTold, Alarms
<1>16. LifeTypeOK'
  BY <1>1, <1>12, <1>13, <1>14, <1>15 DEF LifeInv, LifeTypeOK, Commands
<1>17. ASSUME Live' PROVE Settling'
  <2>1. Settling
    BY <1>1, <1>12, <1>17 DEF LifeInv, Live
  <2>2. ~Answers(Head(toClient))
    BY <1>1 DEF Answers
  <2>3. PICK told \in Commands : told = Tail(toClient)
    BY <1>1, <1>2, RestIs
  <2>4. OneRename(app, ops, toServer, told)
    BY <1>1, <1>2, <2>1, <2>2, <2>3, NameTakenKeepsOne DEF Settling
  <2>5. PICK s : s = seen'
    OBVIOUS
  <2>6. PICK has : has = named
    OBVIOUS
  <2>7. NameIsTold(con, toClient, has, s)
    BY <1>15, <2>1, <2>5, <2>6 DEF Settling, NameIsTold
  <2>8. (NotGranted(told) <=> NotGranted(toClient)) /\ NameIsTold(c, told, has, s)
    BY <1>1, <1>2, <1>3, <1>10, <2>2, <2>3, <2>7, NameTakenIsTold
  <2>9. LatestIsAsked(prof, app, toServer, told, has, s)
    BY <1>15, <2>1, <2>5, <2>6, <2>8 DEF Settling, LatestIsAsked
  <2>10. told \in Seq(Telling \cup Reply)
    BY DEF Commands
  <2>11. /\ OneRename(app', ops', toServer', told) /\ NoWait(con', app')
         /\ LatestIsAsked(prof, app', toServer', told, has, s) /\ NameIsTold(con', told, has, s)
    BY <1>2, <1>10, <1>11, <2>4, <2>8, <2>9, <2>10, ApplySettles
  <2> QED BY <1>1, <2>3, <2>5, <2>6, <2>11 DEF Settling
<1> QED BY <1>1, <1>12, <1>14, <1>15, <1>16, <1>17, NameStepKeeps

LEMMA AnswerCommandKeeps ==
    ASSUME LifeInv, AnswerCommand
    PROVE  LifeInv'
<1>1. /\ sess.on /\ items = << >> /\ con.state = "connected" /\ toClient # << >>
      /\ Head(toClient).type \in {"ok", "refused"} /\ toClient' = Tail(toClient)
      /\ UNCHANGED <<items, sess, cue, prof, named>>
  BY DEF AnswerCommand, Polls
<1>2. PICK op \in ops :
         /\ op.handle = Head(toClient).handle
         /\ ApplyNickname(prof, con, RenameDone(app, op.token), ops \ {op})
         /\ seen' = [seen EXCEPT !.refused =
                        @ \/ (Head(toClient).type = "refused" /\ IsLatest(app, op.token))]
  BY DEF AnswerCommand
<1>3. /\ con \in Links /\ prof \in Profiles /\ app \in Applications /\ ops \in SUBSET Operations
      /\ toServer \in Seq(Renaming) /\ toClient \in Commands /\ seen \in Histories
  BY DEF LifeInv, LifeTypeOK, Commands
<1>4. con.actual # NoName => con.state = "connected" /\ sess.status = "connected"
  BY DEF LifeInv, OneStage
<1>5. PICK a \in Applications : a = RenameDone(app, op.token)
  BY <1>3 DEF RenameDone, NoRename, Applications
<1>6. PICK o \in SUBSET Operations : o = ops \ {op}
  BY <1>3
<1>7. ApplyNickname(prof, con, a, o)
  BY <1>2, <1>5, <1>6
<1>8. /\ con' \in Links /\ con'.state = con.state /\ con'.link = con.link /\ con'.name = con.name
      /\ con'.options = con.options /\ con'.actual = con.actual
      /\ app' \in Applications /\ ops' \in SUBSET Operations /\ toServer' \in Seq(Renaming)
  BY <1>3, <1>4, <1>7, ApplyDoes
<1>9. PICK refused \in BOOLEAN :
         refused = (seen.refused \/ (Head(toClient).type = "refused" /\ IsLatest(app, op.token)))
  OBVIOUS
<1>10. seen' = [seen EXCEPT !.refused = refused]
  BY <1>2, <1>9
<1>11. /\ seen' \in Histories /\ seen'.alerts = seen.alerts /\ seen'.ended = seen.ended
       /\ seen'.foreign = seen.foreign /\ seen'.refused = refused
  BY <1>3, <1>10 DEF Histories
<1>12. toClient' \in Commands
  BY <1>1, <1>3, RestIs
<1>13. LifeTypeOK' /\ AlertIsTold'
  BY <1>1, <1>8, <1>11, <1>12 DEF LifeInv, LifeTypeOK, AlertIsTold, Commands
<1>14. ASSUME Live' PROVE Settling'
  <2>1. Settling
    BY <1>8, <1>14 DEF LifeInv, Live
  <2>2. Answers(Head(toClient))
    BY <1>1 DEF Answers
  <2>3. PICK told \in Commands : told = Tail(toClient)
    BY <1>1, <1>3, RestIs
  <2>4. OneRename(app, ops, toServer, toClient)
    BY <2>1 DEF Settling
  <2>5. /\ app.pending # NoRename /\ toServer = << >> /\ NoAnswer(told)
        /\ ops = {op} /\ op.token = app.pending.token
    BY <1>1, <1>3, <2>2, <2>4, AnswerIsAwaited, <2>3
  <2>6. a.pending = NoRename /\ a.queued = app.queued
    BY <1>3, <1>5, <2>5 DEF RenameDone, NoRename, Applications
  <2>7. OneRename(a, o, toServer, told)
    BY <1>6, <2>5, <2>6, NothingAwaited
  <2>8. PICK s : s = seen'
    OBVIOUS
  <2>9. PICK has : has = named
    OBVIOUS
  <2>10. NameIsTold(con, toClient, has, s)
    BY <1>11, <2>1, <2>8, <2>9 DEF Settling, NameIsTold
  <2>11. NameIsTold(con, told, has, s)
    BY <1>1, <1>3, <2>2, <2>3, <2>5, <2>10, AnswerTakenIsTold
  <2>12. ASSUME ~a.queued PROVE has = prof.name \/ s.refused \/ s.foreign
    <3>1. app.pending.revision = prof.revision /\ (~NotGranted(toClient) => named = prof.name \/ seen.foreign)
      BY <2>1, <2>5, <2>6, <2>12 DEF Settling, LatestIsAsked
    <3>2. CASE Head(toClient).type = "ok"
      BY <1>1, <1>3, <3>2, RestIs, <1>11, <2>8, <2>9, <3>1 DEF NotGranted
    <3>3. CASE Head(toClient).type = "refused"
      BY <2>5, <3>1, <1>9, <1>11, <2>8, <3>3 DEF IsLatest
    <3> QED BY <1>1, <3>2, <3>3
  <2>13. LatestIsAsked(prof, a, toServer, told, has, s)
    BY <1>3, <2>6, <2>12 DEF NoRename, Profiles, LatestIsAsked
  <2>14. told \in Seq(Telling \cup Reply)
    BY DEF Commands
  <2>15. /\ OneRename(app', ops', toServer', told) /\ NoWait(con', app')
         /\ LatestIsAsked(prof, app', toServer', told, has, s) /\ NameIsTold(con', told, has, s)
    BY <1>3, <1>4, <1>7, <2>7, <2>11, <2>13, <2>14, ApplySettles
  <2> QED BY <1>1, <2>3, <2>8, <2>9, <2>15 DEF Settling
<1>15. sess.status = "disconnected" <=> ~sess.on
  BY DEF LifeInv, OneStage
<1>16. con.options = prof.name
  BY <1>1 DEF LifeInv, SavedIsOffered
<1> QED BY <1>1, <1>4, <1>8, <1>13, <1>14, <1>15, <1>16, NameStepKeeps

-----------------------------------------------------------------------------
(* The theorems                                                            *)

LEMMA LifeNextKeeps ==
    ASSUME LifeInv, [LifeNext]_lifeVars
    PROVE  LifeInv'
<1>1. CASE SessionStarts \/ Disconnect \/ StartupDeadline \/ Panics
  BY <1>1, SessionStartsKeeps, DisconnectKeeps, FailsKeeps DEF StartupDeadline, Panics
<1>2. ASSUME NEW name \in Nicknames, NEW request \in 1 .. MaxRequests, SetNickname(name, request)
      PROVE  LifeInv'
  BY <1>2, SetNicknameKeeps
<1>3. CASE HandshakeDone \/ \E reason \in {"timeout", "other"} : HandshakeFails(reason)
  BY <1>3, HandshakeDoneKeeps, HandshakeFailsKeeps
<1>4. CASE LevelNeeded \/ LevelReached \/ TimesOut \/ ServerShutsDown \/ NextItem
  BY <1>4, LevelKeeps, TimesOutKeeps, ServerShutsDownKeeps, NextItemKeeps
<1>5. CASE Removed \/ StreamEnds \/ StreamBreaks
  BY <1>5, RemovedKeeps, FailsKeeps DEF StreamEnds, StreamBreaks
<1>6. CASE Renames \/ RenamedByOther \/ BookCommand \/ AnswerCommand
  BY <1>6, RenamesKeeps, RenamedByOtherKeeps, BookCommandKeeps, AnswerCommandKeeps
<1>7. CASE UNCHANGED lifeVars
  BY <1>7 DEF lifeVars, LifeInv, LifeTypeOK, AlertIsTold, OneStage, SavedIsOffered, NothingOld,
              Live, Settling, OneRename, NoWait, LatestIsAsked, NameIsTold, LastTold
<1> QED BY <1>1, <1>2, <1>3, <1>4, <1>5, <1>6, <1>7 DEF LifeNext

LEMMA LifeInvariant == LifeSpec => []LifeInv
  BY LifeInitOK, LifeNextKeeps, PTL DEF LifeSpec

\* A handshake always carries the nickname that was saved last, and at rest the server
\* has it, refused it with the user told, or somebody else renamed the client
\* (apply_nickname and profile.rs), whatever connections were lost in between.
THEOREM NameComesToRest == LifeSpec => []NameSettles
<1>1. LifeInv => NameSettles
  BY LifeInvHolds
<1> QED BY LifeInvariant, <1>1, PTL

\* An end that the user did not ask for is told of, once until a channel is entered
\* again, and the status shown is the connection's (sound_events.rs, session).
THEOREM EndsAreTold == LifeSpec => []UserKnows
<1>1. LifeInv => UserKnows
  BY LifeInvHolds
<1> QED BY LifeInvariant, <1>1, PTL

=============================================================================
