------------------------- MODULE SessionPartsProofs -------------------------
(***************************************************************************)
(* Parts of the session: a slot for every picture that is asked for, read  *)
(* or written, and somebody for every file that is staged; what the user   *)
(* has seen does not stay unread, whatever commands of the screens are     *)
(* still on their way; the directory that is shown was read after it was   *)
(* asked for, while records, tasks and the disk agree; and the bars of the *)
(* connection are no better than what was observed. At the end, the parts  *)
(* side by side.                                                           *)
(***************************************************************************)
EXTENDS MCSessionParts, AvatarWishProofs, FunctionTheorems, WellFoundedInduction

-----------------------------------------------------------------------------
(* Media downloads: the invariant                                          *)

JobIds == 1 .. MaxJobs
Busy == {"read", "write"}
Downloading ==
    [slots : Nat, generation : Nat, sequence : 0 .. MaxJobs, failed : SUBSET Keys,
     jobs : SUBSET [id : JobIds, key : Keys], waiting : SUBSET [handle : Nat, id : JobIds]]
Watching ==
    [up : BOOLEAN, wanted : SUBSET Keys, handles : Nat, since : Nat,
     watched : SUBSET [handle : Nat, key : Keys]]
Task ==
    [id : JobIds, generation : Nat, aborted : BOOLEAN,
     at : {"read", "write", "written", "broken"}]
Ending == [id : JobIds, generation : Nat, ok : BOOLEAN]

\* The jobs whose pictures are waited for, read or written.
Running(ts) == {t.id : t \in {x \in ts : x.at \in Busy}}
Occupying(s) == WaitingIds(s.media) \cup Running(s.tasks)

\* JobIds and handles are given out once.
Numbered(s) ==
    /\ \A a, b \in s.media.jobs : a.id = b.id => a = b
    /\ \A a, b \in s.media.waiting : (a.id = b.id \/ a.handle = b.handle) => a = b
    /\ \A a, b \in s.tasks : a.id = b.id => a = b
    /\ \A a \in s.media.jobs : a.id <= s.media.sequence
    /\ \A t \in s.tasks : t.id <= s.media.sequence
    /\ \A x \in s.link.watched : x.handle <= s.link.handles

\* What waits has a job and is watched for its picture.
Leads(s) ==
    \A w \in s.media.waiting :
        /\ \A t \in s.tasks : t.id # w.id
        /\ \E job \in s.media.jobs :
              job.id = w.id /\ [handle |-> w.handle, key |-> job.key] \in s.link.watched

Once(s) == \A a, b \in s.media.jobs : a.key = b.key => a = b

Counted(s) == s.media.slots + Cardinality(Occupying(s)) = MaxTransfers

Sound(s) ==
    /\ s \in [media : Downloading, link : Watching, tasks : SUBSET Task]
    /\ Numbered(s) /\ Leads(s) /\ Once(s) /\ Counted(s)

Owned(staged, ts, dn) ==
    \A id \in staged :
        \/ \E t \in ts : t.id = id /\ t.at \in {"write", "written"}
        \/ \E i \in DOMAIN dn : dn[i].id = id /\ dn[i].ok

MediaInv ==
    /\ Sound(Session)
    /\ completions \in Seq(Ending)
    /\ disk \in [files : SUBSET Keys, staged : SUBSET JobIds]
    /\ Owned(disk.staged, tasks, completions)

\* The tasks of s go on in r, as far as they have come.
GoOn(s, r) == \A t \in s.tasks : \E u \in r.tasks : u.id = t.id /\ u.at = t.at

\* Records are taken apart here, once.
LEMMA Parts ==
    ASSUME NEW s \in [media : Downloading, link : Watching, tasks : SUBSET Task]
    PROVE  /\ s.media \in Downloading /\ s.link \in Watching /\ s.tasks \in SUBSET Task
           /\ s.media.slots \in Nat /\ s.media.generation \in Nat
           /\ s.media.sequence \in 0 .. MaxJobs /\ s.media.sequence \in Nat
           /\ s.media.failed \in SUBSET Keys
           /\ s.media.jobs \in SUBSET [id : JobIds, key : Keys]
           /\ s.media.waiting \in SUBSET [handle : Nat, id : JobIds]
           /\ s.link.up \in BOOLEAN /\ s.link.wanted \in SUBSET Keys
           /\ s.link.handles \in Nat /\ s.link.since \in Nat
           /\ s.link.watched \in SUBSET [handle : Nat, key : Keys]
  BY MediaAssumption DEF Downloading, Watching

\* What has a slot has a number, so there are finitely many.
LEMMA HoldingIsFinite ==
    ASSUME NEW s, Sound(s)
    PROVE  /\ Occupying(s) \in SUBSET (1 .. s.media.sequence)
           /\ IsFiniteSet(Occupying(s)) /\ Cardinality(Occupying(s)) \in Nat
<1>1. s.media.sequence \in Nat
  BY Parts DEF Sound
<1>2. \A w \in s.media.waiting : w.id \in 1 .. s.media.sequence
  <2> SUFFICES ASSUME NEW w \in s.media.waiting PROVE w.id \in 1 .. s.media.sequence
    OBVIOUS
  <2>1. PICK job \in s.media.jobs : job.id = w.id
    BY DEF Sound, Leads
  <2>2. job.id \in JobIds /\ job.id <= s.media.sequence
    BY Parts DEF Sound, Numbered
  <2> QED BY <1>1, <2>1, <2>2 DEF JobIds
<1>3. \A t \in s.tasks : t.id \in 1 .. s.media.sequence
  BY <1>1 DEF Sound, Numbered, Task, JobIds
<1>4. Occupying(s) \in SUBSET (1 .. s.media.sequence)
  BY <1>2, <1>3 DEF Occupying, WaitingIds, Running
<1>5. IsFiniteSet(1 .. s.media.sequence)
  BY <1>1, FS_Interval
<1> QED BY <1>4, <1>5, FS_Subset, FS_CardinalityType

\* Slots given back by all of ids that hold one.
LEMMA SlotsReturn ==
    ASSUME NEW s, Sound(s), NEW r, NEW ids, NEW back,
           ids \in SUBSET Occupying(s), Occupying(r) = Occupying(s) \ ids,
           r.media.slots = s.media.slots + Cardinality(ids)
    PROVE  Counted(r) /\ Cardinality(ids) \in Nat
<1>1. IsFiniteSet(Occupying(s)) /\ Cardinality(Occupying(s)) \in Nat
  BY HoldingIsFinite
<1>2. IsFiniteSet(ids) /\ Cardinality(ids) \in Nat
  BY <1>1, FS_Subset, FS_CardinalityType
<1>3. Cardinality(Occupying(s) \ ids) = Cardinality(Occupying(s)) - Cardinality(Occupying(s) \cap ids)
  BY <1>1, FS_Difference
<1>4. Occupying(s) \cap ids = ids
  OBVIOUS
<1>5. s.media.slots \in Nat /\ MaxTransfers \in Nat
  BY Parts, MediaAssumption DEF Sound
<1>6. s.media.slots + Cardinality(Occupying(s)) = MaxTransfers
  BY DEF Sound, Counted
<1>7. Cardinality(Occupying(r)) = Cardinality(Occupying(s)) - Cardinality(ids)
  BY <1>3, <1>4
<1>8. r.media.slots + Cardinality(Occupying(r)) = MaxTransfers
  BY <1>1, <1>2, <1>5, <1>6, <1>7
<1> QED BY <1>2, <1>8 DEF Counted

\* The next n numbers take a slot each.
LEMMA SlotsGo ==
    ASSUME NEW s, Sound(s), NEW r, NEW n \in Nat, n <= s.media.slots,
           Occupying(r) = Occupying(s) \cup {s.media.sequence + i : i \in 1 .. n},
           r.media.slots = s.media.slots - n
    PROVE  Counted(r) /\ r.media.slots \in Nat
<1> DEFINE m == s.media.sequence
           new == (m + 1) .. (m + n)
<1>1. m \in Nat /\ s.media.slots \in Nat /\ MaxTransfers \in Nat
  BY Parts, MediaAssumption DEF Sound
<1>2. IsFiniteSet(Occupying(s)) /\ Cardinality(Occupying(s)) \in Nat /\ Occupying(s) \in SUBSET (1 .. m)
  BY HoldingIsFinite
<1>3. new = {m + i : i \in 1 .. n}
  <2>1. \A k \in new : k - m \in 1 .. n /\ k = m + (k - m)
    BY <1>1
  <2>2. \A i \in 1 .. n : m + i \in new
    BY <1>1
  <2> QED BY <2>1, <2>2
<1>4. IsFiniteSet(new) /\ Cardinality(new) = n
  <2>1. m + 1 \in Int /\ m + n \in Int
    BY <1>1
  <2>2. IsFiniteSet(new) /\ Cardinality(new) = IF m + 1 > m + n THEN 0 ELSE (m + n) - (m + 1) + 1
    BY <2>1, FS_Interval
  <2> QED BY <1>1, <2>2
<1>5. Occupying(s) \cap new = {}
  BY <1>1, <1>2
<1> HIDE DEF new
<1>6. Cardinality(Occupying(s) \cup new) = Cardinality(Occupying(s)) + n
  <2>1. Cardinality(Occupying(s) \cup new)
           = Cardinality(Occupying(s)) + Cardinality(new) - Cardinality(Occupying(s) \cap new)
    BY <1>2, <1>4, FS_Union
  <2>2. Cardinality(Occupying(s) \cap new) = 0
    BY <1>5, FS_EmptySet
  <2> QED BY <1>2, <1>4, <2>1, <2>2
<1>7. s.media.slots + Cardinality(Occupying(s)) = MaxTransfers
  BY DEF Sound, Counted
<1>8. Cardinality(Occupying(r)) = Cardinality(Occupying(s)) + n
  BY <1>3, <1>6
<1>9. r.media.slots + Cardinality(Occupying(r)) = MaxTransfers
  BY <1>1, <1>2, <1>7, <1>8
<1> QED BY <1>1, <1>9 DEF Counted

-----------------------------------------------------------------------------
(* The operations of Downloads                                             *)

LEMMA GrantedIs ==
    ASSUME NEW m \in Downloading, NEW keys, NEW order \in Granted(m, keys)
    PROVE  \E n \in Nat :
              /\ order \in [1 .. n -> keys] /\ Len(order) = n /\ DOMAIN order = 1 .. n
              /\ \A i, k \in 1 .. n : order[i] = order[k] => i = k
              /\ n <= m.slots /\ m.sequence + n \in 0 .. MaxJobs
<1>1. PICK n \in 0 .. Cardinality(keys) :
        /\ n = 0 \/ Fits(m, n)
        /\ order \in [1 .. n -> keys] /\ \A i, k \in 1 .. n : order[i] = order[k] => i = k
  BY DEF Granted
<1>2. n \in Nat
  OBVIOUS
<1>3. Len(order) = n /\ DOMAIN order = 1 .. n
  BY <1>1, <1>2
<1>4. m.slots \in Nat /\ m.sequence \in Nat /\ m.sequence <= MaxJobs /\ MaxJobs \in Nat
  BY MediaAssumption DEF Downloading
<1>5. n <= m.slots /\ m.sequence + n <= MaxJobs
  BY <1>1, <1>2, <1>4 DEF Fits
<1>6. m.sequence + n \in 0 .. MaxJobs
  BY <1>2, <1>4, <1>5
<1> QED BY <1>1, <1>2, <1>3, <1>5, <1>6


\* n numbers of jobs.
LEMMA ReservedIs ==
    ASSUME NEW m \in Downloading, NEW n \in Nat, NEW order \in [1 .. n -> Keys],
           n <= m.slots, m.sequence + n \in 0 .. MaxJobs
    PROVE  LET r == Reserved(m, order) IN
           /\ r \in Downloading
           /\ r.slots = m.slots - n /\ r.sequence = m.sequence + n
           /\ r.jobs = m.jobs \cup {[id |-> m.sequence + i, key |-> order[i]] : i \in 1 .. n}
           /\ r.waiting = m.waiting /\ r.generation = m.generation /\ r.failed = m.failed
           /\ \A i \in 1 .. n : m.sequence + i \in JobIds /\ m.sequence + i > m.sequence
<1> DEFINE r == Reserved(m, order)
           new == {[id |-> m.sequence + i, key |-> order[i]] : i \in 1 .. n}
<1>1. Len(order) = n /\ DOMAIN order = 1 .. n
  OBVIOUS
<1>2. /\ r.slots = m.slots - n /\ r.sequence = m.sequence + n /\ r.jobs = m.jobs \cup new
      /\ r.waiting = m.waiting /\ r.generation = m.generation /\ r.failed = m.failed
  BY <1>1 DEF Reserved, Downloading
<1>3. m.slots \in Nat /\ m.sequence \in Nat /\ MaxJobs \in Nat
  BY MediaAssumption DEF Downloading
<1>4. \A i \in 1 .. n : m.sequence + i \in JobIds /\ m.sequence + i > m.sequence
  BY <1>3 DEF JobIds
<1>5. new \in SUBSET [id : JobIds, key : Keys]
  BY <1>4
<1>6. m.slots - n \in Nat
  BY <1>3
<1>7. r \in Downloading
  BY <1>1, <1>5, <1>6 DEF Reserved, new, Downloading
<1> QED BY <1>2, <1>4, <1>7

\* Jobs with the next numbers, for pictures that have none.
LEMMA ReservedNumbers ==
    ASSUME NEW m \in Downloading, NEW n \in Nat, NEW order \in [1 .. n -> Keys],
           n <= m.slots, m.sequence + n \in 0 .. MaxJobs,
           \A i, k \in 1 .. n : order[i] = order[k] => i = k,
           \A i \in 1 .. n, job \in m.jobs : job.key # order[i],
           \A a, b \in m.jobs : a.id = b.id => a = b,
           \A a, b \in m.jobs : a.key = b.key => a = b,
           \A a \in m.jobs : a.id <= m.sequence
    PROVE  LET r == Reserved(m, order) IN
           /\ \A a, b \in r.jobs : a.id = b.id => a = b
           /\ \A a, b \in r.jobs : a.key = b.key => a = b
           /\ \A a \in r.jobs : a.id <= r.sequence
<1> DEFINE r == Reserved(m, order)
<1>1. /\ r.sequence = m.sequence + n
      /\ r.jobs = m.jobs \cup {[id |-> m.sequence + i, key |-> order[i]] : i \in 1 .. n}
  BY ReservedIs
<1> HIDE DEF r
<1>2. m.sequence \in Nat /\ \A a \in m.jobs : a.id \in Nat
  BY MediaAssumption DEF Downloading, JobIds
<1>3. \A a \in r.jobs :
         \/ a \in m.jobs
         \/ \E i \in 1 .. n : a.id = m.sequence + i /\ a.key = order[i]
                              /\ a = [id |-> m.sequence + i, key |-> order[i]]
  BY <1>1
<1>4. \A i \in 1 .. n : m.sequence + i > m.sequence /\ m.sequence + i <= m.sequence + n
  BY <1>2
<1>5. ASSUME NEW a \in r.jobs, NEW b \in r.jobs, a.id = b.id PROVE a = b
  <2>1. CASE a \in m.jobs /\ b \in m.jobs
    BY <1>5, <2>1
  <2>2. CASE a \notin m.jobs /\ b \notin m.jobs
    <3>1. PICK i \in 1 .. n : a.id = m.sequence + i /\ a = [id |-> m.sequence + i, key |-> order[i]]
      BY <1>3, <2>2
    <3>2. PICK k \in 1 .. n : b.id = m.sequence + k /\ b = [id |-> m.sequence + k, key |-> order[k]]
      BY <1>3, <2>2
    <3>3. i = k
      <4>1. m.sequence + i = m.sequence + k
        BY <1>5, <3>1, <3>2
      <4>2. m.sequence \in Nat /\ i \in Nat /\ k \in Nat
        BY <1>2
      <4> QED BY <4>1, <4>2
    <3> QED BY <3>1, <3>2, <3>3
  <2>3. ASSUME NEW x \in m.jobs, NEW y \in r.jobs, y \notin m.jobs PROVE x.id # y.id
    BY <1>3, <2>3, <1>2, <1>4
  <2> QED BY <1>5, <2>1, <2>2, <2>3
<1>6. ASSUME NEW a \in r.jobs, NEW b \in r.jobs, a.key = b.key PROVE a = b
  BY <1>6, <1>3
<1>7. ASSUME NEW a \in r.jobs PROVE a.id <= r.sequence
  BY <1>2, <1>1, <1>3, <1>4
<1> QED BY <1>5, <1>6, <1>7 DEF r


LEMMA RejectIsSound ==
    ASSUME NEW s, Sound(s), NEW keys \in SUBSET Keys
    PROVE  LET r == Reject(s, keys) IN
           /\ Sound(r) /\ r.tasks = s.tasks /\ r.link = s.link
           /\ r.media.slots = s.media.slots /\ r.media.sequence = s.media.sequence
           /\ r.media.jobs = s.media.jobs
  BY DEF Sound, Reject, Downloading, Occupying, WaitingIds, Numbered, Leads, Once, Counted

\* Pictures that a file transfer is asked for.
LEMMA WaitIsSound ==
    ASSUME NEW s, Sound(s), NEW n \in Nat, NEW order \in [1 .. n -> Keys],
           n <= s.media.slots, s.media.sequence + n \in 0 .. MaxJobs,
           \A i, k \in 1 .. n : order[i] = order[k] => i = k,
           \A i \in 1 .. n, job \in s.media.jobs : job.key # order[i]
    PROVE  Sound(Wait(s, order)) /\ Wait(s, order).tasks = s.tasks
<1> DEFINE m == Reserved(s.media, order)
           q == s.media.sequence
           h == s.link.handles
           asks == {[handle |-> h + i, id |-> q + i] : i \in 1 .. n}
           looks == {[handle |-> h + i, key |-> order[i]] : i \in 1 .. n}
           r == Wait(s, order)
<1>1. /\ s \in [media : Downloading, link : Watching, tasks : SUBSET Task]
      /\ s.media \in Downloading /\ s.link \in Watching
      /\ h \in Nat /\ q \in Nat /\ n \in Nat
  BY Parts DEF Sound
<1>2. Len(order) = n /\ DOMAIN order = 1 .. n
  OBVIOUS
<1>3. /\ m \in Downloading /\ m.slots = s.media.slots - n /\ m.sequence = q + n
      /\ m.jobs = s.media.jobs \cup {[id |-> q + i, key |-> order[i]] : i \in 1 .. n}
      /\ m.waiting = s.media.waiting
      /\ \A i \in 1 .. n : q + i \in JobIds /\ q + i > q
  BY <1>1, ReservedIs
<1>4. /\ \A a, b \in m.jobs : a.id = b.id => a = b
      /\ \A a, b \in m.jobs : a.key = b.key => a = b
      /\ \A a \in m.jobs : a.id <= m.sequence
  BY <1>1, ReservedNumbers DEF Sound, Numbered, Once
<1> HIDE DEF m
<1>5. r = [s EXCEPT !.media = [m EXCEPT !.waiting = @ \cup asks],
                    !.link = [s.link EXCEPT !.handles = h + n, !.watched = @ \cup looks]]
  BY <1>1, <1>2 DEF Wait, m, Watching
<1>6. asks \in SUBSET [handle : Nat, id : JobIds] /\ looks \in SUBSET [handle : Nat, key : Keys]
  BY <1>1, <1>3
<1>7. /\ \A w \in asks : \E i \in 1 .. n : w.handle = h + i /\ w.id = q + i
      /\ \A i \in 1 .. n : [handle |-> h + i, key |-> order[i]] \in looks
      /\ \A x \in looks : \E i \in 1 .. n : x.handle = h + i
      /\ \A i \in 1 .. n : [handle |-> h + i, id |-> q + i] \in asks
  OBVIOUS
<1>8. \A a, b \in asks : (a.id = b.id \/ a.handle = b.handle) => a = b
  BY <1>1
<1> HIDE DEF asks, looks
<1>9. /\ r \in [media : Downloading, link : Watching, tasks : SUBSET Task]
      /\ r.media.slots = m.slots /\ r.media.sequence = m.sequence /\ r.media.jobs = m.jobs
      /\ r.media.waiting = s.media.waiting \cup asks /\ r.tasks = s.tasks
      /\ r.link.handles = h + n /\ r.link.watched = s.link.watched \cup looks
  <2>1. [m EXCEPT !.waiting = @ \cup asks] \in Downloading
    BY <1>3, <1>6 DEF Downloading
  <2>2. [s.link EXCEPT !.handles = h + n, !.watched = @ \cup looks] \in Watching
    <3>1. h + n \in Nat
      BY <1>1
    <3> QED BY <1>1, <1>6, <3>1 DEF Watching
  <2>3. /\ r.media = [m EXCEPT !.waiting = @ \cup asks]
        /\ r.link = [s.link EXCEPT !.handles = h + n, !.watched = @ \cup looks]
        /\ r.tasks = s.tasks
    BY <1>1, <1>5
  <2> HIDE DEF r
  <2>4. r \in [media : Downloading, link : Watching, tasks : SUBSET Task]
    <3> USE DEF r
    <3> QED BY <1>1, <1>5, <2>1, <2>2
  <2> QED BY <1>1, <1>3, <2>3, <2>4 DEF Downloading, Watching
<1> HIDE DEF r
<1>10. Numbered(r)
  <2>1. ASSUME NEW a \in s.media.waiting, NEW b \in asks
        PROVE  a.id # b.id /\ a.handle # b.handle
    <3>1. PICK i \in 1 .. n : b.handle = h + i /\ b.id = q + i
      BY <1>7
    <3>2. a.id \in Nat /\ a.id <= q
      <4>1. PICK job \in s.media.jobs :
               job.id = a.id /\ [handle |-> a.handle, key |-> job.key] \in s.link.watched
        BY DEF Sound, Leads
      <4>2. job.id <= q /\ job.id \in Nat
        BY <1>1 DEF Sound, Numbered, Downloading, JobIds
      <4> QED BY <4>1, <4>2
    <3>3. a.handle \in Nat /\ a.handle <= h
      BY <1>1 DEF Sound, Leads, Numbered, Watching
    <3>4. a.id # q + i
      BY <1>1, <3>2
    <3>5. a.handle # h + i
      BY <1>1, <3>3
    <3> QED BY <3>1, <3>4, <3>5
  <2>2. \A a, b \in r.media.waiting : (a.id = b.id \/ a.handle = b.handle) => a = b
    BY <1>8, <1>9, <2>1 DEF Sound, Numbered
  <2>3. \A t \in r.tasks : t.id <= r.media.sequence
    BY <1>1, <1>3, <1>9 DEF Sound, Numbered, Task, JobIds
  <2>4. \A x \in r.link.watched : x.handle <= r.link.handles
    BY <1>1, <1>7, <1>9 DEF Sound, Numbered, Watching
  <2>5. \A a, b \in r.tasks : a.id = b.id => a = b
    BY <1>9 DEF Sound, Numbered
  <2> QED BY <1>4, <1>9, <2>2, <2>3, <2>4, <2>5 DEF Numbered
<1>11. Leads(r)
  <2>1. ASSUME NEW w \in s.media.waiting
        PROVE  /\ \A t \in r.tasks : t.id # w.id
               /\ \E job \in r.media.jobs :
                    job.id = w.id /\ [handle |-> w.handle, key |-> job.key] \in r.link.watched
    BY <1>3, <1>9 DEF Sound, Leads
  <2>2. ASSUME NEW w \in asks
        PROVE  /\ \A t \in r.tasks : t.id # w.id
               /\ \E job \in r.media.jobs :
                    job.id = w.id /\ [handle |-> w.handle, key |-> job.key] \in r.link.watched
    <3>1. PICK i \in 1 .. n : w.handle = h + i /\ w.id = q + i
      BY <1>7
    <3>2. \A t \in s.tasks : t.id # q + i
      BY <1>1 DEF Sound, Numbered, Task, JobIds
    <3> DEFINE job == [id |-> q + i, key |-> order[i]]
    <3>3. job \in r.media.jobs /\ job.id = w.id /\ job.key = order[i]
      BY <1>3, <1>9, <3>1
    <3>4. [handle |-> w.handle, key |-> order[i]] \in r.link.watched
      BY <1>7, <1>9, <3>1
    <3> HIDE DEF job
    <3> QED BY <1>9, <3>1, <3>2, <3>3, <3>4
  <2> QED BY <1>9, <2>1, <2>2 DEF Leads
<1>12. Once(r)
  BY <1>4, <1>9 DEF Once
<1>13. Counted(r)
  <2>1. Occupying(r) = Occupying(s) \cup {q + i : i \in 1 .. n}
    <3>1. WaitingIds(r.media) = WaitingIds(s.media) \cup {w.id : w \in asks}
      BY <1>9 DEF WaitingIds
    <3>2. {w.id : w \in asks} = {q + i : i \in 1 .. n}
      <4>1. \A i \in 1 .. n : \E w \in asks : w.id = q + i
        BY <1>7
      <4>2. \A w \in asks : \E i \in 1 .. n : w.id = q + i
        BY <1>7
      <4>3. ASSUME NEW w \in asks
            PROVE  w.id \in {q + i : i \in 1 .. n}
        BY <4>2
      <4>4. ASSUME NEW i \in 1 .. n
            PROVE  q + i \in {w.id : w \in asks}
        BY <4>1
      <4> QED BY <4>3, <4>4
    <3> QED BY <1>9, <3>1, <3>2 DEF Occupying
  <2>2. r.media.slots = s.media.slots - n
    BY <1>3, <1>9
  <2> QED BY <2>1, <2>2, SlotsGo
<1> QED BY <1>9, <1>10, <1>11, <1>12, <1>13 DEF Sound, r


\* Badges, each with a task from the start.
LEMMA BadgeIsSound ==
    ASSUME NEW s, Sound(s), NEW n \in Nat, NEW order \in [1 .. n -> Keys],
           n <= s.media.slots, s.media.sequence + n \in 0 .. MaxJobs,
           \A i, k \in 1 .. n : order[i] = order[k] => i = k,
           \A i \in 1 .. n, job \in s.media.jobs : job.key # order[i]
    PROVE  Sound(Badge(s, order)) /\ s.tasks \subseteq Badge(s, order).tasks
<1> DEFINE m == Reserved(s.media, order)
           q == s.media.sequence
           new == {Spawned(s.media, q + i) : i \in 1 .. n}
           r == Badge(s, order)
<1>1. /\ s \in [media : Downloading, link : Watching, tasks : SUBSET Task]
      /\ s.media \in Downloading /\ q \in Nat /\ n \in Nat /\ s.media.generation \in Nat
  BY Parts DEF Sound
<1>2. DOMAIN order = 1 .. n
  OBVIOUS
<1>3. /\ m \in Downloading /\ m.slots = s.media.slots - n /\ m.sequence = q + n
      /\ m.jobs = s.media.jobs \cup {[id |-> q + i, key |-> order[i]] : i \in 1 .. n}
      /\ m.waiting = s.media.waiting
      /\ \A i \in 1 .. n : q + i \in JobIds /\ q + i > q
  BY <1>1, ReservedIs
<1>4. /\ \A a, b \in m.jobs : a.id = b.id => a = b
      /\ \A a, b \in m.jobs : a.key = b.key => a = b
      /\ \A a \in m.jobs : a.id <= m.sequence
  BY <1>1, ReservedNumbers DEF Sound, Numbered, Once
<1> HIDE DEF m
<1>5. r = [s EXCEPT !.media = m, !.tasks = s.tasks \cup new]
  BY <1>1, <1>2 DEF Badge, m
<1>6. new \in SUBSET Task
  <2>1. \A i \in 1 .. n : Spawned(s.media, q + i) \in Task
    BY <1>1, <1>3 DEF Spawned, Task
  <2> QED BY <2>1
<1>7. /\ \A t \in new : \E i \in 1 .. n :
            t = Spawned(s.media, q + i) /\ t.id = q + i /\ t.at = "read"
      /\ \A i \in 1 .. n : Spawned(s.media, q + i) \in new
  <2>1. \A i \in 1 .. n : Spawned(s.media, q + i).id = q + i /\ Spawned(s.media, q + i).at = "read"
    BY DEF Spawned
  <2> QED BY <2>1
<1> HIDE DEF new
<1>8. /\ r \in [media : Downloading, link : Watching, tasks : SUBSET Task]
      /\ r.media = m /\ r.link = s.link /\ r.tasks = s.tasks \cup new
  BY <1>1, <1>3, <1>5, <1>6
<1> HIDE DEF r
<1>9. \A t \in s.tasks, i \in 1 .. n : t.id # q + i
  BY <1>1 DEF Sound, Numbered, Task, JobIds
<1>10. Numbered(r)
  <2>1. ASSUME NEW a \in r.tasks, NEW b \in r.tasks, a.id = b.id PROVE a = b
    BY <2>1, <1>7, <1>9, <1>8 DEF Sound, Numbered
  <2>2. \A t \in r.tasks : t.id <= r.media.sequence
    BY <1>1, <1>7, <1>3, <1>8 DEF Sound, Numbered, Task, JobIds
  <2>3. \A a, b \in r.media.waiting : (a.id = b.id \/ a.handle = b.handle) => a = b
    BY <1>3, <1>8 DEF Sound, Numbered
  <2>4. \A x \in r.link.watched : x.handle <= r.link.handles
    BY <1>8 DEF Sound, Numbered
  <2> QED BY <1>4, <1>8, <2>1, <2>2, <2>3, <2>4 DEF Numbered
<1>11. Leads(r)
  <2> SUFFICES ASSUME NEW w \in s.media.waiting
               PROVE  /\ \A t \in r.tasks : t.id # w.id
                      /\ \E job \in r.media.jobs :
                           job.id = w.id /\ [handle |-> w.handle, key |-> job.key] \in r.link.watched
    BY <1>3, <1>8 DEF Leads
  <2>1. PICK job \in s.media.jobs :
          job.id = w.id /\ [handle |-> w.handle, key |-> job.key] \in s.link.watched
    BY DEF Sound, Leads
  <2>2. job \in r.media.jobs
    BY <1>3, <1>8
  <2>3. \A t \in new : t.id # w.id
    BY <1>1, <1>7, <2>1 DEF Sound, Numbered, Downloading, JobIds
  <2>4. \A t \in s.tasks : t.id # w.id
    BY DEF Sound, Leads
  <2> QED BY <1>8, <2>1, <2>2, <2>3, <2>4
<1>12. Once(r)
  BY <1>4, <1>8 DEF Once
<1>13. Counted(r)
  <2>1. Running(r.tasks) = Running(s.tasks) \cup {q + i : i \in 1 .. n}
    <3>1. \A t \in new : t.at \in Busy /\ \E i \in 1 .. n : t.id = q + i
      BY <1>7 DEF Busy
    <3>2. \A i \in 1 .. n : \E t \in new : t.id = q + i /\ t.at \in Busy
      BY <1>7, <3>1 DEF Spawned
    <3>3. \A x : x \in Running(s.tasks \cup new) <=>
                   x \in Running(s.tasks) \/ x \in {q + i : i \in 1 .. n}
      BY <3>1, <3>2 DEF Running
    <3> QED BY <1>8, <3>3
  <2>2. WaitingIds(r.media) = WaitingIds(s.media)
    BY <1>3, <1>8 DEF WaitingIds
  <2>3. Occupying(r) = Occupying(s) \cup {q + i : i \in 1 .. n}
    BY <2>1, <2>2 DEF Occupying
  <2>4. r.media.slots = s.media.slots - n
    BY <1>3, <1>8
  <2> QED BY <2>3, <2>4, SlotsGo
<1> QED BY <1>8, <1>10, <1>11, <1>12, <1>13 DEF Sound, r


LEMMA AskedIsSound ==
    ASSUME NEW s, Sound(s), NEW keys \in SUBSET Keys, NEW r \in Asked(s, keys),
           \A key \in keys, job \in s.media.jobs : job.key # key
    PROVE  Sound(r) /\ r.tasks = s.tasks
<1>0. PICK refused \in SUBSET keys :
        \E order \in Granted(s.media, keys \ refused) : r = Wait(Reject(s, refused), order)
  BY DEF Asked
<1>1. PICK order \in Granted(s.media, keys \ refused) : r = Wait(Reject(s, refused), order)
  BY <1>0
<1> DEFINE u == Reject(s, refused)
<1>2. s.media \in Downloading
  BY Parts DEF Sound
<1>3. PICK n \in Nat :
        /\ order \in [1 .. n -> keys \ refused]
        /\ \A i, k \in 1 .. n : order[i] = order[k] => i = k
        /\ n <= s.media.slots /\ s.media.sequence + n \in 0 .. MaxJobs
  BY <1>2, GrantedIs
<1>4. /\ Sound(u) /\ u.tasks = s.tasks /\ u.media.slots = s.media.slots
      /\ u.media.sequence = s.media.sequence /\ u.media.jobs = s.media.jobs
  BY RejectIsSound
<1>5. order \in [1 .. n -> Keys] /\ \A i \in 1 .. n, job \in s.media.jobs : job.key # order[i]
  BY <1>3
<1> HIDE DEF u
<1>6. Sound(Wait(u, order)) /\ Wait(u, order).tasks = u.tasks
  BY <1>3, <1>4, <1>5, WaitIsSound
<1> QED BY <1>1, <1>4, <1>6 DEF u

\* Whatever the bookkeeping names is asked for, as far as there are slots.
LEMMA ScheduledIsSound ==
    ASSUME NEW s, Sound(s), NEW wanted, NEW stored, NEW r \in Scheduled(s, wanted, stored)
    PROVE  Sound(r) /\ s.tasks \subseteq r.tasks
<1> DEFINE asked == IF s.link.up THEN s.link.wanted \cap wanted ELSE {}
<1>1. asked \in SUBSET Keys
  BY Parts DEF Sound
<1>2. PICK u \in Asked(s, Wanting(s, asked \ Badges, stored)) :
        \E order \in Granted(u.media, Wanting(u, asked \cap Badges, stored)) : r = Badge(u, order)
  BY DEF Scheduled
<1> HIDE DEF asked
<1>3. Sound(u) /\ u.tasks = s.tasks
  BY <1>1, <1>2, AskedIsSound DEF Wanting
<1> DEFINE keys == Wanting(u, asked \cap Badges, stored)
<1>4. PICK order \in Granted(u.media, keys) : r = Badge(u, order)
  BY <1>2
<1>5. keys \in SUBSET Keys /\ \A key \in keys, job \in u.media.jobs : job.key # key
  BY <1>1 DEF Wanting
<1> HIDE DEF keys
<1>6. u.media \in Downloading
  BY <1>3, Parts DEF Sound
<1>7. PICK n \in Nat :
        /\ order \in [1 .. n -> keys]
        /\ \A i, k \in 1 .. n : order[i] = order[k] => i = k
        /\ n <= u.media.slots /\ u.media.sequence + n \in 0 .. MaxJobs
  BY <1>6, GrantedIs
<1>8. order \in [1 .. n -> Keys] /\ \A i \in 1 .. n, job \in u.media.jobs : job.key # order[i]
  BY <1>5, <1>7
<1>9. Sound(Badge(u, order)) /\ u.tasks \subseteq Badge(u, order).tasks
  BY <1>3, <1>7, <1>8, BadgeIsSound
<1> QED BY <1>3, <1>4, <1>9

\* The connection is another, or watches fewer transfers: none that a job waits for.
LEMMA RelinkedIsSound ==
    ASSUME NEW s, Sound(s), NEW l \in Watching, NEW r, r = Relinked(s, l),
           \A x \in l.watched : x.handle <= l.handles,
           \A w \in s.media.waiting, x \in s.link.watched : x.handle = w.handle => x \in l.watched
    PROVE  Sound(r) /\ r.media = s.media /\ r.link = l /\ r.tasks = s.tasks
  BY DEF Sound, Relinked, Occupying, Numbered, Once, Counted, Leads

-----------------------------------------------------------------------------
(* Jobs are given up                                                       *)

\* What becomes of tasks of which those with these ids are told to end.
TasksEnd(ts, ids) == {[t EXCEPT !.aborted = @ \/ t.id \in ids] : t \in ts}

LEMMA DroppedIs ==
    ASSUME NEW s, Sound(s), NEW ids, NEW d, d = Dropped(s, ids)
    PROVE  /\ d.link = s.link
           /\ d.media.slots = s.media.slots + Cardinality(ids \cap WaitingIds(s.media))
           /\ d.media.jobs = {job \in s.media.jobs : job.id \notin ids}
           /\ d.media.waiting = {w \in s.media.waiting : w.id \notin ids}
           /\ d.media.sequence = s.media.sequence /\ d.media.generation = s.media.generation
           /\ d.media.failed = s.media.failed
           /\ d.tasks = TasksEnd(s.tasks, ids)
  BY Parts DEF Sound, Dropped, Downloading, TasksEnd

\* The tasks go on until they notice.
LEMMA TasksGoOn ==
    ASSUME NEW ts \in SUBSET Task, NEW ids, NEW us, us = TasksEnd(ts, ids),
           \A a, b \in ts : a.id = b.id => a = b
    PROVE  /\ us \in SUBSET Task
           /\ \A t \in ts : \E u \in us : u.id = t.id /\ u.at = t.at
           /\ \A u \in us : \E t \in ts : u.id = t.id /\ u.at = t.at
           /\ \A a, b \in us : a.id = b.id => a = b
<1> DEFINE F(t) == [t EXCEPT !.aborted = @ \/ t.id \in ids]
<1>1. \A t \in ts : F(t) \in Task /\ F(t).id = t.id /\ F(t).at = t.at
  BY DEF Task
<1>2. us = {F(t) : t \in ts}
  BY DEF TasksEnd
<1> HIDE DEF F
<1>3. (\A t \in ts : F(t) \in us) /\ \A u \in us : \E t \in ts : u = F(t)
  BY <1>2
<1>4. \A u \in us : \E t \in ts : u = F(t) /\ u.id = t.id /\ u.at = t.at
  BY <1>1, <1>3
<1>5. \A a, b \in us : a.id = b.id => a = b
  BY <1>4
<1>6. us \in SUBSET Task
  BY <1>1, <1>4
<1> QED BY <1>1, <1>3, <1>4, <1>5, <1>6


LEMMA DroppedIsSound ==
    ASSUME NEW s, Sound(s), NEW ids
    PROVE  Sound(Dropped(s, ids)) /\ GoOn(s, Dropped(s, ids))
<1> DEFINE d == Dropped(s, ids)
           back == ids \cap WaitingIds(s.media)
<1>0. d = Dropped(s, ids)
  OBVIOUS
<1>1. /\ s \in [media : Downloading, link : Watching, tasks : SUBSET Task]
      /\ s.media \in Downloading /\ s.tasks \in SUBSET Task /\ s.media.slots \in Nat
  BY Parts DEF Sound
<1> HIDE DEF d
<1>2. /\ d.link = s.link
      /\ d.media.slots = s.media.slots + Cardinality(back)
      /\ d.media.jobs = {job \in s.media.jobs : job.id \notin ids}
      /\ d.media.waiting = {w \in s.media.waiting : w.id \notin ids}
      /\ d.media.sequence = s.media.sequence /\ d.media.generation = s.media.generation
      /\ d.media.failed = s.media.failed
      /\ d.tasks = TasksEnd(s.tasks, ids)
  BY <1>0, DroppedIs
<1>3. /\ d.tasks \in SUBSET Task
      /\ \A t \in s.tasks : \E u \in d.tasks : u.id = t.id /\ u.at = t.at
      /\ \A u \in d.tasks : \E t \in s.tasks : u.id = t.id /\ u.at = t.at
      /\ \A a, b \in d.tasks : a.id = b.id => a = b
  BY <1>1, <1>2, TasksGoOn DEF Sound, Numbered
<1>4. Occupying(d) = Occupying(s) \ back
  BY <1>3, <1>2 DEF Running, WaitingIds, Sound, Leads, Occupying
<1>5. Counted(d) /\ Cardinality(back) \in Nat
  BY <1>2, <1>4, SlotsReturn DEF Occupying
<1>6. d \in [media : Downloading, link : Watching, tasks : SUBSET Task]
  <2> DEFINE n == s.media.slots + Cardinality(back)
             js == {job \in s.media.jobs : job.id \notin ids}
             ws == {w \in s.media.waiting : w.id \notin ids}
             m == [s.media EXCEPT !.slots = n, !.jobs = js, !.waiting = ws]
  <2>1. n \in Nat
    BY <1>1, <1>5
  <2>2. js \in SUBSET s.media.jobs /\ ws \in SUBSET s.media.waiting
    OBVIOUS
  <2>3. d.media = m
    BY <1>0, <1>1 DEF Dropped, Downloading
  <2>4. d = [s EXCEPT !.media = d.media, !.tasks = d.tasks]
    BY <1>0, <1>1 DEF Dropped
  <2> HIDE DEF n, js, ws
  <2>5. m \in Downloading
    BY <1>1, <2>1, <2>2 DEF Downloading
  <2> QED BY <1>1, <1>3, <2>3, <2>4, <2>5
<1> HIDE DEF back
<1>7. Numbered(d)
  BY <1>2, <1>3 DEF Sound, Numbered
<1>8. Leads(d)
  BY <1>2, <1>3 DEF Leads, Sound
<1>9. Once(d)
  BY <1>2 DEF Sound, Once
<1> QED BY <1>3, <1>5, <1>6, <1>7, <1>8, <1>9 DEF Sound, GoOn, d

HaveJobs(s, ids) == \A id \in ids : \E job \in s.media.jobs : job.id = id

\* The same with a note that these pictures failed.
LEMMA FailingIsSound ==
    ASSUME NEW s, Sound(s), NEW ids, HaveJobs(s, ids)
    PROVE  /\ Sound(Failing(s, ids)) /\ GoOn(s, Failing(s, ids))
           /\ Failing(s, ids).link = s.link
           /\ Failing(s, ids).media.waiting = {w \in s.media.waiting : w.id \notin ids}
<1>0. PICK d : d = Dropped(s, ids)
  OBVIOUS
<1>1. Sound(d) /\ GoOn(s, d)
  BY <1>0, DroppedIsSound
<1>2. /\ d.link = s.link
      /\ d.media.slots = s.media.slots + Cardinality(ids \cap WaitingIds(s.media))
      /\ d.media.jobs = {job \in s.media.jobs : job.id \notin ids}
      /\ d.media.waiting = {w \in s.media.waiting : w.id \notin ids}
      /\ d.media.sequence = s.media.sequence /\ d.media.generation = s.media.generation
      /\ d.media.failed = s.media.failed
      /\ d.tasks = TasksEnd(s.tasks, ids)
  BY <1>0, Parts DEF Sound, Dropped, Downloading, TasksEnd
<1> DEFINE keys == {KeyOf(s.media, id) : id \in ids}
<1>3. keys \in SUBSET Keys
  BY Parts DEF HaveJobs, Sound, KeyOf
<1>4. Failing(s, ids) = Reject(d, keys)
  BY <1>0 DEF Failing, Reject
<1> HIDE DEF keys
<1>5. Sound(Reject(d, keys)) /\ Reject(d, keys).tasks = d.tasks /\ Reject(d, keys).link = d.link
  BY <1>1, <1>3, RejectIsSound
<1>6. Reject(d, keys).media.waiting = d.media.waiting
  BY <1>1, Parts DEF Sound, Reject, Downloading
<1> QED BY <1>1, <1>2, <1>4, <1>5, <1>6 DEF GoOn


-----------------------------------------------------------------------------
(* The session                                                             *)

LEMMA TakenUp ==
    ASSUME NEW r, Sound(r), Becomes(r)
    PROVE  Sound(Session)' /\ Session' = r
<1>1. r \in [media : Downloading, link : Watching, tasks : SUBSET Task]
  BY DEF Sound
<1>2. r = [media |-> r.media, link |-> r.link, tasks |-> r.tasks]
  BY <1>1
<1>3. Session' = r
  BY <1>2 DEF Session, Becomes
<1> QED BY <1>3 DEF Sound, Numbered, Leads, Once, Counted, Occupying, WaitingIds, Running

LEMMA StillOwned ==
    ASSUME NEW s, NEW r, GoOn(s, r), NEW staged, NEW dn, Owned(staged, s.tasks, dn)
    PROVE  Owned(staged, r.tasks, dn)
  BY DEF Owned, GoOn

LEMMA GoOnTwice ==
    ASSUME NEW s, NEW r, NEW u, GoOn(s, r), r.tasks \subseteq u.tasks
    PROVE  GoOn(s, u)
  BY DEF GoOn

\* The state as a record.
LEMMA SessionParts ==
    ASSUME MediaInv
    PROVE  /\ Sound(Session) /\ Session.media = media /\ Session.link = mediaLink
           /\ Session.tasks = tasks
           /\ media \in Downloading /\ mediaLink \in Watching /\ tasks \in SUBSET Task
           /\ completions \in Seq(Ending) /\ disk.files \in SUBSET Keys
           /\ disk.staged \in SUBSET JobIds /\ Owned(disk.staged, tasks, completions)
           /\ GoOn(Session, Session)
  BY Parts DEF MediaInv, GoOn, Session, Sound

\* The session goes on with r, in which the tasks of before go on.
LEMMA GoingOnKeeps ==
    ASSUME MediaInv, NEW r, Sound(r), GoOn(Session, r), Becomes(r), completions' \in Seq(Ending),
           disk' \in [files : SUBSET Keys, staged : SUBSET JobIds],
           Owned(disk'.staged, tasks, completions')
    PROVE  MediaInv'
  BY TakenUp, StillOwned DEF Session, Becomes, Owned, MediaInv

\* It asks for more from s, which is sound.
LEMMA SchedulingKeeps ==
    ASSUME MediaInv, NEW s, Sound(s), GoOn(Session, s), NEW wanted, NEW stored,
           NEW r \in Scheduled(s, wanted, stored), Becomes(r), completions' \in Seq(Ending),
           disk' \in [files : SUBSET Keys, staged : SUBSET JobIds],
           Owned(disk'.staged, tasks, completions')
    PROVE  MediaInv'
  BY ScheduledIsSound, GoOnTwice, GoingOnKeeps

\* Neither the completions nor the files change.
LEMMA SchedulingOnlyKeeps ==
    ASSUME MediaInv, NEW s, Sound(s), GoOn(Session, s), NEW wanted, NEW stored,
           NEW r \in Scheduled(s, wanted, stored), Becomes(r), UNCHANGED <<completions, disk>>
    PROVE  MediaInv'
  BY SchedulingKeeps DEF MediaInv

LEMMA BookEventsKeeps ==
    ASSUME MediaInv, BookEvents
    PROVE  MediaInv'
<1>1. PICK wanted \in SUBSET Keys :
        \E r \in Scheduled(Relinked(Session, [mediaLink EXCEPT !.up = TRUE, !.wanted = wanted]),
                           Keys, disk.files) : Becomes(r)
  BY DEF BookEvents
<1> DEFINE l == [mediaLink EXCEPT !.up = TRUE, !.wanted = wanted]
           s == Relinked(Session, l)
<1>2. PICK r \in Scheduled(s, Keys, disk.files) : Becomes(r)
  BY <1>1
<1>3. Sound(Session) /\ Session.link = mediaLink /\ mediaLink \in Watching
  BY SessionParts
<1>4. l \in Watching /\ l.watched = mediaLink.watched /\ l.handles = mediaLink.handles
  BY <1>3 DEF Watching
<1>5. \A x \in mediaLink.watched : x.handle <= mediaLink.handles
  BY <1>3 DEF Sound, Numbered
<1>6. s = Relinked(Session, l)
  OBVIOUS
<1> HIDE DEF l, s
<1>7. Sound(s) /\ s.tasks = Session.tasks
  BY <1>3, <1>4, <1>5, <1>6, RelinkedIsSound
<1>8. GoOn(Session, s)
  BY <1>7 DEF GoOn
<1>9. UNCHANGED <<completions, disk>>
  BY DEF BookEvents
<1> QED BY <1>2, <1>7, <1>8, <1>9, SchedulingOnlyKeeps

\* Jobs are given up and their transfers watched no more.
LEMMA GivenUpIsSound ==
    ASSUME MediaInv, NEW ids, \A id \in ids : \E job \in media.jobs : job.id = id,
           NEW l \in Watching, l.watched \subseteq mediaLink.watched, l.handles = mediaLink.handles,
           \A w \in media.waiting, x \in mediaLink.watched :
              (w.id \notin ids /\ x.handle = w.handle) => x \in l.watched
    PROVE  LET s == Relinked(Failing(Session, ids), l) IN Sound(s) /\ GoOn(Session, s)
  BY SessionParts, FailingIsSound, RelinkedIsSound DEF HaveJobs, Sound, Numbered, GoOn

LEMMA DownloadFailedKeeps ==
    ASSUME MediaInv, DownloadFailed
    PROVE  MediaInv'
<1>1. PICK x \in mediaLink.watched, w \in media.waiting :
        /\ w.handle = x.handle
        /\ \E r \in Scheduled(Relinked(Failing(Session, {w.id}),
                                        [mediaLink EXCEPT !.watched = @ \ {x}]),
                               Keys \ Badges, disk.files) : Becomes(r)
  BY DEF DownloadFailed
<1> DEFINE l == [mediaLink EXCEPT !.watched = @ \ {x}]
           s == Relinked(Failing(Session, {w.id}), l)
<1>2. PICK r \in Scheduled(s, Keys \ Badges, disk.files) : Becomes(r)
  BY <1>1
<1>3. /\ Sound(Session) /\ Session.media = media /\ Session.link = mediaLink
      /\ mediaLink \in Watching
  BY SessionParts
<1>5. \A id \in {w.id} : \E job \in media.jobs : job.id = id
  BY <1>3 DEF Sound, Leads
<1>6. \A v \in media.waiting, y \in mediaLink.watched :
        (v.id \notin {w.id} /\ y.handle = v.handle) => y \in mediaLink.watched \ {x}
  BY <1>1, <1>3 DEF Sound, Numbered
<1>7. l \in Watching /\ l.watched = mediaLink.watched \ {x} /\ l.handles = mediaLink.handles
  BY <1>3 DEF Watching
<1> HIDE DEF l
<1>8. Sound(s) /\ GoOn(Session, s)
  BY <1>5, <1>6, <1>7, GivenUpIsSound
<1> HIDE DEF s
<1>9. UNCHANGED <<completions, disk>>
  BY DEF DownloadFailed
<1> QED BY <1>2, <1>8, <1>9, SchedulingOnlyKeeps

LEMMA TickKeeps ==
    ASSUME MediaInv, Tick
    PROVE  MediaInv'
  BY SessionParts, GivenUpIsSound, SchedulingOnlyKeeps DEF Tick, Watching, Sound, Numbered

\* The stream that a job waited for is there: its task takes the slot.
LEMMA DownloadKeeps ==
    ASSUME MediaInv, Download
    PROVE  MediaInv'
<1>1. PICK x \in mediaLink.watched :
        /\ mediaLink' = [mediaLink EXCEPT !.watched = @ \ {x}]
        /\ \E w \in media.waiting :
            /\ w.handle = x.handle
            /\ media' = [media EXCEPT !.waiting = @ \ {w}]
            /\ tasks' = tasks \cup {Spawned(media, w.id)}
  BY DEF Download
<1>2. PICK w \in media.waiting :
        /\ w.handle = x.handle
        /\ media' = [media EXCEPT !.waiting = @ \ {w}]
        /\ tasks' = tasks \cup {Spawned(media, w.id)}
  BY <1>1
<1> DEFINE t == Spawned(media, w.id)
<1>3. /\ Sound(Session) /\ Session.media = media /\ Session.link = mediaLink
      /\ Session.tasks = tasks
      /\ media \in Downloading /\ mediaLink \in Watching /\ tasks \in SUBSET Task
  BY SessionParts
<1>4. /\ media.waiting \in SUBSET [handle : Nat, id : JobIds]
      /\ mediaLink.watched \in SUBSET [handle : Nat, key : Keys] /\ media.generation \in Nat
  BY <1>3 DEF Downloading, Watching
<1>5. /\ media' \in Downloading /\ media'.waiting = media.waiting \ {w}
      /\ media'.jobs = media.jobs /\ media'.sequence = media.sequence
      /\ media'.slots = media.slots
  BY <1>2, <1>3 DEF Downloading
<1>6. /\ mediaLink' \in Watching /\ mediaLink'.watched = mediaLink.watched \ {x}
      /\ mediaLink'.handles = mediaLink.handles
  BY <1>1, <1>3 DEF Watching
<1>7. t \in Task /\ t.id = w.id /\ t.at = "read"
  BY <1>2, <1>4 DEF Spawned, Task
<1>8. tasks' = tasks \cup {t}
  BY <1>2
<1> HIDE DEF t
<1>9. /\ \A a, b \in media.jobs : a.id = b.id => a = b
      /\ \A a, b \in media.jobs : a.key = b.key => a = b
      /\ \A a, b \in media.waiting : (a.id = b.id \/ a.handle = b.handle) => a = b
      /\ \A a, b \in tasks : a.id = b.id => a = b
      /\ \A a \in media.jobs : a.id <= media.sequence
      /\ \A a \in tasks : a.id <= media.sequence
      /\ \A y \in mediaLink.watched : y.handle <= mediaLink.handles
      /\ \A v \in media.waiting :
           /\ \A a \in tasks : a.id # v.id
           /\ \E job \in media.jobs :
                 job.id = v.id /\ [handle |-> v.handle, key |-> job.key] \in mediaLink.watched
  BY <1>3 DEF Sound, Numbered, Leads, Once
<1>10. /\ Session'.media = media' /\ Session'.link = mediaLink' /\ Session'.tasks = tasks'
       /\ Session' \in [media : Downloading, link : Watching, tasks : SUBSET Task]
  BY <1>3, <1>5, <1>6, <1>7, <1>8 DEF Session
<1>11. Numbered(Session)'
  <2>1. t.id <= media.sequence
    BY <1>7, <1>9
  <2>2. \A a, b \in tasks' : a.id = b.id => a = b
    BY <1>7, <1>8, <1>9
  <2>3. \A a \in tasks' : a.id <= media'.sequence
    BY <1>5, <1>8, <1>9, <2>1
  <2> QED BY <1>5, <1>6, <1>9, <1>10, <2>2, <2>3 DEF Numbered
<1>12. Leads(Session)'
  BY <1>5, <1>10, <1>9, <1>7, <1>8, <1>2, <1>6 DEF Leads
<1>13. Once(Session)'
  BY <1>5, <1>9, <1>10 DEF Once
<1>14. Counted(Session)'
  <2>1. Running(tasks') = Running(tasks) \cup {w.id}
    BY <1>7, <1>8 DEF Running, Busy
  <2>2. WaitingIds(media') = WaitingIds(media) \ {w.id}
    BY <1>5, <1>9 DEF WaitingIds
  <2>3. w.id \in WaitingIds(media)
    BY DEF WaitingIds
  <2>4. Occupying(Session)' = Occupying(Session)
    BY <1>3, <1>10, <2>1, <2>2, <2>3 DEF Occupying
  <2>5. Counted(Session) /\ Session.media.slots = Session'.media.slots
    BY <1>3, <1>5, <1>10 DEF Sound
  <2> QED BY <2>4, <2>5 DEF Counted
<1>15. Sound(Session)'
  BY <1>10, <1>11, <1>12, <1>13, <1>14 DEF Sound
<1>16. MediaInv /\ UNCHANGED <<completions, disk>>
  BY DEF Download
<1>17. Owned(disk.staged, tasks, completions)'
  BY <1>8, <1>16 DEF MediaInv, Owned
<1> QED BY <1>15, <1>16, <1>17 DEF MediaInv

\* The first completion is taken, and its file is moved or removed.
LEMMA OwnedByTheRest ==
    ASSUME NEW staged, NEW ts, NEW dn \in Seq(Ending), dn # << >>, Owned(staged, ts, dn)
    PROVE  Tail(dn) \in Seq(Ending) /\ Owned(staged \ {Head(dn).id}, ts, Tail(dn))
<1>1. Tail(dn) \in Seq(Ending)
  OBVIOUS
<1> SUFFICES ASSUME NEW id \in staged, id # dn[1].id, NEW i \in DOMAIN dn,
                    dn[i].id = id, dn[i].ok
             PROVE  \E k \in DOMAIN Tail(dn) : Tail(dn)[k].id = id /\ Tail(dn)[k].ok
  BY <1>1 DEF Owned
<1>2. i \in 1 .. Len(dn) /\ i # 1
  OBVIOUS
<1>3. i - 1 \in DOMAIN Tail(dn) /\ Tail(dn)[i - 1] = dn[i]
  BY <1>2
<1> QED BY <1>3

LEMMA CompletionKeeps ==
    ASSUME MediaInv, Completion
    PROVE  MediaInv'
<1> DEFINE c == Head(completions)
           expected == c.generation = media.generation /\ \E job \in media.jobs : job.id = c.id
           key == KeyOf(media, c.id)
           good(moved) == expected /\ c.ok /\ moved
           after(moved) ==
              CASE ~expected -> Session
                [] good(moved) -> Dropped(Session, {c.id})
                [] OTHER -> Failing(Session, {c.id})
<1>1. completions # << >> /\ completions' = Tail(completions)
  BY DEF Completion
<1>2. PICK moved \in BOOLEAN :
        /\ disk' = [files |-> IF good(moved) THEN disk.files \cup {key} ELSE disk.files,
                    staged |-> disk.staged \ {c.id}]
        /\ \E r \in Scheduled(after(moved), Keys, disk'.files) : Becomes(r)
  BY DEF Completion
<1> DEFINE s == after(moved)
<1>3. PICK r \in Scheduled(s, Keys, disk'.files) : Becomes(r)
  BY <1>2
<1>4. /\ Sound(Session) /\ GoOn(Session, Session) /\ Session.media = media
      /\ media \in Downloading /\ completions \in Seq(Ending)
      /\ disk.files \in SUBSET Keys /\ disk.staged \in SUBSET JobIds
      /\ Owned(disk.staged, tasks, completions)
  BY SessionParts
<1>5. Sound(s) /\ GoOn(Session, s)
  BY <1>4, FailingIsSound, DroppedIsSound DEF HaveJobs
<1>6. expected => key \in Keys
  BY <1>4 DEF Downloading, KeyOf
<1>7. /\ disk' \in [files : SUBSET Keys, staged : SUBSET JobIds]
      /\ disk'.staged = disk.staged \ {c.id}
  BY <1>4, <1>6, <1>2
<1>8. completions' \in Seq(Ending) /\ Owned(disk'.staged, tasks, completions')
  BY <1>1, <1>4, <1>7, OwnedByTheRest
<1> HIDE DEF s
<1> QED BY <1>3, <1>5, <1>7, <1>8, SchedulingKeeps

\* Everything is given up; nothing waits any more.
LEMMA AllGivenUpIsSound ==
    ASSUME NEW s, Sound(s), NEW r, r = AllGivenUp(s)
    PROVE  Sound(r) /\ GoOn(s, r) /\ r.media.waiting = {}
<1> DEFINE ids == {job.id : job \in s.media.jobs}
           d == Dropped(s, ids)
<1>1. Sound(d) /\ GoOn(s, d)
  BY DroppedIsSound
<1>2. d.media.waiting = {}
  BY Parts DEF Sound, Dropped, Downloading, Leads
<1>3. r = [d EXCEPT !.media.generation = @ + 1, !.media.failed = {}]
  BY DEF AllGivenUp
<1> HIDE DEF d, ids
<1>4. /\ d \in [media : Downloading, link : Watching, tasks : SUBSET Task]
      /\ d.media \in Downloading /\ d.media.generation \in Nat
  BY <1>1, Parts DEF Sound
<1> DEFINE m == [d.media EXCEPT !.generation = d.media.generation + 1, !.failed = {}]
<1>5. m \in Downloading
  <2>1. d.media.generation + 1 \in Nat
    BY <1>4
  <2> QED BY <1>4, <2>1 DEF Downloading
<1>6. /\ m.waiting = d.media.waiting /\ m.jobs = d.media.jobs /\ m.slots = d.media.slots
      /\ m.sequence = d.media.sequence
  BY <1>4 DEF Downloading
<1>7. r = [d EXCEPT !.media = m]
  BY <1>3, <1>4 DEF Downloading
<1> HIDE DEF m
<1>8. /\ r.media = m /\ r.link = d.link /\ r.tasks = d.tasks
      /\ r \in [media : Downloading, link : Watching, tasks : SUBSET Task]
  BY <1>4, <1>5, <1>7
<1>9. Occupying(r) = Occupying(d)
  BY <1>6, <1>8 DEF Occupying, WaitingIds
<1>10. Numbered(r) /\ Leads(r) /\ Once(r) /\ Counted(r)
  BY <1>1, <1>6, <1>8, <1>9 DEF Sound, Numbered, Leads, Once, Counted
<1> QED BY <1>1, <1>2, <1>6, <1>8, <1>10 DEF Sound, GoOn

\* Another connection, or none, of the generation since.
LEMMA AnewIsSound ==
    ASSUME MediaInv, NEW since \in Nat, NEW r, r = Relinked(AllGivenUp(Session), NoLink(since))
    PROVE  Sound(r) /\ GoOn(Session, r)
<1> DEFINE d == AllGivenUp(Session)
           l == NoLink(since)
<1>1. Sound(d) /\ GoOn(Session, d) /\ d.media.waiting = {}
  BY SessionParts, AllGivenUpIsSound
<1>2. l \in Watching /\ l.watched = {}
  BY DEF NoLink, Watching
<1>3. r = Relinked(d, l)
  OBVIOUS
<1> HIDE DEF d, l
<1>4. Sound(r) /\ r.tasks = d.tasks
  BY <1>1, <1>2, <1>3, RelinkedIsSound
<1> QED BY <1>1, <1>4 DEF GoOn

LEMMA ConnectionLostKeeps ==
    ASSUME MediaInv, ConnectionLost
    PROVE  MediaInv'
  BY SessionParts, AnewIsSound, GoingOnKeeps DEF Watching, ConnectionLost, MediaInv

LEMMA SessionEndsKeeps ==
    ASSUME MediaInv, SessionEnds
    PROVE  MediaInv'
<1> DEFINE r == Relinked(AllGivenUp(Session), NoLink(media.generation + 1))
<1>1. media.generation + 1 \in Nat
  BY SessionParts DEF Downloading
<1>2. Sound(r) /\ GoOn(Session, r)
  BY <1>1, AnewIsSound
<1>3. /\ Becomes(r) /\ completions' = << >>
      /\ disk' = [disk EXCEPT !.staged = @ \ {completions[i].id : i \in DOMAIN completions}]
  BY DEF SessionEnds
<1>4. /\ disk \in [files : SUBSET Keys, staged : SUBSET JobIds]
      /\ Owned(disk.staged, tasks, completions)
  BY DEF MediaInv
<1> DEFINE gone == {completions[i].id : i \in DOMAIN completions}
<1>5. disk' = [disk EXCEPT !.staged = disk.staged \ gone]
  BY <1>3, <1>4
<1>6. Owned(disk.staged \ gone, tasks, << >>)
  BY <1>4 DEF Owned
<1> HIDE DEF gone, r
<1>7. /\ disk' \in [files : SUBSET Keys, staged : SUBSET JobIds]
      /\ disk'.staged = disk.staged \ gone
  BY <1>4, <1>5
<1>8. completions' \in Seq(Ending)
  BY <1>3
<1>9. Owned(disk'.staged, tasks, completions')
  BY <1>3, <1>6, <1>7, Zenon
<1> QED BY <1>2, <1>3, <1>7, <1>8, <1>9, GoingOnKeeps

-----------------------------------------------------------------------------
(* The tasks and their threads                                             *)

\* A task is there no more, or further.
LEMMA TasksStep ==
    ASSUME MediaInv, tasks' \in SUBSET Task, mediaLink' = mediaLink,
           NEW n \in Nat, media' = [media EXCEPT !.slots = n],
           \A u \in tasks' : \E t \in tasks : t.id = u.id,
           \A a, b \in tasks' : a.id = b.id => a = b,
           n + Cardinality(WaitingIds(media) \cup Running(tasks')) = MaxTransfers
    PROVE  Sound(Session)'
<1>1. /\ Sound(Session) /\ Session.media = media /\ Session.link = mediaLink
      /\ Session.tasks = tasks
      /\ media \in Downloading /\ mediaLink \in Watching /\ tasks \in SUBSET Task
  BY SessionParts
<1>2. /\ media' \in Downloading /\ media'.slots = n /\ media'.waiting = media.waiting
      /\ media'.jobs = media.jobs /\ media'.sequence = media.sequence
  BY <1>1 DEF Downloading
<1>3. /\ Session'.media = media' /\ Session'.link = mediaLink /\ Session'.tasks = tasks'
      /\ Session' \in [media : Downloading, link : Watching, tasks : SUBSET Task]
  BY <1>1, <1>2 DEF Session
<1>4. Numbered(Session)'
  BY <1>1, <1>2, <1>3 DEF Sound, Numbered
<1>5. Leads(Session)'
  BY <1>1, <1>2, <1>3 DEF Sound, Leads
<1>6. Once(Session)'
  BY <1>1, <1>2, <1>3 DEF Sound, Once
<1>7. Counted(Session)'
  BY <1>2, <1>3 DEF Occupying, WaitingIds, Running, Counted
<1> QED BY <1>3, <1>4, <1>5, <1>6, <1>7 DEF Sound

\* As many slots as before, with as many running.
LEMMA SlotsStay ==
    ASSUME MediaInv, Running(tasks') = Running(tasks)
    PROVE  /\ media.slots \in Nat /\ media = [media EXCEPT !.slots = media.slots]
           /\ media.slots + Cardinality(WaitingIds(media) \cup Running(tasks')) = MaxTransfers
  BY SessionParts DEF Downloading, Sound, Counted, Occupying

\* A slot is free, and one fewer runs.
LEMMA SlotIsFreed ==
    ASSUME MediaInv, NEW t \in tasks, t.at \in Busy, Running(tasks') = Running(tasks) \ {t.id},
           FreesSlot
    PROVE  /\ media.slots + 1 \in Nat /\ media' = [media EXCEPT !.slots = media.slots + 1]
           /\ media.slots + 1 + Cardinality(WaitingIds(media) \cup Running(tasks')) = MaxTransfers
<1>1. /\ Sound(Session) /\ Session.media = media /\ Session.tasks = tasks
      /\ media \in Downloading
  BY SessionParts
<1>2. media.slots \in Nat /\ media' = [media EXCEPT !.slots = media.slots + 1]
  BY <1>1 DEF Downloading, FreesSlot
<1>3. media.slots + 1 \in Nat
  BY <1>2
<1>4. IsFiniteSet(Occupying(Session)) /\ Cardinality(Occupying(Session)) \in Nat
  BY <1>1, HoldingIsFinite
<1>5. t.id \in Occupying(Session) /\ t.id \notin WaitingIds(media)
  BY <1>1 DEF Running, Sound, Leads, Occupying, WaitingIds
<1>6. WaitingIds(media) \cup Running(tasks') = Occupying(Session) \ {t.id}
  BY <1>1, <1>5 DEF Occupying
<1>7. Cardinality(Occupying(Session) \ {t.id}) = Cardinality(Occupying(Session)) - 1
  BY <1>4, <1>5, FS_RemoveElement
<1>8. media.slots + Cardinality(Occupying(Session)) = MaxTransfers
  BY <1>1 DEF Sound, Counted
<1>9. media.slots + 1 + (Cardinality(Occupying(Session)) - 1) = MaxTransfers
  BY <1>2, <1>4, <1>8
<1> QED BY <1>2, <1>3, <1>6, <1>7, <1>9

\* A task ends.
LEMMA TaskGone ==
    ASSUME MediaInv, NEW t \in tasks, tasks' = tasks \ {t}, mediaLink' = mediaLink,
           \/ t.at \in Busy /\ FreesSlot
           \/ t.at \notin Busy /\ UNCHANGED media
    PROVE  Sound(Session)'
<1>1. Sound(Session) /\ Session.tasks = tasks /\ tasks \in SUBSET Task
  BY SessionParts
<1>2. \A a, b \in tasks : a.id = b.id => a = b
  BY <1>1 DEF Sound, Numbered
<1>3. /\ tasks' \in SUBSET Task /\ \A u \in tasks' : \E x \in tasks : x.id = u.id
      /\ \A a, b \in tasks' : a.id = b.id => a = b
  BY <1>1, <1>2
<1>4. CASE t.at \in Busy /\ FreesSlot
  <2>1. Running(tasks') = Running(tasks) \ {t.id}
    BY <1>2 DEF Running
  <2> QED BY <1>3, <1>4, <2>1, SlotIsFreed, TasksStep
<1>5. CASE t.at \notin Busy /\ UNCHANGED media
  BY <1>2, <1>5, SlotsStay, <1>3, TasksStep DEF Running
<1> QED BY <1>4, <1>5

\* A task goes on.
LEMMA TaskGoesOn ==
    ASSUME MediaInv, NEW t \in tasks, NEW at \in {"read", "write", "written", "broken"},
           Goes(t, at), t.at \in Busy, mediaLink' = mediaLink,
           \/ at \notin Busy /\ FreesSlot
           \/ at \in Busy /\ UNCHANGED media
    PROVE  Sound(Session)'
<1> DEFINE new == [t EXCEPT !.at = at]
<1>1. Sound(Session) /\ Session.tasks = tasks /\ tasks \in SUBSET Task
  BY SessionParts
<1>2. \A a, b \in tasks : a.id = b.id => a = b
  BY <1>1 DEF Sound, Numbered
<1>3. new \in Task /\ new.id = t.id /\ new.at = at
  BY <1>1 DEF Task
<1>4. tasks' = (tasks \ {t}) \cup {new}
  BY DEF Goes
<1> HIDE DEF new
<1>5. /\ tasks' \in SUBSET Task /\ \A u \in tasks' : \E x \in tasks : x.id = u.id
      /\ \A a, b \in tasks' : a.id = b.id => a = b
  BY <1>1, <1>2, <1>3, <1>4
<1>6. CASE at \notin Busy /\ FreesSlot
  <2>1. Running(tasks') = Running(tasks) \ {t.id}
    BY <1>2, <1>3, <1>4, <1>6 DEF Running
  <2> QED BY <1>5, <1>6, <2>1, SlotIsFreed, TasksStep
<1>7. CASE at \in Busy /\ UNCHANGED media
  BY <1>2, <1>3, <1>4, <1>7, SlotsStay, <1>5, TasksStep DEF Running
<1> QED BY <1>6, <1>7

\* What a task says, it says of its own file.
LEMMA SendsOwns ==
    ASSUME MediaInv, NEW t \in tasks, NEW ok \in BOOLEAN, Sends(t, ok),
           t.at # "write", t.at = "written" => ok, tasks' = tasks \ {t}
    PROVE  /\ completions' \in Seq(Ending)
           /\ disk' \in [files : SUBSET Keys, staged : SUBSET JobIds]
           /\ Owned(disk'.staged, tasks', completions')
<1>1. /\ t \in Task /\ completions \in Seq(Ending)
      /\ disk \in [files : SUBSET Keys, staged : SUBSET JobIds]
      /\ Owned(disk.staged, tasks, completions)
  BY SessionParts DEF MediaInv
<1>2. CASE t.generation >= mediaLink.since
  <2> DEFINE c == [id |-> t.id, generation |-> t.generation, ok |-> ok]
  <2>1. completions' = Append(completions, c) /\ UNCHANGED disk
    BY <1>2 DEF Sends
  <2>2. c \in Ending /\ c.id = t.id /\ c.ok = ok
    BY <1>1 DEF Ending, Task
  <2> HIDE DEF c
  <2>3. /\ completions' \in Seq(Ending)
        /\ \A i \in DOMAIN completions :
              i \in DOMAIN completions' /\ completions'[i] = completions[i]
        /\ Len(completions') \in DOMAIN completions' /\ completions'[Len(completions')] = c
    BY <1>1, <2>1, <2>2
  <2>4. Owned(disk'.staged, tasks', completions')
    BY <2>1, <2>3, <2>2, <1>1 DEF Owned
  <2> QED BY <1>1, <2>1, <2>3, <2>4
<1>3. CASE ~(t.generation >= mediaLink.since)
  BY <1>3, <1>1 DEF Sends, Owned
<1> QED BY <1>2, <1>3

\* A file that its task or thread removes, or that is staged by neither.
LEMMA RemovalOwns ==
    ASSUME MediaInv, NEW t \in tasks, UNCHANGED completions,
           \A u \in tasks : u # t => u \in tasks',
           \/ disk' = [disk EXCEPT !.staged = @ \ {t.id}]
           \/ t.at \notin {"write", "written"} /\ UNCHANGED disk
    PROVE  /\ completions' \in Seq(Ending)
           /\ disk' \in [files : SUBSET Keys, staged : SUBSET JobIds]
           /\ Owned(disk'.staged, tasks', completions')
  BY DEF MediaInv, Owned

\* The thread of t has a file, and keeps it as long as it goes on well.
LEMMA WritingOwns ==
    ASSUME MediaInv, NEW t \in tasks, NEW at \in {"write", "written"}, Goes(t, at),
           UNCHANGED completions,
           \/ UNCHANGED disk
           \/ disk' = [disk EXCEPT !.staged = @ \cup {t.id}]
    PROVE  /\ completions' \in Seq(Ending)
           /\ disk' \in [files : SUBSET Keys, staged : SUBSET JobIds]
           /\ Owned(disk'.staged, tasks', completions')
<1> DEFINE new == [t EXCEPT !.at = at]
<1>1. /\ t \in Task /\ completions \in Seq(Ending)
      /\ disk \in [files : SUBSET Keys, staged : SUBSET JobIds]
      /\ Owned(disk.staged, tasks, completions)
  BY SessionParts DEF MediaInv
<1>2. new.id = t.id /\ new.at = at /\ tasks' = (tasks \ {t}) \cup {new}
  BY <1>1 DEF Goes, Task
<1> HIDE DEF new
<1>3. disk' \in [files : SUBSET Keys, staged : SUBSET JobIds] /\ disk'.staged \subseteq disk.staged \cup {t.id}
  BY <1>1 DEF Task
<1>4. Owned(disk'.staged, tasks', completions')
  BY <1>2, <1>1, <1>3 DEF Owned
<1> QED BY <1>1, <1>3, <1>4

LEMMA TaskKeeps ==
    ASSUME MediaInv, NEW t \in tasks, Unwind(t) \/ ReadFails(t) \/ Stage(t) \/ WriteEnds(t) \/ Report(t)
    PROVE  MediaInv'
  BY TaskGone, RemovalOwns, SendsOwns, TaskGoesOn, WritingOwns DEF Unwind, Busy, MediaInv,
     Owned, ReadFails, Stage, WriteEnds, Goes, Report

-----------------------------------------------------------------------------
(* The theorem                                                             *)

LEMMA InitHolds ==
    ASSUME MediaInit
    PROVE  MediaInv
<1>1. media = [slots |-> MaxTransfers, generation |-> 0, sequence |-> 0,
               jobs |-> {}, waiting |-> {}, failed |-> {}]
  BY DEF MediaInit
<1>2. mediaLink = [up |-> FALSE, wanted |-> {}, handles |-> 0, watched |-> {}, since |-> 0]
  BY DEF MediaInit, NoLink
<1>3. tasks = {} /\ completions = << >> /\ disk = [files |-> {}, staged |-> {}]
  BY DEF MediaInit
<1>4. 0 \in 0 .. MaxJobs /\ MaxTransfers \in Nat
  BY MediaAssumption
<1>5. media \in Downloading
  BY <1>1, <1>4 DEF Downloading
<1>6. mediaLink \in Watching
  BY <1>2 DEF Watching
<1>7. Session \in [media : Downloading, link : Watching, tasks : SUBSET Task]
  BY <1>3, <1>5, <1>6 DEF Session
<1>8. Session.media = media /\ Session.link = mediaLink /\ Session.tasks = {}
  BY <1>3 DEF Session
<1>9. Numbered(Session) /\ Leads(Session) /\ Once(Session)
  BY <1>1, <1>2, <1>8 DEF Numbered, Leads, Once
<1>10. Counted(Session)
  BY <1>1, <1>8, FS_EmptySet, <1>4 DEF Occupying, WaitingIds, Running, Counted
<1>11. completions \in Seq(Ending) /\ disk \in [files : SUBSET Keys, staged : SUBSET JobIds]
  BY <1>3
<1>12. Owned(disk.staged, tasks, completions)
  BY <1>3 DEF Owned
<1> QED BY <1>7, <1>9, <1>10, <1>11, <1>12 DEF MediaInv, Sound

LEMMA StepHolds ==
    ASSUME MediaInv, [MediaNext]_mediaVars
    PROVE  MediaInv'
<1>1. CASE BookEvents
  BY <1>1, BookEventsKeeps
<1>2. CASE Download
  BY <1>2, DownloadKeeps
<1>3. CASE DownloadFailed
  BY <1>3, DownloadFailedKeeps
<1>4. CASE Completion
  BY <1>4, CompletionKeeps
<1>5. CASE Tick
  BY <1>5, TickKeeps
<1>6. CASE ConnectionLost
  BY <1>6, ConnectionLostKeeps
<1>7. CASE SessionEnds
  BY <1>7, SessionEndsKeeps
<1>8. CASE \E t \in tasks : Unwind(t) \/ ReadFails(t) \/ Stage(t) \/ WriteEnds(t) \/ Report(t)
  BY <1>8, TaskKeeps
<1>9. CASE UNCHANGED mediaVars
  BY <1>9 DEF mediaVars, MediaInv, Session, Sound, Numbered, Leads, Once, Counted, Occupying,
              WaitingIds, Running, Owned
<1> QED BY <1>1, <1>2, <1>3, <1>4, <1>5, <1>6, <1>7, <1>8, <1>9 DEF MediaNext

\* As many as they have numbers.
LEMMA CountedById ==
    ASSUME NEW S, NEW ids, ids = {x.id : x \in S}, IsFiniteSet(ids),
           \A a, b \in S : a.id = b.id => a = b
    PROVE  IsFiniteSet(S) /\ Cardinality(S) = Cardinality(ids)
<1> DEFINE f == [id \in ids |-> CHOOSE x \in S : x.id = id]
<1>1. \A id \in ids : f[id] \in S /\ f[id].id = id
  OBVIOUS
<1>2. f \in [ids -> S]
  BY <1>1
<1>3. \A a, b \in ids : f[a] = f[b] => a = b
  BY <1>1
<1>4. \A x \in S : \E id \in ids : f[id] = x
  BY <1>1
<1> HIDE DEF f
<1>5. f \in Bijection(ids, S)
  BY <1>2, <1>3, <1>4, Fun_IsBij
<1>6. ExistsBijection(ids, S)
  BY <1>5 DEF ExistsBijection
<1> QED BY <1>6, FS_Bijection

LEMMA InvIsEnough ==
    ASSUME MediaInv
    PROVE  MediaTypeOK /\ TransfersAreOwned /\ WaitingLeads
<1> DEFINE busy == {t \in tasks : t.at \in {"read", "write"}}
<1>1. /\ Sound(Session) /\ Session.media = media /\ Session.link = mediaLink
      /\ Session.tasks = tasks
      /\ media \in Downloading /\ mediaLink \in Watching /\ tasks \in SUBSET Task
      /\ disk.files \in SUBSET Keys /\ disk.staged \in SUBSET JobIds
      /\ Owned(disk.staged, tasks, completions)
  BY SessionParts
<1>2. media.slots \in Nat /\ media.failed \in SUBSET Keys
      /\ media.jobs \in SUBSET [id : JobIds, key : Keys]
  BY <1>1 DEF Downloading
<1>3. /\ \A a, b \in media.waiting : a.id = b.id => a = b
      /\ \A a, b \in tasks : a.id = b.id => a = b
      /\ \A w \in media.waiting : \A t \in tasks : t.id # w.id
      /\ \A a, b \in media.jobs : a.key = b.key => a = b
      /\ media.slots + Cardinality(Occupying(Session)) = MaxTransfers
  BY <1>1 DEF Sound, Numbered, Leads, Once, Counted
<1>4. IsFiniteSet(Occupying(Session)) /\ Cardinality(Occupying(Session)) \in Nat
  BY <1>1, HoldingIsFinite
<1>5. Occupying(Session) = WaitingIds(media) \cup Running(tasks)
  BY <1>1 DEF Occupying
<1>6. SlotsAreCounted
  <2>1. IsFiniteSet(WaitingIds(media)) /\ IsFiniteSet(Running(tasks))
    BY <1>4, <1>5, FS_Subset
  <2>2. Cardinality(media.waiting) = Cardinality(WaitingIds(media))
    BY <1>3, <2>1, CountedById DEF WaitingIds
  <2>3. Cardinality(busy) = Cardinality(Running(tasks))
    BY <1>3, <2>1, CountedById DEF Running, Busy
  <2>4. WaitingIds(media) \cap Running(tasks) = {}
    BY <1>3 DEF WaitingIds, Running
  <2>5. Cardinality(Occupying(Session))
           = Cardinality(WaitingIds(media)) + Cardinality(Running(tasks))
             - Cardinality(WaitingIds(media) \cap Running(tasks))
    BY <1>5, <2>1, FS_Union
  <2>6. Cardinality(WaitingIds(media) \cap Running(tasks)) = 0
    BY <2>4, FS_EmptySet
  <2>7. Cardinality(WaitingIds(media)) \in Nat /\ Cardinality(Running(tasks)) \in Nat
    BY <2>1, FS_CardinalityType
  <2>8. media.slots + Cardinality(media.waiting) + Cardinality(busy) = MaxTransfers
    BY <1>2, <1>3, <2>2, <2>3, <2>5, <2>6, <2>7
  <2> QED BY <2>8 DEF SlotsAreCounted
<1>7. MediaTypeOK
  BY <1>2, <1>3, <1>4, MediaAssumption, <1>1 DEF MediaTypeOK, Task, JobIds
<1>8. TransfersAreOwned
  BY <1>1, <1>3, <1>6 DEF TransfersAreOwned, StagedAreOwned, Owned
<1>9. WaitingLeads
  BY <1>1 DEF WaitingLeads, Sound, Leads
<1> QED BY <1>7, <1>8, <1>9

LEMMA MediaInvariant == MediaSpec => []MediaInv
<1>1. MediaInit => MediaInv
  BY InitHolds
<1>2. MediaInv /\ [MediaNext]_mediaVars => MediaInv'
  BY StepHolds
<1> QED BY <1>1, <1>2, PTL DEF MediaSpec

\* MAX_MEDIA_TRANSFERS are never exceeded and no slot is lost, whatever fails, is given up
\* or ends late; nothing is loaded twice at a time, and no staged file is left behind.
THEOREM SlotsAndFilesAreOwned == MediaSpec => []TransfersAreOwned
<1>1. MediaInv => TransfersAreOwned
  BY InvIsEnough
<1> QED BY <1>1, MediaInvariant, PTL

\* What Downloads::download and complete unwrap is there, and every field has its type.
THEOREM HandlesLeadToJobs == MediaSpec => [](MediaTypeOK /\ WaitingLeads)
<1>1. MediaInv => MediaTypeOK /\ WaitingLeads
  BY InvIsEnough
<1> QED BY <1>1, MediaInvariant, PTL

-----------------------------------------------------------------------------
(* Unread: the invariant is what the commands on their way will do.        *)

Screens == [conversation : Conversations, token : Nat]
Commands == [what : {"active", "inactive", "show", "hide"}, screen : Screens \cup {NoScreen}]
Places == [server : BOOLEAN, channel : Rooms \cup {Nothing}]

UnreadTypeOK ==
    /\ unread \in [server : BOOLEAN, channel : Rooms \cup {Nothing},
                   visible : Screens \cup {NoScreen}, active : BOOLEAN,
                   counts : [Conversations -> Nat]]
    /\ online \in Places
    /\ screens \in [known : Places, open : SUBSET Screens, active : BOOLEAN, next : Nat]
    /\ sent \in Seq(Commands)
    /\ unseen \in [Peers -> Nat]

\* The app is active for the core u from command j of q on, or already (0), up to command n.
Awake(u, q, j, n) ==
    /\ IF j = 0 THEN u.active ELSE q[j].what = "active"
    /\ \A i \in 1 .. n : i > j => q[i].what # "inactive"

\* In the same way screen s is what the core takes for visible.
InView(u, q, k, n, s) ==
    /\ IF k = 0 THEN u.visible = s ELSE q[k] = [what |-> "show", screen |-> s]
    /\ \A i \in 1 .. n : i > k => q[i].what # "show" /\ q[i] # [what |-> "hide", screen |-> s]

\* Command n brings a screen of the conversation to the front, and its count to zero.
WillClear(u, q, p) ==
    \E n \in 1 .. Len(q) : \E j, k \in 0 .. n : \E s \in Screens :
        /\ n \in {j, k} /\ s.conversation = p
        /\ Awake(u, q, j, n) /\ InView(u, q, k, n, s)

OneChat ==
    /\ \A a, b \in screens.open : a.conversation = b.conversation /\ (a.token = b.token => a = b)
    /\ \A a \in screens.open : a.token < screens.next

ActiveIsTold == screens.active => \E j \in 0 .. Len(sent) : Awake(unread, sent, j, Len(sent))

\* The newest of the open screens is, or will be, what the core takes for visible.
Newest(n) == n \in screens.open /\ \A s \in screens.open : s.token <= n.token
ScreenIsTold ==
    \/ screens.open = {}
    \/ \E n \in screens.open :
        /\ Newest(n)
        /\ unread.server /\ n.conversation \in Peers =>
              \E k \in 0 .. Len(sent) : InView(unread, sent, k, Len(sent), n)

\* A count that is too high will be cleared by a command that is on its way.
Owed ==
    /\ ~unread.server => \A p \in Peers : unread.counts[p] = 0
    /\ \A p \in Peers : unread.counts[p] <= unseen[p]
                        \/ (unread.server /\ WillClear(unread, sent, p))

UnreadInv == UnreadTypeOK /\ OneChat /\ ActiveIsTold /\ ScreenIsTold /\ Owed

-----------------------------------------------------------------------------
(* The first command is taken                                              *)

LEMMA UnreadParts ==
    ASSUME UnreadTypeOK
    PROVE  /\ unread.server \in BOOLEAN /\ unread.channel \in Rooms \cup {Nothing}
           /\ unread.visible \in Screens \cup {NoScreen} /\ unread.active \in BOOLEAN
           /\ unread.counts \in [Conversations -> Nat] /\ Peers \subseteq Conversations
           /\ \A p \in Peers : unread.counts[p] \in Nat /\ unseen[p] \in Nat
           /\ screens.open \in SUBSET Screens /\ screens.next \in Nat
           /\ screens.active \in BOOLEAN /\ screens.known \in Places
           /\ sent \in Seq(Commands) /\ Len(sent) \in Nat
  BY DEF UnreadTypeOK, Conversations

LEMMA ClearedIs ==
    ASSUME NEW u, u \in [server : BOOLEAN, channel : Rooms \cup {Nothing},
                         visible : Screens \cup {NoScreen}, active : BOOLEAN,
                         counts : [Conversations -> Nat]]
    PROVE  LET r == Cleared(u) IN
           /\ r \in [server : BOOLEAN, channel : Rooms \cup {Nothing},
                     visible : Screens \cup {NoScreen}, active : BOOLEAN,
                     counts : [Conversations -> Nat]]
           /\ r.server = u.server /\ r.visible = u.visible /\ r.active = u.active
           /\ \A c \in Conversations : r.counts[c] <= u.counts[c]
           /\ u.active /\ u.visible \in Screens => r.counts[u.visible.conversation] = 0
<1> DEFINE r == Cleared(u)
<1>1. \A s \in Screens : s # NoScreen /\ s.conversation \in Conversations
  BY UnreadAssumption DEF Screens, NoScreen, Conversations
<1>2. CASE u.active /\ u.visible # NoScreen
  <2>1. u.visible \in Screens
    BY <1>2
  <2> DEFINE c == u.visible.conversation
             counts == [u.counts EXCEPT ![c] = 0]
  <2>2. c \in Conversations
    BY <1>1, <2>1
  <2>3. r = [u EXCEPT !.counts = counts]
    BY <1>2 DEF Cleared
  <2>4. /\ counts \in [Conversations -> Nat] /\ counts[c] = 0
        /\ \A d \in Conversations : counts[d] <= u.counts[d]
    BY <2>2
  <2> HIDE DEF counts
  <2> QED BY <2>3, <2>4
<1>3. CASE ~(u.active /\ u.visible # NoScreen)
  BY <1>3, <1>1 DEF Cleared
<1> QED BY <1>2, <1>3

\* What each of the commands does.
LEMMA TakenIs ==
    ASSUME UnreadTypeOK, TakeCommand
    PROVE  LET c == sent[1] IN
           /\ sent # << >> /\ Len(sent) \in Nat \ {0} /\ c \in Commands
           /\ sent' \in Seq(Commands) /\ Len(sent') = Len(sent) - 1
           /\ \A i \in 1 .. Len(sent') : sent'[i] = sent[i + 1]
           /\ unread' \in [server : BOOLEAN, channel : Rooms \cup {Nothing},
                           visible : Screens \cup {NoScreen}, active : BOOLEAN,
                           counts : [Conversations -> Nat]]
           /\ unread'.server = unread.server
           /\ \A d \in Conversations : unread'.counts[d] <= unread.counts[d]
           /\ c.what = "active" => unread'.active
           /\ unread.active /\ c.what # "inactive" => unread'.active
           /\ unread.server /\ c.what = "show" /\ c.screen.conversation \in Peers =>
                 unread'.visible = c.screen
           /\ c.what # "show" /\ c # [what |-> "hide", screen |-> unread.visible] =>
                 unread'.visible = unread.visible
           /\ unread'.active /\ unread'.visible \in Screens
              /\ (c.what = "active" \/ (unread.server /\ c.what = "show"
                                         /\ c.screen.conversation \in Peers)) =>
                 unread'.counts[unread'.visible.conversation] = 0
<1> DEFINE U == [server : BOOLEAN, channel : Rooms \cup {Nothing},
                 visible : Screens \cup {NoScreen}, active : BOOLEAN,
                 counts : [Conversations -> Nat]]
           c == sent[1]
<1>1. unread \in U /\ sent \in Seq(Commands)
  BY DEF UnreadTypeOK
<1>2. sent # << >> /\ sent' = Tail(sent) /\ unread' = Taken(c)
  BY <1>1 DEF TakeCommand
<1>3. /\ Len(sent) \in Nat \ {0} /\ c \in Commands
      /\ sent' \in Seq(Commands) /\ Len(sent') = Len(sent) - 1
      /\ \A i \in 1 .. Len(sent') : sent'[i] = sent[i + 1]
  BY <1>1, <1>2
<1> HIDE DEF c
<1>4. c.what \in {"active", "inactive", "show", "hide"} /\ c.screen \in Screens \cup {NoScreen}
  BY <1>3 DEF Commands
<1>5. NoScreen.conversation \notin Peers
  BY UnreadAssumption DEF NoScreen
<1> DEFINE Lesser ==
              /\ unread' \in U
              /\ unread'.server = unread.server
              /\ \A d \in Conversations : unread'.counts[d] <= unread.counts[d]
           Front ==
              /\ c.what = "active" => unread'.active
              /\ unread.active /\ c.what # "inactive" => unread'.active
              /\ unread.server /\ c.what = "show" /\ c.screen.conversation \in Peers =>
                    unread'.visible = c.screen
              /\ c.what # "show" /\ c # [what |-> "hide", screen |-> unread.visible] =>
                    unread'.visible = unread.visible
           CountCleared ==
              unread'.active /\ unread'.visible \in Screens
              /\ (c.what = "active" \/ (unread.server /\ c.what = "show"
                                         /\ c.screen.conversation \in Peers)) =>
                 unread'.counts[unread'.visible.conversation] = 0
<1>6. \A d \in Conversations : unread.counts[d] <= unread.counts[d]
  BY <1>1
<1>7. ASSUME c.what = "active"
      PROVE  Lesser /\ Front /\ CountCleared
  <2> DEFINE u == [unread EXCEPT !.active = TRUE]
  <2>1. u \in U /\ u.server = unread.server /\ u.visible = unread.visible
        /\ u.active /\ u.counts = unread.counts
    BY <1>1
  <2>2. unread' = Cleared(u)
    BY <1>2, <1>7 DEF Taken
  <2> HIDE DEF u
  <2>3. /\ unread' \in U
        /\ unread'.server = u.server /\ unread'.visible = u.visible
        /\ unread'.active = u.active
        /\ \A d \in Conversations : unread'.counts[d] <= u.counts[d]
        /\ u.active /\ u.visible \in Screens => unread'.counts[u.visible.conversation] = 0
    BY <2>1, <2>2, ClearedIs
  <2> HIDE DEF U
  <2>4. Lesser
    BY <2>1, <2>3
  <2>5. Front
    BY <1>7, <2>1, <2>3
  <2>6. CountCleared
    BY <2>1, <2>3
  <2> QED BY <2>4, <2>5, <2>6
<1>8. ASSUME c.what = "inactive"
      PROVE  Lesser /\ Front /\ CountCleared
  BY <1>2, <1>8, <1>1, <1>6 DEF Taken
<1>9. ASSUME c.what = "show", unread.server, c.screen.conversation \in Peers \cup {unread.channel}
      PROVE  Lesser /\ Front /\ CountCleared
  <2> DEFINE u == [unread EXCEPT !.visible = c.screen]
  <2>1. u \in U /\ u.server = unread.server /\ u.visible = c.screen
        /\ u.active = unread.active /\ u.counts = unread.counts
    BY <1>1, <1>4
  <2>2. unread' = Cleared(u)
    BY <1>2, <1>9 DEF Taken
  <2> HIDE DEF u
  <2>3. /\ unread' \in U
        /\ unread'.server = u.server /\ unread'.visible = u.visible
        /\ unread'.active = u.active
        /\ \A d \in Conversations : unread'.counts[d] <= u.counts[d]
        /\ u.active /\ u.visible \in Screens => unread'.counts[u.visible.conversation] = 0
    BY <2>1, <2>2, ClearedIs
  <2> HIDE DEF U
  <2>4. Lesser
    BY <2>1, <2>3
  <2>5. Front
    BY <1>9, <2>1, <2>3
  <2>6. CountCleared
    BY <2>1, <2>3
  <2> QED BY <2>4, <2>5, <2>6
<1>10. ASSUME c.what = "hide", unread.server, OfVisible(c.screen)
       PROVE  Lesser /\ Front /\ CountCleared
  BY <1>2, <1>10, <1>1, <1>3, <1>6 DEF Taken, OfVisible, Commands
<1>11. ASSUME \/ c.what = "show" /\ ~(unread.server /\ c.screen.conversation \in Peers \cup {unread.channel})
              \/ c.what = "hide" /\ ~(unread.server /\ OfVisible(c.screen))
       PROVE  Lesser /\ Front /\ CountCleared
  BY <1>2, <1>11, <1>1, <1>6 DEF Taken
<1>12. Lesser /\ Front /\ CountCleared
  BY <1>4, <1>7, <1>8, <1>9, <1>10, <1>11
<1> QED BY <1>2, <1>3, <1>12 DEF c

\* Taken facts, without the count of the conversations.
LEMMA TakenOnes ==
    ASSUME UnreadTypeOK, TakeCommand
    PROVE  /\ \A n \in 1 .. Len(sent), j \in 0 .. Len(sent) :
                 j <= n /\ Awake(unread, sent, j, n) =>
                    Awake(unread', sent', IF j = 0 THEN 0 ELSE j - 1, n - 1)
           /\ \A n \in 1 .. Len(sent), k \in 0 .. Len(sent), s \in Screens :
                 k <= n /\ InView(unread, sent, k, n, s) /\ unread.server
                    /\ s.conversation \in Peers =>
                    InView(unread', sent', IF k = 0 THEN 0 ELSE k - 1, n - 1, s)
<1> DEFINE c == sent[1]
<1>1. /\ Len(sent) \in Nat \ {0} /\ Len(sent') = Len(sent) - 1
      /\ \A i \in 1 .. Len(sent') : sent'[i] = sent[i + 1]
  BY TakenIs
<1>2. /\ c.what = "active" => unread'.active
      /\ unread.active /\ c.what # "inactive" => unread'.active
      /\ unread.server /\ c.what = "show" /\ c.screen.conversation \in Peers =>
            unread'.visible = c.screen
      /\ c.what # "show" /\ c # [what |-> "hide", screen |-> unread.visible] =>
            unread'.visible = unread.visible
  BY TakenIs
<1>3. ASSUME NEW n \in 1 .. Len(sent), NEW j \in 0 .. Len(sent), j <= n,
             Awake(unread, sent, j, n)
      PROVE  Awake(unread', sent', IF j = 0 THEN 0 ELSE j - 1, n - 1)
  <2>1. \A i \in 1 .. (n - 1) : i + 1 \in 1 .. n /\ sent'[i] = sent[i + 1]
    BY <1>1
  <2>2. CASE j = 0
    <3>1. unread'.active
      BY <1>1, <1>2, <1>3, <2>2 DEF Awake
    <3>2. \A i \in 1 .. (n - 1) : sent'[i].what # "inactive"
      BY <1>3, <2>1, <2>2 DEF Awake
    <3> QED BY <2>2, <3>1, <3>2 DEF Awake
  <2>3. CASE j = 1
    BY <1>2, <1>3, <2>3, <2>1 DEF Awake
  <2>4. CASE j > 1
    <3>1. j - 1 \in 1 .. (n - 1) /\ sent'[j - 1] = sent[j]
      BY <1>3, <2>1, <2>4
    <3>2. \A i \in 1 .. (n - 1) : i > j - 1 => sent'[i].what # "inactive"
      BY <1>3, <2>1, <2>4 DEF Awake
    <3> QED BY <1>3, <2>4, <3>1, <3>2 DEF Awake
  <2> QED BY <2>2, <2>3, <2>4
<1>4. ASSUME NEW n \in 1 .. Len(sent), NEW k \in 0 .. Len(sent), NEW s \in Screens, k <= n,
             InView(unread, sent, k, n, s), unread.server, s.conversation \in Peers
      PROVE  InView(unread', sent', IF k = 0 THEN 0 ELSE k - 1, n - 1, s)
  <2> DEFINE h == [what |-> "hide", screen |-> s]
             v == [what |-> "show", screen |-> s]
  <2>0. v.what = "show" /\ v.screen = s
    OBVIOUS
  <2> HIDE DEF h, v
  <2>1. \A i \in 1 .. (n - 1) : i + 1 \in 1 .. n /\ sent'[i] = sent[i + 1]
    BY <1>1
  <2>5. /\ IF k = 0 THEN unread.visible = s ELSE sent[k] = v
        /\ \A i \in 1 .. n : i > k => sent[i].what # "show" /\ sent[i] # h
    BY <1>4 DEF InView, h, v
  <2>6. ASSUME NEW l \in Nat, IF l = 0 THEN unread'.visible = s ELSE sent'[l] = v,
               \A i \in 1 .. (n - 1) : i > l => sent'[i].what # "show" /\ sent'[i] # h
        PROVE  InView(unread', sent', l, n - 1, s)
    BY <2>6 DEF InView, h, v
  <2>2. CASE k = 0
    BY <2>2, <2>5, <1>1, <1>2, <2>1, <2>6 DEF h
  <2>3. CASE k = 1
    BY <2>3, <2>5, <1>2, <1>4, <2>0, <2>1, <2>6
  <2>4. CASE k > 1
    BY <1>4, <2>1, <2>4, <2>5, <2>6
  <2> QED BY <2>2, <2>3, <2>4
<1>5. \A n \in 1 .. Len(sent), j \in 0 .. Len(sent) :
         j <= n /\ Awake(unread, sent, j, n) =>
            Awake(unread', sent', IF j = 0 THEN 0 ELSE j - 1, n - 1)
  BY <1>3
<1>6. \A n \in 1 .. Len(sent), k \in 0 .. Len(sent), s \in Screens :
         k <= n /\ InView(unread, sent, k, n, s) /\ unread.server
            /\ s.conversation \in Peers =>
            InView(unread', sent', IF k = 0 THEN 0 ELSE k - 1, n - 1, s)
  BY <1>4
<1> QED BY <1>5, <1>6

\* An owed count is cleared now, or still will be.
LEMMA OwedIsPaid ==
    ASSUME UnreadTypeOK, TakeCommand, NEW p \in Peers, unread.server,
           WillClear(unread, sent, p)
    PROVE  unread'.counts[p] = 0 \/ WillClear(unread', sent', p)
<1> PICK n \in 1 .. Len(sent) : \E j, k \in 0 .. n : \E s \in Screens :
        /\ n \in {j, k} /\ s.conversation = p
        /\ Awake(unread, sent, j, n) /\ InView(unread, sent, k, n, s)
  BY DEF WillClear
<1> PICK j \in 0 .. n, k \in 0 .. n, s \in Screens :
        /\ n \in {j, k} /\ s.conversation = p
        /\ Awake(unread, sent, j, n) /\ InView(unread, sent, k, n, s)
  OBVIOUS
<1> DEFINE a == IF j = 0 THEN 0 ELSE j - 1
           b == IF k = 0 THEN 0 ELSE k - 1
<1>1. /\ Len(sent) \in Nat \ {0} /\ Len(sent') = Len(sent) - 1
  BY TakenIs
<1>2. j \in 0 .. Len(sent) /\ k \in 0 .. Len(sent) /\ j <= n /\ k <= n
  BY <1>1
<1>3. Awake(unread', sent', a, n - 1)
  BY <1>2, TakenOnes
<1>4. InView(unread', sent', b, n - 1, s)
  BY <1>2, TakenOnes
<1> HIDE DEF a, b
<1>5. CASE n = 1
  BY <1>5, <1>3, <1>4, TakenIs DEF a, b, Awake, InView
<1>6. CASE n > 1
  BY <1>1, <1>6, <1>3, <1>4 DEF a, b, WillClear
<1> QED BY <1>5, <1>6

-----------------------------------------------------------------------------
(* Commands that are sent after those on their way                         *)

\* What the first commands do stays what it is, for a core that shows the same chat.
LEMMA Later ==
    ASSUME NEW u, NEW v, NEW q \in Seq(Commands), NEW r \in Seq(Commands),
           Len(q) <= Len(r), \A i \in 1 .. Len(q) : r[i] = q[i],
           v.active = u.active,
           \A s \in Screens : u.visible = s /\ s.conversation \in Peers => v.visible = s
    PROVE  /\ \A n, j \in 0 .. Len(q) : j <= n /\ Awake(u, q, j, n) => Awake(v, r, j, n)
           /\ \A n, k \in 0 .. Len(q) : \A s \in Screens :
                 k <= n /\ s.conversation \in Peers /\ InView(u, q, k, n, s) =>
                    InView(v, r, k, n, s)
           /\ \A p \in Peers : WillClear(u, q, p) => WillClear(v, r, p)
<1>0. Len(q) \in Nat /\ Len(r) \in Nat
  OBVIOUS
<1>1. ASSUME NEW n \in 0 .. Len(q), NEW j \in 0 .. Len(q), j <= n, Awake(u, q, j, n)
      PROVE  Awake(v, r, j, n)
  <2>1. \A i \in 1 .. n : r[i] = q[i]
    BY <1>0
  <2>2. j # 0 => j \in 1 .. n
    BY <1>0, <1>1
  <2> QED BY <1>1, <2>1, <2>2 DEF Awake
<1>2. ASSUME NEW n \in 0 .. Len(q), NEW k \in 0 .. Len(q), NEW s \in Screens, k <= n,
             s.conversation \in Peers, InView(u, q, k, n, s)
      PROVE  InView(v, r, k, n, s)
  BY <1>0, <1>2 DEF InView
<1>3. ASSUME NEW p \in Peers, WillClear(u, q, p)
      PROVE  WillClear(v, r, p)
  BY <1>3, <1>0, <1>1, <1>2 DEF WillClear
<1>4. \A n, j \in 0 .. Len(q) : j <= n /\ Awake(u, q, j, n) => Awake(v, r, j, n)
  BY <1>1
<1>5. \A n, k \in 0 .. Len(q) : \A s \in Screens :
         k <= n /\ s.conversation \in Peers /\ InView(u, q, k, n, s) => InView(v, r, k, n, s)
  BY <1>2
<1>6. \A p \in Peers : WillClear(u, q, p) => WillClear(v, r, p)
  BY <1>3
<1> QED BY <1>4, <1>5, <1>6

\* A command that does not put the app to rest, or another screen in view, changes nothing.
LEMMA Further ==
    ASSUME NEW u, NEW q \in Seq(Commands), NEW x \in Commands
    PROVE  LET r == Append(q, x) IN
           /\ r \in Seq(Commands) /\ Len(r) = Len(q) + 1 /\ r[Len(r)] = x
           /\ \A i \in 1 .. Len(q) : r[i] = q[i]
           /\ \A j \in 0 .. Len(q) :
                 x.what # "inactive" /\ Awake(u, q, j, Len(q)) => Awake(u, r, j, Len(r))
           /\ \A k \in 0 .. Len(q), s \in Screens :
                 x.what # "show" /\ x # [what |-> "hide", screen |-> s]
                 /\ InView(u, q, k, Len(q), s) => InView(u, r, k, Len(r), s)
  BY DEF Awake, InView

\* A screen that is told to the core, of an app that is told to be active, is in front of the
\* user for the core too, or clears the count of its conversation on the way.
LEMMA FrontSoon ==
    ASSUME NEW u, NEW q \in Seq(Commands), NEW s \in Screens,
           NEW j \in 0 .. Len(q), NEW k \in 0 .. Len(q),
           Awake(u, q, j, Len(q)), InView(u, q, k, Len(q), s)
    PROVE  (j = 0 /\ k = 0 /\ u.active /\ u.visible = s) \/ WillClear(u, q, s.conversation)
<1>0. Len(q) \in Nat
  OBVIOUS
<1>1. CASE j = 0 /\ k = 0
  BY <1>1 DEF Awake, InView
<1>2. CASE ~(j = 0 /\ k = 0)
  <2> PICK m \in 1 .. Len(q) : j <= m /\ k <= m /\ m \in {j, k}
    BY <1>0, <1>2
  <2>1. \A i \in 1 .. m : i \in 1 .. Len(q)
    BY <1>0
  <2>2. Awake(u, q, j, m)
    BY <2>1 DEF Awake
  <2>3. InView(u, q, k, m, s)
    BY <2>1 DEF InView
  <2>4. j \in 0 .. m /\ k \in 0 .. m
    BY <1>0
  <2> QED BY <2>2, <2>3, <2>4 DEF WillClear
<1> QED BY <1>1, <1>2

-----------------------------------------------------------------------------
(* Every step keeps the invariant                                          *)

LEMMA TakeCommandKeeps ==
    ASSUME UnreadInv, TakeCommand
    PROVE  UnreadInv'
<1>0. UnreadTypeOK /\ OneChat /\ ActiveIsTold /\ ScreenIsTold /\ Owed
  BY DEF UnreadInv
<1>1. /\ UNCHANGED <<online, screens, unseen>>
      /\ Len(sent) \in Nat \ {0} /\ Len(sent') = Len(sent) - 1 /\ sent' \in Seq(Commands)
      /\ unread'.server = unread.server
      /\ \A d \in Conversations : unread'.counts[d] <= unread.counts[d]
  BY <1>0, TakenIs DEF TakeCommand
<1>2. UnreadTypeOK'
  BY <1>0, <1>1, TakenIs DEF UnreadTypeOK
<1>3. OneChat'
  BY <1>0, <1>1 DEF OneChat
<1>4. ActiveIsTold'
  BY <1>1, <1>0, TakenOnes DEF ActiveIsTold
<1>5. ScreenIsTold'
  BY <1>1, <1>0, UnreadParts, TakenOnes DEF ScreenIsTold, Newest
<1>6. Owed'
  BY <1>0, <1>1, <1>2, OwedIsPaid DEF UnreadTypeOK, Conversations, Owed
<1> QED BY <1>2, <1>3, <1>4, <1>5, <1>6 DEF UnreadInv

\* What sync and record make of the state.
LEMMA SyncIs ==
    ASSUME UnreadTypeOK, NEW channel \in Rooms
    PROVE  LET r == Sync(channel) IN
           /\ r \in [server : BOOLEAN, channel : Rooms \cup {Nothing},
                     visible : Screens \cup {NoScreen}, active : BOOLEAN,
                     counts : [Conversations -> Nat]]
           /\ r.server /\ r.active = unread.active
           /\ \A s \in Screens :
                 unread.visible = s /\ s.conversation \in Peers => r.visible = s
           /\ \A p \in Peers : r.counts[p] = unread.counts[p]
  BY UnreadAssumption DEF UnreadTypeOK, Conversations, Sync

LEMMA RecordIs ==
    ASSUME NEW u, NEW conversation \in Conversations,
           u \in [server : BOOLEAN, channel : Rooms \cup {Nothing},
                  visible : Screens \cup {NoScreen}, active : BOOLEAN,
                  counts : [Conversations -> Nat]]
    PROVE  LET r == Record(u, conversation) IN
           /\ r \in [server : BOOLEAN, channel : Rooms \cup {Nothing},
                     visible : Screens \cup {NoScreen}, active : BOOLEAN,
                     counts : [Conversations -> Nat]]
           /\ r.server = u.server /\ r.active = u.active /\ r.visible = u.visible
           /\ \A p \in Conversations \ {conversation} : r.counts[p] = u.counts[p]
           /\ r.counts[conversation] <= u.counts[conversation] + 1
           /\ u.active /\ u.visible.conversation = conversation =>
                 r.counts[conversation] = u.counts[conversation]
<1> DEFINE r == Record(u, conversation)
           counts == [u.counts EXCEPT ![conversation] = @ + 1]
<1>1. CASE ShouldNotify(u, conversation)
  <2>1. r = [u EXCEPT !.counts = counts]
    BY <1>1 DEF Record
  <2>2. /\ counts \in [Conversations -> Nat] /\ counts[conversation] = u.counts[conversation] + 1
        /\ \A p \in Conversations \ {conversation} : counts[p] = u.counts[p]
        /\ counts[conversation] \in Nat
    OBVIOUS
  <2>3. ~(u.active /\ u.visible.conversation = conversation)
    BY <1>1 DEF ShouldNotify
  <2> HIDE DEF counts
  <2>4. /\ r.server = u.server /\ r.active = u.active /\ r.visible = u.visible
        /\ r.counts = counts
    BY <2>1
  <2>5. r \in [server : BOOLEAN, channel : Rooms \cup {Nothing},
               visible : Screens \cup {NoScreen}, active : BOOLEAN,
               counts : [Conversations -> Nat]]
    BY <2>1, <2>2
  <2>6. r.counts[conversation] <= u.counts[conversation] + 1
    BY <2>2, <2>4
  <2> HIDE DEF r
  <2> QED BY <2>2, <2>3, <2>4, <2>5, <2>6 DEF r
<1>2. CASE ~ShouldNotify(u, conversation)
  BY <1>2 DEF Record, r
<1> QED BY <1>1, <1>2

LEMMA ServerEventsKeeps ==
    ASSUME UnreadInv, NEW channel \in Rooms, NEW conversation \in Conversations \cup {Nothing},
           ServerEvents(channel, conversation)
    PROVE  UnreadInv'
<1> DEFINE U == [server : BOOLEAN, channel : Rooms \cup {Nothing},
                 visible : Screens \cup {NoScreen}, active : BOOLEAN,
                 counts : [Conversations -> Nat]]
           m == Sync(channel)
           front == conversation \in Peers /\ Shown(conversation) /\ screens.active
           missed == conversation \in Peers /\ ~front
<1>0. UnreadTypeOK /\ OneChat /\ ActiveIsTold /\ ScreenIsTold /\ Owed
  BY DEF UnreadInv
<1>1. /\ UNCHANGED <<screens, sent>>
      /\ online' = [server |-> TRUE, channel |-> channel]
      /\ unread' = IF conversation = Nothing THEN m ELSE Record(m, conversation)
      /\ unseen' = IF missed THEN [unseen EXCEPT ![conversation] = @ + 1] ELSE unseen
      /\ ~unread.server => screens.open = {}
  BY DEF ServerEvents
<1>2. /\ m \in U /\ m.server /\ m.active = unread.active
      /\ \A s \in Screens : unread.visible = s /\ s.conversation \in Peers => m.visible = s
      /\ \A p \in Peers : m.counts[p] = unread.counts[p]
  BY <1>0, SyncIs
<1> HIDE DEF m
<1>3. /\ unread' \in U /\ unread'.server /\ unread'.active = unread.active
      /\ \A s \in Screens : unread.visible = s /\ s.conversation \in Peers => unread'.visible = s
      /\ \A p \in Peers \ {conversation} : unread'.counts[p] = unread.counts[p]
  <2>1. CASE conversation = Nothing
    BY <1>1, <1>2, <2>1
  <2>2. CASE conversation # Nothing
    <3>1. conversation \in Conversations /\ unread' = Record(m, conversation)
      BY <1>1, <2>2
    <3>2. /\ unread' \in U
          /\ unread'.server = m.server /\ unread'.active = m.active /\ unread'.visible = m.visible
          /\ \A p \in Conversations \ {conversation} : unread'.counts[p] = m.counts[p]
      <4>1. /\ Record(m, conversation) \in U
            /\ Record(m, conversation).server = m.server
            /\ Record(m, conversation).active = m.active
            /\ Record(m, conversation).visible = m.visible
            /\ \A p \in Conversations \ {conversation} :
                  Record(m, conversation).counts[p] = m.counts[p]
        <5>1. m \in U /\ conversation \in Conversations
          BY <1>2, <3>1
        <5> QED BY <5>1, RecordIs
      <4> HIDE DEF U
      <4> QED BY <3>1, <4>1
    <3> HIDE DEF U
    <3>3. \A p \in Peers \ {conversation} : unread'.counts[p] = unread.counts[p]
      BY <1>2, <3>2 DEF Conversations
    <3>4. unread'.server /\ unread'.active = unread.active
      BY <1>2, <3>2
    <3>5. \A s \in Screens :
             unread.visible = s /\ s.conversation \in Peers => unread'.visible = s
      BY <1>2, <3>2
    <3> QED BY <3>2, <3>3, <3>4, <3>5
  <2> QED BY <2>1, <2>2
<1>4. ASSUME conversation \in Peers
      PROVE  /\ unread'.counts[conversation] <= unread.counts[conversation] + 1
             /\ m.active /\ m.visible.conversation = conversation =>
                   unread'.counts[conversation] = unread.counts[conversation]
  BY <1>1, <1>4, UnreadAssumption, <1>2, RecordIs DEF Conversations
<1>5. /\ unseen' \in [Peers -> Nat]
      /\ \A p \in Peers : unseen'[p] = IF p = conversation /\ missed THEN unseen[p] + 1 ELSE unseen[p]
      /\ \A p \in Peers : unseen[p] \in Nat /\ unread.counts[p] \in Nat /\ unread'.counts[p] \in Nat
  <2>1. unseen \in [Peers -> Nat]
    BY <1>0 DEF UnreadTypeOK
  <2>2. \A p \in Peers : unread.counts[p] \in Nat /\ unread'.counts[p] \in Nat
    BY <1>0, <1>3 DEF UnreadTypeOK, Conversations
  <2>3. CASE missed
    BY <1>1, <2>1, <2>2, <2>3
  <2>4. CASE ~missed
    BY <1>1, <2>1, <2>2, <2>4
  <2> QED BY <2>3, <2>4
<1>6. UnreadTypeOK'
  BY <1>0, <1>1, <1>3, <1>5 DEF UnreadTypeOK, Places
<1>7. OneChat'
  BY <1>0, <1>1 DEF OneChat
<1>8. sent \in Seq(Commands) /\ Len(sent) \in Nat
  BY <1>0 DEF UnreadTypeOK
<1>9. /\ \A n, j \in 0 .. Len(sent) : j <= n /\ Awake(unread, sent, j, n) => Awake(unread', sent, j, n)
      /\ \A n, k \in 0 .. Len(sent) : \A s \in Screens :
            k <= n /\ s.conversation \in Peers /\ InView(unread, sent, k, n, s) =>
               InView(unread', sent, k, n, s)
      /\ \A p \in Peers : WillClear(unread, sent, p) => WillClear(unread', sent, p)
  BY <1>3, <1>8, Later
<1>10. ActiveIsTold'
  BY <1>0, <1>1, <1>8, <1>9 DEF ActiveIsTold
<1>11. ScreenIsTold'
  BY <1>1, <1>0, UnreadParts, <1>8, <1>9 DEF ScreenIsTold, Newest
<1>12. ASSUME NEW p \in Peers
       PROVE  unread'.counts[p] <= unseen'[p] \/ WillClear(unread', sent, p)
  <2>1. unread.counts[p] <= unseen[p] \/ WillClear(unread, sent, p)
    BY <1>0, <1>12 DEF Owed
  <2>2. CASE WillClear(unread, sent, p)
    BY <1>9, <2>2
  <2>3. CASE p # conversation /\ unread.counts[p] <= unseen[p]
    BY <1>3, <1>5, <2>3
  <2>4. CASE p = conversation /\ missed /\ unread.counts[p] <= unseen[p]
    BY <1>4, <1>5, <2>4
  <2>5. CASE p = conversation /\ front /\ unread.counts[p] <= unseen[p]
    <3> PICK s \in screens.open : s.conversation = p
      BY <2>5 DEF Shown
    <3> PICK n \in screens.open :
        /\ Newest(n)
        /\ unread.server /\ n.conversation \in Peers =>
              \E k \in 0 .. Len(sent) : InView(unread, sent, k, Len(sent), n)
      BY <1>0 DEF ScreenIsTold
    <3>1. n \in Screens /\ n.conversation = p /\ unread.server
      BY <1>0, <1>1, UnreadParts DEF OneChat
    <3> PICK k \in 0 .. Len(sent) : InView(unread, sent, k, Len(sent), n)
      BY <3>1
    <3> PICK j \in 0 .. Len(sent) : Awake(unread, sent, j, Len(sent))
      BY <1>0, <2>5 DEF ActiveIsTold
    <3>2. CASE WillClear(unread, sent, p)
      BY <1>9, <3>2
    <3>3. CASE unread.active /\ unread.visible = n
      BY <1>2, <3>1, <3>3, <1>4, <2>5, <1>5
    <3> QED BY <1>8, <3>1, <3>2, <3>3, FrontSoon
  <2> QED BY <2>1, <2>2, <2>3, <2>4, <2>5
<1>13. Owed'
  BY <1>1, <1>3, <1>12 DEF Owed
<1> QED BY <1>6, <1>7, <1>10, <1>11, <1>13 DEF UnreadInv

LEMMA OfflineKeeps ==
    ASSUME UnreadInv, NEW ends \in BOOLEAN, Offline(ends)
    PROVE  UnreadInv'
<1>0. UnreadTypeOK /\ OneChat /\ ActiveIsTold /\ ScreenIsTold /\ Owed
  BY DEF UnreadInv
<1>1. /\ UNCHANGED <<screens, sent>>
      /\ online' = [server |-> FALSE, channel |-> Nothing]
      /\ unread' = IF ends THEN NewUnread(unread.active) ELSE unread
      /\ unseen' = IF ends THEN [p \in Peers |-> 0] ELSE unseen
  BY DEF Offline
<1>2. OneChat'
  BY <1>0, <1>1 DEF OneChat
<1>3. CASE ends
  <2>1. /\ unread'.active = unread.active /\ ~unread'.server
        /\ unread'.counts = [c \in Conversations |-> 0]
        /\ unread' \in [server : BOOLEAN, channel : Rooms \cup {Nothing},
                        visible : Screens \cup {NoScreen}, active : BOOLEAN,
                        counts : [Conversations -> Nat]]
    BY <1>0, <1>1, <1>3 DEF NewUnread, UnreadTypeOK
  <2>2. UnreadTypeOK'
    BY <1>0, <1>1, <1>3, <2>1 DEF UnreadTypeOK, Places
  <2>3. ActiveIsTold'
    BY <1>0, <1>1, <2>1 DEF ActiveIsTold, Awake
  <2>4. ScreenIsTold'
    BY <1>0, <1>1, <2>1 DEF ScreenIsTold, Newest
  <2>5. \A p \in Peers : unread'.counts[p] = 0 /\ unseen'[p] = 0
    BY <1>1, <1>3, <2>1 DEF Conversations
  <2>6. Owed'
    BY <2>1, <2>5 DEF Owed
  <2> QED BY <1>2, <2>2, <2>3, <2>4, <2>6 DEF UnreadInv
<1>4. CASE ~ends
  BY <1>1, <1>4, <1>0, <1>2 DEF UnreadTypeOK, Places, ActiveIsTold, ScreenIsTold, Owed,
     Newest, UnreadInv
<1> QED BY <1>3, <1>4

LEMMA LookKeeps ==
    ASSUME UnreadInv, Look
    PROVE  UnreadInv'
  BY DEF UnreadInv, Look, UnreadTypeOK, OneChat, ActiveIsTold, Owed, ScreenIsTold, Newest

LEMMA OpenKeeps ==
    ASSUME UnreadInv, NEW conversation \in Conversations, Open(conversation)
    PROVE  UnreadInv'
<1> PICK screen : screen = [conversation |-> conversation, token |-> screens.next]
  OBVIOUS
<1> DEFINE x == [what |-> "show", screen |-> screen]
<1>0. UnreadTypeOK /\ OneChat /\ ActiveIsTold /\ ScreenIsTold /\ Owed
  BY DEF UnreadInv
<1>a. screens \in [known : Places, open : SUBSET Screens, active : BOOLEAN, next : Nat]
  BY <1>0 DEF UnreadTypeOK
<1>1. /\ UNCHANGED <<unread, online>>
      /\ screens' = [screens EXCEPT !.open = @ \cup {screen}, !.next = @ + 1]
      /\ sent' = Append(sent, x)
      /\ unseen' = SeenIn(screens'.open, screens.active)
      /\ screens.open = {} \/ Shown(conversation)
  BY DEF Open, SetChatVisible
<1>2. /\ screens'.open = screens.open \cup {screen} /\ screens'.active = screens.active
      /\ screens'.next = screens.next + 1 /\ screens'.known = screens.known
      /\ screens.next \in Nat
      /\ screen.conversation = conversation /\ screen.token = screens.next
  BY <1>a, <1>1
<1>3. screen \in Screens
  BY <1>2 DEF Screens
<1>4. x \in Commands /\ x.what = "show" /\ x.screen = screen
  BY <1>3 DEF Commands
<1>5. \A s \in screens.open : s \in Screens /\ s.conversation = conversation
                              /\ s.token < screens.next /\ s.token \in Nat
  BY <1>0, <1>a, <1>1 DEF OneChat, Screens, Shown
<1>b. screens' \in [known : Places, open : SUBSET Screens, active : BOOLEAN, next : Nat]
  <2>1. screens.open \cup {screen} \in SUBSET Screens /\ screens.next + 1 \in Nat
    BY <1>2, <1>3, <1>5
  <2> QED BY <1>a, <1>1, <2>1
<1> HIDE DEF x
<1>6. /\ sent \in Seq(Commands) /\ Len(sent) \in Nat
      /\ sent' \in Seq(Commands) /\ Len(sent') = Len(sent) + 1 /\ sent'[Len(sent')] = x
      /\ \A i \in 1 .. Len(sent) : sent'[i] = sent[i]
      /\ \A j \in 0 .. Len(sent) : Awake(unread, sent, j, Len(sent)) =>
                                    Awake(unread, sent', j, Len(sent'))
  <2> DEFINE r == Append(sent, x)
  <2>1. sent \in Seq(Commands) /\ Len(sent) \in Nat
    BY <1>0 DEF UnreadTypeOK
  <2>2. /\ r \in Seq(Commands) /\ Len(r) = Len(sent) + 1 /\ r[Len(r)] = x
        /\ \A i \in 1 .. Len(sent) : r[i] = sent[i]
        /\ \A j \in 0 .. Len(sent) : x.what # "inactive" /\ Awake(unread, sent, j, Len(sent)) =>
                                      Awake(unread, r, j, Len(r))
    BY <1>4, <2>1, Further
  <2>3. sent' = r /\ x.what # "inactive"
    BY <1>1, <1>4
  <2> HIDE DEF r
  <2> QED BY <2>1, <2>2, <2>3
<1>7. \A p \in Peers : WillClear(unread, sent, p) => WillClear(unread, sent', p)
  <2>1. /\ Len(sent) <= Len(sent') /\ unread.active = unread.active
        /\ \A s \in Screens :
              unread.visible = s /\ s.conversation \in Peers => unread.visible = s
    BY <1>6
  <2> QED BY <1>6, <2>1, Later
<1>8. /\ unseen' \in [Peers -> Nat]
      /\ \A p \in Peers : p # conversation \/ ~screens.active => unseen'[p] = unseen[p]
      /\ \A p \in Peers : unseen'[p] \in Nat /\ unseen[p] \in Nat /\ unread.counts[p] \in Nat
  BY <1>0, UnreadParts, <1>2, <1>5, <1>1 DEF UnreadTypeOK, SeenIn
<1>9. UnreadTypeOK'
  BY <1>0, <1>1, <1>6, <1>8, <1>b DEF UnreadTypeOK
<1>10. OneChat'
  BY <1>2, <1>5, <1>0 DEF OneChat
<1>11. ActiveIsTold'
  BY <1>1, <1>2, <1>0, <1>6 DEF ActiveIsTold
<1>12. InView(unread, sent', Len(sent'), Len(sent'), screen) /\ Len(sent') \in 0 .. Len(sent')
       /\ Len(sent') \in Nat /\ Len(sent') # 0
  BY <1>6 DEF InView, x
<1>13. ScreenIsTold'
  BY <1>2, <1>5, <1>1, <1>12 DEF Newest, ScreenIsTold
<1>14. ASSUME NEW p \in Peers, unread.server
       PROVE  unread.counts[p] <= unseen'[p] \/ WillClear(unread, sent', p)
  <2>1. CASE p = conversation /\ screens.active
    BY <1>0, <2>1, <1>6, <1>3, <1>12, FrontSoon, <1>2 DEF ActiveIsTold
  <2>2. CASE p # conversation \/ ~screens.active
    BY <1>0, <1>7, <1>8, <2>2 DEF Owed
  <2> QED BY <2>1, <2>2
<1>15. Owed'
  <2>1. \A p \in Peers : ~unread.server => unread.counts[p] = 0 /\ unread.counts[p] <= unseen'[p]
    BY <1>0, <1>8 DEF Owed
  <2> QED BY <1>1, <1>14, <2>1 DEF Owed
<1> QED BY <1>9, <1>10, <1>11, <1>13, <1>15 DEF UnreadInv

LEMMA SetAppActiveKeeps ==
    ASSUME UnreadInv, SetAppActive
    PROVE  UnreadInv'
<1> DEFINE x == [what |-> IF screens.active THEN "inactive" ELSE "active", screen |-> NoScreen]
<1>0. UnreadTypeOK /\ OneChat /\ ActiveIsTold /\ ScreenIsTold /\ Owed
  BY DEF UnreadInv
<1>a. screens \in [known : Places, open : SUBSET Screens, active : BOOLEAN, next : Nat]
  BY <1>0 DEF UnreadTypeOK
<1>1. /\ UNCHANGED <<unread, online>>
      /\ screens' = [screens EXCEPT !.active = ~@]
      /\ sent' = Append(sent, x)
      /\ unseen' = SeenIn(screens.open, ~screens.active)
  BY DEF SetAppActive
<1>2. /\ screens'.open = screens.open /\ screens'.next = screens.next
      /\ screens'.active = ~screens.active
      /\ screens' \in [known : Places, open : SUBSET Screens, active : BOOLEAN, next : Nat]
  BY <1>a, <1>1
<1>3. /\ x \in Commands /\ x.what # "show" /\ x.what = (IF screens.active THEN "inactive" ELSE "active")
      /\ \A s \in Screens : x # [what |-> "hide", screen |-> s]
  BY DEF Commands
<1> HIDE DEF x
<1>6. /\ sent \in Seq(Commands) /\ Len(sent) \in Nat
      /\ sent' \in Seq(Commands) /\ Len(sent') = Len(sent) + 1 /\ sent'[Len(sent')] = x
      /\ \A i \in 1 .. Len(sent) : sent'[i] = sent[i]
      /\ \A k \in 0 .. Len(sent), s \in Screens :
            InView(unread, sent, k, Len(sent), s) => InView(unread, sent', k, Len(sent'), s)
  <2> DEFINE r == Append(sent, x)
  <2>1. sent \in Seq(Commands) /\ Len(sent) \in Nat
    BY <1>0 DEF UnreadTypeOK
  <2>2. /\ r \in Seq(Commands) /\ Len(r) = Len(sent) + 1 /\ r[Len(r)] = x
        /\ \A i \in 1 .. Len(sent) : r[i] = sent[i]
        /\ \A k \in 0 .. Len(sent), s \in Screens :
              x.what # "show" /\ x # [what |-> "hide", screen |-> s]
              /\ InView(unread, sent, k, Len(sent), s) => InView(unread, r, k, Len(r), s)
    BY <1>3, <2>1, Further
  <2>3. sent' = r
    BY <1>1
  <2> HIDE DEF r
  <2> QED BY <1>3, <2>1, <2>2, <2>3
<1>7. \A p \in Peers : WillClear(unread, sent, p) => WillClear(unread, sent', p)
  BY <1>6, Later
<1>8. /\ unseen' \in [Peers -> Nat]
      /\ \A p \in Peers : screens.active \/ ~Shown(p) => unseen'[p] = unseen[p]
      /\ \A p \in Peers : unseen'[p] \in Nat /\ unseen[p] \in Nat /\ unread.counts[p] \in Nat
  BY <1>0, UnreadParts, <1>1 DEF UnreadTypeOK, SeenIn, Shown
<1>9. UnreadTypeOK'
  BY <1>0, <1>1, <1>2, <1>6, <1>8 DEF UnreadTypeOK
<1>10. OneChat'
  BY <1>0, <1>2 DEF OneChat
<1>11. ASSUME ~screens.active
       PROVE  Awake(unread, sent', Len(sent'), Len(sent')) /\ Len(sent') \in 0 .. Len(sent')
  BY <1>3, <1>6, <1>11 DEF Awake
<1>12. ActiveIsTold'
  BY <1>1, <1>2, <1>11 DEF ActiveIsTold
<1>13. ScreenIsTold'
  BY <1>2, <1>0, UnreadParts, <1>6, <1>1 DEF ScreenIsTold, Newest
<1>14. ASSUME NEW p \in Peers, unread.server
       PROVE  unread.counts[p] <= unseen'[p] \/ WillClear(unread, sent', p)
  <2>1. CASE ~screens.active /\ Shown(p)
    BY <2>1, <1>0, UnreadParts, <1>14, <1>6, <1>11, FrontSoon DEF Shown, ScreenIsTold,
       OneChat
  <2>2. CASE screens.active \/ ~Shown(p)
    BY <1>0, <1>7, <1>8, <2>2 DEF Owed
  <2> QED BY <2>1, <2>2
<1>15. Owed'
  BY <1>0, <1>8, <1>1, <1>14 DEF Owed
<1> QED BY <1>9, <1>10, <1>12, <1>13, <1>15 DEF UnreadInv

LEMMA DisposeKeeps ==
    ASSUME UnreadInv, NEW screen \in screens.open, Dispose(screen)
    PROVE  UnreadInv'
<1> DEFINE x == [what |-> "hide", screen |-> screen]
<1>0. UnreadTypeOK /\ OneChat /\ ActiveIsTold /\ ScreenIsTold /\ Owed
  BY DEF UnreadInv
<1>a. screens \in [known : Places, open : SUBSET Screens, active : BOOLEAN, next : Nat]
  BY <1>0 DEF UnreadTypeOK
<1>1. /\ UNCHANGED <<unread, online, unseen>>
      /\ screens' = [screens EXCEPT !.open = @ \ {screen}]
      /\ sent' = Append(sent, x) \/ sent' = sent
      /\ \A s \in screens.open : screen.token <= s.token
  BY DEF Dispose, SetChatVisible
<1>2. /\ screens'.open = screens.open \ {screen} /\ screens'.active = screens.active
      /\ screens'.next = screens.next
      /\ screens' \in [known : Places, open : SUBSET Screens, active : BOOLEAN, next : Nat]
  BY <1>a, <1>1
<1>3. screen \in Screens /\ \A s \in screens.open : s \in Screens /\ s.token \in Nat
  BY <1>a DEF Screens
<1>4. /\ x \in Commands /\ x.what # "show" /\ x.what # "inactive"
      /\ \A s \in Screens : s # screen => x # [what |-> "hide", screen |-> s]
  BY <1>3 DEF Commands
<1> HIDE DEF x
<1>6. /\ sent \in Seq(Commands) /\ Len(sent) \in Nat
      /\ sent' \in Seq(Commands) /\ Len(sent) <= Len(sent') /\ Len(sent') \in Nat
      /\ \A i \in 1 .. Len(sent) : sent'[i] = sent[i]
      /\ \A j \in 0 .. Len(sent) : Awake(unread, sent, j, Len(sent)) =>
                                    Awake(unread, sent', j, Len(sent'))
      /\ \A k \in 0 .. Len(sent), s \in Screens :
            s # screen /\ InView(unread, sent, k, Len(sent), s) =>
               InView(unread, sent', k, Len(sent'), s)
  <2> DEFINE r == Append(sent, x)
  <2>1. sent \in Seq(Commands) /\ Len(sent) \in Nat
    BY <1>0 DEF UnreadTypeOK
  <2>2. /\ r \in Seq(Commands) /\ Len(r) = Len(sent) + 1 /\ r[Len(r)] = x
        /\ \A i \in 1 .. Len(sent) : r[i] = sent[i]
        /\ \A j \in 0 .. Len(sent) :
              x.what # "inactive" /\ Awake(unread, sent, j, Len(sent)) => Awake(unread, r, j, Len(r))
        /\ \A k \in 0 .. Len(sent), s \in Screens :
              x.what # "show" /\ x # [what |-> "hide", screen |-> s]
              /\ InView(unread, sent, k, Len(sent), s) => InView(unread, r, k, Len(r), s)
    BY <1>4, <2>1, Further
  <2> HIDE DEF r
  <2>3. CASE sent' = r
    BY <1>4, <2>1, <2>2, <2>3
  <2>4. CASE sent' = sent
    BY <2>1, <2>4
  <2> QED BY <1>1, <2>3, <2>4 DEF r
<1>7. \A p \in Peers : WillClear(unread, sent, p) => WillClear(unread, sent', p)
  BY <1>6, Later
<1>9. UnreadTypeOK'
  BY <1>0, <1>1, <1>2, <1>6 DEF UnreadTypeOK
<1>10. OneChat'
  BY <1>0, <1>2 DEF OneChat
<1>11. ActiveIsTold'
  BY <1>1, <1>2, <1>0, <1>6 DEF ActiveIsTold
<1>13. ScreenIsTold'
  BY <1>0, <1>1, <1>3, <1>2, <1>6 DEF ScreenIsTold, Newest, OneChat
<1>15. Owed'
  BY <1>0, <1>1, <1>7 DEF Owed
<1> QED BY <1>9, <1>10, <1>11, <1>13, <1>15 DEF UnreadInv

LEMMA UnreadStart ==
    ASSUME UnreadInit
    PROVE  UnreadInv
<1>1. /\ unread = NewUnread(TRUE)
      /\ online = [server |-> FALSE, channel |-> Nothing]
      /\ screens = [known |-> online, open |-> {}, active |-> TRUE, next |-> 1]
      /\ sent = << >>
      /\ unseen = [p \in Peers |-> 0]
  BY DEF UnreadInit
<1>2. /\ unread \in [server : BOOLEAN, channel : Rooms \cup {Nothing},
                    visible : Screens \cup {NoScreen}, active : BOOLEAN,
                    counts : [Conversations -> Nat]]
      /\ unread.active /\ ~unread.server /\ unread.counts = [c \in Conversations |-> 0]
  BY <1>1 DEF NewUnread
<1>3. UnreadTypeOK
  <2>1. online \in Places
    BY <1>1 DEF Places
  <2>2. screens \in [known : Places, open : SUBSET Screens, active : BOOLEAN, next : Nat]
    BY <1>1, <2>1
  <2>3. sent \in Seq(Commands) /\ unseen \in [Peers -> Nat]
    BY <1>1
  <2> QED BY <1>2, <2>1, <2>2, <2>3 DEF UnreadTypeOK
<1>4. OneChat /\ ScreenIsTold
  BY <1>1 DEF OneChat, ScreenIsTold
<1>5. ActiveIsTold
  <2>1. Len(sent) = 0 /\ 0 \in 0 .. Len(sent)
    BY <1>1
  <2>2. Awake(unread, sent, 0, 0)
    BY <1>2 DEF Awake
  <2> QED BY <2>1, <2>2 DEF ActiveIsTold
<1>6. Owed
  <2>1. \A p \in Peers : unread.counts[p] = 0 /\ unseen[p] = 0
    BY <1>1, <1>2 DEF Conversations
  <2> QED BY <1>2, <2>1 DEF Owed
<1> QED BY <1>3, <1>4, <1>5, <1>6 DEF UnreadInv

LEMMA UnreadStep ==
    ASSUME UnreadInv, [UnreadNext]_unreadVars
    PROVE  UnreadInv'
  BY ServerEventsKeeps, OfflineKeeps, TakeCommandKeeps, LookKeeps, SetAppActiveKeeps,
     OpenKeeps, DisposeKeeps DEF unreadVars, UnreadInv, UnreadTypeOK, OneChat, ActiveIsTold,
     ScreenIsTold, Owed, Newest, UnreadNext

LEMMA UnreadInvImplies ==
    ASSUME UnreadInv
    PROVE  SeenIsNotUnread
  BY DEF SeenIsNotUnread, WillClear, UnreadInv, Owed

\* What was in front of the user is not unread, once the commands of the screens are through:
\* for any number of conversations, screens, messages and commands on their way. The invariant
\* says what the commands will do: a count that is too high is one they bring to zero.
THEOREM WhatIsSeenIsRead == UnreadSpec => []SeenIsNotUnread
<1>1. UnreadInit => UnreadInv
  BY UnreadStart
<1>2. UnreadInv /\ [UnreadNext]_unreadVars => UnreadInv'
  BY UnreadStep
<1>3. UnreadInv => SeenIsNotUnread
  BY UnreadInvImplies
<1> QED BY <1>1, <1>2, <1>3, PTL DEF UnreadSpec


-----------------------------------------------------------------------------
(* Channel files: the invariant                                            *)

ShownEntries == [name : Names, version : Versions, local : BOOLEAN]
FileRecords ==
    [id : Nat, place : Place, name : Names, upload : BOOLEAN, version : Versions, source : Nat,
     status : {"running", "failed", "complete"}, deadline : BOOLEAN]
FileHandles == [handle : Nat, id : Nat]
FileJobs == [id : Nat, at : {"run", "over"}]
FileStates ==
    [channel : Channels \cup {0}, open : BOOLEAN, path : Paths,
     status : {"idle", "loading", "ready", "failed"}, entries : SUBSET ShownEntries,
     listing : Listing \cup {NoListing}, queued : BOOLEAN, transfers : SUBSET FileRecords,
     handles : SUBSET FileHandles, jobs : SUBSET FileJobs, sequence : Nat,
     cache : {"idle", "loading", "clearing", "ready", "failed"},
     since : Nat, from : [channel : Channels \cup {0}, path : Paths], stamp : Nat]
Disks ==
    [stored : SUBSET Stored, staged : SUBSET Nat, partials : SUBSET Nat,
     thread : {"none", "clear", "measure"}, importing : Nat, imports : Nat]
FileLinks == [up : BOOLEAN, handles : Nat, codes : Nat]
FileCommands ==
    [op : {"list", "download", "upload"}, place : Place, name : Names \cup {""}, handle : Nat]
FileMessages ==
    [kind : {"moved", "entries", "end", "ok", "empty", "no", "refused"}, place : Place,
     list : SUBSET Entry, handle : Nat, stamp : Nat, complete : BOOLEAN]
Connections == [handle : Nat, connected : BOOLEAN, version : Nat]
FileUpdates == [id : Nat, ok : BOOLEAN, clear : BOOLEAN]
Servers == [channel : Channels \cup {0}, stamp : Nat, dirs : [Place -> SUBSET Entry]]

FileTypes ==
    /\ files \in FileStates /\ fileDisk \in Disks /\ fileLink \in FileLinks
    /\ toFileServer \in Seq(FileCommands) /\ fromFileServer \in Seq(FileMessages)
    /\ fileReady \in SUBSET Connections /\ updates \in Seq(FileUpdates)
    /\ directories \in Servers
    /\ spent \in [commands : 0 .. MaxCommands, troubles : 0 .. FileTroubles]

\* A record, its job and its handle have one number, and a partial file its job.
IdsAreOne(s, d) ==
    /\ \A t \in s.transfers : t.id \in 1 .. s.sequence
    /\ \A t, u \in s.transfers : t.id = u.id => t = u
    /\ \A j, k \in s.jobs : j.id = k.id => j = k
    /\ \A h \in s.handles : \E t \in RunningIn(s) : t.id = h.id
    /\ \A j \in s.jobs : \E h \in s.handles : h.id = j.id
    /\ \A id \in d.partials : \E j \in s.jobs : j.id = id
    /\ \A id \in d.partials : \A t \in s.transfers : t.id = id => ~t.upload

\* What runs is watched.
Watched(s, reports) ==
    \A t \in RunningIn(s) :
        \/ t.deadline /\ \A j \in s.jobs : j.id # t.id
        \/ /\ ~t.deadline
           /\ \E j \in s.jobs : j.id = t.id /\
                 (j.at = "over" => \E i \in 1 .. Len(reports) : reports[i].id = t.id)

\* One thread at a time works on the copies, and nothing runs while they are cleared.
OneThread(s, d, reports) ==
    /\ s.cache = "clearing" => RunningIn(s) = {}
    /\ d.thread = "clear" => s.cache = "clearing"
    /\ d.thread = "measure" => s.cache = "loading"
    /\ \A i \in 1 .. Len(reports) : reports[i].id = 0 =>
          /\ s.cache = IF reports[i].clear THEN "clearing" ELSE "loading"
          /\ d.thread = "none"
    /\ \A i, k \in 1 .. Len(reports) : reports[i].id = 0 /\ reports[k].id = 0 => i = k

\* The source of an upload is its own.
SourcesAreOwn(s, d) ==
    /\ d.importing <= d.imports
    /\ \A t \in s.transfers :
          /\ t.source # 0 => t.upload /\ t.source <= d.imports /\ t.source # d.importing
          /\ t.upload /\ t.status # "complete" => t.source # 0
    /\ \A t, u \in s.transfers : t.source # 0 /\ t.source = u.source => t = u
    /\ \A x \in d.staged : x \in 1 .. d.imports

CopyOf(t) == [place |-> t.place, name |-> t.name, version |-> t.version]

Have(s, d) ==
    s.cache # "clearing" =>
        \A t \in s.transfers :
            /\ t.upload /\ t.status # "complete" => t.source \in d.staged
            /\ ~t.upload /\ t.status = "complete" => CopyOf(t) \in d.stored

RecordsHold(s, d, reports) ==
    /\ IdsAreOne(s, d) /\ Watched(s, reports) /\ OneThread(s, d, reports)
    /\ SourcesAreOwn(s, d) /\ Have(s, d)

\* The messages of a listing, and those that end it.
Tells(m) == m.kind \in {"entries", "end", "ok", "empty", "no"}
Answers(m) == m.kind \in {"ok", "empty", "no"}

\* One listing is on its way, and its answer comes last.
OneListing(l, asked, told) ==
    /\ \A i, k \in 1 .. Len(asked) : asked[i].op = "list" /\ asked[k].op = "list" => i = k
    /\ \A i \in 1 .. Len(asked) : asked[i].op = "list" =>
          /\ l # NoListing /\ ~l.acknowledged /\ asked[i].handle = l.handle
          /\ \A k \in 1 .. Len(told) : ~Tells(told[k])
    /\ \A k \in 1 .. Len(told) : Tells(told[k]) =>
          /\ l # NoListing /\ ~l.acknowledged
          /\ \A i \in 1 .. Len(told) : Answers(told[i]) => k <= i
    /\ \A i \in 1 .. Len(told) : Answers(told[i]) => told[i].handle = l.handle

\* What is read is not older than what was asked for.
ReadLater(s, told, now) ==
    /\ s.open => s.channel # 0
    /\ s.since <= now
    /\ s.listing.current =>
          /\ s.listing.stamp >= s.since
          /\ \A i \in 1 .. Len(told) : Tells(told[i]) => told[i].stamp >= s.since
    /\ s.open /\ s.status = "ready" => s.from = Here(s) /\ s.stamp >= s.since

ListingHolds(s, asked, told, now) ==
    OneListing(s.listing, asked, told) /\ ReadLater(s, told, now)

FilesInv ==
    /\ FileTypes
    /\ RecordsHold(files, fileDisk, updates)
    /\ ListingHolds(files, toFileServer, fromFileServer, directories.stamp)

-----------------------------------------------------------------------------
(* Channel files: sequences and records                                    *)

LEMMA FilesTail ==
    ASSUME NEW S, NEW q \in Seq(S), q # << >>
    PROVE  /\ Tail(q) \in Seq(S) /\ Head(q) = q[1] /\ Head(q) \in S
           /\ Len(q) \in Nat /\ Len(q) >= 1 /\ Len(Tail(q)) = Len(q) - 1
           /\ \A i \in 1 .. Len(Tail(q)) : i + 1 \in 1 .. Len(q) /\ Tail(q)[i] = q[i + 1]
  OBVIOUS

LEMMA FilesAppend ==
    ASSUME NEW S, NEW q \in Seq(S), NEW x \in S
    PROVE  /\ Append(q, x) \in Seq(S)
           /\ Len(q) \in Nat /\ Len(Append(q, x)) = Len(q) + 1
           /\ \A i \in 1 .. Len(q) : i \in 1 .. Len(q) + 1 /\ Append(q, x)[i] = q[i]
           /\ Append(q, x)[Len(q) + 1] = x /\ Len(q) + 1 \in 1 .. Len(q) + 1
           /\ \A i \in 1 .. Len(q) + 1 : i \in 1 .. Len(q) \/ i = Len(q) + 1
  OBVIOUS

\* No listing is of no channel.
LEMMA ListingKinds ==
    ASSUME NEW l \in Listing \cup {NoListing}
    PROVE  /\ l.handle \in Nat /\ l.current \in BOOLEAN /\ l.finished \in BOOLEAN
           /\ l.acknowledged \in BOOLEAN /\ l.expired \in BOOLEAN /\ l.stamp \in Nat
           /\ l.entries \in SUBSET ShownEntries
           /\ l.place.path \in Paths /\ l.place.channel \in Channels \cup {0}
           /\ l = NoListing <=> l \notin Listing
           /\ l # NoListing => l.place \in Place
           /\ l.current => l # NoListing
<1>1. NoListing \notin Listing
  BY FilesAssumption DEF NoListing, Listing, Place
<1>2. CASE l \in Listing
  BY <1>1, <1>2 DEF Listing, Place, ShownEntries
<1>3. CASE l = NoListing
  BY <1>1, <1>3 DEF NoListing, Paths
<1> QED BY <1>2, <1>3

\* Operators that leave the transfers alone, and those that leave what is shown.
SameRecords(s, r) ==
    /\ r.transfers = s.transfers /\ r.handles = s.handles /\ r.jobs = s.jobs
    /\ r.sequence = s.sequence /\ r.cache = s.cache
SamePlace(s, r) == r.channel = s.channel /\ r.open = s.open /\ r.path = s.path
SameView(s, r) ==
    /\ SamePlace(s, r) /\ r.status = s.status /\ r.listing = s.listing
    /\ r.since = s.since /\ r.from = s.from /\ r.stamp = s.stamp

LEMMA FileParts ==
    ASSUME NEW s \in FileStates
    PROVE  /\ s.channel \in Channels \cup {0} /\ s.open \in BOOLEAN /\ s.path \in Paths
           /\ s.status \in {"idle", "loading", "ready", "failed"} /\ s.entries \in SUBSET ShownEntries
           /\ s.listing \in Listing \cup {NoListing} /\ s.queued \in BOOLEAN
           /\ s.transfers \in SUBSET FileRecords /\ s.handles \in SUBSET FileHandles
           /\ s.jobs \in SUBSET FileJobs /\ s.sequence \in Nat
           /\ s.cache \in {"idle", "loading", "clearing", "ready", "failed"}
           /\ s.since \in Nat /\ s.from \in [channel : Channels \cup {0}, path : Paths]
           /\ s.stamp \in Nat
  BY DEF FileStates

LEMMA SameValue ==
    ASSUME NEW D, NEW R, NEW f \in [D -> R], NEW c \in D, f[c] = FALSE
    PROVE  [f EXCEPT ![c] = FALSE] = f
  OBVIOUS

LEMMA OutdatedIs ==
    ASSUME NEW l \in Listing \cup {NoListing}
    PROVE  LET o == [l EXCEPT !.current = FALSE] IN
           /\ o \in Listing \cup {NoListing} /\ (o = NoListing <=> l = NoListing)
           /\ ~o.current /\ o.handle = l.handle /\ o.acknowledged = l.acknowledged
           /\ o.stamp = l.stamp
<1> DEFINE o == [l EXCEPT !.current = FALSE]
<1>1. CASE l \in Listing
  <2>1. o \in Listing /\ ~o.current /\ o.handle = l.handle /\ o.acknowledged = l.acknowledged
        /\ o.stamp = l.stamp
    BY <1>1 DEF Listing
  <2>2. l # NoListing /\ o # NoListing
    BY <1>1, <2>1, ListingKinds
  <2> QED BY <2>1, <2>2
<1>2. CASE l = NoListing
  <2> DEFINE p == [channel |-> 0, path |-> "/"]
             k == [handle |-> 0, place |-> p, current |-> FALSE, entries |-> {},
                   finished |-> FALSE, acknowledged |-> FALSE, expired |-> FALSE, stamp |-> 0]
  <2>0. l = k
    BY <1>2 DEF NoListing
  <2> HIDE DEF p
  <2>c. k.current = FALSE
    BY Zenon
  <2>1. [k EXCEPT !.current = FALSE] = k
    <3>1. k = [x \in DOMAIN k |-> k[x]]
      BY Zenon
    <3>2. "current" \in DOMAIN k
      BY SMT
    <3>3. k["current"] = FALSE
      BY Zenon
    <3>4. k \in [DOMAIN k -> {k[x] : x \in DOMAIN k}]
      BY <3>1
    <3> HIDE DEF k
    <3> QED BY <3>2, <3>3, <3>4, SameValue
  <2> HIDE DEF k
  <2>2. [l EXCEPT !.current = FALSE] = l /\ l.current = FALSE
    BY <2>0, <2>1, <2>c
  <2> HIDE DEF o
  <2>3. o = l
    BY <2>2 DEF o
  <2>4. /\ o \in Listing \cup {NoListing} /\ (o = NoListing <=> l = NoListing)
        /\ ~o.current /\ o.handle = l.handle /\ o.acknowledged = l.acknowledged
        /\ o.stamp = l.stamp
    BY <2>2, <2>3
  <2> QED BY <2>4 DEF o
<1> QED BY <1>1, <1>2

LEMMA NextGenerationIs ==
    ASSUME NEW s \in FileStates
    PROVE  LET r == NextGeneration(s) IN
           /\ r \in FileStates /\ SameRecords(s, r) /\ SamePlace(s, r)
           /\ r.listing = [s.listing EXCEPT !.current = FALSE]
           /\ r.status = s.status /\ r.queued = s.queued /\ r.entries = s.entries
           /\ r.since = s.since /\ r.from = s.from /\ r.stamp = s.stamp
  BY FileParts, OutdatedIs DEF NextGeneration, FileStates, SameRecords, SamePlace

LEMMA LoadIs ==
    ASSUME NEW s \in FileStates, directories \in Servers
    PROVE  LET r == FilesLoad(s) IN
           /\ r \in FileStates /\ SameRecords(s, r) /\ SamePlace(s, r)
           /\ r.listing = [s.listing EXCEPT !.current = FALSE]
           /\ r.status = "loading" /\ r.queued /\ r.since = directories.stamp
<1> DEFINE n == NextGeneration(s)
<1>1. /\ n \in FileStates /\ SameRecords(s, n) /\ SamePlace(s, n)
      /\ n.listing = [s.listing EXCEPT !.current = FALSE]
  BY NextGenerationIs
<1>2. FilesLoad(s) = [n EXCEPT !.status = "loading", !.entries = {}, !.queued = TRUE,
                               !.since = directories.stamp]
  BY DEF FilesLoad
<1>3. directories.stamp \in Nat
  BY DEF Servers
<1> HIDE DEF n
<1> QED BY <1>1, <1>2, <1>3 DEF FileStates, SameRecords, SamePlace

\* What is outdated, or loads from now on, still stands for one listing.
LEMMA OutdatedListing ==
    ASSUME NEW s \in FileStates, NEW asked, NEW told, NEW now,
           ListingHolds(s, asked, told, now),
           NEW r, r.listing = [s.listing EXCEPT !.current = FALSE],
           r.open => r.channel # 0, r.since <= now,
           r.open /\ r.status = "ready" => r.from = Here(r) /\ r.stamp >= r.since
    PROVE  ListingHolds(r, asked, told, now)
  BY FileParts, OutdatedIs DEF ListingHolds, OneListing, ReadLater

LEMMA LoadListing ==
    ASSUME NEW s \in FileStates, directories \in Servers, NEW asked, NEW told,
           ListingHolds(s, asked, told, directories.stamp)
    PROVE  ListingHolds(FilesLoad(s), asked, told, directories.stamp)
<1>1. /\ SamePlace(s, FilesLoad(s)) /\ FilesLoad(s).status = "loading"
      /\ FilesLoad(s).listing = [s.listing EXCEPT !.current = FALSE]
      /\ FilesLoad(s).since = directories.stamp
  BY LoadIs
<1>2. directories.stamp \in Nat /\ (s.open => s.channel # 0)
  BY DEF ListingHolds, ReadLater, Servers
<1>3. FilesLoad(s).since <= directories.stamp
  BY <1>1, <1>2
<1> QED BY <1>1, <1>2, <1>3, OutdatedListing DEF SamePlace

LEMMA SameListing ==
    ASSUME NEW s, NEW r, SameView(s, r), NEW asked, NEW told, NEW now,
           ListingHolds(s, asked, told, now)
    PROVE  ListingHolds(r, asked, told, now)
  BY DEF ListingHolds, ReadLater, SameView, SamePlace, Here

LEMMA RecordsStay ==
    ASSUME NEW s, NEW r, SameRecords(s, r), NEW d, NEW reports, RecordsHold(s, d, reports)
    PROVE  RecordsHold(r, d, reports)
  BY DEF RunningIn, SameRecords, RecordsHold, IdsAreOne, Watched, OneThread, SourcesAreOwn,
     Have

-----------------------------------------------------------------------------
(* Channel files: the pump                                                 *)

PumpedListing(s) ==
    [NoListing EXCEPT !.handle = fileLink.codes + 1, !.place = Here(s), !.current = TRUE,
                      !.stamp = directories.stamp + 1]

LEMMA PumpedIs ==
    ASSUME NEW s \in FileStates, Pumps(s), s.channel # 0,
           directories \in Servers, fileLink \in FileLinks
    PROVE  LET r == Pumped(s) IN
           /\ r \in FileStates /\ SameRecords(s, r) /\ SamePlace(s, r)
           /\ Here(s) \in Place /\ r.listing \in Listing /\ r.listing # NoListing
           /\ r.listing.current /\ ~r.listing.acknowledged
           /\ r.listing.handle = fileLink.codes + 1
           /\ r.listing.stamp = directories.stamp + 1
           /\ r.status = s.status /\ r.since = s.since /\ r.from = s.from /\ r.stamp = s.stamp
<1> DEFINE l == PumpedListing(s)
<1>1. Here(s) \in Place
  BY FileParts DEF Here, Place
<1>2. fileLink.codes + 1 \in Nat /\ directories.stamp + 1 \in Nat
  BY DEF FileLinks, Servers
<1>3. /\ l \in Listing /\ l.current /\ ~l.acknowledged
      /\ l.handle = fileLink.codes + 1 /\ l.stamp = directories.stamp + 1
  BY <1>1, <1>2 DEF PumpedListing, NoListing, Listing
<1>4. l # NoListing
  BY <1>3, ListingKinds
<1>5. Pumped(s) = [s EXCEPT !.queued = FALSE, !.listing = l]
  BY DEF Pumped, PumpedListing
<1> HIDE DEF l
<1>6. Pumped(s).listing = l /\ Pumped(s) \in FileStates
  BY <1>3, <1>5 DEF FileStates
<1>7. SameRecords(s, Pumped(s)) /\ SamePlace(s, Pumped(s))
  BY <1>5 DEF FileStates, SameRecords, SamePlace
<1>8. /\ Pumped(s).status = s.status /\ Pumped(s).since = s.since
      /\ Pumped(s).from = s.from /\ Pumped(s).stamp = s.stamp
  BY <1>5 DEF FileStates
<1> QED BY <1>1, <1>3, <1>4, <1>6, <1>7, <1>8

\* A listing is asked for when none is on its way.
LEMMA PumpKeeps ==
    ASSUME NEW s \in FileStates, NEW d \in Disks, Pump(s, d), NEW asked, asked = toFileServer',
           toFileServer \in Seq(FileCommands), NEW told \in Seq(FileMessages),
           directories \in Servers, fileLink \in FileLinks,
           ListingHolds(s, toFileServer, told, directories.stamp),
           NEW reports, RecordsHold(s, d, reports)
    PROVE  /\ files' \in FileStates /\ fileDisk' \in Disks /\ fileLink' \in FileLinks
           /\ toFileServer' \in Seq(FileCommands) /\ SamePlace(s, files')
           /\ RecordsHold(files', fileDisk', reports)
           /\ ListingHolds(files', asked, told, directories.stamp)
<1>1. CASE ~Pumps(s)
  BY <1>1 DEF Pump, Pumped, SamePlace
<1>2. CASE Pumps(s)
  <2> DEFINE c == [op |-> "list", place |-> Here(s), name |-> "", handle |-> fileLink.codes + 1]
             r == Pumped(s)
  <2>1. files' = r /\ fileDisk' = d /\ fileLink' = [fileLink EXCEPT !.codes = @ + 1]
        /\ asked = Append(toFileServer, c)
    BY <1>2 DEF Pump
  <2>2. s.open /\ s.channel # 0 /\ s.listing = NoListing
    BY <1>2 DEF Pumps, ListingHolds, ReadLater
  <2>3. /\ r \in FileStates /\ SameRecords(s, r) /\ SamePlace(s, r)
        /\ Here(s) \in Place /\ r.listing \in Listing /\ r.listing # NoListing
        /\ r.listing.current /\ ~r.listing.acknowledged
        /\ r.listing.handle = fileLink.codes + 1
        /\ r.listing.stamp = directories.stamp + 1
        /\ r.status = s.status /\ r.since = s.since /\ r.from = s.from /\ r.stamp = s.stamp
    BY <1>2, <2>2, PumpedIs
  <2>n. fileLink.codes + 1 \in Nat
    BY DEF FileLinks
  <2>4. c \in FileCommands /\ c.op = "list" /\ c.handle = fileLink.codes + 1
    BY <2>3, <2>n DEF FileCommands
  <2>5. fileLink' \in FileLinks
    BY <2>1, <2>n DEF FileLinks
  <2> HIDE DEF r, c
  <2>6. RecordsHold(r, d, reports)
    BY <2>3, RecordsStay
  <2>7. /\ \A i \in 1 .. Len(toFileServer) : toFileServer[i].op # "list"
        /\ \A k \in 1 .. Len(told) : ~Tells(told[k])
    BY <2>2 DEF ListingHolds, OneListing
  <2>8. /\ \A i \in 1 .. Len(asked) : asked[i].op = "list" => i = Len(toFileServer) + 1
        /\ asked[Len(toFileServer) + 1] = c /\ asked \in Seq(FileCommands)
    BY <2>1, <2>4, <2>7, FilesAppend
  <2>9. OneListing(r.listing, asked, told)
    BY <2>3, <2>4, <2>7, <2>8 DEF OneListing, Tells, Answers
  <2>10. ReadLater(r, told, directories.stamp)
    BY FileParts, <2>3, <2>7 DEF Servers, ListingHolds, ReadLater, SamePlace, Here
  <2> QED BY <2>1, <2>3, <2>5, <2>6, <2>8, <2>9, <2>10 DEF ListingHolds
<1> QED BY <1>1, <1>2

-----------------------------------------------------------------------------
(* Channel files: messages about a listing                                 *)

\* No listing is asked for, and none is answered.
NothingListed(asked, told) ==
    /\ \A i \in 1 .. Len(asked) : asked[i].op # "list"
    /\ \A k \in 1 .. Len(told) : ~Tells(told[k])

LEMMA QuietIsOne ==
    ASSUME NEW asked, NEW told, NothingListed(asked, told), NEW l
    PROVE  OneListing(l, asked, told)
  BY DEF NothingListed, OneListing, Tells, Answers

\* What an earlier message leaves to the later ones.
LEMMA TailListing ==
    ASSUME NEW s, NEW asked, NEW told \in Seq(FileMessages), told # << >>, NEW now,
           ListingHolds(s, asked, told, now)
    PROVE  /\ ListingHolds(s, asked, Tail(told), now)
           /\ Tells(Head(told)) =>
                 /\ s.listing # NoListing /\ ~s.listing.acknowledged
                 /\ s.listing.current => Head(told).stamp >= s.since
           /\ Answers(Head(told)) => NothingListed(asked, Tail(told)) /\ Head(told).handle = s.listing.handle
  BY FilesTail DEF ListingHolds, OneListing, ReadLater, Tells, Answers, NothingListed

\* A change of the listing alone.
LEMMA ListingChanges ==
    ASSUME NEW s \in FileStates, NEW l \in Listing \cup {NoListing},
           NEW r, r = [s EXCEPT !.listing = l]
    PROVE  /\ r \in FileStates /\ SameRecords(s, r) /\ SamePlace(s, r) /\ r.listing = l
           /\ r.status = s.status /\ r.since = s.since /\ r.from = s.from /\ r.stamp = s.stamp
  BY DEF FileStates, SameRecords, SamePlace

\* finish_list: what becomes visible was read for the directory that is open.
LEMMA FinishedKeeps ==
    ASSUME NEW s \in FileStates, NEW asked, NEW told, NothingListed(asked, told), NEW now,
           ReadLater(s, told, now)
    PROVE  /\ Finished(s) \in FileStates /\ SameRecords(s, Finished(s))
           /\ ListingHolds(Finished(s), asked, told, now)
<1> DEFINE r == Finished(s)
<1>1. OneListing(r.listing, asked, told)
  BY QuietIsOne
<1>2. NoListing \in Listing \cup {NoListing} /\ NoListing.current = FALSE
  BY ListingKinds
<1>3. CASE ~(s.listing.finished /\ s.listing.acknowledged)
  BY <1>1, <1>3 DEF Finished, ListingHolds, SameRecords
<1>4. CASE s.listing.finished /\ s.listing.acknowledged /\ Current(s) /\ ~s.listing.expired
  BY <1>4, FileParts, ListingKinds, <1>2, <1>1 DEF Finished, Current, ReadLater, Here,
     FileStates, SameRecords, SamePlace, ListingHolds, r
<1>5. CASE s.listing.finished /\ s.listing.acknowledged /\ ~(Current(s) /\ ~s.listing.expired)
  BY <1>5, <1>2, ListingChanges, <1>1 DEF Finished, ReadLater, SamePlace, Here, ListingHolds,
     r
<1> QED BY <1>3, <1>4, <1>5

LEMMA WithEntriesKeeps ==
    ASSUME NEW s \in FileStates, NEW asked, NEW told, NEW now, ListingHolds(s, asked, told, now),
           NEW place, NEW list \in SUBSET Entry, NEW stamp \in Nat, NEW d,
           s.listing.current => stamp >= s.since
    PROVE  LET r == WithEntries(s, place, list, stamp, d) IN
           /\ r \in FileStates /\ SameRecords(s, r) /\ ListingHolds(r, asked, told, now)
<1> DEFINE r == WithEntries(s, place, list, stamp, d)
           there(e) == [place |-> place, name |-> e.name, version |-> e.version] \in d.stored
           found == {[name |-> e.name, version |-> e.version, local |-> there(e)] : e \in list}
           kept == {e \in s.listing.entries : \A n \in list : n.name # e.name}
           least == Least(stamp, s.listing.stamp)
           l == [s.listing EXCEPT !.entries = kept \cup found, !.stamp = least]
<1>1. CASE ~(s.listing # NoListing /\ s.listing.place = place)
  BY <1>1 DEF WithEntries, SameRecords
<1>2. CASE s.listing # NoListing /\ s.listing.place = place
  <2>1. r = [s EXCEPT !.listing = l]
    BY <1>2 DEF WithEntries
  <2>2. s.listing \in Listing /\ s.listing.entries \in SUBSET ShownEntries /\ s.listing.stamp \in Nat
    BY <1>2, FileParts, ListingKinds
  <2>3. \A e \in list : e.name \in Names /\ e.version \in Versions
    BY FilesAssumption DEF Entry
  <2>4. kept \cup found \in SUBSET ShownEntries /\ least \in Nat
    <3>1. \A e \in list : \A b \in BOOLEAN :
             [name |-> e.name, version |-> e.version, local |-> b] \in ShownEntries
      BY <2>3 DEF ShownEntries
    <3>b. \A e \in list : there(e) \in BOOLEAN
      OBVIOUS
    <3> HIDE DEF there
    <3>2. found \in SUBSET ShownEntries
      BY <3>1, <3>b
    <3>3. kept \in SUBSET ShownEntries
      BY <2>2
    <3>4. least \in Nat
      BY <2>2 DEF Least
    <3> QED BY <3>2, <3>3, <3>4
  <2>5. s.listing.current => least >= s.since
    BY FileParts DEF ListingHolds, ReadLater, Least
  <2> HIDE DEF kept, found, least
  <2>6. /\ l \in Listing /\ l.handle = s.listing.handle /\ l.current = s.listing.current
        /\ l.acknowledged = s.listing.acknowledged /\ l.stamp = least
    BY <2>2, <2>4 DEF Listing, ShownEntries
  <2>7. l # NoListing
    BY <2>6, ListingKinds
  <2> HIDE DEF l, r
  <2>8. /\ r \in FileStates /\ SameRecords(s, r) /\ SamePlace(s, r) /\ r.listing = l
        /\ r.status = s.status /\ r.since = s.since /\ r.from = s.from /\ r.stamp = s.stamp
    BY <2>1, <2>6, ListingChanges
  <2>9. OneListing(r.listing, asked, told)
    BY <1>2, <2>6, <2>7, <2>8 DEF ListingHolds, OneListing
  <2>10. ReadLater(r, told, now)
    BY <2>5, <2>6, <2>8 DEF ListingHolds, ReadLater, SamePlace, Here
  <2> QED BY <2>8, <2>9, <2>10 DEF ListingHolds, r
<1> QED BY <1>1, <1>2

\* The end of the entries leaves the barrier, for the answer comes behind it.
LEMMA WithEndKeeps ==
    ASSUME NEW s \in FileStates, NEW asked, NEW told, NEW now, ListingHolds(s, asked, told, now),
           NEW place, ~s.listing.acknowledged
    PROVE  LET r == Finished(WithEnd(s, place)) IN
           /\ r \in FileStates /\ SameRecords(s, r) /\ ListingHolds(r, asked, told, now)
<1> DEFINE e == WithEnd(s, place)
           l == [s.listing EXCEPT !.finished = TRUE]
<1>1. CASE ~(s.listing # NoListing /\ s.listing.place = place)
  BY <1>1 DEF WithEnd, Finished, SameRecords
<1>2. CASE s.listing # NoListing /\ s.listing.place = place
  <2>1. e = [s EXCEPT !.listing = l]
    BY <1>2 DEF WithEnd
  <2>2. s.listing \in Listing
    BY <1>2, FileParts, ListingKinds
  <2>3. /\ l \in Listing /\ l.handle = s.listing.handle /\ l.current = s.listing.current
        /\ l.acknowledged = s.listing.acknowledged /\ l.stamp = s.listing.stamp
    BY <2>2 DEF Listing
  <2>4. l # NoListing
    BY <2>3, ListingKinds
  <2> HIDE DEF l, e
  <2>5. /\ e \in FileStates /\ SameRecords(s, e) /\ SamePlace(s, e) /\ e.listing = l
        /\ e.status = s.status /\ e.since = s.since /\ e.from = s.from /\ e.stamp = s.stamp
    BY <2>1, <2>3, ListingChanges
  <2>6. Finished(e) = e
    BY <2>3, <2>5 DEF Finished
  <2>7. OneListing(e.listing, asked, told)
    BY <1>2, <2>3, <2>4, <2>5 DEF ListingHolds, OneListing
  <2>8. ReadLater(e, told, now)
    BY <2>3, <2>5 DEF ListingHolds, ReadLater, SamePlace, Here
  <2> QED BY <2>5, <2>6, <2>7, <2>8 DEF ListingHolds, e
<1> QED BY <1>1, <1>2

\* The answer of the command: the barrier falls, or waits for the end of the entries.
LEMMA WithResultKeeps ==
    ASSUME NEW s \in FileStates, NEW asked, NEW told, NothingListed(asked, told), NEW now,
           ReadLater(s, told, now), NEW handle, NEW result, NEW stamp \in Nat,
           s.listing.current => stamp >= s.since
    PROVE  LET r == WithResult(s, handle, result, stamp) IN
           /\ r \in FileStates /\ SameRecords(s, r) /\ ListingHolds(r, asked, told, now)
<1> DEFINE r == WithResult(s, handle, result, stamp)
           least == Least(stamp, s.listing.stamp)
<1>1. CASE s.listing = NoListing \/ s.listing.handle # handle
  BY <1>1, QuietIsOne DEF WithResult, ListingHolds, SameRecords
<1> SUFFICES ASSUME s.listing # NoListing /\ s.listing.handle = handle
             PROVE  r \in FileStates /\ SameRecords(s, r) /\ ListingHolds(r, asked, told, now)
  BY <1>1
<1>2. s.listing \in Listing /\ s.listing.stamp \in Nat /\ s.since \in Nat
  BY FileParts, ListingKinds
<1>3. ASSUME NEW l \in Listing, l.current = s.listing.current,
             l.current => l.stamp >= s.since,
             r = Finished([s EXCEPT !.listing = l])
      PROVE  r \in FileStates /\ SameRecords(s, r) /\ ListingHolds(r, asked, told, now)
  BY ListingChanges, <1>3, FinishedKeeps DEF ReadLater, SamePlace, Here, SameRecords
<1>4. CASE result = "ok"
  <2> DEFINE l == [s.listing EXCEPT !.acknowledged = TRUE]
  <2>1. l \in Listing /\ l.current = s.listing.current /\ l.stamp = s.listing.stamp
    BY <1>2 DEF Listing
  <2>2. r = Finished([s EXCEPT !.listing = l])
    BY <1>4 DEF WithResult
  <2> HIDE DEF l, r
  <2>3. l.current => l.stamp >= s.since
    BY <2>1 DEF ReadLater
  <2> QED BY <1>3, <2>1, <2>2, <2>3
<1>5. CASE result # "ok" /\ result = "empty" /\ s.listing.entries = {}
  <2> DEFINE l == [s.listing EXCEPT !.finished = TRUE, !.acknowledged = TRUE, !.stamp = least]
  <2>1. least \in Nat
    BY <1>2 DEF Least
  <2>2. s.listing.current => least >= s.since
    BY <1>2 DEF ReadLater, Least
  <2>3. r = Finished([s EXCEPT !.listing = l])
    BY <1>5 DEF WithResult
  <2> HIDE DEF least
  <2>4. l \in Listing /\ l.current = s.listing.current /\ l.stamp = least
    BY <1>2, <2>1 DEF Listing
  <2> HIDE DEF l, r
  <2> QED BY <1>3, <2>2, <2>3, <2>4
<1>6. CASE result # "ok" /\ ~(result = "empty" /\ s.listing.entries = {})
  <2>1. PICK status : /\ status = IF Current(s) THEN "failed" ELSE s.status
                      /\ r = [s EXCEPT !.listing = NoListing, !.status = status]
    BY <1>6 DEF WithResult
  <2>2. NoListing.current = FALSE
    BY ListingKinds
  <2>3. status \in {"idle", "loading", "ready", "failed"}
    BY <2>1, FileParts
  <2> HIDE DEF r
  <2>4. /\ r \in FileStates /\ SameRecords(s, r) /\ SamePlace(s, r) /\ r.listing = NoListing
        /\ r.status = status /\ r.since = s.since /\ r.from = s.from /\ r.stamp = s.stamp
    BY <2>1, <2>3 DEF FileStates, SameRecords, SamePlace
  <2>5. ReadLater(r, told, now)
    BY <2>1, <2>2, <2>4 DEF ReadLater, SamePlace, Here
  <2> QED BY <2>4, <2>5, QuietIsOne DEF ListingHolds
<1> QED BY <1>4, <1>5, <1>6

LEMMA ApplyContextKeeps ==
    ASSUME NEW s \in FileStates, NEW asked, NEW told, NEW now, ListingHolds(s, asked, told, now),
           NEW channel \in Channels
    PROVE  LET r == ApplyContext(s, channel) IN
           /\ r \in FileStates /\ SameRecords(s, r) /\ ListingHolds(r, asked, told, now)
<1> DEFINE r == ApplyContext(s, channel)
           n == NextGeneration(s)
<1>1. CASE s.channel = channel
  BY <1>1 DEF ApplyContext, SameRecords
<1>2. CASE s.channel # channel
  <2>1. r = [n EXCEPT !.channel = channel, !.open = FALSE, !.path = "/", !.entries = {},
                      !.status = "idle", !.queued = FALSE]
    BY <1>2 DEF ApplyContext
  <2>2. /\ n \in FileStates /\ SameRecords(s, n)
        /\ n.listing = [s.listing EXCEPT !.current = FALSE]
        /\ n.since = s.since
    BY NextGenerationIs
  <2> HIDE DEF n, r
  <2>3. /\ r \in FileStates /\ SameRecords(n, r) /\ r.listing = n.listing /\ ~r.open
        /\ r.since = n.since
    BY <2>1, <2>2 DEF FileStates, SameRecords, Paths
  <2>4. s.since <= now
    BY DEF ListingHolds, ReadLater
  <2>5. ListingHolds(r, asked, told, now)
    BY <2>2, <2>3, <2>4, OutdatedListing
  <2> QED BY <2>2, <2>3, <2>5 DEF SameRecords, r
<1> QED BY <1>1, <1>2

LEMMA ToldKeeps ==
    ASSUME FileTypes, fromFileServer # << >>, Head(fromFileServer).kind # "refused",
           ListingHolds(files, toFileServer, fromFileServer, directories.stamp)
    PROVE  LET r == Told(Head(fromFileServer)) IN
           /\ r \in FileStates /\ SameRecords(files, r)
           /\ ListingHolds(r, toFileServer, Tail(fromFileServer), directories.stamp)
<1> DEFINE m == Head(fromFileServer)
           q == Tail(fromFileServer)
           now == directories.stamp
<1>1. files \in FileStates /\ fromFileServer \in Seq(FileMessages)
  BY DEF FileTypes
<1>2. m \in FileMessages
  BY <1>1, FilesTail
<1>3. /\ ListingHolds(files, toFileServer, q, now)
      /\ Tells(m) =>
            /\ files.listing # NoListing /\ ~files.listing.acknowledged
            /\ files.listing.current => m.stamp >= files.since
      /\ Answers(m) => NothingListed(toFileServer, q) /\ m.handle = files.listing.handle
  BY <1>1, TailListing
<1>4. /\ m.kind \in {"moved", "entries", "end", "ok", "empty", "no"}
      /\ m.list \in SUBSET Entry /\ m.stamp \in Nat /\ m.place.channel \in Channels
  BY <1>2 DEF FileMessages, Place
<1> HIDE DEF m, q, now
<1> SUFFICES /\ Told(m) \in FileStates /\ SameRecords(files, Told(m))
             /\ ListingHolds(Told(m), toFileServer, q, now)
  BY DEF m, q, now
<1>5. CASE m.kind = "moved"
  BY <1>5, <1>1, <1>3, <1>4, ApplyContextKeeps DEF Told
<1>6. CASE m.kind = "entries"
  BY <1>6, <1>1, <1>3, <1>4, WithEntriesKeeps DEF Told, Tells
<1>7. CASE m.kind = "end"
  BY <1>7, <1>1, <1>3, WithEndKeeps DEF Told, Tells
<1>8. CASE m.kind \in {"ok", "empty", "no"}
  BY <1>8, <1>3, <1>1, <1>4, WithResultKeeps DEF Told, Tells, Answers, ListingHolds
<1> QED BY <1>4, <1>5, <1>6, <1>7, <1>8

-----------------------------------------------------------------------------
(* Channel files: the server, and what else is on its way                  *)

\* A change that a listing does not notice.
LEMMA ListingLike ==
    ASSUME NEW s, NEW asked, NEW told, NEW now, ListingHolds(s, asked, told, now),
           NEW r, SamePlace(s, r), r.since = s.since, r.from = s.from, r.stamp = s.stamp,
           r.status = "ready" => s.status = "ready",
           r.listing = NoListing <=> s.listing = NoListing,
           r.listing.handle = s.listing.handle, r.listing.stamp = s.listing.stamp,
           r.listing.acknowledged = s.listing.acknowledged,
           r.listing.current = s.listing.current
    PROVE  ListingHolds(r, asked, told, now)
  BY DEF ListingHolds, OneListing, ReadLater, SamePlace, Here

LEMMA LaterListing ==
    ASSUME NEW s \in FileStates, NEW asked, NEW told, NEW now \in Nat, NEW then \in Nat, now <= then,
           ListingHolds(s, asked, told, now)
    PROVE  ListingHolds(s, asked, told, then)
  BY FileParts DEF ListingHolds, ReadLater

\* A transfer is asked for.
LEMMA AskedListing ==
    ASSUME NEW s, NEW asked \in Seq(FileCommands), NEW told, NEW now,
           ListingHolds(s, asked, told, now), NEW c \in FileCommands, c.op # "list"
    PROVE  ListingHolds(s, Append(asked, c), told, now)
  BY FilesAppend DEF ListingHolds, OneListing

LEMMA NoticedListing ==
    ASSUME NEW s, NEW asked, NEW told \in Seq(FileMessages), NEW now,
           ListingHolds(s, asked, told, now), NEW m \in FileMessages, ~Tells(m)
    PROVE  ListingHolds(s, asked, Append(told, m), now)
  BY FilesAppend DEF Tells, Answers, ListingHolds, OneListing, ReadLater

\* A transfer is answered.
LEMMA TransferServed ==
    ASSUME NEW s, NEW asked \in Seq(FileCommands), asked # << >>, NEW told, NEW now,
           ListingHolds(s, asked, told, now)
    PROVE  ListingHolds(s, Tail(asked), told, now)
  BY FilesTail DEF ListingHolds, OneListing

\* The listing is answered: entries, their end, and the answer behind them.
LEMMA ListingServed ==
    ASSUME NEW s \in FileStates, NEW asked \in Seq(FileCommands), asked # << >>,
           Head(asked).op = "list",
           NEW told, NEW now \in Nat, ListingHolds(s, asked, told, now),
           Len(told) \in Nat, NEW q, Len(q) \in Nat,
           \A i \in 1 .. Len(told) : q[i] = told[i],
           \A i \in 1 .. Len(q) : i \notin 1 .. Len(told) =>
              q[i].stamp = now /\ (Answers(q[i]) => i = Len(q) /\ q[i].handle = Head(asked).handle)
    PROVE  ListingHolds(s, Tail(asked), q, now)
<1> DEFINE a == Tail(asked)
<1>1. /\ Head(asked) = asked[1] /\ Len(asked) \in Nat /\ Len(asked) >= 1
      /\ \A i \in 1 .. Len(a) : i + 1 \in 1 .. Len(asked) /\ a[i] = asked[i + 1]
  BY FilesTail
<1> HIDE DEF a
<1>2. OneListing(s.listing, asked, told) /\ ReadLater(s, told, now) /\ 1 \in 1 .. Len(asked)
  BY <1>1 DEF ListingHolds
<1>3. \A i \in 1 .. Len(a) : a[i].op # "list"
  BY <1>1, <1>2 DEF OneListing
<1>4. /\ s.listing # NoListing /\ ~s.listing.acknowledged /\ asked[1].handle = s.listing.handle
      /\ \A k \in 1 .. Len(told) : ~Tells(told[k])
  BY <1>1, <1>2 DEF OneListing
<1>5. \A i \in 1 .. Len(q) : Answers(q[i]) => i = Len(q) /\ q[i].handle = s.listing.handle
  BY <1>1, <1>4 DEF Tells, Answers
<1>6. \A k \in 1 .. Len(q) : k <= Len(q)
  OBVIOUS
<1>7. OneListing(s.listing, a, q)
  BY <1>3, <1>4, <1>5, <1>6 DEF OneListing
<1>8. s.since \in Nat /\ s.since <= now
  BY <1>2, FileParts DEF ReadLater
<1>9. \A i \in 1 .. Len(q) : Tells(q[i]) => q[i].stamp >= s.since
  BY <1>4, <1>8
<1>10. ReadLater(s, q, now)
  BY <1>2, <1>9 DEF ReadLater
<1> QED BY <1>7, <1>10 DEF ListingHolds, a

LEMMA MessageIs ==
    ASSUME directories \in Servers, NEW place \in Place, NEW list \in SUBSET Entry, NEW handle \in Nat,
           NEW kind \in {"moved", "entries", "end", "ok", "empty", "no", "refused"}
    PROVE  LET m == Message(kind, place, list, handle) IN
           /\ m \in FileMessages /\ m.kind = kind /\ m.handle = handle
           /\ m.stamp = directories.stamp
  BY DEF Servers, Message, FileMessages

LEMMA ServerKeeps ==
    ASSUME FileTypes, ServeFiles, NEW s \in FileStates,
           ListingHolds(s, toFileServer, fromFileServer, directories.stamp)
    PROVE  /\ toFileServer' \in Seq(FileCommands) /\ fromFileServer' \in Seq(FileMessages)
           /\ fileReady' \in SUBSET Connections
           /\ ListingHolds(s, toFileServer', fromFileServer', directories.stamp)
<1> DEFINE c == Head(toFileServer)
           now == directories.stamp
<1>1. /\ toFileServer \in Seq(FileCommands) /\ fromFileServer \in Seq(FileMessages)
      /\ directories \in Servers /\ toFileServer # << >> /\ toFileServer' = Tail(toFileServer)
      /\ now \in Nat /\ fileReady \in SUBSET Connections
  BY DEF FileTypes, ServeFiles, Servers
<1>2. c \in FileCommands /\ toFileServer' \in Seq(FileCommands)
  BY <1>1, FilesTail
<1>3. c.place \in Place /\ c.handle \in Nat /\ c.op \in {"list", "download", "upload"}
  BY <1>2 DEF FileCommands
<1>4. directories.dirs[c.place] \in SUBSET Entry
  BY <1>1, <1>3 DEF Servers
<1>5. \/ c.op = "list" /\ ServeListing(c) /\ fileReady' = fileReady
      \/ c.op # "list" /\ \E connected \in BOOLEAN : ServeTransfer(c, connected)
      \/ Refuse(c)
  BY DEF ServeFiles
<1>6. ListingHolds(s, toFileServer', fromFileServer, now)
  BY <1>1, TransferServed
<1>7. /\ Len(fromFileServer) \in Nat
      /\ \A m \in FileMessages :
            /\ Append(fromFileServer, m) \in Seq(FileMessages)
            /\ Len(Append(fromFileServer, m)) = Len(fromFileServer) + 1
            /\ \A i \in 1 .. Len(fromFileServer) : Append(fromFileServer, m)[i] = fromFileServer[i]
            /\ Append(fromFileServer, m)[Len(fromFileServer) + 1] = m
  BY <1>1, FilesAppend
\* One answer to a listing.
<1>8. ASSUME c.op = "list", NEW kind \in {"empty", "no"},
             fromFileServer' = Append(fromFileServer, Message(kind, c.place, {}, c.handle))
      PROVE  /\ fromFileServer' \in Seq(FileMessages)
             /\ ListingHolds(s, toFileServer', fromFileServer', now)
  <2> DEFINE m == Message(kind, c.place, {}, c.handle)
  <2>1. m \in FileMessages /\ m.kind = kind /\ m.handle = c.handle /\ m.stamp = now
    BY <1>1, <1>3, MessageIs
  <2> HIDE DEF m, now, c
  <2>2. /\ fromFileServer' \in Seq(FileMessages) /\ Len(fromFileServer') = Len(fromFileServer) + 1
        /\ \A i \in 1 .. Len(fromFileServer) : fromFileServer'[i] = fromFileServer[i]
        /\ fromFileServer'[Len(fromFileServer) + 1] = m
    BY <1>7, <1>8, <2>1 DEF m
  <2>3. \A i \in 1 .. Len(fromFileServer') : i \notin 1 .. Len(fromFileServer) =>
           i = Len(fromFileServer') /\ fromFileServer'[i] = m
    BY <1>7, <2>2
  <2>4. Len(fromFileServer') \in Nat
    BY <2>2
  <2>5. \A i \in 1 .. Len(fromFileServer') : i \notin 1 .. Len(fromFileServer) =>
           /\ fromFileServer'[i].stamp = now
           /\ Answers(fromFileServer'[i]) =>
                 i = Len(fromFileServer') /\ fromFileServer'[i].handle = c.handle
    BY <2>1, <2>3
  <2>6. ListingHolds(s, toFileServer, fromFileServer, now)
    BY DEF now
  <2>7. Head(toFileServer).op = "list" /\ Head(toFileServer).handle = c.handle
    BY <1>8 DEF c
  <2>8. ListingHolds(s, Tail(toFileServer), fromFileServer', now)
    BY <1>1, <1>7, <2>2, <2>4, <2>5, <2>6, <2>7, ListingServed
  <2> QED BY <1>1, <2>2, <2>8
<1>9. CASE c.op = "list" /\ ServeListing(c) /\ fileReady' = fileReady
  <2> DEFINE list == directories.dirs[c.place]
  <2>1. CASE list = {}
    BY <1>9, <2>1, <1>1, <1>2, <1>8 DEF ServeListing
  <2>2. CASE list # {}
    <3> DEFINE m1 == Message("entries", c.place, list, 0)
               m2 == Message("end", c.place, {}, 0)
               m3 == Message("ok", c.place, {}, c.handle)
               q == fromFileServer \o <<m1, m2, m3>>
               n == Len(fromFileServer)
    <3>1. /\ m1 \in FileMessages /\ m1.kind = "entries" /\ m1.stamp = now
          /\ m2 \in FileMessages /\ m2.kind = "end" /\ m2.stamp = now
          /\ m3 \in FileMessages /\ m3.kind = "ok" /\ m3.stamp = now /\ m3.handle = c.handle
      BY <1>1, <1>3, <1>4, MessageIs
    <3>2. fromFileServer' = q
      BY <1>9, <2>2 DEF ServeListing
    <3> HIDE DEF m1, m2, m3, now, c, list
    <3>3. q \in Seq(FileMessages) /\ Len(q) = n + 3
      BY <1>1, <3>1
    <3>4. \A i \in 1 .. n : q[i] = fromFileServer[i]
      BY <1>1
    <3>5. q[n + 1] = m1 /\ q[n + 2] = m2 /\ q[n + 3] = m3
      BY <1>1
    <3> HIDE DEF q
    <3>6. \A i \in 1 .. Len(q) : i \notin 1 .. n => i = n + 1 \/ i = n + 2 \/ i = n + 3
      BY <1>7, <3>3
    <3>7. \A i \in 1 .. Len(q) : i \notin 1 .. n =>
             q[i].stamp = now /\ (Answers(q[i]) => i = Len(q) /\ q[i].handle = c.handle)
      BY <3>1, <3>3, <3>5, <3>6 DEF Answers
    <3>8. Len(q) \in Nat
      BY <1>7, <3>3
    <3>9. ListingHolds(s, Tail(toFileServer), q, now)
      BY <1>1, <1>7, <1>9, <3>4, <3>7, <3>8, ListingServed DEF c, now
    <3> QED BY <1>1, <1>2, <1>9, <3>2, <3>3, <3>9 DEF now
  <2> QED BY <2>1, <2>2
<1>10. ASSUME c.op # "list",
              fromFileServer' = Append(fromFileServer, Message("refused", c.place, {}, c.handle))
       PROVE  /\ fromFileServer' \in Seq(FileMessages)
              /\ ListingHolds(s, toFileServer', fromFileServer', now)
  <2> DEFINE m == Message("refused", c.place, {}, c.handle)
  <2>1. m \in FileMessages /\ ~Tells(m)
    BY <1>1, <1>3, MessageIs DEF Tells
  <2> HIDE DEF m
  <2>2. ListingHolds(s, toFileServer', Append(fromFileServer, m), now)
    BY <1>1, <1>6, <2>1, NoticedListing
  <2> QED BY <1>7, <1>10, <2>1, <2>2 DEF m
<1>11. CASE c.op # "list" /\ \E connected \in BOOLEAN : ServeTransfer(c, connected)
  <2> PICK connected \in BOOLEAN : ServeTransfer(c, connected)
    BY <1>11
  <2> DEFINE found == {e \in directories.dirs[c.place] : e.name = c.name}
             version == IF found = {} THEN 1 ELSE (CHOOSE e \in found : TRUE).version
  <2>1. CASE (c.op = "download") = (found # {})
    BY <2>1, <1>4, FilesAssumption, <1>3, <1>1, <1>2, <1>6 DEF ServeTransfer, Entry,
       Versions, Connections, c
  <2>2. CASE (c.op = "download") # (found # {})
    BY <2>2, <1>1, <1>2, <1>10, <1>11 DEF ServeTransfer
  <2> QED BY <2>1, <2>2
<1>12. CASE Refuse(c)
  BY <1>12, <1>1, <1>2, <1>8, <1>10 DEF Refuse
<1> QED BY <1>5, <1>9, <1>11, <1>12

-----------------------------------------------------------------------------
(* Channel files: transfers that end                                       *)

\* r is s without the jobs and handles of ids, and f says what became of the records.
EndsFor(s, r, f, ids) ==
    /\ r.transfers = {f[t] : t \in s.transfers}
    /\ \A t \in s.transfers :
          /\ f[t].id = t.id /\ f[t].upload = t.upload
          /\ t.id \notin ids => f[t] = t
          /\ t.id \in ids => f[t].status # "running"
    /\ r.jobs = {j \in s.jobs : j.id \notin ids}
    /\ r.handles = {h \in s.handles : h.id \notin ids}
    /\ r.sequence = s.sequence /\ r.cache = s.cache

\* What the records of r hold on the disk e they held in s on d.
KeepsFor(s, d, r, e, f) ==
    \A t \in s.transfers :
        /\ f[t].source \in {0, t.source}
        /\ f[t].upload /\ f[t].status # "complete" =>
              t.status # "complete" /\ f[t].source = t.source /\ (t.source \in d.staged => t.source \in e.staged)
        /\ ~f[t].upload /\ f[t].status = "complete" =>
              CopyOf(f[t]) \in e.stored
              \/ (t.status = "complete" /\ CopyOf(f[t]) = CopyOf(t) /\ d.stored \subseteq e.stored)

LEMMA EndedIds ==
    ASSUME NEW s, NEW d, IdsAreOne(s, d), NEW r, NEW e, NEW f, NEW ids,
           EndsFor(s, r, f, ids), e.partials \subseteq d.partials,
           \A id \in e.partials : id \notin ids
    PROVE  IdsAreOne(r, e)
  BY DEF EndsFor, IdsAreOne, RunningIn

\* A report of one that goes on stays a report.
LEMMA EndedWatched ==
    ASSUME NEW s, NEW reports, Watched(s, reports), NEW r, NEW f, NEW ids,
           EndsFor(s, r, f, ids), NEW q,
           \A i \in 1 .. Len(reports) : reports[i].id \notin ids =>
              \E k \in 1 .. Len(q) : q[k].id = reports[i].id
    PROVE  Watched(r, q)
  BY DEF Watched, RunningIn, EndsFor

LEMMA EndedThread ==
    ASSUME NEW s, NEW d, NEW reports, OneThread(s, d, reports), NEW r, NEW e, NEW f, NEW ids,
           EndsFor(s, r, f, ids), e.thread = d.thread
    PROVE  OneThread(r, e, reports)
  BY DEF EndsFor, RunningIn, OneThread

LEMMA EndedSources ==
    ASSUME NEW s, NEW d, SourcesAreOwn(s, d), Have(s, d), NEW r, NEW e, NEW f, NEW ids,
           EndsFor(s, r, f, ids), KeepsFor(s, d, r, e, f),
           e.importing = d.importing, e.imports = d.imports, e.staged \subseteq d.staged
    PROVE  SourcesAreOwn(r, e) /\ Have(r, e)
  BY DEF EndsFor, KeepsFor, SourcesAreOwn, Have

LEMMA EndedKeeps ==
    ASSUME NEW s, NEW d, NEW reports, RecordsHold(s, d, reports), NEW r, NEW e, NEW f, NEW ids,
           EndsFor(s, r, f, ids), KeepsFor(s, d, r, e, f),
           e.importing = d.importing, e.imports = d.imports, e.staged \subseteq d.staged,
           e.thread = d.thread, e.partials \subseteq d.partials,
           \A id \in e.partials : id \notin ids,
           NEW q, OneThread(s, d, q),
           \A i \in 1 .. Len(reports) : reports[i].id \notin ids =>
              \E k \in 1 .. Len(q) : q[k].id = reports[i].id
    PROVE  RecordsHold(r, e, q)
  BY EndedIds, EndedWatched, EndedThread, EndedSources DEF RecordsHold

-----------------------------------------------------------------------------
(* Channel files: the operations that end transfers                        *)

LEMMA RecordFails ==
    ASSUME NEW t \in FileRecords
    PROVE  LET u == [t EXCEPT !.status = "failed", !.deadline = FALSE] IN
           /\ u \in FileRecords /\ u.id = t.id /\ u.upload = t.upload /\ u.source = t.source
           /\ u.status = "failed" /\ CopyOf(u) = CopyOf(t)
  BY DEF FileRecords, CopyOf

\* The record with an id is the one the code finds.
LEMMA TransferIs ==
    ASSUME NEW s \in FileStates, NEW d, IdsAreOne(s, d), NEW t \in s.transfers
    PROVE  RecordOf(s, t.id) = t
  BY DEF RecordOf, IdsAreOne

LEMMA FailsKeeps ==
    ASSUME NEW s \in FileStates, NEW d \in Disks, NEW reports, RecordsHold(s, d, reports),
           NEW id \in Nat, NEW ok, ~Succeeds(s, d, id, ok),
           NEW q, OneThread(s, d, q),
           \A i \in 1 .. Len(reports) : reports[i].id # id =>
              \E k \in 1 .. Len(q) : q[k].id = reports[i].id
    PROVE  /\ Fails(s, id) \in FileStates /\ Kept(s, d, id, ok) \in Disks
           /\ SameView(s, Fails(s, id))
           /\ RecordsHold(Fails(s, id), Kept(s, d, id, ok), q)
<1> DEFINE r == Fails(s, id)
           e == Kept(s, d, id, ok)
           gone == {j.id : j \in {j \in s.jobs : j.id = id}}
           g(t) == IF t.id = id /\ t.status = "running"
                   THEN [t EXCEPT !.status = "failed", !.deadline = FALSE] ELSE t
           f == [t \in s.transfers |-> g(t)]
           jobs == {j \in s.jobs : j.id # id}
           handles == {h \in s.handles : h.id # id}
           records == {g(t) : t \in s.transfers}
<1>1. s.transfers \in SUBSET FileRecords /\ s.jobs \in SUBSET FileJobs /\ s.handles \in SUBSET FileHandles
  BY FileParts
<1>2. ASSUME NEW t \in s.transfers
      PROVE  /\ g(t) \in FileRecords /\ g(t).id = t.id /\ g(t).upload = t.upload
             /\ g(t).source = t.source /\ CopyOf(g(t)) = CopyOf(t)
             /\ g(t).status = t.status \/ (t.status = "running" /\ g(t).status = "failed")
             /\ t.id # id => g(t) = t
             /\ t.id = id => g(t).status # "running"
  BY <1>1, RecordFails
<1>3. r = [s EXCEPT !.transfers = records, !.jobs = jobs, !.handles = handles]
  BY DEF Fails
<1>5. e = [d EXCEPT !.partials = d.partials \ gone]
  BY DEF Kept
<1> HIDE DEF g
<1>4. records \in SUBSET FileRecords /\ jobs \in SUBSET FileJobs /\ handles \in SUBSET FileHandles
  BY <1>1, <1>2
<1>6. \A t \in s.transfers : f[t] = g(t)
  OBVIOUS
<1>7. records = {f[t] : t \in s.transfers}
  BY <1>6
<1> HIDE DEF f, r, records, jobs, handles, e
<1>8. /\ r \in FileStates /\ SameView(s, r) /\ r.transfers = records /\ r.jobs = jobs
      /\ r.handles = handles /\ r.sequence = s.sequence /\ r.cache = s.cache
  BY <1>3, <1>4 DEF FileStates, SameView, SamePlace
<1>9. /\ e \in Disks /\ e.partials = d.partials \ gone /\ e.importing = d.importing
      /\ e.imports = d.imports /\ e.staged = d.staged /\ e.stored = d.stored /\ e.thread = d.thread
  BY <1>5 DEF Disks
<1>10. EndsFor(s, r, f, {id})
  BY <1>2, <1>6, <1>7, <1>8 DEF EndsFor, jobs, handles
<1>11. KeepsFor(s, d, r, e, f)
  BY <1>2, <1>6, <1>9 DEF KeepsFor
<1>12. \A x \in e.partials : x \notin {id}
  BY <1>9 DEF RecordsHold, IdsAreOne
<1>13. RecordsHold(r, e, q)
  BY <1>9, <1>10, <1>11, <1>12, EndedKeeps
<1> QED BY <1>8, <1>9, <1>13 DEF r, e

LEMMA DisconnectedKeeps ==
    ASSUME NEW s \in FileStates, NEW d \in Disks, NEW reports \in Seq(FileUpdates),
           RecordsHold(s, d, reports), NEW now, s.since <= now
    PROVE  LET r == FilesDisconnected(s)
               e == [d EXCEPT !.partials = d.partials \ {j.id : j \in s.jobs}] IN
           /\ r \in FileStates /\ e \in Disks
           /\ RecordsHold(r, e, reports) /\ ListingHolds(r, << >>, << >>, now)
<1> DEFINE r == FilesDisconnected(s)
           gone == {j.id : j \in s.jobs}
           e == [d EXCEPT !.partials = d.partials \ gone]
           status(t) == IF t.status = "running" THEN "failed" ELSE t.status
           g(t) == [t EXCEPT !.status = status(t), !.deadline = FALSE]
           f == [t \in s.transfers |-> g(t)]
           records == {g(t) : t \in s.transfers}
<1>1. s.transfers \in SUBSET FileRecords /\ s.jobs \in SUBSET FileJobs /\ s.handles \in SUBSET FileHandles
  BY FileParts
<1>2. r = [s EXCEPT !.jobs = {}, !.handles = {}, !.listing = NoListing, !.queued = FALSE,
                    !.transfers = records, !.open = FALSE, !.entries = {}, !.status = "idle",
                    !.channel = 0]
  BY DEF FilesDisconnected
<1>3. ASSUME NEW t \in s.transfers
      PROVE  /\ g(t) \in FileRecords /\ g(t).id = t.id /\ g(t).upload = t.upload
             /\ g(t).source = t.source /\ CopyOf(g(t)) = CopyOf(t) /\ g(t).status = status(t)
  BY <1>1 DEF FileRecords, CopyOf
<1> HIDE DEF g
<1>4. records \in SUBSET FileRecords
  BY <1>3
<1>5. (\A t \in s.transfers : f[t] = g(t)) /\ records = {f[t] : t \in s.transfers}
  OBVIOUS
<1>6. \A t \in s.transfers : status(t) # "running" /\ (status(t) = "complete" <=> t.status = "complete")
  OBVIOUS
<1> HIDE DEF f, r, records, status
<1>7. /\ r \in FileStates /\ r.transfers = records /\ r.jobs = {} /\ r.handles = {}
      /\ r.sequence = s.sequence /\ r.cache = s.cache
      /\ r.listing = NoListing /\ ~r.open /\ r.since = s.since
  BY <1>2, <1>4 DEF FileStates
<1>8. /\ e \in Disks /\ e.partials = d.partials \ gone /\ e.importing = d.importing
      /\ e.imports = d.imports /\ e.staged = d.staged /\ e.stored = d.stored /\ e.thread = d.thread
  BY DEF Disks
<1> HIDE DEF e
<1>9. e.partials = {}
  BY <1>8 DEF RecordsHold, IdsAreOne
<1>10. EndsFor(s, r, f, Nat)
  BY <1>1, <1>3, <1>5, <1>6, <1>7 DEF FileRecords, FileJobs, FileHandles, EndsFor
<1>11. KeepsFor(s, d, r, e, f)
  BY <1>3, <1>5, <1>6, <1>8 DEF KeepsFor
<1>12. \A i \in 1 .. Len(reports) : reports[i].id \in Nat
  <2>1. \A i \in 1 .. Len(reports) : reports[i] \in FileUpdates
    OBVIOUS
  <2> QED BY <2>1 DEF FileUpdates
<1>13. RecordsHold(r, e, reports)
  BY <1>8, <1>9, <1>10, <1>11, <1>12, EndedKeeps DEF RecordsHold
<1>14. NoListing.current = FALSE
  BY ListingKinds
<1>15. ListingHolds(r, << >>, << >>, now)
  <2>1. NothingListed(<< >>, << >>)
    BY DEF NothingListed
  <2> QED BY <1>7, <1>14, <2>1, QuietIsOne DEF ListingHolds, ReadLater
<1> QED BY <1>7, <1>8, <1>13, <1>15 DEF r, e

\* The timers that have passed end transfers that run.
LEMMA TimedOutKeeps ==
    ASSUME NEW s \in FileStates, NEW d \in Disks, NEW reports, RecordsHold(s, d, reports),
           NEW ids, ids \subseteq {t.id : t \in RunningIn(s)},
           \A t \in RunningIn(s) : t.id \in ids => t.deadline
    PROVE  LET r == TimedOut(s, ids)
               e == [d EXCEPT !.partials = d.partials \ {j.id : j \in s.jobs \ r.jobs}] IN
           /\ r \in FileStates /\ e \in Disks /\ SameView(s, r) /\ RecordsHold(r, e, reports)
<1> DEFINE g(t) == IF t.id \in ids THEN [t EXCEPT !.status = "failed", !.deadline = FALSE] ELSE t
           f == [t \in s.transfers |-> g(t)]
           jobs == {j \in s.jobs : j.id \notin ids}
           handles == {h \in s.handles : h.id \notin ids}
           records == {g(t) : t \in s.transfers}
           r == [s EXCEPT !.transfers = records, !.handles = handles, !.jobs = jobs]
           gone == {j.id : j \in s.jobs \ r.jobs}
           e == [d EXCEPT !.partials = d.partials \ gone]
<1> SUFFICES r \in FileStates /\ e \in Disks /\ SameView(s, r) /\ RecordsHold(r, e, reports)
  BY DEF TimedOut
<1>1. s.transfers \in SUBSET FileRecords /\ s.jobs \in SUBSET FileJobs /\ s.handles \in SUBSET FileHandles
  BY FileParts
<1>2. ASSUME NEW t \in s.transfers
      PROVE  /\ g(t) \in FileRecords /\ g(t).id = t.id /\ g(t).upload = t.upload
             /\ g(t).source = t.source /\ CopyOf(g(t)) = CopyOf(t)
             /\ t.id \notin ids => g(t) = t
             /\ t.id \in ids => g(t).status = "failed" /\ t.status = "running"
  <2>1. t.id \in ids => t.status = "running"
    BY DEF RecordsHold, IdsAreOne, RunningIn
  <2> QED BY <1>1, <2>1, RecordFails
<1> HIDE DEF g
<1>3. records \in SUBSET FileRecords /\ jobs \in SUBSET FileJobs /\ handles \in SUBSET FileHandles
  BY <1>1, <1>2
<1>4. (\A t \in s.transfers : f[t] = g(t)) /\ records = {f[t] : t \in s.transfers}
  OBVIOUS
<1> HIDE DEF f, records, jobs, handles
<1>5. /\ r \in FileStates /\ SameView(s, r) /\ r.transfers = records /\ r.jobs = jobs
      /\ r.handles = handles /\ r.sequence = s.sequence /\ r.cache = s.cache
  BY <1>3 DEF FileStates, SameView, SamePlace
<1> HIDE DEF r
<1>6. /\ e \in Disks /\ e.partials = d.partials \ gone /\ e.importing = d.importing
      /\ e.imports = d.imports /\ e.staged = d.staged /\ e.stored = d.stored /\ e.thread = d.thread
  BY DEF Disks
<1> HIDE DEF e
<1>7. EndsFor(s, r, f, ids)
  BY <1>2, <1>4, <1>5 DEF EndsFor, jobs, handles
<1>8. KeepsFor(s, d, r, e, f)
  BY <1>2, <1>4, <1>6 DEF KeepsFor
<1>9. \A x \in e.partials : x \notin ids
  BY <1>6, <1>5 DEF RecordsHold, IdsAreOne, jobs
<1>10. e.staged \subseteq d.staged /\ e.partials \subseteq d.partials
  BY <1>6
<1>11. \A i \in 1 .. Len(reports) : reports[i].id \notin ids =>
           \E k \in 1 .. Len(reports) : reports[k].id = reports[i].id
  OBVIOUS
<1>12. OneThread(s, d, reports)
  BY DEF RecordsHold
<1>13. RecordsHold(r, e, reports)
  BY <1>6, <1>7, <1>8, <1>9, <1>10, <1>11, <1>12, EndedKeeps
<1> QED BY <1>5, <1>6, <1>13

\* An upload that is done has no source any more, and a download has its file.
LEMMA CompleteKeeps ==
    ASSUME NEW s \in FileStates, NEW d \in Disks, NEW reports, RecordsHold(s, d, reports),
           NEW id \in Nat, NEW ok, Succeeds(s, d, id, ok),
           NEW q, OneThread(s, d, q), directories \in Servers,
           \A i \in 1 .. Len(reports) : reports[i].id # id =>
              \E k \in 1 .. Len(q) : q[k].id = reports[i].id,
           NEW asked, NEW told, ListingHolds(s, asked, told, directories.stamp)
    PROVE  /\ Complete(s, RecordOf(s, id)) \in FileStates /\ Kept(s, d, id, ok) \in Disks
           /\ ListingHolds(Complete(s, RecordOf(s, id)), asked, told, directories.stamp)
           /\ RecordsHold(Complete(s, RecordOf(s, id)), Kept(s, d, id, ok), q)
<1>1. PICK t \in RunningIn(s) : t.id = id /\ (t.upload \/ id \in d.partials)
  BY DEF Succeeds
<1>2. t \in s.transfers /\ t.status = "running" /\ t \in FileRecords
  BY FileParts DEF RunningIn
<1>3. RecordOf(s, id) = t
  BY <1>1, <1>2, TransferIs DEF RecordsHold
<1>4. \A x \in s.transfers : x.id = id <=> x = t
  BY <1>1, <1>2 DEF RecordsHold, IdsAreOne
<1> DEFINE u == [t EXCEPT !.status = "complete", !.deadline = FALSE, !.source = 0]
           f == [x \in s.transfers |-> IF x.id = id THEN u ELSE x]
           records == (s.transfers \ {t}) \cup {u}
           jobs == {j \in s.jobs : j.id # id}
           handles == {h \in s.handles : h.id # id}
           completed == [s EXCEPT !.transfers = records, !.jobs = jobs, !.handles = handles]
           mark(x) == IF x.name = t.name /\ x.version = t.version /\ Here(s) = t.place
                      THEN [x EXCEPT !.local = TRUE] ELSE x
           shown == {mark(x) : x \in completed.entries}
           r == Complete(s, t)
           e == Kept(s, d, id, ok)
<1>5. /\ u \in FileRecords /\ u.id = t.id /\ u.upload = t.upload /\ u.source = 0
      /\ u.status = "complete" /\ CopyOf(u) = CopyOf(t)
  BY <1>2 DEF FileRecords, CopyOf
<1>6. records = {f[x] : x \in s.transfers}
  BY <1>4, <1>1, <1>2
<1>7. r = IF t.upload
          THEN IF s.open /\ Here(s) = t.place THEN FilesLoad(completed) ELSE completed
          ELSE [completed EXCEPT !.entries = shown]
  BY <1>1 DEF Complete
<1>8. s.transfers \in SUBSET FileRecords /\ s.jobs \in SUBSET FileJobs
      /\ s.handles \in SUBSET FileHandles /\ s.entries \in SUBSET ShownEntries
  BY FileParts
<1>9. \A x \in s.transfers : IF x.id = id THEN f[x] = u ELSE f[x] = x
  OBVIOUS
<1> HIDE DEF u, f
<1>10. records \in SUBSET FileRecords /\ jobs \in SUBSET FileJobs /\ handles \in SUBSET FileHandles
  BY <1>5, <1>8
<1> HIDE DEF records, jobs, handles
<1>11. /\ completed \in FileStates /\ SameView(s, completed) /\ completed.transfers = records /\ completed.jobs = jobs
       /\ completed.handles = handles /\ completed.sequence = s.sequence /\ completed.cache = s.cache
       /\ completed.entries = s.entries
  BY <1>10 DEF FileStates, SameView, SamePlace
<1> HIDE DEF completed
<1>12. shown \in SUBSET ShownEntries
  <2>1. \A x \in ShownEntries : [x EXCEPT !.local = TRUE] \in ShownEntries
    BY DEF ShownEntries
  <2>2. \A x \in s.entries : mark(x) \in ShownEntries
    BY <1>8, <2>1
  <2> HIDE DEF mark
  <2> QED BY <1>11, <2>2
<1> HIDE DEF shown
<1>13. ListingHolds(completed, asked, told, directories.stamp)
  BY <1>11, SameListing
<1>14. r \in FileStates /\ SameRecords(completed, r) /\ ListingHolds(r, asked, told, directories.stamp)
  <2>1. CASE t.upload /\ s.open /\ Here(s) = t.place
    <3>1. r = FilesLoad(completed)
      BY <1>7, <2>1
    <3> HIDE DEF r
    <3> QED BY <1>11, <1>13, <3>1, LoadIs, LoadListing
  <2>2. CASE t.upload /\ ~(s.open /\ Here(s) = t.place)
    BY <1>7, <2>2, <1>11, <1>13 DEF SameRecords
  <2>3. CASE ~t.upload
    BY <1>7, <2>3, <1>11, <1>12, <1>13, SameListing DEF FileStates, SameRecords, SameView,
       SamePlace
  <2> QED BY <2>1, <2>2, <2>3
<1> HIDE DEF r
<1>15. e = IF t.upload THEN [d EXCEPT !.staged = d.staged \ {t.source}]
           ELSE [d EXCEPT !.partials = d.partials \ {id}, !.stored = d.stored \cup {CopyOf(t)}]
  BY <1>3 DEF Kept, CopyOf
<1>16. CopyOf(t) \in Stored
  BY <1>2 DEF Disks, CopyOf, FileRecords, Stored
<1>17. /\ d \in Disks /\ d.staged \in SUBSET Nat /\ d.partials \in SUBSET Nat
       /\ d.stored \in SUBSET Stored
  BY DEF Disks
<1> HIDE DEF e
<1>18. /\ e \in Disks /\ e.importing = d.importing /\ e.imports = d.imports
       /\ e.thread = d.thread /\ e.partials = (IF t.upload THEN d.partials ELSE d.partials \ {id})
       /\ e.staged = (IF t.upload THEN d.staged \ {t.source} ELSE d.staged)
       /\ e.stored = (IF t.upload THEN d.stored ELSE d.stored \cup {CopyOf(t)})
  BY <1>15, <1>16, <1>17 DEF Disks
<1>19. EndsFor(s, r, f, {id})
  BY <1>11, <1>14, <1>1, <1>4, <1>5, <1>9, <1>6 DEF SameRecords, EndsFor, jobs, handles
<1>20. KeepsFor(s, d, r, e, f)
  BY <1>4, <1>9, <1>2, <1>18, <1>1, <1>5 DEF RecordsHold, SourcesAreOwn, KeepsFor
<1>21. \A x \in e.partials : x \notin {id}
  BY <1>1, <1>2, <1>18 DEF RecordsHold, IdsAreOne
<1>22. RecordsHold(r, e, q)
  BY <1>18, <1>19, <1>20, <1>21, EndedKeeps
<1> QED BY <1>3, <1>14, <1>18, <1>22 DEF r, e

-----------------------------------------------------------------------------
(* Channel files: reports                                                  *)

LEMMA ReportsTail ==
    ASSUME NEW s, NEW d, NEW reports \in Seq(FileUpdates), reports # << >>, OneThread(s, d, reports)
    PROVE  /\ OneThread(s, d, Tail(reports))
           /\ \A i \in 1 .. Len(reports) : reports[i].id # Head(reports).id =>
                 \E k \in 1 .. Len(Tail(reports)) : Tail(reports)[k].id = reports[i].id
           /\ Head(reports).id = 0 =>
                 /\ \A k \in 1 .. Len(Tail(reports)) : Tail(reports)[k].id # 0
                 /\ s.cache = IF Head(reports).clear THEN "clearing" ELSE "loading"
                 /\ d.thread = "none"
<1> DEFINE q == Tail(reports)
<1>1. /\ Head(reports) = reports[1] /\ Len(reports) \in Nat /\ Len(reports) >= 1
      /\ Len(q) = Len(reports) - 1
      /\ \A i \in 1 .. Len(q) : i + 1 \in 1 .. Len(reports) /\ q[i] = reports[i + 1]
  BY FilesTail
<1> HIDE DEF q
<1>2. ASSUME NEW i \in 1 .. Len(q), NEW k \in 1 .. Len(q), q[i].id = 0, q[k].id = 0 PROVE i = k
  <2>1. i + 1 = k + 1
    BY <1>1, <1>2 DEF OneThread
  <2> QED BY <2>1
<1>3. OneThread(s, d, q)
  BY <1>1, <1>2 DEF OneThread
<1>4. ASSUME NEW i \in 1 .. Len(reports), reports[i].id # reports[1].id
      PROVE  \E k \in 1 .. Len(q) : q[k].id = reports[i].id
  <2>1. i # 1 /\ i - 1 \in 1 .. Len(q) /\ (i - 1) + 1 = i
    BY <1>1, <1>4
  <2>2. q[i - 1] = reports[i]
    BY <1>1, <2>1
  <2> QED BY <2>1, <2>2
<1>5. 1 \in 1 .. Len(reports)
  BY <1>1
<1>6. ASSUME reports[1].id = 0, NEW k \in 1 .. Len(q), q[k].id = 0 PROVE FALSE
  BY <1>1, <1>5, <1>6 DEF OneThread
<1>7. reports[1].id = 0 =>
         /\ s.cache = IF reports[1].clear THEN "clearing" ELSE "loading"
         /\ d.thread = "none"
  BY <1>5 DEF OneThread
<1> QED BY <1>1, <1>3, <1>4, <1>6, <1>7 DEF q

\* update, Finished: whatever the record of the report has become meanwhile.
LEMMA EndedTransfer ==
    ASSUME NEW s \in FileStates, NEW d \in Disks, NEW reports \in Seq(FileUpdates), reports # << >>,
           RecordsHold(s, d, reports), NEW ok, directories \in Servers,
           NEW asked, NEW told, ListingHolds(s, asked, told, directories.stamp)
    PROVE  LET id == Head(reports).id
               r == Ended(s, d, id, ok)
               e == Kept(s, d, id, ok) IN
           /\ r \in FileStates /\ e \in Disks /\ RecordsHold(r, e, Tail(reports))
           /\ ListingHolds(r, asked, told, directories.stamp)
<1> DEFINE id == Head(reports).id
           q == Tail(reports)
<1>1. id \in Nat
  <2>1. Head(reports) \in FileUpdates
    BY FilesTail
  <2> QED BY <2>1 DEF FileUpdates
<1>2. /\ OneThread(s, d, q)
      /\ \A i \in 1 .. Len(reports) : reports[i].id # id =>
            \E k \in 1 .. Len(q) : q[k].id = reports[i].id
  BY ReportsTail DEF RecordsHold
<1> HIDE DEF id, q
<1>3. CASE Succeeds(s, d, id, ok)
  BY <1>3, <1>1, <1>2, CompleteKeeps DEF Ended, id, q
<1>4. CASE ~Succeeds(s, d, id, ok)
  BY <1>4, <1>1, <1>2, FailsKeeps, SameListing DEF Ended, id, q
<1> QED BY <1>3, <1>4

\* A record is dropped together with what it promised.
LEMMA SomeRecords ==
    ASSUME NEW s, NEW d, NEW q, RunningIn(s) = {}, IdsAreOne(s, d), SourcesAreOwn(s, d),
           NEW r, r.transfers \subseteq s.transfers, r.handles = s.handles, r.jobs = s.jobs,
           r.sequence = s.sequence, Have(r, d), OneThread(r, d, q)
    PROVE  RecordsHold(r, d, q)
  BY DEF RunningIn, IdsAreOne, Watched, SourcesAreOwn, RecordsHold

\* update, Cache: the copies are measured, or cleared.
LEMMA CacheUpdatedKeeps ==
    ASSUME FileTypes, RecordsHold(files, fileDisk, updates), updates # << >>, Head(updates).id = 0
    PROVE  LET r == CacheUpdated(Head(updates)) IN
           /\ r \in FileStates /\ SameView(files, r) /\ RecordsHold(r, fileDisk, Tail(updates))
<1> DEFINE u == Head(updates)
           q == Tail(updates)
           cache == IF u.ok THEN "ready" ELSE "failed"
           s == [files EXCEPT !.cache = cache]
           r == CacheUpdated(u)
<1>1. files \in FileStates /\ fileDisk \in Disks /\ updates \in Seq(FileUpdates)
  BY DEF FileTypes
<1>2. /\ OneThread(files, fileDisk, q)
      /\ \A i \in 1 .. Len(updates) : updates[i].id # 0 =>
            \E k \in 1 .. Len(q) : q[k].id = updates[i].id
      /\ \A k \in 1 .. Len(q) : q[k].id # 0
      /\ files.cache = IF u.clear THEN "clearing" ELSE "loading"
      /\ fileDisk.thread = "none"
  BY <1>1, ReportsTail DEF RecordsHold
<1>3. cache \in {"ready", "failed"}
  OBVIOUS
<1>4. r = IF u.clear THEN CacheCleared(s, fileDisk) ELSE s
  BY DEF CacheUpdated
<1> HIDE DEF u, q, cache, r
<1>5. /\ s \in FileStates /\ SameView(files, s) /\ s.transfers = files.transfers
      /\ s.handles = files.handles /\ s.jobs = files.jobs /\ s.sequence = files.sequence
      /\ s.cache = cache /\ s.entries = files.entries
  BY <1>1, <1>3 DEF FileStates, SameView, SamePlace
<1> HIDE DEF s
<1>6. IdsAreOne(s, fileDisk) /\ SourcesAreOwn(s, fileDisk)
  BY <1>5 DEF RunningIn, RecordsHold, IdsAreOne, SourcesAreOwn
<1>7. \A x : x.cache = cache => OneThread(x, fileDisk, q)
  BY <1>2, <1>3 DEF OneThread
<1>8. CASE ~u.clear
  BY <1>4, <1>8, <1>5, <1>2, <1>6, <1>7 DEF Watched, RunningIn, RecordsHold, IdsAreOne, Have,
     r, u, q
<1>9. CASE u.clear
  <2> DEFINE there(x) == x.local /\ [place |-> Here(s), name |-> x.name, version |-> x.version]
                                      \in fileDisk.stored
             entries == {[x EXCEPT !.local = there(x)] : x \in s.entries}
             stays(t) == IF t.upload THEN t.source \in fileDisk.staged
                         ELSE CopyOf(t) \in fileDisk.stored
             records == {t \in s.transfers : stays(t)}
  <2>1. r = [s EXCEPT !.entries = entries, !.transfers = records]
    BY <1>4, <1>9 DEF CacheCleared, CopyOf
  <2>2. entries \in SUBSET ShownEntries
    <3>1. s.entries \in SUBSET ShownEntries
      BY <1>5, FileParts
    <3>2. \A x \in s.entries : there(x) \in BOOLEAN
      OBVIOUS
    <3>3. \A x \in ShownEntries, b \in BOOLEAN : [x EXCEPT !.local = b] \in ShownEntries
      BY DEF ShownEntries
    <3> HIDE DEF there
    <3> QED BY <3>1, <3>2, <3>3
  <2>3. records \in SUBSET FileRecords
    BY <1>5, FileParts
  <2>4. \A t \in records : t \in s.transfers /\ stays(t)
    OBVIOUS
  <2> HIDE DEF entries, records
  <2>5. /\ r \in FileStates /\ SameView(s, r) /\ r.transfers = records /\ r.handles = s.handles
        /\ r.jobs = s.jobs /\ r.sequence = s.sequence /\ r.cache = cache
    BY <1>5, <2>1, <2>2, <2>3 DEF FileStates, SameView, SamePlace
  <2>6. RunningIn(s) = {}
    BY <1>2, <1>9, <1>5 DEF RecordsHold, OneThread, RunningIn
  <2>7. Have(r, fileDisk)
    BY <2>4, <2>5 DEF Have
  <2>8. records \subseteq s.transfers
    BY <2>4
  <2>9. RecordsHold(r, fileDisk, q)
    BY <1>6, <1>7, <2>5, <2>6, <2>7, <2>8, SomeRecords
  <2>10. SameView(files, r)
    BY <1>5, <2>5 DEF SameView, SamePlace
  <2> QED BY <2>5, <2>9, <2>10 DEF r, u, q
<1> QED BY <1>8, <1>9

-----------------------------------------------------------------------------
(* Channel files: transfers that begin                                     *)

\* The new record, as start writes it.
NewRecord(s, place, name, version, source) ==
    [id |-> s.sequence + 1, place |-> place, name |-> name, upload |-> source # 0,
     version |-> version, source |-> source, status |-> "running", deadline |-> TRUE]

\* What the source of a new transfer must be: staged, and of no record that stays.
SourceIsFree(s, d, place, name, source) ==
    source # 0 =>
        /\ source \in d.staged
        /\ \A t \in s.transfers : t.source = source => Same(t, place, name) /\ t.upload

LEMMA StartedIs ==
    ASSUME NEW s \in FileStates, fileLink \in FileLinks, NEW place \in Place, NEW name \in Names,
           NEW version \in Versions, NEW source \in Nat
    PROVE  LET r == Started(s, place, name, version, source)
               new == NewRecord(s, place, name, version, source) IN
           /\ r \in FileStates /\ SameView(s, r)
           /\ new \in FileRecords /\ new.id = s.sequence + 1 /\ new.source = source
           /\ (new.upload <=> source # 0) /\ new.status = "running" /\ new.deadline
           /\ r.transfers = {t \in s.transfers : ~(Same(t, place, name) /\ t.upload = (source # 0))}
                            \cup {new}
           /\ r.handles = s.handles \cup {[handle |-> fileLink.handles + 1, id |-> s.sequence + 1]}
           /\ r.jobs = s.jobs /\ r.sequence = s.sequence + 1 /\ r.cache = s.cache
<1> DEFINE r == Started(s, place, name, version, source)
           new == NewRecord(s, place, name, version, source)
           id == s.sequence + 1
           h == [handle |-> fileLink.handles + 1, id |-> id]
           records == {t \in s.transfers : ~(Same(t, place, name) /\ t.upload = (source # 0))} \cup {new}
           handles == s.handles \cup {h}
           upload == source # 0
<1>1. s.sequence \in Nat /\ id \in Nat /\ fileLink.handles + 1 \in Nat
  BY FileParts DEF FileLinks
<1>2. upload \in BOOLEAN
  OBVIOUS
<1>3. new = [id |-> id, place |-> place, name |-> name, upload |-> upload, version |-> version,
             source |-> source, status |-> "running", deadline |-> TRUE]
  BY DEF NewRecord
<1>4. (upload <=> source # 0) /\ records =
         {t \in s.transfers : ~(Same(t, place, name) /\ t.upload = upload)} \cup {new}
  OBVIOUS
<1>5. r = [s EXCEPT !.sequence = id, !.handles = handles, !.transfers = records]
  BY DEF Started, NewRecord
<1> HIDE DEF id, upload, new
<1>6. new \in FileRecords /\ new.id = id /\ new.source = source /\ new.upload = upload
      /\ new.status = "running" /\ new.deadline
  BY <1>1, <1>2, <1>3 DEF FileRecords
<1>7. handles \in SUBSET FileHandles
  BY <1>1, FileParts DEF FileHandles
<1>8. records \in SUBSET FileRecords
  BY <1>4, <1>6, FileParts
<1> HIDE DEF records, handles, r
<1>9. /\ r \in FileStates /\ SameView(s, r) /\ r.transfers = records /\ r.handles = handles
      /\ r.jobs = s.jobs /\ r.sequence = id /\ r.cache = s.cache
  BY <1>1, <1>5, <1>7, <1>8 DEF FileStates, SameView, SamePlace
<1> QED BY <1>4, <1>6, <1>9 DEF r, new, id, records, handles

LEMMA StartedKeeps ==
    ASSUME NEW s \in FileStates, NEW d \in Disks, NEW reports, RecordsHold(s, d, reports),
           fileLink \in FileLinks, NEW place \in Place, NEW name \in Names,
           NEW version \in Versions, NEW source \in Nat,
           TransferMayStart(s, place, name), SourceIsFree(s, d, place, name, source),
           NEW e \in Disks, e.staged = d.staged, e.stored = d.stored, e.partials = d.partials,
           e.thread = d.thread, e.imports = d.imports, e.importing \in {0, d.importing},
           source # 0 => e.importing # source
    PROVE  RecordsHold(Started(s, place, name, version, source), e, reports)
<1> DEFINE r == Started(s, place, name, version, source)
           new == NewRecord(s, place, name, version, source)
<1>1. /\ new.id = s.sequence + 1 /\ new.source = source
      /\ (new.upload <=> source # 0) /\ new.status = "running" /\ new.deadline
      /\ r.transfers = {t \in s.transfers : ~(Same(t, place, name) /\ t.upload = (source # 0))}
                       \cup {new}
      /\ r.handles = s.handles \cup {[handle |-> fileLink.handles + 1, id |-> s.sequence + 1]}
      /\ r.jobs = s.jobs /\ r.sequence = s.sequence + 1 /\ r.cache = s.cache
  BY StartedIs
<1> HIDE DEF r, new
<1>2. s.sequence \in Nat /\ s.transfers \in SUBSET FileRecords /\ d.importing \in Nat /\ d.imports \in Nat
      /\ s.jobs \in SUBSET FileJobs
  BY FileParts DEF Disks
<1>3. \A t \in r.transfers : t = new \/ t \in s.transfers
  BY <1>1
<1>4. new \in r.transfers /\ \A t \in RunningIn(s) : t \in r.transfers
  BY <1>1 DEF TransferMayStart, RunningIn
<1>5. \A t \in s.transfers : t.id \in 1 .. s.sequence /\ t.id # s.sequence + 1
  BY <1>2 DEF RecordsHold, IdsAreOne
<1>6. \A j \in s.jobs : \E t \in s.transfers : t.id = j.id
  BY DEF RecordsHold, IdsAreOne, RunningIn
<1>7. \A j \in s.jobs : j.id # s.sequence + 1
  BY <1>5, <1>6
<1>8. IdsAreOne(r, e)
  BY <1>1, <1>2, <1>3, <1>5, <1>4, <1>7 DEF RecordsHold, IdsAreOne, RunningIn
<1>9. Watched(r, reports)
  BY <1>1, <1>7, <1>3 DEF Watched, RecordsHold, RunningIn
<1>10. OneThread(r, e, reports)
  BY <1>1 DEF TransferMayStart, RecordsHold, OneThread
<1>11. \A t \in r.transfers : t # new => t.source = 0 \/ t.source # source
  BY <1>1, <1>2 DEF SourceIsFree, FileRecords
<1>12. SourcesAreOwn(r, e)
  BY <1>1, <1>3, <1>11, <1>2 DEF SourceIsFree, RecordsHold, SourcesAreOwn
<1>13. Have(r, e)
  BY <1>1, <1>3 DEF TransferMayStart, RecordsHold, Have, SourceIsFree
<1> QED BY <1>8, <1>9, <1>10, <1>12, <1>13 DEF RecordsHold, r

\* download, upload: the task of a transfer that has none.
LEMMA ConnectedKeeps ==
    ASSUME NEW s \in FileStates, NEW d \in Disks, NEW reports, RecordsHold(s, d, reports),
           NEW h \in s.handles, \A j \in s.jobs : j.id # h.id
    PROVE  LET r == Connected(s, h.id) IN
           r \in FileStates /\ SameView(s, r) /\ RecordsHold(r, d, reports)
<1> DEFINE id == h.id
           r == Connected(s, id)
           new == [id |-> id, at |-> "run"]
           g(t) == IF t.id = id THEN [t EXCEPT !.deadline = FALSE] ELSE t
           records == {g(t) : t \in s.transfers}
           jobs == s.jobs \cup {new}
<1>1. /\ s.transfers \in SUBSET FileRecords /\ s.jobs \in SUBSET FileJobs
      /\ s.handles \in SUBSET FileHandles
  BY FileParts
<1>2. ASSUME NEW t \in s.transfers
      PROVE  /\ g(t) \in FileRecords /\ g(t).id = t.id /\ g(t).upload = t.upload
             /\ g(t).source = t.source /\ CopyOf(g(t)) = CopyOf(t) /\ g(t).status = t.status
             /\ t.id # id => g(t) = t
             /\ t.id = id => ~g(t).deadline
  BY <1>1 DEF FileRecords, CopyOf
<1>3. r = [s EXCEPT !.jobs = jobs, !.transfers = records]
  BY DEF Connected
<1> HIDE DEF g
<1>4. records \in SUBSET FileRecords
  BY <1>2
<1>5. id \in Nat
  BY <1>1 DEF FileHandles
<1> HIDE DEF id
<1>6. new \in FileJobs /\ new.id = id /\ new.at = "run"
  BY <1>5 DEF FileJobs
<1>7. \A u \in records : \E t \in s.transfers : u = g(t)
  OBVIOUS
<1>8. \A t \in s.transfers : g(t) \in records
  OBVIOUS
<1> HIDE DEF new, records, r
<1>9. /\ r \in FileStates /\ SameView(s, r) /\ r.transfers = records /\ r.jobs = s.jobs \cup {new}
      /\ r.handles = s.handles /\ r.sequence = s.sequence /\ r.cache = s.cache
  BY <1>1, <1>3, <1>4, <1>6 DEF FileStates, SameView, SamePlace
<1>10. IdsAreOne(r, d)
  BY <1>2, <1>7, <1>9, <1>6, <1>8 DEF RecordsHold, IdsAreOne, id, RunningIn
<1>11. Watched(r, reports)
  BY <1>7, <1>9, <1>2, <1>6 DEF Watched, RunningIn, RecordsHold
<1>12. OneThread(r, d, reports)
  BY <1>2, <1>7, <1>9 DEF RunningIn, RecordsHold, OneThread
<1>13. SourcesAreOwn(r, d)
  BY <1>2, <1>7, <1>9 DEF RecordsHold, SourcesAreOwn
<1>14. Have(r, d)
  BY <1>7, <1>9, <1>2 DEF Have, RecordsHold
<1>15. RecordsHold(r, d, reports)
  BY <1>10, <1>11, <1>12, <1>13, <1>14 DEF RecordsHold
<1> QED BY <1>9, <1>15 DEF r, id

-----------------------------------------------------------------------------
(* Channel files: every step keeps the invariant                           *)

LEMMA SpentStays ==
    ASSUME FileTypes, Command \/ (\E b \in BOOLEAN : FilesTrouble(b)) \/ spent' = spent
    PROVE  spent' \in [commands : 0 .. MaxCommands, troubles : 0 .. FileTroubles]
  BY FilesAssumption DEF FileTypes, Command, FilesTrouble

LEMMA FilesParts ==
    ASSUME FilesInv
    PROVE  /\ files \in FileStates /\ fileDisk \in Disks /\ fileLink \in FileLinks
           /\ toFileServer \in Seq(FileCommands) /\ fromFileServer \in Seq(FileMessages)
           /\ fileReady \in SUBSET Connections /\ updates \in Seq(FileUpdates)
           /\ directories \in Servers /\ directories.stamp \in Nat
           /\ RecordsHold(files, fileDisk, updates)
           /\ ListingHolds(files, toFileServer, fromFileServer, directories.stamp)
           /\ files.open => files.channel \in Channels /\ Here(files) \in Place
  BY FileParts DEF FilesInv, FileTypes, Here, Place, ListingHolds, ReadLater, Servers

LEMMA FilesNow ==
    ASSUME FileTypes, Command \/ (\E b \in BOOLEAN : FilesTrouble(b)) \/ spent' = spent,
           files' \in FileStates, fileDisk' \in Disks, fileLink' \in FileLinks,
           toFileServer' \in Seq(FileCommands), fromFileServer' \in Seq(FileMessages),
           fileReady' \in SUBSET Connections, updates' \in Seq(FileUpdates),
           directories' \in Servers,
           NEW s, s = files', NEW d, d = fileDisk', NEW q, q = updates', NEW now, now = directories'.stamp,
           NEW asked, asked = toFileServer', NEW told, told = fromFileServer',
           RecordsHold(s, d, q), ListingHolds(s, asked, told, now)
    PROVE  FilesInv'
  BY SpentStays DEF FileTypes, FilesInv

\* A directory is read anew, wherever that is.
LEMMA LoadElsewhere ==
    ASSUME NEW s \in FileStates, directories \in Servers, NEW asked, NEW told,
           ListingHolds(s, asked, told, directories.stamp),
           NEW x \in FileStates, x.listing = s.listing, SameRecords(s, x), x.open => x.channel # 0
    PROVE  /\ FilesLoad(x) \in FileStates /\ SameRecords(s, FilesLoad(x))
           /\ ListingHolds(FilesLoad(x), asked, told, directories.stamp)
<1> DEFINE r == FilesLoad(x)
<1>1. /\ r \in FileStates /\ SameRecords(x, r) /\ SamePlace(x, r)
      /\ r.listing = [s.listing EXCEPT !.current = FALSE]
      /\ r.status = "loading" /\ r.since = directories.stamp
  BY LoadIs
<1> HIDE DEF r
<1>2. r.since <= directories.stamp
  BY <1>1 DEF Servers
<1>3. ListingHolds(r, asked, told, directories.stamp)
  BY <1>1, <1>2, OutdatedListing DEF SamePlace
<1> QED BY <1>1, <1>3 DEF SameRecords, r

\* What the user asks for is shown next.
LEMMA ViewPumps ==
    ASSUME FilesInv, NEW s \in FileStates, SameRecords(files, s),
           ListingHolds(s, toFileServer, fromFileServer, directories.stamp),
           Pump(s, fileDisk), Command, UNCHANGED <<fromFileServer, fileReady, updates, directories>>
    PROVE  FilesInv'
  BY FilesParts, RecordsStay, PumpKeeps, FilesNow DEF FilesInv

LEMMA FilesOpenKeeps ==
    ASSUME FilesInv, FilesOpen
    PROVE  FilesInv'
<1> DEFINE x == [files EXCEPT !.open = TRUE, !.path = "/"]
<1>1. /\ x \in FileStates /\ x.listing = files.listing /\ SameRecords(files, x)
      /\ x.channel = files.channel
  BY FilesParts DEF FileStates, SameRecords, Paths
<1>2. files.channel # 0 /\ Pump(FilesLoad(x), fileDisk) /\ Command
      /\ UNCHANGED <<fromFileServer, fileReady, updates, directories>>
  BY DEF FilesOpen
<1> HIDE DEF x
<1>3. /\ FilesLoad(x) \in FileStates /\ SameRecords(files, FilesLoad(x))
      /\ ListingHolds(FilesLoad(x), toFileServer, fromFileServer, directories.stamp)
  BY <1>1, <1>2, FilesParts, LoadElsewhere
<1> QED BY <1>2, <1>3, ViewPumps

LEMMA BackKeeps ==
    ASSUME FilesInv, FilesBack
    PROVE  FilesInv'
<1>1. Command /\ files.open /\ UNCHANGED <<fromFileServer, fileReady, updates, directories>>
  BY DEF FilesBack
<1>2. CASE files.path = "/"
  <2> DEFINE x == [files EXCEPT !.open = FALSE, !.entries = {}, !.queued = FALSE]
             r == NextGeneration(x)
  <2>1. /\ x \in FileStates /\ x.listing = files.listing /\ SameRecords(files, x) /\ ~x.open
        /\ x.since = files.since
    BY FilesParts DEF FileStates, SameRecords
  <2>2. Pump(r, fileDisk)
    BY <1>2 DEF FilesBack
  <2> HIDE DEF x
  <2>3. /\ r \in FileStates /\ SameRecords(x, r) /\ ~r.open /\ r.since = files.since
        /\ r.listing = [files.listing EXCEPT !.current = FALSE]
    BY <2>1, NextGenerationIs DEF SamePlace
  <2> HIDE DEF r
  <2>4. files.since <= directories.stamp
    BY FilesParts DEF ListingHolds, ReadLater
  <2>5. ListingHolds(r, toFileServer, fromFileServer, directories.stamp)
    BY <2>3, <2>4, FilesParts, OutdatedListing
  <2>6. SameRecords(files, r)
    BY <2>1, <2>3 DEF SameRecords
  <2> QED BY <1>1, <2>2, <2>3, <2>5, <2>6, ViewPumps
<1>3. CASE files.path # "/"
  <2> DEFINE x == [files EXCEPT !.path = "/"]
  <2>1. /\ x \in FileStates /\ x.listing = files.listing /\ SameRecords(files, x)
        /\ x.channel = files.channel /\ x.open = files.open
    BY FilesParts DEF FileStates, SameRecords, Paths
  <2>2. Pump(FilesLoad(x), fileDisk)
    BY <1>3 DEF FilesBack
  <2> HIDE DEF x
  <2>3. x.open => x.channel # 0
    BY <2>1, FilesParts, FilesAssumption
  <2>4. /\ FilesLoad(x) \in FileStates /\ SameRecords(files, FilesLoad(x))
        /\ ListingHolds(FilesLoad(x), toFileServer, fromFileServer, directories.stamp)
    BY <2>1, <2>3, FilesParts, LoadElsewhere
  <2> QED BY <1>1, <2>2, <2>4, ViewPumps
<1> QED BY <1>2, <1>3

LEMMA ListKeeps ==
    ASSUME FilesInv, NEW path \in Paths, FilesList(path)
    PROVE  FilesInv'
<1> DEFINE x == [files EXCEPT !.path = path]
<1>1. /\ x \in FileStates /\ x.listing = files.listing /\ SameRecords(files, x)
      /\ x.channel = files.channel /\ x.open = files.open
  BY FilesParts DEF FileStates, SameRecords
<1>2. Pump(FilesLoad(x), fileDisk) /\ Command
      /\ UNCHANGED <<fromFileServer, fileReady, updates, directories>>
  BY DEF FilesList
<1> HIDE DEF x
<1>3. x.open => x.channel # 0
  BY <1>1, FilesParts, FilesAssumption
<1>4. /\ FilesLoad(x) \in FileStates /\ SameRecords(files, FilesLoad(x))
      /\ ListingHolds(FilesLoad(x), toFileServer, fromFileServer, directories.stamp)
  BY <1>1, <1>3, FilesParts, LoadElsewhere
<1> QED BY <1>2, <1>4, ViewPumps

LEMMA StartKeeps ==
    ASSUME FilesInv, NEW place \in Place, NEW name \in Names, NEW version \in Versions,
           NEW source \in Nat, StartTransfer(place, name, version, source),
           SourceIsFree(files, fileDisk, place, name, source),
           NEW e \in Disks, e = fileDisk',
           e.staged = fileDisk.staged, e.stored = fileDisk.stored, e.partials = fileDisk.partials,
           e.thread = fileDisk.thread, e.imports = fileDisk.imports,
           e.importing \in {0, fileDisk.importing}, source # 0 => e.importing # source,
           Command, UNCHANGED <<fromFileServer, fileReady, updates, directories>>
    PROVE  FilesInv'
<1> DEFINE r == Started(files, place, name, version, source)
           op == IF source # 0 THEN "upload" ELSE "download"
           c == [op |-> op, place |-> place, name |-> name, handle |-> fileLink.handles + 1]
<1>1. /\ TransferMayStart(files, place, name) /\ files' = r
      /\ fileLink' = [fileLink EXCEPT !.handles = fileLink.handles + 1]
      /\ toFileServer' = Append(toFileServer, c)
  BY DEF StartTransfer
<1>2. fileLink.handles + 1 \in Nat /\ fileLink \in FileLinks
  BY FilesParts DEF FileLinks
<1>3. fileLink' \in FileLinks
  BY <1>1, <1>2 DEF FileLinks
<1>4. op \in {"list", "download", "upload"} /\ op # "list"
  OBVIOUS
<1> HIDE DEF op, r
<1>5. c \in FileCommands /\ c.op # "list"
  BY <1>2, <1>4 DEF FileCommands
<1> HIDE DEF c
<1>6. toFileServer' \in Seq(FileCommands)
  BY <1>1, <1>5, FilesParts, FilesAppend
<1>7. r \in FileStates /\ SameView(files, r)
  BY <1>2, FilesParts, StartedIs DEF r
<1>8. RecordsHold(r, e, updates)
  BY <1>1, <1>2, FilesParts, StartedKeeps DEF r
<1>9. ListingHolds(r, toFileServer, fromFileServer, directories.stamp)
  BY <1>7, FilesParts, SameListing
<1>10. ListingHolds(r, Append(toFileServer, c), fromFileServer, directories.stamp)
  BY <1>5, <1>9, FilesParts, AskedListing
<1> QED BY <1>1, <1>3, <1>6, <1>7, <1>8, <1>10, FilesParts, FilesNow DEF FilesInv

LEMMA FileDownloadKeeps ==
    ASSUME FilesInv, NEW x \in files.entries, FilesDownload(x)
    PROVE  FilesInv'
  BY FilesParts, FileParts, StartKeeps DEF FilesDownload, ShownEntries, SourceIsFree

LEMMA UploadKeeps ==
    ASSUME FilesInv, NEW place \in Place, NEW name \in Names, FilesUpload(place, name)
    PROVE  FilesInv'
<1> DEFINE source == fileDisk.importing
           e == [fileDisk EXCEPT !.importing = 0]
<1>1. /\ Command /\ source # 0 /\ source \in fileDisk.staged
      /\ StartTransfer(place, name, 1, source) /\ fileDisk' = e
      /\ UNCHANGED <<fromFileServer, fileReady, updates, directories>>
  BY DEF FilesUpload
<1>2. /\ source \in Nat /\ e \in Disks
      /\ e.staged = fileDisk.staged /\ e.stored = fileDisk.stored /\ e.partials = fileDisk.partials
      /\ e.thread = fileDisk.thread /\ e.imports = fileDisk.imports /\ e.importing = 0
  BY FilesParts DEF Disks
<1> HIDE DEF source, e
<1>3. 1 \in Versions
  BY FilesAssumption DEF Versions
<1>4. \A t \in files.transfers : t.source # source
  BY <1>1, FilesParts DEF RecordsHold, SourcesAreOwn, source
<1>5. SourceIsFree(files, fileDisk, place, name, source)
  BY <1>1, <1>4 DEF SourceIsFree
<1> QED BY <1>1, <1>2, <1>3, <1>5, StartKeeps

LEMMA RetryKeeps ==
    ASSUME FilesInv, NEW t \in files.transfers, FilesRetry(t)
    PROVE  FilesInv'
  BY FilesParts, FileParts, StartKeeps DEF FilesRetry, FileRecords, RecordsHold,
     SourcesAreOwn, SourceIsFree, Same

\* Only records, the disk or reports change: nobody is asked, and nothing is told.
LEMMA RecordsNow ==
    ASSUME FilesInv, Command \/ (\E b \in BOOLEAN : FilesTrouble(b)) \/ spent' = spent,
           NEW s \in FileStates, s = files', SameView(files, s),
           NEW d \in Disks, d = fileDisk', NEW q \in Seq(FileUpdates), q = updates',
           RecordsHold(s, d, q),
           fileReady' \in SUBSET Connections,
           UNCHANGED <<fileLink, toFileServer, fromFileServer, directories>>
    PROVE  FilesInv'
  BY FilesParts, SameListing, FilesNow DEF FilesInv

LEMMA SameViewIs == \A s : SameView(s, s)
  BY DEF SameView, SamePlace

LEMMA ImportKeeps ==
    ASSUME FilesInv, Import
    PROVE  FilesInv'
<1> DEFINE n == fileDisk.imports + 1
           e == [fileDisk EXCEPT !.importing = n, !.imports = n, !.staged = fileDisk.staged \cup {n}]
<1>1. fileDisk \in Disks /\ fileDisk.imports \in Nat /\ fileDisk.staged \in SUBSET Nat
  BY FilesParts DEF Disks
<1>2. n \in Nat /\ n > fileDisk.imports
  BY <1>1
<1>3. fileDisk' = e /\ UNCHANGED <<files, fileLink, toFileServer, fromFileServer, fileReady,
                                   updates, directories, spent>>
  BY DEF Import
<1> HIDE DEF n
<1>4. /\ e \in Disks /\ e.importing = n /\ e.imports = n /\ e.staged = fileDisk.staged \cup {n}
      /\ e.stored = fileDisk.stored /\ e.partials = fileDisk.partials /\ e.thread = fileDisk.thread
  BY <1>1, <1>2 DEF Disks
<1> HIDE DEF e
<1>5. RecordsHold(files, fileDisk, updates) /\ files \in FileStates
  BY FilesParts
<1>6. \A t \in files.transfers : t.source \in Nat
  BY <1>5, FileParts DEF FileRecords
<1>7. SourcesAreOwn(files, e)
  BY <1>1, <1>2, <1>4, <1>5, <1>6 DEF RecordsHold, SourcesAreOwn
<1>8. IdsAreOne(files, e) /\ OneThread(files, e, updates) /\ Have(files, e)
  BY <1>4, <1>5 DEF RecordsHold, IdsAreOne, OneThread, Have
<1>9. RecordsHold(files, e, updates)
  BY <1>5, <1>7, <1>8 DEF RecordsHold
<1> QED BY <1>3, <1>4, <1>9, FilesParts, RecordsNow, SameViewIs

LEMMA RejectKeeps ==
    ASSUME FilesInv, RejectUpload
    PROVE  FilesInv'
<1> DEFINE left == {x \in fileDisk.staged :
                       x # fileDisk.importing \/ \E t \in files.transfers : t.source = x}
           e == [fileDisk EXCEPT !.importing = 0, !.staged = left]
<1>1. fileDisk \in Disks /\ fileDisk.staged \in SUBSET Nat /\ fileDisk.imports \in Nat
  BY FilesParts DEF Disks
<1>2. left \subseteq fileDisk.staged
  OBVIOUS
<1>3. \A t \in files.transfers : t.source \in fileDisk.staged => t.source \in left
  OBVIOUS
<1>4. Command /\ fileDisk' = e /\ UNCHANGED <<files, fileLink, toFileServer, fromFileServer,
                                             fileReady, updates, directories>>
  BY DEF RejectUpload
<1> HIDE DEF left
<1>5. /\ e \in Disks /\ e.importing = 0 /\ e.imports = fileDisk.imports /\ e.staged = left
      /\ e.stored = fileDisk.stored /\ e.partials = fileDisk.partials /\ e.thread = fileDisk.thread
  BY <1>1, <1>2 DEF Disks
<1> HIDE DEF e
<1>6. RecordsHold(files, fileDisk, updates) /\ files \in FileStates
  BY FilesParts
<1>7. SourcesAreOwn(files, e)
  BY <1>2, <1>5, <1>6, <1>1 DEF RecordsHold, SourcesAreOwn
<1>8. IdsAreOne(files, e) /\ OneThread(files, e, updates)
  BY <1>5, <1>6 DEF RecordsHold, IdsAreOne, OneThread
<1>9. Have(files, e)
  BY <1>3, <1>5, <1>6 DEF RecordsHold, Have
<1>10. RecordsHold(files, e, updates)
  BY <1>6, <1>7, <1>8, <1>9 DEF RecordsHold
<1> QED BY <1>4, <1>5, <1>10, FilesParts, RecordsNow, SameViewIs

\* The thread starts when no other works and no report of one waits.
LEMMA CacheKeeps ==
    ASSUME FilesInv, NEW clear \in BOOLEAN, FileCache(clear)
    PROVE  FilesInv'
<1> DEFINE cache == IF clear THEN "clearing" ELSE "loading"
           thread == IF clear THEN "clear" ELSE "measure"
           r == [files EXCEPT !.cache = cache]
           e == [fileDisk EXCEPT !.thread = thread]
<1>1. /\ Command /\ files' = r /\ fileDisk' = e
      /\ files.cache \notin {"loading", "clearing"} /\ (clear => ~FilesBusy(files))
      /\ UNCHANGED <<fileLink, toFileServer, fromFileServer, fileReady, updates, directories>>
  BY DEF FileCache, MayClear
<1>2. /\ cache \in {"clearing", "loading"} /\ thread \in {"clear", "measure"}
      /\ (cache = "clearing" <=> clear) /\ (thread = "clear" <=> clear)
  OBVIOUS
<1> HIDE DEF cache, thread
<1>3. /\ r \in FileStates /\ SameView(files, r) /\ r.transfers = files.transfers
      /\ r.handles = files.handles /\ r.jobs = files.jobs /\ r.sequence = files.sequence
      /\ r.cache = cache
  BY <1>2, FilesParts DEF FileStates, SameView, SamePlace
<1>4. /\ e \in Disks /\ e.thread = thread /\ e.importing = fileDisk.importing
      /\ e.imports = fileDisk.imports /\ e.staged = fileDisk.staged
      /\ e.stored = fileDisk.stored /\ e.partials = fileDisk.partials
  BY <1>2, FilesParts DEF Disks
<1> HIDE DEF r, e
<1>5. RecordsHold(files, fileDisk, updates)
  BY FilesParts
<1>6. \A i \in 1 .. Len(updates) : updates[i].id # 0
  BY <1>1, <1>5 DEF RecordsHold, OneThread
<1>7. RunningIn(r) = RunningIn(files)
  BY <1>3 DEF RunningIn
<1>8. OneThread(r, e, updates)
  BY <1>1, <1>2, <1>3, <1>4, <1>6, <1>7 DEF OneThread, FilesBusy
<1>9. Have(r, e)
  BY <1>1, <1>3, <1>4, <1>5 DEF RecordsHold, Have
<1>10. IdsAreOne(r, e) /\ Watched(r, updates) /\ SourcesAreOwn(r, e)
  BY <1>3, <1>4, <1>5, <1>7 DEF RecordsHold, IdsAreOne, Watched, SourcesAreOwn
<1>11. RecordsHold(r, e, updates)
  BY <1>8, <1>9, <1>10 DEF RecordsHold
<1> QED BY <1>1, <1>3, <1>4, <1>11, FilesParts, RecordsNow

-----------------------------------------------------------------------------
(* Channel files: the session                                              *)

LEMMA MessageKeeps ==
    ASSUME FilesInv, TakeFilesMessage
    PROVE  FilesInv'
<1> DEFINE r == Told(Head(fromFileServer))
<1>1. /\ fromFileServer # << >> /\ Head(fromFileServer).kind # "refused" /\ Pump(r, fileDisk)
      /\ fromFileServer' = Tail(fromFileServer) /\ UNCHANGED <<fileReady, updates, directories, spent>>
  BY DEF TakeFilesMessage
<1>2. /\ r \in FileStates /\ SameRecords(files, r)
      /\ ListingHolds(r, toFileServer, Tail(fromFileServer), directories.stamp)
  BY <1>1, FilesParts, ToldKeeps DEF FilesInv
<1> HIDE DEF r
<1>3. RecordsHold(r, fileDisk, updates)
  BY <1>2, FilesParts, RecordsStay
<1>4. Tail(fromFileServer) \in Seq(FileMessages)
  BY <1>1, FilesParts, FilesTail
<1>5. PICK asked : asked = toFileServer'
  OBVIOUS
<1>6. /\ files' \in FileStates /\ fileDisk' \in Disks /\ fileLink' \in FileLinks
      /\ toFileServer' \in Seq(FileCommands)
      /\ RecordsHold(files', fileDisk', updates)
      /\ ListingHolds(files', asked, Tail(fromFileServer), directories.stamp)
  BY <1>1, <1>2, <1>3, <1>4, <1>5, FilesParts, PumpKeeps
<1> QED BY <1>1, <1>4, <1>5, <1>6, FilesParts, FilesNow DEF FilesInv

LEMMA TransferFailedKeeps ==
    ASSUME FilesInv, NEW handle, FileTransferFailed(handle)
    PROVE  /\ files' \in FileStates /\ fileDisk' \in Disks /\ SameView(files, files')
           /\ RecordsHold(files', fileDisk', updates)
<1>1. CASE Owner(handle) = {}
  BY <1>1, FilesParts, SameViewIs DEF FileTransferFailed
<1>2. CASE Owner(handle) # {}
  <2> DEFINE id == CHOOSE id \in Owner(handle) : TRUE
  <2>1. id \in Owner(handle)
    BY <1>2
  <2>2. files' = Fails(files, id) /\ fileDisk' = Kept(files, fileDisk, id, FALSE)
    BY <1>2 DEF FileTransferFailed
  <2> HIDE DEF id
  <2>3. id \in Nat
    BY <2>1, FilesParts, FileParts DEF Owner, FileHandles
  <2>4. ~Succeeds(files, fileDisk, id, FALSE)
    BY DEF Succeeds
  <2>5. \A i \in 1 .. Len(updates) : updates[i].id # id =>
           \E k \in 1 .. Len(updates) : updates[k].id = updates[i].id
    OBVIOUS
  <2>6. OneThread(files, fileDisk, updates)
    BY FilesParts DEF RecordsHold
  <2>7. /\ Fails(files, id) \in FileStates /\ Kept(files, fileDisk, id, FALSE) \in Disks
        /\ SameView(files, Fails(files, id))
        /\ RecordsHold(Fails(files, id), Kept(files, fileDisk, id, FALSE), updates)
    BY <2>3, <2>4, <2>5, <2>6, FilesParts, FailsKeeps
  <2> QED BY <2>2, <2>7
<1> QED BY <1>1, <1>2

LEMMA RefusalKeeps ==
    ASSUME FilesInv, TakeRefusal
    PROVE  FilesInv'
<1>1. /\ fromFileServer # << >> /\ fromFileServer' = Tail(fromFileServer)
      /\ UNCHANGED <<fileLink, toFileServer, fileReady, updates, directories, spent>>
      /\ (files' = files /\ fileDisk' = fileDisk) \/ FileTransferFailed(Head(fromFileServer).handle)
  BY DEF TakeRefusal
<1>2. /\ files' \in FileStates /\ fileDisk' \in Disks /\ SameView(files, files')
      /\ RecordsHold(files', fileDisk', updates)
  BY <1>1, FilesParts, SameViewIs, TransferFailedKeeps
<1>3. PICK s \in FileStates : s = files'
  BY <1>2
<1>4. ListingHolds(files, toFileServer, Tail(fromFileServer), directories.stamp)
      /\ Tail(fromFileServer) \in Seq(FileMessages)
  BY <1>1, FilesParts, TailListing, FilesTail
<1>5. ListingHolds(s, toFileServer, Tail(fromFileServer), directories.stamp)
  BY <1>2, <1>3, <1>4, SameListing
<1> QED BY <1>1, <1>2, <1>3, <1>4, <1>5, FilesParts, FilesNow DEF FilesInv

LEMMA ConnectionKeeps ==
    ASSUME FilesInv, NEW c \in fileReady, TakeConnection(c)
    PROVE  FilesInv'
<1>1. /\ fileReady' = fileReady \ {c}
      /\ UNCHANGED <<fileLink, toFileServer, fromFileServer, updates, directories, spent>>
  BY DEF TakeConnection
<1>2. /\ files' \in FileStates /\ fileDisk' \in Disks /\ SameView(files, files')
      /\ RecordsHold(files', fileDisk', updates)
  <2>1. CASE FileTransferFailed(c.handle)
    BY <2>1, TransferFailedKeeps
  <2>2. CASE files' = files /\ fileDisk' = fileDisk
    BY <2>2, FilesParts, SameViewIs
  <2>3. CASE /\ Owner(c.handle) # {}
             /\ LET id == CHOOSE id \in Owner(c.handle) : TRUE
                IN /\ id \notin {j.id : j \in files.jobs}
                   /\ files' = Connected(files, id) /\ fileDisk' = fileDisk
    BY <2>3, FilesParts, ConnectedKeeps DEF Owner
  <2> QED BY <2>1, <2>2, <2>3 DEF TakeConnection
<1>3. fileReady' \in SUBSET Connections
  BY <1>1, FilesParts
<1> QED BY <1>1, <1>2, <1>3, FilesParts, RecordsNow

LEMMA UpdateKeeps ==
    ASSUME FilesInv, TakeUpdate
    PROVE  FilesInv'
<1> DEFINE u == Head(updates)
           q == Tail(updates)
<1>1. /\ updates # << >> /\ updates' = q /\ UNCHANGED <<fromFileServer, fileReady, directories, spent>>
      /\ IF u.id = 0 THEN Pump(CacheUpdated(u), fileDisk)
         ELSE Pump(Ended(files, fileDisk, u.id, u.ok), Kept(files, fileDisk, u.id, u.ok))
  BY DEF TakeUpdate
<1>2. q \in Seq(FileUpdates)
  BY <1>1, FilesParts, FilesTail
<1>3. ASSUME NEW s \in FileStates, NEW d \in Disks, Pump(s, d), RecordsHold(s, d, q),
             ListingHolds(s, toFileServer, fromFileServer, directories.stamp)
      PROVE  FilesInv'
  <2>1. PICK asked : asked = toFileServer'
    OBVIOUS
  <2> HIDE DEF q
  <2>2. /\ files' \in FileStates /\ fileDisk' \in Disks /\ fileLink' \in FileLinks
        /\ toFileServer' \in Seq(FileCommands)
        /\ RecordsHold(files', fileDisk', q)
        /\ ListingHolds(files', asked, fromFileServer, directories.stamp)
    BY <1>3, <2>1, FilesParts, PumpKeeps
  <2> QED BY <1>1, <1>2, <2>1, <2>2, FilesParts, FilesNow DEF FilesInv
<1>4. CASE u.id = 0
  BY <1>1, <1>4, FilesParts, CacheUpdatedKeeps, SameListing, <1>3 DEF FilesInv
<1>5. CASE u.id # 0
  BY <1>1, FilesParts, EndedTransfer, <1>3, <1>5
<1> QED BY <1>4, <1>5

\* The barrier stays where it is when the listing took too long.
LEMMA LateKeeps ==
    ASSUME NEW s \in FileStates, s.listing # NoListing, NEW asked, NEW told, NEW now,
           ListingHolds(s, asked, told, now)
    PROVE  /\ ListingLate(s) \in FileStates /\ SameRecords(s, ListingLate(s))
           /\ ListingHolds(ListingLate(s), asked, told, now)
<1> DEFINE l == [s.listing EXCEPT !.expired = TRUE]
           status == IF Current(s) THEN "failed" ELSE s.status
           r == ListingLate(s)
<1>1. s.listing \in Listing
  BY FileParts, ListingKinds
<1>2. /\ l \in Listing /\ l.handle = s.listing.handle /\ l.current = s.listing.current
      /\ l.acknowledged = s.listing.acknowledged /\ l.stamp = s.listing.stamp
  BY <1>1 DEF Listing
<1>3. l # NoListing
  BY <1>2, ListingKinds
<1>4. status \in {"idle", "loading", "ready", "failed"} /\ (status = "ready" => s.status = "ready")
  BY FileParts
<1>5. r = [s EXCEPT !.listing = l, !.status = status]
  BY DEF ListingLate
<1> HIDE DEF l, status, r
<1>6. /\ r \in FileStates /\ SameRecords(s, r) /\ SamePlace(s, r) /\ r.listing = l
      /\ r.status = status /\ r.since = s.since /\ r.from = s.from /\ r.stamp = s.stamp
  BY <1>2, <1>4, <1>5 DEF FileStates, SameRecords, SamePlace
<1>7. ListingHolds(r, asked, told, now)
  BY <1>2, <1>3, <1>4, <1>6, ListingLike
<1> QED BY <1>6, <1>7 DEF r

LEMMA QueueLateKeeps ==
    ASSUME NEW s \in FileStates, NEW asked, NEW told, NEW now, ListingHolds(s, asked, told, now)
    PROVE  /\ QueueLate(s) \in FileStates /\ SameRecords(s, QueueLate(s))
           /\ ListingHolds(QueueLate(s), asked, told, now)
  BY ListingLike DEF SameRecords, FileStates, SamePlace, QueueLate

LEMMA FilesTickKeeps ==
    ASSUME FilesInv, NEW late \in BOOLEAN, NEW ids, FilesTick(late, ids)
    PROVE  FilesInv'
<1> DEFINE s == IF late THEN ListingLate(files) ELSE files
           f == TimedOut(s, ids)
           r == QueueLate(f)
           e == [fileDisk EXCEPT !.partials = fileDisk.partials \ {j.id : j \in files.jobs \ f.jobs}]
<1>1. /\ late => files.listing # NoListing
      /\ ids \subseteq {t.id : t \in {t \in RunningIn(files) : t.deadline}}
      /\ Pump(r, e) /\ UNCHANGED <<fromFileServer, fileReady, updates, directories, spent>>
  BY DEF FilesTick
<1>2. /\ s \in FileStates /\ SameRecords(files, s)
      /\ ListingHolds(s, toFileServer, fromFileServer, directories.stamp)
  BY <1>1, FilesParts, LateKeeps DEF SameRecords
<1> HIDE DEF s
<1>3. RecordsHold(s, fileDisk, updates)
  BY <1>2, FilesParts, RecordsStay
<1>4. s.transfers = files.transfers /\ s.jobs = files.jobs /\ RunningIn(s) = RunningIn(files)
  BY <1>2 DEF SameRecords, RunningIn
<1>5. ids \subseteq {t.id : t \in RunningIn(s)}
  BY <1>1, <1>4
<1>6. \A t \in RunningIn(s) : t.id \in ids => t.deadline
  BY <1>1, <1>4, <1>3 DEF RecordsHold, IdsAreOne, RunningIn
<1>7. /\ f \in FileStates /\ e \in Disks /\ SameView(s, f) /\ RecordsHold(f, e, updates)
  BY <1>2, <1>3, <1>4, <1>5, <1>6, FilesParts, TimedOutKeeps
<1> HIDE DEF f, e
<1>8. ListingHolds(f, toFileServer, fromFileServer, directories.stamp)
  BY <1>2, <1>7, SameListing
<1>9. /\ r \in FileStates /\ SameRecords(f, r)
      /\ ListingHolds(r, toFileServer, fromFileServer, directories.stamp)
  BY <1>7, <1>8, QueueLateKeeps
<1>10. RecordsHold(r, e, updates)
  BY <1>7, <1>9, RecordsStay
<1> HIDE DEF r
<1>11. PICK asked : asked = toFileServer'
  OBVIOUS
<1>12. /\ files' \in FileStates /\ fileDisk' \in Disks /\ fileLink' \in FileLinks
       /\ toFileServer' \in Seq(FileCommands)
       /\ RecordsHold(files', fileDisk', updates)
       /\ ListingHolds(files', asked, fromFileServer, directories.stamp)
  BY <1>1, <1>7, <1>9, <1>10, <1>11, FilesParts, PumpKeeps
<1> QED BY <1>1, <1>11, <1>12, FilesParts, FilesNow DEF FilesInv

LEMMA DroppedKeeps ==
    ASSUME FilesInv, FilesInterrupted
    PROVE  FilesInv'
<1> DEFINE r == FilesDisconnected(files)
           e == [fileDisk EXCEPT !.partials = fileDisk.partials \ {j.id : j \in files.jobs}]
<1>1. /\ FilesTrouble(TRUE) /\ files' = r /\ fileDisk' = e
      /\ fileLink' = [up |-> FALSE, handles |-> 0, codes |-> 0]
      /\ toFileServer' = << >> /\ fromFileServer' = << >> /\ fileReady' = {}
      /\ directories' = [directories EXCEPT !.channel = 0] /\ updates' = updates
  BY DEF FilesInterrupted
<1>2. files.since <= directories.stamp
  BY FilesParts DEF ListingHolds, ReadLater
<1>3. /\ r \in FileStates /\ e \in Disks /\ RecordsHold(r, e, updates)
      /\ ListingHolds(r, << >>, << >>, directories.stamp)
  BY <1>2, FilesParts, DisconnectedKeeps
<1> HIDE DEF r, e
<1>4. directories' \in Servers /\ directories'.stamp = directories.stamp
  BY <1>1, FilesParts DEF Servers
<1>5. fileLink' \in FileLinks /\ toFileServer' \in Seq(FileCommands) /\ fromFileServer' \in Seq(FileMessages)
  BY <1>1 DEF FileLinks
<1>6. FileTypes /\ updates' \in Seq(FileUpdates) /\ fileReady' \in SUBSET Connections
  BY <1>1, FilesParts DEF FilesInv
<1> QED BY <1>1, <1>3, <1>4, <1>5, <1>6, FilesNow

LEMMA ReconnectKeeps ==
    ASSUME FilesInv, NEW channel \in Channels, Reconnect(channel)
    PROVE  FilesInv'
<1> DEFINE r == ApplyContext(files, channel)
<1>1. /\ files' = r /\ fileLink' = [fileLink EXCEPT !.up = TRUE]
      /\ directories' = [directories EXCEPT !.channel = channel]
      /\ UNCHANGED <<fileDisk, toFileServer, fromFileServer, fileReady, updates, spent>>
  BY DEF Reconnect
<1>2. /\ r \in FileStates /\ SameRecords(files, r)
      /\ ListingHolds(r, toFileServer, fromFileServer, directories.stamp)
  BY FilesParts, ApplyContextKeeps
<1> HIDE DEF r
<1>3. RecordsHold(r, fileDisk, updates)
  BY <1>2, FilesParts, RecordsStay
<1>4. directories' \in Servers /\ directories'.stamp = directories.stamp
  BY <1>1, FilesParts DEF Servers
<1>5. fileLink' \in FileLinks
  BY <1>1, FilesParts DEF FileLinks
<1> QED BY <1>1, <1>2, <1>3, <1>4, <1>5, FilesParts, FilesNow DEF FilesInv

-----------------------------------------------------------------------------
(* Channel files: the tasks, the thread and the server                     *)

LEMMA ServeFilesKeeps ==
    ASSUME FilesInv, ServeFiles
    PROVE  FilesInv'
  BY FilesParts, ServerKeeps, FilesNow DEF ServeFiles, FilesInv

LEMMA DirectoryChanges ==
    ASSUME directories \in Servers, NEW place \in Place, NEW list \in SUBSET Entry,
           directories' = [directories EXCEPT !.stamp = @ + 1, !.dirs[place] = list]
    PROVE  directories' \in Servers /\ directories'.stamp = directories.stamp + 1
<1> DEFINE n == directories.stamp + 1
           g == [directories.dirs EXCEPT ![place] = list]
<1>1. n \in Nat /\ g \in [Place -> SUBSET Entry]
  BY DEF Servers
<1>2. directories' = [directories EXCEPT !.stamp = n, !.dirs = g]
  OBVIOUS
<1> HIDE DEF n, g
<1>3. directories' \in Servers /\ directories'.stamp = n
  BY <1>1, <1>2 DEF Servers
<1> QED BY <1>3 DEF n

LEMMA ChangeKeeps ==
    ASSUME FilesInv, NEW place \in Place, NEW x \in Entry, NEW removed \in BOOLEAN,
           ChangeByOther(place, x, removed)
    PROVE  FilesInv'
<1> DEFINE list == (directories.dirs[place] \ {x}) \cup
                       IF removed THEN {} ELSE {[x EXCEPT !.version = x.version + 1]}
<1>1. /\ FilesTrouble(TRUE) /\ x.version <= FileTroubles
      /\ directories' = [directories EXCEPT !.stamp = @ + 1, !.dirs[place] = list]
      /\ UNCHANGED <<files, fileDisk, fileLink, toFileServer, fromFileServer, fileReady, updates>>
  BY DEF ChangeByOther
<1>2. x.version + 1 \in Versions /\ x.name \in Names
  BY <1>1, FilesAssumption DEF Entry, Versions
<1>3. [x EXCEPT !.version = x.version + 1] \in Entry
  BY <1>2 DEF Entry
<1>4. directories.dirs \in [Place -> SUBSET Entry] /\ directories.stamp \in Nat
  BY FilesParts DEF Servers
<1>5. list \in SUBSET Entry
  BY <1>3, <1>4
<1> HIDE DEF list
<1>6. directories' \in Servers /\ directories'.stamp = directories.stamp + 1
  BY <1>1, <1>5, FilesParts, DirectoryChanges
<1>7. directories.stamp + 1 \in Nat /\ directories.stamp <= directories.stamp + 1
  BY <1>4
<1>8. ListingHolds(files, toFileServer, fromFileServer, directories.stamp + 1)
  BY <1>4, <1>7, FilesParts, LaterListing
<1> QED BY <1>1, <1>6, <1>8, FilesParts, FilesNow DEF FilesInv

LEMMA MoveKeeps ==
    ASSUME FilesInv, NEW channel \in Channels, MoveClient(channel)
    PROVE  FilesInv'
<1> DEFINE place == [channel |-> channel, path |-> "/"]
           m == Message("moved", place, {}, 0)
<1>1. /\ FilesTrouble(TRUE) /\ fromFileServer' = Append(fromFileServer, m)
      /\ directories' = [directories EXCEPT !.channel = channel]
      /\ UNCHANGED <<files, fileDisk, fileLink, toFileServer, fileReady, updates>>
  BY DEF MoveClient
<1>2. place \in Place
  BY DEF Place, Paths
<1> HIDE DEF place
<1>3. m \in FileMessages /\ m.kind = "moved"
  BY <1>2, FilesParts, MessageIs
<1> HIDE DEF m
<1>4. ~Tells(m)
  BY <1>3 DEF Tells
<1>5. /\ Append(fromFileServer, m) \in Seq(FileMessages)
      /\ ListingHolds(files, toFileServer, Append(fromFileServer, m), directories.stamp)
  BY <1>3, <1>4, FilesParts, FilesAppend, NoticedListing
<1>6. directories' \in Servers /\ directories'.stamp = directories.stamp
  BY <1>1, FilesParts DEF Servers
<1> QED BY <1>1, <1>5, <1>6, FilesParts, FilesNow DEF FilesInv

LEMMA ClearFileKeeps ==
    ASSUME FilesInv, ClearFile
    PROVE  FilesInv'
  BY FilesParts, RecordsNow, SameViewIs DEF ClearFile, Disks, RecordsHold, OneThread,
     SourcesAreOwn, Have, IdsAreOne

\* Reports that are still there after another one.
LEMMA WatchedLonger ==
    ASSUME NEW s, NEW reports \in Seq(FileUpdates), Watched(s, reports), NEW u \in FileUpdates
    PROVE  Watched(s, Append(reports, u))
  BY FilesAppend DEF Watched

LEMMA CacheDoneKeeps ==
    ASSUME FilesInv, NEW ok \in BOOLEAN, CacheDone(ok)
    PROVE  FilesInv'
<1> DEFINE clear == fileDisk.thread = "clear"
           u == [id |-> 0, ok |-> ok, clear |-> clear]
           q == Append(updates, u)
           e == [fileDisk EXCEPT !.thread = "none"]
<1>1. /\ fileDisk.thread # "none" /\ FilesTrouble(~ok) /\ updates' = q /\ fileDisk' = e
      /\ UNCHANGED <<files, fileLink, toFileServer, fromFileServer, fileReady, directories>>
  BY DEF CacheDone
<1>2. clear \in BOOLEAN
  OBVIOUS
<1>3. fileDisk \in Disks /\ fileDisk.thread \in {"none", "clear", "measure"}
  BY FilesParts DEF Disks
<1>4. RecordsHold(files, fileDisk, updates) /\ updates \in Seq(FileUpdates)
  BY FilesParts
<1>5. files.cache = IF clear THEN "clearing" ELSE "loading"
  BY <1>1, <1>3, <1>4 DEF RecordsHold, OneThread
<1> HIDE DEF clear
<1>6. u \in FileUpdates /\ u.id = 0 /\ u.clear = clear
  BY <1>2 DEF FileUpdates
<1> HIDE DEF u
<1>7. /\ e \in Disks /\ e.thread = "none" /\ e.staged = fileDisk.staged /\ e.stored = fileDisk.stored
      /\ e.partials = fileDisk.partials /\ e.importing = fileDisk.importing
      /\ e.imports = fileDisk.imports
  BY <1>3 DEF Disks
<1> HIDE DEF e
<1>8. q \in Seq(FileUpdates) /\ Watched(files, q)
  BY <1>4, <1>6, FilesAppend, WatchedLonger DEF RecordsHold
<1>9. \A i \in 1 .. Len(updates) : updates[i].id # 0
  BY <1>1, <1>4 DEF RecordsHold, OneThread
<1>10. \A i \in 1 .. Len(q) : q[i].id = 0 => i = Len(updates) + 1 /\ q[i] = u
  BY <1>4, <1>6, <1>9, FilesAppend
<1> HIDE DEF q
<1>11. OneThread(files, e, q)
  BY <1>4, <1>5, <1>6, <1>7, <1>10 DEF RecordsHold, OneThread
<1>12. IdsAreOne(files, e) /\ SourcesAreOwn(files, e) /\ Have(files, e)
  BY <1>4, <1>7 DEF RecordsHold, IdsAreOne, SourcesAreOwn, Have
<1>13. RecordsHold(files, e, q)
  BY <1>8, <1>11, <1>12 DEF RecordsHold
<1>14. \E b \in BOOLEAN : FilesTrouble(b)
  BY <1>1
<1> QED BY <1>1, <1>7, <1>8, <1>13, <1>14, FilesParts, RecordsNow, SameViewIs

\* A task reports, and leaves its job to the session.
LEMMA TaskEndsKeeps ==
    ASSUME FilesInv, NEW j \in files.jobs, NEW ok \in BOOLEAN, NEW arrives \in BOOLEAN,
           TaskEnds(j, ok, arrives)
    PROVE  FilesInv'
<1> DEFINE t == RecordOf(files, j.id)
           over == [j EXCEPT !.at = "over"]
           r == [files EXCEPT !.jobs = (files.jobs \ {j}) \cup {over}]
           u == [id |-> j.id, ok |-> ok, clear |-> FALSE]
           q == Append(updates, u)
           e == IF ok /\ ~t.upload
                THEN [fileDisk EXCEPT !.partials = fileDisk.partials \cup {j.id}] ELSE fileDisk
           list == directories.dirs[t.place] \cup {[name |-> t.name, version |-> 1]}
<1>1. /\ files' = r /\ updates' = q /\ fileDisk' = e /\ FilesTrouble(~ok)
      /\ UNCHANGED <<fileLink, toFileServer, fromFileServer, fileReady>>
  BY DEF TaskEnds
<1>2. directories' = IF arrives
                     THEN [directories EXCEPT !.stamp = @ + 1, !.dirs[t.place] = list]
                     ELSE directories
  BY DEF TaskEnds
<1>3. /\ RecordsHold(files, fileDisk, updates) /\ files \in FileStates /\ fileDisk \in Disks
      /\ updates \in Seq(FileUpdates)
  BY FilesParts
<1>4. IdsAreOne(files, fileDisk)
  BY <1>3 DEF RecordsHold
<1>5. PICK x \in RunningIn(files) : x.id = j.id
  BY <1>4 DEF IdsAreOne
<1>6. t = x
  BY <1>3, <1>4, <1>5, TransferIs DEF RunningIn
<1>7. /\ t \in files.transfers /\ t \in FileRecords /\ t.id = j.id /\ t.id \in 1 .. files.sequence
      /\ t.status = "running"
  BY <1>3, <1>4, <1>5, <1>6, FileParts DEF RunningIn, IdsAreOne
<1> HIDE DEF t
<1>8. j.id \in Nat /\ j.id # 0 /\ j \in FileJobs
  BY <1>3, <1>7, FileParts DEF FileJobs
<1>9. over \in FileJobs /\ over.id = j.id /\ over.at = "over"
  BY <1>8 DEF FileJobs
<1> HIDE DEF over
<1>10. /\ r \in FileStates /\ SameView(files, r) /\ r.transfers = files.transfers
       /\ r.handles = files.handles /\ r.jobs = (files.jobs \ {j}) \cup {over}
       /\ r.sequence = files.sequence /\ r.cache = files.cache
  BY <1>3, <1>9, FileParts DEF FileStates, SameView, SamePlace
<1> HIDE DEF r
<1>11. u \in FileUpdates /\ u.id = j.id
  BY <1>8 DEF FileUpdates
<1> HIDE DEF u
<1>12. /\ q \in Seq(FileUpdates) /\ \E i \in 1 .. Len(q) : q[i].id = j.id
       /\ \A i \in 1 .. Len(q) : q[i].id = 0 => i \in 1 .. Len(updates) /\ q[i] = updates[i]
       /\ \A i \in 1 .. Len(updates) : i \in 1 .. Len(q) /\ q[i] = updates[i]
  BY <1>3, <1>8, <1>11, FilesAppend
<1> HIDE DEF q
<1>13. /\ e \in Disks /\ e.thread = fileDisk.thread /\ e.staged = fileDisk.staged
       /\ e.stored = fileDisk.stored /\ e.importing = fileDisk.importing
       /\ e.imports = fileDisk.imports
       /\ \A id \in e.partials : id \in fileDisk.partials \/ (id = j.id /\ ~t.upload)
  BY <1>3, <1>8 DEF Disks
<1> HIDE DEF e
<1>14. RunningIn(r) = RunningIn(files)
  BY <1>10 DEF RunningIn
<1>15. IdsAreOne(r, e)
  BY <1>4, <1>9, <1>10, <1>13, <1>7, <1>14 DEF IdsAreOne
<1>16. Watched(r, q)
  <2> SUFFICES ASSUME NEW y \in RunningIn(files)
               PROVE  \/ y.deadline /\ \A k \in r.jobs : k.id # y.id
                      \/ /\ ~y.deadline
                         /\ \E k \in r.jobs : k.id = y.id /\
                               (k.at = "over" => \E i \in 1 .. Len(q) : q[i].id = y.id)
    BY <1>14 DEF Watched
  <2>1. CASE y.deadline /\ \A k \in files.jobs : k.id # y.id
    BY <1>9, <1>10, <2>1
  <2>2. CASE y.id = j.id /\ ~y.deadline
    BY <1>9, <1>10, <1>12, <2>2
  <2>3. CASE y.id # j.id /\ ~y.deadline
    BY <1>3, <2>3, <1>10, <1>12 DEF RecordsHold, Watched
  <2>4. (y.deadline /\ \A k \in files.jobs : k.id # y.id) \/ ~y.deadline
    BY <1>3 DEF RecordsHold, Watched
  <2> QED BY <2>1, <2>2, <2>3, <2>4
<1>17. OneThread(r, e, q)
  BY <1>3, <1>10, <1>12, <1>13, <1>14 DEF RecordsHold, OneThread
<1>18. SourcesAreOwn(r, e) /\ Have(r, e)
  BY <1>3, <1>10, <1>13 DEF RecordsHold, SourcesAreOwn, Have
<1>19. RecordsHold(r, e, q)
  BY <1>15, <1>16, <1>17, <1>18 DEF RecordsHold
<1>20. directories' \in Servers /\ directories'.stamp \in Nat /\ directories.stamp <= directories'.stamp
  <2>1. CASE arrives
    <3>1. t.place \in Place /\ [name |-> t.name, version |-> 1] \in Entry
      BY <1>7, FilesAssumption DEF FileRecords, Entry, Versions
    <3>2. list \in SUBSET Entry
      BY <3>1, FilesParts DEF Servers
    <3> HIDE DEF list
    <3>3. directories' \in Servers /\ directories'.stamp = directories.stamp + 1
      BY <1>2, <2>1, <3>1, <3>2, FilesParts, DirectoryChanges
    <3> QED BY <3>3, FilesParts
  <2>2. CASE ~arrives
    BY <1>2, <2>2, FilesParts
  <2> QED BY <2>1, <2>2
<1>21. PICK now \in Nat : now = directories'.stamp
  BY <1>20
<1>22. ListingHolds(files, toFileServer, fromFileServer, now)
  BY <1>20, <1>21, FilesParts, LaterListing
<1>23. ListingHolds(r, toFileServer, fromFileServer, now)
  BY <1>10, <1>22, SameListing
<1>24. FileTypes /\ \E b \in BOOLEAN : FilesTrouble(b)
  BY <1>1 DEF FilesInv
<1> QED BY <1>1, <1>10, <1>12, <1>13, <1>19, <1>20, <1>21, <1>23, <1>24, FilesParts, FilesNow

-----------------------------------------------------------------------------
(* Channel files: what always holds                                        *)

LEMMA FilesBegin == FilesInit => FilesInv
<1> SUFFICES ASSUME FilesInit PROVE FilesInv
  OBVIOUS
<1>1. /\ NoListing \in Listing \cup {NoListing}
      /\ [channel |-> 0, path |-> "/"] \in [channel : Channels \cup {0}, path : Paths]
  BY DEF Paths
<1>2. files \in FileStates
  BY <1>1 DEF FilesInit, FreshFiles, FileStates, Paths
<1>3. fileDisk \in Disks /\ fileLink \in FileLinks
  BY DEF FilesInit, Disks, FileLinks
<1>4. 1 \in Versions
  BY FilesAssumption DEF Versions
<1>5. {[name |-> "f", version |-> 1]} \in SUBSET Entry
  BY <1>4 DEF Entry, Names
<1>6. directories \in Servers /\ directories.stamp = 0
  BY <1>5 DEF FilesInit, Servers
<1>7. spent \in [commands : 0 .. MaxCommands, troubles : 0 .. FileTroubles]
  BY FilesAssumption DEF FilesInit
<1>8. FileTypes
  BY <1>2, <1>3, <1>6, <1>7 DEF FilesInit, FileTypes
<1>9. /\ files.transfers = {} /\ files.jobs = {} /\ files.handles = {} /\ files.cache = "idle"
      /\ fileDisk.partials = {} /\ fileDisk.staged = {} /\ fileDisk.thread = "none"
      /\ fileDisk.importing = 0 /\ fileDisk.imports = 0 /\ Len(updates) = 0
  BY DEF FilesInit, FreshFiles
<1>10. RecordsHold(files, fileDisk, updates)
  BY <1>9 DEF RecordsHold, IdsAreOne, Watched, OneThread, SourcesAreOwn, Have, RunningIn
<1>11. /\ ~files.open /\ files.since = 0 /\ ~files.listing.current
       /\ Len(toFileServer) = 0 /\ Len(fromFileServer) = 0
  BY DEF FilesInit, FreshFiles, NoListing
<1>12. ListingHolds(files, toFileServer, fromFileServer, directories.stamp)
  BY <1>6, <1>11 DEF ListingHolds, OneListing, ReadLater
<1> QED BY <1>8, <1>10, <1>12 DEF FilesInv

LEMMA FilesStep == FilesInv /\ [FilesNext]_filesVars => FilesInv'
<1> SUFFICES ASSUME FilesInv, [FilesNext]_filesVars PROVE FilesInv'
  OBVIOUS
<1>1. CASE UserStep
  <2>1. ASSUME NEW path \in Paths, FilesList(path) PROVE FilesInv'
    BY <2>1, ListKeeps
  <2>2. ASSUME NEW x \in files.entries, FilesDownload(x) PROVE FilesInv'
    BY <2>2, FileDownloadKeeps
  <2>3. ASSUME NEW place \in Place, NEW name \in Names, FilesUpload(place, name) PROVE FilesInv'
    BY <2>3, UploadKeeps
  <2>4. ASSUME NEW t \in files.transfers, FilesRetry(t) PROVE FilesInv'
    BY <2>4, RetryKeeps
  <2>5. ASSUME NEW clear \in BOOLEAN, FileCache(clear) PROVE FilesInv'
    BY <2>5, CacheKeeps
  <2> QED BY <1>1, <2>1, <2>2, <2>3, <2>4, <2>5, FilesOpenKeeps, BackKeeps, ImportKeeps, RejectKeeps
          DEF UserStep
<1>2. CASE FilesSessionStep
  BY ConnectionKeeps, FilesTickKeeps, ReconnectKeeps, <1>2, MessageKeeps, RefusalKeeps,
     UpdateKeeps, DroppedKeeps DEF FilesSessionStep
<1>3. CASE DiskStep
  BY TaskEndsKeeps, CacheDoneKeeps, <1>3, ClearFileKeeps DEF DiskStep
<1>4. CASE FileServerStep
  BY ChangeKeeps, MoveKeeps, <1>4, ServeFilesKeeps DEF FileServerStep
<1>5. CASE UNCHANGED filesVars
  BY <1>5, FilesParts, FilesNow DEF filesVars, FilesInv
<1> QED BY <1>1, <1>2, <1>3, <1>4, <1>5 DEF FilesNext

\* What carries the files: a listing on its way is the only one, so its answer
\* is told from others; records, handles, jobs and what is on the disk agree.
THEOREM FilesAreInvariant == FilesSpec => []FilesInv
  BY FilesBegin, FilesStep, PTL DEF FilesSpec

\* What is shown of a directory was read in that directory after the user
\* asked for it, whatever answers were still on their way.
THEOREM ListingsAreFresh == FilesSpec => []ListIsFresh
<1>1. FilesInv => ListIsFresh
  BY DEF FilesInv, ListingHolds, ReadLater, ListIsFresh
<1> QED BY <1>1, FilesAreInvariant, PTL

\* download and upload find the record of their handle, which runs; a job has
\* a handle, and a partial file a job that renames or removes it.
THEOREM FileHandlesLead == FilesSpec => []HandlesLead
<1>1. FilesInv => HandlesLead
  BY DEF FilesInv, RecordsHold, IdsAreOne, HandlesLead
<1> QED BY <1>1, FilesAreInvariant, PTL

\* The records do not promise more than the disk has.
THEOREM FilesBehindRecords == FilesSpec => []RecordsHaveFiles
<1>1. FilesInv => RecordsHaveFiles
  BY DEF FilesInv, RecordsHold, Have, CopyOf, RecordsHaveFiles
<1> QED BY <1>1, FilesAreInvariant, PTL

\* Whatever runs has a timer, or a task that has yet to report or has reported.
THEOREM TransfersAreWatched == FilesSpec => []RunningIsWatched
<1>1. FilesInv => RunningIsWatched
  BY DEF FilesInv, RecordsHold, Watched, RunningIsWatched
<1> QED BY <1>1, FilesAreInvariant, PTL
\* Types, numbers given out, and what the user and the network may still do.
THEOREM FilesTypesHold == FilesSpec => []FilesTypeOK
<1>1. FilesInv => FilesTypeOK
  <2> SUFFICES ASSUME FilesInv PROVE FilesTypeOK
    OBVIOUS
  <2>1. /\ RecordsHold(files, fileDisk, updates) /\ files \in FileStates /\ fileDisk \in Disks
        /\ IdsAreOne(files, fileDisk)
    BY FilesParts DEF RecordsHold
  <2>2. \A t \in files.transfers : t.id \in 1 .. files.sequence
    BY <2>1 DEF IdsAreOne
  <2>3. \A j \in files.jobs : j.id \in 1 .. files.sequence
    BY <2>1 DEF IdsAreOne, RunningIn
  <2>4. \A id \in fileDisk.partials : id \in 1 .. files.sequence
    BY <2>1, <2>3 DEF IdsAreOne
  <2>5. \A j \in files.jobs : j.at \in {"run", "over"}
    BY <2>1, FileParts DEF FileJobs
  <2>6. fileDisk.stored \subseteq Stored /\ fileDisk.staged \subseteq 1 .. fileDisk.imports
    BY <2>1 DEF Disks, RecordsHold, SourcesAreOwn
  <2>7. /\ files.channel \in Channels \cup {0} /\ files.path \in Paths
        /\ files.status \in {"idle", "loading", "ready", "failed"}
        /\ files.cache \in {"idle", "loading", "clearing", "ready", "failed"}
        /\ files.entries \in SUBSET ShownEntries /\ files.listing \in Listing \cup {NoListing}
    BY <2>1, FileParts
  <2>8. spent.commands \in 0 .. MaxCommands /\ spent.troubles \in 0 .. FileTroubles
    BY DEF FilesInv, FileTypes
  <2> QED BY <2>2, <2>3, <2>4, <2>5, <2>6, <2>7, <2>8 DEF FilesTypeOK, ShownEntries
<1> QED BY <1>1, FilesAreInvariant, PTL

-----------------------------------------------------------------------------
(* Network quality: the bars tell what was observed                        *)


Ages == Nat \cup {Net!Never}
Onward == [level : 0 .. Levels, age : 0 .. Recovery]
Measured == [age : Nat, level : Net!Level]
Choices == BOOLEAN
Histories ==
    [event : Ages, rtt : Ages, shown : Choices, icon : 0 .. Levels, axis : Net!Level,
     iconRecovery : Onward, axisRecovery : Onward, samples : SUBSET Measured, late : Choices]
Statistics == [level : Net!Level, age : Ages, new : Choices]
Observed == [icon : [Net!Level -> Ages], axis : [Net!Level -> Ages], last : Ages]

\* A recovery that has begun is behind what was observed.
Backed(recovery, seen) ==
    recovery # Net!NoRecovery => recovery.level \in Net!Level /\ seen[recovery.level] >= recovery.age

Unshown(h) == h.icon = 0 /\ h.iconRecovery = Net!NoRecovery /\ h.axisRecovery = Net!NoRecovery

\* A gap in what was heard is a gap in what was observed.
Heard ==
    /\ net.event # Net!Never /\ net.rtt # Net!Never
    /\ watch.last >= net.event
    /\ (watch.last > Freshness \/ watch.last >= slept)
    /\ (slept <= Freshness => watch.last <= 2 * net.event)

OfNow(h) ==
    h.late \/ /\ (h.shown => h.event <= Freshness /\ h.rtt <= RttFreshness)
              /\ \A s \in h.samples : s.age < Window

QualityInv ==
    /\ net \in Histories /\ stats \in Statistics /\ slept \in Nat /\ watch \in Observed
    /\ (stats.new => stats.age # Net!Never)
    /\ (net.shown => Heard /\ net.icon # 0) /\ (~net.shown => Unshown(net))
    /\ Backed(net.iconRecovery, watch.icon) /\ Backed(net.axisRecovery, watch.axis)
    /\ OfNow(net)

LEMMA LeastIs ==
    ASSUME NEW T \in SUBSET Nat, T # {}
    PROVE  \E x \in T : \A y \in T : x <= y
<1> DEFINE below == {pair \in Nat \X Nat : pair[1] < pair[2]}
<1>1. IsWellFoundedOn(below, Nat)
  BY NatLessThanWellFounded DEF OpToRel
<1> HIDE DEF below
<1>2. PICK x \in T : \A y \in T : ~(<<y, x>> \in below)
  BY <1>1, WFMin
<1>3. \A y \in T : ~(y < x)
  BY <1>2 DEF below
<1> QED BY <1>3

LEMMA WorstIs ==
    ASSUME NEW T \in SUBSET Net!Level, T # {}
    PROVE  Net!Max(T) \in T /\ \A y \in T : y <= Net!Max(T)
<1> DEFINE above == {u \in Nat : \A y \in T : y <= u}
<1>1. T \in SUBSET (1 .. Levels) /\ Levels \in Nat
  BY QualityAssumption DEF Net!Level
<1>2. Levels \in above /\ above \in SUBSET Nat
  BY <1>1
<1>3. PICK m \in above : \A u \in above : m <= u
  BY <1>2, LeastIs
<1>4. m \in T
  <2> SUFFICES ASSUME m \notin T PROVE FALSE
    OBVIOUS
  <2>1. PICK y \in T : TRUE
    OBVIOUS
  <2>2. m \in Nat /\ m >= y /\ m # y /\ y \in 1 .. Levels
    BY <1>1, <2>1
  <2>3. \A x \in T : x <= m - 1
    BY <1>1
  <2>4. m - 1 \in above
    BY <2>2, <2>3
  <2> QED BY <1>3, <2>2, <2>4
<1>5. \E x \in T : \A y \in T : x >= y
  BY <1>1, <1>4
<1>6. Net!Max(T) \in T /\ \A y \in T : Net!Max(T) >= y
  BY <1>5 DEF Net!Max
<1> QED BY <1>1, <1>6

LEMMA LesserIs ==
    ASSUME NEW a \in Int, NEW b \in Int
    PROVE  Net!Min({a, b}) = IF a <= b THEN a ELSE b
<1> DEFINE T == {a, b}
           m == Net!Min(T)
<1>1. \E x \in T : \A y \in T : x <= y
  BY a <= b \/ b <= a
<1>2. m \in T /\ \A y \in T : m <= y
  BY <1>1 DEF Net!Min
<1> QED BY <1>2

LEMMA OlderIs ==
    ASSUME NEW age \in Ages, NEW by \in Nat, NEW cap \in Nat
    PROVE  /\ Net!Older(age, by, cap) =
                IF age = Net!Never THEN Net!Never ELSE IF age + by <= cap THEN age + by ELSE cap
           /\ Net!Older(age, by, cap) \in Ages
  BY LesserIs DEF Net!Older, Ages

LEMMA HistoryFields ==
    ASSUME NEW h \in Histories
    PROVE  /\ h.event \in Ages /\ h.rtt \in Ages /\ h.icon \in 0 .. Levels /\ h.axis \in Net!Level
           /\ h.iconRecovery \in Onward /\ h.axisRecovery \in Onward
           /\ h.samples \in SUBSET Measured /\ h.late \in Choices /\ h.shown \in Choices
BY DEF Histories

LEMMA ChoicesAre == TRUE \in Choices /\ FALSE \in Choices
BY DEF Choices

LEMMA NoRecoveryIs == Net!NoRecovery \in Onward /\ Net!NoRecovery.level \notin Net!Level
BY QualityAssumption DEF Net!NoRecovery, Onward, Net!Level

LEMMA BlankIs ==
    ASSUME NEW h \in Histories, NEW b, b = Net!Blank(h)
    PROVE  /\ b \in Histories /\ ~b.shown /\ Unshown(b)
           /\ b.event = h.event /\ b.rtt = h.rtt /\ b.axis = h.axis
           /\ b.samples = h.samples /\ b.late = h.late
<1>1. b = [h EXCEPT !.shown = FALSE, !.icon = 0, !.iconRecovery = Net!NoRecovery,
                    !.axisRecovery = Net!NoRecovery]
  BY DEF Net!Blank
<1>2. 0 \in 0 .. Levels
  BY QualityAssumption
<1> QED BY <1>1, <1>2, ChoicesAre, NoRecoveryIs DEF Histories, Unshown

Asleep == slept > Freshness
Present == ~Asleep /\ net.event # Net!Never /\ net.event <= Freshness /\ net.shown /\ Net!RttFresh(net)

LEMMA AdvancedIs ==
    ASSUME NEW a, a = Net!Advanced, net \in Histories, slept \in Nat
    PROVE  /\ a \in Histories /\ ~a.late /\ \A s \in a.samples : s.age < Window
           /\ (a.axis = net.axis \/ (Asleep /\ a.axis = 1))
           /\ (~Present => ~a.shown /\ Unshown(a))
           /\ (Present => /\ a.shown = net.shown /\ a.event = net.event /\ a.rtt = net.rtt
                          /\ a.icon = net.icon /\ a.axis = net.axis
                          /\ a.iconRecovery = net.iconRecovery /\ a.axisRecovery = net.axisRecovery)
<1> DEFINE woken == IF Asleep THEN [net EXCEPT !.event = Net!Never, !.rtt = Net!Never] ELSE net
           late == IF Asleep THEN slept ELSE 0
           samples == {[s EXCEPT !.age = @ + late] : s \in net.samples}
           kept == {s \in samples : s.age < Window}
           axis == IF Asleep /\ kept = {} THEN 1 ELSE woken.axis
           h == [woken EXCEPT !.samples = kept, !.late = FALSE, !.axis = axis]
<1>1. late \in Nat
  BY DEF Asleep
<1> HIDE DEF late
<1>2. samples \in SUBSET Measured
  BY HistoryFields, <1>1 DEF Measured
<1> HIDE DEF samples
<1>3. kept \in SUBSET Measured /\ \A s \in kept : s.age < Window
  BY <1>2
<1> HIDE DEF kept
<1>4. /\ woken \in Histories /\ woken.axis = net.axis /\ woken.shown = net.shown
      /\ woken.icon = net.icon /\ woken.iconRecovery = net.iconRecovery
      /\ woken.axisRecovery = net.axisRecovery
      /\ (Asleep => woken.event = Net!Never) /\ (~Asleep => woken = net)
  BY DEF Histories, Ages
<1> HIDE DEF woken
<1>5. axis \in Net!Level /\ (axis = net.axis \/ (Asleep /\ axis = 1)) /\ (~Asleep => axis = net.axis)
  BY <1>4, HistoryFields, QualityAssumption DEF Net!Level
<1> HIDE DEF axis
<1>6. /\ h \in Histories /\ h.samples = kept /\ ~h.late /\ h.axis = axis
      /\ h.event = woken.event /\ h.rtt = woken.rtt /\ h.shown = woken.shown /\ h.icon = woken.icon
      /\ h.iconRecovery = woken.iconRecovery /\ h.axisRecovery = woken.axisRecovery
  BY <1>3, <1>4, <1>5, ChoicesAre DEF Histories
<1>7. a = IF \/ h.event = Net!Never \/ h.event > Freshness
             \/ ~h.shown \/ ~Net!RttFresh(h)
            THEN Net!Blank(h) ELSE h
  BY Zenon DEF Net!Advanced, h, axis, woken, kept, samples, late, Asleep
<1> HIDE DEF h
<1>8. h.event \in Ages
  BY <1>6, HistoryFields
<1>9. CASE Present
  <2>1. h.event = net.event /\ h.rtt = net.rtt /\ h.shown = net.shown
    BY <1>9, <1>4, <1>6 DEF Present
  <2>2. a = h
    BY <2>1, <1>9, <1>8, QualityAssumption, <1>7 DEF Present, Net!RttFresh, Ages, Net!Never
  <2> QED BY <1>9, <2>1, <2>2, <1>3, <1>4, <1>5, <1>6 DEF Present
<1>10. CASE ~Present
  BY <1>7, <1>4, <1>6, <1>8, QualityAssumption, <1>10, BlankIs, <1>3, <1>5 DEF Ages,
     Net!Never, Present, Net!RttFresh
<1> QED BY <1>9, <1>10

\* What falls has been observed for long enough.
LEMMA BufferedIs ==
    ASSUME NEW current \in Nat, NEW wanted \in Net!Level, NEW recovery \in Onward,
           NEW seen \in [Net!Level -> Ages], NEW r, r = Net!Buffered(current, wanted, recovery),
           \A l \in Net!Level : l >= wanted => seen[l] >= 0,
           recovery # Net!NoRecovery =>
              /\ recovery.level \in Net!Level
              /\ (recovery.level >= wanted => seen[recovery.level] >= recovery.age)
    PROVE  /\ r.value \in Nat /\ r.recovery \in Onward
           /\ (current \in Net!Level => r.value \in Net!Level)
           /\ (r.value < current => r.value \in Net!Level /\ seen[r.value] >= Recovery)
           /\ Backed(r.recovery, seen)
<1> DEFINE fresh == [level |-> wanted, age |-> 0]
           begun == IF recovery = Net!NoRecovery THEN fresh ELSE recovery
           next == IF wanted > begun.level THEN fresh ELSE begun
<1>0. /\ wanted \in Nat /\ wanted \in 0 .. Levels /\ Net!Level = 1 .. Levels
      /\ 0 \in 0 .. Recovery /\ Levels \in Nat /\ Recovery \in Nat
  BY QualityAssumption DEF Net!Level
<1>1. fresh \in Onward /\ fresh.level = wanted /\ fresh.age = 0
  BY <1>0 DEF Onward
<1> HIDE DEF fresh
<1>2. begun \in Onward /\ begun.level \in Net!Level
      /\ (begun.level >= wanted => seen[begun.level] >= begun.age)
  BY <1>1, <1>0
<1> HIDE DEF begun
<1>3. next \in Onward /\ next.level \in Net!Level /\ seen[next.level] >= next.age
  BY <1>0, <1>1, <1>2
<1>4. r = IF wanted >= current THEN [value |-> wanted, recovery |-> Net!NoRecovery]
          ELSE IF next.age >= Recovery THEN [value |-> next.level, recovery |-> Net!NoRecovery]
          ELSE [value |-> current, recovery |-> next]
  BY Zenon DEF Net!Buffered, next, begun, fresh
<1> HIDE DEF next
<1>5. next.age \in Nat /\ next.level \in Nat /\ seen[next.level] \in Int
  BY <1>3, <1>0 DEF Onward, Ages, Net!Never
<1>6. CASE wanted >= current
  BY <1>4, <1>6, <1>0, NoRecoveryIs DEF Backed
<1>7. CASE ~(wanted >= current) /\ next.age >= Recovery
  BY <1>4, <1>7, <1>0, <1>3, <1>5, NoRecoveryIs DEF Backed
<1>8. CASE ~(wanted >= current) /\ ~(next.age >= Recovery)
  BY <1>4, <1>8, <1>0, <1>3, <1>5 DEF Backed
<1> QED BY <1>6, <1>7, <1>8

LEMMA WatchedIs ==
    ASSUME NEW continued, NEW worst \in Net!Level, NEW peak \in Net!Level, watch \in Observed,
           NEW w, w = Net!Watched(continued, worst, peak)
    PROVE  /\ w \in Observed /\ w.last = 0
           /\ \A l \in Net!Level : l >= worst => w.icon[l] >= 0 /\ (continued => w.icon[l] >= watch.icon[l])
           /\ \A l \in Net!Level : l >= peak => w.axis[l] >= 0 /\ (continued => w.axis[l] >= watch.axis[l])
<1> DEFINE Run(was, seen) == [l \in Net!Level |->
              IF seen > l THEN Net!Never ELSE IF continued /\ was[l] # Net!Never THEN was[l] ELSE 0]
           icon == Run(watch.icon, worst)
           axis == Run(watch.axis, peak)
<1>0. Net!Never \in Ages /\ 0 \in Ages /\ Net!Never = -1 /\ Net!Level = 1 .. Levels /\ Levels \in Nat
      /\ \A n \in Nat : n \in Ages
  BY QualityAssumption DEF Ages, Net!Never, Net!Level
<1>1. ASSUME NEW was \in [Net!Level -> Ages], NEW seen \in Net!Level
      PROVE  /\ Run(was, seen) \in [Net!Level -> Ages]
             /\ \A l \in Net!Level : l >= seen =>
                    Run(was, seen)[l] >= 0 /\ (continued => Run(was, seen)[l] >= was[l])
  BY <1>0 DEF Ages
<1>2. watch.icon \in [Net!Level -> Ages] /\ watch.axis \in [Net!Level -> Ages]
  BY DEF Observed
<1>3. w = [icon |-> icon, axis |-> axis, last |-> 0]
  BY Zenon DEF Net!Watched
<1>4. icon \in [Net!Level -> Ages] /\ axis \in [Net!Level -> Ages]
  BY <1>1, <1>2
<1>5. \A l \in Net!Level : l >= worst => icon[l] >= 0 /\ (continued => icon[l] >= watch.icon[l])
  BY <1>1, <1>2
<1>6. \A l \in Net!Level : l >= peak => axis[l] >= 0 /\ (continued => axis[l] >= watch.axis[l])
  BY <1>1, <1>2
<1> HIDE DEF icon, axis, Run
<1>7. w.icon = icon /\ w.axis = axis /\ w.last = 0
  BY <1>3
<1> QED BY <1>3, <1>4, <1>5, <1>6, <1>7, <1>0 DEF Observed

\* The samples that are published, and the highest level of them.
Sampled(h, new) ==
    IF new THEN {s \in h.samples : s.age # h.rtt} \cup {[age |-> h.rtt, level |-> stats.level]}
           ELSE h.samples
PeakOf(samples) == Net!Max({s.level : s \in samples} \cup {1})

LEMMA PeakIs ==
    ASSUME NEW samples \in SUBSET Measured
    PROVE  PeakOf(samples) \in Net!Level
  BY QualityAssumption, WorstIs DEF Measured, Net!Level, PeakOf

LEMMA SampledTypes ==
    ASSUME NEW h \in Histories, NEW new, stats \in Statistics, new => h.rtt \in Nat
    PROVE  Sampled(h, new) \in SUBSET Measured
  BY HistoryFields DEF Measured, Statistics, Sampled

\* What is behind an observation that goes on.
Behind(recovery, seen, from) ==
    /\ \A l \in Net!Level : l >= from => seen[l] >= 0
    /\ recovery # Net!NoRecovery =>
          /\ recovery.level \in Net!Level
          /\ (recovery.level >= from => seen[recovery.level] >= recovery.age)

\* What an update may publish: the history it heard, and what is behind its recoveries.
Publishes(h, worst, new, icons, axes) ==
    /\ h \in Histories /\ worst \in Net!Level /\ new \in Choices
    /\ icons \in [Net!Level -> Ages] /\ axes \in [Net!Level -> Ages]
    /\ Behind(h.iconRecovery, icons, worst)
    /\ Behind(h.axisRecovery, axes, PeakOf(Sampled(h, new)))
    /\ h.icon = 0 => h.iconRecovery = Net!NoRecovery
    /\ ~h.late /\ h.event = 0 /\ \A s \in h.samples : s.age < Window
    /\ new = TRUE => h.rtt \in Nat

\* What it then shows.
Shows(p, h, new, icons, axes) ==
    /\ p \in Histories /\ ~p.late /\ OfNow(p)
    /\ (~p.shown => Unshown(p) /\ p.axis = h.axis)
    /\ (p.shown => /\ p.event = 0 /\ p.rtt = h.rtt /\ p.rtt # Net!Never /\ p.icon # 0
                   /\ p.samples = Sampled(h, new)
                   /\ Backed(p.iconRecovery, icons) /\ Backed(p.axisRecovery, axes)
                   /\ (h.icon # 0 /\ p.icon < h.icon => icons[p.icon] >= Recovery)
                   /\ (p.axis < h.axis => axes[p.axis] >= Recovery))

LEMMA PublishedIs ==
    ASSUME NEW h, NEW worst, NEW new, NEW icons, NEW axes, stats \in Statistics,
           Publishes(h, worst, new, icons, axes), NEW p, p = Net!Published(h, worst, new)
    PROVE  Shows(p, h, new, icons, axes)
<1>p. /\ h \in Histories /\ worst \in Net!Level /\ new \in Choices
      /\ icons \in [Net!Level -> Ages] /\ axes \in [Net!Level -> Ages]
      /\ Behind(h.iconRecovery, icons, worst)
      /\ Behind(h.axisRecovery, axes, PeakOf(Sampled(h, new)))
      /\ (h.icon = 0 => h.iconRecovery = Net!NoRecovery)
      /\ ~h.late /\ h.event = 0 /\ (\A s \in h.samples : s.age < Window)
      /\ (new = TRUE => h.rtt \in Nat)
  BY DEF Publishes
<1> DEFINE samples == Sampled(h, new)
           peak == PeakOf(samples)
           buffered == Net!Buffered(h.icon, worst, h.iconRecovery)
           icon == IF h.icon = 0 THEN [value |-> worst, recovery |-> h.iconRecovery] ELSE buffered
           axis == Net!Buffered(h.axis, peak, h.axisRecovery)
           full == [h EXCEPT !.shown = TRUE, !.samples = samples,
                             !.icon = icon.value, !.iconRecovery = icon.recovery,
                             !.axis = axis.value, !.axisRecovery = axis.recovery]
<1>0. /\ h.event \in Ages /\ h.rtt \in Ages /\ h.icon \in 0 .. Levels /\ h.axis \in Net!Level
      /\ h.iconRecovery \in Onward /\ h.axisRecovery \in Onward /\ h.samples \in SUBSET Measured
  BY <1>p, HistoryFields
<1>a. /\ Levels \in Nat /\ RttFreshness \in Nat /\ Window \in Nat /\ RttFreshness < Window
      /\ Net!Level = 1 .. Levels /\ Freshness \in Nat
  BY QualityAssumption DEF Net!Level
<1>b. new => h.rtt \in Nat
  BY <1>p DEF Choices
<1>1. p = IF ~Net!RttFresh(h) THEN Net!Blank(h) ELSE full
  BY Zenon DEF Net!Published, PeakOf, Sampled
<1>2. samples \in SUBSET Measured
  BY <1>b, <1>p, SampledTypes
<1>3. Net!RttFresh(h) => \A s \in samples : s.age < Window
  BY <1>0, <1>a, <1>p DEF Net!RttFresh, Ages, Net!Never, Sampled
<1>4. peak \in Net!Level
  BY <1>2, PeakIs
<1> HIDE DEF samples, peak
<1>5. /\ axis.value \in Net!Level /\ axis.recovery \in Onward
      /\ (axis.value < h.axis => axes[axis.value] >= Recovery)
      /\ Backed(axis.recovery, axes)
  <2>1. Behind(h.axisRecovery, axes, peak)
    BY <1>p DEF peak, samples
  <2>2. h.axis \in Nat
    BY <1>0, <1>a
  <2> QED BY <2>1, <2>2, <1>0, <1>p, <1>4, BufferedIs DEF Behind
<1>6. /\ icon.value \in Net!Level /\ icon.recovery \in Onward
      /\ (h.icon # 0 /\ icon.value < h.icon => icons[icon.value] >= Recovery)
      /\ Backed(icon.recovery, icons)
  <2>1. CASE h.icon = 0
    BY <2>1, <1>0, <1>a, <1>p DEF Behind, Backed
  <2>2. CASE h.icon # 0
    <3>1. icon = buffered
      BY <2>2
    <3>2. h.icon \in Nat /\ h.icon \in Net!Level
      BY <2>2, <1>0, <1>a
    <3>3. /\ buffered.value \in Net!Level /\ buffered.recovery \in Onward
          /\ (buffered.value < h.icon => icons[buffered.value] >= Recovery)
          /\ Backed(buffered.recovery, icons)
      BY <3>2, <1>0, <1>p, BufferedIs DEF Behind
    <3> HIDE DEF icon, buffered
    <3> QED BY <3>1, <3>3, <1>a
  <2> QED BY <2>1, <2>2
<1> HIDE DEF icon, axis, buffered
<1>7. CASE ~Net!RttFresh(h)
  BY <1>1, <1>7, <1>p, BlankIs DEF OfNow, Shows
<1>8. CASE Net!RttFresh(h)
  <2>1. p = full
    BY <1>1, <1>8
  <2>2. /\ p \in Histories /\ p.shown /\ p.samples = samples /\ p.icon = icon.value /\ p.icon # 0
        /\ p.iconRecovery = icon.recovery /\ p.axis = axis.value /\ p.axisRecovery = axis.recovery
        /\ p.late = h.late /\ p.event = h.event /\ p.rtt = h.rtt
    <3> DEFINE iv == icon.value
               ir == icon.recovery
               av == axis.value
               ar == axis.recovery
    <3>1. p = [h EXCEPT !.shown = TRUE, !.samples = samples, !.icon = iv, !.iconRecovery = ir,
                        !.axis = av, !.axisRecovery = ar]
      BY <2>1
    <3>2. iv \in 0 .. Levels /\ iv # 0 /\ ir \in Onward /\ av \in Net!Level /\ ar \in Onward
      BY <1>5, <1>6, <1>a
    <3> HIDE DEF iv, ir, av, ar, full
    <3>3. /\ p \in Histories /\ p.shown /\ p.samples = samples /\ p.icon = iv /\ p.icon # 0
          /\ p.iconRecovery = ir /\ p.axis = av /\ p.axisRecovery = ar
          /\ p.late = h.late /\ p.event = h.event /\ p.rtt = h.rtt
      BY <3>1, <3>2, <1>2, <1>p, ChoicesAre DEF Histories
    <3> QED BY <3>3 DEF iv, ir, av, ar
  <2>3. p.rtt # Net!Never /\ p.rtt <= RttFreshness /\ p.event <= Freshness
    BY <2>2, <1>8, <1>0, <1>a, <1>p DEF Net!RttFresh, Ages, Net!Never
  <2>4. OfNow(p)
    BY <2>2, <2>3, <1>3, <1>8, <1>p DEF OfNow
  <2>5. Backed(p.iconRecovery, icons)
    BY <2>2, <1>6
  <2> QED BY <2>2, <2>3, <2>4, <2>5, <1>5, <1>6, <1>p DEF samples, Shows
<1> QED BY <1>7, <1>8

\* A step keeps the invariant and what the bars promise.
Promises == QualityInv' /\ Net!RecoveryIsObserved

NewNet ==
    /\ net = Net!NewHistory /\ slept = 0 /\ watch = Net!NotWatched
    /\ stats = [level |-> 1, age |-> Net!Never, new |-> FALSE]

LEMMA NewIs == NewNet => QualityInv
<1> SUFFICES ASSUME NewNet PROVE QualityInv
  OBVIOUS
<1>a. Net!Never \in Ages /\ 1 \in Net!Level /\ 0 \in 0 .. Levels
  BY QualityAssumption DEF Ages, Net!Never, Net!Level
<1>0. /\ Net!Never \in Ages /\ 1 \in Net!Level /\ 0 \in 0 .. Levels /\ FALSE \in Choices
      /\ Net!NoRecovery \in Onward
  BY <1>a, ChoicesAre, NoRecoveryIs
<1>1. /\ net \in Histories /\ ~net.shown /\ net.icon = 0 /\ net.iconRecovery = Net!NoRecovery
      /\ net.axisRecovery = Net!NoRecovery /\ net.samples = {}
  BY <1>0 DEF NewNet, Net!NewHistory, Histories
<1>2. stats \in Statistics /\ stats.new = FALSE
  BY <1>0 DEF NewNet, Statistics
<1>3. watch \in Observed
  BY <1>0 DEF NewNet, Net!NotWatched, Observed
<1> QED BY <1>1, <1>2, <1>3 DEF QualityInv, Unshown, Backed, OfNow, NewNet

LEMMA NewPromises ==
    ASSUME NewNet', net' = Net!NewHistory, QualityInv
    PROVE  Promises
<1>1. QualityInv'
  BY NewIs, QualityAssumption, PTL
<1>2. net'.icon = 0
  BY DEF Net!NewHistory
<1> QED BY <1>1, <1>2 DEF Promises, Net!RecoveryIsObserved

LEMMA MeasurePromises ==
    ASSUME QualityInv, NEW level \in Net!Level, Net!Measure(level)
    PROVE  Promises
<1>1. stats' \in Statistics /\ stats'.age = 0
  BY ChoicesAre DEF Net!Measure, Statistics, Ages
<1>2. UNCHANGED <<net, slept, watch>>
  BY DEF Net!Measure
<1>3. net.icon \in Nat /\ net.axis \in Nat
  BY HistoryFields, QualityAssumption DEF QualityInv, Net!Level
<1> QED BY <1>1, <1>2, <1>3 DEF QualityInv, Promises, Net!RecoveryIsObserved, Heard, Unshown,
                               OfNow, Backed, Net!Never

LEMMA AdvancePromises ==
    ASSUME QualityInv, net' = Net!Advanced, slept' = 0, UNCHANGED <<stats, watch>>
    PROVE  Promises
<1> DEFINE a == net'
<1>0. /\ net \in Histories /\ stats \in Statistics /\ slept \in Nat /\ watch \in Observed
      /\ (stats.new => stats.age # Net!Never)
      /\ net.icon \in Nat /\ net.axis \in Nat /\ 1 \in Net!Level /\ Freshness \in Nat
  BY HistoryFields, QualityAssumption DEF QualityInv, Net!Level
<1>1. /\ a \in Histories /\ ~a.late /\ \A s \in a.samples : s.age < Window
      /\ (a.axis = net.axis \/ (Asleep /\ a.axis = 1))
      /\ (~Present => ~a.shown /\ Unshown(a))
      /\ (Present => /\ a.shown = net.shown /\ a.event = net.event /\ a.rtt = net.rtt
                     /\ a.icon = net.icon /\ a.axis = net.axis
                     /\ a.iconRecovery = net.iconRecovery /\ a.axisRecovery = net.axisRecovery)
  BY <1>0, AdvancedIs
<1>2. CASE ~Present
  BY <1>1, <1>2, <1>0 DEF OfNow, Unshown, Backed, QualityInv, Promises,
     Net!RecoveryIsObserved, Asleep
<1>3. CASE Present
  <2>a. /\ net.shown /\ a.shown /\ Heard /\ net.icon # 0 /\ ~Asleep /\ net.event <= Freshness
        /\ Net!RttFresh(net)
    BY <1>1, <1>3 DEF Present, QualityInv
  <2>b. net.event \in Ages /\ net.event # Net!Never /\ watch.last \in Ages
    BY <1>0, <2>a, HistoryFields DEF Heard, Observed
  <2>c. net.event \in Nat /\ watch.last \in Int
    BY <2>b DEF Ages, Net!Never
  <2>1. /\ net.shown /\ a.shown /\ Heard /\ net.icon # 0 /\ ~Asleep /\ net.event <= Freshness
        /\ Net!RttFresh(net) /\ net.event \in Nat /\ watch.last \in Int
    BY <2>a, <2>c
  <2>2. Heard'
    BY <2>1, <1>0, <1>1, <1>3 DEF Heard, Asleep
  <2>3. OfNow(a)
    BY <2>1, <1>1, <1>3 DEF OfNow, Net!RttFresh
  <2>4. Backed(a.iconRecovery, watch.icon) /\ Backed(a.axisRecovery, watch.axis)
    BY <1>1, <1>3 DEF QualityInv
  <2>5. QualityInv'
    BY <1>0, <1>1, <1>3, <2>1, <2>2, <2>3, <2>4 DEF QualityInv, OfNow, Backed
  <2> QED BY <2>5, <1>0, <1>1, <1>3 DEF Promises, Net!RecoveryIsObserved
<1> QED BY <1>2, <1>3

\* A recovery grows older, and what was observed does at least as much.
\* What an observer has seen, a tick later.
Elapsed(seen, sleep) == [l \in Net!Level |-> Net!Older(seen[l], 1 + sleep, Recovery)]

LEMMA RecoveryAges ==
    ASSUME NEW recovery \in Onward, NEW seen \in [Net!Level -> Ages], Backed(recovery, seen),
           NEW sleep \in Nat
    PROVE  /\ Net!Waited(recovery) \in Onward /\ Elapsed(seen, sleep) \in [Net!Level -> Ages]
           /\ Backed(Net!Waited(recovery), Elapsed(seen, sleep))
           /\ (recovery = Net!NoRecovery => Net!Waited(recovery) = recovery)
<1> DEFINE next == Net!Waited(recovery)
           later == Elapsed(seen, sleep)
<1>d. /\ next = Net!Waited(recovery)
      /\ later = [l \in Net!Level |-> Net!Older(seen[l], 1 + sleep, Recovery)]
  BY DEF Elapsed
<1> SUFFICES /\ next \in Onward /\ later \in [Net!Level -> Ages] /\ Backed(next, later)
             /\ (recovery = Net!NoRecovery => next = recovery)
  OBVIOUS
<1> HIDE DEF next, later
<1>0. Recovery \in Nat /\ 1 \in Nat /\ 1 + sleep \in Nat
  BY QualityAssumption
<1>1. \A l \in Net!Level : Net!Older(seen[l], 1 + sleep, Recovery) \in Ages
  BY <1>0, OlderIs
<1>2. later \in [Net!Level -> Ages]
  BY <1>1, <1>d
<1>3. CASE recovery = Net!NoRecovery
  BY <1>3, <1>d, <1>2 DEF Net!Waited, Backed
<1>4. CASE recovery # Net!NoRecovery
  BY <1>4, <1>0, OlderIs, <1>d, <1>2 DEF Backed, Onward, Ages, Net!Never, Net!Waited
<1> QED BY <1>3, <1>4

LEMMA TickPromises ==
    ASSUME QualityInv, NEW sleep \in {0, 1, Freshness + 1}, Net!Tick(sleep)
    PROVE  Promises
<1> DEFINE event == Net!Older(net.event, 1, Freshness + 1)
           rtt == Net!Older(net.rtt, 1, RttFreshness + 1)
           ir == Net!Waited(net.iconRecovery)
           ar == Net!Waited(net.axisRecovery)
           samples == {[s EXCEPT !.age = Net!Min({s.age + 1, Window})] : s \in net.samples}
           icons == [l \in Net!Level |-> Net!Older(watch.icon[l], 1 + sleep, Recovery)]
           axes == [l \in Net!Level |-> Net!Older(watch.axis[l], 1 + sleep, Recovery)]
           last == Net!Older(watch.last, 1 + sleep, 2 * Freshness + 1)
           measured == Net!Older(stats.age, 1, RttFreshness + 1)
<1>0. /\ net \in Histories /\ stats \in Statistics /\ slept \in Nat /\ watch \in Observed
      /\ Freshness \in Nat /\ RttFreshness \in Nat /\ Window \in Nat /\ Freshness <= Window
      /\ sleep \in Nat
  BY QualityAssumption DEF QualityInv
<1>1. /\ net.event \in Ages /\ net.rtt \in Ages /\ net.iconRecovery \in Onward
      /\ net.axisRecovery \in Onward /\ net.samples \in SUBSET Measured
      /\ net.icon \in Nat /\ net.axis \in Nat
  BY <1>0, HistoryFields, QualityAssumption DEF Net!Level
<1>2. /\ watch.icon \in [Net!Level -> Ages] /\ watch.axis \in [Net!Level -> Ages]
      /\ watch.last \in Ages /\ stats.age \in Ages
  BY <1>0 DEF Observed, Statistics
<1>3. /\ net' = [net EXCEPT !.event = event, !.rtt = rtt, !.iconRecovery = ir,
                            !.axisRecovery = ar, !.samples = samples, !.late = TRUE]
      /\ watch' = [icon |-> icons, axis |-> axes, last |-> last]
      /\ slept' = Net!Min({slept + sleep, Window + 1})
      /\ stats' = [stats EXCEPT !.age = measured]
  BY Zenon DEF Net!Tick
<1>4. /\ event \in Ages
      /\ event = IF net.event = Net!Never THEN Net!Never
                 ELSE IF net.event + 1 <= Freshness + 1 THEN net.event + 1 ELSE Freshness + 1
  BY <1>0, <1>1, OlderIs
<1>5. /\ rtt \in Ages
      /\ rtt = IF net.rtt = Net!Never THEN Net!Never
               ELSE IF net.rtt + 1 <= RttFreshness + 1 THEN net.rtt + 1 ELSE RttFreshness + 1
  BY <1>0, <1>1, OlderIs
<1>6. /\ last \in Ages
      /\ last = IF watch.last = Net!Never THEN Net!Never
                ELSE IF watch.last + (1 + sleep) <= 2 * Freshness + 1 THEN watch.last + (1 + sleep)
                ELSE 2 * Freshness + 1
  BY <1>0, <1>2, OlderIs
<1>7. /\ measured \in Ages /\ (stats.age # Net!Never => measured # Net!Never)
  BY <1>0, <1>2, OlderIs DEF Ages, Net!Never
<1>8. /\ ir \in Onward /\ icons \in [Net!Level -> Ages] /\ Backed(ir, icons)
      /\ (net.iconRecovery = Net!NoRecovery => ir = Net!NoRecovery)
  BY <1>0, <1>1, <1>2, RecoveryAges DEF QualityInv, Elapsed
<1>9. /\ ar \in Onward /\ axes \in [Net!Level -> Ages] /\ Backed(ar, axes)
      /\ (net.axisRecovery = Net!NoRecovery => ar = Net!NoRecovery)
  BY <1>0, <1>1, <1>2, RecoveryAges DEF QualityInv, Elapsed
<1>10. samples \in SUBSET Measured
  <2> SUFFICES ASSUME NEW s \in net.samples
               PROVE  [s EXCEPT !.age = Net!Min({s.age + 1, Window})] \in Measured
    OBVIOUS
  <2> DEFINE age == Net!Min({s.age + 1, Window})
  <2>1. s \in Measured /\ s.age \in Nat
    BY <1>1 DEF Measured
  <2>2. age \in Nat
    BY <2>1, <1>0, LesserIs
  <2> HIDE DEF age
  <2>3. [s EXCEPT !.age = age] \in Measured
    BY <2>1, <2>2 DEF Measured
  <2> QED BY <2>3 DEF age
<1>11. slept' = IF slept + sleep <= Window + 1 THEN slept + sleep ELSE Window + 1
  BY <1>0, <1>3, LesserIs
<1> HIDE DEF event, rtt, ir, ar, samples, icons, axes, last, measured
<1>12. /\ net' \in Histories /\ net'.event = event /\ net'.rtt = rtt /\ net'.iconRecovery = ir
       /\ net'.axisRecovery = ar /\ net'.late = TRUE /\ net'.shown = net.shown
       /\ net'.icon = net.icon /\ net'.axis = net.axis
  BY <1>0, <1>3, <1>4, <1>5, <1>8, <1>9, <1>10, ChoicesAre DEF Histories
<1>13. /\ watch' \in Observed /\ watch'.icon = icons /\ watch'.axis = axes /\ watch'.last = last
  BY <1>3, <1>6, <1>8, <1>9 DEF Observed
<1>14. /\ stats' \in Statistics /\ stats'.age = measured /\ stats'.new = stats.new
  BY <1>0, <1>3, <1>7 DEF Statistics
<1>15. net.shown => Heard'
  BY <1>1, <1>2, <1>0, <1>4, <1>5, <1>6, <1>11, <1>12, <1>13 DEF QualityInv, Heard, Ages,
     Net!Never
<1>16. ~net.shown => Unshown(net')
  BY <1>8, <1>9, <1>12 DEF QualityInv, Unshown
<1>17. QualityInv'
  <2>1. slept' \in Nat
    BY <1>11, <1>0
  <2>2. (stats.new => stats.age # Net!Never) /\ (net.shown => net.icon # 0)
    BY DEF QualityInv
  <2>3. (stats.new => stats.age # Net!Never)'
    BY <2>2, <1>7, <1>14
  <2>4. OfNow(net')
    BY <1>12 DEF OfNow
  <2> QED BY <2>1, <2>2, <2>3, <2>4, <1>8, <1>9, <1>12, <1>13, <1>14, <1>15, <1>16
        DEF QualityInv, Unshown, Backed, OfNow
<1> QED BY <1>17, <1>12, <1>1 DEF Promises, Net!RecoveryIsObserved

LEMMA NotWatchedIs == Net!NotWatched \in Observed
  BY DEF Ages, Net!NotWatched, Observed

LEMMA UpdatePromises ==
    ASSUME QualityInv, NEW known \in BOOLEAN, NEW worst \in Net!Level, Net!Update(known, worst)
    PROVE  Promises
<1> DEFINE new == known /\ stats.new
           before == Net!Advanced
           rtt == IF new THEN stats.age ELSE before.rtt
           heard == [before EXCEPT !.event = 0, !.rtt = rtt]
           peak == PeakOf(net'.samples)
           continued == watch.last # Net!Never /\ watch.last <= 2 * Freshness
<1>0. /\ net \in Histories /\ stats \in Statistics /\ slept \in Nat /\ watch \in Observed
      /\ Freshness \in Nat /\ (stats.new => stats.age # Net!Never)
  BY QualityAssumption DEF QualityInv
<1>1. /\ net' = IF known THEN Net!Published(heard, worst, new) ELSE Net!Blank(heard)
      /\ stats' = [stats EXCEPT !.new = @ /\ ~known]
      /\ slept' = 0
      /\ watch' = IF ~net'.shown THEN Net!NotWatched ELSE Net!Watched(continued, worst, peak)
  BY Zenon DEF Net!Update, PeakOf
<1>2. stats' \in Statistics /\ (stats'.new => stats'.age # Net!Never)
  BY <1>0, <1>1 DEF Choices, Statistics
<1>3. new => stats.age \in Nat
  BY <1>0 DEF Statistics, Ages
<1>b. new \in Choices
  BY DEF Choices
<1>4. /\ before \in Histories /\ ~before.late /\ \A s \in before.samples : s.age < Window
      /\ (before.axis = net.axis \/ (Asleep /\ before.axis = 1))
      /\ (~Present => ~before.shown /\ Unshown(before))
      /\ (Present => /\ before.shown = net.shown /\ before.event = net.event /\ before.rtt = net.rtt
                     /\ before.icon = net.icon /\ before.axis = net.axis
                     /\ before.iconRecovery = net.iconRecovery
                     /\ before.axisRecovery = net.axisRecovery)
  BY <1>0, AdvancedIs
<1> HIDE DEF before, new
<1>5. rtt \in Ages
  BY <1>3, <1>4, HistoryFields DEF Ages
<1>6. new => rtt \in Nat
  BY <1>3
<1> HIDE DEF rtt
<1>7. /\ heard \in Histories /\ heard.event = 0 /\ heard.rtt = rtt /\ heard.late = before.late
      /\ heard.samples = before.samples /\ heard.icon = before.icon /\ heard.axis = before.axis
      /\ heard.iconRecovery = before.iconRecovery /\ heard.axisRecovery = before.axisRecovery
  BY <1>4, <1>5 DEF Histories, Ages
<1> HIDE DEF heard
\* While the present goes on, so does the observation.
<1>8. Present => continued /\ net.shown /\ net.icon # 0
  BY <1>0, HistoryFields DEF Present, Asleep, QualityInv, Heard, Observed, Ages, Net!Never
<1>9. heard.icon = 0 => heard.iconRecovery = Net!NoRecovery
  BY <1>4, <1>7, <1>8 DEF Unshown
\* An icon that was shown and is no longer was interrupted.
<1>10. ~Present /\ net.icon # 0 => Net!Interrupted
  <2> SUFFICES ASSUME ~Present, net.icon # 0 PROVE Net!Interrupted
    OBVIOUS
  <2>1. net.shown /\ Heard
    BY DEF QualityInv, Unshown
  <2>2. net.event \in Ages /\ net.event # Net!Never /\ net.rtt \in Ages /\ net.rtt # Net!Never
        /\ watch.last \in Ages
    BY <1>0, <2>1, HistoryFields DEF Heard, Observed
  <2>3. net.event \in Nat /\ net.rtt \in Nat /\ watch.last \in Int /\ watch.last >= net.event
        /\ (watch.last > Freshness \/ watch.last >= slept)
    BY <2>1, <2>2 DEF Heard, Ages, Net!Never
  <2>4. CASE Asleep
    BY <2>3, <2>4, <1>0 DEF Asleep, Net!Interrupted
  <2>5. CASE ~Asleep
    BY <2>1, <2>2, <2>5, <2>3, <1>0, QualityAssumption DEF Present, Net!RttFresh,
       Net!Interrupted
  <2> QED BY <2>4, <2>5
<1>11. net.icon \in Nat /\ net.axis \in Nat /\ net.axis \in Net!Level /\ 1 \in Net!Level
  BY <1>0, HistoryFields, QualityAssumption DEF Net!Level
<1>12. CASE ~known
  BY <1>1, <1>12, <1>7, BlankIs, <1>4, NotWatchedIs, <1>2, <1>11 DEF OfNow, QualityInv,
     Unshown, Backed, Promises, Net!RecoveryIsObserved, Asleep
<1>13. CASE known
  <2> DEFINE top == PeakOf(Sampled(heard, new))
             w == Net!Watched(continued, worst, top)
  <2>1. top \in Net!Level
    BY <1>0, <1>6, <1>7, SampledTypes, PeakIs
  <2> HIDE DEF top, continued
  <2>2. /\ w \in Observed /\ w.last = 0
        /\ \A l \in Net!Level : l >= worst => w.icon[l] >= 0 /\ (continued => w.icon[l] >= watch.icon[l])
        /\ \A l \in Net!Level : l >= top => w.axis[l] >= 0 /\ (continued => w.axis[l] >= watch.axis[l])
    BY <2>1, <1>0, WatchedIs
  <2> HIDE DEF w
  <2>3. w.icon \in [Net!Level -> Ages] /\ w.axis \in [Net!Level -> Ages]
        /\ watch.icon \in [Net!Level -> Ages] /\ watch.axis \in [Net!Level -> Ages]
    BY <2>2, <1>0 DEF Observed
  <2>4. ASSUME NEW seen \in [Net!Level -> Ages], NEW was \in [Net!Level -> Ages], NEW from \in Net!Level,
               NEW old \in Onward, NEW r \in Onward,
               Present => r = old, ~Present => r = Net!NoRecovery, Backed(old, was),
               \A l \in Net!Level : l >= from => seen[l] >= 0 /\ (continued => seen[l] >= was[l])
        PROVE  Behind(r, seen, from)
    BY <2>4, <1>8, QualityAssumption DEF Behind, Backed, Onward, Ages, Net!Never
  <2>5. Behind(heard.iconRecovery, w.icon, worst)
    BY <1>0, <1>7, HistoryFields, <1>4, <2>2, <2>3, <2>4 DEF QualityInv, Unshown
  <2>6. Behind(heard.axisRecovery, w.axis, top)
    BY <1>0, <1>7, HistoryFields, <1>4, <2>1, <2>2, <2>3, <2>4 DEF QualityInv, Unshown
  <2>7. net' = Net!Published(heard, worst, new)
    BY <1>1, <1>13
  <2>8. /\ net' \in Histories /\ ~net'.late /\ OfNow(net')
        /\ (~net'.shown => Unshown(net') /\ net'.axis = heard.axis)
        /\ (net'.shown => /\ net'.event = 0 /\ net'.rtt = heard.rtt /\ net'.rtt # Net!Never
                          /\ net'.icon # 0 /\ net'.samples = Sampled(heard, new)
                          /\ Backed(net'.iconRecovery, w.icon) /\ Backed(net'.axisRecovery, w.axis)
                          /\ (heard.icon # 0 /\ net'.icon < heard.icon => w.icon[net'.icon] >= Recovery)
                          /\ (net'.axis < heard.axis => w.axis[net'.axis] >= Recovery))
    <3>1. ~heard.late /\ (\A s \in heard.samples : s.age < Window) /\ (new = TRUE => heard.rtt \in Nat)
      BY <1>4, <1>6, <1>7
    <3>2. Behind(heard.axisRecovery, w.axis, PeakOf(Sampled(heard, new)))
      BY <2>6 DEF top
    <3>3. heard \in Histories /\ heard.event = 0 /\ stats \in Statistics
          /\ w.icon \in [Net!Level -> Ages] /\ w.axis \in [Net!Level -> Ages]
      BY <1>0, <1>7, <2>3
    <3>4. PICK fresh : fresh = new
      OBVIOUS
    <3>5. fresh \in Choices
      BY <3>4, <1>b
    <3>6. (fresh = TRUE => heard.rtt \in Nat) /\ net' = Net!Published(heard, worst, fresh)
          /\ Sampled(heard, fresh) = Sampled(heard, new)
          /\ Behind(heard.axisRecovery, w.axis, PeakOf(Sampled(heard, fresh)))
      BY <3>1, <3>2, <3>4, <2>7
    <3>7. ~heard.late /\ (\A s \in heard.samples : s.age < Window)
      BY <3>1
    <3>8. Publishes(heard, worst, fresh, w.icon, w.axis)
      BY <1>9, <2>5, <3>3, <3>5, <3>6, <3>7 DEF Publishes
    <3>9. Shows(net', heard, fresh, w.icon, w.axis)
      BY <3>3, <3>6, <3>8, PublishedIs
    <3> QED BY <3>6, <3>9 DEF Shows
  <2>9. CASE ~net'.shown
    BY <1>1, <2>9, NotWatchedIs, <2>8, <1>2, <1>4, <1>7, <1>11 DEF QualityInv, Unshown,
       Backed, OfNow, Promises, Net!RecoveryIsObserved, Asleep
  <2>10. CASE net'.shown
    <3>1. watch' = w
      BY <1>1, <2>8, <2>10 DEF w, top
    <3>2. Heard'
      BY <2>2, <2>8, <2>10, <3>1, <1>0, <1>1 DEF Heard, Net!Never
    <3>3. QualityInv'
      BY <2>2, <2>8, <2>10, <3>1, <3>2, <1>1, <1>2 DEF QualityInv, OfNow, Backed
    <3>4. 0 < net'.icon /\ net'.icon < net.icon => Net!Interrupted \/ watch'.icon[net'.icon] >= Recovery
      <4>0. net'.icon \in Nat
        BY <2>8, HistoryFields, QualityAssumption
      <4>1. CASE ~Present
        BY <4>0, <4>1, <1>10, <1>11
      <4>2. CASE Present
        BY <4>2, <1>4, <1>7, <1>8, <2>8, <2>10, <3>1
      <4> QED BY <4>1, <4>2
    <3>5. net'.axis < net.axis => slept > Freshness \/ watch'.axis[net'.axis] >= Recovery
      BY <2>8, <2>10, <3>1, <1>4, <1>7, <1>11 DEF Asleep
    <3> QED BY <3>3, <3>4, <3>5 DEF Promises, Net!RecoveryIsObserved
  <2> QED BY <2>9, <2>10
<1> QED BY <1>12, <1>13

LEMMA QualityStep ==
    ASSUME QualityInv, [Net!NetNext]_(Net!netVars)
    PROVE  QualityInv' /\ [Net!RecoveryIsObserved /\ Net!PublishedIsFresh]_(Net!netVars)
<1>1. CASE UNCHANGED Net!netVars
  BY <1>1 DEF Net!netVars, QualityInv, Heard, Unshown, OfNow, Backed
<1>2. CASE Net!NetNext
  <2>1. Promises
    BY TickPromises, MeasurePromises, UpdatePromises, AdvancePromises, NewPromises, <1>2 DEF
       Net!Expire, Net!Resume, Net!NewConnection, NewNet, Net!NewHistory, Net!NotWatched,
       Net!NetNext
  <2>2. QualityInv' /\ Net!RecoveryIsObserved
    BY <2>1 DEF Promises
  <2>3. net'.event \in Ages /\ net'.rtt \in Ages
    BY <2>2, HistoryFields DEF QualityInv
  <2>4. Net!PublishedIsFresh
    BY <2>2, <2>3, QualityAssumption
       DEF QualityInv, OfNow, Heard, Unshown, Ages, Net!PublishedIsFresh, Net!Never
  <2> QED BY <2>2, <2>4
<1> QED BY <1>1, <1>2

THEOREM BarsAreObserved == Net!NetSpec => Net!QualityIsObserved
<1>1. Net!NetInit => QualityInv
  BY NewIs DEF Net!NetInit, NewNet
<1>2. QualityInv /\ [Net!NetNext]_(Net!netVars) =>
         QualityInv' /\ [Net!RecoveryIsObserved /\ Net!PublishedIsFresh]_(Net!netVars)
  BY QualityStep
<1> QED BY <1>1, <1>2, PTL DEF Net!NetSpec, Net!QualityIsObserved

-----------------------------------------------------------------------------
(* The parts side by side                                                  *)

\* Each part of a behaviour of MCSessionParts is a behaviour of its own module.
LEMMA PartsBehave == PartsSpec => Spec /\ FilesSpec /\ MediaSpec /\ UnreadSpec /\ Net!NetSpec
<1>1. PartsInit => Init /\ FilesInit /\ MediaInit /\ UnreadInit /\ Net!NetInit
  BY DEF PartsInit
<1>2. [PartsNext]_<<part, vars, filesVars, mediaVars, unreadVars, netVars>> =>
        /\ [Next]_vars /\ [FilesNext]_filesVars /\ [MediaNext]_mediaVars
        /\ [UnreadNext]_unreadVars /\ [Net!NetNext]_(Net!netVars)
  BY DEF PartsNext, netVars, Net!netVars
<1> QED BY <1>1, <1>2, PTL DEF PartsSpec, Spec, FilesSpec, MediaSpec, UnreadSpec, Net!NetSpec

\* The types of the parts of the session that use file transfers.
THEOREM TypesOfTransfers == PartsSpec => []TypesOK
<1>1. TypeOK /\ FilesTypeOK /\ MediaTypeOK /\ WaitingLeads => TypesOK
  BY DEF TypesOK
<1> QED BY <1>1, PartsBehave, AvatarTypeIsOK, FilesTypesHold, HandlesLeadToJobs, PTL

\* What the session unwraps is there: the transfer that a drain asks for, the record of a
\* handle of a file, and the job of a handle of a picture (avatar.rs:508, Files::download,
\* Downloads::download).
THEOREM NothingIsUnwrapped == PartsSpec => []UnwrapsFind
<1>1. DrainNamesTransfer /\ HandlesLead /\ MediaTypeOK /\ WaitingLeads => UnwrapsFind
  BY DEF UnwrapsFind
<1> QED BY <1>1, PartsBehave, BarrierKnowsItsTransfer, FileHandlesLead, HandlesLeadToJobs, PTL

\* The icon and the bars tell how the connection is: nothing stale, and nothing better than
\* what was observed for Recovery seconds.
THEOREM BarsAreHonest == PartsSpec => QualityIsObserved
BY PartsBehave, BarsAreObserved, PTL DEF QualityIsObserved

=============================================================================
