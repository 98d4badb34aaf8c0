-------------------------- MODULE TransportProofs --------------------------
(***************************************************************************)
(* What a receiver makes of a packet id, for every number of ids, the      *)
(* safety of the reliable transport built on it, and the order of the      *)
(* packets of a talker, that come as they like.                            *)
(***************************************************************************)
EXTENDS Transport, JitterQueue, FiniteSetTheorems, SequenceTheorems, WellFoundedInduction, TLAPS

-----------------------------------------------------------------------------
(* Packet ids.                                                             *)

\* A number is its generation and its id.
LEMMA Split ==
    ASSUME NEW n \in Nat
    PROVE  /\ Id(n) \in 0 .. (Ids - 1) /\ Generation(n) \in Nat
           /\ n = Ids * Generation(n) + Id(n)
BY IdsAssumption DEF Id, Generation

\* Two multiples of the round that are less than two rounds apart.
LEMMA Rounds ==
    ASSUME NEW p \in Nat, NEW q \in Nat, NEW r \in 0 .. (Ids - 1), NEW s \in 0 .. (Ids - 1),
           Ids * p + r <= Ids * q + s, Ids * q + s < Ids * p + r + Ids
    PROVE  \/ q = p
           \/ q = p + 1 /\ Ids * q = Ids * p + Ids
  BY IdsAssumption

\* Less than a round apart, the generations differ by one at most.
LEMMA Neighbours ==
    ASSUME NEW a \in Nat, NEW b \in Nat, a <= b, b < a + Ids
    PROVE  \/ Generation(b) = Generation(a) /\ b - a = Id(b) - Id(a)
           \/ Generation(b) = Generation(a) + 1 /\ b - a = Id(b) - Id(a) + Ids
<1>1. \A p, q \in Nat, r, s \in 0 .. (Ids - 1) :
        a = Ids * p + r /\ b = Ids * q + s =>
            \/ q = p /\ b - a = s - r
            \/ q = p + 1 /\ b - a = s - r + Ids
  BY Rounds, IdsAssumption
<1>2. /\ Generation(a) \in Nat /\ Id(a) \in 0 .. (Ids - 1) /\ a = Ids * Generation(a) + Id(a)
      /\ Generation(b) \in Nat /\ Id(b) \in 0 .. (Ids - 1) /\ b = Ids * Generation(b) + Id(b)
  BY Split
<1> QED BY <1>1, <1>2, Zenon

\* The window is the smaller half.
LEMMA HalfARound == Half \in Nat /\ 2 * Half < Ids /\ Ids <= 2 * Half + 2
BY IdsAssumption DEF Half

\* The receive window ahead: the ids of the next Half packets are in it, and each
\* is taken for the generation it was sent in.
THEOREM AheadIsFound ==
    ASSUME NEW next \in Nat, NEW n \in Nat, next <= n, n < next + Half
    PROVE  InReceiveWindow(next, Id(n)) /\ GenerationOf(next, Id(n)) = Generation(n)
<1> DEFINE limit == next + Half
<1>1. Half \in Nat /\ 2 * Half < Ids /\ limit \in Nat
  BY HalfARound
<1>2. /\ Id(n) \in 0 .. (Ids - 1) /\ Id(next) \in 0 .. (Ids - 1) /\ Id(limit) \in 0 .. (Ids - 1)
      /\ Generation(n) \in Nat /\ Generation(next) \in Nat /\ Generation(limit) \in Nat
  BY <1>1, Split
<1>3. \/ Generation(n) = Generation(next) /\ n - next = Id(n) - Id(next)
      \/ Generation(n) = Generation(next) + 1 /\ n - next = Id(n) - Id(next) + Ids
  BY <1>1, Neighbours, IdsAssumption
<1>4. \/ Generation(limit) = Generation(next) /\ Half = Id(limit) - Id(next)
      \/ Generation(limit) = Generation(next) + 1 /\ Half = Id(limit) - Id(next) + Ids
  BY <1>1, IdsAssumption, Neighbours
<1>5. Wraps(next) <=> Generation(limit) # Generation(next)
  BY DEF Wraps
<1>6. Limit(next) = Id(limit)
  BY DEF Limit
<1> HIDE DEF limit
<1> QED
  BY <1>1, <1>2, <1>3, <1>4, <1>5, <1>6, IdsAssumption DEF InReceiveWindow, GenerationOf

\* The other half: a packet from before is outside the window, and its generation
\* is found as well, as long as it is less than half a round old.
THEOREM BehindIsFound ==
    ASSUME NEW next \in Nat, NEW n \in Nat, n < next, next <= n + (Ids - Half)
    PROVE  ~InReceiveWindow(next, Id(n)) /\ GenerationOf(next, Id(n)) = Generation(n)
<1> DEFINE limit == next + Half
<1>1. Half \in Nat /\ 2 * Half < Ids /\ Ids <= 2 * Half + 2 /\ limit \in Nat
  BY HalfARound
<1>2. /\ Id(n) \in 0 .. (Ids - 1) /\ Id(next) \in 0 .. (Ids - 1) /\ Id(limit) \in 0 .. (Ids - 1)
      /\ Generation(n) \in Nat /\ Generation(next) \in Nat /\ Generation(limit) \in Nat
  BY <1>1, Split
<1>0. Half > 0
  BY <1>1, IdsAssumption
<1>3. \/ Generation(next) = Generation(n) /\ next - n = Id(next) - Id(n)
      \/ Generation(next) = Generation(n) + 1 /\ next - n = Id(next) - Id(n) + Ids
  BY <1>0, <1>1, IdsAssumption, Neighbours
<1>4. \/ Generation(limit) = Generation(next) /\ Half = Id(limit) - Id(next)
      \/ Generation(limit) = Generation(next) + 1 /\ Half = Id(limit) - Id(next) + Ids
  BY <1>1, IdsAssumption, Neighbours
<1>5. Wraps(next) <=> Generation(limit) # Generation(next)
  BY DEF Wraps
<1>6. Limit(next) = Id(limit)
  BY DEF Limit
<1> HIDE DEF limit
<1>7. CASE Wraps(next)
  BY <1>0, <1>1, <1>2, <1>3, <1>4, <1>5, <1>6, <1>7, IdsAssumption
     DEF InReceiveWindow, GenerationOf
<1>8. CASE ~Wraps(next)
  BY <1>0, <1>1, <1>2, <1>3, <1>4, <1>5, <1>6, <1>8, IdsAssumption
     DEF InReceiveWindow, GenerationOf
<1> QED BY <1>7, <1>8

\* And nothing else is taken for a packet of its own generation.
THEOREM FoundIsAhead ==
    ASSUME NEW next \in Nat, NEW n \in Nat,
           InReceiveWindow(next, Id(n)), GenerationOf(next, Id(n)) = Generation(n)
    PROVE  next <= n /\ n < next + Half
<1> DEFINE limit == next + Half
           x == Ids * Generation(next)
           y == Ids * Generation(n)
           z == Ids * Generation(limit)
<1>1. Half \in Nat /\ 2 * Half < Ids /\ limit \in Nat
  BY HalfARound
<1>2. /\ Id(n) \in 0 .. (Ids - 1) /\ Id(next) \in 0 .. (Ids - 1) /\ Id(limit) \in 0 .. (Ids - 1)
      /\ Generation(n) \in Nat /\ Generation(next) \in Nat /\ Generation(limit) \in Nat
      /\ n = y + Id(n) /\ next = x + Id(next) /\ limit = z + Id(limit)
  BY <1>1, Split
<1>3. x \in Nat /\ y \in Nat /\ z \in Nat
  BY <1>2, IdsAssumption
<1>4. Generation(n) = Generation(next) => y = x
  OBVIOUS
<1>5. Generation(n) = Generation(next) + 1 => y = x + Ids
  BY <1>2, IdsAssumption
<1>6. \/ Generation(limit) = Generation(next) /\ z = x
      \/ Generation(limit) = Generation(next) + 1 /\ z = x + Ids
  BY <1>1, IdsAssumption, <1>2, Neighbours
<1>7. (Wraps(next) <=> Generation(limit) # Generation(next)) /\ Limit(next) = Id(limit)
  BY DEF Wraps, Limit
<1>8. limit = next + Half
  OBVIOUS
<1> HIDE DEF limit, x, y, z
<1> QED
  BY <1>1, <1>2, <1>3, <1>4, <1>5, <1>6, <1>7, <1>8, IdsAssumption DEF InReceiveWindow, GenerationOf

\* Less than a round apart, an id names one packet; a round apart, the same id.
LEMMA SameId ==
    ASSUME NEW a \in Nat, NEW b \in Nat, a <= b, b < a + Ids, Id(a) = Id(b)
    PROVE  a = b
<1>1. b - a = 0 \/ b - a = Ids
  <2>1. Id(a) \in 0 .. (Ids - 1) /\ Id(b) \in 0 .. (Ids - 1)
    BY Split
  <2> QED BY <2>1, Neighbours, IdsAssumption
<1> QED BY <1>1, IdsAssumption

LEMMA NextRound == ASSUME NEW n \in Nat PROVE Id(n + Ids) = Id(n)
<1> DEFINE m == n + Ids
           p == Generation(n) + 1
           q == Generation(m)
<1>1. m \in Nat
  BY IdsAssumption
<1>2. /\ Id(n) \in 0 .. (Ids - 1) /\ Generation(n) \in Nat /\ n = Ids * Generation(n) + Id(n)
      /\ Id(m) \in 0 .. (Ids - 1) /\ Generation(m) \in Nat /\ m = Ids * Generation(m) + Id(m)
  BY <1>1, Split
<1>3. Ids * p = Ids * Generation(n) + Ids /\ Ids * Generation(n) \in Nat
  BY <1>2, IdsAssumption
<1>4. m = Ids * p + Id(n) /\ m = Ids * q + Id(m) /\ p \in Nat /\ q \in Nat
  BY <1>2, <1>3, IdsAssumption
<1>5. Ids * p \in Nat /\ Ids * q \in Nat
  BY <1>4, IdsAssumption
<1> HIDE DEF m, p, q
<1>6. q = p \/ (q = p + 1 /\ Ids * q = Ids * p + Ids)
  BY <1>2, <1>4, <1>5, Rounds, IdsAssumption
<1>7. Id(m) = Id(n)
  <2> DEFINE x == Ids * p
             y == Ids * q
  <2>1. m = x + Id(n) /\ m = y + Id(m) /\ x \in Nat /\ y \in Nat /\ (y = x \/ y = x + Ids)
    BY <1>4, <1>5, <1>6
  <2> HIDE DEF x, y
  <2> QED BY <1>2, <2>1, IdsAssumption
<1> QED BY <1>7 DEF m

-----------------------------------------------------------------------------
(* Least and greatest numbers.                                             *)

\* A set of naturals that is not empty has a least member.
LEMMA LeastOf ==
    ASSUME NEW T \in SUBSET Nat, T # {}
    PROVE  \E x \in T : \A y \in T : x <= y
<1> DEFINE below == {pair \in Nat \X Nat : pair[1] < pair[2]}
<1>1. IsWellFoundedOn(below, Nat)
  BY NatLessThanWellFounded DEF OpToRel
<1> HIDE DEF below
<1>2. PICK x \in T : \A y \in T : ~(<<y, x>> \in below)
  BY <1>1, WFMin
<1>3. \A y \in T : ~(y < x)
  BY <1>2 DEF below
<1> QED BY <1>3

LEMMA MinIsLeast ==
    ASSUME NEW T \in SUBSET Nat, T # {}
    PROVE  Min(T) \in T /\ \A y \in T : Min(T) <= y
  BY LeastOf DEF Min

LEMMA MaxIsGreatest ==
    ASSUME NEW T \in SUBSET Nat, T # {}, NEW bound \in Nat, \A y \in T : y <= bound
    PROVE  Max(T) \in T /\ \A y \in T : y <= Max(T)
<1> DEFINE rest == {bound - y : y \in T}
<1>0. \A y \in T : bound - y \in Nat
  OBVIOUS
<1>1. rest \in SUBSET Nat /\ rest # {}
  BY <1>0
<1> HIDE DEF rest
<1>2. PICK r \in rest : \A y \in rest : r <= y
  BY <1>1, LeastOf
<1>3. PICK x \in T : r = bound - x
  BY DEF rest
<1>4. \A y \in T : y <= x
  <2> SUFFICES ASSUME NEW y \in T PROVE y <= x
    OBVIOUS
  <2>1. bound - x <= bound - y
    BY <1>2, <1>3 DEF rest
  <2> QED BY <2>1
<1> QED BY <1>4 DEF Max

\* Induction over the numbers, for the members of a set.
LEMMA Induction ==
    ASSUME NEW G, 0 \in G, \A i \in Nat : i \in G => i + 1 \in G
    PROVE  \A i \in Nat : i \in G
<1> SUFFICES ASSUME Nat \ G # {} PROVE FALSE
  OBVIOUS
<1>1. PICK k \in Nat \ G : \A j \in Nat \ G : k <= j
  BY LeastOf
<1>2. k # 0 /\ k - 1 \in Nat
  BY <1>1
<1>3. k - 1 \in G
  BY <1>1, <1>2
<1>4. (k - 1) + 1 \in G
  BY <1>2, <1>3
<1> QED BY <1>1, <1>2, <1>4

-----------------------------------------------------------------------------
(* The sender's queues.                                                    *)

LEMMA PositionsAreNumbers ==
    /\ Positions \in SUBSET Nat /\ IsFiniteSet(Positions)
    /\ \A n \in Positions : Start <= n /\ n < Start + MaxPackets
  BY TransportAssumption, FS_Interval DEF Positions

LEMMA RecordIdIsNumber ==
    ASSUME NEW n \in Nat
    PROVE  RecordId(n) \in Nat /\ n <= RecordId(n) /\ RecordId(n) <= n + Ids
BY IdsAssumption DEF RecordId

\* What is in the queues, and that what is made of such parts is such a queue.
LEMMA QueueParts ==
    ASSUME NEW q \in Queues
    PROVE  /\ q = [full |-> q.full, heap |-> q.heap, index |-> q.index]
           /\ DOMAIN q.full \in SUBSET Positions
           /\ q.full \in [DOMAIN q.full -> BOOLEAN]
           /\ q.heap \in SUBSET [at : Positions, tried : BOOLEAN]
           /\ q.index \in Nat
  BY DEF Queues

LEMMA QueueMade ==
    ASSUME NEW records \in SUBSET Positions, NEW full \in [records -> BOOLEAN],
           NEW heap \in SUBSET [at : Positions, tried : BOOLEAN], NEW index \in Nat
    PROVE  [full |-> full, heap |-> heap, index |-> index] \in Queues
  BY DEF Queues

\* The heap is finite, and so are the records between two ids.
LEMMA HeapIsFinite ==
    ASSUME NEW heap \in SUBSET [at : Positions, tried : BOOLEAN]
    PROVE  IsFiniteSet(heap)
<1> DEFINE all == [at : Positions, tried : BOOLEAN]
           pairs == Positions \X BOOLEAN
           pair == [r \in all |-> <<r.at, r.tried>>]
<1>1. IsFiniteSet(BOOLEAN)
  <2>1. BOOLEAN = ({} \union {TRUE}) \union {FALSE}
    OBVIOUS
  <2>2. IsFiniteSet({} \union {TRUE})
    BY FS_EmptySet, FS_AddElement, Zenon
  <2>3. IsFiniteSet(({} \union {TRUE}) \union {FALSE})
    BY <2>2, FS_AddElement, Zenon
  <2> QED BY <2>1, <2>3, Zenon
<1>2. IsFiniteSet(pairs)
  BY <1>1, PositionsAreNumbers, FS_Product
<1>3. pair \in [all -> pairs]
  OBVIOUS
<1>4. \A r, s \in all : pair[r] = pair[s] => r = s
  OBVIOUS
<1>5. pair \in Injection(all, pairs)
  BY <1>3, <1>4 DEF IsInjective, Injection
<1>6. IsFiniteSet(all)
  BY <1>2, <1>5, FS_Injection
<1> QED BY <1>6, FS_Subset

LEMMA BetweenIsFinite ==
    ASSUME NEW q \in Queues, NEW from, NEW n
    PROVE  /\ Between(q, from, n) \in SUBSET Positions
           /\ IsFiniteSet(Between(q, from, n))
  BY QueueParts, PositionsAreNumbers, FS_Subset DEF Between

\* The index is put behind the records that were taken, the last one at most.
LEMMA IndexOfFilled ==
    ASSUME NEW q \in Queues, NEW window
    PROVE  LET new == {n \in DOMAIN q.full : Fills(q, window, n)}
               ends == {q.index} \union {RecordId(n) + 1 : n \in new}
           IN  /\ Filled(q, window).index \in ends
               /\ Filled(q, window).index \in Nat
               /\ \A end \in ends : end <= Filled(q, window).index
<1> DEFINE new == {n \in DOMAIN q.full : Fills(q, window, n)}
           ends == {q.index} \union {RecordId(n) + 1 : n \in new}
           bound == q.index + Start + MaxPackets + Ids + 1
<1>1. Filled(q, window).index = Max(ends)
  BY QueueParts DEF Filled
<1>2. new \in SUBSET Positions /\ q.index \in Nat
  BY QueueParts
<1>3. \A n \in new : RecordId(n) + 1 \in Nat /\ RecordId(n) + 1 <= bound
  <2> SUFFICES ASSUME NEW n \in new PROVE RecordId(n) + 1 \in Nat /\ RecordId(n) + 1 <= bound
    OBVIOUS
  <2>1. n \in Nat /\ n < Start + MaxPackets
    BY <1>2, PositionsAreNumbers
  <2>2. RecordId(n) \in Nat /\ RecordId(n) <= n + Ids
    BY <2>1, RecordIdIsNumber
  <2> HIDE DEF new
  <2> QED BY <1>2, <2>1, <2>2, TransportAssumption, IdsAssumption
<1> HIDE DEF new
<1>4. ends \in SUBSET Nat /\ ends # {}
  BY <1>2, <1>3
<1>5. bound \in Nat /\ \A end \in ends : end <= bound
  BY <1>2, TransportAssumption, IdsAssumption, <1>3
<1> HIDE DEF bound, ends
<1>6. Max(ends) \in ends /\ \A end \in ends : end <= Max(ends)
  BY <1>4, <1>5, MaxIsGreatest
<1>7. Max(ends) \in Nat
  BY <1>4, <1>6
<1> QED BY <1>1, <1>6, <1>7 DEF new, ends

LEMMA FilledIsQueue ==
    ASSUME NEW q \in Queues, NEW window
    PROVE  /\ Filled(q, window) \in Queues
           /\ Filled(q, window).full = q.full
           /\ Filled(q, window).heap =
                q.heap \union {[at |-> n, tried |-> q.full[n]] :
                                 n \in {n \in DOMAIN q.full : Fills(q, window, n)}}
<1> DEFINE new == {n \in DOMAIN q.full : Fills(q, window, n)}
           heap == q.heap \union {[at |-> n, tried |-> q.full[n]] : n \in new}
           index == Filled(q, window).index
<1>1. /\ q = [full |-> q.full, heap |-> q.heap, index |-> q.index]
      /\ DOMAIN q.full \in SUBSET Positions /\ q.full \in [DOMAIN q.full -> BOOLEAN]
      /\ q.heap \in SUBSET [at : Positions, tried : BOOLEAN]
  BY QueueParts
<1>2. Filled(q, window) = [full |-> q.full, heap |-> heap, index |-> index]
  <2> DEFINE last == Max({q.index} \union {RecordId(n) + 1 : n \in new})
  <2>1. Filled(q, window) = [q EXCEPT !.heap = heap, !.index = last]
    BY Zenon DEF Filled
  <2> HIDE DEF heap, last
  <2>2. Filled(q, window) = [full |-> q.full, heap |-> heap, index |-> last]
    BY <1>1, <2>1
  <2>3. index = last
    BY <2>2
  <2> QED BY <2>2, <2>3
<1>3. index \in Nat
  BY IndexOfFilled
<1>4. heap \in SUBSET [at : Positions, tried : BOOLEAN]
  BY <1>1
<1> HIDE DEF heap, index
<1>5. [full |-> q.full, heap |-> heap, index |-> index] \in Queues
  BY <1>1, <1>3, <1>4, QueueMade
<1> QED BY <1>2, <1>5 DEF heap

LEMMA QueuedIsQueue ==
    ASSUME NEW q \in Queues, NEW n \in Positions, NEW window
    PROVE  /\ Queued(q, n, window) \in Queues
           /\ DOMAIN Queued(q, n, window).full = DOMAIN q.full \union {n}
           /\ \E base \in Queues :
                /\ Queued(q, n, window) = Filled(base, window)
                /\ base.full = Recorded(q, n) /\ base.heap = q.heap
                /\ base.index = IF RecordId(n) < q.index THEN RecordId(n) ELSE q.index
<1> DEFINE index == IF RecordId(n) < q.index THEN RecordId(n) ELSE q.index
           base == [full |-> Recorded(q, n), heap |-> q.heap, index |-> index]
<1>1. /\ q = [full |-> q.full, heap |-> q.heap, index |-> q.index]
      /\ DOMAIN q.full \in SUBSET Positions /\ q.full \in [DOMAIN q.full -> BOOLEAN]
      /\ q.heap \in SUBSET [at : Positions, tried : BOOLEAN] /\ q.index \in Nat
  BY QueueParts
<1>2. Queued(q, n, window) = Filled(base, window)
  BY DEF Queued
<1>3. index \in Nat
  BY <1>1, PositionsAreNumbers, RecordIdIsNumber
<1>4. Recorded(q, n) \in [DOMAIN q.full \union {n} -> BOOLEAN]
  BY <1>1 DEF Recorded
<1> HIDE DEF index
<1>5. base \in Queues
  BY <1>1, <1>3, <1>4, QueueMade
<1>6. base.full = Recorded(q, n) /\ base.heap = q.heap /\ base.index = index
  OBVIOUS
<1> HIDE DEF base
<1>7. Filled(base, window) \in Queues /\ Filled(base, window).full = Recorded(q, n)
  BY <1>5, <1>6, FilledIsQueue
<1> QED BY <1>2, <1>4, <1>5, <1>6, <1>7 DEF index


\* The loop of send_packet: there are queues after each packet, one step apart.
LEMMA EnqueuedSteps ==
    ASSUME NEW parts \in Nat, NEW window
    PROVE  \E after :
              /\ after = [i \in 0 .. parts |->
                            IF i = 0 THEN queue ELSE Queued(after[i - 1], outgoing + i - 1, window)]
              /\ Enqueued(parts, window) = after[parts]
<1> DEFINE G == {k \in Nat : \E after : after = [i \in 0 .. k |->
                    IF i = 0 THEN queue ELSE Queued(after[i - 1], outgoing + i - 1, window)]}
<1>1. 0 \in G
  <2> DEFINE after == [i \in 0 .. 0 |-> queue]
  <2>1. after = [i \in 0 .. 0 |->
                    IF i = 0 THEN queue ELSE Queued(after[i - 1], outgoing + i - 1, window)]
    OBVIOUS
  <2> HIDE DEF after
  <2> QED BY <2>1
<1>2. \A k \in Nat : k \in G => k + 1 \in G
  <2> SUFFICES ASSUME NEW k \in Nat, k \in G PROVE k + 1 \in G
    OBVIOUS
  <2>1. PICK before : before = [i \in 0 .. k |->
                IF i = 0 THEN queue ELSE Queued(before[i - 1], outgoing + i - 1, window)]
    OBVIOUS
  <2> HIDE DEF G
  <2> DEFINE after == [i \in 0 .. (k + 1) |->
                IF i = 0 THEN queue ELSE Queued(before[i - 1], outgoing + i - 1, window)]
  <2>2. \A i \in 0 .. k : after[i] = before[i]
    BY <2>1
  <2>3. \A i \in 0 .. (k + 1) : i # 0 => after[i - 1] = before[i - 1]
    <3> HIDE DEF after
    <3> QED BY <2>2
  <2>4. after = [i \in 0 .. (k + 1) |->
                IF i = 0 THEN queue ELSE Queued(after[i - 1], outgoing + i - 1, window)]
    <3>1. \A i \in 0 .. (k + 1) :
                (IF i = 0 THEN queue ELSE Queued(before[i - 1], outgoing + i - 1, window))
                  = IF i = 0 THEN queue ELSE Queued(after[i - 1], outgoing + i - 1, window)
      <4> HIDE DEF after
      <4> QED BY <2>3, Zenon
    <3> QED BY <3>1, Zenon
  <2> HIDE DEF after
  <2> QED BY <2>4 DEF G
<1>3. parts \in G
  BY <1>1, <1>2, Induction
<1> DEFINE Steps(after) == after = [i \in 0 .. parts |->
                    IF i = 0 THEN queue ELSE Queued(after[i - 1], outgoing + i - 1, window)]
<1>4. Steps(CHOOSE after : Steps(after))
  BY <1>3
<1>5. Enqueued(parts, window) = (CHOOSE after : Steps(after))[parts]
  BY DEF Enqueued
<1> QED BY <1>4, <1>5

\* Every record below the index has its entry in the heap.
Remembers(q) ==
    \A n \in DOMAIN q.full : RecordId(n) < q.index => \E r \in q.heap : r.at = n

\* fill_up_send_queue takes the first records there are: with one it takes every
\* one between it and the index.
LEMMA FilledRemembers ==
    ASSUME NEW q \in Queues, NEW window \in Nat, Remembers(q)
    PROVE  Remembers(Filled(q, window))
<1> DEFINE new == {n \in DOMAIN q.full : Fills(q, window, n)}
           f == Filled(q, window)
<1>1. /\ f.full = q.full
      /\ f.heap = q.heap \union {[at |-> n, tried |-> q.full[n]] : n \in new}
      /\ f.index \in {q.index} \union {RecordId(n) + 1 : n \in new}
  BY FilledIsQueue, IndexOfFilled
<1>2. /\ DOMAIN q.full \in SUBSET Positions /\ q.index \in Nat
      /\ q.heap \in SUBSET [at : Positions, tried : BOOLEAN]
  BY QueueParts
<1>3. \A n \in Positions : RecordId(n) \in Nat
  BY PositionsAreNumbers, RecordIdIsNumber
<1> SUFFICES ASSUME NEW m \in DOMAIN q.full, RecordId(m) < f.index
             PROVE  \E r \in f.heap : r.at = m
  BY <1>1 DEF Remembers
<1>4. CASE RecordId(m) < q.index
  BY <1>1, <1>4 DEF Remembers
<1>5. CASE ~(RecordId(m) < q.index)
  <2>1. PICK n \in new : f.index = RecordId(n) + 1
    BY <1>1, <1>5
  <2>2. n \in Positions /\ m \in Positions /\ RecordId(m) <= RecordId(n) /\ RecordId(m) >= q.index
    BY <1>2, <1>3, <1>5, <2>1
  <2>3. Between(q, q.index, m) \subseteq Between(q, q.index, n)
    BY <1>2, <1>3, <2>2 DEF Between
  <2>4. /\ Cardinality(Between(q, q.index, m)) \in Nat /\ Cardinality(Between(q, q.index, n)) \in Nat
        /\ Cardinality(Between(q, q.index, m)) <= Cardinality(Between(q, q.index, n))
    BY <2>3, BetweenIsFinite, FS_Subset, FS_CardinalityType
  <2>5. Cardinality(q.heap) \in Nat
    BY <1>2, HeapIsFinite, FS_CardinalityType
  <2>6. Cardinality(Between(q, q.index, n)) < window - Cardinality(q.heap)
    BY <2>1 DEF Fills
  <2>7. Fills(q, window, m)
    BY <2>2, <2>4, <2>5, <2>6 DEF Fills
  <2>8. [at |-> m, tried |-> q.full[m]] \in f.heap
    BY <1>1, <2>7
  <2> QED BY <2>8
<1> QED BY <1>4, <1>5

\* send_packet for one packet is a filling of the queue with its record.
LEMMA QueuedFillsBase ==
    ASSUME NEW q \in Queues, NEW n \in Positions, NEW window \in Nat, Remembers(q)
    PROVE  \E base \in Queues :
             /\ Queued(q, n, window) = Filled(base, window)
             /\ DOMAIN base.full = DOMAIN q.full \union {n} /\ base.heap = q.heap
             /\ Remembers(base)
<1>1. PICK base \in Queues :
         /\ Queued(q, n, window) = Filled(base, window)
         /\ base.full = Recorded(q, n) /\ base.heap = q.heap
         /\ base.index = IF RecordId(n) < q.index THEN RecordId(n) ELSE q.index
  BY QueuedIsQueue
<1>2. DOMAIN base.full = DOMAIN q.full \union {n}
  BY <1>1 DEF Recorded
<1>3. DOMAIN q.full \in SUBSET Positions /\ q.index \in Nat
  BY QueueParts
<1>4. \A m \in Positions : RecordId(m) \in Nat
  BY PositionsAreNumbers, RecordIdIsNumber
<1>5. Remembers(base)
  BY <1>1, <1>2, <1>3, <1>4 DEF Remembers
<1> QED BY <1>1, <1>2, <1>5

LEMMA QueuedRemembers ==
    ASSUME NEW q \in Queues, NEW n \in Positions, NEW window \in Nat, Remembers(q)
    PROVE  Remembers(Queued(q, n, window))
BY QueuedFillsBase, FilledRemembers

\* Connection::send_packet keeps the queues, adds each packet and forgets none.
LEMMA EnqueuedIsQueue ==
    ASSUME NEW parts \in Nat, NEW window \in Nat, queue \in Queues,
           outgoing \in Nat, Start <= outgoing, outgoing + parts <= Start + MaxPackets
    PROVE  /\ Enqueued(parts, window) \in Queues
           /\ DOMAIN Enqueued(parts, window).full
                = DOMAIN queue.full \union (outgoing .. outgoing + parts - 1)
           /\ Remembers(queue) => Remembers(Enqueued(parts, window))
<1>1. PICK after :
         /\ after = [i \in 0 .. parts |->
                       IF i = 0 THEN queue ELSE Queued(after[i - 1], outgoing + i - 1, window)]
         /\ Enqueued(parts, window) = after[parts]
  BY EnqueuedSteps
<1> DEFINE Good(i) == /\ after[i] \in Queues
                      /\ DOMAIN after[i].full = DOMAIN queue.full \union (outgoing .. outgoing + i - 1)
                      /\ Remembers(queue) => Remembers(after[i])
           G == {i \in Nat : i <= parts => Good(i)}
<1>2. 0 \in G
  BY <1>1
<1>3. \A i \in Nat : i \in G => i + 1 \in G
  <2> SUFFICES ASSUME NEW i \in Nat, i + 1 <= parts, Good(i) PROVE Good(i + 1)
    OBVIOUS
  <2> DEFINE n == outgoing + i
  <2>1. after[i + 1] = Queued(after[i], n, window)
    <3>1. /\ i + 1 \in 0 .. parts /\ i + 1 # 0
          /\ (i + 1) - 1 = i /\ outgoing + (i + 1) - 1 = outgoing + i
      OBVIOUS
    <3>2. after[i + 1] = IF i + 1 = 0 THEN queue
                         ELSE Queued(after[(i + 1) - 1], outgoing + (i + 1) - 1, window)
      BY <1>1, <3>1, Zenon
    <3> QED BY <3>1, <3>2, Zenon
  <2>2. n \in Positions
    BY TransportAssumption DEF Positions
  <2>3. /\ Queued(after[i], n, window) \in Queues
        /\ DOMAIN Queued(after[i], n, window).full = DOMAIN after[i].full \union {n}
    BY <2>2, QueuedIsQueue
  <2>4. Remembers(queue) => Remembers(Queued(after[i], n, window))
    BY <2>2, QueuedRemembers
  <2>5. outgoing .. outgoing + (i + 1) - 1 = (outgoing .. outgoing + i - 1) \union {n}
    OBVIOUS
  <2> HIDE DEF n
  <2> QED BY <2>1, <2>3, <2>4, <2>5
<1>4. parts \in G
  BY <1>2, <1>3, Induction
<1> QED BY <1>1, <1>4


\* Resender::ack_packet takes records away and nothing else.
LEMMA AckPacketIsQueue ==
    ASSUME NEW q \in Queues, NEW id
    PROVE  /\ AckPacket(q, id) \in Queues
           /\ DOMAIN AckPacket(q, id).full \subseteq DOMAIN q.full
           /\ AckPacket(q, id).heap = q.heap
           /\ Remembers(q) => Remembers(AckPacket(q, id))
<1>1. CASE DOMAIN q.full = {}
  BY <1>1 DEF AckPacket
<1>2. CASE DOMAIN q.full # {}
  <2>1. PICK named : /\ named \in SUBSET DOMAIN q.full
                     /\ AckPacket(q, id) =
                          [q EXCEPT !.full = [n \in DOMAIN q.full \ named |-> q.full[n]]]
    <3> DEFINE first == CHOOSE n \in DOMAIN q.full : IsFirst(q, n)
               named == {n \in DOMAIN q.full :
                           \/ n = first /\ Id(first) = id
                           \/ /\ Id(first) # id
                              /\ Id(n) = id
                              /\ Generation(RecordId(n)) =
                                   Generation(RecordId(first)) + IF id < Id(first) THEN 1 ELSE 0}
    <3>1. AckPacket(q, id) = [q EXCEPT !.full = [n \in DOMAIN q.full \ named |-> q.full[n]]]
      BY <1>2, Zenon DEF AckPacket
    <3>2. named \in SUBSET DOMAIN q.full
      OBVIOUS
    <3> HIDE DEF named
    <3> QED BY <3>1, <3>2
  <2> DEFINE full == [n \in DOMAIN q.full \ named |-> q.full[n]]
  <2>2. /\ q = [full |-> q.full, heap |-> q.heap, index |-> q.index]
        /\ DOMAIN q.full \in SUBSET Positions /\ q.full \in [DOMAIN q.full -> BOOLEAN]
        /\ q.heap \in SUBSET [at : Positions, tried : BOOLEAN] /\ q.index \in Nat
    BY QueueParts
  <2>3. full \in [DOMAIN q.full \ named -> BOOLEAN] /\ DOMAIN full = DOMAIN q.full \ named
    BY <2>2
  <2> HIDE DEF full
  <2>4. AckPacket(q, id) = [full |-> full, heap |-> q.heap, index |-> q.index]
    BY <2>1, <2>2 DEF full
  <2>5. [full |-> full, heap |-> q.heap, index |-> q.index] \in Queues
    BY <2>2, <2>3, QueueMade
  <2>6. Remembers(q) => Remembers([full |-> full, heap |-> q.heap, index |-> q.index])
    BY <2>3 DEF Remembers
  <2> QED BY <2>3, <2>4, <2>5, <2>6
<1> QED BY <1>1, <1>2

-----------------------------------------------------------------------------
(* The receiver's queues.                                                  *)

\* A row is as long as it can be, and each of its packets is found in the queue.
LEMMA RowIsFound ==
    /\ InRow \in 0 .. Ids - 1
    /\ \A k \in 1 .. InRow : Behind(k) # {} /\ Found(k) \in Behind(k)
    /\ InRow + 1 <= Ids - 1 => Behind(InRow + 1) = {}
<1> DEFINE rows == {k \in 0 .. Ids - 1 : \A i \in 1 .. k : Behind(i) # {}}
<1>1. rows \in SUBSET Nat /\ 0 \in rows /\ Ids - 1 \in Nat /\ \A k \in rows : k <= Ids - 1
  BY IdsAssumption
<1>2. InRow = Max(rows)
  BY DEF InRow
<1>3. InRow \in rows /\ \A k \in rows : k <= InRow
  BY <1>1, <1>2, MaxIsGreatest
<1>4. \A k \in 1 .. InRow : Behind(k) # {}
  BY <1>3
<1>5. \A k : Behind(k) # {} => Found(k) \in Behind(k)
  BY PositionsAreNumbers, MinIsLeast DEF Behind, Kept, Found
<1>6. ASSUME InRow + 1 <= Ids - 1, Behind(InRow + 1) # {} PROVE FALSE
  BY <1>3, IdsAssumption, <1>4, <1>6
<1> QED BY <1>3, <1>4, <1>5, <1>6

\* The loop of handle_command_packet, one packet after the other.
FirstStage == [fragmented |-> fragmented, received |-> received, tooLong |-> FALSE]

LEMMA AssembledSteps ==
    ASSUME NEW n, NEW row \in Nat
    PROVE  \E after :
              /\ after = [k \in 0 .. row |->
                            IF k = 0 THEN Joined(FirstStage, n) ELSE Joined(after[k - 1], Found(k))]
              /\ Assembled(n, row) = after[row]
<1> DEFINE G == {j \in Nat : \E after : after = [k \in 0 .. j |->
                    IF k = 0 THEN Joined(FirstStage, n) ELSE Joined(after[k - 1], Found(k))]}
<1>1. 0 \in G
  <2> DEFINE after == [k \in 0 .. 0 |-> Joined(FirstStage, n)]
  <2>1. after = [k \in 0 .. 0 |->
                    IF k = 0 THEN Joined(FirstStage, n) ELSE Joined(after[k - 1], Found(k))]
    OBVIOUS
  <2> HIDE DEF after
  <2> QED BY <2>1
<1>2. \A j \in Nat : j \in G => j + 1 \in G
  <2> SUFFICES ASSUME NEW j \in Nat, j \in G PROVE j + 1 \in G
    OBVIOUS
  <2>1. PICK before : before = [k \in 0 .. j |->
                IF k = 0 THEN Joined(FirstStage, n) ELSE Joined(before[k - 1], Found(k))]
    OBVIOUS
  <2> HIDE DEF G
  <2> DEFINE after == [k \in 0 .. (j + 1) |->
                IF k = 0 THEN Joined(FirstStage, n) ELSE Joined(before[k - 1], Found(k))]
  <2>2. \A k \in 0 .. j : after[k] = before[k]
    BY <2>1
  <2>3. \A k \in 0 .. (j + 1) : k # 0 => after[k - 1] = before[k - 1]
    <3> HIDE DEF after
    <3> QED BY <2>2
  <2>4. after = [k \in 0 .. (j + 1) |->
                IF k = 0 THEN Joined(FirstStage, n) ELSE Joined(after[k - 1], Found(k))]
    <3>1. \A k \in 0 .. (j + 1) :
                (IF k = 0 THEN Joined(FirstStage, n) ELSE Joined(before[k - 1], Found(k)))
                  = IF k = 0 THEN Joined(FirstStage, n) ELSE Joined(after[k - 1], Found(k))
      <4> HIDE DEF after
      <4> QED BY <2>3, Zenon
    <3> QED BY <3>1, Zenon
  <2> HIDE DEF after
  <2> QED BY <2>4 DEF G
<1>3. row \in G
  BY <1>1, <1>2, Induction
<1> DEFINE Steps(after) == after = [k \in 0 .. row |->
                    IF k = 0 THEN Joined(FirstStage, n) ELSE Joined(after[k - 1], Found(k))]
<1>4. Steps(CHOOSE after : Steps(after))
  BY <1>3
<1>5. Assembled(n, row) = (CHOOSE after : Steps(after))[row]
  BY DEF Assembled, FirstStage
<1> QED BY <1>4, <1>5

Stages ==
    {s \in [fragmented : Seq(Positions), received : Seq(Seq(Positions)), tooLong : BOOLEAN] :
        Len(s.fragmented) <= Fragments}

LEMMA JoinedIsStage ==
    ASSUME NEW s \in Stages, NEW n \in Positions
    PROVE  Joined(s, n) \in Stages
<1> DEFINE f == s.fragmented
           r == s.received
           t == s.tooLong
<1>1. /\ f \in Seq(Positions) /\ Len(f) <= Fragments /\ r \in Seq(Seq(Positions)) /\ t \in BOOLEAN
      /\ s = [fragmented |-> f, received |-> r, tooLong |-> t]
  BY DEF Stages
<1> HIDE DEF f, r, t
<1>2. \A g, h, u : g \in Seq(Positions) /\ Len(g) <= Fragments
                     /\ h \in Seq(Seq(Positions)) /\ u \in BOOLEAN
                   => [fragmented |-> g, received |-> h, tooLong |-> u] \in Stages
  BY DEF Stages
<1>3. f # << >> \/ f = << >>
  OBVIOUS
<1>4. CASE IsFragmented(n) /\ f = << >>
  <2>1. Joined(s, n) = [fragmented |-> <<n>>, received |-> r, tooLong |-> t]
    BY <1>1, <1>4 DEF Joined
  <2>2. <<n>> \in Seq(Positions) /\ Len(<<n>>) = 1 /\ 1 <= Fragments
    BY TransportAssumption
  <2> QED BY <1>1, <1>2, <2>1, <2>2
<1>5. CASE IsFragmented(n) /\ f # << >>
  <2>1. Joined(s, n) = [fragmented |-> << >>, received |-> Append(r, Append(f, n)), tooLong |-> t]
    BY <1>1, <1>5 DEF Joined
  <2>2. << >> \in Seq(Positions) /\ Len(<< >>) <= Fragments /\ Append(f, n) \in Seq(Positions)
    BY <1>1, TransportAssumption
  <2>3. Append(r, Append(f, n)) \in Seq(Seq(Positions))
    BY <1>1, <2>2
  <2> QED BY <1>1, <1>2, <2>1, <2>2, <2>3
<1>6. CASE ~IsFragmented(n) /\ f = << >>
  <2>1. Joined(s, n) = [fragmented |-> f, received |-> Append(r, <<n>>), tooLong |-> t]
    BY <1>1, <1>6 DEF Joined
  <2>2. <<n>> \in Seq(Positions)
    OBVIOUS
  <2>3. Append(r, <<n>>) \in Seq(Seq(Positions))
    BY <1>1, <2>2
  <2> QED BY <1>1, <1>2, <2>1, <2>3
<1>7. CASE ~IsFragmented(n) /\ f # << >>
  <2>1. Joined(s, n) = Extended(s, n)
    BY <1>1, <1>7 DEF Joined
  <2>2. Append(f, n) \in Seq(Positions) /\ Len(Append(f, n)) = Len(f) + 1 /\ Len(f) \in Nat
    BY <1>1
  <2>3. CASE Len(f) < Fragments
    <3>1. Len(Append(f, n)) <= Fragments
      BY <2>2, <2>3, TransportAssumption
    <3>2. Extended(s, n) = [fragmented |-> Append(f, n), received |-> r, tooLong |-> t]
      BY <1>1, <2>3 DEF Extended
    <3> QED BY <1>1, <1>2, <2>1, <2>2, <3>1, <3>2
  <2>4. CASE ~(Len(f) < Fragments)
    <3>1. Extended(s, n) = [fragmented |-> f, received |-> r, tooLong |-> TRUE]
      BY <1>1, <2>4 DEF Extended
    <3> QED BY <1>1, <1>2, <2>1, <3>1
  <2> QED BY <2>3, <2>4
<1> QED BY <1>4, <1>5, <1>6, <1>7

LEMMA AssembledIsStage ==
    ASSUME FirstStage \in Stages, NEW n \in Positions
    PROVE  Assembled(n, InRow) \in Stages
<1>1. InRow \in Nat /\ \A k \in 1 .. InRow : Found(k) \in Positions
  BY RowIsFound DEF Behind, Kept
<1>2. PICK after :
         /\ after = [k \in 0 .. InRow |->
                       IF k = 0 THEN Joined(FirstStage, n) ELSE Joined(after[k - 1], Found(k))]
         /\ Assembled(n, InRow) = after[InRow]
  BY <1>1, AssembledSteps
<1> DEFINE G == {k \in Nat : k <= InRow => after[k] \in Stages}
<1>3. 0 \in G
  BY <1>1, <1>2, JoinedIsStage
<1>4. \A k \in Nat : k \in G => k + 1 \in G
  BY <1>1, <1>2, JoinedIsStage
<1>5. InRow \in G
  BY <1>1, <1>3, <1>4, Induction
<1> QED BY <1>1, <1>2, <1>5

-----------------------------------------------------------------------------
(* Type correctness, and what the sender never forgets.                    *)

LEMMA TypeInit == Init => TypeOK
<1> SUFFICES ASSUME Init PROVE TypeOK
  OBVIOUS
<1> USE TransportAssumption DEF Init
<1>1. queue \in Queues
  <2>1. EmptyQueue = [full |-> << >>, heap |-> {}, index |-> 0]
    BY DEF EmptyQueue
  <2>2. queue = [full |-> << >>, heap |-> {}, index |-> Start]
    BY <2>1
  <2>3. << >> \in [{} -> BOOLEAN] /\ {} \in SUBSET Positions /\ Start \in Nat
        /\ {} \in SUBSET [at : Positions, tried : BOOLEAN]
    OBVIOUS
  <2>4. [full |-> << >>, heap |-> {}, index |-> Start] \in Queues
    BY <2>3, QueueMade, Zenon
  <2> QED BY <2>2, <2>4, Zenon
<1>2. commands \in Seq(Seq(Positions)) /\ fragmented \in Seq(Positions) /\ received \in Seq(Seq(Positions))
  OBVIOUS
<1>3. Len(fragmented) <= Fragments
  OBVIOUS
<1>4. receiveQueue \in [Positions -> 0 .. MaxCopies]
  OBVIOUS
<1> QED BY <1>1, <1>2, <1>3, <1>4 DEF TypeOK

\* What each action does to the queues of the sender.
LEMMA TypeNext == TypeOK /\ [Next]_vars => TypeOK' /\ (Remembers(queue) => Remembers(queue)')
<1> SUFFICES ASSUME TypeOK, [Next]_vars
             PROVE  TypeOK' /\ (Remembers(queue) => Remembers(queue'))
  BY DEF Remembers
<1> DEFINE Wires == [packets : SUBSET Positions, acks : SUBSET Positions, losses : 0 .. MaxLosses]
<1>0. /\ commands \in Seq(Seq(Positions)) /\ outgoing \in Start .. Start + MaxPackets
      /\ queue \in Queues /\ wire \in Wires /\ incoming \in Nat
      /\ receiveQueue \in [Positions -> 0 .. MaxCopies]
      /\ fragmented \in Seq(Positions) /\ Len(fragmented) <= Fragments
      /\ received \in Seq(Seq(Positions)) /\ lost \subseteq {"sender", "receiver"}
  BY DEF TypeOK
<1> USE DEF vars, receiverVars
<1>1. \A packets, acks \in SUBSET Positions, losses \in 0 .. MaxLosses :
        [packets |-> packets, acks |-> acks, losses |-> losses] \in Wires
  OBVIOUS
<1>2. /\ wire.packets \in SUBSET Positions /\ wire.acks \in SUBSET Positions
      /\ wire.losses \in 0 .. MaxLosses
      /\ wire = [packets |-> wire.packets, acks |-> wire.acks, losses |-> wire.losses]
  BY <1>0
<1>3. \A n \in Positions : Acknowledge(n) => wire' \in Wires
  BY <1>1, <1>2 DEF Acknowledge
<1> HIDE DEF Wires
<1>4. ASSUME NEW parts \in 1 .. MaxParts, Send(parts)
      PROVE  TypeOK' /\ (Remembers(queue) => Remembers(queue'))
  <2>1. parts \in Nat /\ outgoing \in Nat /\ Start <= outgoing /\ outgoing + parts <= Start + MaxPackets
    BY <1>0, <1>4, TransportAssumption DEF Send
  <2>2. PICK window \in Windows : queue' = Enqueued(parts, window)
    BY <1>4 DEF Send
  <2>3. window \in Nat
    BY TransportAssumption
  <2>4. queue' \in Queues /\ (Remembers(queue) => Remembers(queue'))
    BY <1>0, <2>1, <2>2, <2>3, EnqueuedIsQueue
  <2>5. commands' \in Seq(Seq(Positions))
    BY <2>1, TransportAssumption, <1>4, <1>0 DEF Positions, Send
  <2>6. outgoing' \in Start .. Start + MaxPackets
    BY <1>0, <1>4, <2>1, TransportAssumption DEF Send
  <2> QED BY <1>0, <1>4, <2>4, <2>5, <2>6 DEF TypeOK, Send, Wires
<1>5. ASSUME NEW r \in queue.heap, Transmit(r) \/ DropAcknowledged(r) \/ GiveUp(r)
      PROVE  TypeOK' /\ (Remembers(queue) => Remembers(queue'))
  <2>1. /\ queue = [full |-> queue.full, heap |-> queue.heap, index |-> queue.index]
        /\ DOMAIN queue.full \in SUBSET Positions /\ queue.full \in [DOMAIN queue.full -> BOOLEAN]
        /\ queue.heap \in SUBSET [at : Positions, tried : BOOLEAN] /\ queue.index \in Nat
    BY <1>0, QueueParts
  <2>2. \A n \in Positions : RecordId(n) \in Nat
    BY PositionsAreNumbers, RecordIdIsNumber
  <2>3. /\ queue' \in Queues /\ (Remembers(queue) => Remembers(queue'))
        /\ wire' \in Wires /\ lost' \subseteq {"sender", "receiver"}
    <3>1. CASE Transmit(r)
      <4>1. wire' = [packets |-> wire.packets \union {r.at}, acks |-> wire.acks, losses |-> wire.losses]
        BY <1>2, <3>1 DEF Transmit
      <4>2. r.at \in Positions
        BY <2>1
      <4>3. wire' \in Wires
        BY <1>1, <1>2, <4>1, <4>2
      <4>4. CASE r.tried
        <5> DEFINE base == [full |-> queue.full, heap |-> {}, index |-> 0]
        <5>1. PICK window \in Windows : queue' = Filled(base, window)
          BY <3>1, <4>4 DEF Transmit
        <5>2. window \in Nat
          BY TransportAssumption
        <5>3. base \in Queues
          BY <2>1, QueueMade
        <5>4. Remembers(base)
          BY <2>1, <2>2 DEF Remembers
        <5> HIDE DEF base
        <5> QED BY <1>0, <3>1, <4>3, <5>1, <5>2, <5>3, <5>4, FilledIsQueue, FilledRemembers DEF Transmit
      <4>5. CASE ~r.tried
        <5> DEFINE full == [queue.full EXCEPT ![r.at] = TRUE]
                   heap == (queue.heap \ {r}) \union {[at |-> r.at, tried |-> TRUE]}
        <5>1. queue' = [full |-> full, heap |-> heap, index |-> queue.index]
          BY <3>1, <4>5 DEF Transmit
        <5>2. full \in [DOMAIN queue.full -> BOOLEAN]
          BY <2>1
        <5>3. [at |-> r.at, tried |-> TRUE] \in [at : Positions, tried : BOOLEAN]
          BY <4>2
        <5>4. heap \in SUBSET [at : Positions, tried : BOOLEAN]
          BY <2>1, <5>3
        <5>5. \A n : (\E s \in queue.heap : s.at = n) => \E s \in heap : s.at = n
          <6>1. [at |-> r.at, tried |-> TRUE] \in heap /\ [at |-> r.at, tried |-> TRUE].at = r.at
            OBVIOUS
          <6>2. \A s \in queue.heap : s # r => s \in heap
            OBVIOUS
          <6> HIDE DEF heap
          <6> QED BY <6>1, <6>2
        <5> HIDE DEF full, heap
        <5>6. queue' \in Queues
          BY <2>1, <5>1, <5>2, <5>4, QueueMade
        <5>7. /\ DOMAIN queue'.full = DOMAIN queue.full /\ queue'.index = queue.index
              /\ queue'.heap = heap
          BY <5>1, <5>2
        <5>8. Remembers(queue) => Remembers(queue')
          BY <5>5, <5>7 DEF Remembers
        <5> QED BY <1>0, <3>1, <4>3, <5>6, <5>8 DEF Transmit
      <4> QED BY <4>4, <4>5
    <3>2. CASE DropAcknowledged(r)
      <4> DEFINE base == [full |-> queue.full, heap |-> queue.heap \ {r}, index |-> queue.index]
      <4>1. PICK window \in Windows : queue' = Filled(base, window)
        BY <3>2 DEF DropAcknowledged
      <4>2. window \in Nat
        BY TransportAssumption
      <4>4. base \in Queues
        BY <2>1, QueueMade
      <4>5. Remembers(queue) => Remembers(base)
        BY <3>2 DEF Remembers, DropAcknowledged
      <4> HIDE DEF base
      <4> QED BY <1>0, <3>2, <4>1, <4>2, <4>4, <4>5, FilledIsQueue, FilledRemembers DEF DropAcknowledged
    <3>3. CASE GiveUp(r)
      BY <1>0, <3>3 DEF GiveUp
    <3> QED BY <1>5, <3>1, <3>2, <3>3
  <2>4. UNCHANGED <<commands, outgoing, receiverVars>>
    BY <1>5 DEF Transmit, DropAcknowledged, GiveUp
  <2> QED BY <1>0, <2>3, <2>4 DEF TypeOK, Wires
<1>6. ASSUME NEW n \in Positions, ReceiveNext(n)
      PROVE  TypeOK' /\ (Remembers(queue) => Remembers(queue'))
  <2> DEFINE after == Assembled(n, InRow)
  <2>1. FirstStage \in Stages
    BY <1>0 DEF FirstStage, Stages
  <2>2. after \in Stages
    BY <2>1, AssembledIsStage
  <2>3. InRow \in Nat
    BY RowIsFound
  <2>4. receiveQueue' \in [Positions -> 0 .. MaxCopies]
    <3>1. \A k \in 1 .. InRow : receiveQueue[Found(k)] > 0
      BY RowIsFound DEF Behind, Kept
    <3>2. receiveQueue' = Left(InRow)
      BY <1>6 DEF ReceiveNext
    <3>3. Left(InRow) \in [Positions -> 0 .. MaxCopies]
      BY <1>0, <3>1, TransportAssumption DEF Left
    <3> QED BY <3>2, <3>3
  <2>5. /\ wire' \in Wires /\ fragmented' \in Seq(Positions) /\ Len(fragmented') <= Fragments
        /\ received' \in Seq(Seq(Positions)) /\ lost' \subseteq {"sender", "receiver"}
    BY <1>0, <1>6, <2>2, <1>3 DEF ReceiveNext, Stages
  <2>6. incoming' \in Nat /\ UNCHANGED <<commands, outgoing, queue>>
    BY <1>0, <1>6, <2>3 DEF ReceiveNext
  <2> QED BY <1>0, <2>4, <2>5, <2>6 DEF TypeOK, Wires
<1>7. ASSUME NEW n \in Positions, ReceiveEarly(n) \/ ReceiveTooEarly(n) \/ ReceiveAgain(n)
      PROVE  TypeOK' /\ (Remembers(queue) => Remembers(queue'))
  <2>1. wire' \in Wires
    BY <1>0, <1>3, <1>7 DEF ReceiveEarly, ReceiveTooEarly, ReceiveAgain
  <2>2. receiveQueue' \in [Positions -> 0 .. MaxCopies]
    BY <1>0, TransportAssumption, <1>7 DEF ReceiveEarly, ReceiveTooEarly, ReceiveAgain
  <2>3. lost' \subseteq {"sender", "receiver"}
    BY <1>0, <1>7 DEF ReceiveEarly, ReceiveTooEarly, ReceiveAgain
  <2>4. UNCHANGED <<commands, outgoing, queue, incoming, fragmented, received>>
    BY <1>7 DEF ReceiveEarly, ReceiveTooEarly, ReceiveAgain
  <2> QED BY <1>0, <2>1, <2>2, <2>3, <2>4 DEF TypeOK, Wires
<1>8. ASSUME NEW n \in Positions, ReceiveAck(n) \/ Lose(n)
      PROVE  TypeOK' /\ (Remembers(queue) => Remembers(queue'))
  <2>1. queue' \in Queues /\ (Remembers(queue) => Remembers(queue'))
    BY <1>0, <1>8, AckPacketIsQueue DEF ReceiveAck, Lose
  <2>2. wire' \in Wires
    <3>1. CASE ReceiveAck(n)
      BY <1>0, <3>1 DEF ReceiveAck
    <3>2. CASE Lose(n)
      BY <1>2, <3>2, TransportAssumption, <1>1 DEF Lose
    <3> QED BY <1>8, <3>1, <3>2
  <2>3. UNCHANGED <<commands, outgoing, receiverVars, lost>>
    BY <1>8 DEF ReceiveAck, Lose
  <2> QED BY <1>0, <2>1, <2>2, <2>3 DEF TypeOK, Wires
<1>9. CASE UNCHANGED vars
  BY <1>9 DEF TypeOK
<1> QED BY <1>4, <1>5, <1>6, <1>7, <1>8, <1>9 DEF Next, PollResend, Receive

\* Type correctness, over the wrap of the ids and with every congestion window.
THEOREM TypeIsOK == Spec => []TypeOK
<1>1. Init => TypeOK
  BY TypeInit
<1>2. TypeOK /\ [Next]_vars => TypeOK'
  BY TypeNext
<1> QED BY <1>1, <1>2, PTL DEF Spec

\* However the congestion window moves, a packet that is not acknowledged and
\* that the filling has passed by is in the heap, and sent again.
THEOREM UnacknowledgedIsRemembered == Spec => []NothingForgotten
<1>1. Init => TypeOK /\ Remembers(queue)
  BY TypeInit DEF Init, EmptyQueue, Remembers
<1>2. (TypeOK /\ Remembers(queue)) /\ [Next]_vars => (TypeOK /\ Remembers(queue))'
  BY TypeNext
<1>3. Remembers(queue) => NothingForgotten
  BY DEF Remembers, NothingForgotten
<1> QED BY <1>1, <1>2, <1>3, PTL DEF Spec

-----------------------------------------------------------------------------
(* Acknowledged means received.                                            *)

\* What the proofs ask of a run. Either the queue of early packets keeps one copy
\* of each, or the stream is no longer than a round of the ids.
OneOfEach == MaxCopies = 1 \/ MaxPackets <= Ids

\* And no packet is under way that the receiver could take for an old one.
InSight == \A n \in wire.packets : n < incoming + Half

Has(n) == n < incoming \/ n \in Kept

KeptIsAhead ==
    \A p \in Kept :
        /\ Start < p /\ p < outgoing /\ p < incoming + QueueLen
        /\ MaxCopies = 1 => incoming < p

Sent(n) == n < outgoing

Transported ==
    /\ Start <= incoming /\ incoming <= outgoing
    /\ \A n \in wire.packets : Sent(n)
    /\ \A n \in wire.acks : Sent(n) /\ Has(n)
    /\ \A n \in DOMAIN queue.full : Sent(n)
    /\ KeptIsAhead
    /\ AcknowledgedWasReceived

LEMMA FitsIsNear ==
    ASSUME TypeOK, NEW n \in Positions, Deciphers(n), FitsQueue(Id(n))
    PROVE  n < incoming + QueueLen
<1> DEFINE limit == incoming + QueueLen
<1>1. incoming \in Nat /\ n \in Nat
  BY PositionsAreNumbers DEF TypeOK
<1>2. incoming <= n /\ n < incoming + Half
  BY <1>1, FoundIsAhead DEF Deciphers
<1>3. Half \in Nat /\ 2 * Half < Ids /\ limit \in Nat /\ limit < incoming + Ids /\ n < incoming + Ids
      /\ incoming <= limit /\ limit - incoming = QueueLen
  BY <1>1, <1>2, HalfARound, TransportAssumption, IdsAssumption
<1>4. /\ Id(n) \in 0 .. (Ids - 1) /\ Id(incoming) \in 0 .. (Ids - 1) /\ Id(limit) \in 0 .. (Ids - 1)
      /\ Generation(incoming) \in Nat /\ Generation(limit) \in Nat /\ Generation(n) \in Nat
  BY <1>1, <1>3, Split
<1>5. \/ Generation(n) = Generation(incoming) /\ n - incoming = Id(n) - Id(incoming)
      \/ Generation(n) = Generation(incoming) + 1 /\ n - incoming = Id(n) - Id(incoming) + Ids
  BY <1>1, <1>2, <1>3, Neighbours
<1>6. \/ Generation(limit) = Generation(incoming) /\ QueueLen = Id(limit) - Id(incoming)
      \/ Generation(limit) = Generation(incoming) + 1 /\ QueueLen = Id(limit) - Id(incoming) + Ids
  BY <1>1, <1>3, Neighbours
<1>7. IF Generation(limit) # Generation(incoming)
      THEN Id(n) >= Id(incoming) \/ Id(n) < Id(limit)
      ELSE Id(n) >= Id(incoming) /\ Id(n) < Id(limit)
  BY DEF FitsQueue
<1>8. n < limit
  BY <1>1, <1>2, <1>3, <1>4, <1>5, <1>6, <1>7, TransportAssumption, IdsAssumption
<1> QED BY <1>8

\* The packets taken in a row are the next ones, one after the other.
LEMMA RowIsNext ==
    ASSUME OneOfEach, TypeOK, KeptIsAhead, Start <= incoming, incoming < outgoing
    PROVE  /\ \A k \in 1 .. InRow : Found(k) = incoming + k /\ incoming + k \in Kept
           /\ InRow \in Nat /\ InRow < QueueLen /\ incoming + InRow < outgoing
<1>0. /\ incoming \in Nat /\ outgoing \in Nat /\ outgoing <= Start + MaxPackets /\ Start \in Nat
      /\ MaxPackets \in Nat /\ QueueLen \in Nat \ {0} /\ QueueLen < Ids /\ Ids \in Nat
  BY TransportAssumption, IdsAssumption DEF TypeOK
<1>1. InRow \in 0 .. Ids - 1 /\ \A k \in 1 .. InRow : Behind(k) # {} /\ Found(k) \in Behind(k)
  BY RowIsFound
<1>2. ASSUME NEW k \in 1 .. InRow, NEW p \in Behind(k) PROVE p = incoming + k
  <2>1. p \in Kept /\ p \in Nat /\ Id(p) = Id(incoming + k)
    BY PositionsAreNumbers DEF Behind, Kept
  <2>2. Start < p /\ p < outgoing /\ p < incoming + QueueLen /\ (MaxCopies = 1 => incoming < p)
    BY <2>1 DEF KeptIsAhead
  <2>3. k \in Nat /\ 1 <= k /\ k < Ids /\ incoming + k \in Nat
    BY <1>0, <1>1
  <2>4. CASE incoming <= p
    BY <1>0, <2>1, <2>3, <2>4, SameId, <2>2
  <2>5. CASE p < incoming
    <3>1. MaxPackets <= Ids
      BY <1>0, <2>1, <2>2, <2>5 DEF OneOfEach
    <3>2. p + Ids \in Nat /\ Id(p + Ids) = Id(incoming + k)
      BY <1>0, <2>1, NextRound
    <3>3. incoming < p + Ids
      BY <1>0, <2>1, <2>2, <3>1
    <3>4. p + Ids = incoming + k
      BY <1>0, <2>1, <2>3, <3>3, <3>2, SameId, <2>5
    <3> DEFINE j == Start + Ids - incoming
    <3>5. j \in 1 .. InRow /\ incoming + j = Start + Ids
      BY <1>0, <1>1, <2>1, <2>2, <2>3, <3>1, <3>4
    <3>6. PICK r \in Kept : Id(r) = Id(Start + Ids)
      BY <1>1, <3>5 DEF Behind
    <3>7. r \in Nat /\ Start < r /\ r < outgoing
      BY <3>6, PositionsAreNumbers DEF KeptIsAhead, Kept
    <3>8. Id(Start) = Id(r)
      BY <1>0, <3>6, NextRound
    <3>9. r < Start + Ids
      BY <1>0, <3>1, <3>7
    <3>10. Start = r
      BY <1>0, <3>7, <3>8, <3>9, SameId
    <3> QED BY <3>7, <3>10
  <2> QED BY <1>0, <2>1, <2>4, <2>5
<1>3. \A k \in 1 .. InRow : Found(k) = incoming + k /\ incoming + k \in Kept
  BY <1>1, <1>2 DEF Behind
<1>4. InRow < QueueLen /\ incoming + InRow < outgoing
  BY <1>0, <1>1, <1>3 DEF KeptIsAhead
<1> QED BY <1>1, <1>3, <1>4

LEMMA AckedHasItsId ==
    ASSUME NEW q \in Queues, NEW id, NEW m \in DOMAIN q.full, m \notin DOMAIN AckPacket(q, id).full
    PROVE  Id(m) = id
<1> DEFINE first == CHOOSE n \in DOMAIN q.full : IsFirst(q, n)
           named == {n \in DOMAIN q.full :
                       \/ n = first /\ Id(first) = id
                       \/ /\ Id(first) # id
                          /\ Id(n) = id
                          /\ Generation(RecordId(n)) =
                               Generation(RecordId(first)) + IF id < Id(first) THEN 1 ELSE 0}
           full == [n \in DOMAIN q.full \ named |-> q.full[n]]
<1>1. AckPacket(q, id) = [q EXCEPT !.full = full]
  BY Zenon DEF AckPacket
<1>2. \A n \in named : Id(n) = id
  OBVIOUS
<1> HIDE DEF named
<1>3. DOMAIN full = DOMAIN q.full \ named
  OBVIOUS
<1> HIDE DEF full
<1>4. [q EXCEPT !.full = full].full = full
  BY QueueParts
<1> QED BY <1>1, <1>2, <1>3, <1>4

\* Polling changes what was sent, not which packets are unacknowledged.
LEMMA PollKeepsRecords ==
    ASSUME TypeOK, NEW r \in queue.heap, Transmit(r) \/ DropAcknowledged(r) \/ GiveUp(r)
    PROVE  DOMAIN queue'.full = DOMAIN queue.full
<1>1. /\ DOMAIN queue.full \in SUBSET Positions /\ queue.full \in [DOMAIN queue.full -> BOOLEAN]
      /\ queue.heap \in SUBSET [at : Positions, tried : BOOLEAN] /\ queue.index \in Nat
  BY QueueParts DEF TypeOK
<1>2. CASE Transmit(r)
  <2>1. CASE r.tried
    BY <1>2, <2>1, <1>1, QueueMade, FilledIsQueue DEF Transmit
  <2>2. CASE ~r.tried
    BY <1>2, <2>2 DEF Transmit
  <2> QED BY <2>1, <2>2
<1>3. CASE DropAcknowledged(r)
  BY <1>3, <1>1, QueueMade, FilledIsQueue DEF DropAcknowledged
<1>4. CASE GiveUp(r)
  BY <1>4 DEF GiveUp
<1> QED BY <1>2, <1>3, <1>4

LEMMA TransportedInit == Init => Transported
  BY TransportAssumption DEF Init, Kept, EmptyQueue, Transported, KeptIsAhead,
     AcknowledgedWasReceived

LEMMA TransportedSend ==
    ASSUME TypeOK, Transported, NEW parts \in 1 .. MaxParts, Send(parts)
    PROVE  Transported'
<1>1. parts \in Nat \ {0} /\ outgoing \in Nat /\ Start <= outgoing /\ outgoing + parts <= Start + MaxPackets
      /\ outgoing' = outgoing + parts /\ outgoing < outgoing'
  BY TransportAssumption DEF Send, TypeOK
<1>2. PICK window \in Windows : queue' = Enqueued(parts, window)
  BY DEF Send
<1>3. DOMAIN queue'.full = DOMAIN queue.full \union (outgoing .. outgoing + parts - 1)
  BY TransportAssumption, <1>1, <1>2, EnqueuedIsQueue DEF TypeOK
<1>4. UNCHANGED <<wire, incoming, receiveQueue>> /\ Kept' = Kept
  BY DEF Send, receiverVars, Kept
<1>5. /\ incoming \in Nat /\ wire.packets \in SUBSET Positions /\ wire.acks \in SUBSET Positions
      /\ DOMAIN queue.full \in SUBSET Positions
  BY QueueParts DEF TypeOK
<1>6. Positions \in SUBSET Nat /\ Kept \in SUBSET Positions
  BY PositionsAreNumbers DEF Kept
<1>7. /\ Start <= incoming' /\ incoming' <= outgoing'
      /\ \A n \in wire'.packets : Sent(n)'
      /\ \A n \in wire'.acks : Sent(n)' /\ Has(n)'
      /\ KeptIsAhead'
  <2>1. \A n \in Nat : Sent(n) => Sent(n)'
    BY <1>1 DEF Sent
  <2>2. \A n : Has(n) => Has(n)'
    BY <1>4 DEF Has
  <2>3. \A n \in wire.packets : Sent(n)'
    BY <1>5, <1>6, <2>1 DEF Transported
  <2>4. \A n \in wire.acks : Sent(n)' /\ Has(n)'
    BY <1>5, <1>6, <2>1, <2>2 DEF Transported
  <2>5. \A p \in Kept : p \in Nat /\ p < outgoing => p < outgoing'
    BY <1>1
  <2>6. KeptIsAhead'
    BY <1>4, <1>6, <2>5 DEF Transported, KeptIsAhead
  <2>7. Start <= incoming' /\ incoming' <= outgoing'
    BY <1>1, <1>4, <1>5, TransportAssumption DEF Transported
  <2> QED BY <1>4, <2>3, <2>4, <2>6, <2>7
<1>8. \A n \in DOMAIN queue'.full : Sent(n)'
  <2> SUFFICES ASSUME NEW n \in DOMAIN queue'.full PROVE n < outgoing'
    BY DEF Sent
  <2>1. CASE n \in DOMAIN queue.full
    <3>1. n \in Nat /\ n < outgoing
      BY <1>5, <1>6, <2>1 DEF Transported, Sent
    <3> QED BY <1>1, <3>1
  <2>2. CASE n \in outgoing .. outgoing + parts - 1
    BY <1>1, <2>2
  <2> QED BY <1>3, <2>1, <2>2
<1>9. AcknowledgedWasReceived'
  BY <1>4, <1>1, <1>3, TransportAssumption DEF AcknowledgedWasReceived, Transported
<1> QED BY <1>7, <1>8, <1>9 DEF Transported

LEMMA TransportedPoll ==
    ASSUME TypeOK, Transported, NEW r \in queue.heap, Transmit(r) \/ DropAcknowledged(r) \/ GiveUp(r)
    PROVE  Transported'
<1>1. DOMAIN queue'.full = DOMAIN queue.full
  BY PollKeepsRecords
<1>2. UNCHANGED <<outgoing, incoming, receiveQueue>> /\ Kept' = Kept
  BY DEF Transmit, DropAcknowledged, GiveUp, receiverVars, Kept
<1>3. wire'.acks = wire.acks /\ \A n \in wire'.packets : Sent(n)
  BY DEF Transmit, TypeOK, Transported, DropAcknowledged, GiveUp
<1> QED BY <1>1, <1>2, <1>3 DEF Transported, Sent, Has, KeptIsAhead, AcknowledgedWasReceived

LEMMA TransportedNextInRow ==
    ASSUME OneOfEach, TypeOK, Transported, NEW n \in Positions, ReceiveNext(n)
    PROVE  Transported'
<1>0. /\ incoming \in Nat /\ outgoing \in Nat /\ n \in Nat /\ Start \in Nat /\ QueueLen \in Nat
      /\ QueueLen < Ids \div 2 /\ Ids \in Nat /\ Ids >= 4 /\ QueueLen >= 1
  BY TransportAssumption, IdsAssumption, PositionsAreNumbers DEF TypeOK
<1>1. n = incoming
  BY <1>0, FoundIsAhead, HalfARound, SameId DEF ReceiveNext, Deciphers
<1>2. incoming < outgoing
  BY <1>1 DEF ReceiveNext, Arrives, OnWire, Transported, Sent
<1>3. /\ \A k \in 1 .. InRow : Found(k) = incoming + k /\ incoming + k \in Kept
      /\ InRow \in Nat /\ InRow < QueueLen /\ incoming + InRow < outgoing
  BY <1>2, RowIsNext DEF Transported
<1>4. /\ incoming' = incoming + InRow + 1 /\ receiveQueue' = Left(InRow)
      /\ UNCHANGED <<outgoing, queue>>
  BY DEF ReceiveNext
<1>5. incoming' \in Nat /\ incoming < incoming' /\ incoming' <= outgoing
  BY <1>0, <1>3, <1>4
<1>6. Kept' \subseteq Kept /\ \A p \in Kept : p \in Kept' \/ p < incoming'
  BY <1>4, <1>0, <1>3 DEF Kept, TypeOK, Left
<1>7. MaxCopies = 1 => \A p \in Kept' : incoming' < p
  <2> SUFFICES ASSUME MaxCopies = 1, NEW p \in Kept' PROVE incoming' < p
    OBVIOUS
  <2>1. p \in Kept /\ p \in Positions /\ p \in Nat /\ incoming < p /\ receiveQueue'[p] > 0
    BY <1>6, PositionsAreNumbers DEF Kept, KeptIsAhead, Transported
  <2>2. receiveQueue[p] \in 0 .. 1
    BY <2>1 DEF TypeOK
  <2>3. receiveQueue'[p] = IF \E k \in 1 .. InRow : p = Found(k)
                           THEN receiveQueue[p] - 1 ELSE receiveQueue[p]
    BY <1>4, <2>1 DEF Left
  <2>4. ~ \E k \in 1 .. InRow : p = incoming + k
    BY <1>3, <2>1, <2>2, <2>3
  <2>5. incoming + InRow < p
    BY <1>0, <1>3, <2>1, <2>4
  <2>6. p # incoming + (InRow + 1)
    BY <2>1, <1>0, <1>3, RowIsFound DEF Behind
  <2> QED BY <1>0, <1>3, <1>4, <2>1, <2>5, <2>6
<1>8. wire'.packets = wire.packets /\ wire'.acks \subseteq wire.acks \union {n}
  BY DEF ReceiveNext, Acknowledge, TypeOK
<1>9. KeptIsAhead'
  <2> SUFFICES ASSUME NEW p \in Kept'
               PROVE  Start < p /\ p < outgoing /\ p < incoming' + QueueLen /\ (MaxCopies = 1 => incoming' < p)
    BY <1>4 DEF KeptIsAhead
  <2>1. p \in Nat /\ Start < p /\ p < outgoing /\ p < incoming + QueueLen
    BY <1>6, PositionsAreNumbers DEF Kept, KeptIsAhead, Transported
  <2>2. p < incoming' + QueueLen
    <3>1. \A a, b, c, d \in Nat : a < b + c /\ b < d => a < d + c
      OBVIOUS
    <3>2. incoming \in Nat /\ incoming' \in Nat /\ QueueLen \in Nat /\ incoming < incoming'
      BY <1>0, <1>5
    <3> QED BY <2>1, <3>1, <3>2
  <2>3. MaxCopies = 1 => incoming' < p
    BY <1>7
  <2> QED BY <2>1, <2>2, <2>3
<1>10. \A m \in Nat : Has(m) => Has(m)'
  BY <1>0, <1>5, <1>6 DEF Has
<1>11. AcknowledgedWasReceived'
  BY <1>4, <1>0, <1>10 DEF AcknowledgedWasReceived, Has, Transported
<1>12. \A m \in wire'.acks : Sent(m)' /\ Has(m)'
  BY <1>4, PositionsAreNumbers, <1>10, <1>1, <1>2, <1>5, <1>8 DEF Sent, TypeOK, Transported,
     Has
<1> QED BY <1>0, <1>4, <1>5, <1>8, <1>9, <1>11, <1>12 DEF Transported, Sent

LEMMA TransportedEarly ==
    ASSUME TypeOK, Transported, NEW n \in Positions, ReceiveEarly(n)
    PROVE  Transported'
<1>0. incoming \in Nat /\ outgoing \in Nat /\ n \in Nat /\ Start \in Nat /\ QueueLen \in Nat
  BY TransportAssumption, PositionsAreNumbers DEF TypeOK
<1>1. n \in wire.packets /\ n < outgoing
  BY DEF ReceiveEarly, Arrives, OnWire, Transported, Sent
<1>2. incoming < n /\ n < incoming + QueueLen
  BY <1>0, FoundIsAhead, FitsIsNear DEF ReceiveEarly, Deciphers
<1>3. UNCHANGED <<outgoing, queue, incoming>>
  BY DEF ReceiveEarly
<1>4. receiveQueue' = [receiveQueue EXCEPT ![n] = IF @ < MaxCopies THEN @ + 1 ELSE @]
  BY DEF ReceiveEarly
<1>5. Kept \subseteq Kept' /\ Kept' \subseteq Kept \union {n} /\ n \in Kept'
  BY TransportAssumption, <1>4 DEF TypeOK, Kept
<1>6. wire'.packets = wire.packets /\ wire'.acks \subseteq wire.acks \union {n}
  BY DEF ReceiveEarly, Acknowledge, TypeOK
<1>7. KeptIsAhead'
  BY <1>3, <1>0, <1>1, <1>2, <1>5 DEF KeptIsAhead, Transported
<1>8. \A m : Has(m) => Has(m)'
  BY <1>3, <1>5 DEF Has
<1>9. \A m \in wire'.acks : Sent(m)' /\ Has(m)'
  BY <1>1, <1>3, <1>5, <1>6, <1>8 DEF Transported, Sent, Has
<1>10. AcknowledgedWasReceived'
  BY <1>3, <1>5 DEF Transported, AcknowledgedWasReceived
<1> QED BY <1>3, <1>6, <1>7, <1>9, <1>10 DEF Transported, Sent

LEMMA TransportedAgain ==
    ASSUME TypeOK, Transported, InSight, NEW n \in Positions, ReceiveAgain(n)
    PROVE  Transported'
<1>0. incoming \in Nat /\ n \in Nat
  BY PositionsAreNumbers DEF TypeOK
<1>1. n \in wire.packets /\ ~InReceiveWindow(incoming, Id(n))
  BY DEF ReceiveAgain, Arrives, OnWire
<1>2. n < incoming
  BY <1>1, <1>0, AheadIsFound DEF InSight
<1>3. wire'.packets = wire.packets /\ wire'.acks \subseteq wire.acks \union {n}
  BY DEF ReceiveAgain, Acknowledge, TypeOK
<1>4. UNCHANGED <<outgoing, queue, incoming, receiveQueue>> /\ Kept' = Kept
  BY DEF ReceiveAgain, receiverVars, Kept
<1>5. \A m \in wire'.acks : Sent(m)' /\ Has(m)'
  BY <1>1, <1>2, <1>3, <1>4 DEF Transported, Sent, Has
<1> QED BY <1>3, <1>4, <1>5 DEF Transported, Sent, KeptIsAhead, AcknowledgedWasReceived

\* An ack takes the record it was sent for, or an older one of the same id, which
\* was received as well: it is a round of the ids older.
LEMMA TransportedAck ==
    ASSUME TypeOK, Transported, NEW n \in Positions, ReceiveAck(n)
    PROVE  Transported'
<1>0. /\ incoming \in Nat /\ outgoing \in Nat /\ n \in Nat /\ Start \in Nat /\ QueueLen \in Nat
      /\ queue \in Queues /\ Ids \in Nat /\ Ids >= 4 /\ QueueLen < Ids
  BY TransportAssumption, IdsAssumption, PositionsAreNumbers DEF TypeOK
<1>1. n \in wire.acks /\ outgoing - n <= Ids \div 2 /\ queue' = AckPacket(queue, Id(n))
  BY DEF ReceiveAck, OnWire
<1>2. n < outgoing /\ (n < incoming \/ n < incoming + QueueLen)
  BY <1>1 DEF Transported, Sent, Has, KeptIsAhead
<1>3. UNCHANGED <<outgoing, wire, incoming, receiveQueue>> /\ Kept' = Kept
  BY DEF ReceiveAck, receiverVars, Kept
<1>4. DOMAIN queue'.full \subseteq DOMAIN queue.full
  BY <1>0, <1>1, AckPacketIsQueue
<1>5. ASSUME NEW m \in DOMAIN queue.full, m \notin DOMAIN queue'.full PROVE Has(m)
  BY <1>0, <1>1, <1>5, AckedHasItsId, QueueParts, PositionsAreNumbers, SameId, <1>2 DEF
     Transported, Sent, Has
<1>6. AcknowledgedWasReceived'
  BY <1>3, <1>5 DEF Transported, AcknowledgedWasReceived, Has
<1> QED BY <1>3, <1>4, <1>6 DEF Transported, Sent, Has, KeptIsAhead

LEMMA TransportedLose ==
    ASSUME TypeOK, Transported, NEW n \in Positions, ReceiveTooEarly(n) \/ Lose(n)
    PROVE  Transported'
  BY DEF ReceiveTooEarly, Lose, receiverVars, Kept, Transported, Sent, Has, KeptIsAhead,
     AcknowledgedWasReceived

LEMMA TransportedNext ==
    ASSUME OneOfEach, TypeOK, Transported, InSight, [Next]_vars
    PROVE  Transported'
<1>1. CASE UNCHANGED vars
  BY <1>1 DEF vars, Transported, Sent, Has, KeptIsAhead, AcknowledgedWasReceived, Kept
<1> QED
  BY <1>1, TransportedSend, TransportedPoll, TransportedNextInRow, TransportedEarly,
     TransportedAgain, TransportedAck, TransportedLose
     DEF Next, PollResend, Receive

\* An acknowledged packet was received: an ack names its packet by an id that
\* wraps, guesses the generation and still never takes a packet the other end lacks.
THEOREM AcknowledgedIsReceived ==
    ASSUME OneOfEach
    PROVE  Spec /\ []InSight => []AcknowledgedWasReceived
<1>1. Init => TypeOK /\ Transported
  BY TypeInit, TransportedInit
<1>2. (TypeOK /\ Transported) /\ InSight /\ [Next]_vars => (TypeOK /\ Transported)'
  BY TypeNext, TransportedNext
<1>3. Transported => AcknowledgedWasReceived
  BY DEF Transported
<1> QED BY <1>1, <1>2, <1>3, PTL DEF Spec

\* A stream of half a round is in sight from its first packet.
LEMMA ShortIsInSight ==
    ASSUME MaxPackets <= Half, TypeOK, Transported
    PROVE  InSight
  BY PositionsAreNumbers, HalfARound, TransportAssumption DEF InSight, TypeOK, Transported

-----------------------------------------------------------------------------
(* In order.                                                               *)

\* Where command i of c begins, in a stream of e packets.
Begins(c, e, i) == IF i <= Len(c) THEN c[i][1] ELSE e

\* The commands cut the stream up, from its start to its end.
Cut(c, e) ==
    /\ Begins(c, e, 1) = Start
    /\ \A i \in 1 .. Len(c) :
          /\ Len(c[i]) >= 1
          /\ \A j \in 1 .. Len(c[i]) : c[i][j] = Begins(c, e, i) + j - 1
          /\ Begins(c, e, i + 1) = Begins(c, e, i) + Len(c[i])
          /\ \A j \in 1 .. Len(c) + 1 : i < j => Begins(c, e, i) + Len(c[i]) <= Begins(c, e, j)

\* r are the first commands, and f the beginning of the next one, up to n.
Prefix(c, r) == Len(r) <= Len(c) /\ \A i \in 1 .. Len(r) : r[i] = c[i]

UpTo(c, e, f, r, n) ==
    /\ Prefix(c, r)
    /\ f = << >> => n = Begins(c, e, Len(r) + 1)
    /\ f # << >> =>
          /\ Len(r) < Len(c) /\ Len(f) < Len(c[Len(r) + 1])
          /\ \A j \in 1 .. Len(f) : f[j] = Begins(c, e, Len(r) + 1) + j - 1
          /\ n = Begins(c, e, Len(r) + 1) + Len(f)

Ordered ==
    /\ Cut(commands, outgoing)
    /\ Prefix(commands, received)
    /\ "receiver" \notin lost => UpTo(commands, outgoing, fragmented, received, incoming)

LEMMA CutIsTyped ==
    ASSUME TypeOK, Cut(commands, outgoing)
    PROVE  /\ \A i \in 1 .. Len(commands) + 1 : Begins(commands, outgoing, i) \in Nat
           /\ \A i \in 1 .. Len(commands) :
                 /\ commands[i] \in Seq(Positions) /\ Len(commands[i]) \in Nat
                 /\ Head(commands[i]) = Begins(commands, outgoing, i)
                 /\ Last(commands[i]) = Begins(commands, outgoing, i) + Len(commands[i]) - 1
<1>1. /\ commands \in Seq(Seq(Positions)) /\ outgoing \in Nat
      /\ \A i \in 1 .. Len(commands) : commands[i] \in Seq(Positions)
  BY TransportAssumption DEF TypeOK
<1>2. ASSUME NEW i \in 1 .. Len(commands)
      PROVE  /\ Len(commands[i]) \in Nat /\ Begins(commands, outgoing, i) \in Nat
             /\ Head(commands[i]) = Begins(commands, outgoing, i)
             /\ Last(commands[i]) = Begins(commands, outgoing, i) + Len(commands[i]) - 1
  <2> DEFINE s == commands[i]
  <2>1. s \in Seq(Positions) /\ Len(s) \in Nat /\ Len(s) >= 1
    BY <1>1 DEF Cut
  <2>2. s[1] \in Nat
    BY <2>1, PositionsAreNumbers
  <2>3. Head(s) = s[1] /\ Last(s) = s[Len(s)]
    BY <2>1 DEF Last
  <2>4. Begins(commands, outgoing, i) = s[1]
    BY <1>1 DEF Begins
  <2>5. \A j \in 1 .. Len(s) : s[j] = Begins(commands, outgoing, i) + j - 1
    BY DEF Cut
  <2>6. s[Len(s)] = Begins(commands, outgoing, i) + Len(s) - 1
    BY <2>1, <2>5
  <2> QED BY <2>1, <2>2, <2>3, <2>4, <2>6
<1>3. Begins(commands, outgoing, Len(commands) + 1) \in Nat
  BY <1>1 DEF Begins
<1> QED BY <1>1, <1>2, <1>3

\* The packets of command k that carry the flag.
LEMMA FlaggedIn ==
    ASSUME TypeOK, Cut(commands, outgoing), NEW k \in 1 .. Len(commands), NEW n \in Nat,
           Begins(commands, outgoing, k) <= n,
           n < Begins(commands, outgoing, k) + Len(commands[k])
    PROVE  IsFragmented(n) <=>
              /\ Len(commands[k]) > 1
              /\ \/ n = Begins(commands, outgoing, k)
                 \/ n = Begins(commands, outgoing, k) + Len(commands[k]) - 1
<1> DEFINE b(i) == Begins(commands, outgoing, i)
<1>1. /\ Len(commands) \in Nat /\ DOMAIN commands = 1 .. Len(commands)
      /\ \A i \in 1 .. Len(commands) :
            /\ Len(commands[i]) \in Nat /\ b(i) \in Nat
            /\ Head(commands[i]) = b(i) /\ Last(commands[i]) = b(i) + Len(commands[i]) - 1
  BY CutIsTyped DEF TypeOK
<1>2. \A i, j \in 1 .. Len(commands) : i < j => b(i) + Len(commands[i]) <= b(j)
  BY <1>1 DEF Cut
<1> HIDE DEF b
<1>3. ASSUME NEW i \in 1 .. Len(commands), Len(commands[i]) > 1,
             n \in {Head(commands[i]), Last(commands[i])}
      PROVE  i = k
  BY <1>1, <1>3, <1>2 DEF b
<1>4. IsFragmented(n) <=> Len(commands[k]) > 1 /\ n \in {Head(commands[k]), Last(commands[k])}
  BY <1>1, <1>3 DEF IsFragmented
<1> QED BY <1>1, <1>4 DEF b

\* A packet joined in its turn goes on where the last one ended.
LEMMA JoinedGoesOn ==
    ASSUME TypeOK, Cut(commands, outgoing), NEW s \in Stages, NEW n \in Positions, n < outgoing,
           UpTo(commands, outgoing, s.fragmented, s.received, n)
    PROVE  \/ Joined(s, n).tooLong
           \/ UpTo(commands, outgoing, Joined(s, n).fragmented, Joined(s, n).received, n + 1)
<1> DEFINE f == s.fragmented
           r == s.received
           t == s.tooLong
           k == Len(r) + 1
           c == commands[k]
           b == Begins(commands, outgoing, k)
<1>1. /\ f \in Seq(Positions) /\ r \in Seq(Seq(Positions)) /\ t \in BOOLEAN
      /\ s = [fragmented |-> f, received |-> r, tooLong |-> t]
      /\ Len(f) \in Nat /\ Len(r) \in Nat /\ k \in Nat
  BY DEF Stages
<1>2. commands \in Seq(Seq(Positions)) /\ Len(commands) \in Nat /\ n \in Nat /\ outgoing \in Nat
  BY PositionsAreNumbers, TransportAssumption DEF TypeOK
<1>3. Prefix(commands, r) /\ Len(r) <= Len(commands)
  BY DEF UpTo, Prefix
<1>4. k \in 1 .. Len(commands)
  BY <1>1, <1>2 DEF UpTo, Begins
<1>5. /\ b \in Nat /\ c \in Seq(Positions) /\ Len(c) \in Nat /\ Len(c) >= 1
      /\ \A j \in 1 .. Len(c) : c[j] = b + j - 1
      /\ Begins(commands, outgoing, k + 1) = b + Len(c)
  BY <1>4, CutIsTyped DEF Cut
<1>6. Begins(commands, outgoing, Len(r) + 1) = b /\ commands[Len(r) + 1] = c
  OBVIOUS
<1>7. b <= n /\ n < b + Len(c) =>
        (IsFragmented(n) <=> Len(c) > 1 /\ (n = b \/ n = b + Len(c) - 1))
  BY <1>2, <1>4, FlaggedIn
<1>8. /\ f = << >> => n = b
      /\ f # << >> => /\ Len(f) < Len(c) /\ n = b + Len(f)
                      /\ \A j \in 1 .. Len(f) : f[j] = b + j - 1
  BY <1>6 DEF UpTo
\* The next command is complete.
<1>9. ASSUME NEW whole \in Seq(Positions), Len(whole) = Len(c),
             \A j \in 1 .. Len(whole) : whole[j] = b + j - 1, n + 1 = b + Len(c)
      PROVE  UpTo(commands, outgoing, << >>, Append(r, whole), n + 1)
  <2>1. whole = c
    BY <1>5, <1>9, SeqEqual
  <2> DEFINE q == Append(r, whole)
  <2>2. Len(q) = k /\ q[k] = c /\ \A i \in 1 .. Len(r) : q[i] = r[i]
    BY <1>1, <2>1
  <2> HIDE DEF q
  <2>3. Prefix(commands, q)
    <3> SUFFICES ASSUME NEW i \in 1 .. k PROVE q[i] = commands[i]
      BY <1>2, <1>4, <2>2 DEF Prefix
    <3>1. CASE i = k
      BY <2>2, <3>1
    <3>2. CASE i # k
      <4>1. i \in 1 .. Len(r)
        BY <1>1, <3>2
      <4> QED BY <1>3, <2>2, <4>1 DEF Prefix
    <3> QED BY <3>1, <3>2
  <2>4. Begins(commands, outgoing, Len(q) + 1) = n + 1
    BY <1>5, <1>9, <2>2
  <2>5. UpTo(commands, outgoing, << >>, q, n + 1)
    BY <2>3, <2>4 DEF UpTo
  <2> QED BY <2>5 DEF q
\* The next command has one packet more.
<1>10. ASSUME NEW g \in Seq(Positions), g # << >>, Len(g) < Len(c),
              \A j \in 1 .. Len(g) : g[j] = b + j - 1, n + 1 = b + Len(g)
       PROVE  UpTo(commands, outgoing, g, r, n + 1)
  BY <1>1, <1>2, <1>4, <1>3, <1>6, <1>10 DEF UpTo
<1>11. /\ f # << >> => Len(f) >= 1
       /\ Len(<<n>>) = 1 /\ <<n>>[1] = n /\ <<n>> \in Seq(Positions) /\ <<n>> # << >>
  BY <1>1
<1> HIDE DEF f, r, t, k, c, b
<1>12. /\ Append(f, n) \in Seq(Positions) /\ Len(Append(f, n)) = Len(f) + 1
       /\ \A j \in 1 .. Len(f) : Append(f, n)[j] = f[j]
       /\ Append(f, n)[Len(f) + 1] = n
       /\ Append(f, n) # << >>
  <2>1. /\ Append(f, n) \in Seq(Positions) /\ Len(Append(f, n)) = Len(f) + 1
        /\ \A j \in 1 .. Len(f) : Append(f, n)[j] = f[j]
        /\ Append(f, n)[Len(f) + 1] = n
    BY <1>1
  <2>2. Append(f, n) # << >>
    <3> DEFINE g == Append(f, n)
    <3>1. Len(g) # 0
      BY <1>1, <2>1
    <3> HIDE DEF g
    <3>2. g # << >>
      BY <3>1
    <3> QED BY <3>2 DEF g
  <2> QED BY <2>1, <2>2
<1>13. b \in Nat /\ Len(c) \in Nat /\ Len(c) >= 1 /\ Len(f) \in Nat
  BY <1>1, <1>5
<1>14. CASE f = << >>
  <2>1. n = b /\ b <= n /\ n < b + Len(c) /\ (IsFragmented(n) <=> Len(c) > 1)
    BY <1>2, <1>5, <1>7, <1>8, <1>14
  <2>2. CASE IsFragmented(n)
    <3>1. Joined(s, n) = [fragmented |-> <<n>>, received |-> r, tooLong |-> t]
      BY <1>1, <1>14, <2>2 DEF Joined
    <3>2. \A j \in 1 .. Len(<<n>>) : <<n>>[j] = b + j - 1
      BY <1>5, <1>11, <2>1
    <3>3. UpTo(commands, outgoing, <<n>>, r, n + 1)
      BY <1>5, <1>10, <1>11, <2>1, <2>2, <3>2
    <3> QED BY <3>1, <3>3
  <2>3. CASE ~IsFragmented(n)
    <3>1. Joined(s, n) = [fragmented |-> << >>, received |-> Append(r, <<n>>), tooLong |-> t]
      BY <1>1, <1>14, <2>3 DEF Joined
    <3>2. \A j \in 1 .. Len(<<n>>) : <<n>>[j] = b + j - 1
      BY <1>5, <1>11, <2>1
    <3>3. Len(<<n>>) = Len(c) /\ n + 1 = b + Len(c)
      <4>1. Len(c) = 1
        <5>1. ~(Len(c) > 1)
          BY <2>1, <2>3
        <5>2. \A x \in Nat : x >= 1 /\ ~(x > 1) => x = 1
          OBVIOUS
        <5> QED BY <1>13, <5>1, <5>2
      <4> QED BY <1>11, <2>1, <4>1
    <3>4. UpTo(commands, outgoing, << >>, Append(r, <<n>>), n + 1)
      BY <1>9, <1>11, <3>2, <3>3
    <3> QED BY <3>1, <3>4
  <2> QED BY <2>2, <2>3
<1>15. CASE f # << >>
  <2>1. /\ Len(f) < Len(c) /\ n = b + Len(f) /\ Len(f) >= 1 /\ \A j \in 1 .. Len(f) : f[j] = b + j - 1
        /\ (IsFragmented(n) <=> Len(f) + 1 = Len(c))
    BY <1>8, <1>11, <1>15, <1>1, <1>5, <1>13, <1>7
  <2>2. \A j \in 1 .. Len(Append(f, n)) : Append(f, n)[j] = b + j - 1
    <3> SUFFICES ASSUME NEW j \in 1 .. Len(f) + 1 PROVE Append(f, n)[j] = b + j - 1
      BY <1>12
    <3>1. CASE j = Len(f) + 1
      BY <1>1, <1>5, <1>12, <2>1, <3>1
    <3>2. CASE j # Len(f) + 1
      BY <1>1, <3>2, <1>12, <2>1
    <3> QED BY <3>1, <3>2
  <2>3. n + 1 = b + Len(Append(f, n))
    BY <1>1, <1>5, <1>12, <2>1
  <2>4. CASE IsFragmented(n)
    BY <1>1, <1>15, <2>4, <1>9, <1>12, <2>1, <2>2, <2>3 DEF Joined
  <2>5. CASE ~IsFragmented(n)
    <3>1. Joined(s, n) = Extended(s, n)
      BY <1>1, <1>15, <2>5 DEF Joined
    <3>2. CASE Len(f) < Fragments
      <4>1. Extended(s, n) = [fragmented |-> Append(f, n), received |-> r, tooLong |-> t]
        BY <1>1, <3>2 DEF Extended
      <4>2. Len(Append(f, n)) < Len(c)
        BY <1>1, <1>5, <1>12, <2>1, <2>5
      <4>3. UpTo(commands, outgoing, Append(f, n), r, n + 1)
        BY <1>10, <1>12, <2>2, <2>3, <4>2
      <4> QED BY <3>1, <4>1, <4>3
    <3>3. CASE ~(Len(f) < Fragments)
      BY <1>1, <3>3, <3>1 DEF Extended
    <3> QED BY <3>2, <3>3
  <2> QED BY <2>4, <2>5
<1> QED BY <1>14, <1>15

\* The stages of a row of packets, one after the other.
LEMMA AssembledRow ==
    ASSUME NEW n, InRow \in Nat
    PROVE  \E after :
             /\ after = [k \in 0 .. InRow |->
                           IF k = 0 THEN Joined(FirstStage, n) ELSE Joined(after[k - 1], Found(k))]
             /\ Assembled(n, InRow) = after[InRow]
  BY AssembledSteps

\* So do the packets of a row, however many there are.
LEMMA AssembledGoesOn ==
    ASSUME TypeOK, Cut(commands, outgoing), incoming < outgoing, NEW n \in Positions, n = incoming,
           UpTo(commands, outgoing, fragmented, received, incoming),
           InRow \in Nat, incoming + InRow < outgoing,
           \A k \in 1 .. InRow : Found(k) = incoming + k /\ incoming + k \in Kept
    PROVE  LET s == Assembled(n, InRow)
           IN  s.tooLong \/ UpTo(commands, outgoing, s.fragmented, s.received, incoming + InRow + 1)
<1>1. PICK after :
         /\ after = [k \in 0 .. InRow |->
                       IF k = 0 THEN Joined(FirstStage, n) ELSE Joined(after[k - 1], Found(k))]
         /\ Assembled(n, InRow) = after[InRow]
  BY AssembledRow, Zenon
<1>2. FirstStage \in Stages
  BY DEF FirstStage, Stages, TypeOK
<1>3. incoming \in Nat /\ outgoing \in Nat /\ Kept \in SUBSET Positions
  BY TransportAssumption DEF TypeOK, Kept
<1> DEFINE Good(k) == /\ after[k] \in Stages
                      /\ \/ after[k].tooLong
                         \/ UpTo(commands, outgoing, after[k].fragmented, after[k].received, incoming + k + 1)
           G == {k \in Nat : k <= InRow => Good(k)}
<1>4. 0 \in G
  BY <1>1, <1>2, JoinedIsStage, JoinedGoesOn, <1>3 DEF FirstStage
<1>5. \A k \in Nat : k \in G => k + 1 \in G
  <2> SUFFICES ASSUME NEW k \in Nat, k + 1 <= InRow, Good(k) PROVE Good(k + 1)
    OBVIOUS
  <2> DEFINE m == incoming + k + 1
             s == after[k]
  <2>1. k + 1 \in 0 .. InRow /\ k + 1 # 0 /\ (k + 1) - 1 = k /\ k + 1 \in 1 .. InRow
        /\ incoming + (k + 1) = m /\ incoming + (k + 1) + 1 = m + 1
    BY <1>3
  <2>2. Found(k + 1) = m /\ m \in Positions
    BY <1>3, <2>1
  <2>3. after[k + 1] = Joined(s, m)
    BY <1>1, <2>1, <2>2
  <2>4. m < outgoing
    BY <1>3
  <2>5. s \in Stages /\ (s.tooLong \/ UpTo(commands, outgoing, s.fragmented, s.received, m))
    OBVIOUS
  <2> HIDE DEF m, s
  <2>6. Joined(s, m) \in Stages
    BY <2>2, <2>5, JoinedIsStage
  <2>7. \/ Joined(s, m).tooLong
        \/ UpTo(commands, outgoing, Joined(s, m).fragmented, Joined(s, m).received, m + 1)
    BY <2>5, <2>2, <2>4, JoinedGoesOn DEF Stages, Joined, Extended
  <2> QED BY <2>1, <2>3, <2>6, <2>7
<1>6. InRow \in G
  BY <1>4, <1>5, Induction
<1> QED BY <1>1, <1>6

\* A command that is sent is cut off the end of the stream.
LEMMA OrderedSend ==
    ASSUME TypeOK, Ordered, NEW parts \in 1 .. MaxParts, Send(parts)
    PROVE  Ordered'
<1> DEFINE c == commands
           e == outgoing
           new == [i \in 1 .. parts |-> outgoing + i - 1]
           d == Append(c, new)
           u == e + parts
           last == Len(c) + 1
<1>1. /\ parts \in Nat \ {0} /\ e \in Nat /\ Start \in Nat /\ Start <= e /\ e + parts <= Start + MaxPackets
      /\ commands' = d /\ outgoing' = u
      /\ UNCHANGED <<incoming, fragmented, received, lost>>
  BY TransportAssumption DEF Send, TypeOK, receiverVars
<1>2. c \in Seq(Seq(Positions)) /\ Len(c) \in Nat /\ received \in Seq(Seq(Positions)) /\ Len(received) \in Nat
  BY DEF TypeOK
<1>3. new \in Seq(Positions) /\ Len(new) = parts /\ \A i \in 1 .. parts : new[i] = e + i - 1
  BY <1>1, TransportAssumption DEF Positions
<1> HIDE DEF new
<1>4. d \in Seq(Seq(Positions)) /\ Len(d) = last /\ d[last] = new /\ \A i \in 1 .. Len(c) : d[i] = c[i]
  BY <1>2, <1>3
<1>5. \A i \in 1 .. last : Begins(d, u, i) = Begins(c, e, i)
  BY <1>1, <1>3, <1>2, <1>4 DEF Begins
<1>6. Begins(d, u, last) = e /\ Begins(d, u, last + 1) = u
  <2>1. Begins(c, e, last) = e
    BY <1>2 DEF Begins
  <2>2. ~(last + 1 <= Len(d)) /\ last \in 1 .. last
    BY <1>2, <1>4
  <2> HIDE DEF d, last
  <2> QED BY <1>5, <2>1, <2>2 DEF Begins
<1>7. Cut(c, e)
  BY DEF Ordered
<1>8. last \in Nat /\ 1 \in 1 .. last /\ \A i \in 1 .. Len(c) : i \in 1 .. last /\ i + 1 \in 1 .. last
  BY <1>2
<1>9. \A i \in 1 .. last : Begins(c, e, i) \in Nat
  BY <1>7, CutIsTyped
<1> HIDE DEF d, u, c, e
<1>10. Cut(d, u)
  <2>1. Begins(d, u, 1) = Start
    BY <1>5, <1>7, <1>8 DEF Cut
  <2>2. ASSUME NEW i \in 1 .. last
        PROVE  /\ Len(d[i]) >= 1
               /\ \A j \in 1 .. Len(d[i]) : d[i][j] = Begins(d, u, i) + j - 1
               /\ Begins(d, u, i + 1) = Begins(d, u, i) + Len(d[i])
               /\ \A j \in 1 .. last + 1 : i < j => Begins(d, u, i) + Len(d[i]) <= Begins(d, u, j)
    <3>1. CASE i = last
      BY <1>4, <1>6, <3>1, <1>8, <1>1, <1>3 DEF u
    <3>2. CASE i # last
      <4>1. i \in 1 .. Len(c) /\ i + 1 \in 1 .. last /\ Len(c) + 1 = last
        BY <1>2, <1>8, <3>2 DEF last, c
      <4>2. d[i] = c[i] /\ Begins(d, u, i) = Begins(c, e, i) /\ Begins(d, u, i + 1) = Begins(c, e, i + 1)
        BY <1>4, <1>5, <4>1
      <4>3. /\ Len(c[i]) >= 1
            /\ \A j \in 1 .. Len(c[i]) : c[i][j] = Begins(c, e, i) + j - 1
            /\ Begins(c, e, i + 1) = Begins(c, e, i) + Len(c[i])
            /\ \A j \in 1 .. last : i < j => Begins(c, e, i) + Len(c[i]) <= Begins(c, e, j)
        BY <1>7, <4>1 DEF Cut
      <4>4. \A j \in 1 .. last + 1 : i < j => Begins(d, u, i) + Len(d[i]) <= Begins(d, u, j)
        <5> SUFFICES ASSUME NEW j \in 1 .. last + 1, i < j
                     PROVE  Begins(c, e, i) + Len(c[i]) <= Begins(d, u, j)
          BY <4>2
        <5>1. CASE j = last + 1
          <6>1. Begins(c, e, i) + Len(c[i]) <= e
            BY <1>8, <3>2, <1>5, <1>6, <4>3
          <6>2. e <= u /\ e \in Nat /\ u \in Nat
            BY <1>1 DEF u, e
          <6>3. Begins(c, e, i) + Len(c[i]) \in Nat
            BY <1>9, <4>1, <4>3
          <6>4. Begins(d, u, j) = u
            BY <1>6, <5>1
          <6> HIDE DEF last
          <6> QED BY <6>1, <6>2, <6>3, <6>4
        <5>2. CASE j # last + 1
          BY <1>8, <5>2, <1>5, <4>3
        <5> QED BY <5>1, <5>2
      <4> QED BY <4>2, <4>3, <4>4
    <3> QED BY <3>1, <3>2
  <2>3. Len(d) = last
    BY <1>4
  <2> HIDE DEF last
  <2> QED BY <2>1, <2>2, <2>3 DEF Cut
<1>11. \A r : Len(r) \in Nat /\ Prefix(c, r) => Prefix(d, r)
  BY <1>2, <1>4 DEF Prefix, last, c
<1>12. UpTo(c, e, fragmented, received, incoming) => UpTo(d, u, fragmented, received, incoming)
  <2> SUFFICES ASSUME UpTo(c, e, fragmented, received, incoming)
               PROVE  UpTo(d, u, fragmented, received, incoming)
    OBVIOUS
  <2> DEFINE k == Len(received) + 1
  <2>1. Prefix(c, received) /\ Len(received) <= Len(c) /\ Len(c) \in Nat /\ Len(d) = Len(c) + 1
    BY <1>2, <1>4 DEF UpTo, Prefix, last, c
  <2>2. k \in 1 .. last /\ Begins(d, u, k) = Begins(c, e, k)
    BY <1>2, <2>1, <1>5 DEF last
  <2>3. Len(received) < Len(c) => d[k] = c[k]
    <3>1. Len(received) < Len(c) => k \in 1 .. Len(c)
      BY <1>2, <2>1
    <3> QED BY <1>4, <3>1
  <2>4. Len(received) < Len(c) => Len(received) < Len(d)
    BY <1>2, <2>1
  <2>5. Prefix(d, received)
    BY <1>2, <1>11, <2>1
  <2>6. \/ fragmented = << >> /\ incoming = Begins(c, e, k)
        \/ /\ fragmented # << >>
           /\ Len(received) < Len(c) /\ Len(fragmented) < Len(c[k])
           /\ \A j \in 1 .. Len(fragmented) : fragmented[j] = Begins(c, e, k) + j - 1
           /\ incoming = Begins(c, e, k) + Len(fragmented)
    BY DEF UpTo
  <2>7. CASE fragmented = << >>
    BY <2>2, <2>5, <2>6, <2>7 DEF UpTo
  <2>8. CASE fragmented # << >>
    BY <2>2, <2>3, <2>4, <2>5, <2>6, <2>8 DEF UpTo
  <2> QED BY <2>7, <2>8
<1>13. Prefix(c, received) /\ ("receiver" \notin lost => UpTo(c, e, fragmented, received, incoming))
  BY DEF Ordered, c, e
<1>14. /\ Cut(d, u) /\ Prefix(d, received)
       /\ "receiver" \notin lost => UpTo(d, u, fragmented, received, incoming)
  BY <1>2, <1>10, <1>11, <1>12, <1>13
<1> QED BY <1>1, <1>14 DEF Ordered

LEMMA OrderedNextInRow ==
    ASSUME OneOfEach, TypeOK, Transported, Ordered, NEW n \in Positions, ReceiveNext(n)
    PROVE  Ordered'
<1>0. incoming \in Nat /\ outgoing \in Nat /\ n \in Nat
  BY TransportAssumption, PositionsAreNumbers DEF TypeOK
<1>1. n = incoming
  BY <1>0, FoundIsAhead, HalfARound, IdsAssumption, SameId DEF ReceiveNext, Deciphers
<1>2. incoming < outgoing
  BY <1>1 DEF ReceiveNext, Arrives, OnWire, Transported, Sent
<1>3. /\ \A k \in 1 .. InRow : Found(k) = incoming + k /\ incoming + k \in Kept
      /\ InRow \in Nat /\ incoming + InRow < outgoing
  BY <1>2, RowIsNext DEF Transported
<1>4. UpTo(commands, outgoing, fragmented, received, incoming)
  BY DEF Ordered, ReceiveNext, Arrives
<1> DEFINE s == Assembled(n, InRow)
<1>5. s.tooLong \/ UpTo(commands, outgoing, s.fragmented, s.received, incoming + InRow + 1)
  BY <1>1, <1>2, <1>3, <1>4, AssembledGoesOn DEF Ordered
<1>6. UNCHANGED <<commands, outgoing>> /\ incoming' = incoming + InRow + 1
  BY DEF ReceiveNext
<1>7. CASE s.tooLong
  BY <1>7, <1>6 DEF ReceiveNext, Ordered
<1>8. CASE ~s.tooLong
  BY <1>8, <1>5, <1>6 DEF ReceiveNext, UpTo, Ordered
<1> QED BY <1>7, <1>8

LEMMA OrderedNext ==
    ASSUME OneOfEach, TypeOK, Transported, Ordered, [Next]_vars
    PROVE  Ordered'
<1>1. ASSUME UNCHANGED <<commands, outgoing, incoming, fragmented, received>>, lost \subseteq lost'
      PROVE  Ordered'
  BY <1>1 DEF Ordered
<1>2. ASSUME NEW r \in queue.heap, Transmit(r) \/ DropAcknowledged(r) \/ GiveUp(r) PROVE Ordered'
  BY <1>1, <1>2 DEF Transmit, DropAcknowledged, GiveUp, receiverVars
<1>3. ASSUME NEW n \in Positions,
             ReceiveEarly(n) \/ ReceiveTooEarly(n) \/ ReceiveAgain(n) \/ ReceiveAck(n) \/ Lose(n)
      PROVE  Ordered'
  BY <1>1, <1>3 DEF ReceiveEarly, ReceiveTooEarly, ReceiveAgain, ReceiveAck, Lose, receiverVars
<1>4. CASE UNCHANGED vars
  BY <1>1, <1>4 DEF vars
<1> QED
  BY <1>2, <1>3, <1>4, OrderedSend, OrderedNextInRow DEF Next, PollResend, Receive

LEMMA OrderedInit == Init => Ordered
  BY DEF Init, Begins, Ordered, Cut, Prefix, UpTo

LEMMA OrderedIsInOrder == TypeOK /\ Ordered => InOrder
<1> SUFFICES ASSUME TypeOK, Ordered PROVE InOrder
  OBVIOUS
<1>1. /\ received \in Seq(Seq(Positions)) /\ commands \in Seq(Seq(Positions))
      /\ Len(received) \in Nat /\ Len(commands) \in Nat
  BY DEF TypeOK
<1>2. Len(received) <= Len(commands) /\ \A i \in 1 .. Len(received) : received[i] = commands[i]
  BY DEF Ordered, Prefix
<1> DEFINE r == SubSeq(received, 1, Len(received))
           c == SubSeq(commands, 1, Len(received))
<1>3. /\ \A i \in 1 .. Len(received) : received[i] \in Seq(Positions)
      /\ \A i \in 1 .. Len(received) : commands[i] \in Seq(Positions)
  BY <1>1, <1>2
<1>4. r \in Seq(Seq(Positions)) /\ Len(r) = Len(received) /\ \A i \in 1 .. Len(received) : r[i] = received[i]
  BY <1>1, <1>3, SubSeqProperties
<1>5. c \in Seq(Seq(Positions)) /\ Len(c) = Len(received) /\ \A i \in 1 .. Len(received) : c[i] = commands[i]
  BY <1>1, <1>3, SubSeqProperties
<1> HIDE DEF r, c
<1>6. r = c
  BY <1>2, <1>4, <1>5, SeqEqual
<1> QED BY <1>2, <1>6 DEF InOrder, IsPrefix, r, c

\* What the application gets is what was sent: each command whole, once, in order.
THEOREM CommandsAreInOrder ==
    ASSUME OneOfEach
    PROVE  Spec /\ []InSight => []InOrder
<1>1. Init => TypeOK /\ Transported /\ Ordered
  BY TypeInit, TransportedInit, OrderedInit
<1>2. (TypeOK /\ Transported /\ Ordered) /\ InSight /\ [Next]_vars => (TypeOK /\ Transported /\ Ordered)'
  BY TypeNext, TransportedNext, OrderedNext
<1>3. TypeOK /\ Ordered => InOrder
  BY OrderedIsInOrder
<1> QED BY <1>1, <1>2, <1>3, PTL DEF Spec

\* For a stream of at most half a round, wherever in the round it starts, nothing is
\* asked of the run: whatever the network loses, delays, reorders and duplicates,
\* commands arrive in order and what is acknowledged was received.
THEOREM ShortStreamIsSafe ==
    ASSUME MaxPackets <= Half
    PROVE  Spec => [](InOrder /\ AcknowledgedWasReceived)
<1> DEFINE Inv == TypeOK /\ Transported /\ Ordered
<1>1. OneOfEach
  BY HalfARound, TransportAssumption, IdsAssumption DEF OneOfEach
<1>2. Init => Inv
  BY TypeInit, TransportedInit, OrderedInit
<1>3. Inv /\ [Next]_vars => Inv'
  BY <1>1, ShortIsInSight, TypeNext, TransportedNext, OrderedNext
<1>4. Inv => InOrder /\ AcknowledgedWasReceived
  BY OrderedIsInOrder DEF Transported
<1> QED BY <1>2, <1>3, <1>4, PTL DEF Spec


-----------------------------------------------------------------------------
(* What keeps the packets in sight: the windows of both ends.               *)

\* The windows that leave room for the receiver's queue in half a round of ids. Of the
\* windows get_window computes, up to half a round, these are all but the last 200.
WindowsFit == \A w \in Windows : QueueLen + w < Half

\* The records from near on are those of the last packets before top.
Covers(q, near, top) == \A m \in Nat : near <= m => (m \in DOMAIN q.full <=> m < top)

Near(q, far) == \A r \in q.heap : r.at <= far

\* Of the packets of a stretch at most one has the last id of a round.
LEMMA FewAreLast ==
    ASSUME NEW near \in Nat, NEW w \in Nat, w < Ids
    PROVE  LET some == {m \in near .. near + w : Id(m) # Ids - 1}
           IN  IsFiniteSet(some) /\ Cardinality(some) \in Nat /\ w <= Cardinality(some)
<1> DEFINE all == near .. near + w
           some == {m \in all : Id(m) # Ids - 1}
<1>1. IsFiniteSet(all) /\ Cardinality(all) = w + 1
  BY FS_Interval
<1>2. IsFiniteSet(some) /\ Cardinality(some) <= Cardinality(all) /\ Cardinality(some) \in Nat
  BY <1>1, FS_Subset, FS_CardinalityType
<1>3. CASE \E l \in all : Id(l) = Ids - 1
  <2>1. PICK l \in all : Id(l) = Ids - 1
    BY <1>3
  <2>2. all \ {l} \subseteq some
    BY <2>1, IdsAssumption, SameId
  <2>3. Cardinality(all \ {l}) = w
    <3> HIDE DEF all
    <3> QED BY <1>1, <2>1, FS_RemoveElement
  <2>4. Cardinality(all \ {l}) <= Cardinality(some)
    BY <1>2, <2>2, FS_Subset
  <2> QED BY <1>2, <2>3, <2>4
<1>4. CASE \A l \in all : Id(l) # Ids - 1
  <2>1. some = all
    BY <1>4
  <2>2. Cardinality(some) = w + 1
    BY <1>1, <2>1, Zenon
  <2>3. w <= Cardinality(some)
    BY <2>2
  <2> QED BY <1>2, <2>3
<1> QED BY <1>3, <1>4

\* A heap names no more packets than it has entries.
LEMMA NamedAreFew ==
    ASSUME NEW q \in Queues
    PROVE  LET named == {r.at : r \in q.heap}
           IN  /\ IsFiniteSet(named) /\ Cardinality(named) \in Nat /\ Cardinality(q.heap) \in Nat
               /\ Cardinality(named) <= Cardinality(q.heap)
<1> DEFINE named == {r.at : r \in q.heap}
           at == [r \in q.heap |-> r.at]
<1>1. IsFiniteSet(q.heap)
  BY QueueParts, HeapIsFinite
<1>2. at \in [q.heap -> named] /\ \A n \in named : \E r \in q.heap : at[r] = n
  OBVIOUS
<1>3. at \in Surjection(q.heap, named)
  BY <1>2 DEF Surjection
<1> HIDE DEF at, named
<1>4. IsFiniteSet(named) /\ Cardinality(named) <= Cardinality(q.heap)
  BY <1>1, <1>3, FS_Surjection
<1> QED BY <1>1, <1>4, FS_CardinalityType DEF named

\* What fill_up_send_queue takes is no further ahead of the records that are all
\* there than the window is wide.
LEMMA FillsNear ==
    ASSUME NEW q \in Queues, NEW window \in Nat, NEW near \in Nat, NEW top \in Nat, NEW w \in Nat,
           window <= w, w < Ids, Remembers(q), Covers(q, near, top),
           NEW n \in DOMAIN q.full, Fills(q, window, n)
    PROVE  n <= near + w
<1> SUFFICES ASSUME ~(n <= near + w) PROVE FALSE
  OBVIOUS
<1> DEFINE some == {m \in near .. near + w : Id(m) # Ids - 1}
           named == {r.at : r \in q.heap}
           between == Between(q, q.index, n)
<1>1. n \in Nat /\ near <= n
  BY QueueParts, PositionsAreNumbers
<1>2. some \subseteq named \union between
  BY <1>1, RecordIdIsNumber, QueueParts DEF Covers, RecordId, Remembers, Between
<1>3. IsFiniteSet(some) /\ Cardinality(some) \in Nat /\ w <= Cardinality(some)
  BY FewAreLast
<1>4. /\ IsFiniteSet(named) /\ Cardinality(named) \in Nat /\ Cardinality(q.heap) \in Nat
      /\ Cardinality(named) <= Cardinality(q.heap)
  BY NamedAreFew
<1>5. IsFiniteSet(between) /\ Cardinality(between) \in Nat
  BY BetweenIsFinite, FS_CardinalityType
<1>6. Cardinality(between) < window - Cardinality(q.heap)
  BY DEF Fills
<1> HIDE DEF some, named, between
<1>7. /\ Cardinality(named \union between)
           = Cardinality(named) + Cardinality(between) - Cardinality(named \cap between)
      /\ IsFiniteSet(named \union between) /\ Cardinality(named \union between) \in Nat
  BY <1>4, <1>5, FS_Union, FS_CardinalityType
<1>8. Cardinality(named \cap between) \in Nat
  BY <1>4, FS_Subset, FS_CardinalityType
<1>9. Cardinality(some) <= Cardinality(named \union between)
  BY <1>2, <1>7, FS_Subset
<1> QED BY <1>3, <1>4, <1>5, <1>6, <1>7, <1>8, <1>9

LEMMA FilledIsNear ==
    ASSUME NEW q \in Queues, NEW window \in Nat, NEW near \in Nat, NEW top \in Nat, NEW w \in Nat,
           window <= w, w < Ids, Remembers(q), Covers(q, near, top), Near(q, near + w)
    PROVE  Near(Filled(q, window), near + w) /\ Covers(Filled(q, window), near, top)
<1>1. /\ Filled(q, window).full = q.full
      /\ Filled(q, window).heap =
                q.heap \union {[at |-> n, tried |-> q.full[n]] :
                                 n \in {n \in DOMAIN q.full : Fills(q, window, n)}}
  BY FilledIsQueue
<1>2. \A n \in DOMAIN q.full : Fills(q, window, n) => n <= near + w
  BY FillsNear
<1> QED BY <1>1, <1>2 DEF Near, Covers

LEMMA QueuedIsNear ==
    ASSUME NEW q \in Queues, NEW window \in Nat, NEW near \in Nat, NEW top \in Positions, NEW w \in Nat,
           window <= w, w < Ids, Remembers(q), Covers(q, near, top), Near(q, near + w)
    PROVE  Near(Queued(q, top, window), near + w) /\ Covers(Queued(q, top, window), near, top + 1)
<1>1. PICK base \in Queues :
         /\ Queued(q, top, window) = Filled(base, window)
         /\ DOMAIN base.full = DOMAIN q.full \union {top} /\ base.heap = q.heap
         /\ Remembers(base)
  BY QueuedFillsBase
<1>2. DOMAIN q.full \in SUBSET Nat /\ top \in Nat
  BY QueueParts, PositionsAreNumbers
<1>3. Covers(base, near, top + 1)
  BY <1>1, <1>2 DEF Covers
<1>4. Near(base, near + w)
  BY <1>1 DEF Near
<1> QED BY <1>1, <1>2, <1>3, <1>4, FilledIsNear

LEMMA EnqueuedIsNear ==
    ASSUME NEW parts \in Nat, NEW window \in Nat, NEW near \in Nat, NEW w \in Nat,
           window <= w, w < Ids, queue \in Queues, Remembers(queue),
           outgoing \in Nat, Start <= outgoing, outgoing + parts <= Start + MaxPackets,
           Covers(queue, near, outgoing), Near(queue, near + w)
    PROVE  Near(Enqueued(parts, window), near + w)
<1>1. PICK after :
         /\ after = [i \in 0 .. parts |->
                       IF i = 0 THEN queue ELSE Queued(after[i - 1], outgoing + i - 1, window)]
         /\ Enqueued(parts, window) = after[parts]
  BY EnqueuedSteps
<1> DEFINE Good(i) == /\ after[i] \in Queues /\ Remembers(after[i])
                      /\ Covers(after[i], near, outgoing + i) /\ Near(after[i], near + w)
           G == {i \in Nat : i <= parts => Good(i)}
<1>2. 0 \in G
  BY <1>1
<1>3. \A i \in Nat : i \in G => i + 1 \in G
  <2> SUFFICES ASSUME NEW i \in Nat, i + 1 <= parts, Good(i) PROVE Good(i + 1)
    OBVIOUS
  <2> DEFINE n == outgoing + i
  <2>1. after[i + 1] = Queued(after[i], n, window)
    <3>1. /\ i + 1 \in 0 .. parts /\ i + 1 # 0
          /\ (i + 1) - 1 = i /\ outgoing + (i + 1) - 1 = outgoing + i
      OBVIOUS
    <3>2. after[i + 1] = IF i + 1 = 0 THEN queue
                         ELSE Queued(after[(i + 1) - 1], outgoing + (i + 1) - 1, window)
      BY <1>1, <3>1, Zenon
    <3> QED BY <3>1, <3>2, Zenon
  <2>2. n \in Positions /\ outgoing + (i + 1) = n + 1
    BY TransportAssumption DEF Positions
  <2>3. /\ after[i] \in Queues /\ Remembers(after[i])
        /\ Covers(after[i], near, n) /\ Near(after[i], near + w)
    OBVIOUS
  <2> HIDE DEF n
  <2>4. Queued(after[i], n, window) \in Queues /\ Remembers(Queued(after[i], n, window))
    BY <2>2, <2>3, QueuedIsQueue, QueuedRemembers
  <2>5. /\ Near(Queued(after[i], n, window), near + w)
        /\ Covers(Queued(after[i], n, window), near, n + 1)
    BY <2>2, <2>3, QueuedIsNear
  <2> QED BY <2>1, <2>2, <2>4, <2>5
<1>4. parts \in G
  BY <1>2, <1>3, Induction
<1> QED BY <1>1, <1>4

\* Everything that may be sent, and everything that was, is in sight.
Sight == Near(queue, incoming + Half - 1) /\ InSight

LEMMA SightNext ==
    ASSUME WindowsFit, TypeOK, Remembers(queue), Transported, Sight, [Next]_vars
    PROVE  Sight'
<1> DEFINE near == incoming + QueueLen
           w == Half - QueueLen - 1
<1>1. /\ near \in Nat /\ w \in Nat /\ w < Ids /\ near + w = incoming + Half - 1
      /\ incoming \in Nat /\ outgoing \in Nat /\ Half \in Nat
      /\ \A window \in Windows : window \in Nat /\ window <= w
  <2>1. incoming \in Nat /\ outgoing \in Nat /\ Half \in Nat /\ Half < Ids /\ QueueLen \in Nat
    BY HalfARound, TransportAssumption, IdsAssumption DEF TypeOK
  <2>2. \A window \in Windows : window \in Nat /\ window <= Half - QueueLen - 1
    BY <2>1, TransportAssumption DEF WindowsFit
  <2>3. \E window : window \in Windows
    BY TransportAssumption
  <2>4. Half - QueueLen - 1 \in Nat
    BY <2>1, <2>2, <2>3
  <2> QED BY <2>1, <2>2, <2>4, IdsAssumption
<1>2. /\ queue \in Queues /\ DOMAIN queue.full \in SUBSET Positions
      /\ queue.full \in [DOMAIN queue.full -> BOOLEAN]
      /\ queue.heap \in SUBSET [at : Positions, tried : BOOLEAN] /\ queue.index \in Nat
      /\ wire.packets \in SUBSET Positions
  BY QueueParts DEF TypeOK
<1>3. Covers(queue, near, outgoing)
  BY <1>1, TransportAssumption DEF Covers, Transported, Sent, KeptIsAhead,
     AcknowledgedWasReceived
<1>4. Near(queue, near + w) /\ \A n \in wire.packets : n < incoming + Half
  BY <1>1 DEF Sight, InSight
<1> HIDE DEF near, w
<1>5. SUFFICES /\ incoming' \in Nat /\ incoming <= incoming'
               /\ Near(queue', near + w) /\ \A n \in wire'.packets : n \in Nat /\ n < incoming + Half
  <2> SUFFICES ASSUME incoming' \in Nat, incoming <= incoming', Near(queue', near + w),
                      \A n \in wire'.packets : n \in Nat /\ n < incoming + Half,
                      queue' \in Queues
               PROVE  Sight'
    BY <1>5, TypeNext DEF TypeOK
  <2>1. \A r \in queue'.heap : r.at \in Nat
    BY QueueParts, PositionsAreNumbers
  <2>0. \A i, j, h, n \in Nat : i <= j =>
           /\ n <= i + h - 1 => n <= j + h - 1
           /\ n < i + h => n < j + h
    OBVIOUS
  <2>2. \A n \in Nat : n <= incoming + Half - 1 => n <= incoming' + Half - 1
    BY <1>1, <2>0
  <2>3. \A n \in Nat : n < incoming + Half => n < incoming' + Half
    BY <1>1, <2>0
  <2>4. Near(queue', incoming' + Half - 1)
    BY <1>1, <2>1, <2>2 DEF Near
  <2>5. Sight' = (Near(queue', incoming' + Half - 1) /\ \A n \in wire'.packets : n < incoming' + Half)
    BY DEF Sight, InSight, Near
  <2> QED BY <2>3, <2>4, <2>5
<1>6. wire.packets \in SUBSET Nat /\ \A r \in queue.heap : r.at \in Nat
  BY <1>2, PositionsAreNumbers
<1>7. ASSUME NEW parts \in 1 .. MaxParts, Send(parts)
      PROVE  incoming' = incoming /\ Near(queue', near + w) /\ wire' = wire
  <2>1. PICK window \in Windows : queue' = Enqueued(parts, window)
    BY <1>7 DEF Send
  <2>2. parts \in Nat /\ Start <= outgoing /\ outgoing + parts <= Start + MaxPackets
    BY <1>7, TransportAssumption DEF Send, TypeOK
  <2>3. Near(Enqueued(parts, window), near + w)
    BY <1>1, <1>2, <1>3, <1>4, <2>1, <2>2, EnqueuedIsNear
  <2> QED BY <1>7, <2>1, <2>3 DEF Send, receiverVars
<1>8. ASSUME NEW r \in queue.heap, Transmit(r) \/ DropAcknowledged(r) \/ GiveUp(r)
      PROVE  /\ incoming' = incoming /\ Near(queue', near + w)
             /\ \A n \in wire'.packets : n \in Nat /\ n < incoming + Half
  <2>1. CASE Transmit(r)
    <3>1. wire'.packets = wire.packets \union {r.at} /\ incoming' = incoming
      BY <2>1 DEF Transmit, TypeOK, receiverVars
    <3>2. r.at \in Nat /\ r.at < incoming + Half
      BY <1>1, <1>4, <1>6 DEF Near
    <3>3. CASE r.tried
      <4> DEFINE base == [full |-> queue.full, heap |-> {}, index |-> 0]
      <4>1. PICK window \in Windows : queue' = Filled(base, window)
        BY <2>1, <3>3 DEF Transmit
      <4>2. base \in Queues
        BY <1>2, QueueMade
      <4>3. Remembers(base)
        <5>1. \A n \in DOMAIN queue.full : ~(RecordId(n) < 0)
          <6> SUFFICES ASSUME NEW n \in DOMAIN queue.full PROVE ~(RecordId(n) < 0)
            OBVIOUS
          <6>1. RecordId(n) \in Nat
            BY <1>2, PositionsAreNumbers, RecordIdIsNumber
          <6> QED BY <6>1
        <5>2. base.full = queue.full /\ base.index = 0
          OBVIOUS
        <5> HIDE DEF base
        <5> QED BY <5>1, <5>2 DEF Remembers
      <4>4. Near(base, near + w) /\ Covers(base, near, outgoing)
        BY <1>3 DEF Near, Covers
      <4> HIDE DEF base
      <4>5. Near(queue', near + w)
        BY <1>1, <4>1, <4>2, <4>3, <4>4, FilledIsNear
      <4> QED BY <1>4, <1>6, <3>1, <3>2, <4>5
    <3>4. CASE ~r.tried
      BY <2>1, <3>4, <1>4, <1>6, <3>1, <3>2 DEF Transmit, Near
    <3> QED BY <3>3, <3>4
  <2>2. CASE DropAcknowledged(r)
    <3> DEFINE base == [full |-> queue.full, heap |-> queue.heap \ {r}, index |-> queue.index]
    <3>1. PICK window \in Windows : queue' = Filled(base, window)
      BY <2>2 DEF DropAcknowledged
    <3>2. base \in Queues
      BY <1>2, QueueMade
    <3>3. Remembers(base)
      BY <2>2 DEF Remembers, DropAcknowledged
    <3>4. Near(base, near + w) /\ Covers(base, near, outgoing)
      BY <1>3, <1>4 DEF Near, Covers
    <3> HIDE DEF base
    <3>5. Near(queue', near + w)
      BY <1>1, <3>1, <3>2, <3>3, <3>4, FilledIsNear
    <3> QED BY <1>4, <1>6, <2>2, <3>5 DEF DropAcknowledged, receiverVars
  <2>3. CASE GiveUp(r)
    BY <1>4, <1>6, <2>3 DEF GiveUp, receiverVars
  <2> QED BY <1>8, <2>1, <2>2, <2>3
<1>9. ASSUME NEW n \in Positions, ReceiveNext(n)
      PROVE  /\ incoming' \in Nat /\ incoming <= incoming' /\ queue' = queue
             /\ wire'.packets = wire.packets
  <2>1. InRow \in Nat /\ incoming' = incoming + InRow + 1
    BY <1>9, RowIsFound DEF ReceiveNext
  <2> QED BY <1>1, <1>9, <2>1 DEF ReceiveNext, Acknowledge, TypeOK
<1>10. ASSUME NEW n \in Positions, ReceiveEarly(n) \/ ReceiveTooEarly(n) \/ ReceiveAgain(n)
       PROVE  incoming' = incoming /\ queue' = queue /\ wire'.packets = wire.packets
  BY <1>10 DEF ReceiveEarly, ReceiveTooEarly, ReceiveAgain, Acknowledge, receiverVars, TypeOK
<1>11. ASSUME NEW n \in Positions, ReceiveAck(n) \/ Lose(n)
       PROVE  incoming' = incoming /\ Near(queue', near + w) /\ wire'.packets \subseteq wire.packets
  BY <1>2, AckPacketIsQueue, <1>4, <1>11 DEF ReceiveAck, receiverVars, Near, Lose
<1>12. CASE UNCHANGED vars
  BY <1>1, <1>4, <1>6, <1>12 DEF vars
<1> QED
  BY <1>1, <1>4, <1>6, <1>7, <1>8, <1>9, <1>10, <1>11, <1>12 DEF Next, PollResend, Receive

\* The congestion window and the receiver's queue keep every packet in sight: nothing
\* is asked of the network. Beyond half a round of ids less the queue this is open.
THEOREM WindowsAreSafe ==
    ASSUME OneOfEach, WindowsFit
    PROVE  Spec => [](InOrder /\ AcknowledgedWasReceived)
<1> DEFINE Inv == TypeOK /\ Remembers(queue) /\ Transported /\ Ordered /\ Sight
<1>1. Init => Inv
  BY TypeInit, TransportedInit, OrderedInit DEF Init, EmptyQueue, Remembers, Sight, Near,
     InSight
<1>2. Inv /\ [Next]_vars => Inv'
  BY TypeNext, TransportedNext, OrderedNext, SightNext DEF Sight
<1>3. Inv => InOrder /\ AcknowledgedWasReceived
  BY OrderedIsInOrder DEF Transported
<1> QED BY <1>1, <1>2, <1>3, PTL DEF Spec

-----------------------------------------------------------------------------
(* The queue of a talker (JitterQueue).                                    *)

\* The distance of two positions, as their numbers tell it.
Distance(n, base) == Ahead(Id(n), Id(base))

LEMMA AheadCases ==
    ASSUME NEW x \in 0 .. (Ids - 1), NEW y \in 0 .. (Ids - 1)
    PROVE  Ahead(x, y) = IF x >= y THEN x - y ELSE x - y + Ids
<1>1. CASE x >= y
  BY <1>1, IdsAssumption DEF Ahead
<1>2. CASE x < y
  BY <1>2, IdsAssumption DEF Ahead
<1> QED BY <1>1, <1>2

LEMMA NextId ==
    ASSUME NEW n \in Nat
    PROVE  Id(n + 1) = IF Id(n) = Ids - 1 THEN 0 ELSE Id(n) + 1
<1>1. \/ n + 1 - n = Id(n + 1) - Id(n)
      \/ n + 1 - n = Id(n + 1) - Id(n) + Ids
  BY Neighbours, IdsAssumption
<1>2. Id(n) \in 0 .. (Ids - 1) /\ Id(n + 1) \in 0 .. (Ids - 1)
  BY Split
<1> QED BY <1>1, <1>2, IdsAssumption

\* Of two positions seen from a third, and from the one behind it.
LEMMA BetweenIs ==
    ASSUME NEW a \in Nat, NEW b \in Nat, NEW c \in Nat
    PROVE  /\ Distance(a, c) \in 0 .. (Ids - 1)
           /\ Distance(a, a) = 0
           /\ Distance(a, b) = IF Distance(a, c) >= Distance(b, c)
                               THEN Distance(a, c) - Distance(b, c)
                               ELSE Distance(a, c) - Distance(b, c) + Ids
           /\ Distance(a, c) = 0 => Id(a) = Id(c)
           /\ Id(a) = Id(c) => Distance(a, c) = 0
           /\ Distance(a, c) > 0 => Distance(a, c + 1) = Distance(a, c) - 1
           /\ Id(a) = Id(b) => Distance(a, c) = Distance(b, c)
<1>1. /\ Id(a) \in 0 .. (Ids - 1) /\ Id(b) \in 0 .. (Ids - 1) /\ Id(c) \in 0 .. (Ids - 1)
      /\ Id(c + 1) \in 0 .. (Ids - 1)
  BY Split
<1>2. Id(c + 1) = IF Id(c) = Ids - 1 THEN 0 ELSE Id(c) + 1
  BY NextId
<1>3. /\ Distance(a, c) = IF Id(a) >= Id(c) THEN Id(a) - Id(c) ELSE Id(a) - Id(c) + Ids
      /\ Distance(b, c) = IF Id(b) >= Id(c) THEN Id(b) - Id(c) ELSE Id(b) - Id(c) + Ids
      /\ Distance(a, b) = IF Id(a) >= Id(b) THEN Id(a) - Id(b) ELSE Id(a) - Id(b) + Ids
      /\ Distance(a, a) = IF Id(a) >= Id(a) THEN Id(a) - Id(a) ELSE Id(a) - Id(a) + Ids
      /\ Distance(a, c + 1) = IF Id(a) >= Id(c + 1) THEN Id(a) - Id(c + 1)
                                                    ELSE Id(a) - Id(c + 1) + Ids
  BY <1>1, AheadCases DEF Distance
<1>4. /\ Distance(a, c) \in 0 .. (Ids - 1)
      /\ Distance(a, a) = 0
      /\ Distance(a, c) = 0 <=> Id(a) = Id(c)
  BY <1>1, <1>3, IdsAssumption
<1>5. Distance(a, b) = IF Distance(a, c) >= Distance(b, c)
                       THEN Distance(a, c) - Distance(b, c)
                       ELSE Distance(a, c) - Distance(b, c) + Ids
  BY <1>1, <1>3, IdsAssumption
<1>6. Distance(a, c) > 0 => Distance(a, c + 1) = Distance(a, c) - 1
  BY <1>1, <1>2, <1>3, IdsAssumption
<1>7. Id(a) = Id(b) => Distance(a, c) = Distance(b, c)
  BY DEF Distance
<1> QED BY <1>4, <1>5, <1>6, <1>7

\* Less than a round apart, the distance is the difference.
LEMMA BetweenNear ==
    ASSUME NEW a \in Nat, NEW b \in Nat, a < b + Ids, b < a + Ids
    PROVE  Distance(a, b) = IF a >= b THEN a - b ELSE a - b + Ids
<1>1. Id(a) \in 0 .. (Ids - 1) /\ Id(b) \in 0 .. (Ids - 1)
  BY Split
<1>2. Distance(a, b) = IF Id(a) >= Id(b) THEN Id(a) - Id(b) ELSE Id(a) - Id(b) + Ids
  BY <1>1, AheadCases DEF Distance
<1>3. b <= a => a - b = Id(a) - Id(b) \/ a - b = Id(a) - Id(b) + Ids
  BY Neighbours
<1>4. a <= b => b - a = Id(b) - Id(a) \/ b - a = Id(b) - Id(a) + Ids
  BY Neighbours
<1> QED BY <1>1, <1>2, <1>3, <1>4, IdsAssumption

\* The samples of a buffer, packet by packet.
LEMMA SamplesSteps ==
    ASSUME NEW buf \in Seq(Packet)
    PROVE  \E first :
              /\ first = [k \in 0 .. Len(buf) |->
                            IF k = 0 THEN 0 ELSE first[k - 1] + buf[k].samples]
              /\ Samples(buf) = first[Len(buf)]
<1> DEFINE G == {n \in Nat : \E first : first = [k \in 0 .. n |->
                    IF k = 0 THEN 0 ELSE first[k - 1] + buf[k].samples]}
<1>1. 0 \in G
  <2> DEFINE first == [k \in 0 .. 0 |-> 0]
  <2>1. first = [k \in 0 .. 0 |-> IF k = 0 THEN 0 ELSE first[k - 1] + buf[k].samples]
    OBVIOUS
  <2> HIDE DEF first
  <2> QED BY <2>1
<1>2. \A n \in Nat : n \in G => n + 1 \in G
  <2> SUFFICES ASSUME NEW n \in Nat, n \in G PROVE n + 1 \in G
    OBVIOUS
  <2>1. PICK before : before = [k \in 0 .. n |->
                IF k = 0 THEN 0 ELSE before[k - 1] + buf[k].samples]
    OBVIOUS
  <2> HIDE DEF G
  <2> DEFINE first == [k \in 0 .. (n + 1) |->
                IF k = 0 THEN 0 ELSE before[k - 1] + buf[k].samples]
  <2>2. \A k \in 0 .. n : first[k] = before[k]
    BY <2>1
  <2>3. \A k \in 0 .. (n + 1) : k # 0 => first[k - 1] = before[k - 1]
    <3> HIDE DEF first
    <3> QED BY <2>2
  <2>4. first = [k \in 0 .. (n + 1) |->
                IF k = 0 THEN 0 ELSE first[k - 1] + buf[k].samples]
    <3>1. \A k \in 0 .. (n + 1) :
                (IF k = 0 THEN 0 ELSE before[k - 1] + buf[k].samples)
                  = IF k = 0 THEN 0 ELSE first[k - 1] + buf[k].samples
      <4> HIDE DEF first
      <4> QED BY <2>3, Zenon
    <3> QED BY <3>1, Zenon
  <2> HIDE DEF first
  <2>5. n + 1 \in Nat
    OBVIOUS
  <2> QED BY <2>4, <2>5, Zenon DEF G
<1>3. Len(buf) \in G
  <2> HIDE DEF G
  <2> QED BY <1>1, <1>2, Induction
<1> DEFINE Sums(first) == first = [k \in 0 .. Len(buf) |->
                    IF k = 0 THEN 0 ELSE first[k - 1] + buf[k].samples]
<1>4. Sums(CHOOSE first : Sums(first))
  BY <1>3
<1>5. Samples(buf) = (CHOOSE first : Sums(first))[Len(buf)]
  BY DEF Samples
<1> QED BY <1>4, <1>5

LEMMA PacketIs ==
    /\ Lengths \cup {0} \subseteq Nat /\ NoPacket \in Packet
    /\ \A p \in Packet : p.n \in Nat /\ p.samples \in Nat /\ p.samples \in Lengths \cup {0}
<1>1. Lengths \cup {0} \subseteq Nat
  <2>1. Lengths \subseteq Nat \ {0}
    BY JitterAssumption
  <2> QED BY <2>1
<1>2. \A p \in Packet : p.n \in Nat /\ p.samples \in Lengths \cup {0}
  BY DEF Packet
<1> QED BY <1>1, <1>2 DEF NoPacket, Packet

\* What is behind one another adds up.
LEMMA SamplesOfBoth ==
    ASSUME NEW s \in Seq(Packet), NEW t \in Seq(Packet)
    PROVE  /\ Samples(s) \in Nat /\ Samples(s \o t) = Samples(s) + Samples(t)
<1> DEFINE both == s \o t
<1>0. /\ both \in Seq(Packet) /\ Len(both) = Len(s) + Len(t)
      /\ \A k \in 1 .. Len(s) : both[k] = s[k]
      /\ \A k \in 1 .. Len(t) : both[Len(s) + k] = t[k]
  BY ConcatProperties
<1> HIDE DEF both
<1>1. PICK fs : /\ fs = [k \in 0 .. Len(s) |-> IF k = 0 THEN 0 ELSE fs[k - 1] + s[k].samples]
                /\ Samples(s) = fs[Len(s)]
  BY SamplesSteps
<1>2. PICK ft : /\ ft = [k \in 0 .. Len(t) |-> IF k = 0 THEN 0 ELSE ft[k - 1] + t[k].samples]
                /\ Samples(t) = ft[Len(t)]
  BY SamplesSteps
<1>3. PICK fb : /\ fb = [k \in 0 .. Len(both) |->
                            IF k = 0 THEN 0 ELSE fb[k - 1] + both[k].samples]
                /\ Samples(both) = fb[Len(both)]
  BY <1>0, SamplesSteps
<1>4. /\ fs[0] = 0 /\ \A k \in 1 .. Len(s) : fs[k] = fs[k - 1] + s[k].samples
      /\ ft[0] = 0 /\ \A k \in 1 .. Len(t) : ft[k] = ft[k - 1] + t[k].samples
      /\ fb[0] = 0 /\ \A k \in 1 .. Len(both) : fb[k] = fb[k - 1] + both[k].samples
  <2>1. fs[0] = 0 /\ \A k \in 1 .. Len(s) : fs[k] = fs[k - 1] + s[k].samples
    BY <1>1
  <2>2. ft[0] = 0 /\ \A k \in 1 .. Len(t) : ft[k] = ft[k - 1] + t[k].samples
    BY <1>2
  <2>3. fb[0] = 0 /\ \A k \in 1 .. Len(both) : fb[k] = fb[k - 1] + both[k].samples
    BY <1>0, <1>3
  <2> QED BY <2>1, <2>2, <2>3
<1>5. \A p \in Packet : p.samples \in Nat
  BY PacketIs
<1>6. \A k \in Nat : k <= Len(s) => fs[k] \in Nat /\ fb[k] = fs[k]
  <2> DEFINE G == {k \in Nat : k <= Len(s) => fs[k] \in Nat /\ fb[k] = fs[k]}
  <2>1. 0 \in G
    BY <1>4
  <2>2. \A k \in Nat : k \in G => k + 1 \in G
    <3> SUFFICES ASSUME NEW k \in Nat, k + 1 <= Len(s), fs[k] \in Nat, fb[k] = fs[k]
                 PROVE  fs[k + 1] \in Nat /\ fb[k + 1] = fs[k + 1]
      OBVIOUS
    <3>1. s[k + 1] \in Packet /\ both[k + 1] = s[k + 1]
      BY <1>0
    <3>2. fs[k + 1] = fs[k] + s[k + 1].samples
      BY <1>4
    <3>3. fb[k + 1] = fb[k] + s[k + 1].samples
      BY <1>4, <1>0, <3>1
    <3> QED BY <1>5, <3>1, <3>2, <3>3
  <2>3. \A k \in Nat : k \in G
    <3> HIDE DEF G
    <3> QED BY <2>1, <2>2, Induction
  <2> QED BY <2>3
<1>7. \A k \in Nat : k <= Len(t) => ft[k] \in Nat /\ fb[Len(s) + k] = fs[Len(s)] + ft[k]
  <2> DEFINE G == {k \in Nat : k <= Len(t) => ft[k] \in Nat /\ fb[Len(s) + k] = fs[Len(s)] + ft[k]}
  <2>0. Len(s) \in Nat /\ Len(t) \in Nat /\ fs[Len(s)] \in Nat /\ fb[Len(s)] = fs[Len(s)]
    BY <1>6
  <2>1. 0 \in G
    BY <1>4, <2>0
  <2>2. \A k \in Nat : k \in G => k + 1 \in G
    <3> SUFFICES ASSUME NEW k \in Nat, k + 1 <= Len(t),
                        ft[k] \in Nat, fb[Len(s) + k] = fs[Len(s)] + ft[k]
                 PROVE  /\ ft[k + 1] \in Nat
                        /\ fb[Len(s) + (k + 1)] = fs[Len(s)] + ft[k + 1]
      OBVIOUS
    <3>1. t[k + 1] \in Packet /\ both[Len(s) + (k + 1)] = t[k + 1]
      BY <1>0
    <3>2. ft[k + 1] = ft[k] + t[k + 1].samples
      BY <1>4
    <3> DEFINE m == Len(s) + (k + 1)
    <3>3. m \in 1 .. Len(both) /\ m - 1 = Len(s) + k
      BY <1>0, <2>0
    <3> HIDE DEF m
    <3>4. fb[m] = fb[m - 1] + both[m].samples
      BY <1>4, <3>3
    <3>5. fb[m] = fb[Len(s) + k] + t[k + 1].samples
      BY <3>3, <3>4, <3>1 DEF m
    <3>6. t[k + 1].samples \in Nat
      BY <1>5, <3>1
    <3> HIDE <3>4
    <3> QED BY <2>0, <3>2, <3>5, <3>6 DEF m
  <2>3. \A k \in Nat : k \in G
    <3> HIDE DEF G
    <3> QED BY <2>1, <2>2, Induction
  <2> QED BY <2>3
<1>8. Len(s) \in Nat /\ Len(t) \in Nat
  OBVIOUS
<1>9. fs[Len(s)] \in Nat /\ ft[Len(t)] \in Nat /\ fb[Len(both)] = fs[Len(s)] + ft[Len(t)]
  BY <1>0, <1>6, <1>7, <1>8
<1> QED BY <1>1, <1>2, <1>3, <1>9 DEF both

LEMMA SamplesOfOne ==
    /\ Samples(<< >>) = 0
    /\ \A p \in Packet : Samples(<<p>>) = p.samples
<1>0. \A p \in Packet : p.samples \in Nat
  BY PacketIs
<1>1. Samples(<< >>) = 0
  <2>1. << >> \in Seq(Packet) /\ Len(<< >>) = 0
    OBVIOUS
  <2>2. PICK f : /\ f = [k \in 0 .. Len(<< >>) |->
                            IF k = 0 THEN 0 ELSE f[k - 1] + << >>[k].samples]
                 /\ Samples(<< >>) = f[Len(<< >>)]
    BY <2>1, SamplesSteps
  <2> QED BY <2>1, <2>2
<1>2. ASSUME NEW p \in Packet PROVE Samples(<<p>>) = p.samples
  <2>1. <<p>> \in Seq(Packet) /\ Len(<<p>>) = 1 /\ <<p>>[1] = p
    OBVIOUS
  <2>2. PICK f : /\ f = [k \in 0 .. Len(<<p>>) |->
                            IF k = 0 THEN 0 ELSE f[k - 1] + <<p>>[k].samples]
                 /\ Samples(<<p>>) = f[Len(<<p>>)]
    BY <2>1, SamplesSteps
  <2>3. f[0] = 0 /\ f[1] = f[0] + p.samples
    BY <2>1, <2>2
  <2> QED BY <1>0, <2>1, <2>2, <2>3
<1> QED BY <1>1, <1>2

\* A buffer whose packets are ahead of the number it waits for, each farther than
\* the one before it.
Ascends(buf, next) ==
    /\ \A i \in 1 .. Len(buf) :
        buf[i].n # 0 /\ Distance(buf[i].n, next) <= MaxBufferPackets
    /\ \A i, j \in 1 .. Len(buf) :
        i < j => Distance(buf[i].n, next) < Distance(buf[j].n, next)

LEMMA BufferIs ==
    ASSUME NEW buf \in Seq(Packet), NEW next \in Nat
    PROVE  /\ Len(buf) \in Nat
           /\ \A i \in 1 .. Len(buf) :
                /\ buf[i] \in Packet /\ buf[i].n \in Nat /\ buf[i].samples \in Nat
                /\ Distance(buf[i].n, next) \in Nat /\ Distance(buf[i].n, next) < Ids
<1>1. \A i \in 1 .. Len(buf) : buf[i] \in Packet
  OBVIOUS
<1>2. \A i \in 1 .. Len(buf) : buf[i].n \in Nat /\ buf[i].samples \in Nat
  BY <1>1, PacketIs
<1>3. \A i \in 1 .. Len(buf) : Distance(buf[i].n, next) \in 0 .. (Ids - 1)
  BY <1>2, BetweenIs
<1>4. \A i \in 1 .. Len(buf) : Distance(buf[i].n, next) \in Nat /\ Distance(buf[i].n, next) < Ids
  BY <1>3, IdsAssumption
<1> QED BY <1>1, <1>2, <1>4

\* The count of the missing packets does not go below zero.
LEMMA NoneIsCountedTwice ==
    ASSUME NEW buf \in Seq(Packet), NEW next \in Nat, Ascends(buf, next)
    PROVE  \A i \in 1 .. Len(buf) : Distance(buf[i].n, next) >= i - 1
<1> DEFINE D(i) == Distance(buf[i].n, next)
           G == {k \in Nat : k + 1 <= Len(buf) => D(k + 1) >= k}
<1>1. /\ Len(buf) \in Nat
      /\ \A i \in 1 .. Len(buf) : D(i) \in Nat
      /\ \A i, j \in 1 .. Len(buf) : i < j => D(i) < D(j)
  BY BufferIs DEF Ascends
<1> HIDE DEF D
<1>2. 0 \in G
  BY <1>1
<1>3. \A k \in Nat : k \in G => k + 1 \in G
  BY <1>1
<1>4. \A k \in Nat : k \in G
  <2> HIDE DEF G
  <2> QED BY <1>2, <1>3, Induction
<1>5. \A i \in 1 .. Len(buf) : D(i) >= i - 1
  <2> SUFFICES ASSUME NEW i \in 1 .. Len(buf) PROVE D(i) >= i - 1
    OBVIOUS
  <2>1. i - 1 \in Nat /\ (i - 1) + 1 = i /\ i <= Len(buf)
    BY <1>1
  <2> QED BY <1>4, <2>1
<1> QED BY <1>5 DEF D

\* The number that is waited for is counted on while all packets are behind it.
LEMMA AscendsOn ==
    ASSUME NEW buf \in Seq(Packet), NEW next \in Nat, Ascends(buf, next),
           \A i \in 1 .. Len(buf) : Distance(buf[i].n, next) > 0
    PROVE  /\ Ascends(buf, next + 1)
           /\ \A i \in 1 .. Len(buf) :
                Distance(buf[i].n, next + 1) = Distance(buf[i].n, next) - 1
<1>1. /\ Len(buf) \in Nat
      /\ \A i \in 1 .. Len(buf) : buf[i].n \in Nat /\ Distance(buf[i].n, next) \in Nat
  BY BufferIs
<1>2. \A i \in 1 .. Len(buf) : Distance(buf[i].n, next + 1) = Distance(buf[i].n, next) - 1
  BY <1>1, BetweenIs
<1>3. MaxBufferPackets \in Nat
  BY JitterAssumption
<1> QED BY <1>1, <1>2, <1>3 DEF Ascends

\* A part of a buffer up to its end: it ascends, also from its own first packet.
EndOf(buf, next, k, kept) ==
    /\ kept \in Seq(Packet) /\ Len(kept) = k
    /\ \A i \in 1 .. k : Len(buf) - k + i \in 1 .. Len(buf) /\ kept[i] = buf[Len(buf) - k + i]
    /\ Ascends(kept, next)
    /\ \A h \in Nat : k > 0 /\ h = kept[1].n =>
            /\ Ascends(kept, h)
            /\ \A i \in 1 .. k : Distance(kept[i].n, h)
                                   = Distance(kept[i].n, next) - Distance(h, next)

LEMMA Suffix ==
    ASSUME NEW buf \in Seq(Packet), NEW next \in Nat, Ascends(buf, next), NEW k \in 0 .. Len(buf),
           NEW kept, kept = SubSeq(buf, Len(buf) - k + 1, Len(buf))
    PROVE  EndOf(buf, next, k, kept)
<1>1. /\ Len(buf) \in Nat /\ k \in Nat /\ k <= Len(buf)
      /\ \A i \in 1 .. k : Len(buf) - k + i \in 1 .. Len(buf)
  OBVIOUS
<1>2. /\ kept \in Seq(Packet) /\ Len(kept) = k
      /\ \A i \in 1 .. k : kept[i] = buf[Len(buf) - k + i]
  <2>1. \A i \in (Len(buf) - k + 1) .. Len(buf) : buf[i] \in Packet
    BY <1>1
  <2> QED BY <1>1, <2>1, SubSeqProperties
<1>3. Ascends(kept, next)
  <2>1. \A i, j \in 1 .. k : i < j => Len(buf) - k + i < Len(buf) - k + j
    BY <1>1
  <2>2. ASSUME NEW i \in 1 .. k
        PROVE  kept[i].n # 0 /\ Distance(kept[i].n, next) <= MaxBufferPackets
    BY <1>1, <1>2 DEF Ascends
  <2>3. ASSUME NEW i \in 1 .. k, NEW j \in 1 .. k, i < j
        PROVE  Distance(kept[i].n, next) < Distance(kept[j].n, next)
    <3> DEFINE a == Len(buf) - k + i
               b == Len(buf) - k + j
    <3>1. a \in 1 .. Len(buf) /\ b \in 1 .. Len(buf) /\ a < b
      BY <1>1, <2>1, <2>3
    <3>2. kept[i] = buf[a] /\ kept[j] = buf[b]
      BY <1>2
    <3> HIDE DEF a, b
    <3> QED BY <3>1, <3>2 DEF Ascends
  <2> QED BY <1>2, <2>2, <2>3 DEF Ascends
<1>4. ASSUME NEW h \in Nat, k > 0, h = kept[1].n
      PROVE  /\ Ascends(kept, h)
             /\ \A i \in 1 .. k : Distance(kept[i].n, h)
                                    = Distance(kept[i].n, next) - Distance(h, next)
  <2>1. \A i \in 1 .. k : kept[i].n \in Nat /\ Distance(kept[i].n, next) \in Nat
    BY <1>2, BufferIs
  <2>2. \A i \in 1 .. k : Distance(kept[i].n, next) >= Distance(h, next)
    <3>1. \A i \in 1 .. k : i = 1 \/ 1 < i
      OBVIOUS
    <3>2. 1 \in 1 .. k
      BY <1>1, <1>4
    <3>3. \A i \in 1 .. k : 1 < i => Distance(kept[1].n, next) < Distance(kept[i].n, next)
      BY <1>2, <1>3, <3>2 DEF Ascends
    <3> QED
      <4> SUFFICES ASSUME NEW i \in 1 .. k PROVE Distance(kept[i].n, next) >= Distance(h, next)
        OBVIOUS
      <4>1. CASE i = 1
        <5>1. kept[i].n = h
          BY <1>4, <4>1
        <5>2. Distance(h, next) = Distance(kept[i].n, next)
          BY <5>1
        <5>3. Distance(kept[i].n, next) \in Nat
          BY <2>1
        <5> QED BY <5>2, <5>3
      <4>2. CASE 1 < i
        <5>1. Distance(kept[1].n, next) < Distance(kept[i].n, next)
          BY <3>3, <4>2
        <5>2. Distance(h, next) < Distance(kept[i].n, next)
          BY <1>4, <5>1
        <5>3. Distance(kept[1].n, next) \in Nat /\ Distance(kept[i].n, next) \in Nat
          BY <2>1, <3>2
        <5>4. Distance(h, next) \in Nat
          BY <1>4, <5>3
        <5> QED BY <5>2, <5>3, <5>4
      <4> QED BY <3>1, <4>1, <4>2
  <2>3. \A i \in 1 .. k : Distance(kept[i].n, h)
                            = Distance(kept[i].n, next) - Distance(h, next)
    <3> SUFFICES ASSUME NEW i \in 1 .. k
                 PROVE  Distance(kept[i].n, h) = Distance(kept[i].n, next) - Distance(h, next)
      OBVIOUS
    <3>1. Distance(kept[i].n, next) >= Distance(h, next) /\ kept[i].n \in Nat
      BY <2>1, <2>2
    <3> QED BY <3>1, BetweenIs
  <2>4. Distance(h, next) \in Nat /\ MaxBufferPackets \in Nat
    <3>1. 1 \in 1 .. k
      BY <1>1, <1>4
    <3> QED BY <1>4, <2>1, <3>1, JitterAssumption
  <2>5. Ascends(kept, h)
    <3> DEFINE D(i) == Distance(kept[i].n, next)
               E(i) == Distance(kept[i].n, h)
    <3>1. /\ \A i \in 1 .. k : kept[i].n # 0 /\ D(i) <= MaxBufferPackets
          /\ \A i, j \in 1 .. k : i < j => D(i) < D(j)
      BY <1>2, <1>3 DEF Ascends
    <3>2. \A i \in 1 .. k : D(i) \in Nat /\ E(i) = D(i) - Distance(h, next)
      BY <2>1, <2>3
    <3> HIDE DEF D, E
    <3>3. /\ \A i \in 1 .. k : kept[i].n # 0 /\ E(i) <= MaxBufferPackets
          /\ \A i, j \in 1 .. k : i < j => E(i) < E(j)
      <4> DEFINE d == Distance(h, next)
      <4>1. d \in Nat /\ MaxBufferPackets \in Nat /\ \A i \in 1 .. k : E(i) = D(i) - d
        BY <2>4, <3>2
      <4> HIDE DEF d
      <4>2. \A i \in 1 .. k : E(i) <= MaxBufferPackets
        BY <3>1, <3>2, <4>1
      <4>3. \A i, j \in 1 .. k : i < j => E(i) < E(j)
        BY <3>1, <3>2, <4>1
      <4> QED BY <3>1, <4>2, <4>3
    <3> QED BY <1>2, <3>3 DEF Ascends, E
  <2> QED BY <2>3, <2>5
<1> QED BY <1>1, <1>2, <1>3, <1>4 DEF EndOf

LEMMA DistanceIs ==
    ASSUME NEW n \in Nat, NEW base \in Nat
    PROVE  /\ Distance(n, base) \in Nat /\ Distance(n, base) < Ids
           /\ Distance(n, base) = 0 <=> Id(n) = Id(base)
<1>1. /\ Distance(n, base) \in 0 .. (Ids - 1)
      /\ Distance(n, base) = 0 <=> Id(n) = Id(base)
  <2>1. \A c \in Nat : Distance(n, c) \in 0 .. (Ids - 1) /\ (Distance(n, c) = 0 <=> Id(n) = Id(c))
    BY BetweenIs
  <2> QED BY <2>1
<1> QED BY <1>1, IdsAssumption

LEMMA Joint ==
    \A s, t \in Seq(Packet) :
        /\ s \o t \in Seq(Packet) /\ Len(s \o t) = Len(s) + Len(t)
        /\ Len(s) \in Nat /\ Len(t) \in Nat
        /\ \A i \in 1 .. Len(s) : (s \o t)[i] = s[i]
        /\ \A i \in 1 .. Len(t) : (s \o t)[Len(s) + i] = t[i]
  BY ConcatProperties

\* Where a packet goes: behind all whose numbers are smaller, over the wrap.
LEMMA AtOrAfterIs ==
    ASSUME NEW q, NEW buf \in Seq(Packet), buf = q.buf, NEW next \in Nat, Ascends(buf, next),
           NEW p \in Packet, Distance(p.n, next) <= MaxBufferPackets
    PROVE  /\ AtOrAfter(q, p) \in 0 .. Len(buf)
           /\ \A i \in 1 .. Len(buf) :
                /\ i <= Len(buf) - AtOrAfter(q, p) => Distance(buf[i].n, next) < Distance(p.n, next)
                /\ i > Len(buf) - AtOrAfter(q, p) => Distance(buf[i].n, next) >= Distance(p.n, next)
<1> DEFINE D(i) == Distance(buf[i].n, next)
           d == Distance(p.n, next)
           far(i) == Ahead(IdOf(buf[i]), IdOf(p))
           K == {k \in 0 .. Len(buf) : \A i \in Len(buf) - k + 1 .. Len(buf) : far(i) <= MaxBufferPackets}
           m == AtOrAfter(q, p)
<1>1. /\ Len(buf) \in Nat /\ d \in Nat /\ d <= MaxBufferPackets
      /\ \A i \in 1 .. Len(buf) : D(i) \in Nat /\ D(i) <= MaxBufferPackets
      /\ \A i, j \in 1 .. Len(buf) : i < j => D(i) < D(j)
  <2>1. Distance(p.n, next) \in Nat
    BY PacketIs, DistanceIs
  <2> QED BY <2>1, BufferIs DEF Ascends
<1>2. \A i \in 1 .. Len(buf) : far(i) <= MaxBufferPackets <=> D(i) >= d
  <2> SUFFICES ASSUME NEW i \in 1 .. Len(buf) PROVE far(i) <= MaxBufferPackets <=> D(i) >= d
    OBVIOUS
  <2>1. buf[i].n \in Nat /\ p.n \in Nat
    BY BufferIs, PacketIs
  <2>2. Distance(buf[i].n, p.n) = IF D(i) >= d THEN D(i) - d ELSE D(i) - d + Ids
    BY <2>1, BetweenIs
  <2>3. far(i) = Distance(buf[i].n, p.n)
    BY DEF Distance, IdOf
  <2>4. D(i) \in Nat /\ D(i) <= MaxBufferPackets
    BY <1>1
  <2> HIDE DEF D, d, far
  <2> QED BY <1>1, <2>2, <2>3, <2>4, JitterAssumption, IdsAssumption
<1>3. m = Max(K)
  BY DEF AtOrAfter
<1>4. m \in K /\ \A k \in K : k <= m
  <2>1. K \in SUBSET Nat /\ (\A k \in K : k <= Len(buf))
    BY <1>1
  <2>2. 0 \in K
    BY <1>1
  <2> HIDE DEF K, m
  <2> QED BY <1>1, <1>3, <2>1, <2>2, MaxIsGreatest
<1> HIDE DEF m, D, d, far
<1>5. m \in 0 .. Len(buf) /\ \A i \in Len(buf) - m + 1 .. Len(buf) : far(i) <= MaxBufferPackets
  BY <1>4
<1>6. \A i \in 1 .. Len(buf) : i > Len(buf) - m => D(i) >= d
  BY <1>1, <1>2, <1>5
<1>7. \A i \in 1 .. Len(buf) : i <= Len(buf) - m => D(i) < d
  <2> SUFFICES ASSUME NEW i \in 1 .. Len(buf), i <= Len(buf) - m, D(i) >= d PROVE FALSE
    BY <1>1
  <2>1. \A j \in 1 .. Len(buf) : i <= j => D(j) >= d
    BY <1>1
  <2>2. \A j \in 1 .. Len(buf) : i <= j => far(j) <= MaxBufferPackets
    BY <1>2, <2>1
  <2>3. m + 1 \in 0 .. Len(buf) /\ \A j \in Len(buf) - (m + 1) + 1 .. Len(buf) :
            j \in 1 .. Len(buf) /\ (i <= j \/ j > Len(buf) - m \/ j = Len(buf) - m)
    BY <1>1, <1>5
  <2>4. m + 1 \in K
    BY <1>1, <1>5, <2>2, <2>3
  <2> QED BY <1>4, <1>5, <2>4
<1> QED BY <1>5, <1>6, <1>7 DEF D, d, m

\* A packet is put in where it belongs, and the buffer ascends.
HasTaken(buf, next, p, new) ==
    /\ new \in Seq(Packet) /\ new # << >>
    /\ Ascends(new, next)
    /\ Samples(new) = Samples(buf) + p.samples
    /\ \A i \in 1 .. Len(new) : new[i] = p \/ \E j \in 1 .. Len(buf) : new[i] = buf[j]

LEMMA InsertAscends ==
    ASSUME NEW buf \in Seq(Packet), NEW next \in Nat, Ascends(buf, next),
           NEW p \in Packet, p.n # 0, Distance(p.n, next) <= MaxBufferPackets,
           NEW k \in 0 .. Len(buf),
           \A i \in 1 .. Len(buf) :
                /\ i <= Len(buf) - k => Distance(buf[i].n, next) < Distance(p.n, next)
                /\ i > Len(buf) - k => Distance(buf[i].n, next) > Distance(p.n, next),
           NEW new, new = InsertAt(buf, Len(buf) - k + 1, p)
    PROVE  HasTaken(buf, next, p, new)
<1> DEFINE a == Len(buf) - k
           s == SubSeq(buf, 1, a)
           t == SubSeq(buf, a + 1, Len(buf))
           old(i) == IF i <= a THEN i ELSE i - 1
<1>1. Len(buf) \in Nat /\ a \in Nat /\ a <= Len(buf) /\ k \in Nat
  OBVIOUS
<1>2. /\ s \in Seq(Packet) /\ Len(s) = a
      /\ \A i \in 1 .. a : s[i] = buf[i]
  <2>1. \A i \in 1 .. a : buf[i] \in Packet
    BY <1>1
  <2> HIDE DEF a
  <2> QED BY <1>1, <2>1, SubSeqProperties
<1>3. /\ t \in Seq(Packet) /\ Len(t) = Len(buf) - a
      /\ \A i \in 1 .. Len(buf) - a : t[i] = buf[a + i]
  <2>1. \A i \in a + 1 .. Len(buf) : buf[i] \in Packet
    BY <1>1
  <2> HIDE DEF a
  <2> QED BY <1>1, <2>1, SubSeqProperties
<1>4. new = s \o <<p>> \o t
  <2>1. (a + 1) - 1 = a
    BY <1>1
  <2> QED BY <2>1 DEF InsertAt
<1> HIDE DEF s, t
<1>5. buf = s \o t
  <2> HIDE DEF a
  <2> DEFINE u == s \o t
  <2>1. /\ u \in Seq(Packet) /\ Len(u) = Len(buf)
        /\ \A i \in 1 .. a : u[i] = buf[i]
        /\ \A i \in 1 .. Len(t) : u[a + i] = buf[a + i]
    <3>1. /\ u \in Seq(Packet) /\ Len(u) = Len(s) + Len(t)
          /\ \A i \in 1 .. Len(s) : u[i] = s[i]
          /\ \A i \in 1 .. Len(t) : u[Len(s) + i] = t[i]
      <4>1. s \in Seq(Packet) /\ t \in Seq(Packet)
        BY <1>2, <1>3
      <4> QED BY <4>1, Joint, Zenon
    <3> HIDE DEF u
    <3> QED BY <1>1, <1>2, <1>3, <3>1
  <2> HIDE DEF u
  <2>2. \A i \in 1 .. Len(buf) : i <= a \/ (i - a \in 1 .. Len(t) /\ a + (i - a) = i)
    BY <1>1, <1>3
  <2>3. \A i \in 1 .. Len(buf) : u[i] = buf[i]
    <3> SUFFICES ASSUME NEW i \in 1 .. Len(buf) PROVE u[i] = buf[i]
      OBVIOUS
    <3>1. CASE i <= a
      BY <1>1, <2>1, <3>1
    <3>2. CASE i - a \in 1 .. Len(t) /\ a + (i - a) = i
      <4>1. u[a + (i - a)] = buf[a + (i - a)]
        BY <2>1, <3>2
      <4> QED BY <3>2, <4>1
    <3> QED BY <2>2, <3>1, <3>2
  <2> QED BY <2>1, <2>3, SeqEqual DEF u
<1>6. <<p>> \in Seq(Packet) /\ Len(<<p>>) = 1 /\ <<p>>[1] = p
  OBVIOUS
<1>7. Samples(new) = Samples(buf) + p.samples
  <2>1. /\ Samples(s) \in Nat /\ Samples(t) \in Nat /\ Samples(<<p>>) = p.samples /\ p.samples \in Nat
        /\ Samples(s \o t) = Samples(s) + Samples(t)
        /\ Samples(s \o <<p>>) = Samples(s) + Samples(<<p>>)
    BY <1>2, <1>3, <1>6, SamplesOfBoth, SamplesOfOne, PacketIs
  <2>2. s \o <<p>> \in Seq(Packet)
    BY <1>2, <1>6
  <2>3. Samples((s \o <<p>>) \o t) = Samples(s \o <<p>>) + Samples(t)
    BY <1>3, <2>2, SamplesOfBoth
  <2>4. new = (s \o <<p>>) \o t
    BY <1>4
  <2>5. Samples(new) = Samples(s \o <<p>>) + Samples(t)
    BY <2>3, <2>4
  <2>6. Samples(buf) = Samples(s) + Samples(t)
    BY <1>5, <2>1
  <2> QED BY <2>1, <2>5, <2>6
<1>8. /\ new \in Seq(Packet) /\ Len(new) = Len(buf) + 1 /\ new[a + 1] = p
      /\ \A i \in 1 .. Len(new) : i # a + 1 => old(i) \in 1 .. Len(buf) /\ new[i] = buf[old(i)]
  <2> HIDE DEF a
  <2> DEFINE u == s \o <<p>>
  <2>1. /\ u \in Seq(Packet) /\ Len(u) = a + 1 /\ u[a + 1] = p
        /\ \A i \in 1 .. a : u[i] = buf[i]
    <3>1. Len(s) + 1 = a + 1 /\ 1 \in 1 .. Len(<<p>>)
      BY <1>2, <1>6
    <3>2. u[Len(s) + 1] = <<p>>[1]
      BY <1>2, <1>6, <3>1, ConcatProperties
    <3> QED BY <1>1, <1>2, <1>6, <3>1, <3>2, ConcatProperties
  <2> HIDE DEF u
  <2>2. new = u \o t
    BY <1>4 DEF u
  <2>3. /\ new \in Seq(Packet) /\ Len(new) = Len(buf) + 1 /\ new[a + 1] = p
        /\ \A i \in 1 .. a : new[i] = buf[i]
        /\ \A i \in 1 .. Len(t) : new[a + 1 + i] = t[i]
    <3>1. /\ new \in Seq(Packet) /\ Len(new) = Len(u) + Len(t)
          /\ \A i \in 1 .. Len(u) : new[i] = u[i]
          /\ \A i \in 1 .. Len(t) : new[Len(u) + i] = t[i]
      <4>1. u \in Seq(Packet) /\ t \in Seq(Packet)
        BY <1>3, <2>1
      <4>2. /\ u \o t \in Seq(Packet) /\ Len(u \o t) = Len(u) + Len(t)
            /\ \A i \in 1 .. Len(u) : (u \o t)[i] = u[i]
            /\ \A i \in 1 .. Len(t) : (u \o t)[Len(u) + i] = t[i]
        BY <4>1, Joint, Zenon
      <4> QED BY <2>2, <4>2, Zenon
    <3>2. \A i \in 1 .. a : i \in 1 .. Len(u)
      BY <1>1, <2>1
    <3>3. a + 1 \in 1 .. Len(u)
      BY <1>1, <2>1
    <3>4. Len(u) = a + 1 /\ u[a + 1] = p /\ \A i \in 1 .. a : u[i] = buf[i]
      BY <2>1
    <3>5. Len(new) = Len(buf) + 1
      <4>1. Len(new) = a + 1 + Len(t)
        BY <3>1, <3>4
      <4> QED BY <1>1, <1>3, <4>1
    <3>6. new[a + 1] = p
      BY <3>1, <3>3, <3>4
    <3>7. \A i \in 1 .. a : new[i] = buf[i]
      BY <3>1, <3>2, <3>4
    <3>8. \A i \in 1 .. Len(t) : new[a + 1 + i] = t[i]
      BY <3>1, <3>4
    <3> QED BY <3>1, <3>5, <3>6, <3>7, <3>8
  <2>4. \A i \in 1 .. Len(new) : i > a + 1 => i - 1 \in 1 .. Len(buf) /\ new[i] = buf[i - 1]
    <3> SUFFICES ASSUME NEW i \in 1 .. Len(new), i > a + 1
                 PROVE  i - 1 \in 1 .. Len(buf) /\ new[i] = buf[i - 1]
      OBVIOUS
    <3> DEFINE j == i - a - 1
    <3>1. j \in 1 .. Len(t) /\ a + 1 + j = i /\ a + j = i - 1 /\ i - 1 \in 1 .. Len(buf)
      BY <1>1, <1>3, <2>3
    <3> HIDE DEF j
    <3>2. new[a + 1 + j] = t[j] /\ t[j] = buf[a + j]
      BY <1>3, <2>3, <3>1
    <3> QED BY <3>1, <3>2
  <2> QED BY <1>1, <2>3, <2>4
<1>9. new # << >>
  BY <1>1, <1>8
<1>10. Ascends(new, next)
  <2> DEFINE D(n) == Distance(n, next)
             d == Distance(p.n, next)
  <2>1. /\ d \in Nat /\ d <= MaxBufferPackets /\ p.n # 0
        /\ \A i \in 1 .. Len(buf) : /\ buf[i].n # 0 /\ D(buf[i].n) \in Nat /\ D(buf[i].n) <= MaxBufferPackets
                                    /\ i <= a => D(buf[i].n) < d
                                    /\ i > a => D(buf[i].n) > d
        /\ \A i, j \in 1 .. Len(buf) : i < j => D(buf[i].n) < D(buf[j].n)
    <3>1. Distance(p.n, next) \in Nat
      BY PacketIs, DistanceIs
    <3> QED BY <3>1, BufferIs DEF Ascends
  <2> HIDE DEF D, d, a
  <2>2. D(p.n) = d
    BY DEF D, d
  <2>3. \A i \in 1 .. Len(new) : \/ i = a + 1 /\ new[i].n = p.n
                                 \/ i # a + 1 /\ old(i) \in 1 .. Len(buf) /\ new[i].n = buf[old(i)].n
    BY <1>8
  <2> DEFINE E(i) == D(new[i].n)
  <2>4. \A i \in 1 .. Len(new) :
            /\ new[i].n # 0
            /\ i = a + 1 => E(i) = d
            /\ i # a + 1 => old(i) \in 1 .. Len(buf) /\ E(i) = D(buf[old(i)].n)
    BY <2>1, <2>2, <2>3
  <2> HIDE DEF E
  <2>5. \A i \in 1 .. Len(new) : E(i) <= MaxBufferPackets
    BY <2>1, <2>4
  <2>6. ASSUME NEW i \in 1 .. Len(new), NEW j \in 1 .. Len(new), i < j PROVE E(i) < E(j)
    <3>1. Len(new) \in Nat
      BY <1>8
    <3>2. CASE i = a + 1
      <4>1. j # a + 1 /\ old(j) > a
        BY <1>1, <2>6, <3>1, <3>2
      <4>2. old(j) \in 1 .. Len(buf) /\ E(j) = D(buf[old(j)].n) /\ E(i) = d
        BY <2>4, <3>2, <4>1
      <4> HIDE DEF old
      <4> QED BY <2>1, <4>1, <4>2
    <3>3. CASE j = a + 1
      <4>1. i # a + 1 /\ old(i) <= a
        BY <1>1, <2>6, <3>1, <3>3
      <4>2. old(i) \in 1 .. Len(buf) /\ E(i) = D(buf[old(i)].n) /\ E(j) = d
        BY <2>4, <3>3, <4>1
      <4> HIDE DEF old
      <4> QED BY <2>1, <4>1, <4>2
    <3>4. CASE i # a + 1 /\ j # a + 1
      <4>1. old(i) < old(j)
        BY <1>1, <2>6, <3>1, <3>4
      <4> QED BY <2>1, <2>4, <3>4, <4>1
    <3> QED BY <3>2, <3>3, <3>4
  <2> QED BY <2>4, <2>5, <2>6 DEF Ascends, E, D
<1> QED BY <1>7, <1>8, <1>9, <1>10 DEF HasTaken

-----------------------------------------------------------------------------
(* The counts of a talker's queue and where its packets are in the stream. *)

\* What holds of a queue whatever arrives: it knows how many samples it has, and its
\* packets ascend as their numbers tell it.
Counted(q) ==
    /\ q \in Queue /\ q.last # 0
    /\ q.samples = Samples(q.buf)
    /\ Ascends(q.buf, q.next)

\* What holds as long as no number comes round: they are where their numbers say, and
\* what was heard is behind.
Placed(q) ==
    /\ q.heard < q.next /\ q.next <= sent + 1 /\ FirstSent < q.next
    /\ \A i \in 1 .. Len(q.buf) :
        /\ q.buf[i].n = q.next + Distance(q.buf[i].n, q.next)
        /\ q.buf[i].n <= sent

LEMMA QueueIs ==
    ASSUME NEW q \in Queue
    PROVE  /\ q.next \in Nat /\ q.buf \in Seq(Packet) /\ q.samples \in Nat /\ q.decoded \in Nat
           /\ q.last \in Nat /\ q.lost \in Nat /\ q.buffering \in Nat /\ q.waited \in Nat
           /\ q.sizes \in Seq(Nat) /\ q.heard \in Nat
  BY DEF Queue

LEMMA PushedIs ==
    ASSUME NEW sizes \in Seq(Nat), NEW size \in Nat
    PROVE  Pushed(sizes, size) \in Seq(Nat)
<1>1. Append(sizes, size) \in Seq(Nat) /\ Append(sizes, size) # << >>
  BY AppendProperties
<1>2. Tail(Append(sizes, size)) \in Seq(Nat)
  BY <1>1
<1> QED BY <1>1, <1>2 DEF Pushed

LEMMA Quotient ==
    ASSUME NEW a \in Nat, NEW b \in Nat, b # 0
    PROVE  a \div b \in Nat /\ a \div b <= a
  OBVIOUS

LEMMA DecodedIs ==
    ASSUME NEW q \in Queue, Ascends(q.buf, q.next), NEW p \in Packet, NEW fec,
           NEW size, size = IF p = NoPacket THEN q.last ELSE p.samples,
           NEW r, r = Decoded(q, p, fec)
    PROVE  /\ r \in Queue /\ size \in Nat
           /\ r.decoded = q.decoded + size /\ r.last = size
           /\ r.buf = q.buf /\ r.samples = q.samples /\ r.next = q.next /\ r.heard = q.heard
<1> DEFINE missing == IF q.buf = << >> THEN 0
                      ELSE Ahead(IdOf(Last(q.buf)), Id(q.next)) + 1 - Len(q.buf)
           losses == IF p # NoPacket /\ ~fec THEN 0 ELSE q.lost + 1
           sizes == Pushed(q.sizes, (q.samples + missing * size) \div Usual)
<1>1. /\ q.next \in Nat /\ q.buf \in Seq(Packet) /\ q.samples \in Nat /\ q.decoded \in Nat
      /\ q.last \in Nat /\ q.lost \in Nat /\ q.sizes \in Seq(Nat)
  BY QueueIs
<1>2. size \in Nat
  BY <1>1, PacketIs
<1>3. missing \in Nat
  <2>1. CASE q.buf = << >>
    BY <2>1
  <2>2. CASE q.buf # << >>
    <3> DEFINE l == Len(q.buf)
    <3>1. l \in 1 .. l /\ l \in Nat
      BY <1>1, <2>2
    <3>2. Distance(q.buf[l].n, q.next) >= l - 1 /\ Distance(q.buf[l].n, q.next) \in Nat
      BY <1>1, <3>1, NoneIsCountedTwice, BufferIs
    <3>3. missing = Distance(q.buf[l].n, q.next) + 1 - l
      BY <2>2 DEF Distance, IdOf, Last
    <3> HIDE DEF l, missing
    <3> QED BY <3>1, <3>2, <3>3
  <2> QED BY <2>1, <2>2
<1>4. losses \in Nat
  BY <1>1
<1> HIDE DEF missing
<1>5. sizes \in Seq(Nat)
  <2>1. missing * size \in Nat
    BY <1>2, <1>3
  <2>2. q.samples + missing * size \in Nat
    BY <1>1, <2>1
  <2>3. (q.samples + missing * size) \div Usual \in Nat
    BY <2>2, Quotient, JitterAssumption
  <2> QED BY <1>1, <2>3, PushedIs
<1>6. r = [q EXCEPT !.decoded = @ + size, !.last = size, !.lost = losses, !.sizes = sizes]
  BY DEF Decoded, missing
<1> HIDE DEF losses, sizes
<1>7. q.decoded + size \in Nat
  BY <1>1, <1>2
<1> QED BY <1>2, <1>4, <1>5, <1>6, <1>7 DEF Queue

\* The first packet leaves the buffer.
LEMMA TakenIs ==
    ASSUME NEW q, Counted(q), q.buf # << >>, NEW p, p = Head(q.buf), NEW rest, rest = Taken(q)
    PROVE  /\ p \in Packet /\ p = q.buf[1] /\ p.n # 0
           /\ rest \in Queue
           /\ rest.buf \in Seq(Packet) /\ q.buf = <<p>> \o rest.buf
           /\ Len(rest.buf) = Len(q.buf) - 1
           /\ \A i \in 1 .. Len(rest.buf) : i + 1 \in 1 .. Len(q.buf) /\ rest.buf[i] = q.buf[i + 1]
           /\ rest.samples = Samples(rest.buf) /\ rest.samples + p.samples = q.samples
           /\ rest.next = q.next + 1
           /\ rest.decoded = q.decoded /\ rest.last = q.last /\ rest.heard = q.heard
           /\ Ascends(rest.buf, rest.next)
           /\ \A i \in 1 .. Len(rest.buf) :
                Distance(rest.buf[i].n, rest.next) = Distance(rest.buf[i].n, q.next) - 1
<1> DEFINE t == Tail(q.buf)
<1>1. q \in Queue /\ q.buf \in Seq(Packet) /\ q.next \in Nat /\ q.samples \in Nat
      /\ q.samples = Samples(q.buf) /\ Ascends(q.buf, q.next)
  BY QueueIs DEF Counted
<1>2. /\ Len(q.buf) \in Nat /\ Len(q.buf) >= 1 /\ 1 \in 1 .. Len(q.buf)
      /\ p = q.buf[1] /\ p \in Packet /\ p.n # 0
  <2>1. Len(q.buf) \in Nat /\ Len(q.buf) >= 1
    BY <1>1
  <2>2. 1 \in 1 .. Len(q.buf) /\ p = q.buf[1]
    BY <1>1, <2>1
  <2> QED BY <1>1, <2>1, <2>2 DEF Ascends
<1>3. /\ t \in Seq(Packet) /\ Len(t) = Len(q.buf) - 1
      /\ \A i \in 1 .. Len(t) : i + 1 \in 1 .. Len(q.buf) /\ t[i] = q.buf[i + 1]
  <2>1. t \in Seq(Packet) /\ Len(t) = Len(q.buf) - 1
    BY <1>1, <1>2
  <2>2. \A i \in 1 .. Len(t) : i + 1 \in 1 .. Len(q.buf)
    BY <1>2, <2>1
  <2>3. \A i \in 1 .. Len(t) : t[i] = q.buf[i + 1]
    BY <1>1, <1>2, <2>1
  <2> QED BY <2>1, <2>2, <2>3
<1> HIDE DEF t
<1>4. <<p>> \in Seq(Packet) /\ Len(<<p>>) = 1 /\ <<p>>[1] = p
  BY <1>2
<1>5. q.buf = <<p>> \o t
  <2> DEFINE u == <<p>> \o t
  <2>1. /\ u \in Seq(Packet) /\ Len(u) = Len(<<p>>) + Len(t)
        /\ \A i \in 1 .. Len(<<p>>) : u[i] = <<p>>[i]
        /\ \A i \in 1 .. Len(t) : u[Len(<<p>>) + i] = t[i]
    BY <1>3, <1>4, Joint, Zenon
  <2> HIDE DEF u
  <2>2. Len(u) = Len(q.buf) /\ u[1] = p /\ \A i \in 1 .. Len(t) : u[1 + i] = t[i]
    BY <1>2, <1>3, <1>4, <2>1
  <2>3. \A i \in 1 .. Len(q.buf) : u[i] = q.buf[i]
    <3> SUFFICES ASSUME NEW i \in 1 .. Len(q.buf) PROVE u[i] = q.buf[i]
      OBVIOUS
    <3>1. CASE i = 1
      BY <1>2, <2>2, <3>1
    <3>2. CASE i > 1
      <4>1. i - 1 \in 1 .. Len(t) /\ 1 + (i - 1) = i /\ (i - 1) + 1 = i
        BY <1>2, <1>3, <3>2
      <4>2. u[1 + (i - 1)] = t[i - 1] /\ t[i - 1] = q.buf[(i - 1) + 1]
        BY <1>3, <2>2, <4>1
      <4> QED BY <4>1, <4>2
    <3> QED BY <1>2, <3>1, <3>2
  <2> QED BY <1>1, <2>1, <2>2, <2>3, SeqEqual DEF u
<1>6. /\ Samples(t) \in Nat /\ p.samples \in Nat
      /\ q.samples = p.samples + Samples(t)
  <2>1. Samples(<<p>> \o t) = Samples(<<p>>) + Samples(t) /\ Samples(t) \in Nat
    BY <1>3, <1>4, SamplesOfBoth
  <2>2. Samples(<<p>>) = p.samples /\ p.samples \in Nat
    BY <1>2, SamplesOfOne, PacketIs
  <2> QED BY <1>1, <1>5, <2>1, <2>2
<1>7. rest = [q EXCEPT !.buf = t, !.samples = Samples(t), !.next = q.next + 1]
  <2>1. q.samples - Head(q.buf).samples = Samples(t)
    BY <1>6
  <2> QED BY <2>1 DEF Taken, t
<1>8. /\ rest \in Queue /\ rest.buf = t /\ rest.samples = Samples(t) /\ rest.next = q.next + 1
      /\ rest.decoded = q.decoded /\ rest.last = q.last /\ rest.heard = q.heard
  <2> DEFINE next == q.next + 1
             left == Samples(t)
  <2>1. next \in Nat /\ left \in Nat /\ t \in Seq(Packet) /\ q \in Queue
    BY <1>1, <1>3, <1>6
  <2>2. rest = [q EXCEPT !.buf = t, !.samples = left, !.next = next]
    BY <1>7
  <2> HIDE DEF next, left
  <2>3. /\ rest \in Queue /\ rest.buf = t /\ rest.samples = left /\ rest.next = next
        /\ rest.decoded = q.decoded /\ rest.last = q.last /\ rest.heard = q.heard
    BY <2>1, <2>2 DEF Queue
  <2> QED BY <2>3 DEF next, left
<1>9. /\ Ascends(t, q.next)
      /\ \A i \in 1 .. Len(t) : Distance(t[i].n, q.next) > 0
  <2> DEFINE D(i) == Distance(q.buf[i].n, q.next)
  <2>1. /\ \A i \in 1 .. Len(q.buf) : q.buf[i].n # 0 /\ D(i) \in Nat /\ D(i) <= MaxBufferPackets
        /\ \A i, j \in 1 .. Len(q.buf) : i < j => D(i) < D(j)
    BY <1>1, BufferIs DEF Ascends
  <2>2. \A i \in 1 .. Len(t) : t[i].n = q.buf[i + 1].n /\ Distance(t[i].n, q.next) = D(i + 1)
    BY <1>3
  <2> HIDE DEF D
  <2>3. \A i \in 1 .. Len(t) : i \in Nat /\ i + 1 \in 1 .. Len(q.buf) /\ 1 < i + 1
    BY <1>2, <1>3
  <2>4. \A i, j \in 1 .. Len(t) : i < j => D(i + 1) < D(j + 1)
    BY <2>1, <2>3
  <2>5. \A i \in 1 .. Len(t) : D(1) < D(i + 1) /\ D(1) \in Nat /\ D(i + 1) \in Nat
    BY <1>2, <2>1, <2>3
  <2>6. \A i \in 1 .. Len(t) : Distance(t[i].n, q.next) > 0
    BY <2>2, <2>5
  <2>7. \A i \in 1 .. Len(t) : t[i].n # 0 /\ Distance(t[i].n, q.next) <= MaxBufferPackets
    BY <2>1, <2>2, <2>3
  <2> QED BY <2>2, <2>4, <2>6, <2>7 DEF Ascends
<1>10. /\ Ascends(t, q.next + 1)
       /\ \A i \in 1 .. Len(t) : Distance(t[i].n, q.next + 1) = Distance(t[i].n, q.next) - 1
  BY <1>1, <1>3, <1>9, AscendsOn
<1> QED BY <1>2, <1>3, <1>5, <1>6, <1>8, <1>10

LEMMA DecodedFields ==
    ASSUME NEW q \in Queue, Ascends(q.buf, q.next), NEW p \in Packet, NEW fec
    PROVE  /\ Decoded(q, p, fec) \in Queue
           /\ p # NoPacket => /\ Decoded(q, p, fec).decoded = q.decoded + p.samples
                              /\ Decoded(q, p, fec).last = p.samples
           /\ p = NoPacket => /\ Decoded(q, p, fec).decoded = q.decoded + q.last
                              /\ Decoded(q, p, fec).last = q.last
           /\ Decoded(q, p, fec).buf = q.buf /\ Decoded(q, p, fec).samples = q.samples
           /\ Decoded(q, p, fec).next = q.next /\ Decoded(q, p, fec).heard = q.heard
<1> DEFINE r == Decoded(q, p, fec)
           size == IF p = NoPacket THEN q.last ELSE p.samples
<1>1. r = Decoded(q, p, fec) /\ size = IF p = NoPacket THEN q.last ELSE p.samples
  OBVIOUS
<1> HIDE DEF r, size
<1>2. /\ r \in Queue /\ size \in Nat
      /\ r.decoded = q.decoded + size /\ r.last = size
      /\ r.buf = q.buf /\ r.samples = q.samples /\ r.next = q.next /\ r.heard = q.heard
  BY <1>1, DecodedIs
<1> QED BY <1>2 DEF r, size

\* One packet, its correction or its concealment is decoded: the queue has decoded more,
\* and keeps its order.
LEMMA DecodedNextIs ==
    ASSUME NEW q, Counted(q), ~Stops(q), sent \in Nat, NEW r, r = DecodedNext[q]
    PROVE  Counted(r) /\ r.decoded = q.decoded + r.last /\ (Placed(q) => Placed(r))
<1>1. /\ q \in Queue /\ q.last # 0 /\ q.samples = Samples(q.buf) /\ Ascends(q.buf, q.next)
      /\ q.next \in Nat /\ q.buf \in Seq(Packet) /\ q.decoded \in Nat /\ q.last \in Nat /\ q.heard \in Nat
      /\ NoPacket \in Packet
  BY QueueIs, PacketIs DEF Counted
<1>2. CASE q.buf = << >>
  <2>1. r = Decoded(q, NoPacket, FALSE)
    BY <1>1, <1>2 DEF DecodedNext
  <2>2. /\ r \in Queue /\ r.decoded = q.decoded + q.last /\ r.last = q.last
        /\ r.buf = q.buf /\ r.samples = q.samples /\ r.next = q.next /\ r.heard = q.heard
    <3>1. q \in Queue /\ Ascends(q.buf, q.next) /\ NoPacket \in Packet
      BY <1>1
    <3> DEFINE d == Decoded(q, NoPacket, FALSE)
    <3>2. /\ d \in Queue /\ d.decoded = q.decoded + q.last /\ d.last = q.last
          /\ d.buf = q.buf /\ d.samples = q.samples /\ d.next = q.next /\ d.heard = q.heard
      BY <3>1, DecodedFields, Zenon
    <3> HIDE DEF d
    <3>3. r = d
      BY <2>1 DEF d
    <3> QED BY <3>2, <3>3
  <2>3. Counted(r)
    BY <1>1, <2>2 DEF Counted
  <2>4. Placed(q) => Placed(r)
    BY <2>2 DEF Placed
  <2> QED BY <2>2, <2>3, <2>4
<1>3. CASE q.buf # << >>
  <2> DEFINE p == Head(q.buf)
             rest == Taken(q)
  <2>1. /\ p \in Packet /\ p = q.buf[1] /\ p.n # 0 /\ p # NoPacket
        /\ rest \in Queue
        /\ rest.buf \in Seq(Packet) /\ q.buf = <<p>> \o rest.buf
        /\ Len(rest.buf) = Len(q.buf) - 1
        /\ \A i \in 1 .. Len(rest.buf) : i + 1 \in 1 .. Len(q.buf) /\ rest.buf[i] = q.buf[i + 1]
        /\ rest.samples = Samples(rest.buf) /\ rest.samples + p.samples = q.samples
        /\ rest.next = q.next + 1
        /\ rest.decoded = q.decoded /\ rest.last = q.last /\ rest.heard = q.heard
        /\ Ascends(rest.buf, rest.next)
        /\ \A i \in 1 .. Len(rest.buf) :
                Distance(rest.buf[i].n, rest.next) = Distance(rest.buf[i].n, q.next) - 1
    <3> HIDE DEF p, rest
    <3>1. p = Head(q.buf) /\ rest = Taken(q)
      BY DEF p, rest
    <3>2. p.n # 0 => p # NoPacket
      BY DEF NoPacket
    <3> QED BY <1>3, <3>1, <3>2, TakenIs
  <2>2. /\ Len(q.buf) \in Nat /\ 1 \in 1 .. Len(q.buf)
        /\ p.n \in Nat /\ p.samples \in Nat /\ p.samples # 0
    <3>1. Len(q.buf) \in Nat /\ 1 \in 1 .. Len(q.buf)
      BY <1>1, <1>3
    <3>2. ~IsEnd(p)
      BY <1>3 DEF Stops
    <3> QED BY <2>1, <3>1, <3>2, PacketIs DEF IsEnd
  <2>3. r = LET again == IF IdOf(p) = Id(rest.next) THEN Decoded(rest, p, TRUE)
                         ELSE Decoded(rest, NoPacket, FALSE)
            IN IF IdOf(p) = Id(q.next) THEN [Decoded(rest, p, FALSE) EXCEPT !.heard = p.n]
               ELSE [again EXCEPT !.buf = <<p>> \o @, !.samples = @ + p.samples]
    BY <1>1, <1>3 DEF DecodedNext
  <2>4. /\ Distance(p.n, q.next) \in Nat
        /\ IdOf(p) = Id(q.next) <=> Distance(p.n, q.next) = 0
    BY <1>1, <2>2, DistanceIs DEF IdOf
  <2> HIDE DEF p, rest
  <2>5. CASE IdOf(p) = Id(q.next)
    <3> DEFINE d == Decoded(rest, p, FALSE)
    <3>1. /\ d \in Queue /\ d.decoded = q.decoded + p.samples /\ d.last = p.samples
          /\ d.buf = rest.buf /\ d.samples = rest.samples /\ d.next = rest.next
      <4>1. rest \in Queue /\ Ascends(rest.buf, rest.next) /\ p \in Packet /\ p # NoPacket
        BY <2>1
      <4>2. /\ d \in Queue /\ d.decoded = rest.decoded + p.samples /\ d.last = p.samples
            /\ d.buf = rest.buf /\ d.samples = rest.samples /\ d.next = rest.next
        BY <4>1, DecodedFields, Zenon
      <4> QED BY <2>1, <4>2
    <3> HIDE DEF d
    <3>2. r = [d EXCEPT !.heard = p.n]
      BY <2>3, <2>5 DEF d
    <3>3. /\ r \in Queue /\ r.decoded = q.decoded + p.samples /\ r.last = p.samples
          /\ r.buf = rest.buf /\ r.samples = rest.samples /\ r.next = rest.next /\ r.heard = p.n
      BY <2>2, <3>1, <3>2 DEF Queue
    <3>4. Counted(r)
      BY <2>1, <2>2, <3>3 DEF Counted
    <3>5. ASSUME Placed(q) PROVE Placed(r)
      <4>1. p.n = q.next /\ p.n <= sent /\ FirstSent < q.next
        BY <1>1, <2>1, <2>2, <2>4, <2>5, <3>5 DEF Placed
      <4>2. ASSUME NEW i \in 1 .. Len(r.buf)
            PROVE  r.buf[i].n = r.next + Distance(r.buf[i].n, r.next) /\ r.buf[i].n <= sent
        <5>1. i + 1 \in 1 .. Len(q.buf) /\ r.buf[i] = q.buf[i + 1]
              /\ Distance(r.buf[i].n, r.next) = Distance(r.buf[i].n, q.next) - 1
          BY <2>1, <3>3
        <5>2. r.buf[i].n = q.next + Distance(r.buf[i].n, q.next) /\ r.buf[i].n <= sent
          BY <3>5, <5>1 DEF Placed
        <5>3. Distance(r.buf[i].n, q.next) \in Nat
          BY <1>1, <5>1, BufferIs
        <5>4. r.next = q.next + 1
          BY <2>1, <3>3
        <5> DEFINE far == Distance(r.buf[i].n, q.next)
                   near == Distance(r.buf[i].n, r.next)
        <5>5. r.buf[i].n = q.next + far /\ near = far - 1 /\ far \in Nat
          BY <5>1, <5>2, <5>3
        <5> HIDE DEF far, near
        <5>6. r.buf[i].n = r.next + near
          BY <1>1, <5>4, <5>5
        <5> QED BY <5>2, <5>6 DEF near
      <4>3. r.heard < r.next /\ r.next <= sent + 1 /\ FirstSent < r.next
        BY <1>1, <2>1, <3>3, <4>1, JitterAssumption
      <4> QED BY <4>2, <4>3 DEF Placed
    <3> QED BY <3>3, <3>4, <3>5
  <2>6. CASE IdOf(p) # Id(q.next)
    <3> DEFINE again == IF IdOf(p) = Id(rest.next) THEN Decoded(rest, p, TRUE)
                        ELSE Decoded(rest, NoPacket, FALSE)
               size == IF IdOf(p) = Id(rest.next) THEN p.samples ELSE q.last
    <3>1. /\ again \in Queue /\ again.decoded = q.decoded + size /\ again.last = size
          /\ again.buf = rest.buf /\ again.samples = rest.samples /\ again.next = rest.next
          /\ again.heard = q.heard
      <4>1. CASE IdOf(p) = Id(rest.next)
        <5>1. rest \in Queue /\ Ascends(rest.buf, rest.next) /\ p \in Packet /\ p # NoPacket
          BY <2>1
        <5>2. again = Decoded(rest, p, TRUE) /\ size = p.samples
          BY <4>1
        <5> HIDE DEF again, size
        <5>3. /\ again \in Queue /\ again.decoded = rest.decoded + p.samples /\ again.last = p.samples
              /\ again.buf = rest.buf /\ again.samples = rest.samples /\ again.next = rest.next
              /\ again.heard = rest.heard
          BY <5>1, <5>2, DecodedFields, Zenon
        <5> QED BY <2>1, <5>2, <5>3
      <4>2. CASE IdOf(p) # Id(rest.next)
        <5>1. rest \in Queue /\ Ascends(rest.buf, rest.next) /\ NoPacket \in Packet
          BY <1>1, <2>1
        <5>2. again = Decoded(rest, NoPacket, FALSE) /\ size = q.last
          BY <4>2
        <5> HIDE DEF again, size
        <5>3. /\ again \in Queue /\ again.decoded = rest.decoded + rest.last /\ again.last = rest.last
              /\ again.buf = rest.buf /\ again.samples = rest.samples /\ again.next = rest.next
              /\ again.heard = rest.heard
          BY <5>1, <5>2, DecodedFields, Zenon
        <5> QED BY <2>1, <5>2, <5>3
      <4> QED BY <4>1, <4>2
    <3>2. size \in Nat /\ size # 0
      BY <1>1, <2>2
    <3>3. r = [again EXCEPT !.buf = <<p>> \o @, !.samples = @ + p.samples]
      BY <2>3, <2>6
    <3> HIDE DEF again, size
    <3>4. /\ r \in Queue /\ r.decoded = q.decoded + size /\ r.last = size
          /\ r.buf = q.buf /\ r.samples = q.samples /\ r.next = rest.next /\ r.heard = q.heard
      <4>1. r = [again EXCEPT !.buf = q.buf, !.samples = q.samples]
        BY <2>1, <3>1, <3>3
      <4>2. q.samples \in Nat
        BY <1>1, QueueIs
      <4> QED BY <1>1, <3>1, <4>1, <4>2 DEF Queue
    <3>5. \A i \in 1 .. Len(q.buf) : Distance(q.buf[i].n, q.next) > 0
      <4> DEFINE D(i) == Distance(q.buf[i].n, q.next)
      <4>1. D(1) \in Nat /\ D(1) # 0
        BY <2>1, <2>4, <2>6
      <4>2. \A i \in 1 .. Len(q.buf) : D(i) \in Nat /\ (1 < i => D(1) < D(i))
        BY <1>1, <2>2, BufferIs DEF Ascends
      <4> HIDE DEF D
      <4>3. \A i \in 1 .. Len(q.buf) : i = 1 \/ 1 < i
        BY <2>2
      <4>4. \A i \in 1 .. Len(q.buf) : D(i) > 0
        BY <4>1, <4>2, <4>3
      <4> QED BY <4>4 DEF D
    <3>6. /\ Ascends(q.buf, q.next + 1)
          /\ \A i \in 1 .. Len(q.buf) :
                Distance(q.buf[i].n, q.next + 1) = Distance(q.buf[i].n, q.next) - 1
      BY <1>1, <3>5, AscendsOn
    <3>7. Counted(r)
      BY <1>1, <2>1, <3>2, <3>4, <3>6 DEF Counted
    <3>8. ASSUME Placed(q) PROVE Placed(r)
      <4>1. p.n = q.next + Distance(p.n, q.next) /\ p.n <= sent
        BY <2>1, <2>2, <3>8 DEF Placed
      <4>2. q.heard < q.next /\ FirstSent < q.next
        BY <3>8 DEF Placed
      <4>3. Distance(p.n, q.next) > 0
        BY <2>4, <2>6
      <4>4. r.heard < r.next /\ r.next <= sent + 1 /\ FirstSent < r.next
        BY <1>1, <2>1, <2>2, <2>4, <3>4, <4>1, <4>2, <4>3, JitterAssumption
      <4>5. ASSUME NEW i \in 1 .. Len(r.buf)
            PROVE  r.buf[i].n = r.next + Distance(r.buf[i].n, r.next) /\ r.buf[i].n <= sent
        <5>1. i \in 1 .. Len(q.buf) /\ r.buf[i] = q.buf[i]
          BY <3>4
        <5>2. q.buf[i].n = q.next + Distance(q.buf[i].n, q.next) /\ q.buf[i].n <= sent
          BY <3>8, <5>1 DEF Placed
        <5>3. Distance(q.buf[i].n, q.next) \in Nat
          BY <1>1, <5>1, BufferIs
        <5>4. Distance(q.buf[i].n, r.next) = Distance(q.buf[i].n, q.next) - 1
          BY <2>1, <3>4, <3>6, <5>1
        <5>5. r.next = q.next + 1
          BY <2>1, <3>4
        <5> DEFINE far == Distance(q.buf[i].n, q.next)
                   near == Distance(q.buf[i].n, r.next)
        <5>6. q.buf[i].n = q.next + far /\ near = far - 1 /\ far \in Nat
          BY <5>2, <5>3, <5>4
        <5> HIDE DEF far, near
        <5>7. q.buf[i].n = r.next + near
          BY <1>1, <5>5, <5>6
        <5> QED BY <5>1, <5>2, <5>7 DEF near
      <4> QED BY <4>4, <4>5 DEF Placed
    <3> QED BY <3>4, <3>7, <3>8
  <2> QED BY <2>5, <2>6
<1> QED BY <1>2, <1>3

LEMMA Part ==
    ASSUME NEW a \in Nat, NEW b \in Nat, a # 0, b >= 2
    PROVE  a \div b \in Nat /\ a \div b < a
<1> DEFINE x == a \div b
<1>1. x \in Nat /\ b * x <= a
  OBVIOUS
<1> HIDE DEF x
<1>2. b * x >= 2 * x
  BY <1>1
<1> QED BY <1>1, <1>2 DEF x

\* What is left out to catch up is less than what was decoded, and what is left is in order.
LEMMA CaughtUpIs ==
    ASSUME NEW q, Counted(q), q.decoded >= q.last, sent \in Nat, NEW r, r = CaughtUp[q]
    PROVE  Counted(r) /\ r.decoded > q.decoded - q.last /\ (Placed(q) => Placed(r))
<1>1. /\ q \in Queue /\ q.last # 0 /\ q.samples = Samples(q.buf) /\ Ascends(q.buf, q.next)
      /\ q.next \in Nat /\ q.buf \in Seq(Packet) /\ q.decoded \in Nat /\ q.last \in Nat /\ q.heard \in Nat
  BY QueueIs DEF Counted
<1>2. \/ r = Truncated(q)
      \/ r = [q EXCEPT !.decoded = @ - q.last \div SpeedChangeSteps]
      \/ r = q
  BY <1>1 DEF CaughtUp
<1>3. CASE r = q
  BY <1>1, <1>3
<1>4. CASE r = [q EXCEPT !.decoded = @ - q.last \div SpeedChangeSteps]
  <2> DEFINE less == q.last \div SpeedChangeSteps
             rest == q.decoded - less
  <2>1. less \in Nat /\ less < q.last
    BY <1>1, Part, JitterAssumption
  <2> HIDE DEF less
  <2>2. rest \in Nat /\ rest > q.decoded - q.last
    BY <1>1, <2>1
  <2>3. r = [q EXCEPT !.decoded = rest]
    BY <1>4 DEF less
  <2> HIDE DEF rest
  <2>4. /\ r \in Queue /\ r.decoded = rest /\ r.last = q.last /\ r.buf = q.buf
        /\ r.samples = q.samples /\ r.next = q.next /\ r.heard = q.heard
    BY <1>1, <2>2, <2>3 DEF Queue
  <2>5. Counted(r)
    BY <1>1, <2>4 DEF Counted
  <2>6. Placed(q) => Placed(r)
    BY <2>4 DEF Placed
  <2> QED BY <2>2, <2>4, <2>5, <2>6
<1>5. CASE r = Truncated(q)
  <2> DEFINE Tails(k) == SubSeq(q.buf, Len(q.buf) - k + 1, Len(q.buf))
             K == {k \in 0 .. Len(q.buf) : k = 0 \/ Samples(Tails(k)) < Least(q) + Usual}
             m == Max(K)
             kept == Tails(m)
             next == IF kept = << >> THEN q.next ELSE Head(kept).n
  <2>0. Len(q.buf) \in Nat
    BY <1>1
  <2>1. m \in 0 .. Len(q.buf)
    <3>1. K \in SUBSET Nat /\ K # {} /\ \A k \in K : k <= Len(q.buf)
      BY <2>0
    <3>2. m \in K
      <4> HIDE DEF K
      <4> QED BY <2>0, <3>1, MaxIsGreatest
    <3> HIDE DEF m
    <3> QED BY <3>2
  <2>2. r = [q EXCEPT !.buf = kept, !.samples = Samples(kept), !.next = next]
    BY <1>5 DEF Truncated
  <2> HIDE DEF K, m
  <2>3. kept = SubSeq(q.buf, Len(q.buf) - m + 1, Len(q.buf))
    OBVIOUS
  <2> HIDE DEF kept
  <2>4. /\ kept \in Seq(Packet) /\ Len(kept) = m
        /\ \A i \in 1 .. m : Len(q.buf) - m + i \in 1 .. Len(q.buf)
                             /\ kept[i] = q.buf[Len(q.buf) - m + i]
        /\ Ascends(kept, q.next)
        /\ \A h \in Nat : m > 0 /\ h = kept[1].n =>
                /\ Ascends(kept, h)
                /\ \A i \in 1 .. m : Distance(kept[i].n, h)
                                       = Distance(kept[i].n, q.next) - Distance(h, q.next)
    <3>1. q.buf \in Seq(Packet) /\ q.next \in Nat /\ Ascends(q.buf, q.next)
      BY <1>1
    <3>2. EndOf(q.buf, q.next, m, kept)
      BY <3>1, <2>1, <2>3, Suffix
    <3> QED BY <3>2 DEF EndOf
  <2>5. \/ kept = << >> /\ next = q.next
        \/ m > 0 /\ 1 \in 1 .. m /\ next = kept[1].n /\ next \in Nat
    <3>1. CASE kept = << >>
      BY <3>1
    <3>2. CASE kept # << >>
      <4>1. Len(kept) > 0 /\ Head(kept) = kept[1]
        BY <2>4, <3>2
      <4>2. m > 0 /\ 1 \in 1 .. m /\ kept[1] \in Packet
        BY <2>0, <2>1, <2>4, <4>1
      <4> QED BY <3>2, <4>1, <4>2, PacketIs
    <3> QED BY <3>1, <3>2
  <2>6. Ascends(kept, next) /\ next \in Nat
    BY <1>1, <2>4, <2>5
  <2> HIDE DEF next
  <2> DEFINE left == Samples(kept)
  <2>7. left \in Nat
    BY <2>4, SamplesOfBoth
  <2> HIDE DEF left
  <2>8. /\ r \in Queue /\ r.decoded = q.decoded /\ r.last = q.last /\ r.buf = kept
        /\ r.samples = left /\ r.next = next /\ r.heard = q.heard
    <3>1. r = [q EXCEPT !.buf = kept, !.samples = left, !.next = next]
      BY <2>2 DEF left
    <3> QED BY <1>1, <2>4, <2>6, <2>7, <3>1 DEF Queue
  <2>9. Counted(r)
    BY <1>1, <2>6, <2>8 DEF Counted, left
  <2>10. ASSUME Placed(q) PROVE Placed(r)
    <3>1. \A i \in 1 .. m : /\ kept[i].n = q.next + Distance(kept[i].n, q.next) /\ kept[i].n <= sent
                            /\ Distance(kept[i].n, q.next) \in Nat
      <4> SUFFICES ASSUME NEW i \in 1 .. m
                   PROVE  /\ kept[i].n = q.next + Distance(kept[i].n, q.next) /\ kept[i].n <= sent
                          /\ Distance(kept[i].n, q.next) \in Nat
        OBVIOUS
      <4> DEFINE j == Len(q.buf) - m + i
      <4>1. j \in 1 .. Len(q.buf) /\ kept[i] = q.buf[j]
        BY <2>4
      <4> HIDE DEF j
      <4>2. q.buf[j].n = q.next + Distance(q.buf[j].n, q.next) /\ q.buf[j].n <= sent
            /\ Distance(q.buf[j].n, q.next) \in Nat
        BY <1>1, <2>10, <4>1, BufferIs DEF Placed
      <4> QED BY <4>1, <4>2
    <3>2. q.heard < q.next /\ q.next <= sent + 1 /\ FirstSent < q.next
      BY <2>10 DEF Placed
    <3>3. CASE kept = << >> /\ next = q.next
      <4>1. Len(r.buf) = 0
        BY <2>8, <3>3
      <4> QED BY <2>8, <3>2, <3>3, <4>1 DEF Placed
    <3>4. CASE m > 0 /\ 1 \in 1 .. m /\ next = kept[1].n /\ next \in Nat
      <4>1. q.next <= next /\ next <= sent /\ next = q.next + Distance(next, q.next)
            /\ Distance(next, q.next) \in Nat
        <5>1. /\ kept[1].n = q.next + Distance(kept[1].n, q.next) /\ kept[1].n <= sent
              /\ Distance(kept[1].n, q.next) \in Nat
          BY <3>1, <3>4
        <5>2. next = q.next + Distance(next, q.next) /\ next <= sent /\ Distance(next, q.next) \in Nat
          BY <3>4, <5>1
        <5> QED BY <1>1, <5>2
      <4>2. r.heard < r.next /\ r.next <= sent + 1 /\ FirstSent < r.next
        BY <1>1, <2>8, <3>2, <3>4, <4>1, JitterAssumption
      <4>3. ASSUME NEW i \in 1 .. Len(r.buf)
            PROVE  r.buf[i].n = r.next + Distance(r.buf[i].n, r.next) /\ r.buf[i].n <= sent
        <5> DEFINE far == Distance(kept[i].n, q.next)
                   near == Distance(kept[i].n, next)
                   step == Distance(next, q.next)
        <5>1. i \in 1 .. m /\ r.buf[i] = kept[i]
          BY <2>4, <2>8
        <5>2. near = far - step
          BY <2>4, <3>4, <5>1
        <5>3. kept[i].n = q.next + far /\ kept[i].n <= sent /\ far \in Nat
          BY <3>1, <5>1
        <5>4. next = q.next + step /\ step \in Nat
          BY <4>1
        <5> HIDE DEF far, near, step
        <5>5. kept[i].n = next + near
          BY <1>1, <5>2, <5>3, <5>4
        <5> QED BY <2>8, <5>1, <5>3, <5>5 DEF near
      <4> QED BY <4>2, <4>3 DEF Placed
    <3> QED BY <2>5, <3>3, <3>4
  <2> QED BY <1>1, <2>8, <2>9, <2>10
<1> QED BY <1>2, <1>3, <1>4, <1>5

LEMMA NoQueueIs == NoQueue \in Queue
<1>1. << >> \in Seq(Packet) /\ << >> \in Seq(Nat)
  OBVIOUS
<1> QED BY <1>1 DEF NoQueue, Queue

LEMMA RoundIs ==
    ASSUME NEW q, q = NoQueue \/ Counted(q), sent \in Nat, NEW r, r = Round[q]
    PROVE  \/ r = NoQueue
           \/ /\ Counted(r) /\ q # NoQueue
              /\ r.decoded >= Frame \/ r.decoded > q.decoded
              /\ Placed(q) => Placed(r)
<1>1. q \in Queue
  BY NoQueueIs DEF Counted
<1>2. r = IF q = NoQueue \/ q.decoded >= Frame THEN q
          ELSE IF Stops(q) THEN NoQueue
          ELSE CaughtUp[DecodedNext[q]]
  BY <1>1 DEF Round
<1>3. CASE q = NoQueue
  BY <1>2, <1>3
<1>4. CASE q # NoQueue /\ q.decoded >= Frame
  BY <1>2, <1>4
<1>5. CASE q # NoQueue /\ ~(q.decoded >= Frame) /\ Stops(q)
  BY <1>2, <1>5
<1>6. CASE q # NoQueue /\ ~(q.decoded >= Frame) /\ ~Stops(q)
  <2> DEFINE d == DecodedNext[q]
  <2>1. r = CaughtUp[d] /\ d = DecodedNext[q]
    BY <1>2, <1>6
  <2> HIDE DEF d
  <2>2. Counted(d) /\ d.decoded = q.decoded + d.last /\ (Placed(q) => Placed(d))
    BY <1>6, <2>1, DecodedNextIs
  <2>3. q.decoded \in Nat /\ d.last \in Nat
    BY <1>1, <2>2, QueueIs DEF Counted
  <2>4. d.decoded >= d.last
    BY <2>2, <2>3
  <2>5. Counted(r) /\ r.decoded > d.decoded - d.last /\ (Placed(d) => Placed(r))
    BY <2>1, <2>2, <2>4, CaughtUpIs
  <2>6. r.decoded > q.decoded
    BY <2>2, <2>3, <2>5
  <2> QED BY <1>6, <2>2, <2>5, <2>6
<1> QED BY <1>3, <1>4, <1>5, <1>6

\* The rounds of the loop of get_next_data.
LEMMA AfterSteps ==
    ASSUME NEW q
    PROVE  \E after :
              /\ after = [k \in 0 .. Frame |-> IF k = 0 THEN q ELSE Round[after[k - 1]]]
              /\ NextData(q) = IF after[Frame] = NoQueue THEN NoQueue
                               ELSE [after[Frame] EXCEPT !.decoded = @ - Frame]
<1> DEFINE G == {n \in Nat : \E after :
                    after = [k \in 0 .. n |-> IF k = 0 THEN q ELSE Round[after[k - 1]]]}
<1>1. 0 \in G
  <2> DEFINE after == [k \in 0 .. 0 |-> q]
  <2>1. after = [k \in 0 .. 0 |-> IF k = 0 THEN q ELSE Round[after[k - 1]]]
    OBVIOUS
  <2> HIDE DEF after
  <2> QED BY <2>1
<1>2. \A n \in Nat : n \in G => n + 1 \in G
  <2> SUFFICES ASSUME NEW n \in Nat, n \in G PROVE n + 1 \in G
    OBVIOUS
  <2>1. PICK before : before = [k \in 0 .. n |-> IF k = 0 THEN q ELSE Round[before[k - 1]]]
    OBVIOUS
  <2> HIDE DEF G
  <2> DEFINE after == [k \in 0 .. (n + 1) |-> IF k = 0 THEN q ELSE Round[before[k - 1]]]
  <2>2. \A k \in 0 .. n : after[k] = before[k]
    BY <2>1
  <2>3. \A k \in 0 .. (n + 1) : k # 0 => after[k - 1] = before[k - 1]
    <3> HIDE DEF after
    <3> QED BY <2>2
  <2>4. after = [k \in 0 .. (n + 1) |-> IF k = 0 THEN q ELSE Round[after[k - 1]]]
    <3>1. \A k \in 0 .. (n + 1) : (IF k = 0 THEN q ELSE Round[before[k - 1]])
                                    = IF k = 0 THEN q ELSE Round[after[k - 1]]
      <4> HIDE DEF after
      <4> QED BY <2>3, Zenon
    <3> QED BY <3>1, Zenon
  <2> HIDE DEF after
  <2> QED BY <2>4 DEF G
<1>3. Frame \in G
  <2> HIDE DEF G
  <2> QED BY <1>1, <1>2, Induction, JitterAssumption
<1> DEFINE Loop(after) == after = [k \in 0 .. Frame |-> IF k = 0 THEN q ELSE Round[after[k - 1]]]
           last == CHOOSE after : Loop(after)
<1>4. Loop(last)
  BY <1>3
<1>5. NextData(q) = IF last[Frame] = NoQueue THEN NoQueue
                    ELSE [last[Frame] EXCEPT !.decoded = @ - Frame]
  BY DEF NextData
<1> QED BY <1>4, <1>5

LEMMA NextDataIs ==
    ASSUME NEW q, Counted(q), sent \in Nat, NEW r, r = NextData(q)
    PROVE  \/ r = NoQueue
           \/ Counted(r) /\ (Placed(q) => Placed(r))
<1>1. PICK after :
         /\ after = [k \in 0 .. Frame |-> IF k = 0 THEN q ELSE Round[after[k - 1]]]
         /\ NextData(q) = IF after[Frame] = NoQueue THEN NoQueue
                          ELSE [after[Frame] EXCEPT !.decoded = @ - Frame]
  BY AfterSteps
<1> DEFINE Good(k) == \/ after[k] = NoQueue
                      \/ /\ Counted(after[k])
                         /\ after[k].decoded >= Frame \/ after[k].decoded >= k
                         /\ Placed(q) => Placed(after[k])
           G == {k \in Nat : k <= Frame => Good(k)}
<1>2. Frame \in Nat
  BY JitterAssumption
<1>3. after[0] = q /\ \A k \in Nat : k + 1 <= Frame => after[k + 1] = Round[after[k]]
  BY <1>1, <1>2
<1>4. 0 \in G
  <2>1. q.decoded \in Nat
    BY QueueIs DEF Counted
  <2> QED BY <1>3, <2>1
<1>5. \A k \in Nat : k \in G => k + 1 \in G
  <2> SUFFICES ASSUME NEW k \in Nat, k + 1 <= Frame, Good(k) PROVE Good(k + 1)
    BY <1>2
  <2> DEFINE p == after[k]
             s == after[k + 1]
  <2>1. s = Round[p]
    BY <1>3
  <2>2. \/ p = NoQueue
        \/ /\ Counted(p) /\ (p.decoded >= Frame \/ p.decoded >= k)
           /\ Placed(q) => Placed(p)
    OBVIOUS
  <2>9. p = NoQueue \/ Counted(p)
    OBVIOUS
  <2> HIDE DEF p, s
  <2>3. \/ s = NoQueue
        \/ /\ Counted(s) /\ p # NoQueue
           /\ s.decoded >= Frame \/ s.decoded > p.decoded
           /\ Placed(p) => Placed(s)
    BY <2>1, <2>9, RoundIs
  <2>4. CASE s = NoQueue
    BY <2>4 DEF s
  <2>5. CASE s # NoQueue
    <3>1. Counted(s) /\ Counted(p)
      BY <2>3, <2>5, <2>9
    <3>2. s.decoded \in Nat /\ p.decoded \in Nat
      BY <3>1, QueueIs DEF Counted
    <3>3. p.decoded >= Frame \/ p.decoded >= k
      BY <2>3, <2>5 DEF p
    <3>4. Placed(q) => Placed(s)
      BY <2>3, <2>5 DEF p
    <3>5. s.decoded >= Frame \/ s.decoded > p.decoded
      BY <2>3, <2>5
    <3>6. s.decoded >= Frame \/ s.decoded >= k + 1
      BY <1>2, <3>2, <3>3, <3>5
    <3> QED BY <3>1, <3>4, <3>6 DEF s
  <2> QED BY <2>4, <2>5
<1>6. Good(Frame)
  <2>1. \A k \in Nat : k \in G
    <3> HIDE DEF G
    <3> QED BY <1>4, <1>5, Induction
  <2> QED BY <1>2, <2>1
<1> DEFINE l == after[Frame]
<1>7. \/ l = NoQueue
      \/ Counted(l) /\ l.decoded >= Frame /\ (Placed(q) => Placed(l))
  BY <1>2, <1>6
<1>8. r = IF l = NoQueue THEN NoQueue ELSE [l EXCEPT !.decoded = @ - Frame]
  BY <1>1
<1> HIDE DEF l
<1>9. CASE l = NoQueue
  BY <1>8, <1>9
<1>10. CASE l # NoQueue
  <2>1. Counted(l) /\ l.decoded >= Frame /\ (Placed(q) => Placed(l)) /\ l \in Queue /\ l.decoded \in Nat
    BY <1>7, <1>10, QueueIs DEF Counted
  <2> DEFINE rest == l.decoded - Frame
  <2>2. rest \in Nat
    BY <1>2, <2>1
  <2>3. r = [l EXCEPT !.decoded = rest]
    BY <1>8, <1>10
  <2> HIDE DEF rest
  <2>4. /\ r \in Queue /\ r.last = l.last /\ r.buf = l.buf /\ r.samples = l.samples
        /\ r.next = l.next /\ r.heard = l.heard
    BY <2>1, <2>2, <2>3 DEF Queue
  <2>5. Counted(r)
    BY <2>1, <2>4 DEF Counted
  <2>6. Placed(l) => Placed(r)
    BY <2>4 DEF Placed
  <2> QED BY <2>1, <2>5, <2>6
<1> QED BY <1>9, <1>10

\* Whatever is not the number of a packet is another distance.
LEMMA SameDistance ==
    ASSUME NEW a \in Nat, NEW b \in Nat, NEW c \in Nat, Distance(a, c) = Distance(b, c)
    PROVE  Id(a) = Id(b)
<1>1. Distance(a, c) \in Nat
  BY DistanceIs
<1>2. Distance(a, b) = IF Distance(a, c) >= Distance(b, c)
                       THEN Distance(a, c) - Distance(b, c)
                       ELSE Distance(a, c) - Distance(b, c) + Ids
  BY BetweenIs
<1>3. Distance(a, b) = 0
  BY <1>1, <1>2
<1> QED BY <1>3, DistanceIs

\* A packet that is taken in: the buffer has it where it belongs.
LEMMA WithPacketIs ==
    ASSUME NEW q, Counted(q), NEW p \in Packet, p.n # 0,
           Distance(p.n, q.next) <= MaxBufferPackets,
           AtOrAfter(q, p) > 0 => IdOf(q.buf[Len(q.buf) - AtOrAfter(q, p) + 1]) # IdOf(p),
           NEW r, r = WithPacket(q, p)
    PROVE  /\ Counted(r)
           /\ Placed(q) /\ p.n = q.next + Distance(p.n, q.next) /\ p.n <= sent => Placed(r)
<1> DEFINE k == AtOrAfter(q, p)
           D(i) == Distance(q.buf[i].n, q.next)
           d == Distance(p.n, q.next)
           new == InsertAt(q.buf, Len(q.buf) - k + 1, p)
           awaited == Awaited(q, p)
           more == q.samples + p.samples
<1>1. /\ q \in Queue /\ q.last # 0 /\ q.samples = Samples(q.buf) /\ Ascends(q.buf, q.next)
      /\ q.next \in Nat /\ q.buf \in Seq(Packet) /\ q.samples \in Nat /\ q.last \in Nat
      /\ q.buffering \in Nat
  BY QueueIs DEF Counted
<1>2. p.n \in Nat /\ p.samples \in Nat /\ Len(q.buf) \in Nat
  BY <1>1, PacketIs
<1>3. /\ k \in 0 .. Len(q.buf)
      /\ \A i \in 1 .. Len(q.buf) :
            /\ i <= Len(q.buf) - k => D(i) < d
            /\ i > Len(q.buf) - k => D(i) >= d
  BY <1>1, AtOrAfterIs
<1>4. /\ d \in Nat /\ d <= MaxBufferPackets
      /\ \A i \in 1 .. Len(q.buf) : D(i) \in Nat
      /\ \A i, j \in 1 .. Len(q.buf) : i < j => D(i) < D(j)
  BY <1>1, <1>2, BufferIs, DistanceIs DEF Ascends
<1>5. \A i \in 1 .. Len(q.buf) : i > Len(q.buf) - k => D(i) > d
  <2> DEFINE f == Len(q.buf) - k + 1
  <2>1. CASE k = 0
    BY <1>2, <2>1
  <2>2. CASE k > 0
    <3>1. f \in 1 .. Len(q.buf) /\ f > Len(q.buf) - k
      BY <1>2, <1>3, <2>2
    <3>2. D(f) # d
      <4>1. q.buf[f].n \in Nat
        BY <1>1, <3>1, BufferIs
      <4>2. Id(q.buf[f].n) # Id(p.n)
        BY <2>2 DEF IdOf
      <4> QED BY <1>1, <1>2, <4>1, <4>2, SameDistance
    <3>3. \A i \in 1 .. Len(q.buf) : i > Len(q.buf) - k => i = f \/ f < i
      BY <1>2, <1>3
    <3> HIDE DEF D, d, f, k
    <3>4. D(f) > d
      BY <1>3, <1>4, <3>1, <3>2
    <3> QED BY <1>3, <1>4, <3>1, <3>3, <3>4
  <2> QED BY <1>3, <2>1, <2>2
<1>6. /\ new \in Seq(Packet) /\ new # << >>
      /\ Ascends(new, q.next)
      /\ Samples(new) = Samples(q.buf) + p.samples
      /\ \A i \in 1 .. Len(new) : new[i] = p \/ \E j \in 1 .. Len(q.buf) : new[i] = q.buf[j]
  <2>1. new = InsertAt(q.buf, Len(q.buf) - k + 1, p)
    OBVIOUS
  <2>2. \A i \in 1 .. Len(q.buf) :
            /\ i <= Len(q.buf) - k => Distance(q.buf[i].n, q.next) < Distance(p.n, q.next)
            /\ i > Len(q.buf) - k => Distance(q.buf[i].n, q.next) > Distance(p.n, q.next)
    BY <1>3, <1>5
  <2>3. q.buf \in Seq(Packet) /\ q.next \in Nat /\ Ascends(q.buf, q.next) /\ k \in 0 .. Len(q.buf)
    BY <1>1, <1>3
  <2>4. Distance(p.n, q.next) <= MaxBufferPackets
    OBVIOUS
  <2> HIDE DEF new, k
  <2>5. HasTaken(q.buf, q.next, p, new)
    BY <2>1, <2>2, <2>3, <2>4, InsertAscends
  <2> QED BY <2>5 DEF HasTaken
<1>7. awaited \in Nat
  <2> DEFINE expected == IF q.buf = << >> THEN IdOf(p) ELSE (IdOf(Last(q.buf)) + 1) % Ids
             gap == (IdOf(p) - expected) * q.last
  <2>1. IdOf(p) \in Nat /\ expected \in Nat
    <3>1. IdOf(p) \in Nat
      <4>1. Id(p.n) \in 0 .. (Ids - 1)
        BY <1>2, Split
      <4> QED BY <4>1, IdsAssumption DEF IdOf
    <3>2. CASE q.buf # << >>
      <4>1. q.buf[Len(q.buf)].n \in Nat
        <5>1. Len(q.buf) \in 1 .. Len(q.buf)
          BY <1>1, <1>2, <3>2
        <5> QED BY <1>1, <5>1, BufferIs
      <4>2. Id(q.buf[Len(q.buf)].n) \in 0 .. (Ids - 1)
        BY <4>1, Split
      <4>3. IdOf(Last(q.buf)) \in Nat
        BY <4>2, IdsAssumption DEF IdOf, Last
      <4> QED BY <3>1, <4>3, IdsAssumption
    <3> QED BY <3>1, <3>2
  <2>2. gap \in Int
    BY <1>1, <2>1
  <2>3. p.samples + gap \in Int
    BY <1>2, <2>2
  <2>4. awaited = IF expected <= IdOf(p) THEN Monus(q.buffering, p.samples + gap) ELSE q.buffering
    BY DEF Awaited
  <2> HIDE DEF gap, expected, awaited
  <2> QED BY <1>1, <2>3, <2>4 DEF Monus
<1> HIDE DEF k, D, d, new, awaited
<1>8. r = [q EXCEPT !.buf = new, !.samples = more, !.buffering = awaited]
  BY DEF WithPacket, new, k, awaited
<1>9. more \in Nat
  BY <1>1, <1>2
<1> HIDE DEF more
<1>10. /\ r \in Queue /\ r.buf = new /\ r.samples = more /\ r.next = q.next /\ r.last = q.last
       /\ r.heard = q.heard
  BY <1>1, <1>6, <1>7, <1>8, <1>9 DEF Queue
<1>11. Counted(r)
  BY <1>1, <1>6, <1>10 DEF Counted, more
<1>12. ASSUME Placed(q), p.n = q.next + Distance(p.n, q.next), p.n <= sent PROVE Placed(r)
  <2>1. ASSUME NEW i \in 1 .. Len(r.buf)
        PROVE  r.buf[i].n = r.next + Distance(r.buf[i].n, r.next) /\ r.buf[i].n <= sent
    <3>1. new[i] = p \/ \E j \in 1 .. Len(q.buf) : new[i] = q.buf[j]
      BY <1>6, <1>10
    <3>2. CASE new[i] = p
      BY <1>10, <1>12, <3>2
    <3>3. CASE \E j \in 1 .. Len(q.buf) : new[i] = q.buf[j]
      BY <1>10, <1>12, <3>3 DEF Placed
    <3> QED BY <3>1, <3>2, <3>3
  <2>2. r.heard < r.next /\ r.next <= sent + 1 /\ FirstSent < r.next
    BY <1>10, <1>12 DEF Placed
  <2> QED BY <2>1, <2>2 DEF Placed
<1> QED BY <1>11, <1>12

\* A new queue has its first packet.
LEMMA NewQueueIs ==
    ASSUME NEW p \in Packet, p.n # 0, ~IsEnd(p), NEW buffering \in Nat,
           NEW r, r = NewQueue(p, buffering)
    PROVE  /\ Counted(r)
           /\ sent \in Nat /\ p.n <= sent /\ FirstSent < p.n => Placed(r)
<1> DEFINE size == 2 * p.samples
           q == [NoQueue EXCEPT !.next = p.n, !.last = size, !.sizes = <<0>>]
           w == WithPacket(q, p)
<1>1. /\ p.n \in Nat /\ p.samples \in Nat /\ size \in Nat /\ size # 0
      /\ <<0>> \in Seq(Nat) /\ << >> \in Seq(Packet)
  BY PacketIs DEF IsEnd
<1>2. /\ q \in Queue /\ q.next = p.n /\ q.last = size /\ q.buf = << >> /\ q.samples = 0
      /\ q.heard = 0
  <2> HIDE DEF size
  <2> QED BY <1>1 DEF NoQueue, Queue
<1> HIDE DEF q, size
<1>3. Ascends(<< >>, p.n)
  <2>1. 1 .. Len(<< >>) = {}
    OBVIOUS
  <2> QED BY <2>1 DEF Ascends
<1>4. Counted(q)
  BY <1>1, <1>2, <1>3, SamplesOfOne DEF Counted
<1>5. Distance(p.n, p.n) = 0 /\ MaxBufferPackets \in Nat
  BY <1>1, DistanceIs, JitterAssumption
<1>6. AtOrAfter(q, p) \in 0 .. Len(<< >>)
  <2>1. Distance(p.n, p.n) <= MaxBufferPackets
    BY <1>5
  <2> QED BY <1>1, <1>2, <1>3, <2>1, AtOrAfterIs
<1>7. ~(AtOrAfter(q, p) > 0)
  BY <1>6
<1>8. w = WithPacket(q, p)
  OBVIOUS
<1> HIDE DEF w
<1>9. /\ Counted(w)
      /\ Placed(q) /\ p.n = q.next + Distance(p.n, q.next) /\ p.n <= sent => Placed(w)
  <2>1. Distance(p.n, q.next) <= MaxBufferPackets
    BY <1>2, <1>5
  <2> QED BY <1>4, <1>7, <1>8, <2>1, WithPacketIs
<1>10. r = [w EXCEPT !.buffering = buffering]
  BY DEF NewQueue, w, q, size
<1>11. /\ r \in Queue /\ r.next = w.next /\ r.last = w.last /\ r.buf = w.buf
       /\ r.samples = w.samples /\ r.heard = w.heard
  BY <1>9, <1>10 DEF Counted, Queue
<1>12. Counted(r)
  BY <1>9, <1>11 DEF Counted
<1>13. ASSUME sent \in Nat, p.n <= sent, FirstSent < p.n PROVE Placed(r)
  <2>1. Placed(q)
    <3>1. 1 .. Len(q.buf) = {}
      BY <1>2
    <3>2. q.heard < q.next /\ q.next <= sent + 1 /\ FirstSent < q.next
      BY <1>1, <1>2, <1>13
    <3> QED BY <3>1, <3>2 DEF Placed
  <2>2. p.n = q.next + Distance(p.n, q.next)
    BY <1>1, <1>2, <1>5
  <2>3. Placed(w)
    BY <1>9, <1>13, <2>1, <2>2
  <2> QED BY <1>11, <2>3 DEF Placed
<1> QED BY <1>12, <1>13

\* What may still arrive are the last packets that were sent, in their order.
Underway ==
    /\ sent \in Nat /\ FirstSent <= sent /\ sent <= FirstSent + MaxSent
    /\ arriving \in Seq(Packet)
    /\ Len(arriving) <= Reach /\ Len(arriving) <= sent - FirstSent
    /\ \A i \in 1 .. Len(arriving) : arriving[i].n = sent - Len(arriving) + i

\* The inductive invariant of the counts, and that of the order.
Counting == Underway /\ (talker = NoQueue \/ Counted(talker))
Placing == talker # NoQueue => Placed(talker)

\* The queue is never a whole round of numbers behind what is sent.
Recent == talker # NoQueue => sent < talker.next + Ids

LEMMA ArrivingIs ==
    ASSUME Underway, NEW p \in ToSet(arriving)
    PROVE  /\ p \in Packet /\ p.n \in Nat /\ p.n # 0
           /\ FirstSent < p.n /\ p.n <= sent /\ sent < p.n + Reach
<1>1. PICK i \in 1 .. Len(arriving) : p = arriving[i]
  BY DEF ToSet, Underway
<1>2. Len(arriving) \in Nat /\ arriving[i] \in Packet
  BY <1>1 DEF Underway
<1>3. p.n = sent - Len(arriving) + i
  BY <1>1 DEF Underway
<1>4. sent \in Nat /\ Len(arriving) <= Reach /\ Len(arriving) <= sent - FirstSent
  BY DEF Underway
<1>5. FirstSent \in Nat /\ Reach \in Nat
  BY JitterAssumption
<1>6. p \in Packet /\ p.n \in Nat
  BY <1>1, <1>2, PacketIs
<1> QED BY <1>1, <1>2, <1>3, <1>4, <1>5, <1>6

LEMMA CountingInit == JitterInit => Counting /\ Placing
<1> SUFFICES ASSUME JitterInit PROVE Counting /\ Placing
  OBVIOUS
<1>1. talker = NoQueue /\ sent = FirstSent /\ arriving = << >>
  BY DEF JitterInit
<1>2. << >> \in Seq(Packet) /\ Len(<< >>) = 0
  OBVIOUS
<1> QED BY <1>1, <1>2, JitterAssumption DEF Counting, Placing, Underway

\* A packet comes: as long as no number came round, it is where its number says.
LEMMA CountingHandlePacket ==
    ASSUME Counting, HandlePacket
    PROVE  Counting' /\ (Placing /\ Recent => Placing')
<1>1. PICK p \in ToSet(arriving) :
        /\ IF talker # NoQueue THEN Accepts(talker, p) /\ talker' = WithPacket(talker, p)
           ELSE /\ ~IsEnd(p)
                /\ \E buffering \in Averages : talker' = NewQueue(p, buffering)
        /\ UNCHANGED <<sent, arriving>>
  BY DEF HandlePacket
<1>2. /\ p \in Packet /\ p.n \in Nat /\ p.n # 0
      /\ FirstSent < p.n /\ p.n <= sent /\ sent < p.n + Reach
  BY ArrivingIs DEF Counting
<1>3. Underway' /\ sent' = sent /\ sent \in Nat /\ Underway
  BY <1>1 DEF Counting, Underway
<1>4. PICK r : r = talker'
  OBVIOUS
<1>5. CASE talker = NoQueue
  <2>1. ~IsEnd(p) /\ \E buffering \in Averages : r = NewQueue(p, buffering)
    BY <1>1, <1>4, <1>5
  <2>2. PICK buffering \in Averages : r = NewQueue(p, buffering)
    BY <2>1
  <2>3. buffering \in Nat
    BY JitterAssumption
  <2>4. Counted(r) /\ Placed(r)
    BY <1>2, <1>3, <2>1, <2>2, <2>3, NewQueueIs
  <2> QED BY <1>3, <1>4, <2>4 DEF Counting, Placing, Placed
<1>6. CASE talker # NoQueue
  <2>1. PICK q : q = talker
    OBVIOUS
  <2>2. Counted(q) /\ q # NoQueue
    BY <1>6, <2>1 DEF Counting
  <2>3. Accepts(q, p) /\ r = WithPacket(q, p)
    BY <1>1, <1>4, <1>6, <2>1
  <2>4. Distance(p.n, q.next) <= MaxBufferPackets
    BY <2>3 DEF Accepts, Distance, IdOf
  <2>5. AtOrAfter(q, p) > 0 => IdOf(q.buf[Len(q.buf) - AtOrAfter(q, p) + 1]) # IdOf(p)
    BY <2>3 DEF Accepts
  <2>6. /\ Counted(r)
        /\ Placed(q) /\ p.n = q.next + Distance(p.n, q.next) /\ p.n <= sent => Placed(r)
    BY <1>2, <2>2, <2>3, <2>4, <2>5, WithPacketIs
  <2>7. ASSUME Placed(q), sent < q.next + Ids PROVE p.n = q.next + Distance(p.n, q.next)
    <3>1. q.next \in Nat /\ q.next <= sent + 1
      BY <2>2, <2>7, QueueIs DEF Counted, Placed
    <3>2. Reach \in Nat /\ MaxBufferPackets \in Nat /\ Reach + MaxBufferPackets < Ids /\ Ids \in Nat
      BY JitterAssumption, IdsAssumption
    <3>3. p.n < q.next + Ids /\ q.next < p.n + Ids
      BY <1>2, <1>3, <2>7, <3>1, <3>2
    <3>4. Distance(p.n, q.next) = IF p.n >= q.next THEN p.n - q.next ELSE p.n - q.next + Ids
      BY <1>2, <3>1, <3>3, BetweenNear
    <3>5. p.n >= q.next
      BY <1>2, <1>3, <2>4, <3>1, <3>2, <3>4
    <3> QED BY <1>2, <3>1, <3>4, <3>5
  <2>8. Placing /\ Recent => Placed(r)
    BY <1>2, <2>1, <2>2, <2>6, <2>7 DEF Placing, Recent
  <2>9. Placed(r) => Placing'
    BY <1>3, <1>4 DEF Placing, Placed
  <2>10. Counting'
    BY <1>3, <1>4, <2>6 DEF Counting
  <2> QED BY <2>8, <2>9, <2>10
<1> QED BY <1>5, <1>6

\* The playback takes a frame.
LEMMA CountingFillBuffer ==
    ASSUME Counting, FillBuffer
    PROVE  Counting' /\ (Placing => Placing')
<1>1. PICK q : q = talker
  OBVIOUS
<1>2. PICK r : r = talker'
  OBVIOUS
<1>3. /\ q # NoQueue /\ Counted(q) /\ UNCHANGED <<sent, arriving>> /\ sent \in Nat
      /\ r = IF Gone(q) THEN NoQueue
             ELSE IF q.buffering > 0 /\ q.waited < MaxWait
             THEN [q EXCEPT !.waited = @ + 2 * Frame]
             ELSE NextData(IF q.buffering > 0
                           THEN [q EXCEPT !.buffering = 0, !.waited = 0] ELSE q)
  BY <1>1, <1>2 DEF FillBuffer, Counting, Underway
<1>4. Underway'
  BY <1>3 DEF Counting, Underway
<1>5. q \in Queue /\ q.waited \in Nat /\ Frame \in Nat
  BY <1>3, QueueIs, JitterAssumption DEF Counted
<1>6. \/ r = NoQueue
      \/ Counted(r) /\ (Placed(q) => Placed(r))
  <2>1. CASE Gone(q)
    BY <1>3, <2>1
  <2>2. CASE ~Gone(q) /\ q.buffering > 0 /\ q.waited < MaxWait
    <3> DEFINE longer == q.waited + 2 * Frame
    <3>1. r = [q EXCEPT !.waited = longer]
      BY <1>3, <2>2
    <3>2. longer \in Nat
      BY <1>5
    <3> HIDE DEF longer
    <3>3. /\ r \in Queue /\ r.last = q.last /\ r.buf = q.buf /\ r.samples = q.samples
          /\ r.next = q.next /\ r.heard = q.heard
      BY <1>5, <3>1, <3>2 DEF Queue
    <3> QED BY <1>3, <3>3 DEF Counted, Placed
  <2>3. CASE ~Gone(q) /\ ~(q.buffering > 0 /\ q.waited < MaxWait)
    <3> DEFINE p == IF q.buffering > 0 THEN [q EXCEPT !.buffering = 0, !.waited = 0] ELSE q
    <3>1. /\ p \in Queue /\ p.last = q.last /\ p.buf = q.buf /\ p.samples = q.samples
          /\ p.next = q.next /\ p.heard = q.heard
      BY <1>5 DEF Queue
    <3>2. r = NextData(p)
      BY <1>3, <2>3
    <3> HIDE DEF p
    <3>3. Counted(p) /\ (Placed(q) => Placed(p))
      BY <1>3, <3>1 DEF Counted, Placed
    <3>4. \/ r = NoQueue
          \/ Counted(r) /\ (Placed(p) => Placed(r))
      BY <1>3, <3>2, <3>3, NextDataIs
    <3> QED BY <3>3, <3>4
  <2> QED BY <2>1, <2>2, <2>3
<1>7. Counting'
  BY <1>2, <1>4, <1>6 DEF Counting
<1>8. Placing => Placing'
  <2>1. SUFFICES ASSUME Placing, talker' # NoQueue PROVE Placed(talker)'
    BY DEF Placing
  <2>2. Placed(q)
    BY <1>1, <1>3, <2>1 DEF Placing
  <2>3. Placed(r)
    BY <1>2, <1>6, <2>1, <2>2
  <2>4. sent' = sent
    BY <1>3
  <2> QED BY <1>2, <2>3, <2>4 DEF Placed
<1> QED BY <1>7, <1>8

\* A packet is sent: the queue is where it was.
LEMMA CountingTalk ==
    ASSUME Counting, Talk
    PROVE  Counting' /\ (Placing => Placing')
<1>1. /\ sent < FirstSent + MaxSent /\ sent' = sent + 1 /\ talker' = talker
  BY DEF Talk
<1>2. PICK samples \in Lengths \cup {0}, bad \in BOOLEAN :
        LET longer == Append(arriving, [n |-> sent + 1, samples |-> samples, bad |-> bad])
        IN arriving' = IF Len(longer) > Reach THEN Tail(longer) ELSE longer
  BY DEF Talk
<1> DEFINE p == [n |-> sent + 1, samples |-> samples, bad |-> bad]
           longer == Append(arriving, p)
<1>3. /\ sent \in Nat /\ FirstSent <= sent /\ arriving \in Seq(Packet)
      /\ Len(arriving) <= Reach /\ Len(arriving) <= sent - FirstSent /\ Len(arriving) \in Nat
      /\ \A i \in 1 .. Len(arriving) : arriving[i].n = sent - Len(arriving) + i
  BY DEF Counting, Underway
<1>4. p \in Packet /\ p.n = sent + 1
  BY <1>3 DEF Packet
<1> HIDE DEF p
<1>5. /\ longer \in Seq(Packet) /\ Len(longer) = Len(arriving) + 1
      /\ \A i \in 1 .. Len(arriving) : longer[i] = arriving[i]
      /\ longer[Len(arriving) + 1] = p
  BY <1>3, <1>4, AppendProperties
<1>6. arriving' = IF Len(longer) > Reach THEN Tail(longer) ELSE longer
  BY <1>2 DEF p
<1> HIDE DEF longer
<1>7. \A i \in 1 .. Len(longer) : longer[i].n = (sent + 1) - Len(longer) + i
  <2> SUFFICES ASSUME NEW i \in 1 .. Len(longer) PROVE longer[i].n = (sent + 1) - Len(longer) + i
    OBVIOUS
  <2>1. CASE i = Len(arriving) + 1
    BY <1>3, <1>4, <1>5, <2>1
  <2>2. CASE i \in 1 .. Len(arriving)
    BY <1>3, <1>5, <2>2
  <2> QED BY <1>3, <1>5, <2>1, <2>2
<1>8. Reach \in Nat /\ Reach >= 1 /\ FirstSent \in Nat /\ MaxSent \in Nat
  BY JitterAssumption
<1>9. PICK next : next = arriving'
  OBVIOUS
<1>10. /\ next \in Seq(Packet) /\ Len(next) <= Reach /\ Len(next) <= (sent + 1) - FirstSent
       /\ \A i \in 1 .. Len(next) : next[i].n = (sent + 1) - Len(next) + i
  <2>1. CASE Len(longer) > Reach
    <3> DEFINE t == Tail(longer)
    <3>1. longer # << >> /\ Len(longer) \in Nat
      BY <1>3, <1>5
    <3>2. /\ t \in Seq(Packet) /\ Len(t) = Len(longer) - 1
          /\ \A i \in 1 .. Len(t) : t[i] = longer[i + 1]
      BY <1>5, <3>1
    <3> HIDE DEF t
    <3>3. \A i \in 1 .. Len(t) : t[i].n = (sent + 1) - Len(t) + i
      <4> SUFFICES ASSUME NEW i \in 1 .. Len(t) PROVE t[i].n = (sent + 1) - Len(t) + i
        OBVIOUS
      <4>1. i + 1 \in 1 .. Len(longer)
        BY <3>1, <3>2
      <4>2. longer[i + 1].n = (sent + 1) - Len(longer) + (i + 1)
        BY <1>7, <4>1
      <4>3. t[i].n = longer[i + 1].n
        BY <3>2
      <4>4. Len(longer) = Len(t) + 1 /\ Len(t) \in Nat /\ i \in Nat /\ sent \in Nat
        BY <1>3, <3>1, <3>2
      <4>5. \A a, b, c \in Nat : (b + 1) - (a + 1) + (c + 1) = (b + 1) - a + c
        OBVIOUS
      <4>6. (sent + 1) - (Len(t) + 1) + (i + 1) = (sent + 1) - Len(t) + i
        BY <4>4, <4>5
      <4> QED BY <4>2, <4>3, <4>4, <4>6
    <3>4. next = t
      BY <1>6, <1>9, <2>1 DEF t
    <3>5. Len(t) = Len(arriving) /\ Len(arriving) \in Nat
      BY <1>3, <1>5, <3>2
    <3>6. Len(t) <= Reach /\ Len(t) <= (sent + 1) - FirstSent
      BY <1>3, <1>8, <3>5
    <3> QED BY <3>2, <3>3, <3>4, <3>6
  <2>2. CASE ~(Len(longer) > Reach)
    <3>1. next = longer
      BY <1>6, <1>9, <2>2
    <3>2. Len(longer) = Len(arriving) + 1 /\ Len(arriving) \in Nat
      BY <1>3, <1>5
    <3>3. Len(longer) <= Reach /\ Len(longer) <= (sent + 1) - FirstSent
      BY <1>3, <1>8, <2>2, <3>2
    <3>4. longer \in Seq(Packet)
      BY <1>5
    <3> QED BY <1>7, <3>1, <3>3, <3>4
  <2> QED BY <2>1, <2>2
<1>11. Underway'
  BY <1>1, <1>3, <1>8, <1>9, <1>10 DEF Underway
<1>12. Counting'
  BY <1>1, <1>11 DEF Counting
<1>13. Placing => Placing'
  <2>1. SUFFICES ASSUME Placing, talker # NoQueue PROVE Placed(talker)'
    BY <1>1 DEF Placing
  <2>2. PICK q : q = talker
    OBVIOUS
  <2>3. Placed(q) /\ Counted(q)
    BY <2>1, <2>2 DEF Placing, Counting
  <2>4. q.next \in Nat /\ q.buf \in Seq(Packet)
    BY <2>3, QueueIs DEF Counted
  <2>5. \A i \in 1 .. Len(q.buf) : /\ q.buf[i].n = q.next + Distance(q.buf[i].n, q.next)
                                   /\ q.buf[i].n <= sent /\ q.buf[i].n \in Nat
    BY <2>3, <2>4, BufferIs DEF Placed
  <2>6. \A i \in 1 .. Len(q.buf) : q.buf[i].n <= sent + 1
    BY <1>3, <2>5
  <2>7. q.heard < q.next /\ q.next <= (sent + 1) + 1 /\ FirstSent < q.next
    BY <1>3, <2>3, <2>4 DEF Placed
  <2> QED BY <1>1, <2>2, <2>5, <2>6, <2>7 DEF Placed
<1> QED BY <1>12, <1>13

LEMMA CountingNext ==
    /\ Counting /\ [JitterNext]_jitterVars => Counting'
    /\ Counting /\ Placing /\ Recent /\ [JitterNext]_jitterVars => Placing'
<1>1. SUFFICES ASSUME Counting, [JitterNext]_jitterVars
               PROVE  Counting' /\ (Placing /\ Recent => Placing')
  OBVIOUS
<1>2. CASE HandlePacket
  BY <1>1, <1>2, CountingHandlePacket
<1>3. CASE FillBuffer
  BY <1>1, <1>3, CountingFillBuffer
<1>4. CASE ResetQueue
  BY <1>1, <1>4 DEF ResetQueue, Counting, Placing, Underway
<1>5. CASE Talk
  BY <1>1, <1>5, CountingTalk
<1>6. CASE UNCHANGED jitterVars
  BY <1>1, <1>6 DEF jitterVars, Counting, Placing, Underway, Placed
<1> QED BY <1>1, <1>2, <1>3, <1>4, <1>5, <1>6 DEF JitterNext

LEMMA CountingIsTyped == Counting => JitterTypeOK
  BY NoQueueIs DEF Counting, Counted, Underway, JitterTypeOK

LEMMA PlacingIsInOrder == Counting /\ Placing => QueueInOrder
<1> SUFFICES ASSUME Counting, Placing PROVE QueueInOrder
  OBVIOUS
<1>0. JitterTypeOK
  BY CountingIsTyped
<1>1. CASE talker = NoQueue
  <2>1. talker.buf = << >> /\ talker.samples = 0 /\ DOMAIN << >> = {}
    BY <1>1 DEF NoQueue
  <2> QED BY <1>0, <2>1, SamplesOfOne DEF QueueInOrder
<1>2. CASE talker # NoQueue
  <2>1. PICK q : q = talker
    OBVIOUS
  <2>2. /\ q.samples = Samples(q.buf) /\ Ascends(q.buf, q.next)
        /\ q.next \in Nat /\ q.heard \in Nat /\ q.buf \in Seq(Packet)
    BY <1>2, <2>1, QueueIs DEF Counting, Counted
  <2>3. Placed(q)
    BY <1>2, <2>1 DEF Placing
  <2> DEFINE D(i) == Distance(q.buf[i].n, q.next)
  <2>4. /\ Len(q.buf) \in Nat /\ DOMAIN q.buf = 1 .. Len(q.buf)
        /\ \A i \in 1 .. Len(q.buf) : D(i) \in Nat /\ D(i) <= MaxBufferPackets
        /\ \A i, j \in 1 .. Len(q.buf) : i < j => D(i) < D(j)
    <3>1. Len(q.buf) \in Nat /\ DOMAIN q.buf = 1 .. Len(q.buf)
      BY <2>2
    <3>2. \A i \in 1 .. Len(q.buf) : D(i) \in Nat
      BY <2>2, BufferIs
    <3>3. \A i \in 1 .. Len(q.buf) : D(i) <= MaxBufferPackets
      BY <2>2 DEF Ascends
    <3>4. \A i, j \in 1 .. Len(q.buf) : i < j => D(i) < D(j)
      BY <2>2 DEF Ascends
    <3> QED BY <3>1, <3>2, <3>3, <3>4
  <2>5. \A i \in 1 .. Len(q.buf) : q.buf[i].n = q.next + D(i) /\ q.heard < q.next
    BY <2>3 DEF Placed
  <2>6. \A i \in 1 .. Len(q.buf) :
            Ahead(IdOf(q.buf[i]), Id(q.next)) <= MaxBufferPackets
    BY <2>4 DEF Distance, IdOf
  <2> HIDE DEF D
  <2>7. \A i \in 1 .. Len(q.buf) : q.buf[i].n > q.heard
    BY <2>2, <2>4, <2>5
  <2>8. \A i \in 1 .. Len(q.buf) : i > 1 => q.buf[i].n > q.buf[i - 1].n
    <3> SUFFICES ASSUME NEW i \in 1 .. Len(q.buf), i > 1 PROVE q.buf[i].n > q.buf[i - 1].n
      OBVIOUS
    <3>1. i - 1 \in 1 .. Len(q.buf) /\ i - 1 < i
      BY <2>4
    <3>2. D(i - 1) < D(i) /\ D(i) \in Nat /\ D(i - 1) \in Nat
      BY <2>4, <3>1
    <3>3. q.buf[i].n = q.next + D(i) /\ q.buf[i - 1].n = q.next + D(i - 1)
      BY <2>5, <3>1
    <3> QED BY <2>2, <3>2, <3>3
  <2> QED BY <1>0, <2>1, <2>2, <2>4, <2>6, <2>7, <2>8 DEF QueueInOrder
<1> QED BY <1>1, <1>2

\* No count of a queue goes below zero, whatever arrives: not the samples that leave the
\* buffer, not the missing packets in front of it, not the frames that are left out.
THEOREM CountsHold == JitterSpec => []JitterTypeOK
<1>1. JitterInit => Counting
  BY CountingInit
<1>2. Counting /\ [JitterNext]_jitterVars => Counting'
  BY CountingNext
<1> QED BY <1>1, <1>2, CountingIsTyped, PTL DEF JitterSpec

\* The packets of a talker are heard in order over the wrap of their numbers, unless
\* a whole round of them is sent while the queue waits for one.
THEOREM PacketsAreInOrder == JitterSpec /\ []Recent => []QueueInOrder
<1>1. JitterInit => Counting /\ Placing
  BY CountingInit
<1>2. (Counting /\ Placing) /\ Recent /\ [JitterNext]_jitterVars => (Counting /\ Placing)'
  BY CountingNext
<1> QED BY <1>1, <1>2, PlacingIsInOrder, PTL DEF JitterSpec

\* A talk of at most a round of packets needs no such condition.
THEOREM ShortTalkIsInOrder ==
    ASSUME MaxSent <= Ids
    PROVE  JitterSpec => []QueueInOrder
<1>1. JitterInit => Counting /\ Placing
  BY CountingInit
<1>2. Counting /\ Placing => Recent
  <2> SUFFICES ASSUME Counting, Placing, talker # NoQueue PROVE sent < talker.next + Ids
    BY DEF Recent
  <2>1. FirstSent < talker.next /\ talker.next \in Nat
    BY QueueIs DEF Counting, Placing, Placed, Counted
  <2>2. sent <= FirstSent + MaxSent /\ sent \in Nat
    BY DEF Counting, Underway
  <2> QED BY <2>1, <2>2, JitterAssumption, IdsAssumption
<1>3. (Counting /\ Placing) /\ [JitterNext]_jitterVars => (Counting /\ Placing)'
  BY <1>2, CountingNext
<1> QED BY <1>1, <1>3, PlacingIsInOrder, PTL DEF JitterSpec
=============================================================================
