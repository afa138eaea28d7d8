------------------------- MODULE RequestQueueProofs -------------------------
(***************************************************************************)
(* The packet buffer for any packets, limits and timeouts: nothing is lost *)
(* or doubled, sent late or overtaken.  Proofs about module RequestQueue.  *)
(***************************************************************************)
EXTENDS RequestQueue, FiniteSetTheorems, TLAPS

(* No packet is buffered twice at a time: what Enqueue's search is for.    *)
Distinct == \A j, k \in DOMAIN queue : queue[j].packet = queue[k].packet => j = k

Inv == TypeOK /\ Distinct /\ NothingLost

-----------------------------------------------------------------------------
(***************************************************************************)
(* Positions of a sequence and their ranks.                                *)
(***************************************************************************)
(* Any set of positions is finite.                                         *)
LEMMA PositionsFinite ==
  ASSUME NEW n \in Nat, NEW K \in SUBSET (1 .. n)
  PROVE  /\ IsFiniteSet(K) /\ Cardinality(K) \in Nat /\ Cardinality(K) <= n
  <1>1. IsFiniteSet(1 .. n) /\ Cardinality(1 .. n) = n
    BY FS_Interval
  <1>2. IsFiniteSet(K) /\ Cardinality(K) <= n
    BY <1>1, FS_Subset
  <1> QED
    BY <1>2, FS_CardinalityType

(* Ranks number the positions in their order, from one on.                 *)
LEMMA Ranks ==
  ASSUME NEW n \in Nat, NEW K \in SUBSET (1 .. n)
  PROVE  /\ \A k \in K : Rank(K, k) \in 1 .. Cardinality(K)
         /\ \A j, k \in K : j < k => Rank(K, j) < Rank(K, k)
         /\ \A j, k \in K : Rank(K, j) = Rank(K, k) => j = k
         /\ \A r \in 1 .. Cardinality(K) : \E k \in K : Rank(K, k) = r
         /\ [k \in K |-> Rank(K, k)] \in Bijection(K, 1 .. Cardinality(K))
  <1> DEFINE below(k) == {j \in K : j <= k}
             rank == [k \in K |-> Rank(K, k)]
             c == Cardinality(K)
  <1>1. IsFiniteSet(K) /\ c \in Nat
    BY PositionsFinite
  <1>2. \A k \in K : /\ IsFiniteSet(below(k)) /\ Cardinality(below(k)) \in Nat
                     /\ Cardinality(below(k)) <= c
    <2>1. SUFFICES ASSUME NEW k \in K
                   PROVE  /\ IsFiniteSet(below(k)) /\ Cardinality(below(k)) \in Nat
                          /\ Cardinality(below(k)) <= c
      OBVIOUS
    <2>2. below(k) \in SUBSET K
      OBVIOUS
    <2> HIDE DEF below
    <2>3. IsFiniteSet(below(k)) /\ Cardinality(below(k)) <= c
      BY <1>1, <2>2, FS_Subset
    <2> QED
      BY <2>3, FS_CardinalityType
  <1>3. \A k \in K : Rank(K, k) \in 1 .. c
    <2>1. SUFFICES ASSUME NEW k \in K
                   PROVE  Rank(K, k) \in 1 .. c
      OBVIOUS
    <2>2. below(k) # {}
      <3>1. k <= k
        OBVIOUS
      <3> QED
        BY <3>1
    <2>3. Rank(K, k) = Cardinality(below(k))
      BY DEF Rank
    <2> HIDE DEF below
    <2>4. Cardinality(below(k)) # 0
      BY <1>2, <2>2, FS_EmptySet
    <2> QED
      BY <1>1, <1>2, <2>3, <2>4
  <1>4. \A j, k \in K : j < k => Rank(K, j) < Rank(K, k)
    <2>1. SUFFICES ASSUME NEW j \in K, NEW k \in K, j < k
                   PROVE  Rank(K, j) < Rank(K, k)
      OBVIOUS
    <2>2. below(j) \in SUBSET below(k) /\ k \in below(k) /\ k \notin below(j)
      <3>1. j \in Int /\ k \in Int /\ \A i \in K : i \in Int
        OBVIOUS
      <3>2. k <= k /\ ~(k <= j) /\ \A i \in K : i <= j => i <= k
        BY <2>1, <3>1
      <3> QED
        BY <3>2
    <2>3. Rank(K, j) = Cardinality(below(j)) /\ Rank(K, k) = Cardinality(below(k))
      BY DEF Rank
    <2> HIDE DEF below
    <2>4. /\ Cardinality(below(j)) <= Cardinality(below(k))
          /\ Cardinality(below(k)) = Cardinality(below(j)) => below(k) = below(j)
      BY <1>2, <2>2, FS_Subset
    <2> QED
      BY <1>2, <2>2, <2>3, <2>4
  <1>5. \A j, k \in K : Rank(K, j) = Rank(K, k) => j = k
    <2>1. SUFFICES ASSUME NEW j \in K, NEW k \in K, Rank(K, j) = Rank(K, k), j # k
                   PROVE  FALSE
      OBVIOUS
    <2>2. j < k \/ k < j
      BY <2>1
    <2> QED
      BY <1>1, <1>3, <1>4, <2>1, <2>2
  <1>6. rank \in Injection(K, 1 .. c)
    BY <1>3, <1>5 DEF Injection, IsInjective
  <1>7. rank \in Surjection(K, 1 .. c)
    <2>1. IsFiniteSet(1 .. c) /\ Cardinality(1 .. c) = c
      BY <1>1, FS_Interval
    <2> HIDE DEF rank
    <2> QED
      BY <1>6, <2>1, FS_Injection
  <1>8. \A r \in 1 .. c : \E k \in K : Rank(K, k) = r
    BY <1>7 DEF Surjection
  <1> QED
    BY <1>3, <1>4, <1>5, <1>6, <1>7, <1>8 DEF Bijection

(* A non-empty set of positions has one that is first.                     *)
LEMMA FirstFacts ==
  ASSUME NEW n \in Nat, NEW K \in SUBSET (1 .. n), K # {}
  PROVE  \E k \in K : First(K) = {k}
  <1>1. IsFiniteSet(K) /\ Cardinality(K) \in Nat
    BY PositionsFinite
  <1>2. Cardinality(K) # 0
    BY <1>1, FS_EmptySet
  <1>3. /\ \A k \in K : Rank(K, k) \in 1 .. Cardinality(K)
        /\ \A j, k \in K : j < k => Rank(K, j) < Rank(K, k)
        /\ \A r \in 1 .. Cardinality(K) : \E k \in K : Rank(K, k) = r
    BY Ranks
  <1>4. PICK k \in K : Rank(K, k) = 1
    BY <1>1, <1>2, <1>3
  <1>5. \A j \in K : j \in Int
    OBVIOUS
  <1>6. \A j \in K : k <= j
    <2>1. SUFFICES ASSUME NEW j \in K, j < k
                   PROVE  FALSE
      BY <1>5
    <2>2. Rank(K, j) < 1 /\ Rank(K, j) \in 1 .. Cardinality(K)
      BY <1>3, <1>4, <2>1
    <2> QED
      BY <1>1, <2>2
  <1>7. First(K) = {k}
    <2>1. k \in First(K)
      BY <1>6 DEF First
    <2>2. \A j \in First(K) : j \in K /\ j <= k
      BY DEF First
    <2>3. ASSUME NEW j \in First(K)
          PROVE  j = k
      <3>1. j \in Int /\ k \in Int /\ j <= k /\ k <= j
        BY <1>5, <1>6, <2>2
      <3> QED
        BY <3>1
    <2> QED
      BY <2>1, <2>3
  <1> QED
    BY <1>7

(* What is picked is a sequence of the entries at the positions, in order. *)
LEMMA PickedFacts ==
  ASSUME NEW S, NEW q \in Seq(S), NEW K \in SUBSET DOMAIN q
  PROVE  /\ Picked(q, K) \in Seq(S)
         /\ Len(Picked(q, K)) = Cardinality(K)
         /\ DOMAIN Picked(q, K) = 1 .. Cardinality(K)
         /\ \A k \in K : /\ Rank(K, k) \in DOMAIN Picked(q, K)
                         /\ Picked(q, K)[Rank(K, k)] = q[k]
         /\ \A r \in DOMAIN Picked(q, K) :
              \E k \in K : Rank(K, k) = r /\ Picked(q, K)[r] = q[k]
  <1> DEFINE c == Cardinality(K)
             at(r) == CHOOSE k \in K : Rank(K, k) = r
  <1>1. Len(q) \in Nat /\ DOMAIN q = 1 .. Len(q)
    OBVIOUS
  <1>2. c \in Nat
    BY <1>1, PositionsFinite
  <1>3. /\ \A k \in K : Rank(K, k) \in 1 .. c
        /\ \A j, k \in K : Rank(K, j) = Rank(K, k) => j = k
        /\ \A r \in 1 .. c : \E k \in K : Rank(K, k) = r
    BY <1>1, Ranks
  <1>4. \A r \in 1 .. c : at(r) \in K /\ Rank(K, at(r)) = r
    BY <1>3
  <1>5. \A k \in K : at(Rank(K, k)) = k
    BY <1>3, <1>4
  <1>6. Picked(q, K) = [r \in 1 .. c |-> q[at(r)]]
    BY DEF Picked
  <1> HIDE DEF at
  <1>7. \A r \in 1 .. c : q[at(r)] \in S
    BY <1>4
  <1>8. Picked(q, K) \in Seq(S) /\ Len(Picked(q, K)) = c
    BY <1>2, <1>6, <1>7
  <1> HIDE DEF c
  <1>9. /\ DOMAIN Picked(q, K) = 1 .. c
        /\ \A r \in 1 .. c : Picked(q, K)[r] = q[at(r)]
    BY <1>6
  <1> QED
    BY <1>3, <1>4, <1>5, <1>8, <1>9 DEF c

(* A packet is among what is picked as often as at the positions.          *)
LEMMA PickedTimes ==
  ASSUME NEW S, NEW q \in Seq(S), NEW K \in SUBSET DOMAIN q, NEW p
  PROVE  Times(Picked(q, K), p) = Cardinality(K \cap Positions(q, p))
  <1> DEFINE A == K \cap Positions(q, p)
             B == Positions(Picked(q, K), p)
             f == [k \in A |-> Rank(K, k)]
  <1>1. Len(q) \in Nat /\ DOMAIN q = 1 .. Len(q)
    OBVIOUS
  <1>2. IsFiniteSet(A)
    BY <1>1, PositionsFinite
  <1>3. \A j, k \in K : Rank(K, j) = Rank(K, k) => j = k
    BY <1>1, Ranks
  <1>4. \A k \in A : Rank(K, k) \in B
    BY PickedFacts DEF Positions
  <1>5. \A r \in B : \E k \in A : Rank(K, k) = r
    <2>1. SUFFICES ASSUME NEW r \in B
                   PROVE  \E k \in A : Rank(K, k) = r
      OBVIOUS
    <2>2. r \in DOMAIN Picked(q, K) /\ Picked(q, K)[r].packet = p
      BY DEF Positions
    <2>3. PICK k \in K : Rank(K, k) = r /\ Picked(q, K)[r] = q[k]
      BY <2>2, PickedFacts
    <2> QED
      BY <2>2, <2>3 DEF Positions
  <1> HIDE DEF A, B
  <1>6. f \in Bijection(A, B)
    <2>1. f \in [A -> B]
      BY <1>4
    <2>2. \A j, k \in A : f[j] = f[k] => j = k
      BY <1>3 DEF A
    <2>3. \A r \in B : \E k \in A : f[k] = r
      BY <1>5
    <2> QED
      BY <2>1, <2>2, <2>3 DEF Bijection, Injection, IsInjective, Surjection
  <1>7. ExistsBijection(A, B)
    BY <1>6 DEF ExistsBijection
  <1> QED
    BY <1>2, <1>7, FS_Bijection DEF Times, A, B

(* No two entries that are picked are of one packet if none of q are.      *)
LEMMA PickedDistinct ==
  ASSUME NEW S, NEW q \in Seq(S), NEW K \in SUBSET DOMAIN q,
         \A j, k \in DOMAIN q : q[j].packet = q[k].packet => j = k
  PROVE  \A j, k \in DOMAIN Picked(q, K) :
           Picked(q, K)[j].packet = Picked(q, K)[k].packet => j = k
  BY PickedFacts

(* An entry at the end of the queue counts one more for its packet.        *)
LEMMA AppendedTimes ==
  ASSUME NEW S, NEW q \in Seq(S), NEW e \in S, NEW p
  PROVE  Times(Append(q, e), p) = IF e.packet = p THEN Times(q, p) + 1 ELSE Times(q, p)
  <1> DEFINE n == Len(q) + 1
  <1>1. /\ Len(q) \in Nat /\ DOMAIN q = 1 .. Len(q)
        /\ DOMAIN Append(q, e) = 1 .. n /\ Append(q, e)[n] = e
        /\ \A k \in 1 .. Len(q) : Append(q, e)[k] = q[k]
        /\ 1 .. n = (1 .. Len(q)) \cup {n} /\ n \notin 1 .. Len(q)
    OBVIOUS
  <1> HIDE DEF n
  <1>2. Positions(Append(q, e), p)
          = IF e.packet = p THEN Positions(q, p) \cup {n} ELSE Positions(q, p)
    BY <1>1 DEF Positions
  <1>3. n \notin Positions(q, p) /\ IsFiniteSet(Positions(q, p))
    BY <1>1, PositionsFinite DEF Positions
  <1> QED
    BY <1>2, <1>3, FS_AddElement DEF Times

-----------------------------------------------------------------------------
(***************************************************************************)
(* What an operation does with the entries at some positions of m_queue.   *)
(***************************************************************************)
(* The entries of p at the positions K.                                    *)
At(K, p) == Cardinality(K \cap Positions(queue, p))

(* What the types say of the queue.                                        *)
LEMMA QueueFacts ==
  ASSUME TypeOK
  PROVE  /\ queue \in Seq(Entry) /\ Len(queue) \in Nat
         /\ DOMAIN queue = 1 .. Len(queue)
         /\ \A k \in DOMAIN queue : /\ queue[k].packet \in Packet
                                    /\ queue[k].expire \in Nat
  <1>1. queue \in Seq(Entry)
    BY DEF TypeOK
  <1>2. \A k \in DOMAIN queue : queue[k] \in Entry
    BY <1>1
  <1> QED
    BY <1>1, <1>2 DEF Entry

(* Entries at positions add up.                                            *)
LEMMA AtFacts ==
  ASSUME TypeOK, NEW p
  PROVE  /\ \A K \in SUBSET DOMAIN queue : At(K, p) \in Nat
         /\ \A J, K \in SUBSET DOMAIN queue :
              J \cap K = {} => At(J \cup K, p) = At(J, p) + At(K, p)
         /\ At(DOMAIN queue, p) = Times(queue, p)
         /\ Times(queue, p) \in Nat
  <1>1. \A K \in SUBSET DOMAIN queue : IsFiniteSet(K \cap Positions(queue, p))
    BY QueueFacts, PositionsFinite
  <1>2. \A K \in SUBSET DOMAIN queue : At(K, p) \in Nat
    BY <1>1, FS_CardinalityType DEF At
  <1>3. ASSUME NEW J \in SUBSET DOMAIN queue, NEW K \in SUBSET DOMAIN queue,
               J \cap K = {}
        PROVE  At(J \cup K, p) = At(J, p) + At(K, p)
    <2> DEFINE A == J \cap Positions(queue, p)
               B == K \cap Positions(queue, p)
    <2>1. (J \cup K) \cap Positions(queue, p) = A \cup B /\ A \cap B = {}
      BY <1>3
    <2>2. IsFiniteSet(A) /\ IsFiniteSet(B)
      BY <1>1
    <2>3. Cardinality(A) \in Nat /\ Cardinality(B) \in Nat
      BY <1>2 DEF At
    <2> HIDE DEF A, B
    <2>4. Cardinality(A \cup B) = Cardinality(A) + Cardinality(B) - Cardinality({})
      BY <2>1, <2>2, FS_Union
    <2>5. Cardinality(A \cup B) = Cardinality(A) + Cardinality(B)
      BY <2>3, <2>4, FS_EmptySet
    <2> QED
      BY <2>1, <2>5 DEF At, A, B
  <1>4. At(DOMAIN queue, p) = Times(queue, p)
    <2>1. DOMAIN queue \cap Positions(queue, p) = Positions(queue, p)
      BY DEF Positions
    <2> QED
      BY <2>1 DEF At, Times
  <1> QED
    BY <1>2, <1>3, <1>4

(* Counting keeps the type of a count and adds what is at the positions.   *)
LEMMA CountingFacts ==
  ASSUME TypeOK, NEW count \in [Packet -> Nat], NEW K \in SUBSET DOMAIN queue
  PROVE  /\ Counting(count, K) \in [Packet -> Nat]
         /\ \A p \in Packet : Counting(count, K)[p] = count[p] + At(K, p)
  <1>1. Counting(count, K) = [p \in Packet |-> count[p] + At(K, p)]
    BY DEF Counting, At
  <1>2. \A p \in Packet : count[p] + At(K, p) \in Nat
    BY AtFacts
  <1> QED
    BY <1>1, <1>2

(* Counting nothing changes no count.                                      *)
LEMMA CountingNothing ==
  ASSUME NEW count \in [Packet -> Nat]
  PROVE  Counting(count, {}) = count
  <1>1. \A p : Cardinality({} \cap Positions(queue, p)) = 0
    BY FS_EmptySet
  <1>2. Counting(count, {}) = [p \in Packet |-> count[p]]
    BY <1>1 DEF Counting
  <1> QED
    BY <1>2

(* The positions that stay, when those at Out, Thrown and Gone do not.     *)
Staying(Out, Thrown, Gone) == DOMAIN queue \ (Out \cup Thrown \cup Gone)

(* Sending, giving up and dropping entries that are not the same keeps the *)
(* account of every packet.                                                *)
LEMMA Balance ==
  ASSUME TypeOK, NothingLost,
         NEW Out \in SUBSET DOMAIN queue, NEW Thrown \in SUBSET DOMAIN queue,
         NEW Gone \in SUBSET DOMAIN queue,
         Out \cap Thrown = {}, Out \cap Gone = {}, Thrown \cap Gone = {},
         NEW p \in Packet
  PROVE  /\ accepted[p] = Times(Picked(queue, Staying(Out, Thrown, Gone)), p)
                            + Counting(sent, Out)[p] + Counting(dropped, Gone)[p]
                            + Counting(discarded, Thrown)[p]
         /\ Times(Picked(queue, Staying(Out, Thrown, Gone)), p) \in Nat
         /\ Counting(sent, Out)[p] \in Nat /\ Counting(dropped, Gone)[p] \in Nat
         /\ Counting(discarded, Thrown)[p] \in Nat
  <1> DEFINE Kept == Staying(Out, Thrown, Gone)
  <1>1. {accepted, sent, dropped, discarded} \subseteq [Packet -> Nat]
    BY DEF TypeOK
  <1>2. Times(Picked(queue, Kept), p) = At(Kept, p)
    BY QueueFacts, PickedTimes DEF At, Staying
  <1>3. /\ Counting(sent, Out)[p] = sent[p] + At(Out, p)
        /\ Counting(discarded, Thrown)[p] = discarded[p] + At(Thrown, p)
        /\ Counting(dropped, Gone)[p] = dropped[p] + At(Gone, p)
    BY <1>1, CountingFacts
  <1>4. /\ At(Out \cup Thrown, p) = At(Out, p) + At(Thrown, p)
        /\ At((Out \cup Thrown) \cup Gone, p) = At(Out \cup Thrown, p) + At(Gone, p)
    BY AtFacts
  <1>5. At(DOMAIN queue, p) = At(Kept, p) + At((Out \cup Thrown) \cup Gone, p)
    <2>1. DOMAIN queue = Kept \cup ((Out \cup Thrown) \cup Gone)
      BY DEF Staying
    <2>2. Kept \cap ((Out \cup Thrown) \cup Gone) = {}
      BY DEF Staying
    <2>3. Kept \in SUBSET DOMAIN queue /\ (Out \cup Thrown) \cup Gone \in SUBSET DOMAIN queue
      BY DEF Staying
    <2> HIDE DEF Kept
    <2> QED
      BY <2>1, <2>2, <2>3, AtFacts
  <1>6. At(DOMAIN queue, p) = Times(queue, p)
    BY AtFacts
  <1>7. accepted[p] = Times(queue, p) + sent[p] + dropped[p] + discarded[p]
    BY DEF NothingLost
  <1>8. /\ At(Kept, p) \in Nat /\ At(Out, p) \in Nat /\ At(Thrown, p) \in Nat
        /\ At(Gone, p) \in Nat
    BY AtFacts DEF Staying
  <1>9. sent[p] \in Nat /\ dropped[p] \in Nat /\ discarded[p] \in Nat
    BY <1>1
  <1> HIDE DEF Kept
  <1> QED
    BY <1>2, <1>3, <1>4, <1>5, <1>6, <1>7, <1>8, <1>9 DEF Kept

(* Sending, giving up and dropping entries keeps the invariant.            *)
LEMMA Removed ==
  ASSUME Inv,
         NEW Out \in SUBSET DOMAIN queue, NEW Thrown \in SUBSET DOMAIN queue,
         NEW Gone \in SUBSET DOMAIN queue,
         Out \cap Thrown = {}, Out \cap Gone = {}, Thrown \cap Gone = {},
         queue' = Picked(queue, Staying(Out, Thrown, Gone)),
         sent' = Counting(sent, Out),
         discarded' = Counting(discarded, Thrown),
         dropped' = Counting(dropped, Gone),
         UNCHANGED <<maxLen, queueTimeout, now, accepted>>
  PROVE  Inv'
  <1>1. TypeOK /\ Distinct /\ NothingLost
    BY DEF Inv
  <1>2. {accepted, sent, dropped, discarded} \subseteq [Packet -> Nat]
    BY <1>1 DEF TypeOK
  <1>3. Staying(Out, Thrown, Gone) \in SUBSET DOMAIN queue
    BY DEF Staying
  <1>4. TypeOK'
    <2>1. queue' \in Seq(Entry)
      BY <1>1, <1>3, QueueFacts, PickedFacts
    <2>2. {accepted', sent', dropped', discarded'} \subseteq [Packet -> Nat]
      BY <1>1, <1>2, CountingFacts
    <2> QED
      BY <1>1, <2>1, <2>2 DEF TypeOK
  <1>5. Distinct'
    BY <1>1, <1>3, QueueFacts, PickedDistinct DEF Distinct
  <1>6. NothingLost'
    BY <1>1, Balance DEF NothingLost
  <1> QED
    BY <1>4, <1>5, <1>6 DEF Inv

-----------------------------------------------------------------------------
(***************************************************************************)
(* The operations.                                                         *)
(***************************************************************************)
(* What a purge keeps and drops.                                           *)
LEMMA PurgeFacts ==
  /\ Fresh \in SUBSET DOMAIN queue /\ Outdated \in SUBSET DOMAIN queue
  /\ Fresh \cap Outdated = {} /\ Fresh \cup Outdated = DOMAIN queue
  BY DEF Fresh, Outdated

(* An operation that only purges.                                          *)
LEMMA InvPurge ==
  ASSUME Inv, queue' = Picked(queue, Fresh), dropped' = Counting(dropped, Outdated),
         UNCHANGED <<maxLen, queueTimeout, now, accepted, sent, discarded>>
  PROVE  Inv'
  <1>1. Fresh = Staying({}, {}, Outdated)
    BY PurgeFacts DEF Staying
  <1>2. sent' = Counting(sent, {}) /\ discarded' = Counting(discarded, {})
    BY CountingNothing DEF Inv, TypeOK
  <1> QED
    BY <1>1, <1>2, PurgeFacts, Removed

(* Room is made, if at all, by what is in the queue and not outdated.      *)
LEMMA OverflowFacts ==
  /\ Overflow \in SUBSET Fresh
  /\ Overflow \cap Outdated = {}
  BY DEF Overflow, First, Outdated

(* A new packet comes in at the end, and may push out the most aged.       *)
LEMMA InvAccepted ==
  ASSUME Inv, NEW p \in Packet, Fresh \cap Positions(queue, p) = {},
         queue' = Append(Picked(queue, Fresh \ Overflow), Stamped(p)),
         dropped' = Counting(dropped, Outdated \cup Overflow),
         accepted' = [accepted EXCEPT ![p] = @ + 1],
         UNCHANGED <<maxLen, queueTimeout, now, sent, discarded>>
  PROVE  Inv'
  <1> DEFINE Gone == Outdated \cup Overflow
             Kept == Fresh \ Overflow
             q == Picked(queue, Kept)
             e == Stamped(p)
  <1>1. TypeOK /\ Distinct /\ NothingLost
    BY DEF Inv
  <1>2. {accepted, sent, dropped, discarded} \subseteq [Packet -> Nat]
    BY <1>1 DEF TypeOK
  <1>3. /\ Gone \in SUBSET DOMAIN queue /\ Kept \in SUBSET DOMAIN queue
        /\ Kept = Staying({}, {}, Gone)
    BY PurgeFacts, OverflowFacts DEF Staying
  <1>4. e \in Entry /\ e.packet = p
    BY <1>1, RequestQueueAssumption DEF TypeOK, Stamped, Entry
  <1> HIDE DEF Gone, Kept, e
  <1>5. q \in Seq(Entry)
    BY <1>1, <1>3, QueueFacts, PickedFacts
  <1>6. queue' = Append(q, e) /\ dropped' = Counting(dropped, Gone)
    BY DEF Gone, Kept, e
  <1>a. \A k \in DOMAIN q : \E j \in Kept : q[k] = queue[j]
    BY <1>1, <1>3, QueueFacts, PickedFacts
  <1>b. \A j, k \in DOMAIN q : q[j].packet = q[k].packet => j = k
    BY <1>1, <1>3, QueueFacts, PickedDistinct DEF Distinct
  <1>c. ASSUME NEW r \in Packet
        PROVE  /\ accepted[r] = Times(q, r) + Counting(sent, {})[r]
                             + Counting(dropped, Gone)[r] + Counting(discarded, {})[r]
               /\ Times(q, r) \in Nat /\ Counting(sent, {})[r] \in Nat
               /\ Counting(dropped, Gone)[r] \in Nat
               /\ Counting(discarded, {})[r] \in Nat
    <2>1. {} \in SUBSET DOMAIN queue /\ {} \cap {} = {} /\ {} \cap Gone = {}
      OBVIOUS
    <2> QED
      BY ONLY <1>1, <1>3, <2>1, r \in Packet, Balance
  <1> HIDE DEF q
  <1>7. TypeOK'
    <2>1. queue' \in Seq(Entry)
      BY ONLY <1>4, <1>5, <1>6
    <2>2. dropped' \in [Packet -> Nat]
      BY ONLY <1>1, <1>2, <1>3, <1>6, CountingFacts
    <2>3. accepted' \in [Packet -> Nat]
      BY <1>2
    <2> QED
      BY <1>1, <1>2, <2>1, <2>2, <2>3 DEF TypeOK
  <1>8. \A k \in DOMAIN q : q[k].packet # p
    BY <1>3, <1>a DEF Kept, Positions
  <1>9. Distinct'
    <2>2. /\ DOMAIN Append(q, e) = (1 .. Len(q)) \cup {Len(q) + 1}
          /\ DOMAIN q = 1 .. Len(q)
          /\ \A k \in 1 .. Len(q) : Append(q, e)[k] = q[k]
          /\ Append(q, e)[Len(q) + 1] = e
      BY <1>4, <1>5
    <2> QED
      BY ONLY <1>4, <1>6, <1>8, <1>b, <2>2 DEF Distinct
  <1>10. ASSUME NEW r \in Packet
         PROVE  accepted'[r] = Times(queue', r) + sent'[r] + dropped'[r] + discarded'[r]
    <2>2. sent' = Counting(sent, {}) /\ discarded' = Counting(discarded, {})
      BY <1>2, CountingNothing
    <2>3. Times(queue', r) = IF p = r THEN Times(q, r) + 1 ELSE Times(q, r)
      BY ONLY <1>4, <1>5, <1>6, AppendedTimes
    <2>4. accepted'[r] = IF p = r THEN accepted[r] + 1 ELSE accepted[r]
      BY <1>2
    <2>5. /\ sent'[r] = Counting(sent, {})[r] /\ dropped'[r] = Counting(dropped, Gone)[r]
          /\ discarded'[r] = Counting(discarded, {})[r]
      BY ONLY <1>6, <2>2
    <2> QED
      BY ONLY r \in Packet, <1>c, <2>3, <2>4, <2>5
  <1> QED
    BY <1>7, <1>9, <1>10 DEF Inv, NothingLost

(* Enqueue.                                                                *)
LEMMA InvEnqueue ==
  ASSUME Inv, NEW p \in Packet, Enqueue(p)
  PROVE  Inv'
  <1>1. CASE Fresh \cap Positions(queue, p) # {}
    BY <1>1, InvPurge DEF Enqueue
  <1>2. CASE Fresh \cap Positions(queue, p) = {}
    BY <1>2, InvAccepted DEF Enqueue
  <1> QED
    BY <1>1, <1>2

(* Giving up a destination.                                                *)
LEMMA InvDrop ==
  ASSUME Inv, NEW dst \in Destination, DropPacketWithDst(dst)
  PROVE  Inv'
  <1> DEFINE Gone == Outdated \cup BoundFor(dst)
  <1>1. Gone \in SUBSET DOMAIN queue /\ Fresh \ BoundFor(dst) = Staying({}, {}, Gone)
    BY PurgeFacts DEF BoundFor, Staying
  <1>2. sent' = Counting(sent, {}) /\ discarded' = Counting(discarded, {})
    BY CountingNothing DEF Inv, TypeOK, DropPacketWithDst
  <1>3. /\ queue' = Picked(queue, Staying({}, {}, Gone))
        /\ dropped' = Counting(dropped, Gone)
        /\ UNCHANGED <<maxLen, queueTimeout, now, accepted>>
    BY <1>1 DEF DropPacketWithDst
  <1> HIDE DEF Gone
  <1>4. {} \in SUBSET DOMAIN queue /\ {} \cap {} = {} /\ {} \cap Gone = {}
    OBVIOUS
  <1> QED
    BY ONLY Inv, <1>1, <1>2, <1>3, <1>4, Removed

(* What a flush sends and the entry it gives up are of dst, and apart.     *)
LEMMA FlushFacts ==
  ASSUME TypeOK, NEW dst, NEW iface
  PROVE  LET mine   == Dequeued(dst)
             out    == Flushed(mine, iface)
             thrown == First(BoundElsewhere(mine, iface))
         IN  /\ mine \in SUBSET Fresh
             /\ out \in SUBSET mine /\ thrown \in SUBSET mine
             /\ out \cap thrown = {}
             /\ \A j \in mine, k \in out : j < k => j \in out
  <1> DEFINE mine == Dequeued(dst)
             stop == BoundElsewhere(mine, iface)
             out == Flushed(mine, iface)
             thrown == First(stop)
  <1>1. mine \in SUBSET Fresh
    BY DEF Dequeued
  <1>2. \A k \in mine : k \in Int
    BY <1>1, PurgeFacts, QueueFacts
  <1>3. stop \in SUBSET mine
    BY DEF BoundElsewhere
  <1>4. out = {k \in mine : \A j \in stop : k < j}
    BY DEF Flushed
  <1> HIDE DEF mine, stop, out
  <1>5. thrown \in SUBSET stop
    BY DEF First
  <1> HIDE DEF thrown
  <1>6. out \cap thrown = {}
    BY <1>2, <1>3, <1>4, <1>5
  <1>7. \A j \in mine, k \in out : j < k => j \in out
    BY <1>2, <1>3, <1>4
  <1>8. out \in SUBSET mine /\ thrown \in SUBSET mine
    BY <1>3, <1>4, <1>5
  <1> QED
    BY <1>1, <1>6, <1>7, <1>8 DEF mine, stop, out, thrown

(* Flushing.                                                               *)
LEMMA InvSend ==
  ASSUME Inv, NEW dst \in Destination, NEW iface \in Interface,
         SendPacketFromQueue(dst, iface)
  PROVE  Inv'
  <1> DEFINE mine == Dequeued(dst)
             out == Flushed(mine, iface)
             thrown == First(BoundElsewhere(mine, iface))
  <1>1. /\ mine \in SUBSET Fresh
        /\ out \in SUBSET mine /\ thrown \in SUBSET mine /\ out \cap thrown = {}
    BY FlushFacts DEF Inv
  <1>2. /\ queue' = Picked(queue, Fresh \ (out \cup thrown))
        /\ sent' = Counting(sent, out)
        /\ discarded' = Counting(discarded, thrown)
        /\ dropped' = Counting(dropped, Outdated)
        /\ UNCHANGED <<maxLen, queueTimeout, now, accepted>>
    BY DEF SendPacketFromQueue
  <1> HIDE DEF mine, out, thrown
  <1>3. /\ out \in SUBSET DOMAIN queue /\ thrown \in SUBSET DOMAIN queue
        /\ out \cap Outdated = {} /\ thrown \cap Outdated = {}
        /\ Fresh \ (out \cup thrown) = Staying(out, thrown, Outdated)
    BY <1>1, PurgeFacts DEF Staying
  <1>4. Outdated \in SUBSET DOMAIN queue
    BY PurgeFacts
  <1> QED
    BY ONLY Inv, <1>1, <1>2, <1>3, <1>4, Removed

(* Time, the limit and the timeout leave the queue and the account alone.  *)
LEMMA InvSet ==
  ASSUME Inv,
         \/ \E len \in Limit : SetMaxQueueLen(len)
         \/ \E timeout \in QueueTimeout : SetQueueTimeout(timeout)
         \/ Tick
         \/ UNCHANGED vars
  PROVE  Inv'
  <1>1. UNCHANGED <<queue, accepted, sent, dropped, discarded>>
    BY DEF SetMaxQueueLen, SetQueueTimeout, Tick, counts, vars
  <1>2. maxLen' \in Limit /\ queueTimeout' \in QueueTimeout /\ now' \in Nat
    BY DEF Inv, TypeOK, SetMaxQueueLen, SetQueueTimeout, Tick, vars
  <1>3. TypeOK'
    BY <1>1, <1>2 DEF Inv, TypeOK
  <1>4. Distinct'
    BY <1>1 DEF Inv, Distinct
  <1>5. NothingLost'
    BY <1>1 DEF Inv, NothingLost, Times, Positions
  <1> QED
    BY <1>3, <1>4, <1>5 DEF Inv

(* An empty buffer.                                                        *)
LEMMA InvInit == Init => Inv
  <1> SUFFICES ASSUME Init
               PROVE  Inv
    OBVIOUS
  <1>1. queue = <<>> /\ DOMAIN queue = {}
    BY DEF Init
  <1>2. None \in [Packet -> Nat] /\ \A p \in Packet : None[p] = 0
    BY DEF None
  <1>3. TypeOK
    BY <1>2 DEF Init, TypeOK
  <1>4. Distinct
    BY <1>1 DEF Distinct
  <1>5. \A p \in Packet : Times(queue, p) = 0
    <2>1. \A p : Positions(queue, p) = {}
      BY <1>1 DEF Positions
    <2> QED
      BY <2>1, FS_EmptySet DEF Times
  <1>6. NothingLost
    BY <1>2, <1>5 DEF NothingLost, Init
  <1> QED
    BY <1>3, <1>4, <1>6 DEF Inv

(* One case per operation.                                                 *)
LEMMA InvNext == Inv /\ [Next]_vars => Inv'
  <1> SUFFICES ASSUME Inv, [Next]_vars
               PROVE  Inv'
    OBVIOUS
  <1>1. CASE GetSize
    BY <1>1, InvPurge DEF GetSize
  <1> QED
    BY <1>1, InvEnqueue, InvDrop, InvSend, InvSet DEF Next

(* The invariant holds in every reachable state.                           *)
LEMMA InvAlways == Spec => []Inv
  BY InvInit, InvNext, PTL DEF Spec

-----------------------------------------------------------------------------
(* Every variable keeps its type; no buffered packet lacks an expiry time. *)
THEOREM QueueTypeCorrect == Spec => []TypeOK
  BY InvAlways, PTL DEF Inv

(* Each packet is accounted for, whatever the operations and their purges  *)
(* do (RequestQueue; RoutingProtocol::SendPacketFromQueue).                *)
THEOREM NoPacketLost == Spec => []NothingLost
  BY InvAlways, PTL DEF Inv

(* Only a flush sends, and only what it finds for its destination.         *)
LEMMA WhoIsSent ==
  ASSUME Inv, [Next]_vars, NEW p \in Packet, sent'[p] > sent[p]
  PROVE  \E dst \in Destination, iface \in Interface :
           /\ SendPacketFromQueue(dst, iface)
           /\ \E k \in Flushed(Dequeued(dst), iface) : queue[k].packet = p
  <1>1. sent \in [Packet -> Nat]
    BY DEF Inv, TypeOK
  <1>2. sent' # sent
    <2>1. sent[p] \in Nat
      BY <1>1
    <2> QED
      BY <2>1
  <1>3. PICK dst \in Destination, iface \in Interface : SendPacketFromQueue(dst, iface)
    BY <1>2 DEF Next, Enqueue, DropPacketWithDst, GetSize, SetMaxQueueLen,
                SetQueueTimeout, Tick, counts, vars
  <1> DEFINE out == Flushed(Dequeued(dst), iface)
  <1>4. sent' = Counting(sent, out)
    BY <1>3 DEF SendPacketFromQueue
  <1>5. sent'[p] = sent[p] + Cardinality(out \cap Positions(queue, p))
    BY <1>4 DEF Counting
  <1>6. out \cap Positions(queue, p) # {}
    <2>1. SUFFICES ASSUME out \cap Positions(queue, p) = {}
                   PROVE  FALSE
      OBVIOUS
    <2>2. Cardinality(out \cap Positions(queue, p)) = 0
      BY <2>1, FS_EmptySet
    <2>3. sent[p] \in Nat
      BY <1>1
    <2> QED
      BY <1>5, <2>2, <2>3
  <1>7. \E k \in out : queue[k].packet = p
    BY <1>6 DEF Positions
  <1> QED
    BY <1>3, <1>7

(* Nothing is sent after its time, though no timer watches the queue:      *)
(* Dequeue purges first (RequestQueue::Dequeue, Purge).                    *)
THEOREM NothingSentLate == Spec => NeverLate
  <1>1. ASSUME Inv, [Next]_vars, NEW p \in Packet, sent'[p] > sent[p]
        PROVE  \E k \in DOMAIN queue : queue[k].packet = p /\ queue[k].expire >= now
    <2>1. PICK dst \in Destination, iface \in Interface :
            \E k \in Flushed(Dequeued(dst), iface) : queue[k].packet = p
      BY <1>1, WhoIsSent
    <2>2. PICK k \in Flushed(Dequeued(dst), iface) : queue[k].packet = p
      BY <2>1
    <2>3. k \in DOMAIN queue /\ ~Expired(queue[k])
      BY DEF Flushed, Dequeued, Fresh
    <2>4. queue[k].expire \in Nat /\ now \in Nat
      BY <1>1, <2>3, QueueFacts DEF Inv, TypeOK
    <2> QED
      BY <2>2, <2>3, <2>4 DEF Expired
  <1>2. Inv /\ [Next]_vars =>
          [\A p \in Packet : sent'[p] > sent[p] =>
             \E k \in DOMAIN queue : queue[k].packet = p /\ queue[k].expire >= now]_vars
    BY <1>1
  <1> QED
    BY <1>2, InvAlways, PTL DEF Spec, NeverLate

(* What leaves from behind leaves none of its destination waiting in front *)
(* of it, nor anywhere else, as no packet is buffered twice                *)
(* (RoutingProtocol::SendPacketFromQueue).                                 *)
THEOREM NobodyOvertakes == Spec => NoOvertaking
  <1>1. ASSUME Inv, [Next]_vars, NEW j \in DOMAIN queue, NEW k \in DOMAIN queue,
               j < k, DstOf[queue[j].packet] = DstOf[queue[k].packet],
               sent'[queue[k].packet] > sent[queue[k].packet]
        PROVE  Times(queue', queue[j].packet) = 0
    <2> DEFINE old == queue[j].packet
               young == queue[k].packet
    <2>1. /\ TypeOK /\ Distinct /\ queue \in Seq(Entry) /\ young \in Packet
      BY <1>1, QueueFacts DEF Inv
    <2>2. PICK dst \in Destination, iface \in Interface :
            /\ SendPacketFromQueue(dst, iface)
            /\ \E i \in Flushed(Dequeued(dst), iface) : queue[i].packet = young
      BY <1>1, <2>1, WhoIsSent
    <2> DEFINE mine == Dequeued(dst)
               out == Flushed(mine, iface)
               thrown == First(BoundElsewhere(mine, iface))
               Kept == Fresh \ (out \cup thrown)
    <2>3. /\ mine \in SUBSET Fresh /\ out \in SUBSET mine
          /\ \A i \in mine, l \in out : i < l => i \in out
      BY <2>1, FlushFacts
    <2>4. queue' = Picked(queue, Kept)
      BY <2>2 DEF SendPacketFromQueue
    <2>5. k \in out
      <3>1. PICK i \in out : queue[i].packet = young
        BY <2>2
      <3>2. i \in DOMAIN queue
        BY <2>3, PurgeFacts
      <3> QED
        BY <2>1, <3>1, <3>2 DEF Distinct
    <2>6. DstOf[young] = dst
      BY <2>3, <2>5 DEF Dequeued, BoundFor
    <2>7. j \notin Kept
      <3>1. CASE j \in Fresh
        <4>1. j \in mine
          BY <1>1, <2>6, <3>1 DEF Dequeued, BoundFor
        <4> QED
          BY <1>1, <2>3, <2>5, <4>1
      <3>2. CASE j \notin Fresh
        BY <3>2
      <3> QED
        BY <3>1, <3>2
    <2>8. Kept \cap Positions(queue, old) = {}
      BY <2>1, <2>7 DEF Distinct, Positions
    <2>9. Kept \in SUBSET DOMAIN queue
      BY PurgeFacts
    <2> HIDE DEF Kept
    <2>10. Times(queue', old) = Cardinality({})
      BY <2>1, <2>4, <2>8, <2>9, PickedTimes
    <2> QED
      BY <2>10, FS_EmptySet
  <1>2. Inv /\ [Next]_vars =>
          [\A j, k \in DOMAIN queue :
             LET old == queue[j].packet  young == queue[k].packet
             IN  j < k /\ DstOf[old] = DstOf[young] /\ sent'[young] > sent[young] =>
                   Times(queue', old) = 0]_vars
    BY <1>1
  <1> QED
    BY <1>2, InvAlways, PTL DEF Spec, NoOvertaking

(* Keeping some of the entries does not lengthen the queue.                *)
LEMMA KeptIsShorter ==
  ASSUME TypeOK, NEW K \in SUBSET DOMAIN queue
  PROVE  /\ Len(Picked(queue, K)) = Cardinality(K)
         /\ Cardinality(K) \in Nat /\ Cardinality(K) <= Len(queue)
  BY QueueFacts, PickedFacts, PositionsFinite

(* Enqueue makes room when the queue is as long as allowed.                *)
LEMMA RoomIsMade ==
  ASSUME Inv, NEW p \in Packet, Enqueue(p), Len(queue) <= maxLen
  PROVE  Len(queue') <= maxLen
  <1> DEFINE Kept == Fresh \ Overflow
  <1>1. /\ TypeOK /\ maxLen \in Nat /\ maxLen >= 1
    BY RequestQueueAssumption DEF Inv, TypeOK
  <1>2. Fresh \in SUBSET DOMAIN queue /\ Overflow \in SUBSET Fresh
    BY PurgeFacts, OverflowFacts
  <1>3. /\ Cardinality(Fresh) \in Nat /\ Cardinality(Fresh) <= Len(queue)
        /\ Len(queue) \in Nat /\ DOMAIN queue = 1 .. Len(queue)
    BY <1>1, <1>2, KeptIsShorter, QueueFacts
  <1>4. CASE queue' = Picked(queue, Fresh)
    BY <1>1, <1>2, <1>3, <1>4, KeptIsShorter
  <1>5. CASE queue' = Append(Picked(queue, Kept), Stamped(p))
    <2>1. /\ Cardinality(Kept) \in Nat /\ Len(Picked(queue, Kept)) = Cardinality(Kept)
          /\ Picked(queue, Kept) \in Seq(Entry)
      BY <1>1, <1>2, KeptIsShorter, QueueFacts, PickedFacts
    <2>2. Len(queue') = Cardinality(Kept) + 1
      BY <1>5, <2>1
    <2>3. Cardinality(Kept) < maxLen
      <3>1. CASE Cardinality(Fresh) = maxLen
        <4>1. IsFiniteSet(Fresh) /\ Fresh # {}
          BY <1>1, <1>2, <1>3, <3>1, PositionsFinite, FS_EmptySet
        <4>2. Fresh \in SUBSET (1 .. Len(queue))
          BY <1>2, <1>3
        <4>3. PICK k \in Fresh : Overflow = {k}
          BY <1>3, <3>1, <4>1, <4>2, FirstFacts DEF Overflow
        <4>4. Kept \in SUBSET Fresh /\ Kept # Fresh
          BY <4>3
        <4> HIDE DEF Kept
        <4> QED
          BY <1>3, <2>1, <3>1, <4>1, <4>4, FS_Subset
      <3>2. CASE Cardinality(Fresh) # maxLen
        <4>1. Kept = Fresh
          BY <3>2 DEF Overflow
        <4>2. Cardinality(Fresh) < maxLen
          BY <1>1, <1>3, <3>2
        <4> QED
          BY ONLY <4>1, <4>2
      <3> QED
        BY <3>1, <3>2
    <2> QED
      BY <1>1, <2>1, <2>2, <2>3
  <1> QED
    BY <1>4, <1>5 DEF Enqueue

(* A queue within its limit stays within it until the limit is lowered:    *)
(* the test with == never finds the queue past the limit                   *)
(* (RequestQueue::Enqueue).                                                *)
THEOREM LimitIsKept == Spec => KeepsLimit
  <1>1. ASSUME Inv, [Next]_vars, Len(queue) <= maxLen
        PROVE  Len(queue') <= maxLen' \/ maxLen' < maxLen
    <2>1. /\ TypeOK /\ Len(queue) \in Nat
      BY <1>1, QueueFacts DEF Inv
    <2>2. maxLen \in Nat /\ maxLen' \in Nat
      <3>1. maxLen \in Limit /\ maxLen' \in Limit
        BY <1>1, InvNext DEF Inv, TypeOK
      <3> QED
        BY <3>1, RequestQueueAssumption
    <2>3. \A K \in SUBSET DOMAIN queue : Len(Picked(queue, K)) <= maxLen
      BY <1>1, <2>1, <2>2, KeptIsShorter
    <2>4. ASSUME NEW p \in Packet, Enqueue(p)
          PROVE  Len(queue') <= maxLen'
      <3>1. maxLen' = maxLen
        BY <2>4 DEF Enqueue
      <3> QED
        BY <1>1, <2>4, <3>1, RoomIsMade
    <2>5. ASSUME NEW dst \in Destination, DropPacketWithDst(dst)
          PROVE  Len(queue') <= maxLen'
      BY <2>3, <2>5, PurgeFacts DEF DropPacketWithDst
    <2>6. ASSUME NEW dst \in Destination, NEW iface \in Interface,
                 SendPacketFromQueue(dst, iface)
          PROVE  Len(queue') <= maxLen'
      BY <2>3, <2>6, PurgeFacts DEF SendPacketFromQueue
    <2>7. CASE GetSize
      BY <2>3, <2>7, PurgeFacts DEF GetSize
    <2>8. ASSUME UNCHANGED queue
          PROVE  Len(queue') <= maxLen' \/ maxLen' < maxLen
      BY <1>1, <2>1, <2>2, <2>8
    <2> QED
      BY <1>1, <2>4, <2>5, <2>6, <2>7, <2>8
         DEF Next, SetMaxQueueLen, SetQueueTimeout, Tick, vars
  <1>2. Inv /\ [Next]_vars =>
          [Len(queue) <= maxLen => Len(queue') <= maxLen' \/ maxLen' < maxLen]_vars
    BY <1>1
  <1> QED
    BY <1>2, InvAlways, PTL DEF Spec, KeepsLimit

-----------------------------------------------------------------------------
(***************************************************************************)
(* The queue implements PacketBuffer: positions become packets.            *)
(***************************************************************************)
(* The packets at the positions K.                                         *)
Names(K) == {queue[k].packet : k \in K}

(* As no packet is buffered twice, packets and positions match.            *)
LEMMA NamesFacts ==
  ASSUME TypeOK, Distinct
  PROVE  /\ Held = Names(DOMAIN queue)
         /\ \A K \in SUBSET DOMAIN queue : Names(K) \in SUBSET Packet
         /\ \A J, K \in SUBSET DOMAIN queue :
              /\ Names(J \cup K) = Names(J) \cup Names(K)
              /\ Names(J \ K) = Names(J) \ Names(K)
              /\ J \cap K = {} => Names(J) \cap Names(K) = {}
              /\ J \subseteq K => Names(J) \subseteq Names(K)
         /\ Names({}) = {}
         /\ \A K \in SUBSET DOMAIN queue, k \in DOMAIN queue :
              queue[k].packet \in Names(K) => k \in K
         /\ \A k \in DOMAIN queue : Names({k}) = {queue[k].packet}
  <1>1. \A k \in DOMAIN queue : queue[k].packet \in Packet
    BY QueueFacts
  <1>2. \A K \in SUBSET DOMAIN queue, k \in DOMAIN queue :
          queue[k].packet \in Names(K) => k \in K
    BY DEF Names, Distinct
  <1>3. Held = Names(DOMAIN queue)
    BY DEF Held, Names
  <1>4. ASSUME NEW J \in SUBSET DOMAIN queue, NEW K \in SUBSET DOMAIN queue
        PROVE  /\ Names(J \cup K) = Names(J) \cup Names(K)
               /\ Names(J \ K) = Names(J) \ Names(K)
               /\ J \cap K = {} => Names(J) \cap Names(K) = {}
               /\ J \subseteq K => Names(J) \subseteq Names(K)
    <2>1. Names(J \cup K) = Names(J) \cup Names(K)
      BY DEF Names
    <2>2. Names(J \ K) = Names(J) \ Names(K)
      <3>1. Names(J \ K) \subseteq Names(J) \ Names(K)
        BY <1>2 DEF Names
      <3>2. Names(J) \ Names(K) \subseteq Names(J \ K)
        BY DEF Names
      <3> QED
        BY <3>1, <3>2
    <2>3. J \cap K = {} => Names(J) \cap Names(K) = {}
      BY <1>2 DEF Names
    <2>4. J \subseteq K => Names(J) \subseteq Names(K)
      BY DEF Names
    <2> QED
      BY <2>1, <2>2, <2>3, <2>4
  <1> QED
    BY <1>1, <1>2, <1>3, <1>4 DEF Names

(* How long a packet at a position may wait.                               *)
DueRight == \A k \in DOMAIN queue : Due[queue[k].packet] = queue[k].expire

(* It is as long as its entry says.                                        *)
LEMMA DueFacts == TypeOK /\ Distinct => DueRight
  <1> SUFFICES ASSUME TypeOK, Distinct, NEW k \in DOMAIN queue
               PROVE  Due[queue[k].packet] = queue[k].expire
    BY DEF DueRight
  <1> DEFINE p == queue[k].packet
             at == CHOOSE j \in DOMAIN queue : queue[j].packet = p
  <1>1. at \in DOMAIN queue /\ queue[at].packet = p
    OBVIOUS
  <1>2. at = k
    BY <1>1 DEF Distinct
  <1>3. p \in Held /\ p \in Packet
    BY QueueFacts DEF Held
  <1>4. Due[p] = queue[at].expire
    BY <1>3 DEF Due
  <1> QED
    BY <1>2, <1>4

(* Counting positions is counting their packets once.                      *)
LEMMA CountedOnce ==
  ASSUME TypeOK, Distinct, NEW K \in SUBSET DOMAIN queue,
         NEW count \in [Packet -> Nat]
  PROVE  Counting(count, K) = Buffer!Once(count, Names(K))
  <1>1. ASSUME NEW p \in Packet
        PROVE  Cardinality(K \cap Positions(queue, p)) = IF p \in Names(K) THEN 1 ELSE 0
    <2>1. CASE p \in Names(K)
      <3>1. PICK k \in K : queue[k].packet = p
        BY <2>1 DEF Names
      <3>2. K \cap Positions(queue, p) = {k}
        BY <3>1 DEF Positions, Distinct
      <3> QED
        BY <2>1, <3>2, FS_Singleton
    <2>2. CASE p \notin Names(K)
      <3>1. K \cap Positions(queue, p) = {}
        BY <2>2 DEF Names, Positions
      <3> QED
        BY <2>2, <3>1, FS_EmptySet
    <2> QED
      BY <2>1, <2>2
  <1>2. \A p \in Packet : count[p] \in Nat
    OBVIOUS
  <1>3. \A p \in Packet : count[p] + Cardinality(K \cap Positions(queue, p))
                            = IF p \in Names(K) THEN count[p] + 1 ELSE count[p]
    BY <1>1, <1>2
  <1> QED
    BY <1>3 DEF Counting, Buffer!Once

(* What is picked holds the packets of the positions, due as before.       *)
LEMMA PickedHeld ==
  ASSUME TypeOK, Distinct, NEW K \in SUBSET DOMAIN queue,
         TypeOK', Distinct', queue' = Picked(queue, K)
  PROVE  /\ Held' = Names(K)
         /\ Due' = [p \in Packet |-> IF p \in Names(K) THEN Due[p] ELSE 0]
  <1>1. /\ \A k \in K : /\ Rank(K, k) \in DOMAIN queue'
                        /\ queue'[Rank(K, k)] = queue[k]
        /\ \A r \in DOMAIN queue' : \E k \in K : queue'[r] = queue[k]
    BY QueueFacts, PickedFacts
  <1>2. Held' = Names(K)
    BY <1>1 DEF Held, Names
  <1>3. ASSUME NEW p \in Packet, p \in Names(K)
        PROVE  Due'[p] = Due[p]
    <2>1. PICK k \in K : queue[k].packet = p
      BY <1>3 DEF Names
    <2>2. Due[p] = queue[k].expire
      BY <2>1, DueFacts DEF DueRight
    <2>3. PICK r \in DOMAIN queue' : queue'[r] = queue[k]
      BY <1>1
    <2>4. DueRight'
      BY DueFacts, PTL
    <2> QED
      BY <2>1, <2>2, <2>3, <2>4 DEF DueRight
  <1>4. \A p \in Packet : p \notin Names(K) => Due'[p] = 0
    BY <1>2 DEF Due
  <1>5. Due' = [p \in Packet |-> Due'[p]]
    BY DEF Due
  <1> QED
    BY <1>2, <1>3, <1>4, <1>5

(* A purge keeps the packets that are in time and drops those overdue.     *)
LEMMA TimeFacts ==
  ASSUME TypeOK, Distinct
  PROVE  Buffer!InTime = Names(Fresh) /\ Buffer!Overdue = Names(Outdated)
  <1>1. now \in Nat /\ \A k \in DOMAIN queue : queue[k].expire \in Nat
    BY QueueFacts DEF TypeOK
  <1>2. \A k \in DOMAIN queue : k \in Fresh <=> now <= Due[queue[k].packet]
    BY <1>1, DueFacts DEF DueRight, Fresh, Expired
  <1>3. Buffer!InTime = {p \in Held : now <= Due[p]}
    BY DEF Buffer!InTime
  <1>4. Names(Fresh) = {p \in Held : now <= Due[p]}
    <2>1. Names(Fresh) \subseteq {p \in Held : now <= Due[p]}
      BY <1>2, PurgeFacts DEF Names, Held
    <2>2. {p \in Held : now <= Due[p]} \subseteq Names(Fresh)
      BY <1>2 DEF Names, Held
    <2> QED
      BY <2>1, <2>2
  <1>5. Buffer!Overdue = Held \ Names(Fresh)
    BY <1>3, <1>4 DEF Buffer!Overdue
  <1>6. Names(Outdated) = Names(DOMAIN queue) \ Names(Fresh)
    <2>1. DOMAIN queue \in SUBSET DOMAIN queue /\ Fresh \in SUBSET DOMAIN queue
      BY PurgeFacts
    <2> QED
      BY <2>1, NamesFacts DEF Outdated
  <1> QED
    BY <1>3, <1>4, <1>5, <1>6, NamesFacts

(* Entries that go one way or another are packets that leave.              *)
LEMMA EntriesLeave ==
  ASSUME Inv, Inv',
         NEW Out \in SUBSET DOMAIN queue, NEW Thrown \in SUBSET DOMAIN queue,
         NEW Gone \in SUBSET DOMAIN queue,
         Out \cap Thrown = {}, Out \cap Gone = {}, Thrown \cap Gone = {},
         queue' = Picked(queue, Staying(Out, Thrown, Gone)),
         sent' = Counting(sent, Out),
         discarded' = Counting(discarded, Thrown),
         dropped' = Counting(dropped, Gone),
         UNCHANGED <<maxLen, queueTimeout, now, accepted>>
  PROVE  Buffer!Leave(Names(Out), Names(Thrown), Names(Gone))
  <1> DEFINE All == (Out \cup Thrown) \cup Gone
  <1>1. TypeOK /\ Distinct /\ TypeOK' /\ Distinct'
    BY DEF Inv
  <1>2. All \in SUBSET DOMAIN queue /\ Out \cup Thrown \in SUBSET DOMAIN queue
    OBVIOUS
  <1>3. /\ Names(All) = (Names(Out) \cup Names(Thrown)) \cup Names(Gone)
        /\ Names(Out) \cap Names(Thrown) = {}
        /\ (Names(Out) \cup Names(Thrown)) \cap Names(Gone) = {}
    <2>1. /\ Names((Out \cup Thrown) \cup Gone) = Names(Out \cup Thrown) \cup Names(Gone)
          /\ Names(Out \cup Thrown) = Names(Out) \cup Names(Thrown)
      BY <1>1, <1>2, NamesFacts
    <2>2. /\ Names(Out) \cap Names(Thrown) = {} /\ Names(Out) \cap Names(Gone) = {}
          /\ Names(Thrown) \cap Names(Gone) = {}
      BY <1>1, NamesFacts
    <2> QED
      BY <2>1, <2>2
  <1>4. Staying(Out, Thrown, Gone) = DOMAIN queue \ All
    BY DEF Staying
  <1>5. Names(DOMAIN queue \ All) = Held \ Names(All)
    BY <1>1, <1>2, NamesFacts
  <1>6. /\ Held' = Names(DOMAIN queue \ All)
        /\ Due' = [p \in Packet |-> IF p \in Names(DOMAIN queue \ All) THEN Due[p] ELSE 0]
    BY <1>1, <1>4, PickedHeld
  <1>7. /\ sent' = Buffer!Once(sent, Names(Out))
        /\ discarded' = Buffer!Once(discarded, Names(Thrown))
        /\ dropped' = Buffer!Once(dropped, Names(Gone))
    BY <1>1, CountedOnce DEF TypeOK
  <1>8. Held' = Held \ (Names(Out) \cup Names(Thrown) \cup Names(Gone))
    BY <1>3, <1>5, <1>6
  <1>9. Due' = [p \in Packet |-> IF p \in Held' THEN Due[p] ELSE 0]
    BY <1>6
  <1> QED
    BY <1>3, <1>7, <1>8, <1>9 DEF Buffer!Leave

(* GetSize, and Enqueue of a packet that is there already: only a purge.   *)
LEMMA PurgeForgets ==
  ASSUME Inv, Inv', queue' = Picked(queue, Fresh),
         dropped' = Counting(dropped, Outdated),
         UNCHANGED <<maxLen, queueTimeout, now, accepted, sent, discarded>>
  PROVE  Buffer!Forget
  <1>1. /\ Fresh = Staying({}, {}, Outdated) /\ Outdated \in SUBSET DOMAIN queue
        /\ {} \in SUBSET DOMAIN queue /\ {} \cap {} = {} /\ {} \cap Outdated = {}
    BY PurgeFacts DEF Staying
  <1>2. sent' = Counting(sent, {}) /\ discarded' = Counting(discarded, {})
    BY CountingNothing DEF Inv, TypeOK
  <1>3. Buffer!Leave(Names({}), Names({}), Names(Outdated))
    BY ONLY Inv, Inv', queue' = Picked(queue, Fresh),
            dropped' = Counting(dropped, Outdated),
            UNCHANGED <<maxLen, queueTimeout, now, accepted>>, <1>1, <1>2, EntriesLeave
  <1>4. Names({}) = {} /\ Buffer!Overdue = Names(Outdated)
    BY NamesFacts, TimeFacts DEF Inv
  <1> QED
    BY <1>3, <1>4 DEF Buffer!Forget

(* DropPacketWithDst.                                                      *)
LEMMA DropGivesUp ==
  ASSUME Inv, Inv', NEW dst \in Destination, DropPacketWithDst(dst)
  PROVE  Buffer!GiveUp(dst)
  <1> DEFINE Gone == Outdated \cup BoundFor(dst)
             lost == Names(Gone)
  <1>1. /\ Gone \in SUBSET DOMAIN queue /\ BoundFor(dst) \in SUBSET DOMAIN queue
        /\ Outdated \in SUBSET DOMAIN queue
        /\ Fresh \ BoundFor(dst) = Staying({}, {}, Gone)
    BY PurgeFacts DEF BoundFor, Staying
  <1>2. sent' = Counting(sent, {}) /\ discarded' = Counting(discarded, {})
    BY CountingNothing DEF Inv, TypeOK, DropPacketWithDst
  <1>3. /\ queue' = Picked(queue, Staying({}, {}, Gone))
        /\ dropped' = Counting(dropped, Gone)
        /\ UNCHANGED <<maxLen, queueTimeout, now, accepted>>
    BY <1>1 DEF DropPacketWithDst
  <1>4. Names(BoundFor(dst)) = Held \cap Buffer!For(dst)
    BY NamesFacts DEF Inv, Names, BoundFor, Held, Buffer!For
  <1>5. lost = Buffer!Overdue \cup (Held \cap Buffer!For(dst))
    <2>1. lost = Names(Outdated) \cup Names(BoundFor(dst))
      BY ONLY Inv, <1>1, NamesFacts DEF Inv
    <2> HIDE DEF lost
    <2> QED
      BY <1>4, <2>1, TimeFacts DEF Inv
  <1> HIDE DEF Gone
  <1>6. {} \in SUBSET DOMAIN queue /\ {} \cap {} = {} /\ {} \cap Gone = {}
    OBVIOUS
  <1>7. Buffer!Leave(Names({}), Names({}), lost)
    BY ONLY Inv, Inv', <1>1, <1>2, <1>3, <1>6, EntriesLeave
  <1>8. Names({}) = {}
    BY NamesFacts DEF Inv
  <1> HIDE DEF lost
  <1> QED
    BY <1>5, <1>7, <1>8 DEF Buffer!GiveUp

(* SendPacketFromQueue.                                                    *)
LEMMA FlushHandsOn ==
  ASSUME Inv, Inv', NEW dst \in Destination, NEW iface \in Interface,
         SendPacketFromQueue(dst, iface)
  PROVE  Buffer!HandOn(dst)
  <1> DEFINE mine == Dequeued(dst)
             stop == BoundElsewhere(mine, iface)
             out == Flushed(mine, iface)
             thrown == First(stop)
  <1>1. TypeOK /\ Distinct
    BY DEF Inv
  <1>2. /\ mine \in SUBSET Fresh /\ out \in SUBSET mine /\ thrown \in SUBSET mine
        /\ out \cap thrown = {}
    BY <1>1, FlushFacts
  <1>3. stop \in SUBSET mine /\ (stop = {} => out = mine /\ thrown = {})
    BY DEF BoundElsewhere, Flushed, First
  <1>4. /\ queue' = Picked(queue, Fresh \ (out \cup thrown))
        /\ sent' = Counting(sent, out)
        /\ discarded' = Counting(discarded, thrown)
        /\ dropped' = Counting(dropped, Outdated)
        /\ UNCHANGED <<maxLen, queueTimeout, now, accepted>>
    BY DEF SendPacketFromQueue
  <1>5. Names(mine) = Buffer!InTime \cap Buffer!For(dst)
    <2>1. Names(mine) = Names(Fresh) \cap Buffer!For(dst)
      BY <1>1, NamesFacts, PurgeFacts DEF Dequeued, BoundFor, Names, Buffer!For
    <2> QED
      BY <1>1, <2>1, TimeFacts
  <1> HIDE DEF mine, stop, out, thrown
  <1>6. /\ out \in SUBSET DOMAIN queue /\ thrown \in SUBSET DOMAIN queue
        /\ mine \in SUBSET DOMAIN queue /\ stop \in SUBSET DOMAIN queue
        /\ out \cap Outdated = {} /\ thrown \cap Outdated = {}
        /\ Outdated \in SUBSET DOMAIN queue
        /\ Fresh \ (out \cup thrown) = Staying(out, thrown, Outdated)
    BY <1>2, <1>3, PurgeFacts DEF Staying
  <1>7. Buffer!Leave(Names(out), Names(thrown), Names(Outdated))
    BY ONLY Inv, Inv', <1>2, <1>4, <1>6, EntriesLeave
  <1>8. /\ Names(out) \subseteq Names(mine) /\ Names(thrown) \subseteq Names(mine)
        /\ Names(Outdated) = Buffer!Overdue /\ Names({}) = {}
    BY <1>1, <1>2, <1>6, NamesFacts, TimeFacts
  <1>9. CASE stop = {}
    BY <1>3, <1>5, <1>7, <1>8, <1>9 DEF Buffer!HandOn
  <1>10. CASE stop # {}
    <2>1. PICK k \in stop : thrown = {k}
      <3>1. stop \in SUBSET (1 .. Len(queue)) /\ Len(queue) \in Nat
        BY <1>1, <1>6, QueueFacts
      <3> QED
        BY <1>10, <3>1, FirstFacts DEF thrown
    <2>2. Names(thrown) = {queue[k].packet}
      BY <1>1, <1>6, <2>1, NamesFacts
    <2> DEFINE p == queue[k].packet
    <2>3. p \in Buffer!InTime \cap Buffer!For(dst)
      BY <1>5, <1>8, <2>2
    <2>4. Buffer!Leave(Names(out), {p}, Names(Outdated))
      BY <1>7, <2>2
    <2> HIDE DEF p
    <2> QED
      BY <1>5, <1>8, <2>3, <2>4 DEF Buffer!HandOn
  <1> QED
    BY <1>9, <1>10

(* As many packets as positions.                                           *)
LEMMA NamesCount ==
  ASSUME TypeOK, Distinct, NEW K \in SUBSET DOMAIN queue
  PROVE  Cardinality(Names(K)) = Cardinality(K)
  <1> DEFINE f == [k \in K |-> queue[k].packet]
  <1>1. IsFiniteSet(K)
    BY QueueFacts, PositionsFinite
  <1>2. f \in Bijection(K, Names(K))
    <2>1. f \in [K -> Names(K)]
      BY DEF Names
    <2>2. \A j, k \in K : f[j] = f[k] => j = k
      BY DEF Distinct
    <2>3. \A p \in Names(K) : \E k \in K : f[k] = p
      BY DEF Names
    <2> QED
      BY <2>1, <2>2, <2>3 DEF Bijection, Injection, IsInjective, Surjection
  <1>3. ExistsBijection(K, Names(K))
    BY <1>2 DEF ExistsBijection
  <1> QED
    BY <1>1, <1>3, FS_Bijection

(* Only a full queue makes room, by one packet.                            *)
LEMMA WhoMakesRoom ==
  ASSUME TypeOK, Distinct, Overflow # {}
  PROVE  /\ Cardinality(Names(Overflow)) = 1
         /\ Cardinality(Names(Fresh)) = maxLen
  <1>1. Cardinality(Fresh) = maxLen /\ Overflow = First(Fresh)
    BY DEF Overflow
  <1>2. Fresh \in SUBSET (1 .. Len(queue)) /\ Len(queue) \in Nat /\ Fresh # {}
    BY PurgeFacts, OverflowFacts, QueueFacts
  <1>3. PICK k \in Fresh : Overflow = {k}
    BY <1>1, <1>2, FirstFacts
  <1>4. Names(Overflow) = {queue[k].packet}
    BY <1>3, PurgeFacts, NamesFacts
  <1> QED
    BY <1>1, <1>4, FS_Singleton, NamesCount, PurgeFacts

(* A new packet is held on top of those that stay, and is due in time.     *)
LEMMA AppendedHeld ==
  ASSUME TypeOK, Distinct, TypeOK', Distinct', NEW K \in SUBSET DOMAIN queue,
         NEW e \in Entry, queue' = Append(Picked(queue, K), e)
  PROVE  /\ Held' = Names(K) \cup {e.packet}
         /\ Due' = [q \in Packet |-> IF q = e.packet THEN e.expire
                                     ELSE IF q \in Held' THEN Due[q] ELSE 0]
  <1> DEFINE s == Picked(queue, K)
  <1>1. s \in Seq(Entry) /\ DOMAIN s = 1 .. Len(s)
    BY QueueFacts, PickedFacts
  <1>2. /\ \A k \in K : \E r \in DOMAIN s : s[r] = queue[k]
        /\ \A r \in DOMAIN s : \E k \in K : s[r] = queue[k]
    BY QueueFacts, PickedFacts
  <1> HIDE DEF s
  <1>3. /\ DOMAIN queue' = (1 .. Len(s)) \cup {Len(s) + 1}
        /\ \A r \in 1 .. Len(s) : queue'[r] = s[r]
        /\ queue'[Len(s) + 1] = e
    <2>1. queue' = Append(s, e)
      BY DEF s
    <2> QED
      BY ONLY <1>1, <2>1, e \in Entry
  <1>4. /\ \A k \in K : \E r \in DOMAIN queue' : queue'[r] = queue[k]
        /\ \A r \in DOMAIN queue' : queue'[r] = e \/ \E k \in K : queue'[r] = queue[k]
        /\ \E r \in DOMAIN queue' : queue'[r] = e
    BY ONLY <1>1, <1>2, <1>3
  <1>5. Held' = Names(K) \cup {e.packet}
    BY ONLY <1>4 DEF Held, Names
  <1>6. DueRight /\ DueRight'
    BY DueFacts, PTL
  <1>7. ASSUME NEW q \in Packet
        PROVE  Due'[q] = IF q = e.packet THEN e.expire
                         ELSE IF q \in Held' THEN Due[q] ELSE 0
    <2>1. CASE q = e.packet
      BY ONLY <1>4, <1>6, <2>1 DEF DueRight
    <2>2. CASE q # e.packet /\ q \in Held'
      <3>1. PICK k \in K : queue[k].packet = q
        BY ONLY <1>5, <2>2 DEF Names
      <3>2. PICK r \in DOMAIN queue' : queue'[r] = queue[k]
        BY <1>4
      <3> QED
        BY ONLY <1>6, <2>2, <3>1, <3>2, K \in SUBSET DOMAIN queue DEF DueRight
    <2>3. CASE q # e.packet /\ q \notin Held'
      BY ONLY <2>3, q \in Packet DEF Due
    <2> QED
      BY <2>1, <2>2, <2>3
  <1>8. Due' = [q \in Packet |-> Due'[q]]
    BY ONLY TRUE DEF Due
  <1> QED
    BY ONLY <1>5, <1>7, <1>8

(* Enqueue of a packet that is not there.                                  *)
LEMMA NewIsAccepted ==
  ASSUME Inv, Inv', NEW p \in Packet, Fresh \cap Positions(queue, p) = {},
         queue' = Append(Picked(queue, Fresh \ Overflow), Stamped(p)),
         dropped' = Counting(dropped, Outdated \cup Overflow),
         accepted' = [accepted EXCEPT ![p] = @ + 1],
         UNCHANGED <<maxLen, queueTimeout, now, sent, discarded>>
  PROVE  Buffer!Accept(p, queueTimeout)
  <1> DEFINE Kept == Fresh \ Overflow
             lost == Names(Outdated)
             pushed == Names(Overflow)
  <1>1. TypeOK /\ Distinct /\ TypeOK' /\ Distinct'
    BY DEF Inv
  <1>2. Stamped(p) \in Entry /\ Stamped(p).packet = p
        /\ Stamped(p).expire = now + queueTimeout
    BY <1>1, RequestQueueAssumption DEF TypeOK, Stamped, Entry
  <1>3. /\ Fresh \in SUBSET DOMAIN queue /\ Overflow \in SUBSET DOMAIN queue
        /\ Outdated \in SUBSET DOMAIN queue /\ Kept \in SUBSET DOMAIN queue
        /\ Overflow \subseteq Fresh
    BY PurgeFacts, OverflowFacts
  <1>4. /\ Names(Kept) = Names(Fresh) \ pushed
        /\ Names(Outdated \cup Overflow) = lost \cup pushed
        /\ pushed \subseteq Names(Fresh)
    BY ONLY <1>1, <1>3, NamesFacts
  <1>5. Names(Fresh) = Buffer!InTime /\ lost = Buffer!Overdue
    BY <1>1, TimeFacts
  <1>6. Held \ lost = Names(Fresh)
    BY <1>5 DEF Buffer!InTime, Buffer!Overdue
  <1>7. p \notin Held \ lost
    BY <1>6 DEF Names, Positions, Fresh
  <1>8. pushed # {} => Cardinality(pushed) = 1 /\ Cardinality(Held \ lost) = maxLen
    <2>1. ASSUME pushed # {}
          PROVE  Overflow # {}
      BY <1>1, <2>1, NamesFacts
    <2> QED
      BY <1>1, <1>6, <2>1, WhoMakesRoom
  <1>9. /\ Held' = Names(Kept) \cup {p}
        /\ Due' = [q \in Packet |-> IF q = p THEN now + queueTimeout
                                    ELSE IF q \in Held' THEN Due[q] ELSE 0]
    BY ONLY <1>1, <1>2, <1>3, AppendedHeld,
            queue' = Append(Picked(queue, Fresh \ Overflow), Stamped(p))
  <1>10. Held' = (Held \ (lost \cup pushed)) \cup {p}
    BY ONLY <1>4, <1>6, <1>9
  <1>11. dropped' = Buffer!Once(dropped, lost \cup pushed)
    BY ONLY <1>1, <1>3, <1>4, CountedOnce,
            dropped' = Counting(dropped, Outdated \cup Overflow) DEF TypeOK
  <1>12. accepted' = Buffer!Once(accepted, {p})
    BY ONLY <1>1, p \in Packet, accepted' = [accepted EXCEPT ![p] = @ + 1]
       DEF TypeOK, Buffer!Once
  <1> HIDE DEF lost, pushed
  <1>13. lost \in SUBSET Buffer!Overdue /\ pushed \in SUBSET Buffer!InTime
    BY <1>4, <1>5
  <1>14. /\ p \notin Held \ lost
         /\ pushed # {} => Cardinality(pushed) = 1 /\ Cardinality(Held \ lost) = maxLen
         /\ Held' = (Held \ (lost \cup pushed)) \cup {p}
         /\ Due' = [q \in Packet |-> IF q = p THEN now + queueTimeout
                                     ELSE IF q \in Held' THEN Due[q] ELSE 0]
         /\ dropped' = Buffer!Once(dropped, lost \cup pushed)
         /\ accepted' = Buffer!Once(accepted, {p})
         /\ UNCHANGED <<maxLen, now, sent, discarded>>
    BY <1>7, <1>8, <1>9, <1>10, <1>11, <1>12
  <1>15. \A S : Buffer!Cardinality(S) = Cardinality(S)
    BY ONLY TRUE DEF Buffer!Cardinality, Cardinality, Buffer!IsFiniteSet, IsFiniteSet
  <1> QED
    BY ONLY <1>13, <1>14, <1>15 DEF Buffer!Accept

(* The empty queue holds no packet.                                        *)
LEMMA BufferInit == Init => Buffer!Init
  <1> SUFFICES ASSUME Init
               PROVE  Buffer!Init
    OBVIOUS
  <1>1. Held = {}
    BY DEF Init, Held
  <1>2. Due = [p \in Packet |-> 0]
    BY <1>1 DEF Due
  <1> QED
    BY <1>1, <1>2 DEF Init, Buffer!Init, None, Buffer!Never

(* While the queue stays as it is, so do the packets held.                 *)
LEMMA QueueStays ==
  ASSUME UNCHANGED queue
  PROVE  UNCHANGED <<Held, Due>>
  <1>1. Held' = Held
    BY DEF Held
  <1> QED
    BY <1>1 DEF Due

(* Each step of the queue is a step of the buffer, or none.                *)
LEMMA BufferNext == Inv /\ Inv' /\ [Next]_vars => [Buffer!Next]_(Buffer!buffer)
  <1> SUFFICES ASSUME Inv, Inv', [Next]_vars
               PROVE  Buffer!Next \/ UNCHANGED Buffer!buffer
    BY DEF Buffer!buffer
  <1>1. ASSUME NEW p \in Packet, Enqueue(p)
        PROVE  Buffer!Next
    <2>1. CASE Fresh \cap Positions(queue, p) # {}
      BY <1>1, <2>1, PurgeForgets DEF Enqueue, Buffer!Next
    <2>2. CASE Fresh \cap Positions(queue, p) = {}
      <3>1. Buffer!Accept(p, queueTimeout)
        BY <1>1, <2>2, NewIsAccepted DEF Enqueue
      <3>2. queueTimeout \in QueueTimeout
        BY DEF Inv, TypeOK
      <3> QED
        BY ONLY <3>1, <3>2, p \in Packet DEF Buffer!Next
    <2> QED
      BY <2>1, <2>2
  <1>2. ASSUME NEW dst \in Destination, DropPacketWithDst(dst)
        PROVE  Buffer!Next
    BY <1>2, DropGivesUp DEF Buffer!Next
  <1>3. ASSUME NEW dst \in Destination, NEW iface \in Interface,
               SendPacketFromQueue(dst, iface)
        PROVE  Buffer!Next
    BY <1>3, FlushHandsOn DEF Buffer!Next
  <1>4. CASE GetSize
    BY <1>4, PurgeForgets DEF GetSize, Buffer!Next
  <1>5. ASSUME NEW len \in Limit, SetMaxQueueLen(len)
        PROVE  Buffer!Next
    BY <1>5, QueueStays DEF SetMaxQueueLen, counts, Buffer!Next, Buffer!SetRoom
  <1>6. ASSUME NEW timeout \in QueueTimeout, SetQueueTimeout(timeout)
        PROVE  UNCHANGED Buffer!buffer
    BY <1>6, QueueStays DEF SetQueueTimeout, counts, Buffer!buffer
  <1>7. CASE Tick
    BY <1>7, QueueStays DEF Tick, counts, Buffer!Next, Buffer!Pass
  <1>8. CASE UNCHANGED vars
    BY <1>8, QueueStays DEF vars, Buffer!buffer
  <1> QED
    BY <1>1, <1>2, <1>3, <1>4, <1>5, <1>6, <1>7, <1>8 DEF Next

(* The queue implements PacketBuffer: every packet leaves it once and with *)
(* cause (RequestQueue; RoutingProtocol::SendPacketFromQueue).             *)
THEOREM QueueIsABuffer == Spec => BufferSpec
  BY BufferInit, BufferNext, InvAlways, PTL DEF Spec, BufferSpec, Buffer!Spec
=============================================================================
