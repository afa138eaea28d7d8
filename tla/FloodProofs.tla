---------------------------- MODULE FloodProofs -----------------------------
(***************************************************************************)
(* Module Flood for every network, hop time and search ring: a node takes  *)
(* a flood for new at most once, although it forgets, and never takes a    *)
(* new one for a duplicate.                                                *)
(***************************************************************************)
EXTENDS Flood, FiniteSetTheorems, TLAPS

MaxTtl == IF DataTtl > NetDiameter THEN DataTtl ELSE NetDiameter

(* What the assumption says of the constants, one by one.                  *)
LEMMA ConstantFacts ==
  /\ IsFiniteSet(Node) /\ Everybody \notin Node /\ Nobody \notin Node
  /\ NetDiameter \in Nat /\ DataTtl \in Nat /\ MaxDelay \in Nat /\ Lifetime \in Nat
  /\ NetDiameter >= 1 /\ DataTtl >= 1 /\ MaxDelay >= 1 /\ Lifetime >= 1
  /\ Cardinality(Node) \in Nat
  /\ MaxTtl \in Nat /\ MaxTtl >= 1 /\ NetDiameter <= MaxTtl /\ DataTtl <= MaxTtl
  /\ \A ttl \in Ring : ttl \in Nat /\ ttl >= 1 /\ ttl <= MaxTtl
  <1>1. /\ IsFiniteSet(Node) /\ Everybody \notin Node /\ Nobody \notin Node
        /\ NetDiameter \in Nat /\ DataTtl \in Nat /\ MaxDelay \in Nat
        /\ Lifetime \in Nat
        /\ NetDiameter >= 1 /\ DataTtl >= 1 /\ MaxDelay >= 1 /\ Lifetime >= 1
        /\ \A ttl \in Ring : ttl \in Nat /\ ttl >= 1 /\ ttl <= NetDiameter
    BY FloodAssumption
  <1>2. /\ MaxTtl \in Nat /\ MaxTtl >= 1 /\ NetDiameter <= MaxTtl
        /\ DataTtl <= MaxTtl
    BY <1>1 DEF MaxTtl
  <1>3. \A ttl \in Ring : ttl <= MaxTtl
    BY <1>1, <1>2
  <1>4. Cardinality(Node) \in Nat
    BY <1>1, FS_CardinalityType
  <1> QED
    BY <1>1, <1>2, <1>3, <1>4

(* Times of several hops.                                                  *)
LEMMA Hops ==
  /\ \A a \in Nat : a * MaxDelay \in Nat
  /\ \A a, b \in Nat : a <= b => a * MaxDelay <= b * MaxDelay
  /\ \A a \in Nat : (a + 1) * MaxDelay = a * MaxDelay + MaxDelay
  /\ 1 * MaxDelay = MaxDelay
  <1>1. MaxDelay \in Nat
    BY ConstantFacts
  <1>2. ASSUME NEW a \in Nat, NEW b \in Nat, a <= b
        PROVE  a * MaxDelay <= b * MaxDelay
    <2>1. PICK c \in Nat : b = a + c
      <3>1. b - a \in Nat /\ b = a + (b - a)
        BY <1>2
      <3> QED
        BY <3>1
    <2>2. b * MaxDelay = a * MaxDelay + c * MaxDelay
      BY <1>1, <2>1
    <2>3. c * MaxDelay \in Nat /\ a * MaxDelay \in Nat
      BY <1>1
    <2> QED
      BY <2>2, <2>3
  <1> QED
    BY <1>1, <1>2

(* A bag of a set of floods, one copy each.                                *)
LEMMA SetBags ==
  ASSUME NEW S
  PROVE  /\ IsABag(SetToBag(S)) /\ BagToSet(SetToBag(S)) = S
         /\ \A f \in S : SetToBag(S)[f] = 1
         /\ \A f : f \notin S => SetToBag(S) (+) SetToBag({f}) = SetToBag(S \cup {f})
  BY DEF SetToBag, BagToSet, IsABag, (+)

-----------------------------------------------------------------------------
(***************************************************************************)
(* The invariant.  The state does not say when a flood was started, nor    *)
(* what has become of one that nobody remembers; the invariant says that   *)
(* there is an account of it: the set F of the floods ever started, their  *)
(* starting times s, and for each node the set D[n] of those it took for   *)
(* new.  A copy on its way is not later than its hops allow, counted by    *)
(* its TTL and by the nodes that relayed the flood; and who took a flood   *)
(* for new, or started a request, has an entry for it as long as copies    *)
(* can be on their way.                                                    *)
(***************************************************************************)
Copy == [flood : Flood, to : Node, ttl : Nat \ {0}, due : Nat]

Key(f) == <<CacheFor(f), f.origin, f.id>>

Made(f, req, u) == IF f.kind = "DATA" THEN u ELSE req[f.origin]

Relayers(f, D) == {f.origin} \cup {n \in Node : f \in D[n]}

Typed(F, s, D, t, req, u, C) ==
  /\ F \subseteq Flood /\ s \in [F -> Nat] /\ D \in [Node -> SUBSET F]
  /\ t \in Nat /\ u \in Nat /\ req \in [Node -> Nat]
  /\ C \in [Node -> [Cache -> SUBSET Id]]

Named(F, s, t, req, u) ==
  /\ \A f, g \in F : Key(f) = Key(g) => f = g
  /\ \A f \in F : s[f] <= t /\ f.id <= Made(f, req, u)

OnTime(c, F, s, D, t) ==
  /\ c \in Copy /\ c.flood \in F /\ c.ttl <= MaxTtl
  /\ t <= c.due /\ c.due <= t + MaxDelay
  /\ c.due <= s[c.flood] + (MaxTtl - c.ttl + 1) * MaxDelay
  /\ c.due <= s[c.flood] + Cardinality(Relayers(c.flood, D)) * MaxDelay

Foreign(D) == \A n \in Node : \A f \in D[n] : f.origin # n

Noticed(n, k, e, F, D) ==
  \E f \in F : /\ Key(f) = <<k, e.context, e.id>>
               /\ f.origin = n \/ f \in D[n] \/ f.dst = n

Told(n, f, D) == f \in D[n] \/ (f.origin = n /\ f.kind # "DATA")

Remembered(n, f, s, C) ==
  \E e \in C[n][CacheFor(f)] : /\ e.context = f.origin /\ e.id = f.id
                               /\ e.expire >= s[f] + Lifetime

Tracked(F, s, D, t, req, u, C, fl) ==
  /\ Typed(F, s, D, t, req, u, C)
  /\ Named(F, s, t, req, u)
  /\ \A c \in fl : OnTime(c, F, s, D, t)
  /\ Foreign(D)
  /\ \A n \in Node, k \in Cache : \A e \in C[n][k] : Noticed(n, k, e, F, D)
  /\ \A n \in Node : \A f \in F :
       Told(n, f, D) /\ t <= s[f] + Lifetime => Remembered(n, f, s, C)

Bags(D) == [n \in Node |-> SetToBag(D[n])]

Inv ==
  /\ started \in Nat
  /\ \E F, s, D : /\ handled = Bags(D)
                  /\ Tracked(F, s, D, now, requestId, uid, cache, flight)

(* What noting a flood does to a cache: nothing that still counts is lost. *)
LEMMA NotedFacts ==
  ASSUME now \in Nat, NEW ids \in SUBSET Id, NEW f \in Flood
  PROVE  /\ Noted(ids, f) \in SUBSET Id
         /\ \A e \in ids : e.expire >= now => e \in Noted(ids, f)
         /\ \A e \in Noted(ids, f) :
              e \in ids \/ (e.context = f.origin /\ e.id = f.id /\ ~Knows(ids, f))
         /\ ~Knows(ids, f) =>
              \E e \in Noted(ids, f) : /\ e.context = f.origin /\ e.id = f.id
                                       /\ e.expire = now + Lifetime
  <1> DEFINE new == [context |-> f.origin, id |-> f.id, expire |-> now + Lifetime]
  <1>1. new \in Id /\ new.context = f.origin /\ new.id = f.id
        /\ new.expire = now + Lifetime
    BY ConstantFacts DEF Id, Flood
  <1>2. Noted(ids, f) = Purged(ids) \cup (IF Knows(ids, f) THEN {} ELSE {new})
    BY DEF Noted
  <1> HIDE DEF new
  <1>3. \A e \in ids : e.expire \in Nat
    BY DEF Id
  <1>4. \A e : e \in Purged(ids) <=> e \in ids /\ e.expire >= now
    BY <1>3 DEF Purged
  <1> QED
    BY <1>1, <1>2, <1>4 DEF Id

(* The two counts of hops bound a copy's time by the lifetime of an id.    *)
LEMMA InTime ==
  ASSUME NEW F, NEW s, NEW D, NEW t, NEW req, NEW u, NEW C, NEW fl,
         Tracked(F, s, D, t, req, u, C, fl), NEW c \in fl
  PROVE  /\ c.flood \in F /\ c.flood \in Flood /\ c.to \in Node
         /\ c.ttl \in Nat /\ c.ttl >= 1 /\ c.due \in Nat /\ t \in Nat
         /\ s[c.flood] \in Nat
         /\ t <= c.due /\ c.due <= s[c.flood] + Lifetime
  <1> DEFINE f == c.flood
             R == Relayers(f, D)
             k == MaxTtl - c.ttl + 1
             r == Cardinality(R)
             N == Cardinality(Node)
  <1>1. /\ c \in Copy /\ f \in F /\ c.ttl <= MaxTtl /\ t <= c.due
        /\ c.due <= s[f] + k * MaxDelay /\ c.due <= s[f] + r * MaxDelay
    BY DEF Tracked, OnTime
  <1>2. /\ f \in Flood /\ c.to \in Node /\ c.ttl \in Nat /\ c.ttl >= 1
        /\ c.due \in Nat /\ s[f] \in Nat /\ t \in Nat
    BY <1>1 DEF Tracked, Typed, Copy
  <1>3. k \in Nat /\ k <= MaxTtl
    BY <1>1, <1>2, ConstantFacts
  <1>4. r \in Nat /\ r <= N /\ N \in Nat
    <2>1. R \in SUBSET Node
      BY <1>2 DEF Relayers, Flood
    <2> HIDE DEF R
    <2> QED
      BY <2>1, ConstantFacts, FS_Subset, FS_CardinalityType
  <1>5. LongestPath = IF MaxTtl < N THEN MaxTtl ELSE N
    BY DEF LongestPath, MaxTtl
  <1> HIDE DEF k, r, N, f
  <1>6. k * MaxDelay <= MaxTtl * MaxDelay /\ r * MaxDelay <= N * MaxDelay
    BY <1>3, <1>4, Hops, ConstantFacts
  <1>7. k * MaxDelay \in Nat /\ r * MaxDelay \in Nat /\ MaxTtl * MaxDelay \in Nat
        /\ N * MaxDelay \in Nat
    BY <1>3, <1>4, Hops, ConstantFacts
  <1>8. LongestPath * MaxDelay <= Lifetime
    BY FloodAssumption
  <1>9. MaxTtl * MaxDelay <= Lifetime \/ N * MaxDelay <= Lifetime
    BY <1>5, <1>8
  <1>10. c.due <= s[f] + Lifetime
    <2> DEFINE a == k * MaxDelay
               b == r * MaxDelay
               p == MaxTtl * MaxDelay
               q == N * MaxDelay
    <2>1. /\ a \in Nat /\ b \in Nat /\ p \in Nat /\ q \in Nat
          /\ a <= p /\ b <= q /\ (p <= Lifetime \/ q <= Lifetime)
          /\ c.due <= s[f] + a /\ c.due <= s[f] + b
      BY <1>1, <1>6, <1>7, <1>9
    <2> HIDE DEF a, b, p, q
    <2> QED
      BY <1>2, <2>1, ConstantFacts
  <1> QED
    BY <1>1, <1>2, <1>10 DEF f

(* A node that took a flood for new, or started a request, recognises      *)
(* every copy of it that arrives.                                          *)
LEMMA Recognised ==
  ASSUME NEW F, NEW s, NEW D, NEW req, NEW u, NEW C, NEW fl,
         Tracked(F, s, D, now, req, u, C, fl), NEW c \in fl,
         NEW n \in Node, Told(n, c.flood, D)
  PROVE  Knows(C[n][CacheFor(c.flood)], c.flood)
  <1> DEFINE f == c.flood
             ids == C[n][CacheFor(f)]
  <1>1. f \in F /\ now \in Nat /\ s[f] \in Nat /\ now <= s[f] + Lifetime
    BY InTime, ConstantFacts
  <1>2. Remembered(n, f, s, C)
    BY <1>1 DEF Tracked
  <1>3. CacheFor(f) \in Cache
    BY DEF CacheFor, Cache
  <1>4. ids \in SUBSET Id
    BY <1>3 DEF Tracked, Typed
  <1> HIDE DEF f
  <1>5. PICK e \in ids : /\ e.context = f.origin /\ e.id = f.id
                         /\ e.expire >= s[f] + Lifetime
    BY <1>2 DEF Remembered
  <1>6. e.expire \in Nat /\ ~(e.expire < now)
    BY <1>1, <1>4, <1>5, ConstantFacts DEF Id
  <1> QED
    BY <1>5, <1>6 DEF Knows, Purged, f

(* A node that notes a flood forgets nothing that still counts.            *)
LEMMA CacheNoted ==
  ASSUME now \in Nat, NEW C \in [Node -> [Cache -> SUBSET Id]],
         NEW n \in Node, NEW f \in Flood
  PROVE  LET k == CacheFor(f)
             C2 == [C EXCEPT ![n][k] = Noted(@, f)]
         IN  /\ C2 \in [Node -> [Cache -> SUBSET Id]]
             /\ \A m \in Node, j \in Cache : \A e \in C2[m][j] :
                  \/ e \in C[m][j]
                  \/ m = n /\ j = k /\ e.context = f.origin /\ e.id = f.id
             /\ \A m \in Node, j \in Cache : \A e \in C[m][j] :
                  e.expire >= now => e \in C2[m][j]
             /\ ~Knows(C[n][k], f) =>
                  \E e \in C2[n][k] : /\ e.context = f.origin /\ e.id = f.id
                                      /\ e.expire = now + Lifetime
  <1> DEFINE k == CacheFor(f)
             ids == C[n][k]
             C2 == [C EXCEPT ![n][k] = Noted(@, f)]
  <1>1. k \in Cache
    BY DEF CacheFor, Cache
  <1> HIDE DEF k
  <1>2. ids \in SUBSET Id
    BY <1>1
  <1>3. /\ C2[n][k] = Noted(ids, f)
        /\ \A m \in Node, j \in Cache : m # n \/ j # k => C2[m][j] = C[m][j]
    BY <1>1
  <1>4. /\ Noted(ids, f) \in SUBSET Id
        /\ \A e \in ids : e.expire >= now => e \in Noted(ids, f)
        /\ \A e \in Noted(ids, f) :
             e \in ids \/ (e.context = f.origin /\ e.id = f.id)
        /\ ~Knows(ids, f) =>
             \E e \in Noted(ids, f) : /\ e.context = f.origin /\ e.id = f.id
                                      /\ e.expire = now + Lifetime
    <2> HIDE DEF ids
    <2> QED
      BY <1>2, NotedFacts
  <1>5. C2 \in [Node -> [Cache -> SUBSET Id]]
    BY <1>1, <1>4
  <1> HIDE DEF C2
  <1>6. \A m \in Node, j \in Cache : \A e \in C2[m][j] :
          \/ e \in C[m][j]
          \/ m = n /\ j = k /\ e.context = f.origin /\ e.id = f.id
    BY <1>3, <1>4
  <1>7. \A m \in Node, j \in Cache : \A e \in C[m][j] :
          e.expire >= now => e \in C2[m][j]
    BY <1>3, <1>4
  <1>8. ~Knows(ids, f) =>
          \E e \in C2[n][k] : /\ e.context = f.origin /\ e.id = f.id
                              /\ e.expire = now + Lifetime
    BY <1>3, <1>4
  <1> QED
    BY <1>5, <1>6, <1>7, <1>8 DEF C2, k

(* What a node remembers long enough it remembers after noting a flood.    *)
LEMMA StillRemembered ==
  ASSUME now \in Nat, NEW C \in [Node -> [Cache -> SUBSET Id]], NEW C2,
         \A m \in Node, j \in Cache : \A e \in C[m][j] :
           e.expire >= now => e \in C2[m][j],
         NEW s, NEW m \in Node, NEW g, s[g] \in Nat, now <= s[g] + Lifetime,
         Remembered(m, g, s, C)
  PROVE  Remembered(m, g, s, C2)
  <1>1. CacheFor(g) \in Cache
    BY DEF CacheFor, Cache
  <1>2. PICK e \in C[m][CacheFor(g)] : /\ e.context = g.origin /\ e.id = g.id
                                       /\ e.expire >= s[g] + Lifetime
    BY DEF Remembered
  <1>3. e.expire \in Nat
    BY <1>1 DEF Id
  <1>4. e.expire >= now
    BY <1>2, <1>3, ConstantFacts
  <1> QED
    BY <1>1, <1>2, <1>4 DEF Remembered

(* A node drops, or takes for itself, a copy of a flood it knows or that   *)
(* is meant for it.                                                        *)
LEMMA NoteStep ==
  ASSUME NEW F, NEW s, NEW D, NEW req, NEW u, NEW C, NEW fl, NEW fl2,
         Tracked(F, s, D, now, req, u, C, fl), fl2 \subseteq fl,
         NEW n \in Node, NEW f \in F,
         f.dst = n \/ Knows(C[n][CacheFor(f)], f)
  PROVE  Tracked(F, s, D, now, req, u,
                 [C EXCEPT ![n][CacheFor(f)] = Noted(@, f)], fl2)
  <1> DEFINE k == CacheFor(f)
             C2 == [C EXCEPT ![n][CacheFor(f)] = Noted(@, f)]
  <1>1. /\ Typed(F, s, D, now, req, u, C) /\ Named(F, s, now, req, u)
        /\ \A c \in fl : OnTime(c, F, s, D, now)
        /\ Foreign(D)
        /\ \A m \in Node, j \in Cache : \A e \in C[m][j] : Noticed(m, j, e, F, D)
        /\ \A m \in Node : \A g \in F :
             Told(m, g, D) /\ now <= s[g] + Lifetime => Remembered(m, g, s, C)
    BY DEF Tracked
  <1>2. /\ f \in Flood /\ now \in Nat /\ C \in [Node -> [Cache -> SUBSET Id]]
        /\ \A g \in F : s[g] \in Nat
    BY <1>1 DEF Typed
  <1>3. k \in Cache
    BY DEF CacheFor, Cache
  <1>4. /\ C2 \in [Node -> [Cache -> SUBSET Id]]
        /\ \A m \in Node, j \in Cache : \A e \in C2[m][j] :
             \/ e \in C[m][j]
             \/ m = n /\ j = k /\ e.context = f.origin /\ e.id = f.id
        /\ \A m \in Node, j \in Cache : \A e \in C[m][j] :
             e.expire >= now => e \in C2[m][j]
        /\ ~Knows(C[n][k], f) =>
             \E e \in C2[n][k] : /\ e.context = f.origin /\ e.id = f.id
                                 /\ e.expire = now + Lifetime
    BY <1>2, CacheNoted
  <1> HIDE DEF C2
  <1>5. Typed(F, s, D, now, req, u, C2)
    BY <1>1, <1>4 DEF Typed
  <1>6. \A m \in Node, j \in Cache : \A e \in C2[m][j] : Noticed(m, j, e, F, D)
    <2>1. ASSUME NEW e, e.context = f.origin, e.id = f.id
          PROVE  Noticed(n, k, e, F, D)
      <3>1. CASE f.dst = n
        BY <2>1, <3>1 DEF Noticed, Key
      <3>2. CASE Knows(C[n][k], f)
        <4>1. PICK a \in C[n][k] : a.context = f.origin /\ a.id = f.id
          BY <3>2 DEF Knows, Purged
        <4>2. Noticed(n, k, a, F, D)
          BY <1>1, <1>3, <4>1
        <4> QED
          BY <2>1, <4>1, <4>2 DEF Noticed
      <3> QED
        BY <3>1, <3>2
    <2> QED
      BY <1>1, <1>4, <2>1
  <1>7. \A m \in Node : \A g \in F :
          Told(m, g, D) /\ now <= s[g] + Lifetime => Remembered(m, g, s, C2)
    BY <1>1, <1>2, <1>4, StillRemembered
  <1> QED
    BY <1>1, <1>5, <1>6, <1>7 DEF Tracked, C2

(* A node that takes a flood for new is one more that may have relayed it. *)
LEMMA OneMoreRelayer ==
  ASSUME NEW f \in Flood, NEW D \in [Node -> SUBSET Flood],
         NEW n \in Node, f \notin D[n], f.origin # n
  PROVE  LET D2 == [D EXCEPT ![n] = @ \cup {f}]
         IN  /\ Cardinality(Relayers(f, D)) \in Nat
             /\ Cardinality(Relayers(f, D2)) = Cardinality(Relayers(f, D)) + 1
             /\ \A g \in Flood : g # f => Relayers(g, D2) = Relayers(g, D)
  <1> DEFINE D2 == [D EXCEPT ![n] = @ \cup {f}]
             R == Relayers(f, D)
  <1>1. \A m \in Node : \A g : g \in D2[m] <=> g \in D[m] \/ (m = n /\ g = f)
    OBVIOUS
  <1> HIDE DEF D2
  <1>2. R \in SUBSET Node /\ n \notin R
    BY DEF Relayers, Flood
  <1>3. Relayers(f, D2) = R \cup {n}
    BY <1>1 DEF Relayers
  <1>4. \A g \in Flood : g # f => Relayers(g, D2) = Relayers(g, D)
    BY <1>1 DEF Relayers
  <1> HIDE DEF R
  <1>5. IsFiniteSet(R)
    BY <1>2, ConstantFacts, FS_Subset
  <1>6. Cardinality(R) \in Nat /\ Cardinality(R \cup {n}) = Cardinality(R) + 1
    BY <1>2, <1>5, FS_CardinalityType, FS_AddElement
  <1> QED
    BY <1>3, <1>4, <1>6 DEF R, D2

(* The copies on their way stay on time when a node takes one for new, and *)
(* so are those that it relays.                                            *)
LEMMA RelayedOnTime ==
  ASSUME NEW F, NEW s, NEW D, NEW req, NEW u, NEW C, NEW fl,
         Tracked(F, s, D, now, req, u, C, fl), NEW c \in fl,
         NEW n \in Node, c.flood \notin D[n], c.flood.origin # n
  PROVE  LET D2 == [D EXCEPT ![n] = @ \cup {c.flood}]
         IN  \A x \in fl \cup Relay(n, c) : OnTime(x, F, s, D2, now)
  <1> DEFINE f == c.flood
             D2 == [D EXCEPT ![n] = @ \cup {f}]
             r == Cardinality(Relayers(f, D))
             k == MaxTtl - c.ttl + 1
  <1>1. /\ c \in Copy /\ f \in F /\ c.ttl <= MaxTtl /\ now <= c.due
        /\ c.due <= s[f] + k * MaxDelay /\ c.due <= s[f] + r * MaxDelay
    BY DEF Tracked, OnTime
  <1>2. /\ f \in Flood /\ F \subseteq Flood /\ now \in Nat /\ c.ttl \in Nat
        /\ c.ttl >= 1 /\ c.due \in Nat /\ \A g \in F : s[g] \in Nat
        /\ D \in [Node -> SUBSET Flood]
    BY <1>1 DEF Tracked, Typed, Copy
  <1>3. /\ r \in Nat /\ Cardinality(Relayers(f, D2)) = r + 1
        /\ \A g \in Flood : g # f => Relayers(g, D2) = Relayers(g, D)
    BY <1>2, OneMoreRelayer
  <1>4. k \in Nat /\ MaxTtl - (c.ttl - 1) + 1 = k + 1
    BY <1>1, <1>2, ConstantFacts
  <1> HIDE DEF r, k, D2
  <1>5. /\ r * MaxDelay \in Nat /\ k * MaxDelay \in Nat
        /\ (r + 1) * MaxDelay = r * MaxDelay + MaxDelay
        /\ (k + 1) * MaxDelay = k * MaxDelay + MaxDelay
    BY <1>3, <1>4, Hops
  <1>6. ASSUME NEW x \in fl
        PROVE  OnTime(x, F, s, D2, now)
    <2>1. OnTime(x, F, s, D, now)
      BY DEF Tracked
    <2>2. CASE x.flood # f
      BY <1>2, <1>3, <2>1, <2>2 DEF OnTime
    <2>3. CASE x.flood = f
      <3>1. /\ x \in Copy /\ x.flood \in F /\ x.ttl <= MaxTtl
            /\ now <= x.due /\ x.due <= now + MaxDelay
            /\ x.due <= s[x.flood] + (MaxTtl - x.ttl + 1) * MaxDelay
            /\ x.due <= s[x.flood] + r * MaxDelay
        BY <2>1, <2>3 DEF OnTime, r
      <3>2. x.due \in Nat /\ s[x.flood] \in Nat
        BY <1>1, <1>2, <2>3, <3>1 DEF Copy
      <3>3. x.due <= s[x.flood] + (r + 1) * MaxDelay
        <4> DEFINE a == r * MaxDelay
                   b == (r + 1) * MaxDelay
        <4>1. a \in Nat /\ b = a + MaxDelay /\ x.due <= s[x.flood] + a
          BY <1>5, <3>1
        <4> HIDE DEF a, b
        <4>2. x.due <= s[x.flood] + b
          BY <3>2, <4>1, ConstantFacts
        <4> QED
          BY <4>2 DEF b
      <3> QED
        BY <1>3, <2>3, <3>1, <3>3 DEF OnTime
    <2> QED
      BY <2>2, <2>3
  <1>7. ASSUME NEW x \in Relay(n, c)
        PROVE  OnTime(x, F, s, D2, now)
    <2>1. c.ttl >= 2
      BY <1>2 DEF Relay
    <2>2. PICK y \in Node :
            x = [flood |-> f, to |-> y, ttl |-> c.ttl - 1, due |-> now + MaxDelay]
      BY <2>1 DEF Relay, Broadcast
    <2>3. /\ x.flood = f /\ x.ttl = c.ttl - 1 /\ x.due = now + MaxDelay
          /\ x.ttl \in Nat \ {0} /\ x.ttl <= MaxTtl /\ x \in Copy
      BY <1>1, <1>2, <2>1, <2>2, ConstantFacts DEF Copy
    <2>4. now <= x.due /\ x.due <= now + MaxDelay
      BY <1>2, <2>3, ConstantFacts
    <2>5. /\ x.due <= s[f] + (k + 1) * MaxDelay
          /\ x.due <= s[f] + (r + 1) * MaxDelay
      <3> DEFINE a == k * MaxDelay
                 b == r * MaxDelay
                 a1 == (k + 1) * MaxDelay
                 b1 == (r + 1) * MaxDelay
      <3>1. /\ a \in Nat /\ b \in Nat /\ a1 = a + MaxDelay /\ b1 = b + MaxDelay
            /\ c.due <= s[f] + a /\ c.due <= s[f] + b
        BY <1>1, <1>5
      <3> HIDE DEF a, b, a1, b1
      <3>2. x.due <= s[f] + a1 /\ x.due <= s[f] + b1
        BY <1>1, <1>2, <2>3, <3>1, ConstantFacts
      <3> QED
        BY <3>2 DEF a1, b1
    <2>6. MaxTtl - x.ttl + 1 = k + 1
      BY <1>4, <2>3
    <2> HIDE DEF f
    <2> QED
      BY <1>1, <1>3, <2>3, <2>4, <2>5, <2>6 DEF OnTime
  <1> QED
    BY <1>6, <1>7 DEF D2

(* A node takes a flood for new, notes it and may relay it.                *)
LEMMA TakeStep ==
  ASSUME NEW F, NEW s, NEW D, NEW req, NEW u, NEW C, NEW fl, NEW fl2,
         Tracked(F, s, D, now, req, u, C, fl), NEW c \in fl, NEW n \in Node,
         c.flood \notin D[n], c.flood.origin # n,
         ~Knows(C[n][CacheFor(c.flood)], c.flood),
         fl2 \subseteq fl \cup Relay(n, c)
  PROVE  Tracked(F, s, [D EXCEPT ![n] = @ \cup {c.flood}], now, req, u,
                 [C EXCEPT ![n][CacheFor(c.flood)] = Noted(@, c.flood)], fl2)
  <1> DEFINE f == c.flood
             k == CacheFor(f)
             D2 == [D EXCEPT ![n] = @ \cup {f}]
             C2 == [C EXCEPT ![n][k] = Noted(@, f)]
  <1>1. /\ Typed(F, s, D, now, req, u, C) /\ Named(F, s, now, req, u)
        /\ Foreign(D)
        /\ \A m \in Node, j \in Cache : \A e \in C[m][j] : Noticed(m, j, e, F, D)
        /\ \A m \in Node : \A g \in F :
             Told(m, g, D) /\ now <= s[g] + Lifetime => Remembered(m, g, s, C)
    BY DEF Tracked
  <1>2. /\ f \in F /\ f \in Flood /\ now \in Nat /\ s[f] \in Nat /\ s[f] <= now
    BY <1>1, InTime DEF Named
  <1>3. /\ C \in [Node -> [Cache -> SUBSET Id]] /\ \A g \in F : s[g] \in Nat
        /\ D \in [Node -> SUBSET F]
    BY <1>1 DEF Typed
  <1>4. k \in Cache
    BY DEF CacheFor, Cache
  <1>5. /\ C2 \in [Node -> [Cache -> SUBSET Id]]
        /\ \A m \in Node, j \in Cache : \A e \in C2[m][j] :
             \/ e \in C[m][j]
             \/ m = n /\ j = k /\ e.context = f.origin /\ e.id = f.id
        /\ \A m \in Node, j \in Cache : \A e \in C[m][j] :
             e.expire >= now => e \in C2[m][j]
        /\ ~Knows(C[n][k], f) =>
             \E e \in C2[n][k] : /\ e.context = f.origin /\ e.id = f.id
                                 /\ e.expire = now + Lifetime
    BY <1>2, <1>3, CacheNoted
  <1>6. /\ \A m \in Node : \A g : g \in D2[m] <=> g \in D[m] \/ (m = n /\ g = f)
        /\ D2 \in [Node -> SUBSET F]
    BY <1>2, <1>3
  <1>7. \A x \in fl2 : OnTime(x, F, s, D2, now)
    BY RelayedOnTime
  <1> HIDE DEF C2, D2, f
  <1>8. Typed(F, s, D2, now, req, u, C2)
    BY <1>1, <1>5, <1>6 DEF Typed
  <1>9. Foreign(D2)
    BY <1>1, <1>6 DEF Foreign, f
  <1>10. \A m \in Node, j \in Cache : \A e \in C2[m][j] : Noticed(m, j, e, F, D2)
    <2>1. \A e : e.context = f.origin /\ e.id = f.id => Noticed(n, k, e, F, D2)
      BY <1>2, <1>6 DEF Noticed, Key
    <2>2. \A m \in Node : \A j, e : Noticed(m, j, e, F, D) => Noticed(m, j, e, F, D2)
      BY <1>6 DEF Noticed
    <2> QED
      BY <1>1, <1>5, <2>1, <2>2
  <1>11. \A m \in Node : \A g \in F :
           Told(m, g, D2) /\ now <= s[g] + Lifetime => Remembered(m, g, s, C2)
    <2>1. Remembered(n, f, s, C2)
      <3>1. ~Knows(C[n][k], f)
        BY DEF f
      <3>2. PICK e \in C2[n][k] : /\ e.context = f.origin /\ e.id = f.id
                                  /\ e.expire = now + Lifetime
        BY <1>5, <3>1
      <3>3. e.expire >= s[f] + Lifetime
        BY <1>2, <3>2, ConstantFacts
      <3> QED
        BY <3>2, <3>3 DEF Remembered
    <2>2. \A m \in Node : \A g : Told(m, g, D2) => Told(m, g, D) \/ (m = n /\ g = f)
      BY <1>6 DEF Told
    <2>3. ASSUME NEW m \in Node, NEW g \in F, Told(m, g, D), now <= s[g] + Lifetime
          PROVE  Remembered(m, g, s, C2)
      BY <1>1, <1>2, <1>3, <1>5, <2>3, StillRemembered
    <2> QED
      BY <2>1, <2>2, <2>3
  <1>12. Tracked(F, s, D2, now, req, u, C2, fl2)
    BY <1>1, <1>7, <1>8, <1>9, <1>10, <1>11 DEF Tracked
  <1> QED
    BY <1>12 DEF C2, D2, f

(* A node notes the requests it starts, not its data.                      *)
OwnNoted(C, n, f) ==
  IF f.kind = "DATA" THEN C ELSE [C EXCEPT ![n][CacheFor(f)] = Noted(@, f)]

(* It forgets nothing that still counts.                                   *)
LEMMA OwnNotedFacts ==
  ASSUME now \in Nat, NEW C \in [Node -> [Cache -> SUBSET Id]],
         NEW n \in Node, NEW f \in Flood
  PROVE  /\ OwnNoted(C, n, f) \in [Node -> [Cache -> SUBSET Id]]
         /\ \A m \in Node, j \in Cache : \A e \in OwnNoted(C, n, f)[m][j] :
              \/ e \in C[m][j]
              \/ m = n /\ j = CacheFor(f) /\ e.context = f.origin /\ e.id = f.id
         /\ \A m \in Node, j \in Cache : \A e \in C[m][j] :
              e.expire >= now => e \in OwnNoted(C, n, f)[m][j]
         /\ f.kind # "DATA" /\ ~Knows(C[n][CacheFor(f)], f) =>
              \E e \in OwnNoted(C, n, f)[n][CacheFor(f)] :
                /\ e.context = f.origin /\ e.id = f.id
                /\ e.expire = now + Lifetime
  <1> DEFINE E == [C EXCEPT ![n][CacheFor(f)] = Noted(@, f)]
  <1>1. /\ E \in [Node -> [Cache -> SUBSET Id]]
        /\ \A m \in Node, j \in Cache : \A e \in E[m][j] :
             \/ e \in C[m][j]
             \/ m = n /\ j = CacheFor(f) /\ e.context = f.origin /\ e.id = f.id
        /\ \A m \in Node, j \in Cache : \A e \in C[m][j] :
             e.expire >= now => e \in E[m][j]
        /\ ~Knows(C[n][CacheFor(f)], f) =>
             \E e \in E[n][CacheFor(f)] : /\ e.context = f.origin /\ e.id = f.id
                                          /\ e.expire = now + Lifetime
    BY CacheNoted
  <1>2. OwnNoted(C, n, f) = IF f.kind = "DATA" THEN C ELSE E
    BY DEF OwnNoted
  <1> HIDE DEF E
  <1> QED
    BY <1>1, <1>2

(* A node starts a flood under a number of its own, and notes a request.   *)
LEMMA StartStep ==
  ASSUME NEW F, NEW s, NEW D, NEW req, NEW u, NEW C, NEW fl, NEW fl2,
         Tracked(F, s, D, now, req, u, C, fl),
         NEW n \in Node, NEW f \in Flood, f.origin = n,
         NEW req2 \in [Node -> Nat], NEW u2 \in Nat,
         \A m \in Node : req[m] <= req2[m], u <= u2,
         f.id > Made(f, req, u), f.id <= Made(f, req2, u2),
         NEW ttl, ttl \in Nat, ttl >= 1, ttl <= MaxTtl,
         fl2 \subseteq fl \cup Broadcast(n, f, ttl)
  PROVE  \E F2, s2 : Tracked(F2, s2, D, now, req2, u2, OwnNoted(C, n, f), fl2)
  <1> DEFINE k == CacheFor(f)
             C2 == OwnNoted(C, n, f)
             F2 == F \cup {f}
             s2 == [g \in F2 |-> IF g = f THEN now ELSE s[g]]
  <1>1. /\ Typed(F, s, D, now, req, u, C) /\ Named(F, s, now, req, u)
        /\ \A c \in fl : OnTime(c, F, s, D, now)
        /\ Foreign(D)
        /\ \A m \in Node, j \in Cache : \A e \in C[m][j] : Noticed(m, j, e, F, D)
        /\ \A m \in Node : \A g \in F :
             Told(m, g, D) /\ now <= s[g] + Lifetime => Remembered(m, g, s, C)
    BY DEF Tracked
  <1>2. /\ F \subseteq Flood /\ now \in Nat /\ C \in [Node -> [Cache -> SUBSET Id]]
        /\ \A g \in F : s[g] \in Nat /\ s[g] <= now
        /\ D \in [Node -> SUBSET F] /\ req \in [Node -> Nat] /\ u \in Nat
    BY <1>1 DEF Typed, Named
  <1>3. k \in Cache
    BY DEF CacheFor, Cache
  <1>4. \A g \in F : Key(g) # Key(f)
    <2>1. SUFFICES ASSUME NEW g \in F, Key(g) = Key(f)
                   PROVE  FALSE
      OBVIOUS
    <2>2. CacheFor(g) = CacheFor(f) /\ g.origin = f.origin /\ g.id = f.id
      BY <2>1 DEF Key
    <2>3. (g.kind = "DATA") <=> (f.kind = "DATA")
      BY <2>2 DEF CacheFor
    <2>4. Made(g, req, u) = Made(f, req, u)
      BY <2>2, <2>3 DEF Made
    <2>5. g.id <= Made(f, req, u) /\ Made(f, req, u) \in Nat /\ g.id \in Nat
      BY <1>1, <1>2, <2>4 DEF Named, Made, Flood
    <2> QED
      BY <2>2, <2>5
  <1>5. f \notin F
    BY <1>4
  <1>6. /\ f \in F2 /\ F \subseteq F2 /\ F2 \subseteq Flood
        /\ \A g \in F2 : g = f \/ g \in F
        /\ s2 \in [F2 -> Nat] /\ s2[f] = now /\ \A g \in F : s2[g] = s[g]
    BY <1>2, <1>5
  <1>7. \A m \in Node : f \notin D[m]
    BY <1>2, <1>5
  <1> HIDE DEF F2, s2
  <1>8. /\ C2 \in [Node -> [Cache -> SUBSET Id]]
        /\ \A m \in Node, j \in Cache : \A e \in C2[m][j] :
             \/ e \in C[m][j]
             \/ m = n /\ j = k /\ e.context = f.origin /\ e.id = f.id
        /\ \A m \in Node, j \in Cache : \A e \in C[m][j] :
             e.expire >= now => e \in C2[m][j]
        /\ f.kind # "DATA" /\ ~Knows(C[n][k], f) =>
             \E e \in C2[n][k] : /\ e.context = f.origin /\ e.id = f.id
                                 /\ e.expire = now + Lifetime
    <2>1. now \in Nat /\ C \in [Node -> [Cache -> SUBSET Id]]
      BY <1>2
    <2> QED
      BY ONLY <2>1, n \in Node, f \in Flood, OwnNotedFacts
  <1>9. f.kind # "DATA" => Remembered(n, f, s2, C2)
    <2>1. SUFFICES ASSUME f.kind # "DATA"
                   PROVE  Remembered(n, f, s2, C2)
      OBVIOUS
    <2>2. ~Knows(C[n][k], f)
      <3>1. SUFFICES ASSUME NEW e \in C[n][k], e.context = f.origin, e.id = f.id
                     PROVE  FALSE
        BY DEF Knows, Purged
      <3>2. PICK g \in F : Key(g) = <<k, e.context, e.id>>
        BY <1>1, <1>3 DEF Noticed
      <3>3. Key(g) = Key(f)
        BY <3>1, <3>2 DEF Key
      <3> QED
        BY <1>4, <3>3
    <2>3. PICK e \in C2[n][k] : /\ e.context = f.origin /\ e.id = f.id
                                /\ e.expire = now + Lifetime
      <3> HIDE DEF C2
      <3> QED
        BY <1>8, <2>1, <2>2
    <2>4. e.expire >= s2[f] + Lifetime
      BY <1>2, <1>6, <2>3, ConstantFacts
    <2> QED
      BY <2>3, <2>4 DEF Remembered
  <1> HIDE DEF C2
  <1>10. Typed(F2, s2, D, now, req2, u2, C2)
    <2>1. D \in [Node -> SUBSET F2]
      BY <1>2, <1>6
    <2> QED
      BY <1>2, <1>6, <1>8, <2>1 DEF Typed
  <1>11. Named(F2, s2, now, req2, u2)
    <2>1. ASSUME NEW g \in F2, NEW h \in F2, Key(g) = Key(h)
          PROVE  g = h
      BY <1>1, <1>4, <1>6, <2>1 DEF Named
    <2>2. ASSUME NEW g \in F
          PROVE  g.id <= Made(g, req2, u2)
      <3>1. g.id \in Nat /\ g.origin \in Node /\ g.id <= Made(g, req, u)
        BY <1>1, <1>2 DEF Named, Flood
      <3>2. /\ req[g.origin] \in Nat /\ req2[g.origin] \in Nat
            /\ req[g.origin] <= req2[g.origin]
        BY <1>2, <3>1
      <3>3. /\ Made(g, req, u) \in Nat /\ Made(g, req2, u2) \in Nat
            /\ Made(g, req, u) <= Made(g, req2, u2)
        BY <1>2, <3>2 DEF Made
      <3> QED
        BY <3>1, <3>3
    <2>3. \A g \in F2 : s2[g] <= now /\ g.id <= Made(g, req2, u2)
      BY <1>2, <1>6, <2>2
    <2> QED
      BY <2>1, <2>3 DEF Named
  <1>12. ASSUME NEW c \in fl2
         PROVE  OnTime(c, F2, s2, D, now)
    <2>1. CASE c \in fl
      BY <1>1, <1>6, <2>1 DEF OnTime
    <2>2. CASE c \in Broadcast(n, f, ttl)
      <3>1. PICK y \in Node :
              c = [flood |-> f, to |-> y, ttl |-> ttl, due |-> now + MaxDelay]
        BY <2>2 DEF Broadcast
      <3>2. /\ c.flood = f /\ c.ttl = ttl /\ c.due = now + MaxDelay /\ c \in Copy
        BY <1>2, <3>1, ConstantFacts DEF Copy
      <3>3. Relayers(f, D) = {f.origin}
        BY <1>7 DEF Relayers
      <3>4. Cardinality(Relayers(f, D)) = 1
        BY <3>3, FS_Singleton
      <3>5. MaxTtl - ttl + 1 \in Nat /\ 1 <= MaxTtl - ttl + 1
        BY ConstantFacts
      <3>6. MaxDelay <= (MaxTtl - ttl + 1) * MaxDelay
        <4> DEFINE h == MaxTtl - ttl + 1
        <4>1. h \in Nat /\ 1 <= h
          BY <3>5
        <4> HIDE DEF h
        <4>2. 1 * MaxDelay <= h * MaxDelay
          BY <4>1, Hops
        <4>3. 1 * MaxDelay = MaxDelay
          BY Hops
        <4>4. MaxDelay <= h * MaxDelay
          BY <4>2, <4>3
        <4> QED
          BY <4>4 DEF h
      <3>7. (MaxTtl - ttl + 1) * MaxDelay \in Nat
        BY <3>5, Hops
      <3>8. /\ now <= c.due /\ c.due <= now + MaxDelay
            /\ c.due <= s2[f] + (MaxTtl - ttl + 1) * MaxDelay
        <4> DEFINE a == (MaxTtl - ttl + 1) * MaxDelay
        <4>1. a \in Nat /\ MaxDelay <= a
          BY <3>6, <3>7
        <4> HIDE DEF a
        <4>2. /\ now <= c.due /\ c.due <= now + MaxDelay
              /\ c.due <= s2[f] + a
          BY <1>2, <1>6, <3>2, <4>1, ConstantFacts
        <4> QED
          BY <4>2 DEF a
      <3>9. c.due <= s2[f] + 1 * MaxDelay
        <4>1. 1 * MaxDelay = MaxDelay
          BY Hops
        <4> QED
          BY <1>2, <1>6, <3>2, <4>1, ConstantFacts
      <3> QED
        BY <1>6, <3>2, <3>4, <3>8, <3>9 DEF OnTime
    <2> QED
      BY <2>1, <2>2
  <1>13. \A m \in Node, j \in Cache : \A e \in C2[m][j] : Noticed(m, j, e, F2, D)
    <2>1. \A e : e.context = f.origin /\ e.id = f.id => Noticed(n, k, e, F2, D)
      BY <1>6 DEF Noticed, Key
    <2>2. \A m \in Node : \A j, e : Noticed(m, j, e, F, D) => Noticed(m, j, e, F2, D)
      BY <1>6 DEF Noticed
    <2> QED
      BY <1>1, <1>8, <2>1, <2>2
  <1>14. \A m \in Node : \A g \in F2 :
           Told(m, g, D) /\ now <= s2[g] + Lifetime => Remembered(m, g, s2, C2)
    <2>1. ASSUME NEW m \in Node, Told(m, f, D)
          PROVE  Remembered(m, f, s2, C2)
      BY <1>7, <1>9, <2>1 DEF Told
    <2>2. ASSUME NEW m \in Node, NEW g \in F, Told(m, g, D),
                 now <= s2[g] + Lifetime
          PROVE  Remembered(m, g, s2, C2)
      <3>1. s2[g] = s[g] /\ s[g] \in Nat
        BY <1>2, <1>6
      <3>2. Remembered(m, g, s, C) /\ now <= s[g] + Lifetime
        BY <1>1, <2>2, <3>1
      <3>3. Remembered(m, g, s, C2)
        BY <1>2, <1>8, <3>1, <3>2, StillRemembered
      <3> QED
        BY <3>1, <3>3 DEF Remembered
    <2> QED
      BY <1>6, <2>1, <2>2
  <1> QED
    BY <1>1, <1>10, <1>11, <1>12, <1>13, <1>14 DEF Tracked, C2

(* Time passes, and what is due is lost.                                   *)
LEMMA TickStep ==
  ASSUME NEW F, NEW s, NEW D, NEW req, NEW u, NEW C, NEW fl,
         Tracked(F, s, D, now, req, u, C, fl)
  PROVE  Tracked(F, s, D, now + 1, req, u, C, {c \in fl : c.due > now})
  <1>1. /\ Typed(F, s, D, now, req, u, C) /\ Named(F, s, now, req, u)
        /\ \A c \in fl : OnTime(c, F, s, D, now)
        /\ Foreign(D)
        /\ \A m \in Node, j \in Cache : \A e \in C[m][j] : Noticed(m, j, e, F, D)
        /\ \A m \in Node : \A g \in F :
             Told(m, g, D) /\ now <= s[g] + Lifetime => Remembered(m, g, s, C)
    BY DEF Tracked
  <1>2. now \in Nat /\ \A g \in F : s[g] \in Nat
    BY <1>1 DEF Typed
  <1>3. Typed(F, s, D, now + 1, req, u, C)
    BY <1>1 DEF Typed
  <1>4. Named(F, s, now + 1, req, u)
    BY <1>1, <1>2 DEF Named
  <1>5. ASSUME NEW c \in fl, c.due > now
        PROVE  OnTime(c, F, s, D, now + 1)
    <2>1. OnTime(c, F, s, D, now)
      BY <1>1
    <2>2. c.due \in Nat
      BY <2>1 DEF OnTime, Copy
    <2>3. now + 1 <= c.due /\ (c.due <= now + MaxDelay => c.due <= now + 1 + MaxDelay)
      BY <1>2, <1>5, <2>2, ConstantFacts
    <2> QED
      BY <2>1, <2>3 DEF OnTime
  <1>6. \A m \in Node : \A g \in F :
          Told(m, g, D) /\ now + 1 <= s[g] + Lifetime => Remembered(m, g, s, C)
    <2>1. \A g \in F : now + 1 <= s[g] + Lifetime => now <= s[g] + Lifetime
      BY <1>2, ConstantFacts
    <2> QED
      BY <1>1, <2>1
  <1> QED
    BY <1>1, <1>3, <1>4, <1>5, <1>6 DEF Tracked

-----------------------------------------------------------------------------
(***************************************************************************)
(* The steps.                                                              *)
(***************************************************************************)
(* A copy is new to its node: it is not told of the flood yet.             *)
LEMMA NewToNode ==
  ASSUME NEW F, NEW s, NEW D,
         Tracked(F, s, D, now, requestId, uid, cache, flight),
         NEW c \in flight, NEW n \in Node, ~IsDuplicate(n, c.flood),
         c.flood.kind = "DATA" => c.flood.origin # n
  PROVE  /\ c.flood \notin D[n] /\ c.flood.origin # n
         /\ ~Knows(cache[n][CacheFor(c.flood)], c.flood)
  <1>1. ~Knows(cache[n][CacheFor(c.flood)], c.flood)
    BY DEF IsDuplicate
  <1>2. ~Told(n, c.flood, D)
    BY <1>1, Recognised
  <1> QED
    BY <1>1, <1>2 DEF Told

(* The bags of floods follow the sets.                                     *)
LEMMA BagsFollow ==
  ASSUME NEW F, NEW s, NEW D,
         Tracked(F, s, D, now, requestId, uid, cache, flight),
         handled = Bags(D), NEW n \in Node, NEW c, New(n, c),
         c.flood \notin D[n]
  PROVE  handled' = Bags([D EXCEPT ![n] = @ \cup {c.flood}])
  <1> DEFINE f == c.flood
             D2 == [D EXCEPT ![n] = @ \cup {f}]
  <1>1. D \in [Node -> SUBSET F]
    BY DEF Tracked, Typed
  <1>2. /\ handled' = [handled EXCEPT ![n] = @ (+) SetToBag({f})]
        /\ handled = [m \in Node |-> SetToBag(D[m])]
    BY DEF New, Bags
  <1>3. D2[n] = D[n] \cup {f} /\ \A m \in Node : m # n => D2[m] = D[m]
    BY <1>1
  <1>4. SetToBag(D[n]) (+) SetToBag({f}) = SetToBag(D[n] \cup {f})
    BY SetBags
  <1> HIDE DEF D2, f
  <1>5. \A m \in Node : handled[m] = SetToBag(D[m])
    BY ONLY <1>2
  <1>6. handled' = [m \in Node |-> handled'[m]]
    BY ONLY <1>2
  <1>7. /\ handled'[n] = handled[n] (+) SetToBag({f})
        /\ \A m \in Node : m # n => handled'[m] = handled[m]
    BY ONLY <1>2, n \in Node
  <1>8. handled'[n] = SetToBag(D2[n])
    BY ONLY <1>3, <1>4, <1>5, <1>7, n \in Node
  <1>9. \A m \in Node : handled'[m] = SetToBag(D2[m])
    BY ONLY <1>3, <1>5, <1>7, <1>8
  <1>10. handled' = [m \in Node |-> SetToBag(D2[m])]
    BY ONLY <1>6, <1>9
  <1> QED
    BY <1>10 DEF Bags, D2, f

(* The invariant holds initially: no flood was started.                    *)
LEMMA InvInit == Init => Inv
  <1>1. SUFFICES ASSUME Init
                 PROVE  Inv
    OBVIOUS
  <1> DEFINE F == {}
             s == [f \in F |-> 0]
             D == [n \in Node |-> {}]
  <1>2. SetToBag({}) = EmptyBag
    BY DEF EmptyBag
  <1>3. handled = Bags(D)
    BY <1>1, <1>2 DEF Init, Bags
  <1>4. Typed(F, s, D, now, requestId, uid, cache)
    BY <1>1 DEF Init, Typed
  <1>5. Named(F, s, now, requestId, uid)
    BY DEF Named
  <1>6. \A n \in Node, k \in Cache : cache[n][k] = {}
    BY <1>1 DEF Init
  <1>7. Tracked(F, s, D, now, requestId, uid, cache, flight)
    BY <1>1, <1>4, <1>5, <1>6 DEF Tracked, Init, Foreign
  <1> QED
    BY <1>1, <1>3, <1>7 DEF Inv, Init

(* A request is started.                                                   *)
LEMMA InvSendRequest ==
  ASSUME Inv, NEW n \in Node, NEW d \in Node \cup {Nobody}, SendRequest(n, d)
  PROVE  Inv'
  <1>1. PICK F, s, D : /\ handled = Bags(D)
                       /\ Tracked(F, s, D, now, requestId, uid, cache, flight)
    BY DEF Inv
  <1> DEFINE f == [kind |-> "RREQ", origin |-> n, id |-> requestId[n] + 1,
                   dst |-> d]
  <1>2. requestId \in [Node -> Nat] /\ uid \in Nat
    BY <1>1 DEF Tracked, Typed
  <1>3. /\ f \in Flood /\ f.origin = n /\ f.kind = "RREQ"
        /\ f.id = requestId[n] + 1
    BY <1>2 DEF Flood
  <1>4. PICK ttl \in Ring : flight' = flight \cup Broadcast(n, f, ttl)
    BY DEF SendRequest
  <1>5. /\ started' = started + 1 /\ requestId' = [requestId EXCEPT ![n] = @ + 1]
        /\ Note(n, f) /\ UNCHANGED <<now, uid, handled>>
    BY DEF SendRequest
  <1> HIDE DEF f
  <1>6. cache' = OwnNoted(cache, n, f)
    BY <1>3, <1>5 DEF Note, OwnNoted
  <1>7. /\ requestId' \in [Node -> Nat] /\ f.id > Made(f, requestId, uid)
        /\ f.id <= Made(f, requestId', uid)
        /\ \A m \in Node : requestId[m] <= requestId'[m]
    BY <1>2, <1>3, <1>5 DEF Made
  <1>8. ttl \in Nat /\ ttl >= 1 /\ ttl <= MaxTtl
    BY ConstantFacts
  <1>9. \E F2, s2 : Tracked(F2, s2, D, now, requestId', uid,
                            OwnNoted(cache, n, f), flight')
    <2>1. uid <= uid /\ uid \in Nat
      BY <1>2
    <2>2. flight' \subseteq flight \cup Broadcast(n, f, ttl)
      BY <1>4
    <2> QED
      BY ONLY <1>1, <1>3, <1>7, <1>8, <2>1, <2>2, n \in Node, StartStep
  <1>10. started' \in Nat
    BY <1>5 DEF Inv
  <1> QED
    BY <1>1, <1>5, <1>6, <1>9, <1>10 DEF Inv

(* Data is broadcast.                                                      *)
LEMMA InvSendData ==
  ASSUME Inv, NEW n \in Node, SendData(n)
  PROVE  Inv'
  <1>1. PICK F, s, D : /\ handled = Bags(D)
                       /\ Tracked(F, s, D, now, requestId, uid, cache, flight)
    BY DEF Inv
  <1> DEFINE f == [kind |-> "DATA", origin |-> n, id |-> uid + 1,
                   dst |-> Everybody]
  <1>2. requestId \in [Node -> Nat] /\ uid \in Nat
    BY <1>1 DEF Tracked, Typed
  <1>3. f \in Flood /\ f.origin = n /\ f.kind = "DATA" /\ f.id = uid + 1
    BY <1>2 DEF Flood
  <1>4. /\ flight' = flight \cup Broadcast(n, f, DataTtl)
        /\ started' = started + 1 /\ uid' = uid + 1
        /\ UNCHANGED <<now, requestId, cache, handled>>
    BY DEF SendData
  <1> HIDE DEF f
  <1>5. cache = OwnNoted(cache, n, f)
    BY <1>3 DEF OwnNoted
  <1>6. /\ uid' \in Nat /\ uid <= uid' /\ f.id > Made(f, requestId, uid)
        /\ f.id <= Made(f, requestId, uid')
        /\ \A m \in Node : requestId[m] <= requestId[m]
    BY <1>2, <1>3, <1>4 DEF Made
  <1>7. DataTtl \in Nat /\ DataTtl >= 1 /\ DataTtl <= MaxTtl
    BY ConstantFacts
  <1>8. \E F2, s2 : Tracked(F2, s2, D, now, requestId, uid',
                            OwnNoted(cache, n, f), flight')
    <2>1. requestId \in [Node -> Nat]
      BY <1>2
    <2>2. flight' \subseteq flight \cup Broadcast(n, f, DataTtl)
      BY <1>4
    <2> QED
      BY ONLY <1>1, <1>3, <1>6, <1>7, <2>1, <2>2, n \in Node, StartStep
  <1>9. started' \in Nat
    BY <1>4 DEF Inv
  <1> QED
    BY <1>1, <1>4, <1>5, <1>8, <1>9 DEF Inv

(* A flood is taken for new, noted, and relayed or not.                    *)
LEMMA InvTake ==
  ASSUME Inv, NEW n \in Node, NEW c \in flight,
         c.flood.kind = "DATA" => c.flood.origin # n,
         New(n, c), Note(n, c.flood),
         flight' \subseteq flight \cup Relay(n, c),
         UNCHANGED <<now, uid, requestId, started>>
  PROVE  Inv'
  <1>1. PICK F, s, D : /\ handled = Bags(D)
                       /\ Tracked(F, s, D, now, requestId, uid, cache, flight)
    BY DEF Inv
  <1> DEFINE D2 == [D EXCEPT ![n] = @ \cup {c.flood}]
  <1>2. /\ c.flood \notin D[n] /\ c.flood.origin # n
        /\ ~Knows(cache[n][CacheFor(c.flood)], c.flood)
    BY <1>1, NewToNode DEF New
  <1>3. Tracked(F, s, D2, now, requestId, uid, cache', flight')
    <2>1. cache' = [cache EXCEPT ![n][CacheFor(c.flood)] = Noted(@, c.flood)]
      BY DEF Note
    <2> QED
      BY <1>1, <1>2, <2>1, TakeStep
  <1>4. handled' = Bags(D2)
    BY <1>1, <1>2, BagsFollow
  <1> HIDE DEF D2
  <1>5. Tracked(F, s, D2, now', requestId', uid', cache', flight')
    BY <1>3
  <1> QED
    BY <1>4, <1>5 DEF Inv

(* A copy is dropped, or taken by the node it is meant for.                *)
LEMMA InvNote ==
  ASSUME Inv, NEW n \in Node, NEW c \in flight, Note(n, c.flood),
         c.flood.dst = n \/ IsDuplicate(n, c.flood),
         flight' \subseteq flight,
         UNCHANGED <<now, uid, requestId, handled, started>>
  PROVE  Inv'
  <1>1. PICK F, s, D : /\ handled = Bags(D)
                       /\ Tracked(F, s, D, now, requestId, uid, cache, flight)
    BY DEF Inv
  <1>2. c.flood \in F
    BY <1>1, InTime
  <1>3. cache' = [cache EXCEPT ![n][CacheFor(c.flood)] = Noted(@, c.flood)]
    BY DEF Note
  <1>4. Tracked(F, s, D, now, requestId, uid, cache', flight')
    BY <1>1, <1>2, <1>3, NoteStep DEF IsDuplicate
  <1> QED
    BY <1>1, <1>4 DEF Inv

(* A request is taken for new at its destination, which starts an answer.  *)
LEMMA InvAnswer ==
  ASSUME Inv, NEW n \in Node, NEW c \in flight, AnswerRequest(n, c)
  PROVE  Inv'
  <1>1. PICK F, s, D : /\ handled = Bags(D)
                       /\ Tracked(F, s, D, now, requestId, uid, cache, flight)
    BY DEF Inv
  <1> DEFINE g == c.flood
             D2 == [D EXCEPT ![n] = @ \cup {g}]
             C2 == [cache EXCEPT ![n][CacheFor(g)] = Noted(@, g)]
             f == [kind |-> "REV_RREQ", origin |-> n, id |-> RevRequestId(n),
                   dst |-> g.origin]
             fl == flight \ {c}
  <1>2. /\ g.kind = "RREQ" /\ New(n, c)
        /\ requestId' = [requestId EXCEPT ![n] = @ + 1]
        /\ cache' = [cache EXCEPT ![n]["rreqIdCache"] = Noted(Noted(@, g), f)]
        /\ UNCHANGED <<now, uid, started>>
    BY DEF AnswerRequest
  <1>3. PICK ttl \in Ring : flight' = fl \cup Broadcast(n, f, ttl)
    BY DEF AnswerRequest
  <1>4. g \notin D[n] /\ g.origin # n /\ ~Knows(cache[n][CacheFor(g)], g)
    BY <1>1, <1>2, NewToNode DEF New
  <1>5. Tracked(F, s, D2, now, requestId, uid, C2, fl)
    BY <1>1, <1>4, TakeStep
  <1>6. handled' = Bags(D2)
    BY <1>1, <1>2, <1>4, BagsFollow
  <1>7. /\ g \in Flood /\ requestId \in [Node -> Nat] /\ uid \in Nat
        /\ cache \in [Node -> [Cache -> SUBSET Id]]
    BY <1>1, InTime DEF Tracked, Typed
  <1>8. /\ f \in Flood /\ f.origin = n /\ f.kind = "REV_RREQ"
        /\ f.id = requestId[n] + 1
    BY <1>7 DEF Flood, RevRequestId
  <1>9. CacheFor(g) = "rreqIdCache" /\ CacheFor(f) = "rreqIdCache"
    BY <1>2, <1>8 DEF CacheFor
  <1> HIDE DEF f, g, fl, D2
  <1>10. cache' = OwnNoted(C2, n, f)
    <2> DEFINE r == "rreqIdCache"
               a == Noted(cache[n][r], g)
               b == Noted(a, f)
    <2>1. OwnNoted(C2, n, f) = [C2 EXCEPT ![n][r] = Noted(C2[n][r], f)]
      BY <1>8, <1>9 DEF OwnNoted
    <2>2. C2 = [cache EXCEPT ![n][r] = a]
      BY <1>9
    <2>3. cache' = [cache EXCEPT ![n][r] = b]
      BY <1>2
    <2>4. r \in Cache
      BY DEF Cache
    <2> HIDE DEF r, a, C2
    <2>5. C2[n][r] = a
      BY ONLY <1>7, <2>2, <2>4, n \in Node
    <2>6. OwnNoted(C2, n, f) = [C2 EXCEPT ![n][r] = b]
      BY <2>1, <2>5
    <2> HIDE DEF b
    <2>7. [C2 EXCEPT ![n][r] = b] = [cache EXCEPT ![n][r] = b]
      BY ONLY <1>7, <2>2, <2>4, n \in Node
    <2> QED
      BY ONLY <2>3, <2>6, <2>7
  <1>11. /\ requestId' \in [Node -> Nat] /\ f.id > Made(f, requestId, uid)
         /\ f.id <= Made(f, requestId', uid)
         /\ \A m \in Node : requestId[m] <= requestId'[m]
    BY <1>2, <1>7, <1>8 DEF Made
  <1>12. \E F2, s2 : Tracked(F2, s2, D2, now, requestId', uid,
                             OwnNoted(C2, n, f), flight')
    <2>1. uid <= uid /\ uid \in Nat
      BY <1>7
    <2>2. flight' \subseteq fl \cup Broadcast(n, f, ttl)
      BY <1>3
    <2>3. ttl \in Nat /\ ttl >= 1 /\ ttl <= MaxTtl
      BY ConstantFacts
    <2> HIDE DEF C2
    <2> QED
      BY ONLY <1>5, <1>8, <1>11, <2>1, <2>2, <2>3, n \in Node, StartStep
  <1> QED
    BY <1>2, <1>6, <1>10, <1>12 DEF Inv

(* Time passes.                                                            *)
LEMMA InvTick ==
  ASSUME Inv, Tick
  PROVE  Inv'
  <1>1. PICK F, s, D : /\ handled = Bags(D)
                       /\ Tracked(F, s, D, now, requestId, uid, cache, flight)
    BY DEF Inv
  <1>2. Tracked(F, s, D, now', requestId, uid, cache, flight')
    BY <1>1, TickStep DEF Tick
  <1> QED
    BY <1>1, <1>2 DEF Inv, Tick

(* Every step keeps the invariant.                                         *)
LEMMA InvNext == Inv /\ [Next]_vars => Inv'
  <1> SUFFICES ASSUME Inv, [Next]_vars
               PROVE  Inv'
    OBVIOUS
  <1>1. CASE UNCHANGED vars
    <2>1. PICK F, s, D : /\ handled = Bags(D)
                         /\ Tracked(F, s, D, now, requestId, uid, cache, flight)
      BY DEF Inv
    <2> QED
      BY <1>1, <2>1 DEF Inv, vars
  <1>2. ASSUME NEW n \in Node, NEW d \in Node \cup {Nobody},
               SendData(n) \/ SendRequest(n, d)
        PROVE  Inv'
    BY <1>2, InvSendData, InvSendRequest
  <1>3. ASSUME NEW c \in flight, Receive(c.to, c)
        PROVE  Inv'
    <2> DEFINE n == c.to
    <2>1. n \in Node
      <3>1. PICK F, s, D : Tracked(F, s, D, now, requestId, uid, cache, flight)
        BY DEF Inv
      <3> QED
        BY <3>1, InTime
    <2>2. flight \ {c} \subseteq flight
      OBVIOUS
    <2> HIDE DEF n
    <2>3. CASE AnswerRequest(n, c)
      BY <2>1, <2>3, InvAnswer
    <2>4. CASE RelayRequest(n, c)
      BY <2>1, <2>4, InvTake DEF RelayRequest
    <2>5. CASE RelayRevRequest(n, c)
      BY <2>1, <2>5, InvTake DEF RelayRevRequest
    <2>6. CASE TakeRevRequest(n, c)
      BY <2>1, <2>6, InvNote DEF TakeRevRequest
    <2>7. CASE DeliverData(n, c)
      BY <2>1, <2>7, InvTake DEF DeliverData
    <2>8. CASE DropDuplicate(n, c)
      BY <2>1, <2>8, InvNote DEF DropDuplicate
    <2> QED
      BY <1>3, <2>3, <2>4, <2>5, <2>6, <2>7, <2>8 DEF Receive, n
  <1>4. CASE Tick
    BY <1>4, InvTick
  <1>5. ASSUME NEW n \in Node, SendData(n)
        PROVE  Inv'
    BY <1>5, InvSendData
  <1> QED
    BY <1>1, <1>2, <1>3, <1>4, <1>5 DEF Next

-----------------------------------------------------------------------------
(***************************************************************************)
(* What follows.                                                           *)
(***************************************************************************)
(* The account of the floods gives the types.                              *)
LEMMA InvTypes == Inv => TypeOK
  <1> SUFFICES ASSUME Inv
               PROVE  TypeOK
    OBVIOUS
  <1>1. PICK F, s, D : /\ handled = Bags(D)
                       /\ Tracked(F, s, D, now, requestId, uid, cache, flight)
    BY DEF Inv
  <1>2. Typed(F, s, D, now, requestId, uid, cache)
    BY <1>1 DEF Tracked
  <1>3. ASSUME NEW c \in flight
        PROVE  /\ c.flood \in Flood /\ c.to \in Node
               /\ c.ttl \in Nat \ {0} /\ c.due \in now .. now + MaxDelay
    <2>1. OnTime(c, F, s, D, now)
      BY <1>1 DEF Tracked
    <2> QED
      BY <1>2, <2>1, ConstantFacts DEF OnTime, Copy, Typed
  <1>4. \A n \in Node : IsABag(handled[n]) /\ BagToSet(handled[n]) \subseteq Flood
    <2>1. \A n \in Node : handled[n] = SetToBag(D[n]) /\ D[n] \subseteq Flood
      BY <1>1, <1>2 DEF Bags, Typed
    <2> QED
      BY <2>1, SetBags
  <1> QED
    BY <1>2, <1>3, <1>4 DEF TypeOK, Typed, Inv

(* D[n] is a set: each flood is in the bag once.                           *)
LEMMA InvHandledOnce == Inv => HandledOnce
  <1> SUFFICES ASSUME Inv, NEW n \in Node, NEW f \in BagToSet(handled[n])
               PROVE  f.origin # n /\ handled[n][f] = 1
    BY DEF HandledOnce
  <1>1. PICK F, s, D : /\ handled = Bags(D)
                       /\ Tracked(F, s, D, now, requestId, uid, cache, flight)
    BY DEF Inv
  <1>2. handled[n] = SetToBag(D[n])
    BY <1>1 DEF Bags
  <1>3. f \in D[n] /\ handled[n][f] = 1
    BY <1>2, SetBags
  <1> QED
    BY <1>1, <1>3 DEF Tracked, Foreign

(* An entry is there because of a flood, and no other has its key.         *)
LEMMA InvNoFalseDuplicates == Inv => NoFalseDuplicates
  <1> SUFFICES ASSUME Inv, NEW c \in flight, IsDuplicate(c.to, c.flood),
                      c.flood.dst # c.to, c.flood.origin # c.to
               PROVE  c.flood \in BagToSet(handled[c.to])
    BY DEF NoFalseDuplicates
  <1> DEFINE n == c.to
             f == c.flood
             k == CacheFor(f)
  <1>1. PICK F, s, D : /\ handled = Bags(D)
                       /\ Tracked(F, s, D, now, requestId, uid, cache, flight)
    BY DEF Inv
  <1>2. f \in F /\ n \in Node /\ k \in Cache
    BY <1>1, InTime DEF CacheFor, Cache
  <1>3. PICK e \in cache[n][k] : e.context = f.origin /\ e.id = f.id
    BY DEF IsDuplicate, Knows, Purged
  <1>4. Noticed(n, k, e, F, D)
    BY <1>1, <1>2, <1>3 DEF Tracked
  <1>5. PICK g \in F : /\ Key(g) = <<k, e.context, e.id>>
                       /\ g.origin = n \/ g \in D[n] \/ g.dst = n
    BY <1>4 DEF Noticed
  <1>6. g = f
    <2>1. Key(g) = Key(f)
      BY <1>3, <1>5 DEF Key
    <2> QED
      BY <1>1, <1>2, <2>1 DEF Tracked, Named
  <1>7. f \in D[n]
    BY <1>5, <1>6
  <1>8. handled[n] = SetToBag(D[n])
    BY <1>1, <1>2 DEF Bags
  <1> QED
    BY <1>7, <1>8, SetBags

(* The invariant holds always.                                             *)
LEMMA InvAlways == Spec => []Inv
  BY InvInit, InvNext, PTL DEF Spec

(* Every variable keeps its type; no copy is overdue, or due later than    *)
(* the longest hop (SendTo, aodv-routing-protocol.cc:1150-1154).           *)
THEOREM FloodTypeCorrect == Spec => []TypeOK
  BY InvAlways, InvTypes, PTL

(* A node relays, answers or delivers a flood at most once and never its   *)
(* own, in every network and although ids are forgotten: PathDiscoveryTime *)
(* outlasts the longest path (IdCache::IsDuplicate, aodv-id-cache.cc).     *)
THEOREM FloodsHandledOnce == Spec => []HandledOnce
  BY InvAlways, InvHandledOnce, PTL

(* A copy is taken for a duplicate only if its node has seen that flood,   *)
(* although requests and reverse requests share numbers and cache          *)
(* (RecvRequest, RecvRevRequest: m_rreqIdCache.IsDuplicate).               *)
THEOREM NoFloodLostAsDuplicate == Spec => []NoFalseDuplicates
  BY InvAlways, InvNoFalseDuplicates, PTL
=============================================================================
