-------------------------- MODULE ViewStateProofs ---------------------------
(* Proofs about module ViewState, for every set of items and writes and every bound. *)
EXTENDS ViewState, SequenceTheorems, FiniteSetTheorems, TLAPS

-----------------------------------------------------------------------------
(* The inductive invariant.  The parts take the queue as a parameter: a press and a frame build *)
(* one that kick then takes writes from. *)

\* The ids of q lie between the profile's first and the next one given out.
Numbered(q, hi) == \A i \in 1 .. Len(q) : since <= q[i].id /\ q[i].id < hi

\* q is in press order, and behind every started write.
InOrder(q, started) ==
    \A i \in 1 .. Len(q) :
        /\ \A j \in 1 .. Len(q) : i < j => q[i].id < q[j].id
        /\ \A id \in started : id < q[i].id

\* q has one write for each toggle, the one shown.
Shows(q, sh) ==
    \A i \in 1 .. Len(q) :
        /\ sh[Toggle(q[i])] = q[i].w
        /\ \A j \in 1 .. Len(q) : Toggle(q[i]) = Toggle(q[j]) => i = j

\* Everything that carries an id of this profile carries one it gave out.
Pressed ==
    /\ since <= next_request_id
    /\ sent # None => since <= sent.id /\ sent.id < next_request_id
    /\ mail # 0 => since <= mail /\ mail < next_request_id
    /\ want_detail # 0 => since <= want_detail /\ want_detail < next_request_id
    /\ want_hubs => since < next_request_id
    /\ \A wk \in workers : /\ wk.epoch <= epoch /\ wk.req.id < next_request_id
                           /\ wk.epoch = epoch => since <= wk.req.id

IInv ==
    /\ TypeOK /\ Pressed
    /\ Numbered(queue, next_request_id) /\ InOrder(queue, Started) /\ Shows(queue, shown)

-----------------------------------------------------------------------------
(* Retaining some of a sequence. *)

\* A finite set of naturals has an increasing enumeration: a member's rank is how many members
\* do not exceed it, and ranks differ.
LEMMA Enumerated ==
    ASSUME NEW K, IsFiniteSet(K), K \subseteq Nat
    PROVE  /\ Cardinality(K) \in Nat
           /\ Increasing(K) \in [1 .. Cardinality(K) -> K]
           /\ \A a, b \in 1 .. Cardinality(K) : a < b => Increasing(K)[a] < Increasing(K)[b]
           /\ \A i \in K : \E k \in 1 .. Cardinality(K) : Increasing(K)[k] = i
<1> DEFINE n == Cardinality(K)
           upto(i) == {j \in K : j <= i}
           rank == [i \in K |-> Cardinality(upto(i))]
<1>1. n \in Nat /\ IsFiniteSet(1 .. n) /\ Cardinality(1 .. n) = n
  <2>1. n \in Nat
    BY FS_CardinalityType
  <2>2. IsFiniteSet(1 .. n) /\ Cardinality(1 .. n) = IF 1 > n THEN 0 ELSE n - 1 + 1
    BY <2>1, FS_Interval
  <2> QED
    BY <2>1, <2>2
<1>2. ASSUME NEW i \in K PROVE IsFiniteSet(upto(i)) /\ Cardinality(upto(i)) \in 1 .. n
  <2>1. upto(i) \subseteq K
    OBVIOUS
  <2>2. IsFiniteSet(upto(i)) /\ Cardinality(upto(i)) <= n
    BY <2>1, FS_Subset
  <2>3. upto(i) # {}
    OBVIOUS
  <2>4. Cardinality(upto(i)) \in Nat /\ Cardinality(upto(i)) # 0
    BY <2>2, <2>3, FS_CardinalityType, FS_EmptySet
  <2> QED
    BY <2>2, <2>4, <1>1
<1>3. rank \in [K -> 1 .. n]
  BY <1>2
<1>4. ASSUME NEW i \in K, NEW j \in K, i < j PROVE rank[i] < rank[j]
  <2>1. upto(i) \subseteq upto(j) /\ j \in upto(j) /\ j \notin upto(i)
    <3>1. i \in Nat /\ j \in Nat /\ \A x \in K : x \in Nat
      OBVIOUS
    <3>2. \A x \in Nat : x <= i => x <= j
      BY <3>1, <1>4
    <3>3. j <= j /\ ~(j <= i)
      BY <3>1, <1>4
    <3> QED
      BY <3>1, <3>2, <3>3
  <2>2. Cardinality(upto(i)) <= Cardinality(upto(j)) /\ Cardinality(upto(i)) # Cardinality(upto(j))
    BY <2>1, <1>2, FS_Subset
  <2>3. Cardinality(upto(i)) \in Nat /\ Cardinality(upto(j)) \in Nat
    BY <1>2, FS_CardinalityType
  <2> QED
    BY <2>2, <2>3
<1> HIDE DEF rank, upto
<1>5. ASSUME NEW i \in K, NEW j \in K, rank[i] = rank[j] PROVE i = j
  <2>1. rank[i] \in Int /\ ~(i < j) /\ ~(j < i)
    BY <1>1, <1>3, <1>4, <1>5
  <2> QED
    BY <2>1
<1>6. rank \in Surjection(K, 1 .. n)
  <2>1. rank \in Injection(K, 1 .. n)
    BY <1>3, <1>5 DEF Injection, IsInjective
  <2> QED
    BY <2>1, <1>1, FS_Injection
<1>7. \A k \in 1 .. n : \E i \in K : rank[i] = k
  BY <1>6 DEF Surjection
<1> DEFINE Up(f) == f \in [1 .. n -> K] /\ \A a, b \in 1 .. n : a < b => f[a] < f[b]
<1>8. \E f : Up(f)
  <2> DEFINE f == [k \in 1 .. n |-> CHOOSE i \in K : rank[i] = k]
  <2>1. \A k \in 1 .. n : f[k] \in K /\ rank[f[k]] = k
    BY <1>7
  <2>2. f \in [1 .. n -> K]
    BY <2>1
  <2> HIDE DEF f
  <2>3. ASSUME NEW a \in 1 .. n, NEW b \in 1 .. n, a < b PROVE f[a] < f[b]
    <3>1. f[a] \in K /\ f[b] \in K /\ rank[f[a]] = a /\ rank[f[b]] = b
      BY <2>1
    <3>5. a \in Int /\ b \in Int
      BY <1>1
    <3>4. a \in Int /\ b \in Int /\ f[a] \in Nat /\ f[b] \in Nat
      BY <3>1, <3>5, Zenon
    <3>2. ~(f[b] < f[a])
      <4> SUFFICES ASSUME f[b] < f[a] PROVE FALSE
        OBVIOUS
      <4>1. rank[f[b]] < rank[f[a]]
        BY <3>1, <1>4
      <4> QED
        BY <4>1, <3>1, <3>4, <2>3
    <3>3. f[a] # f[b]
      BY <3>1, <1>1, <2>3
    <3> QED
      BY <3>2, <3>3, <3>4
  <2> QED
    BY <2>2, <2>3
<1> DEFINE g == Increasing(K)
<1>9. Up(g)
  <2>1. g = CHOOSE f \in [1 .. n -> K] : \A a, b \in 1 .. n : a < b => f[a] < f[b]
    BY DEF Increasing
  <2>2. \E f \in [1 .. n -> K] : \A a, b \in 1 .. n : a < b => f[a] < f[b]
    BY <1>8
  <2> QED
    BY <2>1, <2>2
<1> HIDE DEF g
<1>10. \A i \in K : \E k \in 1 .. n : g[k] = i
  <2>1. ASSUME NEW a \in 1 .. n, NEW b \in 1 .. n, g[a] = g[b] PROVE a = b
    <3>3. a \in Int /\ b \in Int
      BY <1>1
    <3>4. g[a] \in K
      BY <1>9
    <3>1. g[a] \in Nat /\ a \in Int /\ b \in Int
      BY <3>3, <3>4, Zenon
    <3>2. ~(a < b) /\ ~(b < a)
      BY <1>9, <2>1, <3>1
    <3> QED
      BY <3>1, <3>2
  <2>2. g \in Injection(1 .. n, K)
    BY <1>9, <2>1 DEF Injection, IsInjective
  <2>3. g \in Surjection(1 .. n, K)
    BY <2>2, <1>1, FS_Injection
  <2> QED
    BY <2>3 DEF Surjection
<1> QED
  BY <1>1, <1>9, <1>10 DEF g

\* What retaining the indices K of s keeps: those elements, all of them, in their order.
LEMMA Retained ==
    ASSUME NEW S, NEW s \in Seq(S), NEW K, K \subseteq DOMAIN s
    PROVE  /\ RetainAt(s, K) \in Seq(S)
           /\ \E f \in [1 .. Len(RetainAt(s, K)) -> K] :
                 /\ \A k \in 1 .. Len(RetainAt(s, K)) : RetainAt(s, K)[k] = s[f[k]]
                 /\ \A a, b \in 1 .. Len(RetainAt(s, K)) : a < b => f[a] < f[b]
                 /\ \A i \in K : \E k \in 1 .. Len(RetainAt(s, K)) : f[k] = i
<1> DEFINE t == RetainAt(s, K)
           n == Cardinality(K)
           g == Increasing(K)
<1>1. Len(s) \in Nat /\ DOMAIN s = 1 .. Len(s) /\ \A i \in 1 .. Len(s) : s[i] \in S
  BY LenProperties, ElementOfSeq
<1>2. IsFiniteSet(K) /\ K \subseteq Nat
  <2>1. IsFiniteSet(1 .. Len(s))
    BY <1>1, FS_Interval
  <2> QED
    BY <2>1, <1>1, FS_Subset
<1>3. /\ n \in Nat /\ g \in [1 .. n -> K]
      /\ \A a, b \in 1 .. n : a < b => g[a] < g[b]
      /\ \A i \in K : \E k \in 1 .. n : g[k] = i
  BY <1>2, Enumerated
<1>4. t = [k \in 1 .. n |-> s[g[k]]]
  BY DEF RetainAt
<1> HIDE DEF g, t, n
<1>5. \A k \in 1 .. n : s[g[k]] \in S
  BY <1>1, <1>3
<1>6. t \in [1 .. n -> S]
  BY <1>4, <1>5
<1>7. t \in Seq(S) /\ Len(t) = n
  BY <1>6, <1>3
<1>8. \A k \in 1 .. n : t[k] = s[g[k]]
  BY <1>4
<1>9. t \in Seq(S) /\ \E f \in [1 .. Len(t) -> K] :
          /\ \A k \in 1 .. Len(t) : t[k] = s[f[k]]
          /\ \A a, b \in 1 .. Len(t) : a < b => f[a] < f[b]
          /\ \A i \in K : \E k \in 1 .. Len(t) : f[k] = i
  BY <1>3, <1>7, <1>8
<1> QED
  BY <1>9 DEF t

-----------------------------------------------------------------------------
(* The queue. *)

\* Constants and the fields of a request.
LEMMA Consts == MaxReq \in Nat /\ MaxEpoch \in Nat /\ RETRY_FRAMES \in Nat \ {0} /\ Ids \subseteq Nat \ {0}
  BY ViewStateAssumption DEF Ids

\* The types of a write's fields.
LEMMA ReqTypes ==
    ASSUME NEW r \in Req
    PROVE  r.id \in Ids /\ r.id \in Nat \ {0} /\ r.w \in Writes /\ Toggle(r) \in Toggles
<1>1. r.id \in Ids /\ r.w \in Writes /\ r.item \in Items
  BY DEF Req
<1>2. Toggle(r) \in Toggles
  BY <1>1 DEF Toggle, Toggles
<1> QED
  BY <1>1, <1>2, Consts

\* The requests of a sequence of them.
LEMMA SeqReq ==
    ASSUME NEW q \in Seq(Req)
    PROVE  /\ Len(q) \in Nat /\ DOMAIN q = 1 .. Len(q) /\ ToSet(q) = {q[i] : i \in 1 .. Len(q)}
           /\ \A i \in 1 .. Len(q) : q[i] \in Req /\ q[i].id \in Nat
<1>1. Len(q) \in Nat /\ DOMAIN q = 1 .. Len(q) /\ \A i \in 1 .. Len(q) : q[i] \in Req
  BY LenProperties, ElementOfSeq
<1> QED
  BY <1>1, ReqTypes DEF ToSet

\* k is what is left when the first n writes of q are taken off, and started or, without a
\* client, dropped.
TakenOff(q, s, k, n) ==
    /\ Len(k.queue) = Len(q) - n
    /\ \A i \in 1 .. Len(q) - n : k.queue[i] = q[n + i]
    /\ k.spawned \subseteq {q[i] : i \in 1 .. n}
    /\ client \/ n = 0 => k.spawned = {q[i] : i \in 1 .. n}
    /\ k.sent = s \/ (n > 0 /\ k.sent = q[n])

Untouched(q, s, cd) == [queue |-> q, sent |-> s, retry |-> cd, spawned |-> {}]

\* Whatever the system gives threads to, kick takes writes off the front.
LEMMA KickTakesOff ==
    ASSUME NEW q \in Seq(Req), NEW s \in Req \cup {None}, NEW cd \in 0 .. RETRY_FRAMES,
           NEW k \in kick(q, s, cd) \cup {Untouched(q, s, cd)}
    PROVE  /\ k.queue \in Seq(Req) /\ k.sent \in Req \cup {None} /\ k.retry \in 0 .. RETRY_FRAMES
           /\ \E n \in 0 .. Len(q) : TakenOff(q, s, k, n)
<1>1. Len(q) \in Nat /\ \A i \in 1 .. Len(q) : q[i] \in Req
  BY SeqReq
<1>2. CASE k = Untouched(q, s, cd)
  <2>1. k.queue = q /\ k.sent = s /\ k.retry = cd /\ k.spawned = {}
    BY <1>2 DEF Untouched
  <2>2. TakenOff(q, s, k, 0)
    BY <1>1, <2>1 DEF TakenOff
  <2> QED
    BY <1>1, <2>1, <2>2
<1>3. CASE ~client /\ k = [queue |-> << >>, sent |-> s, retry |-> cd, spawned |-> {}]
  <2>1. k.queue = << >> /\ k.sent = s /\ k.retry = cd /\ k.spawned = {}
    BY <1>3
  <2>2. TakenOff(q, s, k, Len(q))
    BY <1>1, <1>3, <2>1 DEF TakenOff
  <2> QED
    BY <1>1, <2>1, <2>2
<1>4. ASSUME NEW n \in 0 .. Len(q), k = KickOutcome(q, s, cd, n)
      PROVE  /\ k.queue \in Seq(Req) /\ k.sent \in Req \cup {None} /\ k.retry \in 0 .. RETRY_FRAMES
             /\ \E m \in 0 .. Len(q) : TakenOff(q, s, k, m)
  <2>1. /\ k.queue = SubSeq(q, n + 1, Len(q)) /\ k.sent = (IF n > 0 THEN q[n] ELSE s)
        /\ k.retry = (IF n < Len(q) THEN RETRY_FRAMES ELSE cd) /\ k.spawned = {q[i] : i \in 1 .. n}
    BY <1>4 DEF KickOutcome
  <2>2. /\ SubSeq(q, n + 1, Len(q)) \in Seq(Req)
        /\ Len(SubSeq(q, n + 1, Len(q))) = (IF n + 1 <= Len(q) THEN Len(q) - (n + 1) + 1 ELSE 0)
        /\ \A i \in 1 .. Len(q) - (n + 1) + 1 : SubSeq(q, n + 1, Len(q))[i] = q[n + 1 + i - 1]
    <3>1. n + 1 \in Int /\ Len(q) \in Int /\ \A i \in n + 1 .. Len(q) : q[i] \in Req
      BY <1>1
    <3> QED
      BY <3>1, SubSeqProperties
  <2>3. Len(k.queue) = Len(q) - n /\ \A i \in 1 .. Len(q) - n : k.queue[i] = q[n + i]
    BY <2>1, <2>2, <1>1
  <2>4. k.sent \in Req \cup {None} /\ k.retry \in 0 .. RETRY_FRAMES
    BY <2>1, <1>1, Consts
  <2>5. TakenOff(q, s, k, n)
    BY <2>1, <2>3 DEF TakenOff
  <2> QED
    BY <2>1, <2>2, <2>4, <2>5
<1> QED
  BY <1>2, <1>3, <1>4 DEF kick, Untouched

\* Taking writes off the front keeps the queue in order, and behind those it starts.
LEMMA TakenOffKeeps ==
    ASSUME NEW q \in Seq(Req), NEW s, NEW k, k.queue \in Seq(Req),
           NEW n \in 0 .. Len(q), TakenOff(q, s, k, n), NEW hi, NEW started, NEW sh,
           Numbered(q, hi), InOrder(q, started), Shows(q, sh)
    PROVE  /\ Numbered(k.queue, hi) /\ Shows(k.queue, sh)
           /\ InOrder(k.queue, started \cup {r.id : r \in k.spawned})
           /\ \A r \in k.spawned : since <= r.id /\ r.id < hi /\ r \in Req
           /\ k.sent = s \/ (k.sent # s /\ since <= k.sent.id /\ k.sent.id < hi
                             /\ InOrder(k.queue, {k.sent.id}))
<1> DEFINE t == k.queue
<1>1. Len(q) \in Nat /\ \A i \in 1 .. Len(q) : q[i] \in Req /\ q[i].id \in Nat
  BY SeqReq
<1>2. /\ Len(t) = Len(q) - n
      /\ \A i \in 1 .. Len(t) : t[i] = q[n + i] /\ n + i \in 1 .. Len(q)
  BY <1>1 DEF TakenOff
<1>3. \A r \in k.spawned : \E j \in 1 .. n : r = q[j] /\ j \in 1 .. Len(q)
  BY <1>1 DEF TakenOff
<1> HIDE DEF t
<1>4. Numbered(t, hi)
  BY <1>2 DEF Numbered
<1>5. Shows(t, sh)
  <2> SUFFICES ASSUME NEW i \in 1 .. Len(t)
               PROVE  /\ sh[Toggle(t[i])] = t[i].w
                      /\ \A j \in 1 .. Len(t) : Toggle(t[i]) = Toggle(t[j]) => i = j
    BY DEF Shows
  <2>1. sh[Toggle(t[i])] = t[i].w
    BY <1>2 DEF Shows
  <2>2. ASSUME NEW j \in 1 .. Len(t), Toggle(t[i]) = Toggle(t[j]) PROVE i = j
    <3>1. n + i = n + j
      BY <1>2, <2>2 DEF Shows
    <3> QED
      BY <3>1, <1>1, <1>2
  <2> QED
    BY <2>1, <2>2
<1>6. ASSUME NEW i \in 1 .. Len(t)
      PROVE  /\ \A j \in 1 .. Len(t) : i < j => t[i].id < t[j].id
             /\ \A id \in started : id < t[i].id
             /\ \A j \in 1 .. n : q[j].id < t[i].id
  <2>1. ASSUME NEW j \in 1 .. Len(t), i < j PROVE t[i].id < t[j].id
    <3>1. n + i \in 1 .. Len(q) /\ n + j \in 1 .. Len(q) /\ n + i < n + j
      BY <1>1, <1>2, <2>1
    <3> QED
      BY <3>1, <1>2 DEF InOrder
  <2>2. \A id \in started : id < t[i].id
    BY <1>2 DEF InOrder
  <2>3. ASSUME NEW j \in 1 .. n PROVE q[j].id < t[i].id
    <3>1. j \in 1 .. Len(q) /\ n + i \in 1 .. Len(q) /\ j < n + i
      BY <1>1, <1>2
    <3> QED
      BY <3>1, <1>2 DEF InOrder
  <2> QED
    BY <2>1, <2>2, <2>3
<1>7. InOrder(t, started \cup {r.id : r \in k.spawned})
  BY <1>3, <1>6 DEF InOrder
<1>8. \A r \in k.spawned : since <= r.id /\ r.id < hi /\ r \in Req
  BY <1>1, <1>3 DEF Numbered
<1>9. ASSUME k.sent # s PROVE since <= k.sent.id /\ k.sent.id < hi /\ InOrder(t, {k.sent.id})
  <2>1. n > 0 /\ k.sent = q[n] /\ n \in 1 .. n /\ n \in 1 .. Len(q)
    BY <1>1, <1>9 DEF TakenOff
  <2> QED
    BY <2>1, <1>6 DEF Numbered, InOrder
<1> QED
  BY <1>4, <1>5, <1>7, <1>8, <1>9 DEF t

\* Nothing taken off with a client is lost: it is still queued, or has a worker.
LEMMA TakenOffLosesNothing ==
    ASSUME NEW q \in Seq(Req), NEW s, NEW k, k.queue \in Seq(Req),
           NEW n \in 0 .. Len(q), TakenOff(q, s, k, n), client \/ n = 0
    PROVE  \A r \in ToSet(q) : r \in ToSet(k.queue) \cup k.spawned
<1>1. Len(q) \in Nat /\ ToSet(q) = {q[i] : i \in 1 .. Len(q)}
  BY SeqReq
<1>2. ToSet(k.queue) = {k.queue[i] : i \in 1 .. Len(k.queue)}
  BY SeqReq
<1> SUFFICES ASSUME NEW i \in 1 .. Len(q) PROVE q[i] \in ToSet(k.queue) \cup k.spawned
  BY <1>1
<1>3. CASE i <= n
  BY <1>1, <1>3 DEF TakenOff
<1>4. CASE i > n
  <2>1. i - n \in 1 .. Len(k.queue) /\ i - n \in 1 .. Len(q) - n /\ n + (i - n) = i
    BY <1>1, <1>4 DEF TakenOff
  <2>2. k.queue[i - n] = q[i]
    BY <2>1 DEF TakenOff
  <2> QED
    BY <1>2, <2>1, <2>2
<1> QED
  BY <1>1, <1>3, <1>4

\* Coalescing takes out the writes of one toggle, and only those.
LEMMA CoalesceKeeps ==
    ASSUME NEW q \in Seq(Req), NEW t, NEW hi, NEW started, NEW sh,
           Numbered(q, hi), InOrder(q, started), Shows(q, sh)
    PROVE  /\ coalesce(q, t) \in Seq(Req)
           /\ Numbered(coalesce(q, t), hi) /\ InOrder(coalesce(q, t), started) /\ Shows(coalesce(q, t), sh)
           /\ \A i \in 1 .. Len(coalesce(q, t)) : Toggle(coalesce(q, t)[i]) # t
           /\ \A r \in ToSet(q) : Toggle(r) # t => r \in ToSet(coalesce(q, t))
<1> DEFINE K == {i \in DOMAIN q : Toggle(q[i]) # t}
           c == coalesce(q, t)
<1>1. Len(q) \in Nat /\ DOMAIN q = 1 .. Len(q) /\ ToSet(q) = {q[i] : i \in 1 .. Len(q)}
  BY SeqReq
<1>2. c = RetainAt(q, K) /\ K \subseteq DOMAIN q
  BY DEF coalesce
<1>3. c \in Seq(Req) /\ \E f \in [1 .. Len(c) -> K] :
          /\ \A k \in 1 .. Len(c) : c[k] = q[f[k]]
          /\ \A a, b \in 1 .. Len(c) : a < b => f[a] < f[b]
          /\ \A i \in K : \E k \in 1 .. Len(c) : f[k] = i
  <2> DEFINE d == RetainAt(q, K)
  <2>1. d \in Seq(Req) /\ \E f \in [1 .. Len(d) -> K] :
          /\ \A k \in 1 .. Len(d) : d[k] = q[f[k]]
          /\ \A a, b \in 1 .. Len(d) : a < b => f[a] < f[b]
          /\ \A i \in K : \E k \in 1 .. Len(d) : f[k] = i
    <3> HIDE DEF K
    <3> QED
      BY <1>2, Retained
  <2>2. c = d
    BY <1>2
  <2> HIDE DEF c, d, K
  <2> QED
    BY <2>1, <2>2
<1> HIDE DEF c
<1>4. PICK f \in [1 .. Len(c) -> K] :
          /\ \A k \in 1 .. Len(c) : c[k] = q[f[k]]
          /\ \A a, b \in 1 .. Len(c) : a < b => f[a] < f[b]
          /\ \A i \in K : \E k \in 1 .. Len(c) : f[k] = i
  BY <1>3
<1>5. \A i \in 1 .. Len(c) : f[i] \in 1 .. Len(q) /\ c[i] = q[f[i]] /\ Toggle(c[i]) # t
  BY <1>1, <1>4
<1>6. Len(c) \in Nat /\ ToSet(c) = {c[i] : i \in 1 .. Len(c)}
  BY <1>3, SeqReq
<1>7. Numbered(c, hi)
  BY <1>5 DEF Numbered
<1>8. InOrder(c, started)
  <2>1. ASSUME NEW i \in 1 .. Len(c), NEW j \in 1 .. Len(c), i < j
        PROVE  c[i].id < c[j].id
    <3>1. f[i] < f[j]
      BY <1>4, <2>1
    <3>2. f[i] \in 1 .. Len(q) /\ f[j] \in 1 .. Len(q)
          /\ c[i] = q[f[i]] /\ c[j] = q[f[j]]
      BY <1>5
    <3>3. q[f[i]].id < q[f[j]].id
      BY <3>1, <3>2 DEF InOrder
    <3> QED
      BY <3>2, <3>3
  <2>2. ASSUME NEW i \in 1 .. Len(c), NEW id \in started
        PROVE  id < c[i].id
    BY <1>5 DEF InOrder
  <2> QED
    BY <2>1, <2>2 DEF InOrder
<1>9. Shows(c, sh)
  <2> SUFFICES ASSUME NEW i \in 1 .. Len(c)
               PROVE  /\ sh[Toggle(c[i])] = c[i].w
                      /\ \A j \in 1 .. Len(c) : Toggle(c[i]) = Toggle(c[j]) => i = j
    BY DEF Shows
  <2>1. sh[Toggle(c[i])] = c[i].w
    BY <1>5 DEF Shows
  <2>2. ASSUME NEW j \in 1 .. Len(c), Toggle(c[i]) = Toggle(c[j]) PROVE i = j
    <3>1. f[i] = f[j] /\ f[i] \in Int
      BY <1>1, <1>5, <2>2 DEF Shows
    <3>2. ~(i < j) /\ ~(j < i)
      BY <1>4, <3>1
    <3> QED
      BY <3>2, <1>6
  <2> QED
    BY <2>1, <2>2
<1>10. ASSUME NEW r \in ToSet(q), Toggle(r) # t PROVE r \in ToSet(c)
  <2>1. PICK i \in 1 .. Len(q) : r = q[i]
    BY <1>1
  <2>2. i \in K
    BY <1>1, <1>10, <2>1
  <2>3. PICK k \in 1 .. Len(c) : f[k] = i
    BY <1>4, <2>2
  <2> QED
    BY <1>5, <1>6, <2>1, <2>3
<1> QED
  BY <1>3, <1>5, <1>7, <1>8, <1>9, <1>10 DEF c

\* A new press goes behind everything and shows what it asks for.
LEMMA PressKeeps ==
    ASSUME NEW q \in Seq(Req), NEW r \in Req, NEW hi \in Nat, NEW started, NEW sh \in [Toggles -> Writes \cup {None}],
           Numbered(q, hi), InOrder(q, started), Shows(q, sh), r.id = hi, since <= hi, since \in Nat,
           \A id \in started : id < hi, \A i \in 1 .. Len(q) : Toggle(q[i]) # Toggle(r)
    PROVE  /\ Append(q, r) \in Seq(Req)
           /\ Numbered(Append(q, r), hi + 1) /\ InOrder(Append(q, r), started)
           /\ Shows(Append(q, r), [sh EXCEPT ![Toggle(r)] = r.w])
           /\ ToSet(Append(q, r)) = ToSet(q) \cup {r}
<1> DEFINE t == Append(q, r)
<1>1. Len(q) \in Nat /\ ToSet(q) = {q[i] : i \in 1 .. Len(q)} /\ \A i \in 1 .. Len(q) : q[i] \in Req /\ q[i].id \in Nat
  BY SeqReq
<1>2. /\ t \in Seq(Req) /\ Len(t) = Len(q) + 1 /\ t[Len(q) + 1] = r
      /\ \A i \in 1 .. Len(q) : t[i] = q[i]
  BY AppendProperties
<1> HIDE DEF t
<1>3. ToSet(t) = {t[i] : i \in 1 .. Len(t)}
  BY <1>2, SeqReq
<1>4. \A i \in 1 .. Len(t) : i \in 1 .. Len(q) \/ i = Len(q) + 1
  BY <1>1, <1>2
<1>5. Numbered(t, hi + 1)
  BY <1>1, <1>2, <1>4 DEF Numbered
<1>6. InOrder(t, started)
  <2> SUFFICES ASSUME NEW i \in 1 .. Len(t)
               PROVE  /\ \A j \in 1 .. Len(t) : i < j => t[i].id < t[j].id
                      /\ \A id \in started : id < t[i].id
    BY DEF InOrder
  <2>1. CASE i \in 1 .. Len(q)
    <3>1. t[i] = q[i] /\ q[i].id < hi
      BY <1>2, <2>1 DEF Numbered
    <3> QED
      BY <3>1, <1>2, <1>4, <2>1 DEF InOrder
  <2>2. CASE i = Len(q) + 1
    BY <1>1, <1>2, <1>4, <2>2
  <2> QED
    BY <2>1, <2>2, <1>4
<1>7. Shows(t, [sh EXCEPT ![Toggle(r)] = r.w])
  <2> DEFINE n == [sh EXCEPT ![Toggle(r)] = r.w]
  <2>1. n[Toggle(r)] = r.w /\ \A x : x # Toggle(r) /\ x \in Toggles => n[x] = sh[x]
    BY ReqTypes
  <2> HIDE DEF n
  <2>2. \A i \in 1 .. Len(q) : n[Toggle(q[i])] = q[i].w
    BY <1>1, <2>1, ReqTypes DEF Shows
  <2> SUFFICES ASSUME NEW i \in 1 .. Len(t)
               PROVE  /\ n[Toggle(t[i])] = t[i].w
                      /\ \A j \in 1 .. Len(t) : Toggle(t[i]) = Toggle(t[j]) => i = j
    BY DEF Shows, n
  <2>3. n[Toggle(t[i])] = t[i].w
    BY <1>2, <1>4, <2>1, <2>2
  <2>4. ASSUME NEW j \in 1 .. Len(t), Toggle(t[i]) = Toggle(t[j]) PROVE i = j
    BY <1>2, <1>4, <2>4 DEF Shows
  <2> QED
    BY <2>3, <2>4
<1>8. ToSet(t) = ToSet(q) \cup {r}
  <2>1. Len(q) + 1 \in 1 .. Len(t) /\ \A i \in 1 .. Len(q) : i \in 1 .. Len(t)
    BY <1>1, <1>2
  <2>2. ASSUME NEW x \in ToSet(t) PROVE x \in ToSet(q) \cup {r}
    BY <1>1, <1>2, <1>3, <1>4
  <2>3. ASSUME NEW x \in ToSet(q) \cup {r} PROVE x \in ToSet(t)
    BY <1>1, <1>2, <1>3, <2>1
  <2> QED
    BY <2>2, <2>3
<1> QED
  BY <1>2, <1>5, <1>6, <1>7, <1>8 DEF t

-----------------------------------------------------------------------------
(* The steps. *)

\* The invariant holds before the first press.
LEMMA InitHolds == Init => IInv
<1> SUFFICES ASSUME Init PROVE IInv
  OBVIOUS
<1>1. TypeOK
  <2>1. << >> \in Seq(Req) /\ 0 \in 0 .. RETRY_FRAMES /\ 0 \in 0 .. MaxEpoch /\ 1 \in 1 .. (MaxReq + 1)
    BY Consts
  <2>2. shown \in [Toggles -> Writes \cup {None}] /\ server \in [Toggles -> {0} \cup Ids]
    BY DEF Init
  <2> QED
    BY <2>1, <2>2 DEF Init, TypeOK
<1>2. Pressed
  BY DEF Init, Pressed
<1>3. Len(queue) = 0
  BY DEF Init
<1>4. Numbered(queue, next_request_id) /\ InOrder(queue, Started) /\ Shows(queue, shown)
  BY <1>3 DEF Numbered, InOrder, Shows
<1> QED
  BY <1>1, <1>2, <1>4 DEF IInv

\* Ids as numbers.
LEMMA Numbers ==
    ASSUME TypeOK
    PROVE  /\ since \in Nat /\ next_request_id \in Nat /\ epoch \in Nat /\ mail \in Nat
           /\ want_detail \in Nat
           /\ \A wk \in workers : wk.req \in Req /\ wk.req.id \in Nat /\ wk.epoch \in Nat
           /\ sent # None => sent \in Req /\ sent.id \in Nat
<1>1. \A wk \in workers : wk.req \in Req /\ wk.epoch \in 0 .. MaxEpoch
  BY DEF TypeOK, Worker
<1>2. mail \in Nat /\ want_detail \in Nat
  BY Consts DEF TypeOK
<1>3. sent # None => sent \in Req
  BY DEF TypeOK
<1>4. since \in Nat /\ next_request_id \in Nat /\ epoch \in Nat
  BY Consts DEF TypeOK
<1> QED
  BY <1>1, <1>2, <1>3, <1>4, ReqTypes, Consts

StartedBefore(s) == {wk.req.id : wk \in Mine} \cup (IF s = None THEN {} ELSE {s.id})

\* A step that ends by kicking a queue q that is in order, with s in flight.
LEMMA KickedHolds ==
    ASSUME IInv, NEW q \in Seq(Req), NEW s \in Req \cup {None}, NEW cd \in 0 .. RETRY_FRAMES,
           NEW k \in kick(q, s, cd) \cup {Untouched(q, s, cd)},
           queue' = k.queue, sent' = k.sent, retry_cd' = k.retry, Spawn(k.spawned),
           epoch' = epoch, since' = since, client' = client, server' = server,
           next_request_id' \in 1 .. (MaxReq + 1), next_request_id <= next_request_id',
           shown' \in [Toggles -> Writes \cup {None}],
           mail' \in {0, mail}, want_hubs' \in BOOLEAN, want_detail' \in {0} \cup Ids,
           want_hubs' => since < next_request_id',
           want_detail' # 0 => since <= want_detail' /\ want_detail' < next_request_id',
           Numbered(q, next_request_id'), InOrder(q, StartedBefore(s)), Shows(q, shown'),
           s # None => since <= s.id /\ s.id < next_request_id'
    PROVE  IInv'
<1> USE DEF IInv
<1>1. PICK n \in 0 .. Len(q) : TakenOff(q, s, k, n)
  BY KickTakesOff
<1>2. k.queue \in Seq(Req) /\ k.sent \in Req \cup {None} /\ k.retry \in 0 .. RETRY_FRAMES
  BY KickTakesOff
<1>3. /\ Numbered(k.queue, next_request_id') /\ Shows(k.queue, shown')
      /\ InOrder(k.queue, StartedBefore(s) \cup {r.id : r \in k.spawned})
      /\ \A r \in k.spawned : since <= r.id /\ r.id < next_request_id' /\ r \in Req
      /\ k.sent = s \/ (k.sent # s /\ since <= k.sent.id /\ k.sent.id < next_request_id'
                        /\ InOrder(k.queue, {k.sent.id}))
  BY <1>1, <1>2, TakenOffKeeps
<1> DEFINE fresh == {[epoch |-> epoch, req |-> r, told |-> FALSE] : r \in k.spawned}
<1>4. workers' = workers \cup fresh
  BY DEF Spawn
<1>5. \A wk \in fresh : wk \in Worker /\ wk.epoch = epoch /\ wk.req \in k.spawned
  <2> SUFFICES ASSUME NEW r \in k.spawned
               PROVE  LET wk == [epoch |-> epoch, req |-> r, told |-> FALSE]
                      IN  wk \in Worker /\ wk.epoch = epoch /\ wk.req \in k.spawned
    OBVIOUS
  <2>1. r \in Req /\ epoch \in 0 .. MaxEpoch
    BY <1>3 DEF TypeOK
  <2> QED
    BY <2>1 DEF Worker
<1> HIDE DEF fresh
<1>6. TypeOK'
  <2>1. mail' \in {0} \cup Ids /\ workers' \subseteq Worker
    BY <1>4, <1>5 DEF TypeOK
  <2> QED
    BY <1>2, <2>1 DEF TypeOK
<1>7. Pressed'
  <2>1. /\ since <= next_request_id'
        /\ mail' # 0 => since <= mail' /\ mail' < next_request_id'
    <3>1. since \in Nat /\ next_request_id \in Nat /\ next_request_id' \in Nat /\ mail \in Nat
      BY Numbers, Consts
    <3> QED
      BY <3>1 DEF Pressed
  <2>2. sent' # None => since <= sent'.id /\ sent'.id < next_request_id'
    BY <1>3
  <2>3. ASSUME NEW wk \in workers'
        PROVE  /\ wk.epoch <= epoch /\ wk.req.id < next_request_id'
               /\ wk.epoch = epoch => since <= wk.req.id
    <3>1. CASE wk \in workers
      <4>1. wk.req.id \in Nat /\ next_request_id \in Nat /\ next_request_id' \in Nat
        BY <3>1, Numbers, Consts
      <4> QED
        BY <3>1, <4>1 DEF Pressed
    <3>2. CASE wk \in fresh
      BY <3>2, <1>3, <1>5, Numbers
    <3> QED
      BY <3>1, <3>2, <1>4
  <2> QED
    BY <2>1, <2>2, <2>3 DEF Pressed
<1>8. InOrder(k.queue, Started')
  <2>1. \A id \in Started' : \/ id \in StartedBefore(s) \cup {r.id : r \in k.spawned}
                             \/ k.sent # s /\ id = k.sent.id
    <3>1. \A wk \in Mine' : wk \in Mine \/ wk.req \in k.spawned
      BY <1>4, <1>5 DEF Mine
    <3> QED
      BY <3>1 DEF Started, StartedBefore
  <2> QED
    BY <2>1, <1>3 DEF InOrder
<1>9. Numbered(queue, next_request_id)' /\ InOrder(queue, Started)' /\ Shows(queue, shown)'
  <2>1. Numbered(queue, next_request_id)'
    BY <1>3 DEF Numbered
  <2>2. InOrder(queue, Started)'
    BY <1>8 DEF InOrder
  <2>3. Shows(queue, shown)'
    BY <1>3 DEF Shows, Toggle
  <2> QED
    BY <2>1, <2>2, <2>3
<1> QED
  BY <1>6, <1>7, <1>9

\* The queue a press hands to kick: the toggle's older write is out and the new one is last.
Queued(r) == Append(coalesce(queue, Toggle(r)), r)

\* A press coalesces, then stands last.
LEMMA QueuedKeeps ==
    ASSUME IInv, next_request_id <= MaxReq, NEW r \in Req, r.id = next_request_id
    PROVE  /\ Queued(r) \in Seq(Req) /\ Numbered(Queued(r), next_request_id + 1)
           /\ InOrder(Queued(r), Started) /\ Shows(Queued(r), [shown EXCEPT ![Toggle(r)] = r.w])
           /\ \A x \in ToSet(queue) : Toggle(x) # Toggle(r) => x \in ToSet(Queued(r))
           /\ r \in ToSet(Queued(r))
<1> USE DEF IInv
<1> DEFINE c == coalesce(queue, Toggle(r))
<1>1. queue \in Seq(Req) /\ since \in Nat /\ next_request_id \in Nat /\ since <= next_request_id
  BY Numbers DEF TypeOK, Pressed
<1>2. /\ c \in Seq(Req) /\ Numbered(c, next_request_id) /\ InOrder(c, Started) /\ Shows(c, shown)
      /\ \A i \in 1 .. Len(c) : Toggle(c[i]) # Toggle(r)
      /\ \A x \in ToSet(queue) : Toggle(x) # Toggle(r) => x \in ToSet(c)
  BY <1>1, CoalesceKeeps
<1>3. \A id \in Started : id < next_request_id
  BY DEF Started, Mine, Pressed
<1>4. shown \in [Toggles -> Writes \cup {None}]
  BY DEF TypeOK
<1> HIDE DEF c
<1>5. /\ Append(c, r) \in Seq(Req) /\ Numbered(Append(c, r), next_request_id + 1)
      /\ InOrder(Append(c, r), Started) /\ Shows(Append(c, r), [shown EXCEPT ![Toggle(r)] = r.w])
      /\ ToSet(Append(c, r)) = ToSet(c) \cup {r}
  BY <1>1, <1>2, <1>3, <1>4, PressKeeps
<1>6. Queued(r) = Append(c, r)
  BY DEF Queued, c
<1> QED
  BY <1>2, <1>5, <1>6

\* A press, as the kick of the queue it built.
LEMMA RequestKicks ==
    ASSUME IInv, NEW item \in Items, NEW w \in Writes, NEW detail \in BOOLEAN, Request(item, w, detail)
    PROVE  \E r \in Req : /\ r.id = next_request_id /\ next_request_id <= MaxReq /\ client
                          /\ shown' = [shown EXCEPT ![Toggle(r)] = r.w]
                          /\ next_request_id' = next_request_id + 1
                          /\ UNCHANGED <<want_hubs, want_detail, mail, epoch, client, server, since>>
                          /\ \E k \in kick(Queued(r), sent, retry_cd) :
                                /\ queue' = k.queue /\ sent' = k.sent /\ retry_cd' = k.retry
                                /\ Spawn(k.spawned)
<1> DEFINE r == [id |-> next_request_id, item |-> item, w |-> w, detail |-> detail]
<1>1. next_request_id \in Ids
  BY Consts DEF Request, Ids, IInv, TypeOK
<1>2. r \in Req /\ r.id = next_request_id /\ r.w = w
  BY <1>1 DEF Req
<1>3. /\ next_request_id <= MaxReq /\ client /\ shown' = [shown EXCEPT ![Toggle(r)] = w]
      /\ next_request_id' = next_request_id + 1
      /\ UNCHANGED <<want_hubs, want_detail, mail, epoch, client, server, since>>
      /\ \E k \in kick(Append(coalesce(queue, Toggle(r)), r), sent, retry_cd) :
            /\ queue' = k.queue /\ sent' = k.sent /\ retry_cd' = k.retry /\ Spawn(k.spawned)
  BY DEF Request
<1> HIDE DEF r
<1> QED
  BY <1>2, <1>3 DEF Queued

\* A press.
LEMMA RequestHolds ==
    ASSUME IInv, NEW item \in Items, NEW w \in Writes, NEW detail \in BOOLEAN, Request(item, w, detail)
    PROVE  IInv'
<1>1. PICK r \in Req : /\ r.id = next_request_id /\ next_request_id <= MaxReq /\ client
                       /\ shown' = [shown EXCEPT ![Toggle(r)] = r.w]
                       /\ next_request_id' = next_request_id + 1
                       /\ UNCHANGED <<want_hubs, want_detail, mail, epoch, client, server, since>>
                       /\ \E k \in kick(Queued(r), sent, retry_cd) :
                             /\ queue' = k.queue /\ sent' = k.sent /\ retry_cd' = k.retry
                             /\ Spawn(k.spawned)
  BY RequestKicks
<1>2. PICK k \in kick(Queued(r), sent, retry_cd) :
         queue' = k.queue /\ sent' = k.sent /\ retry_cd' = k.retry /\ Spawn(k.spawned)
  BY <1>1
<1>3. /\ Queued(r) \in Seq(Req) /\ Numbered(Queued(r), next_request_id + 1)
      /\ InOrder(Queued(r), Started) /\ Shows(Queued(r), [shown EXCEPT ![Toggle(r)] = r.w])
  BY <1>1, QueuedKeeps
<1>4. Started = StartedBefore(sent)
  BY DEF Started, StartedBefore
<1>5. /\ next_request_id' \in 1 .. (MaxReq + 1) /\ next_request_id <= next_request_id'
      /\ since \in Nat /\ next_request_id \in Nat /\ next_request_id < next_request_id'
      /\ want_detail \in Nat
  BY <1>1, Numbers, Consts DEF IInv, TypeOK
<1>6. shown' \in [Toggles -> Writes \cup {None}]
  <2>1. Toggle(r) \in Toggles /\ r.w \in Writes
    BY ReqTypes
  <2> QED
    BY <1>1, <2>1 DEF IInv, TypeOK
<1>7. want_hubs' => since < next_request_id'
  BY <1>1, <1>5 DEF IInv, Pressed
<1>8. want_detail' # 0 => since <= want_detail' /\ want_detail' < next_request_id'
  BY <1>1, <1>5 DEF IInv, Pressed
<1>9. sent # None => since <= sent.id /\ sent.id < next_request_id'
  BY <1>5, Numbers DEF IInv, Pressed
<1>10. /\ sent \in Req \cup {None} /\ retry_cd \in 0 .. RETRY_FRAMES
       /\ mail' \in {0, mail} /\ want_hubs' \in BOOLEAN /\ want_detail' \in {0} \cup Ids
  BY <1>1 DEF IInv, TypeOK
<1>11. /\ Numbered(Queued(r), next_request_id') /\ InOrder(Queued(r), StartedBefore(sent))
       /\ Shows(Queued(r), shown')
  BY <1>1, <1>3, <1>4
<1>12. k \in kick(Queued(r), sent, retry_cd) \cup {Untouched(Queued(r), sent, retry_cd)}
  BY <1>2
<1>13. epoch' = epoch /\ since' = since /\ client' = client /\ server' = server
  BY <1>1
<1> QED
  BY <1>2, <1>3, <1>5, <1>6, <1>7, <1>8, <1>9, <1>10, <1>11, <1>12, <1>13, KickedHolds

\* A frame, as the kick or not of the queue as it is.
LEMMA PumpKicks ==
    ASSUME IInv, Pump
    PROVE  \E s \in {sent, None}, cd \in 0 .. RETRY_FRAMES :
             /\ \E k \in kick(queue, s, cd) \cup {Untouched(queue, s, cd)} :
                   /\ queue' = k.queue /\ sent' = k.sent /\ retry_cd' = k.retry /\ Spawn(k.spawned)
             /\ mail' = 0 /\ want_hubs' \in BOOLEAN
             /\ want_hubs' => want_hubs \/ sent # None
             /\ want_detail' \in {0, want_detail} \/ (sent # None /\ want_detail' = sent.id)
             /\ UNCHANGED <<next_request_id, epoch, client, shown, server, since>>
<1> DEFINE exact  == mail # 0 /\ sent # None /\ sent.id = mail
           cd     == retry_tick(retry_cd)
           s      == IF exact THEN None ELSE sent
           hubs   == want_hubs \/ exact
           detail == IF exact /\ sent.detail THEN sent.id ELSE want_detail
           Kicked == IF retry_due(retry_cd)
                     THEN kick(queue, s, cd)
                     ELSE {[queue |-> queue, sent |-> s, retry |-> cd, spawned |-> {}]}
<1>1. PICK k \in Kicked :
          /\ queue' = k.queue /\ sent' = k.sent /\ retry_cd' = k.retry /\ Spawn(k.spawned)
          /\ mail' = 0
          /\ want_hubs' = (hubs /\ is_busy(k.queue, k.sent))
          /\ want_detail' = IF is_busy(k.queue, k.sent) THEN detail ELSE 0
          /\ UNCHANGED <<next_request_id, epoch, client, shown, server, since>>
  BY DEF Pump
<1>2. cd \in 0 .. RETRY_FRAMES
  BY Consts DEF retry_tick, IInv, TypeOK
<1>3. s \in {sent, None}
  OBVIOUS
<1>4. k \in kick(queue, s, cd) \cup {Untouched(queue, s, cd)}
  BY DEF Untouched
<1>5. want_hubs' \in BOOLEAN /\ (want_hubs' => want_hubs \/ sent # None)
  BY <1>1
<1>6. want_detail' \in {0, want_detail} \/ (sent # None /\ want_detail' = sent.id)
  BY <1>1
<1> HIDE DEF cd, s, Kicked
<1> QED
  BY <1>1, <1>2, <1>3, <1>4, <1>5, <1>6

\* A frame of the pump.
LEMMA PumpHolds ==
    ASSUME IInv, Pump
    PROVE  IInv'
<1>1. PICK s \in {sent, None}, cd \in 0 .. RETRY_FRAMES :
         /\ \E k \in kick(queue, s, cd) \cup {Untouched(queue, s, cd)} :
               /\ queue' = k.queue /\ sent' = k.sent /\ retry_cd' = k.retry /\ Spawn(k.spawned)
         /\ mail' = 0 /\ want_hubs' \in BOOLEAN
         /\ want_hubs' => want_hubs \/ sent # None
         /\ want_detail' \in {0, want_detail} \/ (sent # None /\ want_detail' = sent.id)
         /\ UNCHANGED <<next_request_id, epoch, client, shown, server, since>>
  BY PumpKicks
<1>2. PICK k \in kick(queue, s, cd) \cup {Untouched(queue, s, cd)} :
         queue' = k.queue /\ sent' = k.sent /\ retry_cd' = k.retry /\ Spawn(k.spawned)
  BY <1>1
<1>3. /\ queue \in Seq(Req) /\ s \in Req \cup {None} /\ since \in Nat /\ next_request_id \in Nat
      /\ next_request_id' \in 1 .. (MaxReq + 1) /\ next_request_id <= next_request_id'
      /\ shown' \in [Toggles -> Writes \cup {None}]
  BY <1>1, Numbers DEF IInv, TypeOK
<1>4. s # None => since <= s.id /\ s.id < next_request_id'
  BY <1>1 DEF IInv, Pressed
<1>5. want_hubs' => since < next_request_id'
  BY <1>1, <1>3, Numbers DEF IInv, Pressed
<1>6. /\ want_detail' \in {0} \cup Ids
      /\ want_detail' # 0 => since <= want_detail' /\ want_detail' < next_request_id'
  <2>1. sent # None => sent.id \in Ids
    BY ReqTypes DEF IInv, TypeOK
  <2> QED
    BY <1>1, <2>1 DEF IInv, Pressed, TypeOK
<1>7. Numbered(queue, next_request_id') /\ Shows(queue, shown')
  BY <1>1 DEF IInv
<1>8. InOrder(queue, StartedBefore(s))
  BY <1>1 DEF IInv, InOrder, Started, StartedBefore
<1>9. mail' \in {0, mail} /\ want_hubs' \in BOOLEAN /\ epoch' = epoch /\ since' = since
      /\ client' = client /\ server' = server
  BY <1>1
<1> QED
  BY <1>2, <1>3, <1>4, <1>5, <1>6, <1>7, <1>8, <1>9, KickedHolds

\* A profile switch.
LEMMA ResetHolds ==
    ASSUME IInv, Reset
    PROVE  IInv'
<1> USE DEF IInv
<1>1. TypeOK'
  <2>1. epoch' \in 0 .. MaxEpoch /\ << >> \in Seq(Req) /\ 0 \in 0 .. RETRY_FRAMES
    BY Consts DEF Reset, TypeOK
  <2> QED
    BY <2>1 DEF Reset, TypeOK
<1>2. Pressed'
  <2>1. \A wk \in workers : wk.epoch <= epoch + 1 /\ wk.epoch # epoch + 1
    BY Numbers DEF Pressed
  <2> QED
    BY <2>1, Numbers DEF Reset, Pressed
<1>3. queue' = << >> /\ Len(queue') = 0
  BY DEF Reset
<1>4. Numbered(queue, next_request_id)' /\ InOrder(queue, Started)' /\ Shows(queue, shown)'
  BY <1>3 DEF Numbered, InOrder, Shows
<1> QED
  BY <1>1, <1>2, <1>4

\* A step of a worker, or of the client, that leaves the queue alone.
LEMMA AsideHolds ==
    ASSUME IInv, UNCHANGED <<queue, sent, retry_cd, want_hubs, want_detail, next_request_id,
                             epoch, shown, since>>,
           client' \in BOOLEAN, server' \in [Toggles -> {0} \cup Ids],
           workers' \subseteq Worker,
           \A wk \in workers' : \E v \in workers : v.req = wk.req /\ v.epoch = wk.epoch,
           mail' = mail \/ \E wk \in workers : wk.epoch = epoch /\ mail' = wk.req.id
    PROVE  IInv'
<1> USE DEF IInv
<1>1. mail' \in {0} \cup Ids
  BY Numbers, ReqTypes DEF TypeOK
<1>2. TypeOK'
  BY <1>1 DEF TypeOK
<1>3. Pressed'
  <2>1. mail' # 0 => since <= mail' /\ mail' < next_request_id
    BY DEF Pressed
  <2>2. \A wk \in workers' : /\ wk.epoch <= epoch /\ wk.req.id < next_request_id
                             /\ wk.epoch = epoch => since <= wk.req.id
    BY DEF Pressed
  <2> QED
    BY <2>1, <2>2 DEF Pressed
<1>4. Started' \subseteq Started
  <2>1. ASSUME NEW wk \in Mine' PROVE \E v \in Mine : v.req = wk.req
    BY DEF Mine
  <2> QED
    BY <2>1 DEF Started
<1>5. InOrder(queue, Started)'
  BY <1>4 DEF InOrder
<1>6. Numbered(queue, next_request_id)' /\ Shows(queue, shown)'
  BY DEF Numbered, Shows, Toggle
<1> QED
  BY <1>2, <1>3, <1>5, <1>6

\* Every step preserves the invariant.
LEMMA StepHolds == IInv /\ [Next]_vars => IInv'
<1> SUFFICES ASSUME IInv, [Next]_vars PROVE IInv'
  OBVIOUS
<1>1. CASE \E item \in Items, w \in Writes, detail \in BOOLEAN : Request(item, w, detail)
  BY <1>1, RequestHolds
<1>2. CASE Reset
  BY <1>2, ResetHolds
<1>3. CASE Pump
  BY <1>3, PumpHolds
<1>4. CASE SetClient \/ UNCHANGED vars
  <2>1. client' \in BOOLEAN
    BY <1>4 DEF SetClient, vars, IInv, TypeOK
  <2>2. /\ UNCHANGED <<queue, sent, retry_cd, want_hubs, want_detail, next_request_id, epoch, shown, since>>
        /\ server' = server /\ workers' = workers /\ mail' = mail
    BY <1>4 DEF SetClient, vars
  <2>3. server \in [Toggles -> {0} \cup Ids] /\ workers \subseteq Worker
    BY DEF IInv, TypeOK
  <2> QED
    BY <2>1, <2>2, <2>3, AsideHolds
<1>5. ASSUME NEW wk \in workers, NEW ok \in BOOLEAN, Perform(wk, ok) PROVE IInv'
  <2>1. wk \in Worker /\ workers \subseteq Worker
    BY DEF IInv, TypeOK
  <2> DEFINE v == [wk EXCEPT !.told = TRUE]
  <2>2. v \in Worker /\ v.req = wk.req /\ v.epoch = wk.epoch
    BY <2>1 DEF Worker
  <2> HIDE DEF v
  <2>3. workers' = (workers \ {wk}) \cup {v}
    BY <1>5 DEF Perform, v
  <2>4. server' \in [Toggles -> {0} \cup Ids]
    <3>1. wk.req.id \in Ids
      BY Numbers, ReqTypes DEF IInv
    <3> QED
      BY <3>1, <1>5 DEF Perform, IInv, TypeOK
  <2>5. /\ UNCHANGED <<queue, sent, retry_cd, want_hubs, want_detail, next_request_id, epoch, shown, since>>
        /\ client' \in BOOLEAN /\ mail' = mail
    BY <1>5 DEF Perform, IInv, TypeOK
  <2>6. workers' \subseteq Worker /\ \A x \in workers' : \E y \in workers : y.req = x.req /\ y.epoch = x.epoch
    BY <2>1, <2>2, <2>3
  <2> QED
    BY <2>4, <2>5, <2>6, AsideHolds
<1>6. ASSUME NEW wk \in workers, Complete(wk) PROVE IInv'
  <2>1. workers' \subseteq workers /\ workers \subseteq Worker /\ server \in [Toggles -> {0} \cup Ids]
    BY <1>6 DEF Complete, IInv, TypeOK
  <2>2. /\ UNCHANGED <<queue, sent, retry_cd, want_hubs, want_detail, next_request_id, epoch, shown, since>>
        /\ client' \in BOOLEAN /\ server' = server
    BY <1>6 DEF Complete, IInv, TypeOK
  <2>3. mail' = mail \/ \E v \in workers : v.epoch = epoch /\ mail' = v.req.id
    BY <1>6 DEF Complete
  <2> QED
    BY <2>1, <2>2, <2>3, AsideHolds
<1> QED
  BY <1>1, <1>2, <1>3, <1>4, <1>5, <1>6 DEF Next

\* The inductive invariant holds of every behaviour.
LEMMA Invariant == Spec => []IInv
  BY InitHolds, StepHolds, PTL DEF Spec

-----------------------------------------------------------------------------
(* The theorems. *)

\* Writes are started in the order they were pressed, one is queued for each toggle, and it is the
\* one on the screen, whatever is refused, coalesced or overtaken (kick, coalesce, Write::family).
THEOREM QueueIsSafe == Spec => []ViewStateSafe
<1>1. IInv => ViewStateSafe
  <2> SUFFICES ASSUME IInv PROVE ViewStateSafe
    OBVIOUS
  <2>1. DOMAIN queue = 1 .. Len(queue)
    BY SeqReq DEF IInv, TypeOK
  <2>2. StartedInPressOrder
    BY <2>1 DEF IInv, InOrder, StartedInPressOrder
  <2>3. QueuedIsWhatIsShown
    BY <2>1 DEF IInv, Shows, QueuedIsWhatIsShown
  <2> QED
    BY <2>2, <2>3 DEF IInv, ViewStateSafe
<1> QED
  BY <1>1, Invariant, PTL

\* Nothing pressed under one profile is queued, in flight, answered or owed under the next, although
\* the old profile's workers still answer (ViewStateStore::run, reset).
THEOREM ProfilesAreApart == Spec => []NothingCrossesProfiles
<1>1. IInv => NothingCrossesProfiles
  <2> SUFFICES ASSUME IInv PROVE NothingCrossesProfiles
    OBVIOUS
  <2>1. \A i \in DOMAIN queue : queue[i].id >= since
    <3>1. DOMAIN queue = 1 .. Len(queue) /\ \A i \in 1 .. Len(queue) : queue[i].id \in Nat
      BY SeqReq DEF IInv, TypeOK
    <3> QED
      BY <3>1, Numbers DEF IInv, Numbered
  <2> QED
    BY <2>1, Numbers DEF IInv, Pressed, NothingCrossesProfiles
<1> QED
  BY <1>1, Invariant, PTL

\* What NoPressIsLost says of one queued write in one step.
Kept(x) ==
    \/ x \in ToSet(queue')
    \/ \E wk \in workers' : wk.req = x
    \/ \E r \in ToSet(queue') \cup {wk.req : wk \in workers'} : Toggle(r) = Toggle(x) /\ r.id > x.id
    \/ ~client
    \/ since' > since

\* What kick takes off a queue with a client is kept.
LEMMA KickLosesNothing ==
    ASSUME NEW q \in Seq(Req), NEW s \in Req \cup {None}, NEW cd \in 0 .. RETRY_FRAMES,
           NEW k \in kick(q, s, cd) \cup {Untouched(q, s, cd)},
           queue' = k.queue, Spawn(k.spawned), client
    PROVE  \A r \in ToSet(q) : r \in ToSet(queue') \/ \E wk \in workers' : wk.req = r
<1>1. PICK n \in 0 .. Len(q) : TakenOff(q, s, k, n)
  BY KickTakesOff
<1>2. k.queue \in Seq(Req)
  BY KickTakesOff
<1>3. \A r \in ToSet(q) : r \in ToSet(k.queue) \cup k.spawned
  BY <1>1, <1>2, TakenOffLosesNothing
<1>4. ASSUME NEW r \in k.spawned PROVE \E wk \in workers' : wk.req = r
  <2> DEFINE wk == [epoch |-> epoch, req |-> r, told |-> FALSE]
  <2>1. wk \in workers'
    BY DEF Spawn
  <2>2. wk.req = r
    OBVIOUS
  <2> QED
    BY <2>1, <2>2
<1> QED
  BY <1>3, <1>4

\* No step drops a queued write but for one of the named reasons.
LEMMA StepLosesNothing ==
    ASSUME IInv, Next, NEW x \in ToSet(queue)
    PROVE  Kept(x)
<1>0. queue \in Seq(Req) /\ ToSet(queue) = {queue[i] : i \in 1 .. Len(queue)}
  BY SeqReq DEF IInv, TypeOK
<1>1. x \in Req /\ x.id \in Nat /\ since <= x.id /\ x.id < next_request_id
      /\ since \in Nat /\ next_request_id \in Nat
  BY <1>0, SeqReq, Numbers DEF IInv, Numbered
<1>2. ASSUME NEW item \in Items, NEW w \in Writes, NEW detail \in BOOLEAN, Request(item, w, detail)
      PROVE  Kept(x)
  <2>1. PICK r \in Req : /\ r.id = next_request_id /\ next_request_id <= MaxReq /\ client
                         /\ \E k \in kick(Queued(r), sent, retry_cd) :
                               queue' = k.queue /\ Spawn(k.spawned)
    BY <1>2, RequestKicks
  <2>2. PICK k \in kick(Queued(r), sent, retry_cd) : queue' = k.queue /\ Spawn(k.spawned)
    BY <2>1
  <2>3. /\ Queued(r) \in Seq(Req) /\ r \in ToSet(Queued(r))
        /\ Toggle(x) # Toggle(r) => x \in ToSet(Queued(r))
    BY <2>1, QueuedKeeps
  <2>4. \A y \in ToSet(Queued(r)) : y \in ToSet(queue') \/ \E wk \in workers' : wk.req = y
    <3>1. sent \in Req \cup {None} /\ retry_cd \in 0 .. RETRY_FRAMES
      BY DEF IInv, TypeOK
    <3> QED
      BY <2>1, <2>2, <2>3, <3>1, KickLosesNothing
  <2>5. CASE Toggle(x) # Toggle(r)
    BY <2>3, <2>4, <2>5 DEF Kept
  <2>6. CASE Toggle(x) = Toggle(r)
    <3>1. r \in ToSet(queue') \cup {wk.req : wk \in workers'}
      BY <2>3, <2>4
    <3>2. r.id > x.id
      BY <1>1, <2>1
    <3> QED
      BY <2>6, <3>1, <3>2 DEF Kept
  <2> QED
    BY <2>5, <2>6
<1>3. CASE Reset
  <2>1. since' = next_request_id
    BY <1>3 DEF Reset
  <2> QED
    BY <1>1, <2>1 DEF Kept
<1>4. CASE Pump
  <2>1. PICK s \in {sent, None}, cd \in 0 .. RETRY_FRAMES :
           \E k \in kick(queue, s, cd) \cup {Untouched(queue, s, cd)} :
               queue' = k.queue /\ Spawn(k.spawned)
    BY <1>4, PumpKicks
  <2>2. s \in Req \cup {None}
    BY DEF IInv, TypeOK
  <2>3. client => x \in ToSet(queue') \/ \E wk \in workers' : wk.req = x
    BY <1>0, <2>1, <2>2, KickLosesNothing
  <2> QED
    BY <2>3 DEF Kept
<1>5. CASE queue' = queue
  BY <1>5 DEF Kept
<1> QED
  BY <1>2, <1>3, <1>4, <1>5 DEF Next, SetClient, Perform, Complete

\* A queued press goes away only by being started, by a newer press of its toggle, with the client or
\* with its profile (kick, coalesce, ViewStateState::request).
THEOREM PressesAreKept == Spec => NoPressIsLost
<1>1. IInv /\ [Next]_vars => [\A i \in DOMAIN queue :
          \/ queue[i] \in ToSet(queue')
          \/ \E wk \in workers' : wk.req = queue[i]
          \/ \E r \in ToSet(queue') \cup {wk.req : wk \in workers'} :
                Toggle(r) = Toggle(queue[i]) /\ r.id > queue[i].id
          \/ ~client
          \/ since' > since]_vars
  <2> SUFFICES ASSUME IInv, Next, NEW i \in DOMAIN queue PROVE Kept(queue[i])
    BY DEF Kept
  <2>1. queue[i] \in ToSet(queue)
    BY DEF ToSet
  <2> QED
    BY <2>1, StepLosesNothing
<1> QED
  BY <1>1, Invariant, PTL DEF Spec, NoPressIsLost

=============================================================================
