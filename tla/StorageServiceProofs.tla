------------------------ MODULE StorageServiceProofs ------------------------
(* Proofs about module StorageService, for every ledger capacity, firmware and bound. *)
EXTENDS StorageService, SequenceTheorems, FiniteSetTheorems, TLAPS

-----------------------------------------------------------------------------
(* The inductive invariant.  A put is live while it carries the revision of the record: only a *)
(* live put can be taken, and taking one makes every other dead. *)

Live(p) == p.rev = db.rev

\* The ledger l with a receipt e.
Receipt(l, e) == LET a == Append(l, e) IN IF Len(a) > LEDGER_CAPACITY THEN Tail(a) ELSE a

\* The keys ks open the record r.
Served(r, ks) ==
    /\ r.env = "km" => r.gen \in ks
    /\ r.pending # NoPending => r.pending.gen \in ks

\* The record r names only generations up to g, and stages only an operation that was
\* submitted and that the record has not taken.
Sound(r, g) ==
    /\ r.gen <= g /\ r.pending.gen <= g
    /\ r.pending # NoPending => r.pending.op \in 1 .. ops /\ r.pending.op \notin ToSet(log)

\* The log holds submitted operations and the writes of others so far; the ledger is a part of it
\* that has the last operation, but for at most the writes of others behind it.
Logged ==
    /\ \A o \in ToSet(log) : o \in 1 .. ops \/ o \in MaxOps + 1 .. MaxOps + foreign
    /\ \A i \in 1 .. Len(db.ledger) : db.ledger[i].op \in ToSet(log)
    /\ ops \in ToSet(log) =>
           \E i \in 1 .. Len(db.ledger) : db.ledger[i].op = ops /\ Len(db.ledger) - i <= foreign

\* A put that writes no receipt stages a refresh or gives up the seal of the last operation.
Rewrites(p) ==
    /\ p.val.ledger = db.ledger /\ p.val.gen = db.gen
    /\ \/ p.val.env = db.env
       \/ p.val.env = "acl" /\ db.ledger # << >> /\ Last(db.ledger).op \in fresh

\* A put that applies an operation.
Applies(p) ==
    /\ p.val.pending = NoPending
    /\ p.op \in 1 .. ops /\ p.op \notin ToSet(log) /\ answer[p.op] # "conflict"
    /\ p.val.ledger # << >> /\ Last(p.val.ledger).op = p.op
    /\ p.val.ledger = Receipt(db.ledger, Last(p.val.ledger))
    /\ db.env = "km" /\ p.val.env = "acl" => p.op \in fresh
    /\ p.val.gen # db.gen /\ p.val.env = "km" /\ p.op \notin fresh
          => db.pending = [op |-> p.op, gen |-> p.val.gen]

\* What a live put may be.
Computed(p, ks, g) ==
    /\ Served(p.val, ks) /\ Sound(p.val, g)
    /\ p.op = 0 => Rewrites(p)
    /\ p.op # 0 => Applies(p)
    /\ ops \in ToSet(log) => p.op = 0 /\ p.val.pending = db.pending

PutsOK(ks, g) == \A p \in inflight : p.rev <= db.rev /\ (Live(p) => Computed(p, ks, g))

\* The request for the operation ops: what the client chose for the record at revision rev.
ReqOK(mut, rev) ==
    /\ rev <= db.rev
    /\ mut.kind \in {"prefs", "auth", "import", "clear"}
    /\ IsAuth(mut) <=> mut.protection # "none"
    /\ mut.protection = "fallback" => ops \in fresh
    /\ rev = db.rev /\ mut.protection = "acl" => ops \in fresh \/ db.env # "km"
    /\ \A p \in inflight : Live(p) /\ p.op = ops =>
           db.pending.op = ops \/ (rev = db.rev /\ Accepts(db, mut))

ClientOK ==
    /\ c.pc # "idle" => /\ c.op = ops /\ ops # 0 /\ answer[ops] = "none"
                        /\ ReqOK(c.mut, c.rev)
    /\ \A o \in Ops : o > ops => answer[o] = "none"

\* The helper that waits for a put: nobody else sends one, so once the record has moved from the
\* revision the put was computed from, no put is live.
WaitOK ==
    /\ h.put.rev = h.base.rev /\ h.base.rev <= db.rev
    /\ h.base.rev = db.rev => h.base = db
    /\ \A p \in inflight : p.rev <= h.base.rev
    /\ h.pc # "stage" => InLedger(h.put.val, ops) /\ h.put.val.pending = NoPending
    /\ h.pc = "put" /\ h.key # 0 => h.put.val.ledger # << >> /\ Last(h.put.val.ledger).op \in fresh
    /\ h.pc = "stage" => /\ h.put.val.pending = [op |-> ops, gen |-> h.key]
                         /\ h.base.pending.op # ops
    /\ h.pc = "repair" => h.put.val.env = "acl"

\* A put of an operation is computed from a record that has not taken it.  A repair follows once it
\* has: nothing else is on its way, and a record that moves on has the repair or another operation.
RepairOK ==
    /\ h.pc = "put" => ~InLedger(h.base, ops)
    /\ h.pc = "repair" =>
           /\ ops \in ToSet(log)
           /\ \A p \in inflight : Live(p) => p = h.put
           /\ db.rev # h.base.rev => Same(db, h.put.val) \/ Last(log) # ops

\* The key made for a put is named by nothing else as long as the put is on its way, and by
\* nothing once it is rejected.
KeyOK ==
    h.pc \in {"put", "stage"} /\ h.key # 0 =>
        /\ h.put \in inflight =>
               /\ ~References(db, h.key)
               /\ \A p \in inflight : Live(p) /\ p # h.put => ~References(p.val, h.key)
        /\ h.ack = "rejected" => ~References(db, h.key) /\ db.rev # h.base.rev

HelperOK ==
    /\ h.pc # "idle" => h.op = ops /\ ops # 0 /\ answer[ops] # "conflict"
    /\ h.pc \in {"commit", "reconcile"} => /\ ReqOK(h.mut, h.base.rev)
                                           /\ c.pc # "idle" => c.mut = h.mut /\ c.rev = h.base.rev
    /\ Waiting => WaitOK /\ KeyOK /\ RepairOK

IInv ==
    /\ TypeOK
    /\ Served(db, keys) /\ Sound(db, gens) /\ \A k \in keys : 0 < k /\ k <= gens
    /\ Logged /\ PutsOK(keys, gens) /\ ClientOK /\ HelperOK

-----------------------------------------------------------------------------
(* Sequences. *)

\* The members of a sequence are what stands at its places.
LEMMA Members ==
    ASSUME NEW S, NEW s \in Seq(S)
    PROVE  /\ Len(s) \in Nat /\ DOMAIN s = 1 .. Len(s)
           /\ ToSet(s) = {s[i] : i \in 1 .. Len(s)} /\ ToSet(s) \subseteq S
<1>1. Len(s) \in Nat /\ DOMAIN s = 1 .. Len(s) /\ \A i \in 1 .. Len(s) : s[i] \in S
  BY LenProperties, ElementOfSeq
<1> QED
  BY <1>1 DEF ToSet

\* The empty sequence has no member.
LEMMA EmptyMembers == ToSet(<< >>) = {}
<1>1. << >> \in Seq(Nat) /\ Len(<< >>) = 0 /\ 1 .. 0 = {}
  OBVIOUS
<1> DEFINE e == << >>
<1>2. e \in Seq(Nat) /\ Len(e) = 0
  BY <1>1
<1> HIDE DEF e
<1>3. ToSet(e) = {e[i] : i \in 1 .. 0}
  BY <1>2, Members
<1>4. ToSet(e) = {}
  BY <1>1, <1>3
<1> QED
  BY <1>4 DEF e

\* The members of a sequence that one has joined.
LEMMA AppendMembers ==
    ASSUME NEW S, NEW s \in Seq(S), NEW e \in S
    PROVE  /\ Append(s, e) \in Seq(S) /\ Len(Append(s, e)) = Len(s) + 1
           /\ \A i \in 1 .. Len(s) : Append(s, e)[i] = s[i]
           /\ Append(s, e)[Len(s) + 1] = e
           /\ ToSet(Append(s, e)) = ToSet(s) \cup {e}
<1> DEFINE t == Append(s, e)
<1>1. /\ t \in Seq(S) /\ Len(t) = Len(s) + 1 /\ Len(s) \in Nat
      /\ \A i \in 1 .. Len(s) : t[i] = s[i]
      /\ t[Len(s) + 1] = e
  BY AppendProperties, LenProperties
<1> HIDE DEF t
<1>2. ToSet(t) = {t[i] : i \in 1 .. Len(t)} /\ ToSet(s) = {s[i] : i \in 1 .. Len(s)}
  BY <1>1, Members
<1>3. ASSUME NEW x \in ToSet(t) PROVE x \in ToSet(s) \cup {e}
  <2>1. PICK i \in 1 .. Len(t) : x = t[i]
    BY <1>2
  <2>2. i \in 1 .. Len(s) \/ i = Len(s) + 1
    BY <1>1
  <2> QED
    BY <1>1, <1>2, <2>1, <2>2
<1>4. ASSUME NEW x \in ToSet(s) \cup {e} PROVE x \in ToSet(t)
  <2>1. CASE x = e
    <3>1. Len(s) + 1 \in 1 .. Len(t)
      BY <1>1
    <3> QED
      BY <1>1, <1>2, <2>1, <3>1
  <2>2. CASE x \in ToSet(s)
    <3>1. PICK i \in 1 .. Len(s) : x = s[i]
      BY <1>2, <2>2
    <3>2. i \in 1 .. Len(t) /\ t[i] = x
      BY <1>1, <3>1
    <3> QED
      BY <1>2, <3>2
  <2> QED
    BY <2>1, <2>2
<1>5. ToSet(t) = ToSet(s) \cup {e}
  BY <1>3, <1>4
<1> QED
  BY <1>1, <1>5 DEF t

\* The members of a sequence that its first one has left.
LEMMA TailMembers ==
    ASSUME NEW S, NEW s \in Seq(S), s # << >>
    PROVE  /\ Head(s) = s[1] /\ Head(s) \in S /\ Len(s) >= 1
           /\ Tail(s) \in Seq(S) /\ Len(Tail(s)) = Len(s) - 1
           /\ \A i \in 1 .. Len(s) - 1 : Tail(s)[i] = s[i + 1]
           /\ ToSet(s) = {Head(s)} \cup ToSet(Tail(s))
<1> DEFINE t == Tail(s)
<1>1. /\ t \in Seq(S) /\ Len(t) = Len(s) - 1 /\ Len(s) \in Nat \ {0} /\ Head(s) = s[1] /\ Head(s) \in S
      /\ \A i \in 1 .. Len(s) - 1 : t[i] = s[i + 1]
  BY HeadTailProperties, EmptySeq
<1> HIDE DEF t
<1>2. ToSet(t) = {t[i] : i \in 1 .. Len(t)} /\ ToSet(s) = {s[i] : i \in 1 .. Len(s)}
  BY <1>1, Members
<1>3. ASSUME NEW x \in ToSet(s) PROVE x \in {s[1]} \cup ToSet(t)
  <2>1. PICK i \in 1 .. Len(s) : x = s[i]
    BY <1>2
  <2>2. CASE i = 1
    BY <2>1, <2>2
  <2>3. CASE i # 1
    <3>1. i - 1 \in 1 .. Len(t) /\ i - 1 + 1 = i
      BY <1>1, <2>3
    <3>2. t[i - 1] = x
      BY <1>1, <2>1, <3>1
    <3> QED
      BY <1>2, <3>1, <3>2
  <2> QED
    BY <2>2, <2>3
<1>4. ASSUME NEW x \in {s[1]} \cup ToSet(t) PROVE x \in ToSet(s)
  <2>1. CASE x = s[1]
    <3>1. 1 \in 1 .. Len(s)
      BY <1>1
    <3> QED
      BY <1>2, <2>1, <3>1
  <2>2. CASE x \in ToSet(t)
    <3>1. PICK i \in 1 .. Len(t) : x = t[i]
      BY <1>2, <2>2
    <3>2. i + 1 \in 1 .. Len(s) /\ s[i + 1] = x
      BY <1>1, <3>1
    <3> QED
      BY <1>2, <3>2
  <2> QED
    BY <2>1, <2>2
<1>5. ToSet(s) = {s[1]} \cup ToSet(t)
  BY <1>3, <1>4
<1> QED
  BY <1>1, <1>5 DEF t

\* A finite set of naturals has an increasing enumeration: a member's rank is how many members
\* do not exceed it, and ranks differ.
LEMMA Enumerated ==
    ASSUME NEW K, IsFiniteSet(K), K \subseteq Nat
    PROVE  /\ Cardinality(K) \in Nat
           /\ Increasing(K) \in [1 .. Cardinality(K) -> K]
           /\ \A a, b \in 1 .. Cardinality(K) : a < b => Increasing(K)[a] < Increasing(K)[b]
           /\ \A i \in K : \E k \in 1 .. Cardinality(K) : Increasing(K)[k] = i
<1> DEFINE n == Cardinality(K)
           upto(i) == {j \in K : j <= i}
           rank == [i \in K |-> Cardinality(upto(i))]
<1>1. n \in Nat /\ IsFiniteSet(1 .. n) /\ Cardinality(1 .. n) = n
  <2>1. n \in Nat
    BY FS_CardinalityType
  <2>2. IsFiniteSet(1 .. n) /\ Cardinality(1 .. n) = IF 1 > n THEN 0 ELSE n - 1 + 1
    BY <2>1, FS_Interval
  <2> QED
    BY <2>1, <2>2
<1>2. ASSUME NEW i \in K PROVE IsFiniteSet(upto(i)) /\ Cardinality(upto(i)) \in 1 .. n
  <2>1. upto(i) \subseteq K
    OBVIOUS
  <2>2. IsFiniteSet(upto(i)) /\ Cardinality(upto(i)) <= n
    BY <2>1, FS_Subset
  <2>3. upto(i) # {}
    OBVIOUS
  <2>4. Cardinality(upto(i)) \in Nat /\ Cardinality(upto(i)) # 0
    BY <2>2, <2>3, FS_CardinalityType, FS_EmptySet
  <2> QED
    BY <2>2, <2>4, <1>1
<1>3. rank \in [K -> 1 .. n]
  BY <1>2
<1>4. ASSUME NEW i \in K, NEW j \in K, i < j PROVE rank[i] < rank[j]
  <2>1. upto(i) \subseteq upto(j) /\ j \in upto(j) /\ j \notin upto(i)
    <3>1. i \in Nat /\ j \in Nat /\ \A x \in K : x \in Nat
      OBVIOUS
    <3>2. \A x \in Nat : x <= i => x <= j
      BY <3>1, <1>4
    <3>3. j <= j /\ ~(j <= i)
      BY <3>1, <1>4
    <3> QED
      BY <3>1, <3>2, <3>3
  <2>2. Cardinality(upto(i)) <= Cardinality(upto(j)) /\ Cardinality(upto(i)) # Cardinality(upto(j))
    BY <2>1, <1>2, FS_Subset
  <2>3. Cardinality(upto(i)) \in Nat /\ Cardinality(upto(j)) \in Nat
    BY <1>2, FS_CardinalityType
  <2> QED
    BY <2>2, <2>3
<1> HIDE DEF rank, upto
<1>5. ASSUME NEW i \in K, NEW j \in K, rank[i] = rank[j] PROVE i = j
  <2>1. rank[i] \in Int /\ ~(i < j) /\ ~(j < i)
    BY <1>1, <1>3, <1>4, <1>5
  <2> QED
    BY <2>1
<1>6. rank \in Surjection(K, 1 .. n)
  <2>1. rank \in Injection(K, 1 .. n)
    BY <1>3, <1>5 DEF Injection, IsInjective
  <2> QED
    BY <2>1, <1>1, FS_Injection
<1>7. \A k \in 1 .. n : \E i \in K : rank[i] = k
  BY <1>6 DEF Surjection
<1> DEFINE Up(f) == f \in [1 .. n -> K] /\ \A a, b \in 1 .. n : a < b => f[a] < f[b]
<1>8. \E f : Up(f)
  <2> DEFINE f == [k \in 1 .. n |-> CHOOSE i \in K : rank[i] = k]
  <2>1. \A k \in 1 .. n : f[k] \in K /\ rank[f[k]] = k
    BY <1>7
  <2>2. f \in [1 .. n -> K]
    BY <2>1
  <2> HIDE DEF f
  <2>3. ASSUME NEW a \in 1 .. n, NEW b \in 1 .. n, a < b PROVE f[a] < f[b]
    <3>1. f[a] \in K /\ f[b] \in K /\ rank[f[a]] = a /\ rank[f[b]] = b
      BY <2>1
    <3>5. a \in Int /\ b \in Int
      BY <1>1
    <3>4. a \in Int /\ b \in Int /\ f[a] \in Nat /\ f[b] \in Nat
      BY <3>1, <3>5, Zenon
    <3>2. ~(f[b] < f[a])
      <4> SUFFICES ASSUME f[b] < f[a] PROVE FALSE
        OBVIOUS
      <4>1. rank[f[b]] < rank[f[a]]
        BY <3>1, <1>4
      <4> QED
        BY <4>1, <3>1, <3>4, <2>3
    <3>3. f[a] # f[b]
      BY <3>1, <1>1, <2>3
    <3> QED
      BY <3>2, <3>3, <3>4
  <2> QED
    BY <2>2, <2>3
<1> DEFINE g == Increasing(K)
<1>9. Up(g)
  <2>1. g = CHOOSE f \in [1 .. n -> K] : \A a, b \in 1 .. n : a < b => f[a] < f[b]
    BY DEF Increasing
  <2>2. \E f \in [1 .. n -> K] : \A a, b \in 1 .. n : a < b => f[a] < f[b]
    BY <1>8
  <2> QED
    BY <2>1, <2>2
<1> HIDE DEF g
<1>10. \A i \in K : \E k \in 1 .. n : g[k] = i
  <2>1. ASSUME NEW a \in 1 .. n, NEW b \in 1 .. n, g[a] = g[b] PROVE a = b
    <3>3. a \in Int /\ b \in Int
      BY <1>1
    <3>4. g[a] \in K
      BY <1>9
    <3>1. g[a] \in Nat /\ a \in Int /\ b \in Int
      BY <3>3, <3>4, Zenon
    <3>2. ~(a < b) /\ ~(b < a)
      BY <1>9, <2>1, <3>1
    <3> QED
      BY <3>1, <3>2
  <2>2. g \in Injection(1 .. n, K)
    BY <1>9, <2>1 DEF Injection, IsInjective
  <2>3. g \in Surjection(1 .. n, K)
    BY <2>2, <1>1, FS_Injection
  <2> QED
    BY <2>3 DEF Surjection
<1> QED
  BY <1>1, <1>9, <1>10 DEF g

\* Retaining some of a sequence leaves a sequence that is not longer.
LEMMA Retained ==
    ASSUME NEW S, NEW s \in Seq(S), NEW K, K \subseteq DOMAIN s
    PROVE  RetainAt(s, K) \in Seq(S) /\ Len(RetainAt(s, K)) <= Len(s)
<1> DEFINE t == RetainAt(s, K)
           n == Cardinality(K)
           g == Increasing(K)
<1>1. Len(s) \in Nat /\ DOMAIN s = 1 .. Len(s) /\ \A i \in 1 .. Len(s) : s[i] \in S
  BY LenProperties, ElementOfSeq
<1>2. IsFiniteSet(K) /\ K \subseteq Nat /\ n <= Len(s)
  <2>1. IsFiniteSet(1 .. Len(s)) /\ Cardinality(1 .. Len(s)) = IF 1 > Len(s) THEN 0 ELSE Len(s) - 1 + 1
    BY <1>1, FS_Interval
  <2>2. Cardinality(1 .. Len(s)) = Len(s)
    BY <2>1, <1>1
  <2>3. IsFiniteSet(K) /\ n <= Cardinality(1 .. Len(s))
    BY <2>1, <1>1, FS_Subset
  <2> QED
    BY <2>2, <2>3, <1>1
<1>3. n \in Nat /\ g \in [1 .. n -> K]
  BY <1>2, Enumerated
<1>4. t = [k \in 1 .. n |-> s[g[k]]]
  BY DEF RetainAt
<1> HIDE DEF g, t, n
<1>5. \A k \in 1 .. n : s[g[k]] \in S
  BY <1>1, <1>3
<1>6. t \in [1 .. n -> S]
  BY <1>4, <1>5
<1>7. t \in Seq(S) /\ Len(t) = n
  BY <1>6, <1>3
<1> QED
  BY <1>2, <1>7 DEF t

-----------------------------------------------------------------------------
(* The record. *)

\* The bounds are natural numbers.
LEMMA Consts ==
    /\ OLD_FIRMWARE \in BOOLEAN /\ MaxOps \in Nat /\ MaxFaults \in Nat /\ LEDGER_CAPACITY \in Nat
    /\ LEDGER_CAPACITY > MaxFaults
BY StorageServiceAssumption

\* A receipt is the last entry of the ledger it leaves; the entries before it keep their distance
\* from the end, as far as the capacity goes.
LEMMA ReceiptEntries ==
    ASSUME NEW l \in Seq(Entries), Len(l) <= LEDGER_CAPACITY, NEW e \in Entries
    PROVE  /\ Receipt(l, e) \in Seq(Entries) /\ Len(Receipt(l, e)) <= LEDGER_CAPACITY
           /\ Len(Receipt(l, e)) >= 1 /\ Receipt(l, e) # << >> /\ Last(Receipt(l, e)) = e
           /\ Receipt(l, e)[Len(Receipt(l, e))] = e
           /\ \A j \in 1 .. Len(Receipt(l, e)) :
                 Receipt(l, e)[j] = e \/ \E i \in 1 .. Len(l) : Receipt(l, e)[j] = l[i]
           /\ \A i \in 1 .. Len(l) : Len(l) - i < MaxFaults =>
                 \E j \in 1 .. Len(Receipt(l, e)) :
                     Receipt(l, e)[j] = l[i] /\ Len(Receipt(l, e)) - j = Len(l) - i + 1
           /\ Receipt(l, e) \in {Append(l, e), Tail(Append(l, e))}
<1> DEFINE a == Append(l, e)
           t == Tail(a)
           r == Receipt(l, e)
<1>1. /\ a \in Seq(Entries) /\ Len(a) = Len(l) + 1 /\ Len(l) \in Nat
      /\ \A i \in 1 .. Len(l) : a[i] = l[i]
      /\ a[Len(l) + 1] = e
  BY AppendMembers, LenProperties
<1>2. a # << >>
  BY <1>1
<1>3. /\ t \in Seq(Entries) /\ Len(t) = Len(a) - 1
      /\ \A i \in 1 .. Len(a) - 1 : t[i] = a[i + 1]
  BY <1>1, <1>2, TailMembers
<1>4. r = IF Len(a) > LEDGER_CAPACITY THEN t ELSE a
  BY DEF Receipt
<1> HIDE DEF a, t, r
<1>5. CASE Len(a) > LEDGER_CAPACITY
  <2>1. r = t /\ Len(l) = LEDGER_CAPACITY /\ Len(r) = Len(l) /\ Len(l) >= 1
    BY <1>1, <1>3, <1>4, <1>5, Consts
  <2>2. \A i \in 1 .. Len(l) : i < Len(l) => r[i] = l[i + 1]
    BY <1>1, <1>3, <2>1
  <2>3. r[Len(r)] = e
    BY <1>1, <1>3, <2>1
  <2>4. ASSUME NEW j \in 1 .. Len(r) PROVE r[j] = e \/ \E i \in 1 .. Len(l) : r[j] = l[i]
    <3>1. CASE j = Len(r)
      BY <3>1, <2>3
    <3>2. CASE j # Len(r)
      <4>1. j + 1 \in 1 .. Len(l) /\ r[j] = l[j + 1]
        BY <3>2, <2>1, <2>2, <1>1
      <4> QED
        BY <4>1
    <3> QED
      BY <3>1, <3>2
  <2>5. ASSUME NEW i \in 1 .. Len(l), Len(l) - i < MaxFaults
        PROVE  \E j \in 1 .. Len(r) : r[j] = l[i] /\ Len(r) - j = Len(l) - i + 1
    <3>1. i - 1 \in 1 .. Len(r) /\ i - 1 < Len(l) /\ i - 1 + 1 = i /\ Len(r) - (i - 1) = Len(l) - i + 1
      BY <2>1, <2>5, <1>1, Consts
    <3>2. r[i - 1] = l[i]
      BY <3>1, <2>1, <2>2
    <3> QED
      BY <3>1, <3>2
  <2>6. r # << >> /\ Last(r) = e
    BY <2>1, <2>3, <1>3 DEF Last
  <2> QED
    BY <2>1, <2>3, <2>4, <2>5, <2>6, <1>3 DEF r, t, a
<1>6. CASE ~(Len(a) > LEDGER_CAPACITY)
  <2>1. r = a /\ Len(r) = Len(l) + 1 /\ Len(r) <= LEDGER_CAPACITY
    BY <1>1, <1>4, <1>6, Consts
  <2>4. ASSUME NEW j \in 1 .. Len(r) PROVE r[j] = e \/ \E i \in 1 .. Len(l) : r[j] = l[i]
    <3>1. j \in 1 .. Len(l) \/ j = Len(l) + 1
      BY <2>1, <1>1
    <3> QED
      BY <3>1, <2>1, <1>1
  <2>5. ASSUME NEW i \in 1 .. Len(l)
        PROVE  \E j \in 1 .. Len(r) : r[j] = l[i] /\ Len(r) - j = Len(l) - i + 1
    <3>1. i \in 1 .. Len(r) /\ Len(r) - i = Len(l) - i + 1 /\ r[i] = l[i]
      BY <2>1, <1>1
    <3> QED
      BY <3>1
  <2>6. r # << >> /\ Last(r) = e /\ r[Len(r)] = e
    BY <2>1, <1>1 DEF Last
  <2> QED
    BY <2>1, <2>4, <2>5, <2>6, <1>1 DEF r, t, a
<1> QED
  BY <1>5, <1>6

\* The types of a record's fields.
LEMMA RecordFields ==
    ASSUME NEW r \in Records
    PROVE  /\ r.rev \in Nat /\ r.epoch \in Nat /\ r.gen \in Nat /\ r.env \in {"none", "km", "acl"}
           /\ r.status \in {"active", "cleared"} /\ r.session \in BOOLEAN
           /\ r.pending \in [op : 0 .. MaxOps, gen : Nat] /\ r.ledger \in Seq(Entries)
           /\ r.pending.op \in 0 .. MaxOps /\ r.pending.gen \in Nat
           /\ r.pending = [op |-> r.pending.op, gen |-> r.pending.gen]
           /\ Len(r.ledger) \in Nat
           /\ \A i \in 1 .. Len(r.ledger) : r.ledger[i] \in Entries /\ r.ledger[i].op \in Operations
<1>1. /\ r.rev \in Nat /\ r.epoch \in Nat /\ r.gen \in Nat /\ r.env \in {"none", "km", "acl"}
      /\ r.status \in {"active", "cleared"} /\ r.session \in BOOLEAN
      /\ r.pending \in [op : 0 .. MaxOps, gen : Nat] /\ r.ledger \in Seq(Entries)
  BY DEF Records, Revs, Gens
<1>2. /\ r.pending.op \in 0 .. MaxOps /\ r.pending.gen \in Nat
      /\ r.pending = [op |-> r.pending.op, gen |-> r.pending.gen]
  BY <1>1
<1>3. Len(r.ledger) \in Nat /\ \A i \in 1 .. Len(r.ledger) : r.ledger[i] \in Entries
  BY <1>1, LenProperties, ElementOfSeq
<1> QED
  BY <1>1, <1>2, <1>3 DEF Entries

\* InLedger over the entries' places.
LEMMA LedgerPlaces ==
    ASSUME NEW r \in Records, NEW o
    PROVE  InLedger(r, o) <=> \E i \in 1 .. Len(r.ledger) : r.ledger[i].op = o
<1>1. ToSet(r.ledger) = {r.ledger[i] : i \in 1 .. Len(r.ledger)}
  BY RecordFields, Members, ZenonT(30)
<1> QED
  BY <1>1 DEF InLedger

\* Equal states: everything but the revision.
LEMMA SameFields ==
    ASSUME NEW a \in Records, NEW b \in Records, Same(a, b)
    PROVE  a.gen = b.gen /\ a.env = b.env /\ a.pending = b.pending /\ a.ledger = b.ledger
<1> DEFINE x == [a EXCEPT !.rev = 0]
           y == [b EXCEPT !.rev = 0]
<1>1. x.gen = a.gen /\ x.env = a.env /\ x.pending = a.pending /\ x.ledger = a.ledger
  BY DEF Records
<1>2. y.gen = b.gen /\ y.env = b.env /\ y.pending = b.pending /\ y.ledger = b.ledger
  BY DEF Records
<1>3. x = y
  BY DEF Same
<1> HIDE DEF x, y
<1> QED
  BY <1>1, <1>2, <1>3

\* What a receipt leaves of the record.
LEMMA ReceiptFields ==
    ASSUME NEW r \in Records, Len(r.ledger) <= LEDGER_CAPACITY, NEW o \in Operations,
           NEW auth \in BOOLEAN
    PROVE  LET n == WithReceipt(r, o, auth)
           IN  /\ n \in Records /\ n.rev = r.rev /\ n.gen = r.gen /\ n.env = r.env
               /\ n.status = r.status /\ n.pending = NoPending
               /\ n.ledger = Receipt(r.ledger, [op |-> o, gen |-> r.gen, auth |-> auth])
               /\ n.ledger # << >> /\ Last(n.ledger).op = o
               /\ n.ledger = Receipt(r.ledger, Last(n.ledger))
<1> DEFINE n == WithReceipt(r, o, auth)
           e == [op |-> o, gen |-> r.gen, auth |-> auth]
           l == Receipt(r.ledger, e)
<1>1. e \in Entries
  BY RecordFields DEF Entries, Gens
<1>2. l \in Seq(Entries) /\ l # << >> /\ Last(l) = e
  <2>1. r.ledger \in Seq(Entries)
    BY RecordFields
  <2> HIDE DEF e
  <2> QED
    BY <1>1, <2>1, ReceiptEntries
<1>3. n = [r EXCEPT !.pending = NoPending, !.ledger = l]
  BY DEF WithReceipt, Receipt
<1>4. e.op = o
  OBVIOUS
<1> HIDE DEF n, l, e
<1>5. NoPending \in [op : 0 .. MaxOps, gen : Nat]
  BY Consts DEF NoPending
<1>6. /\ n \in Records /\ n.rev = r.rev /\ n.gen = r.gen /\ n.env = r.env
      /\ n.status = r.status /\ n.pending = NoPending /\ n.ledger = l
  BY <1>2, <1>3, <1>5 DEF Records, Gens
<1>7. n.ledger # << >> /\ Last(n.ledger).op = o /\ n.ledger = Receipt(r.ledger, Last(n.ledger))
  BY <1>2, <1>4, <1>6 DEF l
<1> QED
  BY <1>6, <1>7 DEF n, l, e

\* What an operation makes of the record.
LEMMA AppliedFields ==
    ASSUME NEW r \in Records, Len(r.ledger) <= LEDGER_CAPACITY, NEW o \in Ops,
           NEW m, m.kind \in {"prefs", "auth", "import", "clear"},
           NEW g \in Nat, NEW env \in {"none", "km", "acl"}
    PROVE  LET n == Applied(r, o, m, g, env)
           IN  /\ n \in Records /\ n.rev = r.rev /\ n.pending = NoPending
               /\ n.ledger # << >> /\ Last(n.ledger).op = o
               /\ n.ledger = Receipt(r.ledger, Last(n.ledger))
               /\ m.kind = "prefs" => n.gen = r.gen /\ n.env = r.env
               /\ IsAuth(m) => n.gen = g /\ n.env = env
               /\ m.kind = "clear" => n.gen = g /\ n.env = "none"
<1> DEFINE n == Applied(r, o, m, g, env)
<1>0. o \in Operations
  BY Consts DEF Ops, Operations
<1>1. CASE m.kind = "prefs"
  <2>1. n = WithReceipt(r, o, FALSE) /\ ~IsAuth(m)
    BY <1>1 DEF Applied, IsAuth
  <2>2. /\ n \in Records /\ n.rev = r.rev /\ n.gen = r.gen /\ n.env = r.env /\ n.pending = NoPending
        /\ n.ledger # << >> /\ Last(n.ledger).op = o /\ n.ledger = Receipt(r.ledger, Last(n.ledger))
    <3>1. FALSE \in BOOLEAN
      OBVIOUS
    <3> HIDE DEF n
    <3> QED
      BY <2>1, <3>1, <1>0, ReceiptFields, Zenon
  <2> QED
    BY <2>1, <2>2, <1>1
<1>2. CASE IsAuth(m)
  <2> DEFINE s == [r EXCEPT !.gen = g, !.env = env, !.status = "active", !.session = TRUE]
  <2>1. n = WithReceipt(s, o, TRUE) /\ m.kind # "prefs" /\ m.kind # "clear"
    BY <1>2 DEF Applied, IsAuth
  <2>2. s \in Records /\ s.rev = r.rev /\ s.ledger = r.ledger /\ s.gen = g /\ s.env = env
    BY DEF Records, Gens
  <2> HIDE DEF s
  <2>3. /\ n \in Records /\ n.rev = s.rev /\ n.gen = s.gen /\ n.env = s.env /\ n.pending = NoPending
        /\ n.ledger # << >> /\ Last(n.ledger).op = o /\ n.ledger = Receipt(s.ledger, Last(n.ledger))
    <3>1. Len(s.ledger) <= LEDGER_CAPACITY /\ TRUE \in BOOLEAN
      BY <2>2
    <3> HIDE DEF n
    <3> QED
      BY <2>1, <2>2, <3>1, <1>0, ReceiptFields, Zenon
  <2> QED
    BY <2>1, <2>2, <2>3
<1>3. CASE m.kind = "clear"
  <2> DEFINE s == [r EXCEPT !.epoch = @ + 1, !.gen = g, !.env = "none", !.status = "cleared",
                            !.session = TRUE]
  <2>1. n = WithReceipt(s, o, FALSE) /\ ~IsAuth(m) /\ m.kind # "prefs"
    BY <1>3 DEF Applied, IsAuth
  <2>2. s \in Records /\ s.rev = r.rev /\ s.ledger = r.ledger /\ s.gen = g /\ s.env = "none"
    <3> HIDE DEF n, s
    <3>0. r.epoch \in Nat
      BY RecordFields, Zenon
    <3>1. r.epoch + 1 \in Nat
      BY <3>0
    <3> USE DEF s
    <3> QED
      BY <3>1 DEF Records, Gens
  <2> HIDE DEF s
  <2>3. /\ n \in Records /\ n.rev = s.rev /\ n.gen = s.gen /\ n.env = s.env /\ n.pending = NoPending
        /\ n.ledger # << >> /\ Last(n.ledger).op = o /\ n.ledger = Receipt(s.ledger, Last(n.ledger))
    <3>1. Len(s.ledger) <= LEDGER_CAPACITY /\ FALSE \in BOOLEAN
      BY <2>2
    <3> HIDE DEF n
    <3> QED
      BY <2>1, <2>2, <3>1, <1>0, ReceiptFields, Zenon
  <2> QED
    BY <2>1, <2>2, <2>3
<1> QED
  BY <1>1, <1>2, <1>3 DEF IsAuth

\* The idle helper and client.
LEMMA IdleTypes ==
    /\ NewRecord \in Records /\ NoPut \in Puts /\ HIdle \in Requests /\ CIdle \in Saves
    /\ HIdle.pc = "idle" /\ CIdle.pc = "idle"
<1>1. NoPending \in [op : 0 .. MaxOps, gen : Nat] /\ << >> \in Seq(Entries)
  BY Consts DEF NoPending
<1>2. NewRecord \in Records
  BY <1>1 DEF NewRecord, Records, Revs, Gens
<1>3. NoPut \in Puts
  BY <1>2, Consts DEF NoPut, Puts, Revs
<1>4. NoMutation \in Mutations
  BY DEF NoMutation, Mutations
<1>5. HIdle \in Requests /\ HIdle.pc = "idle"
  BY <1>2, <1>3, <1>4, Consts DEF HIdle, Requests, Gens
<1>6. CIdle \in Saves /\ CIdle.pc = "idle"
  BY <1>4, Consts DEF CIdle, Saves, Revs
<1> QED
  BY <1>2, <1>3, <1>5, <1>6

\* The fields of the state.
LEMMA Types ==
    ASSUME TypeOK
    PROVE  /\ db \in Records /\ ops \in Nat /\ ops <= MaxOps /\ foreign \in Nat /\ faults \in Nat
           /\ foreign <= faults /\ faults <= MaxFaults /\ gens \in Nat
           /\ h.base \in Records /\ h.put \in Puts /\ h.put.rev \in Nat /\ h.put.val \in Records
           /\ h.key \in Nat /\ h.mut \in Mutations /\ h.op \in 0 .. MaxOps
           /\ c.mut \in Mutations /\ c.rev \in Nat /\ c.op \in 0 .. MaxOps
           /\ \A k \in keys : k \in Nat
           /\ \A p \in inflight : p \in Puts /\ p.rev \in Nat /\ p.val \in Records /\ p.op \in 0 .. MaxOps
           /\ ops # 0 => ops \in Ops
<1>1. h.base \in Records /\ h.put \in Puts /\ h.key \in Nat /\ h.mut \in Mutations /\ h.op \in 0 .. MaxOps
  BY DEF TypeOK, Requests, Gens
<1>2. \A p \in Puts : p.rev \in Nat /\ p.val \in Records /\ p.op \in 0 .. MaxOps
  BY DEF Puts, Revs
<1>3. c.mut \in Mutations /\ c.rev \in Nat /\ c.op \in 0 .. MaxOps
  BY DEF TypeOK, Saves, Revs
<1>4. /\ db \in Records /\ ops \in Nat /\ ops <= MaxOps /\ foreign \in Nat /\ faults \in Nat
      /\ foreign <= faults /\ faults <= MaxFaults /\ gens \in Nat /\ \A k \in keys : k \in Nat
      /\ \A p \in inflight : p \in Puts
  BY Consts DEF TypeOK, Gens
<1> QED
  BY <1>1, <1>2, <1>3, <1>4, Consts DEF Ops

-----------------------------------------------------------------------------
(* Steps that leave the record alone. *)

\* Once the record has taken the last operation, or no put is live, a key may go that the record
\* does not need: what is live keeps to the record's credentials.
LEMMA Retire ==
    ASSUME IInv, NEW ks, ks \subseteq keys, Served(db, ks),
           ops \in ToSet(log) \/ \A p \in inflight : ~Live(p)
    PROVE  PutsOK(ks, gens)
<1> SUFFICES ASSUME NEW p \in inflight, Live(p) PROVE Computed(p, ks, gens)
  BY DEF IInv, PutsOK
<1>1. ops \in ToSet(log) /\ Computed(p, keys, gens)
  BY DEF IInv, PutsOK
<1>2. p.op = 0 /\ p.val.pending = db.pending /\ Rewrites(p)
  BY <1>1 DEF Computed
<1>3. Served(p.val, ks)
  BY <1>2 DEF Rewrites, Served
<1> QED
  BY <1>1, <1>3 DEF Computed

\* The keys the record does not name are not needed.
LEMMA Unneeded ==
    ASSUME IInv, NEW ks, \A k \in keys \ ks : ~References(db, k)
    PROVE  Served(db, ks)
BY DEF IInv, Served, References

\* The helper answers and is idle again.
LEMMA AnswerHolds ==
    ASSUME IInv, h.pc # "idle", NEW a \in Answers, Answer(a), UNCHANGED inflight,
           UNCHANGED unchangedHelper, keys' \subseteq keys, Served(db, keys'), PutsOK(keys', gens),
           cleanup' \in Seq(Retired), Len(cleanup') <= LEDGER_CAPACITY,
           a = "conflict" => \A p \in inflight : Live(p) => p.op # ops
    PROVE  IInv'
<1> USE DEF unchangedHelper
<1>0. TypeOK /\ ClientOK /\ HelperOK /\ ops \in Ops /\ c.op \in 0 .. MaxOps
  BY Types DEF IInv, HelperOK
<1>1. /\ h' = HIdle /\ h'.pc = "idle"
      /\ \/ c' = c /\ answer' = answer
         \/ c.op = ops /\ c' = CIdle /\ c'.pc = "idle" /\ answer' = [answer EXCEPT ![ops] = a]
  <2>1. CASE c.pc \in {"commit_sent", "reconcile_sent"}
    BY <2>1, <1>0, IdleTypes DEF Answer, ClientOK
  <2>2. CASE c.pc \notin {"commit_sent", "reconcile_sent"}
    BY <2>2, IdleTypes DEF Answer
  <2> QED
    BY <2>1, <2>2
<1>2. TypeOK'
  <2>1. c' \in Saves /\ h' \in Requests /\ answer' \in [Ops -> Answers]
    BY <1>0, <1>1, IdleTypes DEF TypeOK
  <2>2. keys' \subseteq Gens
    BY <1>0 DEF TypeOK
  <2> QED
    BY <1>0, <2>1, <2>2 DEF TypeOK
<1>3. Served(db, keys)' /\ Sound(db, gens)' /\ (\A k \in keys : 0 < k /\ k <= gens)' /\ Logged'
  BY DEF IInv, Served, Sound, Logged
<1>4. PutsOK(keys, gens)'
  <2> SUFFICES ASSUME NEW p \in inflight, Live(p) PROVE Computed(p, keys, gens)'
    BY DEF IInv, PutsOK, Live
  <2>1. Computed(p, keys', gens)
    BY DEF PutsOK
  <2>2. p.op # 0 => answer'[p.op] # "conflict"
    <3> SUFFICES ASSUME p.op # 0 PROVE answer'[p.op] # "conflict"
      OBVIOUS
    <3>1. answer[p.op] # "conflict"
      BY <2>1 DEF Computed, Applies
    <3>2. p.op \in Ops
      BY <1>0, Types, Consts DEF Ops
    <3>3. p.op = ops => a # "conflict"
      OBVIOUS
    <3> QED
      BY <1>0, <1>1, <3>1, <3>2, <3>3 DEF TypeOK
  <2> QED
    BY <2>1, <2>2 DEF Computed, Served, Sound, Rewrites, Applies
<1>5. ClientOK'
  <2>1. \A o \in Ops : o > ops => answer'[o] = "none"
    BY <1>0, <1>1, Types DEF TypeOK, ClientOK
  <2>2. c'.pc # "idle" => c' = c /\ answer' = answer
    BY <1>1
  <2> QED
    BY <1>0, <2>1, <2>2 DEF ClientOK, ReqOK, Live
<1>6. HelperOK'
  BY <1>1 DEF HelperOK, Waiting
<1> QED
  BY <1>2, <1>3, <1>4, <1>5, <1>6 DEF IInv

\* The helper sends a put computed from the record as it is.
LEMMA PutHolds ==
    ASSUME IInv, h.pc # "idle", NEW pc \in {"put", "stage", "promote", "repair"},
           NEW val \in Records, NEW applies \in 0 .. MaxOps, NEW key \in Nat,
           Put(pc, ops, h.mut, db, val, applies, key),
           UNCHANGED <<db, c, ops, fresh, answer, foreign, faults, log>>,
           gens' \in Nat, gens <= gens', \A k \in keys' : k \in Nat /\ 0 < k /\ k <= gens',
           cleanup' \in Seq(Retired), Len(cleanup') <= LEDGER_CAPACITY,
           Served(db, keys'), PutsOK(keys', gens),
           Computed([rev |-> db.rev, val |-> val, op |-> applies], keys', gens'),
           applies = ops => db.pending.op = ops
                              \/ (c.pc # "idle" => c.rev = db.rev /\ Accepts(db, c.mut)),
           pc # "stage" => InLedger(val, ops) /\ val.pending = NoPending,
           pc = "put" /\ key # 0 => val.ledger # << >> /\ Last(val.ledger).op \in fresh,
           pc = "stage" => val.pending = [op |-> ops, gen |-> key] /\ db.pending.op # ops,
           pc = "put" => ~InLedger(db, ops),
           pc = "repair" => /\ val.env = "acl" /\ ops \in ToSet(log)
                            /\ \A p \in inflight : ~Live(p),
           pc \in {"put", "stage"} /\ key # 0 => key > gens
    PROVE  IInv'
<1> DEFINE put == [rev |-> db.rev, val |-> val, op |-> applies]
<1>0. TypeOK /\ ClientOK /\ HelperOK /\ ops \in Ops /\ gens \in Nat /\ db.rev \in Nat
  BY Types, RecordFields DEF IInv, HelperOK
<1>1. /\ inflight' = inflight \cup {put}
      /\ h' = [pc |-> pc, op |-> ops, mut |-> h.mut, base |-> db, key |-> key, put |-> put,
               ack |-> "none"]
  BY DEF Put
<1>p. put.rev = db.rev /\ put.val = val /\ put.op = applies /\ put \in Puts
  BY <1>0 DEF Puts, Revs
<1>c. Computed(put, keys', gens')
  OBVIOUS
<1> HIDE DEF put
<1>h. /\ h'.pc = pc /\ h'.op = ops /\ h'.base = db /\ h'.key = key /\ h'.put = put /\ h'.ack = "none"
  BY <1>1
<1>2. TypeOK'
  <2>1. h' \in Requests
    <3>1. ops \in 0 .. MaxOps /\ h.mut \in Mutations /\ db \in Records
      BY <1>0, Types DEF TypeOK
    <3> QED
      BY <3>1, <1>1, <1>p DEF Requests, Gens
  <2>2. \A p \in inflight' : p \in Puts
    BY <1>0, <1>1, <1>p DEF TypeOK
  <2>3. keys' \subseteq Gens /\ gens' \in Gens
    BY DEF Gens
  <2> QED
    BY <1>0, <2>1, <2>2, <2>3 DEF TypeOK
<1>3. Served(db, keys)' /\ Sound(db, gens)' /\ (\A k \in keys : 0 < k /\ k <= gens)' /\ Logged'
  <2>1. Sound(db, gens)'
    <3>1. db.gen \in Nat /\ db.pending.gen \in Nat
      BY <1>0, Types, RecordFields
    <3> QED
      BY <1>0, <3>1 DEF IInv, Sound
  <2> QED
    BY <2>1 DEF IInv, Served, Logged
<1>4. PutsOK(keys, gens)'
  <2>1. ASSUME NEW p \in inflight' PROVE p.rev <= db.rev
    BY <1>0, <1>1, <1>p DEF IInv, PutsOK
  <2>2. ASSUME NEW p \in inflight', Live(p) PROVE Computed(p, keys', gens')
    <3>1. CASE p = put
      BY <3>1, <1>c
    <3>2. CASE p \in inflight
      <4>1. Computed(p, keys', gens)
        BY <3>2, <2>2 DEF PutsOK
      <4>2. p.val.gen \in Nat /\ p.val.pending.gen \in Nat
        BY <3>2, <1>0, Types, RecordFields
      <4>3. Sound(p.val, gens')
        BY <4>1, <4>2, <1>0 DEF Computed, Sound
      <4> QED
        BY <4>1, <4>3 DEF Computed
    <3> QED
      BY <3>1, <3>2, <1>1
  <2>3. ASSUME NEW p \in inflight', Computed(p, keys', gens') PROVE Computed(p, keys, gens)'
    BY <2>3 DEF Computed, Served, Sound, Rewrites, Applies
  <2> QED
    BY <2>1, <2>2, <2>3 DEF PutsOK, Live
<1>5. ClientOK'
  <2>1. ASSUME c.pc # "idle" PROVE ReqOK(c.mut, c.rev)'
    <3>1. ReqOK(c.mut, c.rev)
      BY <1>0, <2>1 DEF ClientOK
    <3>2. ASSUME NEW p \in inflight', Live(p), p.op = ops
          PROVE  db.pending.op = ops \/ (c.rev = db.rev /\ Accepts(db, c.mut))
      BY <1>1, <1>p, <2>1, <3>1, <3>2 DEF ReqOK
    <3>3. Accepts(db, c.mut)' <=> Accepts(db, c.mut)
      BY DEF Accepts
    <3> QED
      BY <3>1, <3>2, <3>3 DEF ReqOK, Live, IsAuth
  <2> QED
    BY <1>0, <2>1 DEF ClientOK
<1>6. HelperOK'
  <2>1. Waiting' /\ h'.pc \notin {"idle", "commit", "reconcile"}
    BY <1>h DEF Waiting
  <2>2. WaitOK'
    <3>1. \A p \in inflight' : p.rev <= db.rev
      BY <1>0, <1>1, <1>p DEF IInv, PutsOK
    <3>2. InLedger(h.put.val, ops)' <=> InLedger(val, ops)
      BY <1>h, <1>p DEF InLedger
    <3> QED
      BY <1>0, <1>h, <1>p, <3>1, <3>2 DEF WaitOK
  <2>3. KeyOK'
    <3> SUFFICES ASSUME pc \in {"put", "stage"}, key # 0
                 PROVE  /\ ~References(db, key)
                        /\ \A p \in inflight' : Live(p) /\ p # put => ~References(p.val, key)
      BY <1>h DEF KeyOK, References, Live
    <3>1. key > gens
      OBVIOUS
    <3>2. ASSUME NEW r \in Records, Sound(r, gens) PROVE ~References(r, key)
      BY <3>1, <3>2, <1>0, RecordFields DEF Sound, References
    <3>3. ASSUME NEW p \in inflight, Live(p) PROVE p.val \in Records /\ Sound(p.val, gens)
      BY <3>3, <1>0, Types DEF PutsOK, Computed
    <3> QED
      BY <3>2, <3>3, <1>0, <1>1, Types DEF IInv
  <2>4. RepairOK'
    BY <1>1, <1>h DEF RepairOK, InLedger, Live
  <2>5. answer[ops] # "conflict"
    BY <1>0 DEF HelperOK
  <2> QED
    BY <2>1, <2>2, <2>3, <2>4, <2>5, <1>0, <1>h DEF HelperOK
<1> QED
  BY <1>2, <1>3, <1>4, <1>5, <1>6 DEF IInv

-----------------------------------------------------------------------------
(* Keys and the cleanup list. *)

\* The record has taken the last operation exactly when its ledger says so: the writes of others
\* are too few to push the receipt out.
LEMMA LedgerKnows ==
    ASSUME IInv
    PROVE  InLedger(db, ops) <=> ops \in ToSet(log)
BY LedgerPlaces, Types DEF IInv, Logged

\* While a helper waits and the record has moved on, no put is live.
LEMMA MovedOn ==
    ASSUME IInv, Waiting, db.rev # h.base.rev
    PROVE  \A p \in inflight : ~Live(p)
<1>1. db.rev \in Nat /\ h.base.rev \in Nat /\ \A p \in inflight : p.rev \in Nat
  BY Types, RecordFields DEF IInv
<1> QED
  BY <1>1 DEF IInv, HelperOK, WaitOK, Live

\* Only a put that was rejected gives up its key, which nothing names.
LEMMA ReplyRetires ==
    ASSUME IInv, h.pc \in {"put", "stage"}
    PROVE  /\ KeysAfterReply \subseteq keys /\ Served(db, KeysAfterReply) /\ PutsOK(KeysAfterReply, gens)
           /\ KeysAfterReply = keys \/ \A p \in inflight : ~Live(p)
<1>0. Waiting /\ KeyOK
  BY DEF IInv, HelperOK, Waiting
<1>1. CASE h.ack = "rejected" /\ h.key # 0
  <2>1. ~References(db, h.key) /\ db.rev # h.base.rev
    BY <1>0, <1>1 DEF KeyOK
  <2>2. KeysAfterReply = keys \ {h.key}
    BY <1>1 DEF KeysAfterReply
  <2>3. Served(db, KeysAfterReply)
    BY <2>1, <2>2, Unneeded
  <2>4. \A p \in inflight : ~Live(p)
    BY <2>1, <1>0, MovedOn
  <2> QED
    BY <2>2, <2>3, <2>4, Retire
<1>2. CASE ~(h.ack = "rejected" /\ h.key # 0)
  <2>1. 0 \notin keys
    BY DEF IInv
  <2>2. KeysAfterReply = keys
    BY <1>2, <2>1 DEF KeysAfterReply
  <2> QED
    BY <2>2 DEF IInv
<1> QED
  BY <1>1, <1>2

\* cleanup_confirmed keeps the list within its length and takes no key that the record names.
LEMMA ConfirmedKeeps ==
    ASSUME NEW o, NEW cl \in Seq(Retired), Len(cl) <= LEDGER_CAPACITY, NEW ks,
           CleanupConfirmed(o, db, cl, ks)
    PROVE  /\ cleanup' \in Seq(Retired) /\ Len(cleanup') <= LEDGER_CAPACITY
           /\ keys' \subseteq ks /\ \A k \in ks \ keys' : ~References(db, k)
<1>1. cleanup' = RetainAt(cl, {i \in DOMAIN cl : ~Confirmed(o, db, cl[i])})
  BY DEF CleanupConfirmed
<1>2. cleanup' \in Seq(Retired) /\ Len(cleanup') <= Len(cl)
  BY <1>1, Retained
<1>3. Len(cleanup') <= LEDGER_CAPACITY
  BY <1>2, Consts, LenProperties
<1>4. keys' = ks \ {e.gen : e \in {x \in ToSet(cl) : Confirmed(o, db, x)}}
  BY DEF CleanupConfirmed
<1>5. keys' \subseteq ks /\ \A k \in ks \ keys' : ~References(db, k)
  BY <1>4 DEF Confirmed
<1> QED
  BY <1>2, <1>3, <1>5

\* What a reply leaves in the list of keys to remove stays within its length.
LEMMA ReplyKeeps ==
    ASSUME TypeOK
    PROVE  CleanupAfterReply \in Seq(Retired) /\ Len(CleanupAfterReply) <= LEDGER_CAPACITY
<1>1. cleanup \in Seq(Retired) /\ Len(cleanup) <= LEDGER_CAPACITY
  BY DEF TypeOK
<1> DEFINE r == RetainAt(cleanup, {i \in DOMAIN cleanup : cleanup[i].op # h.op})
<1>2. r \in Seq(Retired) /\ Len(r) <= Len(cleanup)
  BY <1>1, Retained
<1>3. CleanupAfterReply = IF h.ack = "rejected" THEN r ELSE cleanup
  BY DEF CleanupAfterReply
<1> HIDE DEF r
<1> QED
  BY <1>1, <1>2, <1>3, Consts, LenProperties

\* remember forgets the oldest key rather than grow past the length of the list.
LEMMA RememberKeeps ==
    ASSUME NEW old \in Records, NEW next, NEW o \in Ops, NEW cl \in Seq(Retired),
           Len(cl) <= LEDGER_CAPACITY
    PROVE  /\ Remember(old, next, o, cl) \in Seq(Retired)
           /\ Len(Remember(old, next, o, cl)) <= LEDGER_CAPACITY
<1> DEFINE e == [op |-> o, gen |-> old.gen]
           s == IF Len(cl) >= LEDGER_CAPACITY THEN Tail(cl) ELSE cl
<1>1. e \in Retired
  BY RecordFields DEF Retired, Gens
<1>2. Len(cl) \in Nat /\ LEDGER_CAPACITY \in Nat /\ LEDGER_CAPACITY >= 1
  BY Consts, LenProperties
<1>3. s \in Seq(Retired) /\ Len(s) < LEDGER_CAPACITY /\ Len(s) \in Nat
  <2>1. CASE Len(cl) >= LEDGER_CAPACITY
    <3>1. cl # << >>
      BY <2>1, <1>2
    <3> QED
      BY <2>1, <3>1, <1>2, TailMembers, LenProperties
  <2>2. CASE ~(Len(cl) >= LEDGER_CAPACITY)
    BY <2>2, <1>2
  <2> QED
    BY <2>1, <2>2
<1> HIDE DEF e, s
<1>4. Append(s, e) \in Seq(Retired) /\ Len(Append(s, e)) <= LEDGER_CAPACITY
  BY <1>1, <1>2, <1>3, AppendMembers
<1>5. Remember(old, next, o, cl) \in {cl, Append(s, e)}
  BY DEF Remember, e, s
<1> QED
  BY <1>4, <1>5

-----------------------------------------------------------------------------
(* The helper's steps. *)

\* What the client or the helper has answered from a record that took the operation.
LEMMA DurableHolds ==
    ASSUME IInv, h.pc # "idle", ops \in ToSet(log), Answer("durable"), UNCHANGED inflight,
           UNCHANGED unchangedHelper, keys' \subseteq keys, Served(db, keys'),
           cleanup' \in Seq(Retired), Len(cleanup') <= LEDGER_CAPACITY
    PROVE  IInv'
<1>1. PutsOK(keys', gens)
  BY Retire
<1>2. "durable" \in Answers /\ "durable" # "conflict"
  BY DEF Answers
<1> QED
  BY <1>1, <1>2, AnswerHolds

\* finish_pending sends the promotion of the staged refresh, or answers that it is preserved.
LEMMA FinishHolds ==
    ASSUME IInv, h.pc # "idle", db.pending.op = ops, keys' \subseteq keys,
           Served(db, keys'), PutsOK(keys', gens), FinishPending(db, keys'),
           UNCHANGED cleanup, UNCHANGED unchangedHelper
    PROVE  IInv'
<1> USE DEF unchangedHelper
<1>0. /\ TypeOK /\ HelperOK /\ ops \in Ops /\ ops # 0 /\ db \in Records /\ Len(db.ledger) <= LEDGER_CAPACITY
      /\ cleanup' \in Seq(Retired) /\ Len(cleanup') <= LEDGER_CAPACITY
  BY Types DEF IInv, HelperOK, TypeOK
<1>1. PICK ok \in IF db.pending.gen \in keys' THEN BOOLEAN ELSE {FALSE} :
          IF ok
          THEN /\ Put("promote", db.pending.op, h.mut, db, Candidate(db), db.pending.op, 0)
               /\ UNCHANGED <<c, answer>>
          ELSE /\ Answer("preserved")
               /\ UNCHANGED inflight
  BY DEF FinishPending
<1>2. CASE ~ok
  <2>1. Answer("preserved") /\ UNCHANGED inflight
    BY <1>1, <1>2
  <2>2. "preserved" \in Answers /\ "preserved" # "conflict"
    BY DEF Answers
  <2> QED
    BY <2>1, <2>2, <1>0, AnswerHolds
<1>3. CASE ok
  <2> DEFINE r == [db EXCEPT !.pending = NoPending]
             m == [kind |-> "auth", protection |-> "required"]
             val == Candidate(db)
  <2>1. /\ Put("promote", ops, h.mut, db, val, ops, 0) /\ UNCHANGED <<c, answer>>
        /\ db.pending.gen \in keys'
    BY <1>1, <1>3
  <2>2. r \in Records /\ r.rev = db.rev /\ r.ledger = db.ledger
    <3>1. NoPending \in [op : 0 .. MaxOps, gen : Gens]
      BY Consts DEF NoPending, Gens
    <3> QED
      BY <1>0, <3>1 DEF Records
  <2>3. val = Applied(r, ops, m, db.pending.gen, "km")
    BY DEF Candidate
  <2>4. m.kind = "auth" /\ IsAuth(m)
    BY DEF IsAuth
  <2>5. db.pending.gen \in Nat /\ db.pending = [op |-> ops, gen |-> db.pending.gen]
    BY <1>0, RecordFields
  <2> HIDE DEF r, m, val
  <2>6. /\ val \in Records /\ val.pending = NoPending /\ val.gen = db.pending.gen /\ val.env = "km"
        /\ val.ledger # << >> /\ Last(val.ledger).op = ops
        /\ val.ledger = Receipt(db.ledger, Last(val.ledger))
    BY <2>2, <2>3, <2>4, <2>5, <1>0, AppliedFields
  <2>7. db.pending # NoPending
    BY <1>0 DEF NoPending
  <2>8. ops \in 1 .. ops /\ ops \notin ToSet(log) /\ db.pending.gen <= gens /\ 0 <= gens
    BY <2>7, <1>0, Types DEF IInv, Sound
  <2>9. Computed([rev |-> db.rev, val |-> val, op |-> ops], keys', gens')
    <3> DEFINE p == [rev |-> db.rev, val |-> val, op |-> ops]
    <3>1. p.val = val /\ p.op = ops
      OBVIOUS
    <3> HIDE DEF p
    <3>2. Served(p.val, keys') /\ Sound(p.val, gens')
      BY <2>1, <2>6, <2>8, <3>1 DEF Served, Sound, NoPending
    <3>3. Applies(p)
      <4>1. answer[ops] # "conflict"
        BY <1>0 DEF HelperOK
      <4> QED
        BY <4>1, <2>5, <2>6, <2>8, <3>1 DEF Applies
    <3>4. Computed(p, keys', gens')
      BY <3>1, <3>2, <3>3, <2>8, <1>0 DEF Computed
    <3> QED
      BY <3>4 DEF p
  <2>10. InLedger(val, ops)
    <3>1. Len(val.ledger) \in Nat /\ Len(val.ledger) # 0
      BY <2>6, RecordFields, EmptySeq
    <3>2. Len(val.ledger) \in 1 .. Len(val.ledger) /\ val.ledger[Len(val.ledger)].op = ops
      BY <2>6, <3>1 DEF Last
    <3> QED
      BY <2>6, <3>2, LedgerPlaces
  <2>11. gens \in Nat /\ gens' = gens /\ ops \in 0 .. MaxOps
    BY <1>0, Types DEF TypeOK
  <2>12. \A k \in keys' : k \in Nat /\ 0 < k /\ k <= gens'
    BY <1>0, Types DEF IInv
  <2> QED
    BY <2>1, <2>6, <2>9, <2>10, <2>11, <2>12, <1>0, PutHolds
<1> QED
  BY <1>2, <1>3

\* An answer that removes nothing.
LEMMA PlainHolds ==
    ASSUME IInv, h.pc # "idle", NEW a \in Answers, Answer(a), UNCHANGED <<inflight, keys, cleanup>>,
           UNCHANGED unchangedHelper,
           a = "conflict" => \A p \in inflight : Live(p) => p.op # ops
    PROVE  IInv'
<1>1. /\ Served(db, keys') /\ PutsOK(keys', gens) /\ keys' \subseteq keys
      /\ cleanup' \in Seq(Retired) /\ Len(cleanup') <= LEDGER_CAPACITY
  BY DEF IInv, TypeOK
<1>2. UNCHANGED inflight
  OBVIOUS
<1> QED
  BY <1>1, <1>2, AnswerHolds

\* The helper cannot read the record.
LEMMA LoadFailsHolds == IInv /\ LoadFails => IInv'
<1>1. "failed" \in Answers /\ "failed" # "conflict"
  BY DEF Answers
<1> QED
  BY <1>1, PlainHolds DEF LoadFails

\* reconcile finds the operation staged.
LEMMA FindsPendingHolds == IInv /\ FindsPending => IInv'
<1> SUFFICES ASSUME IInv, FindsPending PROVE IInv'
  OBVIOUS
<1>1. h.pc # "idle" /\ UNCHANGED keys /\ UNCHANGED cleanup /\ UNCHANGED unchangedHelper
  BY DEF FindsPending
<1>2. db.pending.op = ops /\ FinishPending(db, keys')
  BY <1>1 DEF FindsPending, IInv, HelperOK
<1>3. Served(db, keys') /\ PutsOK(keys', gens) /\ keys' \subseteq keys
  BY <1>1 DEF IInv
<1> QED
  BY <1>1, <1>2, <1>3, FinishHolds

\* reconcile finds the operation in the ledger.
LEMMA FindsAppliedHolds == IInv /\ FindsApplied => IInv'
<1> SUFFICES ASSUME IInv, FindsApplied PROVE IInv'
  OBVIOUS
<1>1. h.pc # "idle" /\ UNCHANGED inflight /\ UNCHANGED unchangedHelper /\ h.op = ops /\ InLedger(db, ops)
  BY DEF FindsApplied, IInv, HelperOK
<1>2. \/ Answer("uncertain") /\ UNCHANGED <<keys, cleanup>>
      \/ Answer("durable") /\ CleanupConfirmed(ops, db, cleanup, keys)
  BY <1>1 DEF FindsApplied
<1>3. CASE Answer("uncertain") /\ UNCHANGED <<keys, cleanup>>
  <2>1. "uncertain" \in Answers /\ "uncertain" # "conflict"
    BY DEF Answers
  <2> QED
    BY <1>1, <1>3, <2>1, PlainHolds
<1>4. CASE Answer("durable") /\ CleanupConfirmed(ops, db, cleanup, keys)
  <2>1. /\ cleanup' \in Seq(Retired) /\ Len(cleanup') <= LEDGER_CAPACITY
        /\ keys' \subseteq keys /\ \A k \in keys \ keys' : ~References(db, k)
    BY <1>4, ConfirmedKeeps DEF IInv, TypeOK
  <2>2. Served(db, keys')
    BY <2>1, Unneeded
  <2> QED
    BY <1>1, <1>4, <2>1, <2>2, LedgerKnows, DurableHolds
<1> QED
  BY <1>2, <1>3, <1>4

\* reconcile finds no trace of the operation.
LEMMA ReconcileUnknownHolds == IInv /\ ReconcileUnknown => IInv'
<1>1. "uncertain" \in Answers /\ "uncertain" # "conflict"
  BY DEF Answers
<1> QED
  BY <1>1, PlainHolds DEF ReconcileUnknown

\* A conflict is answered only when no put of the operation can be taken any more.
LEMMA CommitConflictsHolds == IInv /\ CommitConflicts => IInv'
<1> SUFFICES ASSUME IInv, CommitConflicts PROVE IInv'
  OBVIOUS
<1>1. /\ h.pc = "commit" /\ h.op = ops /\ db.pending.op # ops /\ ReqOK(h.mut, h.base.rev)
      /\ Answer("conflict") /\ UNCHANGED <<inflight, keys, cleanup>> /\ UNCHANGED unchangedHelper
      /\ h.base.rev # db.rev \/ ~Accepts(db, h.mut)
  BY DEF CommitConflicts, FreshCommit, IInv, HelperOK
<1>2. \A p \in inflight : Live(p) => p.op # ops
  BY <1>1 DEF ReqOK
<1>3. "conflict" \in Answers
  BY DEF Answers
<1> QED
  BY <1>1, <1>2, <1>3, PlainHolds

\* commit refuses a second import, and reports a required seal that fails.
LEMMA CommitRefusedHolds == IInv /\ CommitRefused => IInv'
<1> SUFFICES ASSUME IInv, CommitRefused PROVE IInv'
  OBVIOUS
<1>1. /\ h.pc # "idle" /\ UNCHANGED <<inflight, keys, cleanup>> /\ UNCHANGED unchangedHelper
      /\ Answer("failed") \/ Answer("preserved")
  BY DEF CommitRefused, FreshCommit
<1>2. "failed" \in Answers /\ "failed" # "conflict" /\ "preserved" \in Answers /\ "preserved" # "conflict"
  BY DEF Answers
<1> QED
  BY <1>1, <1>2, PlainHolds

\* A new key takes nothing away.
LEMMA MoreKeys ==
    ASSUME IInv, NEW ks, keys \subseteq ks
    PROVE  Served(db, ks) /\ PutsOK(ks, gens)
<1>1. ASSUME NEW r, Served(r, keys) PROVE Served(r, ks)
  BY <1>1 DEF Served
<1>2. PutsOK(ks, gens)
  BY <1>1 DEF IInv, PutsOK, Computed
<1> QED
  BY <1>1, <1>2 DEF IInv

\* commit computes the next record and sends its put.
LEMMA CommitPutsHolds == IInv /\ CommitPuts => IInv'
<1> SUFFICES ASSUME IInv, CommitPuts PROVE IInv'
  OBVIOUS
<1>0. /\ TypeOK /\ HelperOK /\ ops \in Ops /\ ops # 0 /\ ops \in Nat /\ gens \in Nat /\ db \in Records
      /\ Len(db.ledger) <= LEDGER_CAPACITY /\ db.gen \in Nat /\ db.pending.gen \in Nat
      /\ h.pc = "commit" /\ h.op = ops /\ answer[ops] # "conflict" /\ ReqOK(h.mut, h.base.rev)
      /\ ops \in 0 .. MaxOps /\ 0 \in 0 .. MaxOps /\ ops \in 1 .. ops
  <2>1. TypeOK /\ HelperOK /\ h.pc = "commit" /\ db \in Records /\ gens \in Nat /\ ops \in Nat
    BY Types DEF IInv, CommitPuts, FreshCommit
  <2>2. h.op = ops /\ ops # 0 /\ ops \in Ops /\ answer[ops] # "conflict" /\ ReqOK(h.mut, h.base.rev)
    BY <2>1, Types DEF HelperOK
  <2>3. db.gen \in Nat /\ db.pending.gen \in Nat /\ Len(db.ledger) <= LEDGER_CAPACITY
    BY <2>1, RecordFields DEF TypeOK
  <2>4. ops \in 0 .. MaxOps /\ 0 \in 0 .. MaxOps /\ ops \in 1 .. ops
    BY <2>1, <2>2, Consts DEF TypeOK
  <2> QED
    BY <2>1, <2>2, <2>3, <2>4
<1>1. /\ h.base.rev = db.rev /\ Accepts(db, h.mut) /\ db.pending.op # ops /\ ~InLedger(db, ops)
      /\ gens' = IF h.mut.kind = "prefs" THEN gens ELSE gens + 1
      /\ UNCHANGED <<db, c, ops, fresh, answer, foreign, faults, log>>
  BY <1>0 DEF CommitPuts, FreshCommit
<1>2. PICK env \in CASE h.mut.protection = "required" -> {"km"}
                     [] h.mut.protection = "fallback" -> {"km", "acl"}
                     [] h.mut.protection = "acl" -> {"acl"}
                     [] h.mut.protection = "none" -> {"none"} :
           LET key == IF env = "km" THEN gens + 1 ELSE 0
               next == Applied(db, h.op, h.mut, gens + 1, env)
           IN  /\ keys' = IF env = "km" THEN keys \cup {key} ELSE keys
               /\ IF Strict(h.mut)
                  THEN /\ Put("stage", h.op, h.mut, db,
                              [db EXCEPT !.pending = [op |-> h.op, gen |-> key]],
                              0, key)
                       /\ UNCHANGED cleanup
                  ELSE /\ Put("put", h.op, h.mut, db, next, h.op, key)
                       /\ cleanup' = Remember(db, next, h.op, cleanup)
  BY DEF CommitPuts
<1> DEFINE key == IF env = "km" THEN gens + 1 ELSE 0
           next == Applied(db, ops, h.mut, gens + 1, env)
           staged == [db EXCEPT !.pending = [op |-> ops, gen |-> key]]
<1>3. h.mut.protection \in {"required", "fallback", "acl", "none"}
  BY <1>0, Types DEF Mutations
<1>4. /\ env \in {"none", "km", "acl"}
      /\ env = "km" => h.mut.protection \in {"required", "fallback"}
      /\ env = "acl" => h.mut.protection \in {"fallback", "acl"}
      /\ h.mut.protection = "required" => env = "km"
  BY <1>2, <1>3
<1>5. /\ keys' = IF env = "km" THEN keys \cup {key} ELSE keys
      /\ Strict(h.mut) => Put("stage", ops, h.mut, db, staged, 0, key) /\ UNCHANGED cleanup
      /\ ~Strict(h.mut) => /\ Put("put", ops, h.mut, db, next, ops, key)
                           /\ cleanup' = Remember(db, next, ops, cleanup)
  BY <1>0, <1>2
<1>6. /\ key \in Nat /\ (key # 0 <=> env = "km") /\ (key # 0 => key = gens + 1)
  BY <1>0
<1> HIDE DEF key, next, staged
<1>7. /\ h.mut.kind \in {"prefs", "auth", "import", "clear"} /\ (IsAuth(h.mut) <=> h.mut.protection # "none")
      /\ (h.mut.protection = "fallback" => ops \in fresh)
      /\ (h.mut.protection = "acl" => ops \in fresh \/ db.env # "km")
  BY <1>0, <1>1 DEF ReqOK
<1>8. /\ gens' \in Nat /\ gens <= gens' /\ (env = "km" => gens' = gens + 1)
      /\ (h.mut.kind # "prefs" => gens' = gens + 1)
  BY <1>0, <1>1, <1>4, <1>7 DEF IsAuth
<1>9. /\ keys \subseteq keys' /\ (env = "km" => key \in keys')
      /\ \A k \in keys' : k \in Nat /\ 0 < k /\ k <= gens'
  <2>1. \A k \in keys : k \in Nat /\ 0 < k /\ k <= gens
    BY <1>0, Types DEF IInv
  <2>2. \A k \in keys : k <= gens'
    BY <2>1, <1>0, <1>8
  <2>3. env = "km" => key \in Nat /\ 0 < key /\ key <= gens'
    BY <1>0, <1>6, <1>8
  <2> QED
    BY <1>5, <2>1, <2>2, <2>3
<1>10. Served(db, keys') /\ PutsOK(keys', gens)
  BY <1>9, MoreKeys
<1>11. ops \notin ToSet(log)
  BY <1>1, LedgerKnows
<1>12. Sound(db, gens) /\ Served(db, keys)
  BY DEF IInv
<1>13. CASE Strict(h.mut)
  <2>1. env = "km" /\ key = gens + 1 /\ key # 0
    BY <1>13, <1>4, <1>6 DEF Strict
  <2>2. Put("stage", ops, h.mut, db, staged, 0, key) /\ UNCHANGED cleanup
    BY <1>13, <1>5
  <2>3. /\ staged \in Records /\ staged.pending = [op |-> ops, gen |-> key] /\ staged.gen = db.gen
        /\ staged.env = db.env /\ staged.ledger = db.ledger
    <3>1. [op |-> ops, gen |-> key] \in [op : 0 .. MaxOps, gen : Gens]
      BY <1>0, <1>6 DEF Gens
    <3> QED
      BY <3>1, <1>0 DEF staged, Records
  <2>4. Computed([rev |-> db.rev, val |-> staged, op |-> 0], keys', gens')
    <3> DEFINE p == [rev |-> db.rev, val |-> staged, op |-> 0]
    <3>1. p.val = staged /\ p.op = 0
      OBVIOUS
    <3> HIDE DEF p
    <3>2. Served(p.val, keys')
      BY <2>1, <2>3, <3>1, <1>9, <1>12 DEF Served
    <3>3. Sound(p.val, gens')
      BY <2>1, <2>3, <3>1, <1>0, <1>8, <1>11, <1>12 DEF Sound
    <3>4. Computed(p, keys', gens')
      BY <2>3, <3>1, <3>2, <3>3, <1>11 DEF Computed, Rewrites
    <3> QED
      BY <3>4 DEF p
  <2>5. cleanup' \in Seq(Retired) /\ Len(cleanup') <= LEDGER_CAPACITY
    BY <2>2, <1>0 DEF TypeOK
  <2>6. key > gens
    BY <2>1, <1>0
  <2> QED
    BY <2>2, <2>3, <2>4, <2>5, <2>6, <1>0, <1>1, <1>6, <1>8, <1>9, <1>10, PutHolds
<1>14. CASE ~Strict(h.mut)
  <2>1. key # 0 => ops \in fresh /\ key > gens
    BY <1>14, <1>0, <1>4, <1>6, <1>7 DEF Strict
  <2>2. Put("put", ops, h.mut, db, next, ops, key)
    BY <1>14, <1>5
  <2>3. /\ next \in Records /\ next.pending = NoPending
        /\ next.ledger # << >> /\ Last(next.ledger).op = ops
        /\ next.ledger = Receipt(db.ledger, Last(next.ledger))
        /\ h.mut.kind = "prefs" => next.gen = db.gen /\ next.env = db.env
        /\ IsAuth(h.mut) => next.gen = gens + 1 /\ next.env = env
        /\ h.mut.kind = "clear" => next.gen = gens + 1 /\ next.env = "none"
    <3>1. gens + 1 \in Nat
      BY <1>0
    <3> QED
      BY <3>1, <1>0, <1>4, <1>7, AppliedFields DEF next
  <2>4. Computed([rev |-> db.rev, val |-> next, op |-> ops], keys', gens')
    <3> DEFINE p == [rev |-> db.rev, val |-> next, op |-> ops]
    <3>1. p.val = next /\ p.op = ops
      OBVIOUS
    <3> HIDE DEF p
    <3>2. h.mut.kind = "prefs" \/ IsAuth(h.mut) \/ h.mut.kind = "clear"
      BY <1>7 DEF IsAuth
    <3>3. Served(p.val, keys')
      BY <2>3, <3>1, <3>2, <1>6, <1>9, <1>12 DEF Served
    <3>4. Sound(p.val, gens')
      <4>1. next.gen <= gens'
        <5>1. CASE h.mut.kind = "prefs"
          BY <5>1, <2>3, <1>0, <1>8, <1>12 DEF Sound
        <5>2. CASE h.mut.kind # "prefs"
          BY <5>2, <2>3, <3>2, <1>0, <1>8
        <5> QED
          BY <5>1, <5>2
      <4>2. next.pending.gen = 0 /\ 0 <= gens'
        BY <2>3, <1>8 DEF NoPending
      <4> QED
        BY <4>1, <4>2, <2>3, <3>1 DEF Sound
    <3>5. Applies(p)
      <4>1. db.env = "km" /\ next.env = "acl" => ops \in fresh
        BY <2>3, <3>2, <1>4, <1>7
      <4>2. next.gen # db.gen /\ next.env = "km" => ops \in fresh
        BY <2>3, <3>2, <1>4, <1>7, <1>14 DEF Strict
      <4> QED
        BY <4>1, <4>2, <2>3, <3>1, <1>0, <1>11 DEF Applies
    <3>6. Computed(p, keys', gens')
      BY <3>1, <3>3, <3>4, <3>5, <1>0, <1>11 DEF Computed
    <3> QED
      BY <3>6 DEF p
  <2>5. cleanup' \in Seq(Retired) /\ Len(cleanup') <= LEDGER_CAPACITY
    BY <1>14, <1>5, <1>0, RememberKeeps DEF TypeOK
  <2>6. InLedger(next, ops)
    <3>1. Len(next.ledger) \in Nat /\ Len(next.ledger) # 0
      BY <2>3, RecordFields, EmptySeq
    <3>2. Len(next.ledger) \in 1 .. Len(next.ledger) /\ next.ledger[Len(next.ledger)].op = ops
      BY <2>3, <3>1 DEF Last
    <3> QED
      BY <2>3, <3>2, LedgerPlaces
  <2>7. c.pc # "idle" => c.rev = db.rev /\ Accepts(db, c.mut)
    BY <1>0, <1>1 DEF HelperOK
  <2> QED
    BY <2>1, <2>2, <2>3, <2>4, <2>5, <2>6, <2>7, <1>0, <1>1, <1>6, <1>8, <1>9, <1>10, PutHolds
<1> QED
  BY <1>13, <1>14

\* The helper stops waiting for a put that may still land.
LEMMA TimesOutHolds == IInv /\ TimesOut => IInv'
<1> SUFFICES ASSUME IInv, TimesOut PROVE IInv'
  OBVIOUS
<1>1. /\ h' = [h EXCEPT !.ack = "lost"] /\ h \in Requests /\ Waiting
      /\ UNCHANGED <<db, inflight, keys, gens, cleanup, c, ops, fresh, answer, foreign, faults, log>>
  BY DEF TimesOut, IInv, TypeOK
<1>2. /\ h' \in Requests /\ h'.ack = "lost" /\ h'.pc = h.pc /\ h'.op = h.op /\ h'.mut = h.mut
      /\ h'.base = h.base /\ h'.key = h.key /\ h'.put = h.put
  BY <1>1 DEF Requests
<1>3. TypeOK'
  BY <1>1, <1>2 DEF IInv, TypeOK
<1>4. /\ Served(db, keys)' /\ Sound(db, gens)' /\ (\A k \in keys : 0 < k /\ k <= gens)' /\ Logged'
  BY <1>1 DEF IInv, Served, Sound, Logged
<1>5. PutsOK(keys, gens)'
  BY <1>1, ZenonT(30) DEF IInv, PutsOK, Live, Computed, Served, Sound, Rewrites, Applies
<1>6. ClientOK'
  BY <1>1 DEF IInv, ClientOK, ReqOK, Live, Accepts, IsAuth
<1>7. HelperOK'
  <2>1. Waiting' /\ h'.pc \notin {"idle", "commit", "reconcile"} /\ h.pc \notin {"idle", "commit", "reconcile"}
    BY <1>1, <1>2 DEF Waiting
  <2>2. WaitOK'
    BY <1>1, <1>2 DEF IInv, HelperOK, WaitOK, InLedger
  <2>3. KeyOK'
    BY <1>1, <1>2 DEF IInv, HelperOK, KeyOK, References, Live
  <2>4. RepairOK'
    BY <1>1, <1>2 DEF IInv, HelperOK, RepairOK, InLedger, Live, Same
  <2> QED
    BY <2>1, <2>2, <2>3, <2>4, <1>1, <1>2 DEF IInv, HelperOK
<1> QED
  BY <1>3, <1>4, <1>5, <1>6, <1>7 DEF IInv

\* The put's fate cannot be read back.
LEMMA ReadbackFailsHolds == IInv /\ ReadbackFails => IInv'
<1> SUFFICES ASSUME IInv, ReadbackFails PROVE IInv'
  OBVIOUS
<1>1. /\ h.pc # "idle" /\ Answer("uncertain") /\ UNCHANGED inflight /\ UNCHANGED unchangedHelper
      /\ keys' = IF h.pc \in {"put", "stage"} THEN KeysAfterReply ELSE keys
      /\ cleanup' = IF h.pc = "put" THEN CleanupAfterReply ELSE cleanup
  BY DEF ReadbackFails, Waiting
<1>2. keys' \subseteq keys /\ Served(db, keys') /\ PutsOK(keys', gens)
  BY <1>1, ReplyRetires DEF IInv
<1>3. cleanup' \in Seq(Retired) /\ Len(cleanup') <= LEDGER_CAPACITY
  BY <1>1, ReplyKeeps DEF IInv, TypeOK
<1>4. "uncertain" \in Answers /\ "uncertain" # "conflict"
  BY DEF Answers
<1> QED
  BY <1>1, <1>2, <1>3, <1>4, AnswerHolds

\* The put that is repaired is the record as it is, so the last receipt is of a fresh sign-in.
LEMMA RepairHolds ==
    ASSUME IInv, h.pc = "put", Same(db, h.put.val), h.key # 0, InLedger(db, ops),
           Put("repair", h.op, h.mut, db, [db EXCEPT !.env = "acl"], 0, h.key),
           keys' = KeysAfterReply, cleanup' = CleanupAfterReply, UNCHANGED <<c, answer>>,
           UNCHANGED unchangedHelper
    PROVE  IInv'
<1> USE DEF unchangedHelper
<1> DEFINE val == [db EXCEPT !.env = "acl"]
<1>0. /\ TypeOK /\ HelperOK /\ h.op = ops /\ ops # 0 /\ db \in Records /\ h.put.val \in Records
      /\ h.key \in Nat /\ gens \in Nat /\ 0 \in 0 .. MaxOps
  <2>1. TypeOK /\ HelperOK
    BY DEF IInv
  <2> QED
    BY <2>1, Types, Consts DEF HelperOK
<1>1. /\ db.ledger = h.put.val.ledger /\ db.ledger # << >> /\ Last(db.ledger).op \in fresh
  BY <1>0, SameFields DEF HelperOK, WaitOK, Waiting
<1>2. /\ val \in Records /\ val.gen = db.gen /\ val.env = "acl" /\ val.pending = db.pending
      /\ val.ledger = db.ledger
  BY <1>0 DEF Records
<1> HIDE DEF val
<1>3. ops \in ToSet(log)
  BY LedgerKnows
<1>4. keys' \subseteq keys /\ Served(db, keys') /\ PutsOK(keys', gens)
  BY ReplyRetires
<1>5. cleanup' \in Seq(Retired) /\ Len(cleanup') <= LEDGER_CAPACITY
  BY <1>0, ReplyKeeps
<1>6. Computed([rev |-> db.rev, val |-> val, op |-> 0], keys', gens')
  <2> DEFINE p == [rev |-> db.rev, val |-> val, op |-> 0]
  <2>1. p.val = val /\ p.op = 0
    OBVIOUS
  <2> HIDE DEF p
  <2>2. Served(p.val, keys') /\ Sound(p.val, gens')
    BY <2>1, <1>2, <1>4 DEF IInv, Served, Sound
  <2>3. Rewrites(p)
    BY <2>1, <1>1, <1>2 DEF Rewrites
  <2>4. Computed(p, keys', gens')
    BY <2>1, <2>2, <2>3, <1>2 DEF Computed
  <2> QED
    BY <2>4 DEF p
<1>7. InLedger(val, ops)
  BY <1>2 DEF InLedger
<1>8. val.pending = NoPending
  BY <1>0, <1>2, SameFields DEF HelperOK, WaitOK, Waiting
<1>9. Put("repair", ops, h.mut, db, val, 0, h.key)
  BY <1>0 DEF val
<1>10. /\ gens' \in Nat /\ gens <= gens' /\ \A k \in keys' : k \in Nat /\ 0 < k /\ k <= gens'
  BY <1>0, <1>4, Types DEF IInv
<1>11. \A p \in inflight : ~Live(p)
  <2>1. ~InLedger(h.base, ops) /\ WaitOK
    BY <1>0 DEF HelperOK, RepairOK, Waiting
  <2>2. db.rev # h.base.rev
    BY <2>1 DEF WaitOK
  <2> QED
    BY <2>2, MovedOn DEF Waiting
<1> QED
  BY <1>0, <1>2, <1>3, <1>4, <1>5, <1>6, <1>7, <1>8, <1>9, <1>10, <1>11, PutHolds

\* commit reads back what its put did.
LEMMA CommitReadsBackHolds == IInv /\ CommitReadsBack => IInv'
<1> SUFFICES ASSUME IInv, CommitReadsBack PROVE IInv'
  OBVIOUS
<1> DEFINE verified == Same(db, h.put.val)
<1>0. /\ TypeOK /\ h.pc = "put" /\ h.pc # "idle" /\ Waiting /\ h.op = ops /\ UNCHANGED unchangedHelper
  BY DEF CommitReadsBack, IInv, HelperOK, Waiting
<1>1. KeysAfterReply \subseteq keys /\ Served(db, KeysAfterReply) /\ PutsOK(KeysAfterReply, gens)
  BY <1>0, ReplyRetires
<1>2. CleanupAfterReply \in Seq(Retired) /\ Len(CleanupAfterReply) <= LEDGER_CAPACITY
  BY <1>0, ReplyKeeps
<1>3. CASE ~InLedger(db, ops)
  <2>1. /\ Answer(NotFound) /\ keys' = KeysAfterReply /\ cleanup' = CleanupAfterReply
        /\ UNCHANGED inflight
    BY <1>0, <1>3 DEF CommitReadsBack
  <2>2. NotFound \in Answers
    BY DEF NotFound, Answers
  <2>3. NotFound = "conflict" => \A p \in inflight : Live(p) => p.op # ops
    BY <1>0, MovedOn DEF NotFound
  <2> QED
    BY <1>0, <1>1, <1>2, <2>1, <2>2, <2>3, AnswerHolds
<1>4. CASE InLedger(db, ops)
  <2>1. PICK ok \in Opens(db) :
            CASE verified /\ h.key # 0 /\ ~ok ->
                    /\ Put("repair", h.op, h.mut, db, [db EXCEPT !.env = "acl"], 0, h.key)
                    /\ keys' = KeysAfterReply
                    /\ cleanup' = CleanupAfterReply
                    /\ UNCHANGED <<c, answer>>
              [] ~verified /\ IsAuth(h.mut) /\ ~ok ->
                    /\ Answer("uncertain")
                    /\ keys' = KeysAfterReply
                    /\ cleanup' = CleanupAfterReply
                    /\ UNCHANGED inflight
              [] OTHER ->
                    /\ Answer("durable")
                    /\ CleanupConfirmed(h.op, db, CleanupAfterReply,
                           IF verified THEN WithoutCancelled(h.base, db, KeysAfterReply)
                           ELSE KeysAfterReply)
                    /\ UNCHANGED inflight
    BY <1>0, <1>4 DEF CommitReadsBack
  <2>2. CASE verified /\ h.key # 0 /\ ~ok
    <3>1. /\ Put("repair", h.op, h.mut, db, [db EXCEPT !.env = "acl"], 0, h.key)
          /\ keys' = KeysAfterReply /\ cleanup' = CleanupAfterReply /\ UNCHANGED <<c, answer>>
      BY <2>1, <2>2
    <3> QED
      BY <1>0, <1>4, <2>2, <3>1, RepairHolds
  <2>3. CASE ~verified /\ IsAuth(h.mut) /\ ~ok
    <3>1. /\ Answer("uncertain") /\ keys' = KeysAfterReply /\ cleanup' = CleanupAfterReply
          /\ UNCHANGED inflight
      BY <2>1, <2>3
    <3>2. "uncertain" \in Answers /\ "uncertain" # "conflict"
      BY DEF Answers
    <3> QED
      BY <1>0, <1>1, <1>2, <3>1, <3>2, AnswerHolds
  <2>4. CASE ~(verified /\ h.key # 0 /\ ~ok) /\ ~(~verified /\ IsAuth(h.mut) /\ ~ok)
    <3> DEFINE ks == IF verified THEN WithoutCancelled(h.base, db, KeysAfterReply)
                     ELSE KeysAfterReply
    <3>1. /\ Answer("durable") /\ CleanupConfirmed(h.op, db, CleanupAfterReply, ks)
          /\ UNCHANGED inflight
      BY <2>1, <2>4
    <3>2. ks \subseteq KeysAfterReply /\ \A k \in KeysAfterReply \ ks : ~References(db, k)
      BY DEF WithoutCancelled
    <3> HIDE DEF ks, verified
    <3>3. /\ cleanup' \in Seq(Retired) /\ Len(cleanup') <= LEDGER_CAPACITY
          /\ keys' \subseteq ks /\ \A k \in ks \ keys' : ~References(db, k)
      BY <1>2, <3>1, ConfirmedKeeps
    <3>4. Served(db, keys')
      BY <1>1, <3>2, <3>3 DEF Served, References
    <3>5. ops \in ToSet(log) /\ keys' \subseteq keys
      BY <1>1, <1>4, <3>2, <3>3, LedgerKnows
    <3> QED
      BY <1>0, <3>1, <3>3, <3>4, <3>5, DurableHolds
  <2> QED
    BY <2>2, <2>3, <2>4
<1> QED
  BY <1>3, <1>4

\* The put that is read back: the record has its fields, and has taken the operation if the put
\* carries the receipt.
LEMMA ReadBack ==
    ASSUME IInv, Waiting, Same(db, h.put.val)
    PROVE  /\ db.env = h.put.val.env /\ db.pending = h.put.val.pending
           /\ h.pc # "stage" => ops \in ToSet(log)
<1>1. TypeOK /\ HelperOK /\ WaitOK
  BY DEF IInv, HelperOK
<1>2. db \in Records /\ h.put.val \in Records
  BY <1>1, Types
<1>3. db.env = h.put.val.env /\ db.pending = h.put.val.pending /\ db.ledger = h.put.val.ledger
  BY <1>2, SameFields
<1>4. ASSUME h.pc # "stage" PROVE ops \in ToSet(log)
  <2>1. InLedger(h.put.val, ops)
    BY <1>1, <1>4 DEF WaitOK, Waiting
  <2>2. InLedger(db, ops)
    BY <2>1, <1>3 DEF InLedger
  <2> QED
    BY <2>2, LedgerKnows
<1> QED
  BY <1>3, <1>4

\* A repair of the seal is read back.
LEMMA RepairReadsBackHolds == IInv /\ RepairReadsBack => IInv'
<1> SUFFICES ASSUME IInv, RepairReadsBack PROVE IInv'
  OBVIOUS
<1>0. /\ TypeOK /\ h.pc = "repair" /\ Waiting /\ h.op = ops /\ UNCHANGED inflight
      /\ UNCHANGED unchangedHelper
  BY DEF RepairReadsBack, IInv, HelperOK, Waiting
<1>1. CASE Same(db, h.put.val)
  <2>1. Answer("durable") /\ CleanupConfirmed(h.op, db, cleanup, keys \ {h.key})
    BY <1>1 DEF RepairReadsBack
  <2>2. /\ cleanup' \in Seq(Retired) /\ Len(cleanup') <= LEDGER_CAPACITY /\ keys' \subseteq keys \ {h.key}
    BY <1>0, <2>1, ConfirmedKeeps DEF TypeOK
  <2>3. ops \in ToSet(log) /\ db.env = "acl" /\ db.pending = NoPending
    BY <1>0, <1>1, ReadBack DEF IInv, HelperOK, WaitOK
  <2>4. Served(db, keys')
    BY <2>3 DEF Served
  <2> QED
    BY <1>0, <2>1, <2>2, <2>3, <2>4, DurableHolds
<1>2. CASE ~Same(db, h.put.val)
  <2> DEFINE a == IF db.rev # h.base.rev THEN "conflict" ELSE "uncertain"
  <2>1. Answer(a) /\ UNCHANGED <<keys, cleanup>>
    BY <1>2 DEF RepairReadsBack
  <2>2. a \in Answers
    BY DEF Answers
  <2>3. a = "conflict" => \A p \in inflight : Live(p) => p.op # ops
    BY <1>0, MovedOn
  <2> HIDE DEF a
  <2> QED
    BY <1>0, <2>1, <2>2, <2>3, PlainHolds
<1> QED
  BY <1>1, <1>2

\* A promotion of staged credentials is read back.
LEMMA PromoteReadsBackHolds == IInv /\ PromoteReadsBack => IInv'
<1> SUFFICES ASSUME IInv, PromoteReadsBack PROVE IInv'
  OBVIOUS
<1>0. /\ TypeOK /\ h.pc = "promote" /\ Waiting /\ h.op = ops /\ ops \in Ops /\ h.base \in Records
      /\ UNCHANGED inflight /\ UNCHANGED unchangedHelper
  <2>1. TypeOK /\ HelperOK /\ h.pc = "promote"
    BY DEF PromoteReadsBack, IInv
  <2> QED
    BY <2>1, Types DEF PromoteReadsBack, HelperOK, Waiting
<1>1. CASE Same(db, h.put.val)
  <2>1. Answer("durable") /\ CleanupConfirmed(h.op, db, Remember(h.base, db, h.op, cleanup), keys)
    BY <1>1 DEF PromoteReadsBack
  <2>2. /\ Remember(h.base, db, h.op, cleanup) \in Seq(Retired)
        /\ Len(Remember(h.base, db, h.op, cleanup)) <= LEDGER_CAPACITY
    BY <1>0, RememberKeeps DEF TypeOK
  <2>3. /\ cleanup' \in Seq(Retired) /\ Len(cleanup') <= LEDGER_CAPACITY
        /\ keys' \subseteq keys /\ \A k \in keys \ keys' : ~References(db, k)
    BY <2>1, <2>2, ConfirmedKeeps
  <2>4. Served(db, keys')
    BY <2>3, Unneeded
  <2>5. ops \in ToSet(log)
    BY <1>0, <1>1, ReadBack
  <2> QED
    BY <1>0, <2>1, <2>3, <2>4, <2>5, DurableHolds
<1>2. CASE ~Same(db, h.put.val)
  <2>1. Answer("uncertain") /\ UNCHANGED <<keys, cleanup>>
    BY <1>2 DEF PromoteReadsBack
  <2>2. "uncertain" \in Answers /\ "uncertain" # "conflict"
    BY DEF Answers
  <2> QED
    BY <1>0, <2>1, <2>2, PlainHolds
<1> QED
  BY <1>1, <1>2

\* A staged refresh is read back.
LEMMA StageReadsBackHolds == IInv /\ StageReadsBack => IInv'
<1> SUFFICES ASSUME IInv, StageReadsBack PROVE IInv'
  OBVIOUS
<1>0. /\ TypeOK /\ h.pc = "stage" /\ Waiting /\ h.op = ops /\ WaitOK /\ UNCHANGED cleanup
      /\ UNCHANGED unchangedHelper /\ cleanup' \in Seq(Retired) /\ Len(cleanup') <= LEDGER_CAPACITY
  BY DEF StageReadsBack, IInv, HelperOK, Waiting, TypeOK
<1>1. /\ KeysAfterReply \subseteq keys /\ Served(db, KeysAfterReply) /\ PutsOK(KeysAfterReply, gens)
  BY <1>0, ReplyRetires
<1>2. CASE Same(db, h.put.val)
  <2>1. keys' = WithoutCancelled(h.base, db, KeysAfterReply) /\ FinishPending(db, keys')
    BY <1>2 DEF StageReadsBack
  <2>2. db.pending = [op |-> ops, gen |-> h.key]
    BY <1>0, <1>2, ReadBack DEF WaitOK
  <2>3. db.pending.op = ops
    BY <2>2
  <2>4. \A p \in inflight : ~Live(p)
    <3>1. db.rev # h.base.rev
      BY <1>0, <2>3 DEF WaitOK
    <3> QED
      BY <1>0, <3>1, MovedOn
  <2>5. keys' \subseteq KeysAfterReply /\ \A k \in KeysAfterReply \ keys' : ~References(db, k)
    BY <2>1 DEF WithoutCancelled
  <2>6. Served(db, keys') /\ keys' \subseteq keys
    BY <1>1, <2>5 DEF Served, References
  <2>7. PutsOK(keys', gens)
    BY <2>4, <2>6, Retire
  <2> QED
    BY <1>0, <2>1, <2>3, <2>6, <2>7, FinishHolds
<1>3. CASE ~Same(db, h.put.val)
  <2>1. Answer("uncertain") /\ keys' = KeysAfterReply /\ UNCHANGED inflight
    BY <1>3 DEF StageReadsBack
  <2>2. "uncertain" \in Answers /\ "uncertain" # "conflict"
    BY DEF Answers
  <2> QED
    BY <1>0, <1>1, <2>1, <2>2, AnswerHolds
<1> QED
  BY <1>2, <1>3

-----------------------------------------------------------------------------
(* The client, and the deaths of either process. *)

\* The invariant holds of a new store.
LEMMA InitHolds == Init => IInv
<1> SUFFICES ASSUME Init PROVE IInv
  OBVIOUS
<1> DEFINE signed(e) == [NewRecord EXCEPT !.rev = 1, !.gen = 1, !.env = e, !.session = TRUE]
<1>0. /\ keys = (IF db.env = "km" THEN {1} ELSE {}) /\ gens = 1 /\ inflight = {} /\ h = HIdle
      /\ cleanup = << >> /\ c = CIdle /\ ops = 0 /\ fresh = {} /\ answer = [o \in Ops |-> "none"]
      /\ foreign = 0 /\ faults = 0 /\ log = << >>
  BY DEF Init
<1>1. \E e \in {"km", "acl"} : db = NewRecord \/ db = signed(e)
  BY DEF Init
<1>2. /\ db \in Records /\ db.gen \in {0, 1} /\ (db.env = "km" => db.gen = 1) /\ db.pending = NoPending
      /\ db.ledger = << >>
  <2>1. NewRecord \in Records
    BY IdleTypes
  <2>2. CASE db = NewRecord
    BY <2>1, <2>2 DEF NewRecord
  <2>3. ASSUME NEW e \in {"km", "acl"}, db = signed(e)
        PROVE  /\ db \in Records /\ db.gen = 1 /\ db.pending = NoPending /\ db.ledger = << >>
    <3>1. signed(e) \in Records
      BY <2>1 DEF Records, Revs, Gens
    <3>2. signed(e).gen = 1 /\ signed(e).pending = NoPending /\ signed(e).ledger = << >>
      BY DEF NewRecord
    <3> QED
      BY <2>3, <3>1, <3>2
  <2> QED
    BY <1>1, <2>2, <2>3
<1>3. TypeOK
  <2>1. h \in Requests /\ c \in Saves
    BY <1>0, IdleTypes
  <2>2. Len(db.ledger) <= LEDGER_CAPACITY /\ cleanup \in Seq(Retired) /\ Len(cleanup) <= LEDGER_CAPACITY
        /\ log \in Seq(Operations)
    BY <1>0, <1>2, Consts
  <2>3. keys \subseteq Gens /\ gens \in Gens /\ ops \in 0 .. MaxOps /\ faults \in 0 .. MaxFaults
        /\ foreign \in 0 .. faults
    BY <1>0, Consts DEF Gens
  <2>4. answer \in [Ops -> Answers]
    BY <1>0 DEF Answers
  <2> QED
    BY <1>0, <1>2, <2>1, <2>2, <2>3, <2>4 DEF TypeOK
<1>4. Served(db, keys) /\ Sound(db, gens) /\ \A k \in keys : 0 < k /\ k <= gens
  BY <1>0, <1>2 DEF Served, Sound, NoPending
<1>5. Logged
  <2>1. ToSet(log) = {} /\ Len(db.ledger) = 0 /\ 1 .. 0 = {}
    BY <1>0, <1>2, EmptyMembers
  <2> QED
    BY <2>1 DEF Logged
<1>6. PutsOK(keys, gens)
  BY <1>0 DEF PutsOK
<1>7. ClientOK
  BY <1>0, IdleTypes DEF ClientOK
<1>8. HelperOK
  BY <1>0, IdleTypes DEF HelperOK, Waiting
<1> QED
  BY <1>3, <1>4, <1>5, <1>6, <1>7, <1>8 DEF IInv

\* A step of the client or the end of either process: the record and what is on its way to it
\* stay, and nobody is told of a conflict.
LEMMA AsideHolds ==
    ASSUME IInv, TypeOK', UNCHANGED <<db, inflight, keys, gens, ops, fresh, foreign, log>>,
           answer' = answer \/ \E a \in Answers \ {"conflict"} : answer' = [answer EXCEPT ![ops] = a],
           c'.pc # "idle" => /\ c.pc # "idle" /\ answer' = answer
                             /\ c'.op = c.op /\ c'.mut = c.mut /\ c'.rev = c.rev,
           \/ h'.pc = "idle"
           \/ h' = h
           \/ /\ h'.pc \in {"commit", "reconcile"} /\ c.pc # "idle" /\ c'.pc # "idle"
              /\ h'.op = c.op /\ h'.mut = c.mut /\ h'.base.rev = c.rev
    PROVE  IInv'
<1>0. TypeOK /\ ClientOK /\ HelperOK
  BY DEF IInv
<1>1. \A o \in Ops : o # ops => answer'[o] = answer[o]
  BY <1>0 DEF TypeOK
<1>2. \A o \in Ops : answer[o] # "conflict" => answer'[o] # "conflict"
  BY <1>0 DEF TypeOK
<1>3. /\ Served(db, keys)' /\ Sound(db, gens)' /\ (\A k \in keys : 0 < k /\ k <= gens)' /\ Logged'
  BY DEF IInv, Served, Sound, Logged
<1>4. PutsOK(keys, gens)'
  <2> SUFFICES ASSUME NEW p \in inflight, Live(p) PROVE Computed(p, keys, gens)'
    BY DEF IInv, PutsOK, Live
  <2>1. Computed(p, keys, gens)
    BY DEF IInv, PutsOK
  <2>2. p.op # 0 => p.op \in Ops
    BY <1>0, Types, Consts DEF Ops
  <2> QED
    BY <1>2, <2>1, <2>2 DEF Computed, Served, Sound, Rewrites, Applies
<1>6. ClientOK'
  <2>1. \A o \in Ops : o > ops => answer'[o] = "none"
    BY <1>0, <1>1, Types DEF ClientOK
  <2>2. ASSUME c'.pc # "idle" PROVE c'.op = ops /\ ops # 0 /\ answer'[ops] = "none" /\ ReqOK(c.mut, c.rev)'
    <3>1. c.op = ops /\ ops # 0 /\ answer'[ops] = "none" /\ c'.op = c.op /\ c'.mut = c.mut /\ c'.rev = c.rev
          /\ ReqOK(c.mut, c.rev)
      BY <1>0, <2>2 DEF ClientOK
    <3> QED
      BY <3>1 DEF ReqOK, Live, Accepts, IsAuth
  <2> QED
    BY <2>1, <2>2 DEF ClientOK
<1>7. HelperOK'
  <2>1. CASE h'.pc = "idle"
    BY <2>1 DEF HelperOK, Waiting
  <2>2. CASE h' = h
    <3>1. h.pc # "idle" => answer'[ops] # "conflict" /\ h.op = ops /\ ops # 0
      BY <1>0, <1>2, Types DEF HelperOK
    <3>2. Waiting => WaitOK' /\ KeyOK'
      BY <1>0, <2>2 DEF HelperOK, WaitOK, KeyOK, References, Live, InLedger
    <3>6. Waiting => RepairOK'
      BY <1>0, <2>2 DEF HelperOK, RepairOK, Live, InLedger, Same
    <3>3. h.pc \in {"commit", "reconcile"} => ReqOK(h.mut, h.base.rev)'
      BY <1>0, <2>2 DEF HelperOK, ReqOK, Live, Accepts, IsAuth
    <3>4. h.pc \in {"commit", "reconcile"} /\ c'.pc # "idle" => c'.mut = h.mut /\ c'.rev = h.base.rev
      BY <1>0 DEF HelperOK
    <3>5. Waiting' <=> Waiting
      BY <2>2 DEF Waiting
    <3> QED
      BY <2>2, <3>1, <3>2, <3>3, <3>4, <3>5, <3>6 DEF HelperOK
  <2>3. CASE /\ h'.pc \in {"commit", "reconcile"} /\ c.pc # "idle" /\ c'.pc # "idle"
             /\ h'.op = c.op /\ h'.mut = c.mut /\ h'.base.rev = c.rev
    <3>1. c.op = ops /\ ops # 0 /\ answer'[ops] = "none" /\ ReqOK(c.mut, c.rev)
      BY <1>0, <2>3 DEF ClientOK
    <3>2. ReqOK(h.mut, h.base.rev)'
      BY <2>3, <3>1 DEF ReqOK, Live, Accepts, IsAuth
    <3>3. ~Waiting'
      BY <2>3 DEF Waiting
    <3> QED
      BY <2>3, <3>1, <3>2, <3>3 DEF HelperOK
  <2> QED
    BY <2>1, <2>2, <2>3
<1> QED
  BY <1>3, <1>4, <1>6, <1>7 DEF IInv

\* A lost connection: the client goes on to reconcile, or the save has failed.
LEMMA DisconnectedKeeps ==
    ASSUME IInv, c.pc # "idle", Disconnected
    PROVE  /\ c' \in Saves /\ answer' \in [Ops -> Answers]
           /\ answer' = answer \/ \E a \in Answers \ {"conflict"} : answer' = [answer EXCEPT ![ops] = a]
           /\ c'.pc # "idle" => /\ answer' = answer
                                /\ c'.op = c.op /\ c'.mut = c.mut /\ c'.rev = c.rev
<1>1. c \in Saves /\ c.op = ops /\ answer \in [Ops -> Answers] /\ "failed" \in Answers \ {"conflict"}
  BY DEF IInv, TypeOK, ClientOK, Answers
<1>2. CASE c.pc \in {"commit", "commit_sent"}
  BY <1>1, <1>2 DEF Disconnected, Saves
<1>3. CASE c.pc \notin {"commit", "commit_sent"}
  <2>1. c' = CIdle /\ answer' = [answer EXCEPT ![ops] = "failed"]
    BY <1>1, <1>3 DEF Disconnected
  <2> QED
    BY <1>1, <2>1, IdleTypes
<1> QED
  BY <1>2, <1>3

\* What the client and the two processes do without touching the record.
LEMMA ClientHolds == IInv /\ (GivesUp \/ Resubmit \/ Accept \/ HelperDies \/ AppDies) => IInv'
<1> SUFFICES ASSUME IInv, GivesUp \/ Resubmit \/ Accept \/ HelperDies \/ AppDies PROVE IInv'
  OBVIOUS
<1>0. TypeOK /\ ClientOK /\ c \in Saves /\ h \in Requests
  BY DEF IInv, TypeOK
<1>f. Fault => faults' \in 0 .. MaxFaults /\ foreign \in 0 .. faults'
  BY <1>0, Types, Consts DEF Fault
<1>1. CASE GivesUp
  <2>1. /\ c.pc # "idle" /\ Disconnected /\ UNCHANGED <<db, inflight, keys, gens, ops, fresh, foreign, log>>
        /\ UNCHANGED <<h, cleanup, faults>>
    BY <1>1 DEF GivesUp
  <2>2. TypeOK'
    BY <1>0, <2>1, DisconnectedKeeps DEF TypeOK
  <2> QED
    BY <2>1, <2>2, DisconnectedKeeps, AsideHolds
<1>2. CASE Resubmit
  <2>1. /\ c.pc # "idle" /\ c' = [c EXCEPT !.pc = "commit"] /\ Fault /\ UNCHANGED <<h, cleanup, answer>>
        /\ UNCHANGED <<db, inflight, keys, gens, ops, fresh, foreign, log>>
    BY <1>2 DEF Resubmit
  <2>2. c' \in Saves /\ c'.op = c.op /\ c'.mut = c.mut /\ c'.rev = c.rev
    BY <1>0, <2>1 DEF Saves
  <2>3. TypeOK'
    BY <1>0, <1>f, <2>1, <2>2 DEF TypeOK
  <2> QED
    BY <2>1, <2>2, <2>3, AsideHolds
<1>3. CASE Accept
  <2>1. /\ c.pc \in {"commit", "reconcile"} /\ UNCHANGED <<cleanup, answer, faults>>
        /\ h' = [HIdle EXCEPT !.pc = c.pc, !.op = c.op, !.mut = c.mut,
                              !.base = [NewRecord EXCEPT !.rev = c.rev]]
        /\ UNCHANGED <<db, inflight, keys, gens, ops, fresh, foreign, log>>
    BY <1>3 DEF Accept
  <2>2. \E pc \in {"commit_sent", "reconcile_sent"} : c' = [c EXCEPT !.pc = pc]
    BY <1>3 DEF Accept
  <2>3. c' \in Saves /\ c'.pc # "idle" /\ c'.op = c.op /\ c'.mut = c.mut /\ c'.rev = c.rev
    BY <1>0, <2>2 DEF Saves
  <2> DEFINE b == [NewRecord EXCEPT !.rev = c.rev]
  <2>4. b \in Records /\ b.rev = c.rev
    BY <1>0, Types, IdleTypes DEF Records, Revs
  <2> HIDE DEF b
  <2>5. h' = [HIdle EXCEPT !.pc = c.pc, !.op = c.op, !.mut = c.mut, !.base = b]
    BY <2>1 DEF b
  <2>6. h'.pc = c.pc /\ h'.op = c.op /\ h'.mut = c.mut /\ h'.base = b
    BY <2>5 DEF HIdle
  <2>7. h' \in Requests
    <3>1. HIdle \in Requests /\ c.op \in 0 .. MaxOps /\ c.mut \in Mutations
      BY <1>0, Types, IdleTypes
    <3> QED
      BY <3>1, <2>1, <2>4, <2>5 DEF Requests
  <2>8. TypeOK'
    BY <1>0, <2>1, <2>3, <2>7 DEF TypeOK
  <2> QED
    BY <2>1, <2>3, <2>4, <2>6, <2>8, AsideHolds
<1>4. CASE HelperDies
  <2>1. /\ h' = HIdle /\ cleanup' = << >> /\ Fault
        /\ UNCHANGED <<db, inflight, keys, gens, ops, fresh, foreign, log>>
        /\ \/ c.pc # "idle" /\ Disconnected
           \/ UNCHANGED <<c, answer>>
    BY <1>4 DEF HelperDies
  <2>2. /\ h'.pc = "idle" /\ h' \in Requests /\ cleanup' \in Seq(Retired) /\ Len(cleanup') <= LEDGER_CAPACITY
    BY <2>1, IdleTypes, Consts
  <2>3. CASE c.pc # "idle" /\ Disconnected
    <3>1. TypeOK'
      BY <1>0, <1>f, <2>1, <2>2, <2>3, DisconnectedKeeps DEF TypeOK
    <3> QED
      BY <2>1, <2>2, <2>3, <3>1, DisconnectedKeeps, AsideHolds
  <2>4. CASE UNCHANGED <<c, answer>>
    <3>1. TypeOK'
      BY <1>0, <1>f, <2>1, <2>2, <2>4 DEF TypeOK
    <3> QED
      BY <2>1, <2>2, <2>4, <3>1, AsideHolds
  <2> QED
    BY <2>1, <2>3, <2>4
<1>5. CASE AppDies
  <2>1. /\ c.pc # "idle" /\ Fault /\ c' = CIdle /\ answer' = [answer EXCEPT ![c.op] = "lost"]
        /\ UNCHANGED <<h, cleanup>> /\ UNCHANGED <<db, inflight, keys, gens, ops, fresh, foreign, log>>
    BY <1>5 DEF AppDies
  <2>2. c.op = ops /\ "lost" \in Answers \ {"conflict"} /\ c' \in Saves /\ c'.pc = "idle"
    BY <1>0, <2>1, IdleTypes DEF ClientOK, Answers
  <2>3. TypeOK'
    BY <1>0, <1>f, <2>1, <2>2 DEF TypeOK
  <2> QED
    BY <2>1, <2>2, <2>3, AsideHolds
<1> QED
  BY <1>1, <1>2, <1>3, <1>4, <1>5

\* What the client chooses for the record it has loaded (protection_for_auth_write).
LEMMA Chosen ==
    ASSUME db \in Records, NEW opened \in BOOLEAN, NEW changed \in BOOLEAN,
           NEW authority \in {"signout", "migration", "public", "fresh", "routine"},
           Choose(db, authority, opened, changed) # NoMutation
    PROVE  LET m == Choose(db, authority, opened, changed)
           IN  /\ m \in Mutations /\ m.kind \in {"prefs", "auth", "import", "clear"}
               /\ IsAuth(m) <=> m.protection # "none"
               /\ m.protection = "fallback" => authority \in {"fresh", "migration"}
               /\ m.protection = "acl" => authority \in {"fresh", "migration"} \/ db.env # "km"
<1> DEFINE m == Choose(db, authority, opened, changed)
           M(k, p) == [kind |-> k, protection |-> p]
<1>1. \A r : ProtectionFor(TRUE, r) \in {"acl", "fallback"}
  BY Consts DEF ProtectionFor
<1>2. /\ ProtectionFor(FALSE, db) \in {"acl", "required"}
      /\ ProtectionFor(FALSE, db) = "acl" => db.env # "km"
  <2>1. db.env \in {"none", "km", "acl"}
    BY RecordFields
  <2> QED
    BY <2>1, Consts DEF ProtectionFor
<1>3. \/ authority = "signout" /\ m = M("clear", "none")
      \/ authority = "migration" /\ m = M("import", ProtectionFor(TRUE, NewRecord))
      \/ authority = "public" /\ m = M("prefs", "none")
      \/ authority = "fresh" /\ m = M("auth", ProtectionFor(TRUE, db))
      \/ authority = "routine" /\ m = M("prefs", "none")
      \/ authority = "routine" /\ m = M("auth", ProtectionFor(FALSE, db))
  <2>1. CASE authority = "signout"
    BY <2>1 DEF Choose
  <2>2. CASE authority = "migration"
    BY <2>2 DEF Choose
  <2>3. CASE authority = "public"
    BY <2>3 DEF Choose
  <2>4. CASE authority = "fresh"
    BY <2>4 DEF Choose
  <2>5. CASE authority = "routine"
    BY <2>5 DEF Choose
  <2> QED
    BY <2>1, <2>2, <2>3, <2>4, <2>5
<1> HIDE DEF m
<1>4. ASSUME NEW k \in {"prefs", "auth", "import", "clear"}, NEW p \in {"none", "required", "fallback", "acl"}
      PROVE  M(k, p) \in Mutations /\ M(k, p).kind = k /\ M(k, p).protection = p
  BY DEF Mutations
<1> HIDE DEF M
<1>5. PICK k \in {"prefs", "auth", "import", "clear"}, p \in {"none", "required", "fallback", "acl"} :
         /\ m = M(k, p)
         /\ k \in {"auth", "import"} <=> p # "none"
         /\ p = "fallback" => authority \in {"fresh", "migration"}
         /\ p = "acl" => authority \in {"fresh", "migration"} \/ db.env # "km"
  BY <1>1, <1>2, <1>3
<1> QED
  BY <1>4, <1>5 DEF IsAuth, m

\* The client reads the record and chooses the next operation.
LEMMA SubmitHolds == IInv /\ Submit => IInv'
<1> SUFFICES ASSUME IInv, Submit PROVE IInv'
  OBVIOUS
<1> DEFINE n == ops + 1
<1>0. /\ TypeOK /\ ClientOK /\ db \in Records /\ ops \in Nat /\ MaxOps \in Nat /\ db.rev \in Nat
      /\ c.pc = "idle" /\ h.pc = "idle" /\ ops' = n /\ n \in Ops /\ n \in 0 .. MaxOps
      /\ UNCHANGED <<db, inflight, keys, gens, h, cleanup, foreign, faults, log>>
  <2>1. TypeOK /\ ClientOK /\ db \in Records /\ ops \in Nat /\ MaxOps \in Nat
    BY Types, Consts DEF IInv
  <2>2. /\ c.pc = "idle" /\ h.pc = "idle" /\ ops' = n /\ ops < MaxOps
        /\ UNCHANGED <<db, inflight, keys, gens, h, cleanup, foreign, faults, log>>
    BY DEF Submit
  <2>3. db.rev \in Nat
    BY <2>1, RecordFields
  <2>4. n \in Ops /\ n \in 0 .. MaxOps
    BY <2>1, <2>2 DEF Ops
  <2> QED
    BY <2>1, <2>2, <2>3, <2>4
<1>1. PICK authority \in {"signout", "migration", "public", "fresh", "routine"},
           opened \in Opens(db), changed \in BOOLEAN :
           LET m == Choose(db, authority, opened, changed)
           IN  /\ IF m = NoMutation
                  THEN /\ answer' = [answer EXCEPT ![ops + 1] = "failed"]
                       /\ UNCHANGED c
                  ELSE /\ c' = [pc |-> "commit", op |-> ops + 1, mut |-> m, rev |-> db.rev]
                       /\ UNCHANGED answer
               /\ fresh' = IF authority \in {"fresh", "migration"}
                           THEN fresh \cup {ops + 1} ELSE fresh
  BY DEF Submit
<1> DEFINE m == Choose(db, authority, opened, changed)
<1>2. opened \in BOOLEAN
  BY <1>0, RecordFields DEF Opens
<1>3. /\ m = NoMutation => answer' = [answer EXCEPT ![n] = "failed"] /\ c' = c
      /\ m # NoMutation => c' = [pc |-> "commit", op |-> n, mut |-> m, rev |-> db.rev] /\ answer' = answer
      /\ fresh' = IF authority \in {"fresh", "migration"} THEN fresh \cup {n} ELSE fresh
  BY <1>1
<1>4. m # NoMutation => /\ m \in Mutations /\ m.kind \in {"prefs", "auth", "import", "clear"}
                        /\ IsAuth(m) <=> m.protection # "none"
                        /\ m.protection = "fallback" => authority \in {"fresh", "migration"}
                        /\ m.protection = "acl" => authority \in {"fresh", "migration"} \/ db.env # "km"
  BY <1>0, <1>2, Chosen
<1> HIDE DEF m, n
<1>n. n \in Nat /\ n # 0 /\ n > ops /\ n <= MaxOps /\ \A o \in Nat : o > n => o > ops
  BY <1>0 DEF n, Ops
<1>5. n \notin ToSet(log)
  <2>1. \A o \in ToSet(log) : o \in 1 .. ops \/ o \in MaxOps + 1 .. MaxOps + foreign
    BY DEF IInv, Logged
  <2>2. foreign \in Nat
    BY <1>0, Types
  <2>3. n \notin 1 .. ops /\ n \notin MaxOps + 1 .. MaxOps + foreign
    BY <1>0, <1>n, <2>2
  <2> QED
    BY <2>1, <2>3, Zenon
<1>6. /\ fresh \subseteq fresh' /\ \A o : o \in fresh' /\ o # n => o \in fresh
      /\ \A o \in Ops : o # n => answer'[o] = answer[o]
  BY <1>0, <1>3 DEF TypeOK
<1>7. TypeOK'
  <2>1. c' \in Saves
    BY <1>0, <1>3, <1>4 DEF Saves, Revs, TypeOK
  <2>2. answer' \in [Ops -> Answers] /\ fresh' \subseteq Ops
    BY <1>0, <1>3 DEF TypeOK, Answers
  <2> QED
    BY <1>0, <2>1, <2>2 DEF TypeOK
<1>8. ASSUME NEW r, Sound(r, gens) PROVE r.pending # NoPending => r.pending.op \in 1 .. n /\ r.pending.op \notin ToSet(log)
  BY <1>8, <1>0, <1>n DEF Sound
<1>9. Served(db, keys)' /\ Sound(db, gens)' /\ (\A k \in keys : 0 < k /\ k <= gens)'
  BY <1>0, <1>8 DEF IInv, Served, Sound
<1>10. Logged'
  <2>1. \A o : o \in 1 .. ops => o \in 1 .. n
    BY <1>0, <1>n
  <2> QED
    BY <1>0, <1>5, <2>1 DEF IInv, Logged
<1>11. ASSUME NEW p \in inflight, Live(p) PROVE p.op # n /\ Computed(p, keys, gens)'
  <2>1. Computed(p, keys, gens)
    BY <1>11 DEF IInv, PutsOK
  <2>2. p.op # n
    BY <2>1, <1>0, <1>n DEF Computed, Applies
  <2>3. Served(p.val, keys)' /\ Sound(p.val, gens)'
    BY <2>1, <1>0, <1>8 DEF Computed, Served, Sound
  <2>4. p.op = 0 => Rewrites(p)'
    BY <2>1, <1>0, <1>6 DEF Computed, Rewrites
  <2>5. ASSUME p.op # 0 PROVE Applies(p)'
    <3>1. Applies(p)
      BY <2>1, <2>5 DEF Computed
    <3>2. p.op \in 1 .. n /\ p.op \in Ops
      BY <3>1, <1>0, <1>n DEF Applies, Ops
    <3>3. answer'[p.op] # "conflict" /\ (p.op \notin fresh' => p.op \notin fresh) /\ (p.op \in fresh => p.op \in fresh')
      BY <3>1, <3>2, <2>2, <1>6 DEF Applies
    <3> QED
      BY <3>1, <3>2, <3>3, <1>0 DEF Applies
  <2> QED
    BY <2>2, <2>3, <2>4, <2>5, <1>0, <1>5 DEF Computed
<1>12. PutsOK(keys, gens)'
  BY <1>0, <1>11 DEF IInv, PutsOK, Live
<1>13. ClientOK'
  <2>1. \A o \in Ops : o > n => answer'[o] = "none"
    <3>1. \A o \in Ops : o > n => o > ops /\ o # n
      BY <1>n, <1>0 DEF Ops
    <3> QED
      BY <3>1, <1>0, <1>6 DEF ClientOK
  <2>2. ASSUME c'.pc # "idle" PROVE c'.op = n /\ answer'[n] = "none" /\ ReqOK(c.mut, c.rev)'
    <3>1. m # NoMutation
      BY <1>0, <1>3, <2>2
    <3>2. c'.op = n /\ c'.mut = m /\ c'.rev = db.rev /\ answer' = answer
      BY <3>1, <1>3
    <3>3. answer[n] = "none"
      BY <1>0, <1>n DEF ClientOK
    <3>4. authority \in {"fresh", "migration"} => n \in fresh'
      BY <1>3
    <3>5. /\ db.rev <= db.rev
          /\ \A p \in inflight : Live(p) /\ p.op = n => FALSE
      BY <1>0, <1>11
    <3>6. ReqOK(c.mut, c.rev)'
      BY <3>1, <3>2, <3>4, <3>5, <1>0, <1>4 DEF ReqOK, Live, IsAuth
    <3> QED
      BY <3>2, <3>3, <3>6
  <2> QED
    BY <1>0, <1>n, <2>1, <2>2 DEF ClientOK
<1>14. HelperOK'
  BY <1>0 DEF HelperOK, Waiting
<1> QED
  BY <1>7, <1>9, <1>10, <1>12, <1>13, <1>14 DEF IInv

-----------------------------------------------------------------------------
(* Steps of the record. *)

\* When the record moves to its next revision every put on its way is dead.
LEMMA MovesHolds ==
    ASSUME IInv, TypeOK', UNCHANGED <<keys, gens, c, ops, fresh, answer>>,
           inflight' \subseteq inflight, db'.rev = db.rev + 1,
           Served(db, keys)', Sound(db, gens)', Logged',
           h'.pc = h.pc /\ h'.op = h.op /\ h'.mut = h.mut /\ h'.base = h.base /\ h'.key = h.key /\ h'.put = h.put,
           h.pc \in {"put", "stage"} /\ h.key # 0 =>
               /\ h.put \in inflight' => ~References(db', h.key)
               /\ h'.ack = "rejected" => ~References(db', h.key),
           h.pc = "repair" => ops \in ToSet(log') /\ (Same(db', h.put.val) \/ Last(log') # ops)
    PROVE  IInv'
<1>0. /\ TypeOK /\ ClientOK /\ HelperOK /\ db.rev \in Nat /\ c.rev \in Nat /\ h.base.rev \in Nat
      /\ \A p \in inflight : p.rev \in Nat /\ p.rev <= db.rev
  BY Types, RecordFields DEF IInv, PutsOK
<1>1. \A p \in inflight' : p.rev <= db'.rev /\ p.rev # db'.rev
  BY <1>0
<1>2. PutsOK(keys, gens)'
  BY <1>1 DEF PutsOK, Live
<1>3. ASSUME NEW m, NEW rev \in Nat, ReqOK(m, rev)
      PROVE  /\ rev <= db'.rev /\ rev # db'.rev /\ m.kind \in {"prefs", "auth", "import", "clear"}
             /\ IsAuth(m) <=> m.protection # "none"
             /\ m.protection = "fallback" => ops \in fresh
  BY <1>0, <1>3 DEF ReqOK
<1>4. ClientOK'
  <2>1. c.pc # "idle" => ReqOK(c.mut, c.rev)'
    BY <1>0, <1>1, <1>3 DEF ClientOK, ReqOK, Live, IsAuth
  <2> QED
    BY <1>0, <2>1 DEF ClientOK
<1>5. HelperOK'
  <2>1. h.pc \in {"commit", "reconcile"} => ReqOK(h.mut, h.base.rev)'
    BY <1>0, <1>1, <1>3 DEF HelperOK, ReqOK, Live, IsAuth
  <2>2. Waiting' <=> Waiting
    BY DEF Waiting
  <2>3. Waiting => WaitOK'
    <3> SUFFICES ASSUME Waiting PROVE WaitOK'
      OBVIOUS
    <3>1. WaitOK
      BY <1>0 DEF HelperOK
    <3>2. h.base.rev <= db'.rev /\ h.base.rev # db'.rev
      BY <3>1, <1>0 DEF WaitOK
    <3> QED
      BY <3>1, <3>2 DEF WaitOK, InLedger
  <2>4. Waiting => KeyOK'
    <3> SUFFICES ASSUME Waiting PROVE KeyOK'
      OBVIOUS
    <3>1. db'.rev # h.base.rev
      BY <1>0 DEF HelperOK, WaitOK
    <3> QED
      BY <1>1, <3>1 DEF KeyOK, References, Live
  <2>5. Waiting => RepairOK'
    BY <1>0, <1>1 DEF HelperOK, RepairOK, Live, InLedger
  <2> QED
    BY <1>0, <2>1, <2>2, <2>3, <2>4, <2>5 DEF HelperOK
<1> QED
  BY <1>2, <1>4, <1>5 DEF IInv

\* The record after a put that was live: the put that made a key is on its way only if another was
\* taken, which does not name the key.
LEMMA TakenMoves ==
    ASSUME IInv, NEW p \in inflight, Live(p), inflight' = inflight \ {p},
           h' = h \/ (Waiting /\ h.put = p /\ h' = [h EXCEPT !.ack = "ok"]),
           UNCHANGED <<keys, gens, cleanup, c, ops, fresh, answer, foreign, faults>>,
           db' \in Records, Len(db'.ledger) <= LEDGER_CAPACITY, log' \in Seq(Operations),
           db'.rev = db.rev + 1, db'.gen = p.val.gen, db'.pending = p.val.pending,
           Served(db, keys)', Sound(db, gens)', Logged',
           h.pc = "repair" => ops \in ToSet(log') /\ (Same(db', h.put.val) \/ Last(log') # ops)
    PROVE  IInv'
<1>0. TypeOK /\ HelperOK /\ h \in Requests
  BY DEF IInv, TypeOK
<1>1. /\ h' \in Requests /\ h'.pc = h.pc /\ h'.op = h.op /\ h'.mut = h.mut /\ h'.base = h.base
      /\ h'.key = h.key /\ h'.put = h.put
      /\ h'.ack = h.ack \/ h'.ack = "ok"
  BY <1>0 DEF Requests
<1>2. TypeOK'
  BY <1>0, <1>1 DEF TypeOK
<1>3. ASSUME h.pc \in {"put", "stage"}, h.key # 0
      PROVE  /\ h.put \in inflight' => ~References(db', h.key)
             /\ h'.ack = "rejected" => ~References(db', h.key)
  <2>1. Waiting /\ KeyOK
    BY <1>0, <1>3 DEF HelperOK, Waiting
  <2>2. h.ack # "rejected"
    BY <1>3, <2>1, MovedOn DEF KeyOK
  <2>3. h.put \in inflight' => ~References(p.val, h.key)
    BY <1>3, <2>1 DEF KeyOK
  <2> QED
    BY <1>1, <2>2, <2>3 DEF References
<1> QED
  BY <1>1, <1>2, <1>3, MovesHolds

\* DB8 takes the live put p.
LEMMA TakenHolds ==
    ASSUME IInv, NEW p \in inflight, Live(p), inflight' = inflight \ {p},
           db' = [p.val EXCEPT !.rev = db.rev + 1],
           log' = IF p.op # 0 THEN Append(log, p.op) ELSE log,
           h' = h \/ (Waiting /\ h.put = p /\ h' = [h EXCEPT !.ack = "ok"]),
           UNCHANGED <<keys, gens, cleanup, c, ops, fresh, answer, foreign, faults>>
    PROVE  IInv'
<1>0. /\ TypeOK /\ HelperOK /\ Computed(p, keys, gens) /\ p.val \in Records /\ p.op \in 0 .. MaxOps
      /\ db \in Records /\ db.rev \in Nat /\ Len(db.ledger) <= LEDGER_CAPACITY
      /\ log \in Seq(Operations) /\ ops \in Nat /\ foreign \in Nat /\ MaxOps \in Nat
  <2>1. TypeOK /\ HelperOK /\ Computed(p, keys, gens)
    BY DEF IInv, PutsOK
  <2>2. /\ p.val \in Records /\ p.op \in 0 .. MaxOps /\ db \in Records
        /\ ops \in Nat /\ foreign \in Nat /\ MaxOps \in Nat
    BY <2>1, Types, Consts
  <2>3. db.rev \in Nat
    BY <2>2, RecordFields
  <2> QED
    BY <2>1, <2>2, <2>3 DEF TypeOK
<1>1. /\ db' \in Records /\ db'.rev = db.rev + 1 /\ db'.gen = p.val.gen /\ db'.env = p.val.env
      /\ db'.pending = p.val.pending /\ db'.ledger = p.val.ledger
  <2>1. db.rev + 1 \in Nat
    BY <1>0
  <2> QED
    BY <2>1, <1>0 DEF Records, Revs
<1>4. h.pc = "repair" => ops \in ToSet(log') /\ (Same(db', h.put.val) \/ Last(log') # ops)
  <2> SUFFICES ASSUME h.pc = "repair" PROVE ops \in ToSet(log') /\ Same(db', h.put.val)
    OBVIOUS
  <2>1. ops \in ToSet(log) /\ p = h.put
    BY <1>0 DEF HelperOK, RepairOK, Waiting
  <2>2. log' = log
    BY <2>1, <1>0 DEF Computed
  <2>3. Same(db', p.val)
    BY <1>0 DEF Same, Records
  <2> QED
    BY <2>1, <2>2, <2>3
<1>2. CASE p.op # 0
  <2> DEFINE e == Last(p.val.ledger)
  <2>1. Applies(p) /\ p.op \in Operations /\ log' = Append(log, p.op)
    BY <1>0, <1>2, Consts DEF Computed, Operations
  <2>2. e \in Entries /\ e.op = p.op /\ db'.ledger = Receipt(db.ledger, e)
    <3>1. Len(p.val.ledger) \in Nat /\ Len(p.val.ledger) # 0
      BY <2>1, <1>0, RecordFields, EmptySeq DEF Applies
    <3>2. e = p.val.ledger[Len(p.val.ledger)]
      BY DEF Last
    <3>3. Len(p.val.ledger) \in 1 .. Len(p.val.ledger)
      BY <3>1
    <3>4. p.val.ledger[Len(p.val.ledger)] \in Entries
      BY <3>3, <1>0, RecordFields
    <3>5. e \in Entries
      BY <3>2, <3>4
    <3> QED
      BY <3>5, <1>1, <2>1 DEF Applies
  <2> HIDE DEF e
  <2> DEFINE l == db'.ledger
  <2>3. /\ Len(l) <= LEDGER_CAPACITY /\ Len(l) >= 1 /\ l[Len(l)] = e /\ Len(l) \in Nat
        /\ \A j \in 1 .. Len(l) : l[j] = e \/ \E i \in 1 .. Len(db.ledger) : l[j] = db.ledger[i]
    <3>1. db.ledger \in Seq(Entries)
      BY <1>0, RecordFields
    <3>2. Receipt(db.ledger, e) \in Seq(Entries)
      BY <1>0, <2>2, <3>1, ReceiptEntries
    <3>3. Len(l) \in Nat
      BY <2>2, <3>2, LenProperties
    <3> DEFINE x == Receipt(db.ledger, e)
    <3>4. /\ Len(x) <= LEDGER_CAPACITY /\ Len(x) >= 1 /\ x[Len(x)] = e
          /\ \A j \in 1 .. Len(x) : x[j] = e \/ \E i \in 1 .. Len(db.ledger) : x[j] = db.ledger[i]
      BY <1>0, <2>2, <3>1, ReceiptEntries
    <3>5. l = x
      BY <2>2
    <3> HIDE DEF l, x
    <3> QED
      BY <3>3, <3>4, <3>5
  <2>4. log' \in Seq(Operations) /\ ToSet(log') = ToSet(log) \cup {p.op}
    BY <1>0, <2>1, AppendMembers
  <2>5. Logged'
    <3>1. \A o \in ToSet(log') : o \in 1 .. ops \/ o \in MaxOps + 1 .. MaxOps + foreign
      BY <2>1, <2>4 DEF IInv, Logged, Applies
    <3>2. ASSUME NEW j \in 1 .. Len(l) PROVE l[j].op \in ToSet(log')
      BY <2>2, <2>3, <2>4 DEF IInv, Logged
    <3>3. ASSUME ops \in ToSet(log') PROVE \E i \in 1 .. Len(l) : l[i].op = ops /\ Len(l) - i <= foreign
      <4>1. p.op = ops
        BY <3>3, <2>4, <1>0, <1>2 DEF Computed
      <4>2. Len(l) \in 1 .. Len(l) /\ Len(l) - Len(l) <= foreign
        BY <2>3, <1>0
      <4> QED
        BY <4>1, <4>2, <2>2, <2>3
    <3> QED
      BY <3>1, <3>2, <3>3 DEF Logged
  <2> QED
    <3>1. Served(db, keys)' /\ Sound(db, gens)'
      BY <1>0, <1>1, <2>1 DEF Computed, Served, Sound, Applies
    <3> HIDE DEF l
    <3>2. Len(db'.ledger) <= LEDGER_CAPACITY
      BY <2>3 DEF l
    <3> QED
      BY <1>0, <1>1, <1>4, <2>4, <2>5, <3>1, <3>2, TakenMoves
<1>3. CASE p.op = 0
  <2>1. Rewrites(p) /\ log' = log /\ db'.ledger = db.ledger
    BY <1>0, <1>1, <1>3 DEF Computed, Rewrites
  <2>2. Logged'
    BY <2>1 DEF IInv, Logged
  <2>3. Served(db, keys)' /\ Sound(db, gens)'
    BY <1>0, <1>1, <2>1 DEF Computed, Served, Sound
  <2>4. log' \in Seq(Operations) /\ Len(db'.ledger) <= LEDGER_CAPACITY
    BY <1>0, <2>1
  <2> QED
    BY <1>0, <1>1, <1>4, <2>2, <2>3, <2>4, TakenMoves
<1> QED
  BY <1>2, <1>3

\* A put computed from an older revision is rejected.
LEMMA RejectedHolds ==
    ASSUME IInv, NEW p \in inflight, ~Live(p), inflight' = inflight \ {p},
           h' = h \/ (Waiting /\ h.put = p /\ h' = [h EXCEPT !.ack = "rejected"]),
           UNCHANGED <<db, log, keys, gens, cleanup, c, ops, fresh, answer, foreign, faults>>
    PROVE  IInv'
<1>0. TypeOK /\ ClientOK /\ HelperOK /\ h \in Requests
  BY DEF IInv, TypeOK
<1>1. /\ h' \in Requests /\ h'.pc = h.pc /\ h'.op = h.op /\ h'.mut = h.mut /\ h'.base = h.base
      /\ h'.key = h.key /\ h'.put = h.put
      /\ h'.ack = h.ack \/ (Waiting /\ h.put = p /\ h'.ack = "rejected")
  BY <1>0 DEF Requests
<1>2. TypeOK'
  BY <1>0, <1>1 DEF TypeOK
<1>3. /\ Served(db, keys)' /\ Sound(db, gens)' /\ (\A k \in keys : 0 < k /\ k <= gens)' /\ Logged'
  BY DEF IInv, Served, Sound, Logged
<1>4. PutsOK(keys, gens)'
  <2>1. ASSUME NEW q \in inflight, Live(q) PROVE Computed(q, keys, gens)'
    BY <2>1 DEF IInv, PutsOK, Computed, Served, Sound, Rewrites, Applies
  <2> QED
    BY <2>1 DEF IInv, PutsOK, Live
<1>5. ClientOK'
  BY <1>0 DEF ClientOK, ReqOK, Live, Accepts, IsAuth
<1>6. HelperOK'
  <2>1. Waiting' <=> Waiting
    BY <1>1 DEF Waiting
  <2>2. Waiting => WaitOK'
    BY <1>0, <1>1 DEF HelperOK, WaitOK, InLedger
  <2>3. Waiting => KeyOK'
    <3> SUFFICES ASSUME Waiting, h.pc \in {"put", "stage"}, h.key # 0
                 PROVE  /\ h.put \in inflight' =>
                              /\ ~References(db, h.key)
                              /\ \A q \in inflight' : Live(q) /\ q # h.put => ~References(q.val, h.key)
                        /\ h'.ack = "rejected" => ~References(db, h.key) /\ db.rev # h.base.rev
      BY <1>1 DEF KeyOK, References, Live
    <3>1. KeyOK /\ WaitOK
      BY <1>0 DEF HelperOK
    <3>2. CASE h'.ack = h.ack
      BY <3>1, <3>2 DEF KeyOK
    <3>3. CASE h.put = p
      BY <3>1, <3>3 DEF KeyOK, WaitOK, Live
    <3> QED
      BY <1>1, <3>2, <3>3
  <2>4. h.pc \in {"commit", "reconcile"} => ReqOK(h.mut, h.base.rev)'
    BY <1>0, <1>1 DEF HelperOK, ReqOK, Live, Accepts, IsAuth
  <2>5. Waiting => RepairOK'
    BY <1>0, <1>1 DEF HelperOK, RepairOK, InLedger, Live, Same
  <2> QED
    BY <1>0, <1>1, <2>1, <2>2, <2>3, <2>4, <2>5 DEF HelperOK
<1> QED
  BY <1>2, <1>3, <1>4, <1>5, <1>6 DEF IInv

\* DB8 takes a put of its own revision, whoever still waits for it.
LEMMA LandsHolds == IInv /\ Lands => IInv'
<1> SUFFICES ASSUME IInv, Lands PROVE IInv'
  OBVIOUS
<1>a. PICK p \in inflight :
        \E replied \in IF Waiting /\ h.put = p /\ h.ack = "none" THEN BOOLEAN ELSE {FALSE} :
        LET taken == p.rev = db.rev
        IN  /\ inflight' = inflight \ {p}
            /\ db' = IF taken THEN [p.val EXCEPT !.rev = db.rev + 1] ELSE db
            /\ log' = IF taken /\ p.op # 0 THEN Append(log, p.op) ELSE log
            /\ h' = IF replied
                    THEN [h EXCEPT !.ack = IF taken THEN "ok" ELSE "rejected"]
                    ELSE h
            /\ UNCHANGED <<keys, gens, cleanup, c, ops, fresh, answer, foreign, faults>>
  BY DEF Lands
<1>1. PICK replied \in IF Waiting /\ h.put = p /\ h.ack = "none" THEN BOOLEAN ELSE {FALSE} :
        LET taken == p.rev = db.rev
        IN  /\ inflight' = inflight \ {p}
            /\ db' = IF taken THEN [p.val EXCEPT !.rev = db.rev + 1] ELSE db
            /\ log' = IF taken /\ p.op # 0 THEN Append(log, p.op) ELSE log
            /\ h' = IF replied
                    THEN [h EXCEPT !.ack = IF taken THEN "ok" ELSE "rejected"]
                    ELSE h
            /\ UNCHANGED <<keys, gens, cleanup, c, ops, fresh, answer, foreign, faults>>
  BY <1>a
<1>2. replied => Waiting /\ h.put = p
  BY <1>1
<1>3. CASE Live(p)
  <2>1. /\ inflight' = inflight \ {p} /\ db' = [p.val EXCEPT !.rev = db.rev + 1]
        /\ log' = (IF p.op # 0 THEN Append(log, p.op) ELSE log)
        /\ h' = h \/ (Waiting /\ h.put = p /\ h' = [h EXCEPT !.ack = "ok"])
        /\ UNCHANGED <<keys, gens, cleanup, c, ops, fresh, answer, foreign, faults>>
    BY <1>1, <1>2, <1>3 DEF Live
  <2> QED
    BY <1>3, <2>1, TakenHolds
<1>4. CASE ~Live(p)
  <2>1. /\ inflight' = inflight \ {p} /\ db' = db /\ log' = log
        /\ h' = h \/ (Waiting /\ h.put = p /\ h' = [h EXCEPT !.ack = "rejected"])
        /\ UNCHANGED <<keys, gens, cleanup, c, ops, fresh, answer, foreign, faults>>
    BY <1>1, <1>2, <1>4 DEF Live
  <2> QED
    BY <1>4, <2>1, RejectedHolds
<1> QED
  BY <1>3, <1>4

\* Another writer adds a receipt of its own.
LEMMA ForeignWriteHolds == IInv /\ ForeignWrite => IInv'
<1> SUFFICES ASSUME IInv, ForeignWrite PROVE IInv'
  OBVIOUS
<1> DEFINE o == MaxOps + foreign + 1
           w == WithReceipt(db, o, FALSE)
           e == [op |-> o, gen |-> db.gen, auth |-> FALSE]
<1>0. /\ TypeOK /\ HelperOK /\ db \in Records /\ Len(db.ledger) <= LEDGER_CAPACITY /\ log \in Seq(Operations)
      /\ ops \in Nat /\ ops <= MaxOps /\ foreign \in Nat /\ faults \in Nat /\ foreign <= faults
      /\ faults < MaxFaults /\ faults' = faults + 1 /\ MaxOps \in Nat /\ MaxFaults \in Nat
  <2>1. TypeOK /\ HelperOK /\ faults < MaxFaults /\ faults' = faults + 1
    BY DEF IInv, ForeignWrite, Fault
  <2> QED
    BY <2>1, Types, Consts DEF TypeOK
<1>1. /\ foreign' = foreign + 1 /\ db' = [w EXCEPT !.rev = @ + 1] /\ log' = Append(log, o)
      /\ UNCHANGED <<inflight, keys, gens, h, cleanup, c, ops, fresh, answer>>
  BY DEF ForeignWrite
<1>2. /\ o \in Operations /\ o \in MaxOps + 1 .. MaxOps + foreign' /\ o # ops /\ o = MaxOps + foreign + 1
      /\ \A x \in MaxOps + 1 .. MaxOps + foreign : x \in MaxOps + 1 .. MaxOps + foreign'
  <2>1. foreign' = foreign + 1 /\ foreign + 1 <= MaxFaults /\ o = MaxOps + foreign + 1
    BY <1>0, <1>1
  <2> HIDE DEF o
  <2>2. o \in MaxOps + 1 .. MaxOps + foreign' /\ o \in 1 .. MaxOps + MaxFaults
    BY <2>1, <1>0
  <2>3. o # ops
    BY <2>1, <1>0
  <2>4. \A x \in MaxOps + 1 .. MaxOps + foreign : x \in MaxOps + 1 .. MaxOps + foreign'
    BY <2>1, <1>0
  <2> QED
    BY <2>1, <2>2, <2>3, <2>4 DEF Operations
<1>3. db.rev \in Nat /\ db.gen \in Nat /\ db.pending.gen \in Nat /\ db.ledger \in Seq(Entries)
      /\ Len(db.ledger) \in Nat
  BY <1>0, RecordFields
<1> HIDE DEF o
<1>4. /\ w \in Records /\ w.rev = db.rev /\ w.gen = db.gen /\ w.env = db.env /\ w.pending = NoPending
      /\ w.ledger = Receipt(db.ledger, e)
  <2>1. FALSE \in BOOLEAN
    OBVIOUS
  <2> QED
    BY <2>1, <1>0, <1>2, ReceiptFields, Zenon
<1>5. e \in Entries /\ e.op = o
  BY <1>2, <1>3 DEF Entries, Gens
<1> HIDE DEF w, e
<1>6. /\ db' \in Records /\ db'.rev = db.rev + 1 /\ db'.gen = db.gen /\ db'.env = db.env
      /\ db'.pending = NoPending /\ db'.ledger = Receipt(db.ledger, e)
  <2>1. db.rev + 1 \in Nat
    BY <1>3
  <2> QED
    BY <2>1, <1>1, <1>4 DEF Records, Revs
<1> DEFINE l == db'.ledger
<1>7. /\ Len(l) <= LEDGER_CAPACITY /\ Len(l) \in Nat
      /\ \A j \in 1 .. Len(l) : l[j] = e \/ \E i \in 1 .. Len(db.ledger) : l[j] = db.ledger[i]
      /\ \A i \in 1 .. Len(db.ledger) : Len(db.ledger) - i < MaxFaults =>
             \E j \in 1 .. Len(l) : l[j] = db.ledger[i] /\ Len(l) - j = Len(db.ledger) - i + 1
  <2>1. Len(l) \in Nat
    BY <1>6, RecordFields
  <2> DEFINE x == Receipt(db.ledger, e)
  <2>2. /\ Len(x) <= LEDGER_CAPACITY
        /\ \A j \in 1 .. Len(x) : x[j] = e \/ \E i \in 1 .. Len(db.ledger) : x[j] = db.ledger[i]
        /\ \A i \in 1 .. Len(db.ledger) : Len(db.ledger) - i < MaxFaults =>
               \E j \in 1 .. Len(x) : x[j] = db.ledger[i] /\ Len(x) - j = Len(db.ledger) - i + 1
    BY <1>0, <1>3, <1>5, ReceiptEntries
  <2>3. l = x
    BY <1>6
  <2> HIDE DEF l, x
  <2> QED
    BY <2>1, <2>2, <2>3
<1>8. log' \in Seq(Operations) /\ ToSet(log') = ToSet(log) \cup {o}
  BY <1>0, <1>1, <1>2, AppendMembers
<1>9. Logged'
  <2>1. \A x \in ToSet(log') : x \in 1 .. ops \/ x \in MaxOps + 1 .. MaxOps + foreign'
    BY <1>2, <1>8 DEF IInv, Logged
  <2>2. ASSUME NEW j \in 1 .. Len(l) PROVE l[j].op \in ToSet(log')
    BY <1>5, <1>7, <1>8 DEF IInv, Logged
  <2>3. ASSUME ops \in ToSet(log') PROVE \E j \in 1 .. Len(l) : l[j].op = ops /\ Len(l) - j <= foreign'
    <3>1. ops \in ToSet(log)
      BY <2>3, <1>2, <1>8
    <3>2. PICK i \in 1 .. Len(db.ledger) : db.ledger[i].op = ops /\ Len(db.ledger) - i <= foreign
      BY <3>1 DEF IInv, Logged
    <3>3. Len(db.ledger) - i < MaxFaults
      BY <3>2, <1>0, <1>3
    <3>4. PICK j \in 1 .. Len(l) : l[j] = db.ledger[i] /\ Len(l) - j = Len(db.ledger) - i + 1
      BY <3>3, <1>7
    <3>5. Len(l) - j <= foreign'
      <4>1. foreign' = foreign + 1 /\ Len(db.ledger) - i <= foreign
            /\ Len(l) - j = Len(db.ledger) - i + 1
        BY <3>2, <3>4, <1>1
      <4>2. i \in Int /\ Len(db.ledger) \in Int /\ foreign \in Int
        BY <1>0, <1>3, <3>2
      <4> QED
        BY <4>1, <4>2, SMTT(30)
    <3> QED
      BY <3>2, <3>4, <3>5
  <2> HIDE DEF l
  <2>4. ops' = ops /\ l = db'.ledger
    BY <1>1 DEF l
  <2> QED
    BY <2>1, <2>2, <2>3, <2>4 DEF Logged
<1> HIDE DEF l
<1>10. TypeOK'
  <2>1. Len(db'.ledger) <= LEDGER_CAPACITY
    BY <1>7 DEF l
  <2>2. faults' \in 0 .. MaxFaults /\ foreign' \in 0 .. faults'
    BY <1>0, <1>1
  <2> QED
    BY <1>0, <1>1, <1>6, <1>8, <2>1, <2>2 DEF TypeOK
<1>11. Served(db, keys)' /\ Sound(db, gens)'
  <2>1. NoPending.gen = 0 /\ gens \in Nat
    BY <1>0, Types DEF NoPending
  <2> QED
    BY <2>1, <1>1, <1>3, <1>6 DEF IInv, Served, Sound
<1>12. ASSUME h.pc \in {"put", "stage"}, h.key # 0
       PROVE  /\ h.put \in inflight' => ~References(db', h.key)
              /\ h'.ack = "rejected" => ~References(db', h.key)
  BY <1>0, <1>1, <1>6, <1>12 DEF HelperOK, Waiting, KeyOK, References
<1>13. h.pc = "repair" => ops \in ToSet(log') /\ Last(log') # ops
  <2>1. Last(log') = o
    BY <1>0, <1>1, <1>2, AppendMembers DEF Last
  <2> QED
    BY <1>0, <1>2, <1>8, <2>1 DEF HelperOK, RepairOK, Waiting
<1> QED
  BY <1>1, <1>6, <1>9, <1>10, <1>11, <1>12, <1>13, MovesHolds

-----------------------------------------------------------------------------
(* The theorems. *)

\* Every step preserves the invariant.
LEMMA StepHolds == IInv /\ [Next]_vars => IInv'
<1> SUFFICES ASSUME IInv, [Next]_vars PROVE IInv'
  OBVIOUS
<1>1. CASE UNCHANGED vars
  <2>1. /\ UNCHANGED <<db, inflight, keys, gens, ops, fresh, foreign, log>>
        /\ UNCHANGED <<h, cleanup, c, answer, faults>>
    BY <1>1 DEF vars
  <2>2. TypeOK'
    BY <2>1 DEF IInv, TypeOK
  <2> QED
    BY <2>1, <2>2, AsideHolds
<1>2. CASE Helper
  BY <1>2, FindsPendingHolds, FindsAppliedHolds, ReconcileUnknownHolds, CommitConflictsHolds,
     CommitRefusedHolds, CommitPutsHolds, CommitReadsBackHolds, RepairReadsBackHolds,
     StageReadsBackHolds, PromoteReadsBackHolds, TimesOutHolds DEF Helper
<1> QED
  BY <1>1, <1>2, SubmitHolds, ClientHolds, LoadFailsHolds, ReadbackFailsHolds, LandsHolds,
     ForeignWriteHolds DEF Next

\* The inductive invariant holds of every behaviour.
LEMMA Invariant == Spec => []IInv
BY InitHolds, StepHolds, PTL DEF Spec

\* Whatever puts are lost, late or without an acknowledgement and whichever process dies, the
\* credentials the record names have their key and the ledger stays within its length
\* (backend.rs: a key goes only after a rejection or an exact readback).
THEOREM ServiceIsSafe == Spec => []StorageServiceSafe
<1>1. IInv => StorageServiceSafe
  BY DEF IInv, Served, StorageServiceSafe, KeysOfTheRecordExist
<1> QED
  BY <1>1, Invariant, PTL

\* Only DB8 taking a live put, or a foreign write, changes the record.
LEMMA RecordMoves ==
    ASSUME IInv, [Next]_vars
    PROVE  \/ UNCHANGED <<db, log>>
           \/ UNCHANGED fresh /\ UNCHANGED answer /\ \E p \in inflight :
                 /\ Live(p) /\ Computed(p, keys, gens) /\ p.val \in Records
                 /\ db' = [p.val EXCEPT !.rev = db.rev + 1]
                 /\ log' = IF p.op # 0 THEN Append(log, p.op) ELSE log
           \/ ForeignWrite
<1>1. CASE Lands
  <2>1. PICK p \in inflight :
            /\ p.rev = db.rev => /\ db' = [p.val EXCEPT !.rev = db.rev + 1]
                                 /\ log' = IF p.op # 0 THEN Append(log, p.op) ELSE log
            /\ p.rev # db.rev => UNCHANGED <<db, log>>
            /\ UNCHANGED fresh /\ UNCHANGED answer
    BY <1>1 DEF Lands
  <2>2. p.val \in Records /\ (Live(p) => Computed(p, keys, gens))
    BY Types DEF IInv, PutsOK
  <2> QED
    BY <2>1, <2>2 DEF Live
<1>2. CASE UNCHANGED vars
  BY <1>2 DEF vars
<1>3. CASE Submit \/ GivesUp \/ Resubmit \/ Accept \/ HelperDies \/ AppDies
  BY <1>3 DEF Submit, GivesUp, Resubmit, Accept, HelperDies, AppDies
<1>4. CASE LoadFails \/ ReadbackFails \/ Helper
  BY <1>4 DEF LoadFails, ReadbackFails, Helper, FindsPending, FindsApplied, ReconcileUnknown,
     CommitConflicts, CommitRefused, CommitPuts, CommitReadsBack, RepairReadsBack, StageReadsBack,
     PromoteReadsBack, TimesOut, unchangedHelper
<1> QED
  BY <1>1, <1>2, <1>3, <1>4 DEF Next

\* The record after a live put.
LEMMA TakenFields ==
    ASSUME IInv, NEW p \in inflight, Computed(p, keys, gens), p.val \in Records,
           db' = [p.val EXCEPT !.rev = db.rev + 1]
    PROVE  /\ db'.gen = p.val.gen /\ db'.env = p.val.env /\ db'.ledger = p.val.ledger
           /\ p.op = 0 => db'.ledger = db.ledger
           /\ p.op # 0 => /\ Last(db'.ledger).op = p.op
                          /\ \E e \in Entries : db'.ledger = Receipt(db.ledger, e)
<1>1. db'.gen = p.val.gen /\ db'.env = p.val.env /\ db'.ledger = p.val.ledger
  BY DEF Records
<1>2. p.op = 0 => db'.ledger = db.ledger
  BY <1>1 DEF Computed, Rewrites
<1>3. ASSUME p.op # 0 PROVE Last(db'.ledger).op = p.op /\ \E e \in Entries : db'.ledger = Receipt(db.ledger, e)
  <2>1. Applies(p)
    BY <1>3 DEF Computed
  <2>2. Len(p.val.ledger) \in Nat /\ Len(p.val.ledger) # 0
    BY <2>1, RecordFields, EmptySeq DEF Applies
  <2>3. Len(p.val.ledger) \in 1 .. Len(p.val.ledger)
    BY <2>2
  <2>4. p.val.ledger[Len(p.val.ledger)] \in Entries
    BY <2>3, RecordFields
  <2>5. Last(p.val.ledger) \in Entries
    BY <2>4 DEF Last
  <2> QED
    BY <1>1, <2>1, <2>5 DEF Applies
<1> QED
  BY <1>1, <1>2, <1>3

\* The record after a foreign write.
LEMMA ForeignFields ==
    ASSUME IInv, ForeignWrite
    PROVE  /\ db'.gen = db.gen /\ db'.env = db.env
           /\ \E e \in Entries : db'.ledger = Receipt(db.ledger, e)
           /\ log' = Append(log, MaxOps + foreign + 1) /\ UNCHANGED answer
           /\ MaxOps + foreign + 1 \in Operations /\ MaxOps + foreign + 1 \notin Ops
           /\ MaxOps + foreign + 1 \notin ToSet(log)
<1> DEFINE o == MaxOps + foreign + 1
           w == WithReceipt(db, o, FALSE)
           e == [op |-> o, gen |-> db.gen, auth |-> FALSE]
<1>0. /\ TypeOK /\ db \in Records /\ Len(db.ledger) <= LEDGER_CAPACITY /\ MaxOps \in Nat /\ MaxFaults \in Nat
      /\ foreign \in Nat /\ faults \in Nat /\ foreign <= faults /\ faults < MaxFaults
      /\ ops \in Nat /\ ops <= MaxOps
  <2>1. TypeOK /\ faults < MaxFaults
    BY DEF IInv, ForeignWrite, Fault
  <2> QED
    BY <2>1, Types, Consts DEF TypeOK
<1>1. db' = [w EXCEPT !.rev = @ + 1] /\ log' = Append(log, o) /\ UNCHANGED answer
  BY DEF ForeignWrite
<1>2. o \in Operations /\ o \notin Ops /\ o \notin 1 .. ops /\ o \notin MaxOps + 1 .. MaxOps + foreign
  BY <1>0 DEF Operations, Ops
<1>3. o \notin ToSet(log)
  BY <1>2 DEF IInv, Logged
<1>4. e \in Entries
  BY <1>0, <1>2, RecordFields DEF Entries, Gens
<1>5. w \in Records /\ w.gen = db.gen /\ w.env = db.env /\ w.ledger = Receipt(db.ledger, e)
  <2>1. FALSE \in BOOLEAN
    OBVIOUS
  <2> HIDE DEF o
  <2> QED
    BY <2>1, <1>0, <1>2, ReceiptFields, Zenon
<1> HIDE DEF w, e
<1>6. db'.gen = w.gen /\ db'.env = w.env /\ db'.ledger = w.ledger
  BY <1>1, <1>5 DEF Records
<1>7. db'.gen = db.gen /\ db'.env = db.env /\ \E x \in Entries : db'.ledger = Receipt(db.ledger, x)
  BY <1>4, <1>5, <1>6
<1> QED
  BY <1>1, <1>2, <1>3, <1>7

\* A put computed from an older record is never taken, so no update is lost: the ledger of the next
\* record is the old one with at most one receipt more (DB8 revisions, state.rs).
THEOREM UpdatesAreKept == Spec => NoUpdateIsLost
<1> DEFINE A == db' # db =>
                  \/ db'.ledger = db.ledger
                  \/ \E e \in ToSet(db'.ledger) :
                         db'.ledger \in {Append(db.ledger, e), Tail(Append(db.ledger, e))}
<1>1. ASSUME IInv, [Next]_vars PROVE A
  <2>0. db \in Records /\ db.ledger \in Seq(Entries) /\ Len(db.ledger) <= LEDGER_CAPACITY
    <3>1. db \in Records /\ Len(db.ledger) <= LEDGER_CAPACITY
      BY <1>1 DEF IInv, TypeOK
    <3> QED
      BY <3>1, RecordFields
  <2>1. ASSUME NEW e \in Entries, db'.ledger = Receipt(db.ledger, e)
        PROVE  /\ e \in ToSet(db'.ledger)
               /\ db'.ledger \in {Append(db.ledger, e), Tail(Append(db.ledger, e))}
    <3> DEFINE x == Receipt(db.ledger, e)
    <3>1. /\ x \in Seq(Entries) /\ Len(x) >= 1 /\ x[Len(x)] = e
          /\ x \in {Append(db.ledger, e), Tail(Append(db.ledger, e))}
      BY <2>0, ReceiptEntries
    <3>2. x = db'.ledger
      BY <2>1
    <3> HIDE DEF x
    <3>3. Len(x) \in Nat /\ ToSet(x) = {x[i] : i \in 1 .. Len(x)}
      BY <3>1, Members
    <3>4. Len(x) \in 1 .. Len(x)
      BY <3>1, <3>3
    <3>5. e \in ToSet(x)
      BY <3>1, <3>3, <3>4
    <3> QED
      BY <3>1, <3>2, <3>5
  <2>2. CASE UNCHANGED <<db, log>>
    BY <2>2
  <2>3. ASSUME NEW p \in inflight, Computed(p, keys, gens), p.val \in Records,
               db' = [p.val EXCEPT !.rev = db.rev + 1]
        PROVE  A
    BY <1>1, <2>1, <2>3, TakenFields
  <2>4. CASE ForeignWrite
    BY <1>1, <2>1, <2>4, ForeignFields
  <2> QED
    BY <1>1, <2>2, <2>3, <2>4, RecordMoves
<1>2. IInv /\ [Next]_vars => [A]_vars
  BY <1>1
<1> QED
  BY <1>2, Invariant, PTL DEF Spec, NoUpdateIsLost

\* Sealed credentials become plain only through the operation of a fresh sign-in or an import, and
\* a routine refresh becomes active only out of its staged form (protection_for_auth_write,
\* stage_strict, finish_pending, retry_readback_acl).
THEOREM CredentialsStayProtected == Spec => ProtectionIsKept
<1> DEFINE A == db.env = "km" /\ db'.env = "acl" => Last(db'.ledger).op \in fresh
           B == db'.gen # db.gen /\ db'.env = "km" /\ Last(db'.ledger).op \notin fresh
                  => db.pending = [op |-> Last(db'.ledger).op, gen |-> db'.gen]
<1>1. ASSUME IInv, [Next]_vars PROVE A /\ B
  <2>1. CASE UNCHANGED <<db, log>>
    BY <2>1
  <2>2. ASSUME NEW p \in inflight, Computed(p, keys, gens), p.val \in Records,
               db' = [p.val EXCEPT !.rev = db.rev + 1]
        PROVE  A /\ B
    <3>1. /\ db'.gen = p.val.gen /\ db'.env = p.val.env
          /\ p.op = 0 => db'.ledger = db.ledger
          /\ p.op # 0 => Last(db'.ledger).op = p.op
      BY <1>1, <2>2, TakenFields
    <3>2. CASE p.op = 0
      BY <2>2, <3>1, <3>2 DEF Computed, Rewrites
    <3>3. CASE p.op # 0
      BY <2>2, <3>1, <3>3 DEF Computed, Applies
    <3> QED
      BY <3>2, <3>3
  <2>3. CASE ForeignWrite
    BY <1>1, <2>3, ForeignFields
  <2> QED
    BY <1>1, <2>1, <2>2, <2>3, RecordMoves
<1>2. IInv /\ [Next]_vars => [A]_vars /\ [B]_vars
  BY <1>1
<1> QED
  BY <1>2, Invariant, PTL DEF Spec, ProtectionIsKept, RoutineNeverWeakens, PromotedFromStage

-----------------------------------------------------------------------------
(* The service implements StorageSpec. *)

\* A step in which no operation is taken and at most one caller is told something, the truth.
Tells ==
    /\ log' = log
    /\ \/ answer' = answer
       \/ \E o \in Ops, a \in Answers \ {"none"} :
              /\ answer[o] = "none" /\ answer' = [answer EXCEPT ![o] = a]
              /\ a = "durable" => o \in ToSet(log)
              /\ a = "conflict" => o \notin ToSet(log) \/ Last(log) # o

\* What a reply tells the client is so.
LEMMA AnswerTells ==
    ASSUME IInv, NEW a \in Answers \ {"none"}, Answer(a), log' = log,
           a = "durable" => ops \in ToSet(log),
           a = "conflict" => ops \notin ToSet(log) \/ Last(log) # ops
    PROVE  Tells
<1>1. CASE c.pc \in {"commit_sent", "reconcile_sent"}
  <2>1. c.op = ops /\ answer[ops] = "none" /\ ops \in Ops /\ answer' = [answer EXCEPT ![ops] = a]
    BY <1>1, Types DEF Answer, IInv, ClientOK
  <2> QED
    BY <2>1 DEF Tells
<1>2. CASE c.pc \notin {"commit_sent", "reconcile_sent"}
  BY <1>2 DEF Answer, Tells
<1> QED
  BY <1>1, <1>2

\* finish_pending tells nothing, or that the old credentials stay.
LEMMA FinishTells ==
    ASSUME IInv, NEW ks, FinishPending(db, ks), log' = log
    PROVE  Tells
<1>1. Answer("preserved") \/ UNCHANGED <<c, answer>>
  BY DEF FinishPending
<1>2. "preserved" \in Answers \ {"none"} /\ "preserved" \notin {"durable", "conflict"}
  BY DEF Answers
<1>3. CASE Answer("preserved")
  BY <1>2, <1>3, AnswerTells
<1>4. CASE UNCHANGED <<c, answer>>
  BY <1>4 DEF Tells
<1> QED
  BY <1>1, <1>3, <1>4

\* Every answer of the helper is true: what it calls durable is in the ledger it has just read, and
\* what it calls a conflict is not there, or is there behind a repair that another write overtook.
LEMMA HelperTells == IInv /\ (LoadFails \/ ReadbackFails \/ Helper) => Tells
<1> SUFFICES ASSUME IInv, LoadFails \/ ReadbackFails \/ Helper PROVE Tells
  OBVIOUS
<1> USE DEF unchangedHelper
<1>0. /\ {"durable", "conflict", "uncertain", "preserved", "failed"} \subseteq Answers \ {"none"}
      /\ h.pc # "idle" => h.op = ops
  BY DEF Answers, IInv, HelperOK
<1>1. CASE LoadFails
  BY <1>0, <1>1, AnswerTells DEF LoadFails
<1>2. CASE ReadbackFails
  BY <1>0, <1>2, AnswerTells DEF ReadbackFails
<1>3. CASE FindsPending
  BY <1>3, FinishTells DEF FindsPending
<1>4. CASE FindsApplied
  <2>1. InLedger(db, ops) /\ log' = log /\ (Answer("uncertain") \/ Answer("durable"))
    BY <1>0, <1>4 DEF FindsApplied
  <2> QED
    BY <1>0, <2>1, LedgerKnows, AnswerTells
<1>5. CASE ReconcileUnknown
  BY <1>0, <1>5, AnswerTells DEF ReconcileUnknown
<1>6. CASE CommitConflicts
  <2>1. ~InLedger(db, ops) /\ log' = log /\ Answer("conflict")
    BY <1>0, <1>6 DEF CommitConflicts, FreshCommit
  <2> QED
    BY <1>0, <2>1, LedgerKnows, AnswerTells
<1>7. CASE CommitRefused
  <2>1. log' = log /\ (Answer("failed") \/ Answer("preserved"))
    BY <1>7 DEF CommitRefused
  <2> QED
    BY <1>0, <2>1, AnswerTells
<1>8. CASE CommitPuts
  BY <1>8 DEF CommitPuts, Tells
<1>9. CASE CommitReadsBack
  <2>0. h.op = ops /\ log' = log
    BY <1>0, <1>9 DEF CommitReadsBack
  <2>1. CASE ~InLedger(db, ops)
    <3>1. Answer(NotFound)
      BY <2>0, <2>1, <1>9 DEF CommitReadsBack
    <3>2. NotFound \in {"conflict", "uncertain"}
      BY DEF NotFound
    <3> QED
      BY <1>0, <2>0, <2>1, <3>1, <3>2, LedgerKnows, AnswerTells
  <2>2. CASE InLedger(db, ops)
    <3>1. Answer("durable") \/ Answer("uncertain") \/ UNCHANGED <<c, answer>>
      BY <2>0, <2>2, <1>9 DEF CommitReadsBack
    <3>2. CASE UNCHANGED <<c, answer>>
      BY <2>0, <3>2 DEF Tells
    <3> QED
      BY <1>0, <2>0, <2>2, <3>1, <3>2, LedgerKnows, AnswerTells
  <2> QED
    BY <2>1, <2>2
<1>10. CASE RepairReadsBack
  <2>1. h.pc = "repair" /\ Waiting /\ log' = log
    BY <1>10 DEF RepairReadsBack, Waiting
  <2>2. CASE Same(db, h.put.val)
    <3>1. Answer("durable") /\ ops \in ToSet(log)
      BY <1>10, <2>1, <2>2, ReadBack DEF RepairReadsBack
    <3> QED
      BY <1>0, <2>1, <3>1, AnswerTells
  <2>3. CASE ~Same(db, h.put.val)
    <3>1. CASE db.rev # h.base.rev
      <4>1. Answer("conflict")
        BY <1>10, <2>3, <3>1 DEF RepairReadsBack
      <4>2. Last(log) # ops
        BY <2>1, <2>3, <3>1 DEF IInv, HelperOK, RepairOK
      <4> QED
        BY <1>0, <2>1, <4>1, <4>2, AnswerTells
    <3>2. CASE db.rev = h.base.rev
      <4>1. Answer("uncertain")
        BY <1>10, <2>3, <3>2 DEF RepairReadsBack
      <4> QED
        BY <1>0, <2>1, <4>1, AnswerTells
    <3> QED
      BY <3>1, <3>2
  <2> QED
    BY <2>2, <2>3
<1>11. CASE StageReadsBack
  <2>1. log' = log /\ (Answer("uncertain") \/ \E ks : FinishPending(db, ks))
    BY <1>11 DEF StageReadsBack
  <2> QED
    BY <1>0, <2>1, FinishTells, AnswerTells
<1>12. CASE PromoteReadsBack
  <2>1. h.pc = "promote" /\ Waiting /\ log' = log
    BY <1>12 DEF PromoteReadsBack, Waiting
  <2>2. CASE Same(db, h.put.val)
    <3>1. Answer("durable") /\ ops \in ToSet(log)
      BY <1>12, <2>1, <2>2, ReadBack DEF PromoteReadsBack
    <3> QED
      BY <1>0, <2>1, <3>1, AnswerTells
  <2>3. CASE ~Same(db, h.put.val)
    <3>1. Answer("uncertain")
      BY <1>12, <2>3 DEF PromoteReadsBack
    <3> QED
      BY <1>0, <2>1, <3>1, AnswerTells
  <2> QED
    BY <2>2, <2>3
<1>13. CASE TimesOut
  BY <1>13 DEF TimesOut, Tells
<1> QED
  BY <1>1, <1>2, <1>3, <1>4, <1>5, <1>6, <1>7, <1>8, <1>9, <1>10, <1>11, <1>12, <1>13 DEF Helper

\* The client's own steps tell it nothing new.
LEMMA ClientTells == IInv /\ (Submit \/ GivesUp \/ Resubmit \/ Accept \/ HelperDies \/ AppDies) => Tells
<1> SUFFICES ASSUME IInv, Submit \/ GivesUp \/ Resubmit \/ Accept \/ HelperDies \/ AppDies PROVE Tells
  OBVIOUS
<1>0. {"failed", "lost"} \subseteq Answers \ {"none"}
  BY DEF Answers
<1>1. c.pc # "idle" => c.op = ops /\ ops \in Ops /\ answer[ops] = "none"
  BY Types DEF IInv, ClientOK
<1>2. ASSUME c.pc # "idle", Disconnected, log' = log PROVE Tells
  <2>1. answer' = answer \/ answer' = [answer EXCEPT ![ops] = "failed"]
    BY <1>1, <1>2 DEF Disconnected
  <2> QED
    BY <1>0, <1>1, <1>2, <2>1 DEF Tells
<1>3. CASE Submit
  <2>1. log' = log /\ (answer' = answer \/ answer' = [answer EXCEPT ![ops + 1] = "failed"])
    BY <1>3 DEF Submit
  <2>2. ops + 1 \in Ops /\ ops + 1 > ops
    BY <1>3, Types, Consts DEF IInv, Submit, Ops
  <2>3. answer[ops + 1] = "none"
    BY <2>2 DEF IInv, ClientOK
  <2> QED
    BY <1>0, <2>1, <2>2, <2>3 DEF Tells
<1>4. CASE GivesUp
  BY <1>2, <1>4 DEF GivesUp
<1>5. CASE Resubmit \/ Accept
  BY <1>5 DEF Resubmit, Accept, Tells
<1>6. CASE HelperDies
  <2>1. log' = log /\ (UNCHANGED <<c, answer>> \/ (c.pc # "idle" /\ Disconnected))
    BY <1>6 DEF HelperDies
  <2> QED
    BY <1>2, <2>1 DEF Tells
<1>7. CASE AppDies
  <2>1. log' = log /\ c.pc # "idle" /\ answer' = [answer EXCEPT ![c.op] = "lost"]
    BY <1>7 DEF AppDies
  <2> QED
    BY <1>0, <1>1, <2>1 DEF Tells
<1> QED
  BY <1>3, <1>4, <1>5, <1>6, <1>7

\* The answers as StorageSpec sees them.
Seen == [o \in Operations |-> IF o \in Ops THEN Told(answer[o]) ELSE "none"]

\* The service implements its promise: an operation is added at most once, none after its caller
\* was told of a conflict, "durable" is said only of an operation that was added, and "conflict"
\* only of one that was not or that another write has overtaken.
THEOREM PromiseIsKept == Spec => KeepsItsPromise
<1>1. Init => Promise!Init
  <2> SUFFICES ASSUME Init PROVE Promise!Init
    OBVIOUS
  <2>1. log = << >> /\ answer = [o \in Ops |-> "none"]
    BY DEF Init
  <2>2. \A o \in Operations : (IF o \in Ops THEN Told(answer[o]) ELSE "none") = "none"
    BY <2>1 DEF Told
  <2> QED
    BY <2>1, <2>2 DEF Promise!Init
<1>2. ASSUME IInv, [Next]_vars PROVE [Promise!Next]_(Promise!vars)
  <2>0. answer \in [Ops -> Answers] /\ Ops \subseteq Operations
    BY <1>2, Consts DEF IInv, TypeOK, Ops, Operations
  <2>a. ASSUME NEW o \in Operations, o \notin ToSet(log), Seen[o] # "conflict",
               log' = Append(log, o), answer' = answer
        PROVE  Promise!Apply(o)
    BY <2>a DEF Promise!Apply, Promise!ToSet, ToSet, Seen
  <2>b. ASSUME NEW o \in Ops, NEW a \in Answers \ {"none"}, log' = log, answer[o] = "none",
               answer' = [answer EXCEPT ![o] = a],
               a = "durable" => o \in ToSet(log),
               a = "conflict" => o \notin ToSet(log) \/ Last(log) # o
        PROVE  Told(a) \in {"durable", "conflict", "unknown"} /\ Promise!Reply(o, Told(a))
    <3>1. /\ Told(a) \in {"durable", "conflict", "unknown"} /\ Told(answer[o]) = "none"
          /\ Told(a) = "durable" => a = "durable"
          /\ Told(a) = "conflict" => a = "conflict"
      BY <2>b DEF Told, Answers
    <3>2. o \in Operations /\ Seen[o] = "none"
      BY <2>0, <3>1 DEF Seen
    <3>3. Seen' = [Seen EXCEPT ![o] = Told(a)]
      BY <2>0, <2>b DEF Seen
    <3> QED
      BY <2>b, <3>1, <3>2, <3>3 DEF Promise!Reply, Promise!ToSet, ToSet, Promise!Last, Last, Seen
  <2>1. CASE Tells
    <3>1. CASE log' = log /\ answer' = answer
      BY <3>1 DEF Promise!vars
    <3>2. CASE log' = log /\ answer' # answer
      <4>1. PICK o \in Ops, a \in Answers \ {"none"} :
              /\ answer[o] = "none" /\ answer' = [answer EXCEPT ![o] = a]
              /\ a = "durable" => o \in ToSet(log)
              /\ a = "conflict" => o \notin ToSet(log) \/ Last(log) # o
        BY <2>1, <3>2 DEF Tells
      <4>2. o \in Operations /\ Told(a) \in {"durable", "conflict", "unknown"} /\ Promise!Reply(o, Told(a))
        BY <2>0, <2>b, <3>2, <4>1
      <4> QED
        BY <4>2 DEF Promise!Next
    <3> QED
      BY <2>1, <3>1, <3>2 DEF Tells
  <2>2. CASE UNCHANGED vars
    BY <2>2 DEF vars, Tells, Promise!vars
  <2>3. CASE Lands
    <3>1. CASE UNCHANGED <<log, answer>>
      BY <3>1 DEF Promise!vars
    <3>2. CASE ~UNCHANGED <<log, answer>>
      <4>0. UNCHANGED answer
        BY <2>3 DEF Lands
      <4>1. PICK p \in inflight : /\ Computed(p, keys, gens) /\ p.op # 0 /\ log' = Append(log, p.op)
        BY <1>2, <2>3, <3>2, <4>0, RecordMoves DEF Lands, IInv, PutsOK, Live
      <4>2. Applies(p) /\ p.op \in Ops
        BY <1>2, <4>1, Types, Consts DEF Computed, IInv, Ops
      <4>3. Told(answer[p.op]) # "conflict"
        BY <4>2, <2>0 DEF Applies, Told, Answers
      <4>4. Promise!Apply(p.op)
        BY <2>0, <2>a, <4>0, <4>1, <4>2, <4>3 DEF Applies, Seen
      <4> QED
        BY <2>0, <4>2, <4>4 DEF Promise!Next
    <3> QED
      BY <3>1, <3>2
  <2>4. CASE ForeignWrite
    <3> DEFINE o == MaxOps + foreign + 1
    <3>1. log' = Append(log, o) /\ UNCHANGED answer /\ o \in Operations /\ o \notin Ops /\ o \notin ToSet(log)
      BY <1>2, <2>4, ForeignFields
    <3> HIDE DEF o
    <3>2. Seen[o] = "none"
      BY <3>1 DEF Seen
    <3>3. Promise!Apply(o)
      BY <2>a, <3>1, <3>2
    <3> QED
      BY <3>1, <3>3 DEF Promise!Next
  <2> QED
    BY <1>2, <2>1, <2>2, <2>3, <2>4, HelperTells, ClientTells DEF Next
<1>3. IInv /\ [Next]_vars => [Promise!Next]_(Promise!vars)
  BY <1>2
<1> QED
  BY <1>1, <1>3, Invariant, PTL DEF Spec, KeepsItsPromise, Promise!Spec

=============================================================================
