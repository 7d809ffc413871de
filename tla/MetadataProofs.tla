--------------------------- MODULE MetadataProofs ---------------------------
(***************************************************************************)
(* Proofs about module Metadata, for every set of items and seasons, every *)
(* capacity of the detail landing and every bound.                         *)
(*                                                                         *)
(* The argument: the landing operations the page uses are reduced to what  *)
(* they do to the lanes and the slots (the *Effect lemmas).  The inductive *)
(* invariant IInv then has a detail half (Queue, Slots, Workers, Spinner)  *)
(* and a season half (Tabs), which meet only where a landed detail         *)
(* replaces the page; each action disturbs one half or both.               *)
(***************************************************************************)
EXTENDS Metadata, FiniteSetTheorems, TLAPS

-----------------------------------------------------------------------------
(* The inductive invariant.                                                *)

\* Request gen may still answer: it holds a slot that is not cancelled.
Awaited(l, gen) ==
    /\ l.inflight[detail_addr(gen)].st # "free"
    /\ ~l.inflight[detail_addr(gen)].cancelled

\* What is queued is the terminal of a held slot; a loaded detail is of this
\* adapter and of the item that is wanted.
Queue(l, ep, want) ==
    /\ IsFiniteSet(L!Queued(l))
    /\ \A r \in L!Queued(l) :
          /\ r.terminal
          /\ l.inflight[r.addr].st = "terminal"
          /\ r.lane = "Data" => /\ ~l.inflight[r.addr].cancelled
                                /\ r.key \in DetailKey
                                /\ r.key.from = ep
                                /\ r.key.item = want

\* A slot belongs to a request that was made, is cancelled unless it is the
\* newest one's, and is held by a worker or by a queued answer.
Slots(l, gen, cl, ep, ds) ==
    \A a \in L!Addr :
        LET s == l.inflight[a]
        IN  /\ ~s.stream
            /\ s.st # "free" => a.req <= gen
            /\ (s.st # "free" /\ ~s.cancelled) => a.req = gen /\ cl < a.req
            /\ s.st = "terminal" => \E r \in L!Queued(l) : r.addr = a
            /\ s.st = "running" => \E w \in ds : w.epoch = ep /\ w.gen = a.req

\* A worker of this adapter holds the running slot of its generation, alone,
\* and the newest one fetches the item that is wanted.
Workers(l, gen, want, ep, ds) ==
    /\ IsFiniteSet(ds)
    /\ \A w \in ds :
          /\ w.epoch <= ep
          /\ w.epoch = ep => /\ l.inflight[detail_addr(w.gen)].st = "running"
                             /\ w.gen = gen => w.item = want
    /\ \A v, w \in ds : (v.epoch = w.epoch /\ v.gen = w.gen) => v = w

\* The detail half of the invariant.
Requests(l, gen, want, ep, ds, cl) ==
    /\ Queue(l, ep, want)
    /\ Slots(l, gen, cl, ep, ds)
    /\ Workers(l, gen, want, ep, ds)

\* The detail spinner turns only for a request that may still answer.
Spinner ==
    /\ adapter.detail_done <= adapter.detail_gen
    /\ closed <= adapter.detail_gen
    /\ detail_loading(adapter) => Awaited(adapter.landing, adapter.detail_gen)

\* A season fetch or its result f is not newer than generation gen, and a
\* newest one was asked for on the page that is open.
Current(f, gen, page) ==
    /\ f.gen <= gen
    /\ (f.gen = gen /\ page # None) => f.of = page.load

\* The season half.
Tabs ==
    /\ \A w \in seasons :
          /\ w.epoch <= epoch
          /\ w.epoch = epoch => Current(w, adapter.season_gen, current)
    /\ adapter.season_result # None =>
          Current(adapter.season_result, adapter.season_gen, current)
    /\ SeasonSpinnerIsOwed

\* A request adds a season generation beyond the commands' bound only once.
Counted ==
    /\ adapter.season_gen <= MaxSeasonGen + adapter.detail_gen
    /\ Awaited(adapter.landing, adapter.detail_gen) =>
          adapter.season_gen < MaxSeasonGen + adapter.detail_gen

\* The inductive invariant.
IInv ==
    /\ TypeOK
    /\ Requests(adapter.landing, adapter.detail_gen, adapter.want, epoch,
                details, closed)
    /\ Spinner
    /\ Tabs
    /\ Counted
    /\ NothingReopens
    /\ EpisodesBelongToThePage

-----------------------------------------------------------------------------
(* What the landing operations do to the lanes and the slots.              *)

\* The landing counts with the library's Cardinality.
LEMMA SameCount == ASSUME NEW S PROVE L!Cardinality(S) = Cardinality(S)
BY DEF L!Cardinality, Cardinality

\* The one addressee of the detail landing: an address is its generation.
LEMMA Addresses ==
    /\ \A g \in Gens : detail_addr(g) \in L!Addr /\ detail_addr(g).req = g
                       /\ detail_addr(g).to = "metadata"
    /\ \A a \in L!Addr : a.req \in Gens /\ a = detail_addr(a.req)
                         /\ a.to = "metadata"
BY DEF L!Addr, detail_addr

\* count_drop for a finite set of records touches the two counters only.
LEMMA CountDropsEffect ==
    ASSUME NEW l \in L!Inner, NEW recs, IsFiniteSet(recs)
    PROVE  LET n == L!CountDrops(l, recs)
           IN  /\ n \in L!Inner
               /\ n.data = l.data /\ n.control = l.control
               /\ n.inflight = l.inflight
<1> DEFINE n == L!CountDrops(l, recs)
           df == [m \in {"metadata"} |->
                   l.dropped_for[m] + Cardinality({r \in recs : r.addr.to = m})]
<1>1. n = [l EXCEPT !.dropped = l.dropped + Cardinality(recs),
                    !.dropped_for = df]
  BY SameCount, Zenon DEF L!CountDrops
<1>2. Cardinality(recs) \in Nat
  BY FS_CardinalityType
<1>3. df \in [{"metadata"} -> Nat]
  <2>1. ASSUME NEW m \in {"metadata"}
        PROVE  Cardinality({r \in recs : r.addr.to = m}) \in Nat
    BY FS_Subset, FS_CardinalityType
  <2> QED
    BY <2>1 DEF L!Inner
<1>4. l.dropped + Cardinality(recs) \in Nat
  BY <1>2 DEF L!Inner
<1> HIDE DEF n, df
<1>5. n \in L!Inner
  BY <1>1, <1>3, <1>4 DEF L!Inner
<1>6. /\ n.data = l.data /\ n.control = l.control
      /\ n.inflight = l.inflight
  BY <1>1 DEF L!Inner
<1> QED
  BY <1>5, <1>6 DEF n

\* clear: with every queued record the terminal of a held slot, nothing stays
\* queued, and only the running slots stay held, all of them cancelled.
LEMMA ClearEffect ==
    ASSUME NEW l \in L!Inner, IsFiniteSet(L!Queued(l)),
           \A r \in L!Queued(l) : l.inflight[r.addr].st = "terminal"
    PROVE  LET n == L!Clear(l)
           IN  /\ n \in L!Inner
               /\ L!Queued(n) = {}
               /\ \A a \in L!Addr :
                     /\ n.inflight[a].st =
                           IF l.inflight[a].st = "running" THEN "running" ELSE "free"
                     /\ n.inflight[a].st # "free" => n.inflight[a].cancelled
                     /\ n.inflight[a].stream => l.inflight[a].stream
<1> DEFINE n == L!Clear(l)
           hit == L!Held(l)
           gone == {r \in L!Queued(l) : r.addr \in L!Held(l) \cap hit}
           c == L!CountDrops(l, gone)
           fl == [a \in L!Addr |->
                     IF a \notin hit THEN l.inflight[a]
                     ELSE IF l.inflight[a].st = "terminal" THEN L!Free
                     ELSE [l.inflight[a] EXCEPT !.cancelled = TRUE]]
<1>1. IsFiniteSet(gone)
  BY FS_Subset
<1>2. /\ c \in L!Inner
      /\ c.data = l.data /\ c.control = l.control
      /\ c.inflight = l.inflight
  BY <1>1, CountDropsEffect
<1>3. L!Held(l) \cap L!Held(l) = hit
  OBVIOUS
<1>4. n = [c EXCEPT !.data = c.data \ gone, !.control = c.control \ gone,
                    !.inflight = [a \in L!Addr |->
                       IF a \notin hit THEN c.inflight[a]
                       ELSE IF c.inflight[a].st = "terminal" THEN L!Free
                       ELSE [c.inflight[a] EXCEPT !.cancelled = TRUE]]]
  BY <1>2, <1>3 DEF L!Clear, L!CancelAll, L!Inner
<1>5. fl \in [L!Addr -> L!Reservation]
  BY DEF L!Inner, L!Reservation, L!Free
<1>6. gone = L!Queued(l)
  <2>1. ASSUME NEW r \in L!Queued(l) PROVE r.addr \in L!Held(l)
    <3>1. r.addr \in L!Addr
      BY DEF L!Queued, L!Inner, L!Record
    <3> QED
      BY <3>1 DEF L!Held
  <2> QED
    BY <2>1
<1>7. /\ \A a \in L!Addr :
            /\ fl[a].st = IF l.inflight[a].st = "running" THEN "running" ELSE "free"
            /\ fl[a].st # "free" => fl[a].cancelled
            /\ fl[a].stream => l.inflight[a].stream
  BY DEF L!Held, L!Free, L!Inner, L!Reservation
<1> HIDE DEF n, c, hit
<1>8. n = [c EXCEPT !.data = l.data \ gone, !.control = l.control \ gone,
                    !.inflight = fl]
  BY <1>2, <1>4
<1> HIDE DEF fl, gone
<1>9. n \in L!Inner
  BY <1>2, <1>5, <1>8 DEF L!Inner
<1>10. n.data = l.data \ gone /\ n.control = l.control \ gone /\ n.inflight = fl
  BY <1>2, <1>8 DEF L!Inner
<1>11. L!Queued(n) = {}
  BY <1>6, <1>10 DEF L!Queued
<1> QED
  BY <1>7, <1>9, <1>10, <1>11 DEF n

\* A publication for the running, one-shot request a: one terminal record
\* enters a lane, as data only if the request was not cancelled.
Terminates(l, n, a, lane, key) ==
    /\ n \in L!Inner
    /\ n.inflight = [l.inflight EXCEPT ![a].st = "terminal"]
    /\ \E rec \in L!Record :
          /\ rec.terminal
          /\ rec.addr = a
          /\ L!Queued(n) = L!Queued(l) \cup {rec}
          /\ rec.lane = "Data" => /\ lane = "Data"
                                  /\ ~l.inflight[a].cancelled
                                  /\ rec.key = key

\* complete_locked of a one-shot request queues one terminal record.
LEMMA TerminateEffect ==
    ASSUME NEW l \in L!Inner, NEW a \in L!Addr,
           NEW lane \in {"Data", "Refused"}, NEW key \in DetailKey \cup {None},
           ~l.inflight[a].stream
    PROVE  Terminates(l, L!Terminate(l, a, lane, key), a, lane, key)
<1> DEFINE full == L!Overflows(l, a, lane)
           shown == IF full \/ l.inflight[a].cancelled THEN "Dropped" ELSE lane
           rec == [seq |-> l.seq + 1, addr |-> a, lane |-> shown,
                   key |-> IF shown = "Data" THEN key ELSE None,
                   terminal |-> TRUE]
           inDataLane == ~l.inflight[a].stream /\ shown = "Data"
           counted == IF full THEN L!CountLost(l, a.to) ELSE l
           n == L!Terminate(l, a, lane, key)
<1>1. rec \in L!Record /\ rec.addr = a /\ rec.terminal /\ rec.lane = shown
      /\ (shown = "Data" => rec.key = key)
  BY DEF L!Record, L!Inner, L!Lanes
<1>2. /\ counted \in L!Inner
      /\ counted.data = l.data /\ counted.control = l.control
      /\ counted.seq = l.seq
      /\ counted.inflight = l.inflight
  <2>1. a.to \in {"metadata"}
    BY DEF L!Addr
  <2>2. CASE full
    <3>1. counted = [l EXCEPT !.dropped = l.dropped + 1,
                         !.dropped_for = [l.dropped_for EXCEPT ![a.to] = @ + 1]]
      BY <2>2 DEF L!CountLost, L!Inner
    <3>2. l.dropped + 1 \in Nat
          /\ [l.dropped_for EXCEPT ![a.to] = @ + 1] \in [{"metadata"} -> Nat]
      BY <2>1 DEF L!Inner
    <3> HIDE DEF counted
    <3>3. counted \in L!Inner
      BY <3>1, <3>2 DEF L!Inner
    <3>4. /\ counted.data = l.data /\ counted.control = l.control
          /\ counted.seq = l.seq
          /\ counted.inflight = l.inflight
      BY <3>1 DEF L!Inner
    <3> QED
      BY <3>3, <3>4
  <2>3. CASE ~full
    BY <2>3
  <2> QED
    BY <2>2, <2>3
<1>3. n = [counted EXCEPT
            !.seq = @ + 1,
            !.data = IF inDataLane THEN @ \cup {rec} ELSE @,
            !.control = IF inDataLane THEN @ ELSE @ \cup {rec},
            !.inflight[a].st = "terminal"]
  BY DEF L!Terminate
<1>4. shown = "Data" => lane = "Data" /\ ~l.inflight[a].cancelled
  OBVIOUS
<1> HIDE DEF counted, rec, shown
<1>5. /\ n.data = (IF inDataLane THEN l.data \cup {rec} ELSE l.data)
      /\ n.control = (IF inDataLane THEN l.control ELSE l.control \cup {rec})
      /\ n.inflight = [l.inflight EXCEPT ![a].st = "terminal"]
  BY <1>2, <1>3 DEF L!Inner
<1>6. n \in L!Inner
  <2>1. counted.seq + 1 \in Nat
    BY <1>2 DEF L!Inner
  <2>2. (IF inDataLane THEN counted.data \cup {rec} ELSE counted.data)
           \in SUBSET {r \in L!Record : r.lane = "Data"}
    BY <1>1, <1>2 DEF L!Inner
  <2>3. (IF inDataLane THEN counted.control ELSE counted.control \cup {rec})
           \in SUBSET {r \in L!Record : r.terminal}
    BY <1>1, <1>2 DEF L!Inner
  <2>4. [counted.inflight EXCEPT ![a].st = "terminal"] \in [L!Addr -> L!Reservation]
    BY <1>2 DEF L!Inner, L!Reservation
  <2> HIDE DEF inDataLane
  <2> QED
    BY <1>2, <1>3, <2>1, <2>2, <2>3, <2>4 DEF L!Inner
<1>7. L!Queued(n) = L!Queued(l) \cup {rec}
  BY <1>5 DEF L!Queued
<1> HIDE DEF n
<1> QED
  BY <1>1, <1>4, <1>5, <1>6, <1>7 DEF Terminates, n

\* take_for empties the lanes and frees the terminated requests.
LEMMA TakeForEffect ==
    ASSUME NEW l \in L!Inner, NEW live, NEW want, IsFiniteSet(L!Queued(l))
    PROVE  LET n == L!TakeFor(l, live, want)
           IN  /\ n \in L!Inner
               /\ L!Queued(n) = {}
               /\ n.inflight = [a \in L!Addr |->
                     IF a \in L!Terminated(l) THEN L!Free ELSE l.inflight[a]]
<1> DEFINE n == L!TakeFor(l, live, want)
           gone == L!Queued(l) \ L!Deliverable(l, live, want)
           c == L!CountDrops(l, gone)
           fl == [a \in L!Addr |->
                     IF a \in L!Terminated(l) THEN L!Free ELSE l.inflight[a]]
<1>1. IsFiniteSet(gone)
  BY FS_Difference
<1>2. /\ c \in L!Inner
      /\ c.inflight = l.inflight
  BY <1>1, CountDropsEffect
<1>3. n = [c EXCEPT !.data = {}, !.control = {},
                    !.inflight = [a \in L!Addr |->
                       IF a \in L!Terminated(l) THEN L!Free ELSE c.inflight[a]]]
  BY <1>2 DEF L!TakeFor, L!Inner
<1>4. fl \in [L!Addr -> L!Reservation]
  BY DEF L!Inner, L!Reservation, L!Free
<1> HIDE DEF n, c, gone
<1>5. n = [c EXCEPT !.data = {}, !.control = {}, !.inflight = fl]
  BY <1>2, <1>3
<1> HIDE DEF fl
<1>6. n \in L!Inner
  BY <1>2, <1>4, <1>5 DEF L!Inner
<1>7. n.data = {} /\ n.control = {} /\ n.inflight = fl
  BY <1>2, <1>5 DEF L!Inner
<1>8. L!Queued(n) = {}
  BY <1>7 DEF L!Queued
<1> QED
  BY <1>6, <1>7, <1>8 DEF n, fl

-----------------------------------------------------------------------------
(* The detail half, one lemma per way a landing changes.                   *)

\* A new generation, by a request or a close: whatever was out is cancelled.
LEMMA ClearKeeps ==
    ASSUME NEW l \in L!Inner, NEW gen \in Gens, gen + 1 \in Gens, NEW want, NEW w2,
           NEW ep \in Epochs, NEW ds \in SUBSET DetailWorker, NEW cl, NEW cl2,
           Requests(l, gen, want, ep, ds, cl)
    PROVE  LET n == L!Clear(l)
           IN  /\ n \in L!Inner
               /\ Requests(n, gen + 1, w2, ep, ds, cl2)
               /\ n.inflight[detail_addr(gen + 1)].st = "free"
               /\ \A a \in L!Addr : n.inflight[a].st # "free" =>
                     n.inflight[a].st = "running" /\ n.inflight[a].cancelled
<1> DEFINE n == L!Clear(l)
<1>1. /\ n \in L!Inner
      /\ L!Queued(n) = {}
      /\ \A a \in L!Addr :
            /\ n.inflight[a].st =
                  IF l.inflight[a].st = "running" THEN "running" ELSE "free"
            /\ n.inflight[a].st # "free" => n.inflight[a].cancelled
            /\ n.inflight[a].stream => l.inflight[a].stream
  BY ClearEffect DEF Requests, Queue
<1> HIDE DEF n
<1>2. gen \in Nat /\ \A a \in L!Addr : a.req \in Nat
  BY Addresses, MetadataAssumption DEF Gens
<1>3. Queue(n, ep, w2)
  BY <1>1, FS_EmptySet DEF Queue
<1>4. Slots(n, gen + 1, cl2, ep, ds)
  BY <1>1, <1>2 DEF Slots, Requests
<1>5. ASSUME NEW w \in ds, w.epoch = ep
      PROVE  n.inflight[detail_addr(w.gen)].st = "running" /\ w.gen # gen + 1
  <2>1. w.gen \in Gens
    BY DEF DetailWorker
  <2>2. detail_addr(w.gen) \in L!Addr /\ detail_addr(w.gen).req = w.gen
    BY <2>1, Addresses
  <2>3. l.inflight[detail_addr(w.gen)].st = "running"
    BY <1>5 DEF Requests, Workers
  <2>4. w.gen <= gen
    BY <2>2, <2>3 DEF Requests, Slots
  <2> QED
    BY <1>1, <1>2, <2>2, <2>3, <2>4
<1>6. Workers(n, gen + 1, w2, ep, ds)
  BY <1>5 DEF Workers, Requests
<1>7. n.inflight[detail_addr(gen + 1)].st = "free"
  <2>1. detail_addr(gen + 1) \in L!Addr /\ detail_addr(gen + 1).req = gen + 1
    BY Addresses
  <2> QED
    BY <1>1, <1>2, <2>1 DEF Requests, Slots
<1> QED
  BY <1>1, <1>3, <1>4, <1>6, <1>7 DEF Requests, n

\* An admitted request whose worker was spawned.
LEMMA AdmitKeeps ==
    ASSUME NEW l \in L!Inner, NEW gen \in Gens, NEW item \in Items,
           NEW ep \in Epochs, NEW ds \in SUBSET DetailWorker, NEW cl, cl < gen,
           Requests(l, gen, item, ep, ds, cl),
           l.inflight[detail_addr(gen)].st = "free",
           L!CanAdmit(l, detail_addr(gen))
    PROVE  LET n == L!AdmitMode(l, detail_addr(gen), FALSE)
               w == [epoch |-> ep, gen |-> gen, item |-> item]
           IN  /\ n \in L!Inner
               /\ Requests(n, gen, item, ep, ds \cup {w}, cl)
               /\ Awaited(n, gen)
               /\ L!Queued(n) = L!Queued(l)
               /\ n.inflight = [l.inflight EXCEPT ![detail_addr(gen)] =
                     [st |-> "running", cancelled |-> FALSE, stream |-> FALSE]]
<1> DEFINE n == L!AdmitMode(l, detail_addr(gen), FALSE)
           run == [st |-> "running", cancelled |-> FALSE, stream |-> FALSE]
           b == detail_addr(gen)
           w == [epoch |-> ep, gen |-> gen, item |-> item]
<1>0. b \in L!Addr /\ b.req = gen
  BY Addresses
<1>1. n = [l EXCEPT !.inflight[b] = run]
  BY DEF L!AdmitMode
<1>2. [l.inflight EXCEPT ![b] = run] \in [L!Addr -> L!Reservation]
  BY <1>0 DEF L!Inner, L!Reservation
<1>3. n \in L!Inner /\ n.data = l.data /\ n.control = l.control
      /\ n.inflight = [l.inflight EXCEPT ![b] = run]
  BY <1>1, <1>2 DEF L!Inner
<1>4. L!Queued(n) = L!Queued(l)
  BY <1>3 DEF L!Queued
<1>5. /\ n.inflight[b].st = "running" /\ ~n.inflight[b].cancelled
      /\ ~n.inflight[b].stream
      /\ \A a \in L!Addr : a # b => n.inflight[a] = l.inflight[a]
  <2>1. /\ n.inflight[b] = run
        /\ \A a \in L!Addr : a # b => n.inflight[a] = l.inflight[a]
    BY <1>0, <1>3 DEF L!Inner
  <2>2. run.st = "running" /\ ~run.cancelled /\ ~run.stream
    OBVIOUS
  <2> HIDE DEF run
  <2> QED
    BY <2>1, <2>2, Zenon
<1>6. w.epoch = ep /\ w.gen = gen /\ w.item = item
  OBVIOUS
<1>7. ep \in Nat /\ gen \in Nat
  BY MetadataAssumption DEF Epochs, Gens
<1> HIDE DEF n, w, b
<1>8. Queue(n, ep, item)
  <2>1. \A r \in L!Queued(l) : r.addr \in L!Addr
    BY DEF L!Queued, L!Inner, L!Record
  <2>2. \A r \in L!Queued(l) : r.addr # b
    BY DEF Requests, Queue, b
  <2> QED
    BY <1>4, <1>5, <2>1, <2>2 DEF Requests, Queue
<1>9. Slots(n, gen, cl, ep, ds \cup {w})
  <2> SUFFICES ASSUME NEW a \in L!Addr
               PROVE  LET s == n.inflight[a]
                      IN  /\ ~s.stream
                          /\ s.st # "free" => a.req <= gen
                          /\ (s.st # "free" /\ ~s.cancelled) => a.req = gen /\ cl < a.req
                          /\ s.st = "terminal" => \E r \in L!Queued(n) : r.addr = a
                          /\ s.st = "running" =>
                                \E v \in ds \cup {w} : v.epoch = ep /\ v.gen = a.req
    BY DEF Slots
  <2>1. CASE a = b
    BY <1>0, <1>5, <1>6, <1>7, <2>1
  <2>2. CASE a # b
    <3>1. n.inflight[a] = l.inflight[a]
      BY <1>5, <2>2
    <3> QED
      BY <3>1, <1>4 DEF Requests, Slots
  <2> QED
    BY <2>1, <2>2
<1>10. \A v \in ds : v.epoch = ep => v.gen # gen
  BY DEF Requests, Workers
<1>11. \A v \in ds : v.epoch = ep => detail_addr(v.gen) \in L!Addr
                                    /\ detail_addr(v.gen) # b
  BY <1>0, <1>10, Addresses DEF DetailWorker
<1>12. Workers(n, gen, item, ep, ds \cup {w})
  <2>1. IsFiniteSet(ds \cup {w})
    BY FS_AddElement DEF Requests, Workers
  <2>2. ASSUME NEW v \in ds \cup {w}
        PROVE  /\ v.epoch <= ep
               /\ v.epoch = ep => /\ n.inflight[detail_addr(v.gen)].st = "running"
                                  /\ v.gen = gen => v.item = item
    <3>1. CASE v = w
      BY <1>5, <1>6, <1>7, <3>1 DEF b
    <3>2. CASE v \in ds
      BY <1>5, <1>10, <1>11, <3>2 DEF Requests, Workers
    <3> QED
      BY <3>1, <3>2
  <2>3. \A u, v \in ds \cup {w} : (u.epoch = v.epoch /\ u.gen = v.gen) => u = v
    BY <1>6, <1>10 DEF Requests, Workers
  <2> QED
    BY <2>1, <2>2, <2>3 DEF Workers
<1>13. Awaited(n, gen)
  BY <1>5 DEF Awaited, b
<1> QED
  BY <1>3, <1>4, <1>8, <1>9, <1>12, <1>13 DEF Requests, n, w, b

\* An admitted request whose worker could not be spawned answers Refused.
LEMMA RefuseKeeps ==
    ASSUME NEW l \in L!Inner, NEW gen \in Gens, NEW item \in Items,
           NEW ep \in Epochs, NEW ds \in SUBSET DetailWorker, NEW cl, cl < gen,
           Requests(l, gen, item, ep, ds, cl),
           l.inflight[detail_addr(gen)].st = "free",
           L!CanAdmit(l, detail_addr(gen))
    PROVE  LET h == L!AdmitMode(l, detail_addr(gen), FALSE)
               n == L!Refused(h, detail_addr(gen))
           IN  /\ n \in L!Inner
               /\ Requests(n, gen, item, ep, ds, cl)
               /\ Awaited(n, gen)
<1> DEFINE h == L!AdmitMode(l, detail_addr(gen), FALSE)
           b == detail_addr(gen)
           run == [st |-> "running", cancelled |-> FALSE, stream |-> FALSE]
           n == L!Refused(h, b)
<1>0. b \in L!Addr /\ b.req = gen
  BY Addresses
<1>1. /\ h \in L!Inner
      /\ L!Queued(h) = L!Queued(l)
      /\ h.inflight = [l.inflight EXCEPT ![b] = run]
  BY AdmitKeeps
<1>2. h.inflight[b].st = "running" /\ ~h.inflight[b].cancelled /\ ~h.inflight[b].stream
      /\ \A a \in L!Addr : a # b => h.inflight[a] = l.inflight[a]
  <2>1. /\ h.inflight[b] = run
        /\ \A a \in L!Addr : a # b => h.inflight[a] = l.inflight[a]
    BY <1>0, <1>1 DEF L!Inner
  <2>2. run.st = "running" /\ ~run.cancelled /\ ~run.stream
    OBVIOUS
  <2> HIDE DEF run
  <2> QED
    BY <2>1, <2>2, Zenon
<1> HIDE DEF h, b
<1>3. n = L!Terminate(h, b, "Refused", None)
  BY <1>2 DEF L!Refused, L!Complete
<1>4. Terminates(h, n, b, "Refused", None)
  BY <1>0, <1>1, <1>2, <1>3, TerminateEffect, ZenonT(30)
<1>5. PICK rec \in L!Record :
         /\ rec.terminal
         /\ rec.addr = b
         /\ L!Queued(n) = L!Queued(h) \cup {rec}
         /\ rec.lane # "Data"
  BY <1>4 DEF Terminates
<1>6. n \in L!Inner /\ n.inflight = [h.inflight EXCEPT ![b].st = "terminal"]
  BY <1>4 DEF Terminates
<1>7. /\ n.inflight[b].st = "terminal" /\ ~n.inflight[b].cancelled
      /\ ~n.inflight[b].stream
      /\ \A a \in L!Addr : a # b => n.inflight[a] = l.inflight[a]
  BY <1>0, <1>1, <1>2, <1>6 DEF L!Inner, L!Reservation
<1> HIDE DEF n
<1>8. gen \in Nat
  BY MetadataAssumption DEF Gens
<1>9. Queue(n, ep, item)
  <2>1. \A r \in L!Queued(l) : r.addr \in L!Addr /\ r.addr # b
    BY DEF Requests, Queue, b, L!Queued, L!Inner, L!Record
  <2>2. IsFiniteSet(L!Queued(n))
    BY <1>1, <1>5, FS_AddElement DEF Requests, Queue
  <2>3. ASSUME NEW r \in L!Queued(n)
        PROVE  /\ r.terminal
               /\ n.inflight[r.addr].st = "terminal"
               /\ r.lane = "Data" => /\ ~n.inflight[r.addr].cancelled
                                     /\ r.key \in DetailKey
                                     /\ r.key.from = ep
                                     /\ r.key.item = item
    <3>1. CASE r = rec
      BY <1>5, <1>7, <3>1
    <3>2. CASE r \in L!Queued(l)
      BY <1>7, <2>1, <3>2 DEF Requests, Queue
    <3> QED
      BY <1>1, <1>5, <3>1, <3>2
  <2> QED
    BY <2>2, <2>3 DEF Queue
<1>10. Slots(n, gen, cl, ep, ds)
  <2> SUFFICES ASSUME NEW a \in L!Addr
               PROVE  LET s == n.inflight[a]
                      IN  /\ ~s.stream
                          /\ s.st # "free" => a.req <= gen
                          /\ (s.st # "free" /\ ~s.cancelled) => a.req = gen /\ cl < a.req
                          /\ s.st = "terminal" => \E r \in L!Queued(n) : r.addr = a
                          /\ s.st = "running" =>
                                \E v \in ds : v.epoch = ep /\ v.gen = a.req
    BY DEF Slots
  <2>1. CASE a = b
    BY <1>0, <1>5, <1>7, <1>8, <2>1
  <2>2. CASE a # b
    <3>1. n.inflight[a] = l.inflight[a]
      BY <1>7, <2>2
    <3> QED
      BY <3>1, <1>1, <1>5 DEF Requests, Slots
  <2> QED
    BY <2>1, <2>2
<1>11. \A v \in ds : v.epoch = ep => v.gen # gen
  BY DEF Requests, Workers
<1>12. \A v \in ds : v.epoch = ep => detail_addr(v.gen) \in L!Addr
                                    /\ detail_addr(v.gen) # b
  BY <1>0, <1>11, Addresses DEF DetailWorker
<1>13. Workers(n, gen, item, ep, ds)
  BY <1>7, <1>12 DEF Requests, Workers
<1>14. Awaited(n, gen)
  BY <1>7 DEF Awaited, b
<1> QED
  BY <1>6, <1>9, <1>10, <1>13, <1>14 DEF Requests, n, h, b

\* A worker of this adapter answers, by a detail, a miss or a panic.
LEMMA PutKeeps ==
    ASSUME NEW l \in L!Inner, NEW gen \in Gens, NEW want, NEW ep \in Epochs,
           NEW ds \in SUBSET DetailWorker, NEW cl, NEW w \in ds, w.epoch = ep,
           NEW ok \in BOOLEAN,
           Requests(l, gen, want, ep, ds, cl)
    PROVE  LET n == L!Put(l, detail_addr(w.gen),
                          [item |-> w.item, ok |-> ok, from |-> w.epoch])
           IN  /\ n \in L!Inner
               /\ Requests(n, gen, want, ep, ds \ {w}, cl)
               /\ Awaited(n, gen) <=> Awaited(l, gen)
<1> DEFINE b == detail_addr(w.gen)
           key == [item |-> w.item, ok |-> ok, from |-> w.epoch]
           n == L!Put(l, b, key)
<1>0. w.gen \in Gens /\ w.item \in Items /\ w.epoch \in Epochs /\ w \in DetailWorker
  BY DEF DetailWorker
<1>1. b \in L!Addr /\ b.req = w.gen
  BY <1>0, Addresses
<1>2. key \in DetailKey /\ key.from = ep /\ key.item = w.item
  BY <1>0 DEF DetailKey
<1>3. l.inflight[b].st = "running" /\ (w.gen = gen => w.item = want)
  BY DEF Requests, Workers
<1>4. ~l.inflight[b].stream
  BY <1>1 DEF Requests, Slots
<1> HIDE DEF b, key
<1>5. n = L!Terminate(l, b, "Data", key)
  BY <1>3 DEF L!Put, L!Complete
<1>6. Terminates(l, n, b, "Data", key)
  BY <1>1, <1>2, <1>4, <1>5, TerminateEffect
<1>7. PICK rec \in L!Record :
         /\ rec.terminal
         /\ rec.addr = b
         /\ L!Queued(n) = L!Queued(l) \cup {rec}
         /\ rec.lane = "Data" => ~l.inflight[b].cancelled /\ rec.key = key
  BY <1>6 DEF Terminates
<1>8. n \in L!Inner /\ n.inflight = [l.inflight EXCEPT ![b].st = "terminal"]
  BY <1>6 DEF Terminates
<1>9. /\ n.inflight[b].st = "terminal"
      /\ n.inflight[b].cancelled = l.inflight[b].cancelled
      /\ n.inflight[b].stream = l.inflight[b].stream
      /\ \A a \in L!Addr : a # b => n.inflight[a] = l.inflight[a]
  BY <1>1, <1>8 DEF L!Inner, L!Reservation
<1> HIDE DEF n
<1>10. Queue(n, ep, want)
  <2>1. \A r \in L!Queued(l) : r.addr \in L!Addr /\ r.addr # b
    BY <1>3 DEF Requests, Queue, L!Queued, L!Inner, L!Record
  <2>2. IsFiniteSet(L!Queued(n))
    BY <1>7, FS_AddElement DEF Requests, Queue
  <2>3. ASSUME NEW r \in L!Queued(n)
        PROVE  /\ r.terminal
               /\ n.inflight[r.addr].st = "terminal"
               /\ r.lane = "Data" => /\ ~n.inflight[r.addr].cancelled
                                     /\ r.key \in DetailKey
                                     /\ r.key.from = ep
                                     /\ r.key.item = want
    <3>1. CASE r = rec
      <4>1. rec.lane = "Data" => w.gen = gen
        BY <1>1, <1>3, <1>7 DEF Requests, Slots
      <4> QED
        BY <1>2, <1>3, <1>7, <1>9, <3>1, <4>1
    <3>2. CASE r \in L!Queued(l)
      <4>1. n.inflight[r.addr] = l.inflight[r.addr]
        BY <1>9, <2>1, <3>2
      <4> QED
        BY <3>2, <4>1 DEF Requests, Queue
    <3> QED
      BY <1>7, <3>1, <3>2
  <2> QED
    BY <2>2, <2>3 DEF Queue
<1>11. Slots(n, gen, cl, ep, ds \ {w})
  <2> SUFFICES ASSUME NEW a \in L!Addr
               PROVE  LET s == n.inflight[a]
                      IN  /\ ~s.stream
                          /\ s.st # "free" => a.req <= gen
                          /\ (s.st # "free" /\ ~s.cancelled) => a.req = gen /\ cl < a.req
                          /\ s.st = "terminal" => \E r \in L!Queued(n) : r.addr = a
                          /\ s.st = "running" =>
                                \E v \in ds \ {w} : v.epoch = ep /\ v.gen = a.req
    BY DEF Slots
  <2>1. CASE a = b
    <3>1. /\ b.req <= gen
          /\ ~l.inflight[b].cancelled => b.req = gen /\ cl < b.req
      BY <1>1, <1>3 DEF Requests, Slots
    <3> QED
      BY <1>4, <1>7, <1>9, <2>1, <3>1
  <2>2. CASE a # b
    <3>1. n.inflight[a] = l.inflight[a]
      BY <1>9, <2>2
    <3>2. /\ ~l.inflight[a].stream
          /\ l.inflight[a].st # "free" => a.req <= gen
          /\ (l.inflight[a].st # "free" /\ ~l.inflight[a].cancelled) =>
                a.req = gen /\ cl < a.req
          /\ l.inflight[a].st = "terminal" => \E r \in L!Queued(n) : r.addr = a
      BY <1>7 DEF Requests, Slots
    <3>3. ASSUME l.inflight[a].st = "running"
          PROVE  \E v \in ds \ {w} : v.epoch = ep /\ v.gen = a.req
      <4>1. PICK v \in ds : v.epoch = ep /\ v.gen = a.req
        BY <3>3 DEF Requests, Slots
      <4>2. v # w
        BY <1>1, <2>2, <4>1, Addresses
      <4> QED
        BY <4>1, <4>2
    <3> QED
      BY <3>1, <3>2, <3>3
  <2> QED
    BY <2>1, <2>2
<1>12. Workers(n, gen, want, ep, ds \ {w})
  <2>1. IsFiniteSet(ds \ {w})
    BY FS_RemoveElement DEF Requests, Workers
  <2>2. ASSUME NEW v \in ds \ {w}, v.epoch = ep
        PROVE  n.inflight[detail_addr(v.gen)].st = "running"
    <3>1. v.gen # w.gen
      BY <2>2 DEF Requests, Workers
    <3>2. detail_addr(v.gen) \in L!Addr /\ detail_addr(v.gen).req = v.gen
      BY Addresses DEF DetailWorker
    <3>3. n.inflight[detail_addr(v.gen)] = l.inflight[detail_addr(v.gen)]
      BY <1>1, <1>9, <3>1, <3>2
    <3> QED
      BY <2>2, <3>3 DEF Requests, Workers
  <2> QED
    BY <2>1, <2>2 DEF Requests, Workers
<1>13. Awaited(n, gen) <=> Awaited(l, gen)
  <2>1. detail_addr(gen) \in L!Addr
    BY Addresses
  <2>2. CASE detail_addr(gen) = b
    BY <1>3, <1>9, <2>2 DEF Awaited
  <2>3. CASE detail_addr(gen) # b
    BY <1>9, <2>1, <2>3 DEF Awaited
  <2> QED
    BY <2>2, <2>3
<1> QED
  BY <1>8, <1>10, <1>11, <1>12, <1>13 DEF Requests, n, b, key

\* What a drain hands out for request gen.
Mine(l, want, gen) ==
    {r \in L!Deliverable(l, {"metadata"}, want) : r.addr.req = gen}

\* The pump drains the landing: the answer of an awaited request is handed
\* out, or its worker still runs.
LEMMA TakeKeeps ==
    ASSUME NEW l \in L!Inner, NEW gen \in Gens, NEW item \in Items \cup {None},
           NEW ep \in Epochs, NEW ds \in SUBSET DetailWorker, NEW cl,
           NEW want, \A k \in DetailKey : k.item = item => k \in want,
           Requests(l, gen, item, ep, ds, cl)
    PROVE  LET n == L!TakeFor(l, {"metadata"}, want)
               mine == Mine(l, want, gen)
           IN  /\ n \in L!Inner
               /\ Requests(n, gen, item, ep, ds, cl)
               /\ Awaited(n, gen) => Awaited(l, gen) /\ mine = {}
               /\ Awaited(l, gen) => Awaited(n, gen) \/ mine # {}
               /\ mine # {} => Awaited(l, gen)
               /\ \A r \in mine : r.lane = "Data" =>
                     r.key \in DetailKey /\ r.key.from = ep /\ r.addr \in L!Addr
<1> DEFINE n == L!TakeFor(l, {"metadata"}, want)
           del == L!Deliverable(l, {"metadata"}, want)
           mine == Mine(l, want, gen)
           b == detail_addr(gen)
<1>0. b \in L!Addr /\ b.req = gen /\ b.to = "metadata"
  BY Addresses
<1>1. /\ n \in L!Inner
      /\ L!Queued(n) = {}
      /\ n.inflight = [a \in L!Addr |->
            IF a \in L!Terminated(l) THEN L!Free ELSE l.inflight[a]]
  BY TakeForEffect DEF Requests, Queue
<1>2. \A r \in L!Queued(l) : r.addr \in L!Addr
  BY DEF L!Queued, L!Inner, L!Record
<1>3. \A a \in L!Addr : a \in L!Terminated(l) <=> l.inflight[a].st = "terminal"
  <2>1. ASSUME NEW a \in L!Addr, l.inflight[a].st = "terminal"
        PROVE  a \in L!Terminated(l)
    <3>1. PICK r \in L!Queued(l) : r.addr = a
      BY <2>1 DEF Requests, Slots
    <3>2. r.terminal
      BY DEF Requests, Queue
    <3> QED
      BY <3>1, <3>2 DEF L!Terminated
  <2>2. ASSUME NEW a \in L!Terminated(l) PROVE l.inflight[a].st = "terminal"
    BY DEF L!Terminated, Requests, Queue
  <2> QED
    BY <2>1, <2>2
<1>4. L!Free.st = "free" /\ ~L!Free.stream
  BY DEF L!Free
<1> HIDE DEF n
<1>5. \A a \in L!Addr :
         /\ l.inflight[a].st = "terminal" => n.inflight[a].st = "free" /\ ~n.inflight[a].stream
         /\ l.inflight[a].st # "terminal" => n.inflight[a] = l.inflight[a]
  BY <1>1, <1>3, <1>4
<1>6. \A a \in L!Addr : n.inflight[a].st # "terminal"
  BY <1>5
<1>7. Queue(n, ep, item)
  BY <1>1, FS_EmptySet DEF Queue
<1>8. Slots(n, gen, cl, ep, ds)
  <2> SUFFICES ASSUME NEW a \in L!Addr
               PROVE  LET s == n.inflight[a]
                      IN  /\ ~s.stream
                          /\ s.st # "free" => a.req <= gen
                          /\ (s.st # "free" /\ ~s.cancelled) => a.req = gen /\ cl < a.req
                          /\ s.st = "terminal" => \E r \in L!Queued(n) : r.addr = a
                          /\ s.st = "running" =>
                                \E v \in ds : v.epoch = ep /\ v.gen = a.req
    BY DEF Slots
  <2>1. CASE l.inflight[a].st = "terminal"
    BY <1>5, <2>1
  <2>2. CASE l.inflight[a].st # "terminal"
    <3>1. n.inflight[a] = l.inflight[a]
      BY <1>5, <2>2
    <3> QED
      BY <2>2, <3>1 DEF Requests, Slots
  <2> QED
    BY <2>1, <2>2
<1>9. Workers(n, gen, item, ep, ds)
  <2>1. ASSUME NEW v \in ds, v.epoch = ep
        PROVE  n.inflight[detail_addr(v.gen)].st = "running"
    <3>1. detail_addr(v.gen) \in L!Addr
      BY Addresses DEF DetailWorker
    <3>2. l.inflight[detail_addr(v.gen)].st = "running"
      BY <2>1 DEF Requests, Workers
    <3> QED
      BY <1>5, <3>1, <3>2
  <2> QED
    BY <2>1 DEF Requests, Workers
<1>10. ASSUME NEW r \in mine
       PROVE  /\ r \in L!Queued(l) /\ r.addr = b
              /\ l.inflight[b].st = "terminal" /\ ~l.inflight[b].cancelled
              /\ r.lane = "Data" => r.key \in DetailKey /\ r.key.from = ep
  <2>1. r \in L!Queued(l) /\ ~l.inflight[r.addr].cancelled /\ r.addr.req = gen
    BY DEF Mine, L!Deliverable
  <2>2. r.addr = b
    BY <1>2, <2>1, Addresses
  <2> QED
    BY <2>1, <2>2 DEF Requests, Queue
<1>11. ASSUME Awaited(l, gen), l.inflight[b].st = "terminal"
       PROVE  mine # {}
  <2>1. PICK r \in L!Queued(l) : r.addr = b
    BY <1>0, <1>11 DEF Requests, Slots
  <2>2. r.lane = "Data" => r.key \in want
    BY <2>1 DEF Requests, Queue
  <2>3. r \in del
    BY <1>0, <1>11, <2>1, <2>2 DEF L!Deliverable, Awaited
  <2> QED
    BY <1>0, <2>1, <2>3 DEF Mine
<1>12. Awaited(n, gen) => Awaited(l, gen) /\ mine = {}
  BY <1>0, <1>5, <1>10 DEF Awaited
<1>13. Awaited(l, gen) => Awaited(n, gen) \/ mine # {}
  BY <1>0, <1>5, <1>11 DEF Awaited
<1>14. mine # {} => Awaited(l, gen)
  BY <1>10 DEF Awaited
<1>15. \A r \in mine : r.lane = "Data" =>
          r.key \in DetailKey /\ r.key.from = ep /\ r.addr \in L!Addr
  BY <1>0, <1>10
<1> HIDE DEF mine
<1> QED
  BY <1>1, <1>7, <1>8, <1>9, <1>12, <1>13, <1>14, <1>15 DEF Requests, n, mine

\* A worker of an adapter that was rotated away ends.
LEMMA OldWorkerKeeps ==
    ASSUME NEW l \in L!Inner, NEW gen, NEW want, NEW ep, NEW cl,
           NEW ds \in SUBSET DetailWorker, NEW w \in ds, w.epoch # ep,
           Requests(l, gen, want, ep, ds, cl)
    PROVE  Requests(l, gen, want, ep, ds \ {w}, cl)
<1>1. IsFiniteSet(ds \ {w})
  BY FS_RemoveElement DEF Requests, Workers
<1>2. Slots(l, gen, cl, ep, ds \ {w})
  <2>1. ASSUME NEW a \in L!Addr, l.inflight[a].st = "running"
        PROVE  \E v \in ds \ {w} : v.epoch = ep /\ v.gen = a.req
    BY <2>1 DEF Requests, Slots
  <2> QED
    BY <2>1 DEF Requests, Slots
<1> QED
  BY <1>1, <1>2 DEF Requests, Workers

\* A new adapter, as reset leaves it.
LEMMA NewLanding ==
    /\ L!New \in L!Inner
    /\ \A cl, gen, want : \A ep \in Epochs, ds \in SUBSET DetailWorker :
          (IsFiniteSet(ds) /\ (\A w \in ds : w.epoch <= ep /\ w.epoch # ep)
             /\ (\A v, w \in ds : (v.epoch = w.epoch /\ v.gen = w.gen) => v = w))
          => Requests(L!New, gen, want, ep, ds, cl)
<1>1. L!New \in L!Inner
  BY DEF L!New, L!Inner, L!Free, L!Reservation
<1>2. L!Queued(L!New) = {} /\ \A a \in L!Addr : L!New.inflight[a] = L!Free
  BY DEF L!New, L!Queued
<1>3. L!Free.st = "free" /\ ~L!Free.stream
  BY DEF L!Free
<1>4. \A ep, want : Queue(L!New, ep, want)
  BY <1>2, FS_EmptySet DEF Queue
<1>5. \A gen, cl, ep, ds : Slots(L!New, gen, cl, ep, ds)
  BY <1>2, <1>3 DEF Slots
<1> QED
  BY <1>1, <1>4, <1>5 DEF Requests, Workers

-----------------------------------------------------------------------------
(* The season half and the page.                                           *)

\* The types of the adapter's fields.
LEMMA Fields ==
    ASSUME NEW ad \in Adapter
    PROVE  /\ ad.landing \in L!Inner
           /\ ad.want \in Items \cup {None}
           /\ ad.detail_gen \in Gens /\ ad.detail_gen \in Nat
           /\ ad.detail_done \in Gens /\ ad.detail_done \in Nat
           /\ ad.season_gen \in SeasonGens /\ ad.season_gen \in Nat
           /\ ad.season_done \in SeasonGens /\ ad.season_done \in Nat
           /\ ad.season_result \in SeasonResult \cup {None}
BY MetadataAssumption DEF Adapter, Gens, SeasonGens

\* The types of a season fetch and of its result.
LEMMA SeasonFields ==
    /\ \A w \in SeasonWorker :
          /\ w.epoch \in Epochs /\ w.epoch \in Nat
          /\ w.gen \in SeasonGens /\ w.gen \in Nat
          /\ w.item \in Items /\ w.idx \in Seasons /\ w.prev \in Seasons
          /\ w.of \in Load
    /\ \A r \in SeasonResult :
          /\ r.gen \in SeasonGens /\ r.gen \in Nat
          /\ r.item \in Items /\ r.idx \in Seasons /\ r.prev \in Seasons
          /\ r.of \in Load /\ r.ok \in BOOLEAN
BY MetadataAssumption DEF SeasonWorker, SeasonResult, SeasonGens, Epochs

\* supersede_season settles the strip under a generation nobody fetches for.
LEMMA SupersedeSeason ==
    ASSUME NEW ad \in Adapter, ad.season_gen + 1 \in SeasonGens
    PROVE  LET n == supersede_season(ad)
           IN  /\ n \in Adapter
               /\ n.detail_gen = ad.detail_gen /\ n.detail_done = ad.detail_done
               /\ n.landing = ad.landing /\ n.want = ad.want
               /\ n.season_gen = ad.season_gen + 1
               /\ n.season_done = ad.season_gen + 1
               /\ n.season_result = None
BY DEF supersede_season, Adapter

\* supersede_detail settles the page under a generation nobody fetches for.
LEMMA SupersedeDetail ==
    ASSUME NEW ad \in Adapter, ad.detail_gen + 1 \in Gens,
           L!Clear(ad.landing) \in L!Inner
    PROVE  LET n == supersede_detail(ad)
           IN  /\ n \in Adapter
               /\ n.detail_gen = ad.detail_gen + 1
               /\ n.detail_done = ad.detail_gen + 1
               /\ n.landing = L!Clear(ad.landing)
               /\ n.want = None
               /\ n.season_gen = ad.season_gen
               /\ n.season_done = ad.season_done
               /\ n.season_result = ad.season_result
<1> DEFINE c == L!Clear(ad.landing)
<1>1. supersede_detail(ad) =
        [ad EXCEPT !.detail_gen = ad.detail_gen + 1,
                   !.detail_done = ad.detail_gen + 1, !.landing = c, !.want = None]
  BY DEF supersede_detail, Adapter
<1>2. c \in L!Inner
  OBVIOUS
<1> HIDE DEF c
<1>3. [ad EXCEPT !.detail_gen = ad.detail_gen + 1,
                 !.detail_done = ad.detail_gen + 1, !.landing = c, !.want = None]
      \in Adapter
  BY <1>2 DEF Adapter
<1> QED
  BY <1>1, <1>3 DEF Adapter, c

\* A superseded strip: no fetch and no result is of the new generation.
LEMMA TabsSuperseded ==
    ASSUME IInv, adapter' \in Adapter, epoch' = epoch, seasons' = seasons,
           adapter'.season_gen = adapter.season_gen + 1,
           adapter'.season_done = adapter.season_gen + 1,
           adapter'.season_result = None
    PROVE  Tabs'
<1>1. adapter.season_gen \in Nat
  BY Fields DEF IInv, TypeOK
<1>2. ASSUME NEW w \in seasons, w.epoch = epoch
      PROVE  w.gen <= adapter.season_gen + 1 /\ w.gen # adapter.season_gen + 1
  <2>1. w.gen \in Nat
    BY SeasonFields DEF IInv, TypeOK
  <2>2. w.gen <= adapter.season_gen
    BY <1>2 DEF IInv, Tabs, Current
  <2> QED
    BY <1>1, <2>1, <2>2
<1>3. \A w \in seasons : w.epoch <= epoch
  BY DEF IInv, Tabs
<1>4. SeasonSpinnerIsOwed'
  BY DEF SeasonSpinnerIsOwed, season_loading
<1> QED
  BY <1>2, <1>3, <1>4 DEF Tabs, Current

\* A step that leaves the strip alone and opens no other page.
LEMMA TabsKept ==
    ASSUME IInv, epoch' = epoch, seasons' = seasons,
           adapter'.season_gen = adapter.season_gen,
           adapter'.season_done = adapter.season_done,
           adapter'.season_result = adapter.season_result,
           current' = None \/ current' = current
    PROVE  Tabs'
<1>1. SeasonSpinnerIsOwed'
  BY DEF IInv, Tabs, SeasonSpinnerIsOwed, season_loading
<1> QED
  BY <1>1 DEF IInv, Tabs, Current

\* A step that leaves the detail half alone.
LEMMA RequestsKept ==
    ASSUME IInv, epoch' = epoch, details' = details, closed' = closed,
           adapter'.landing = adapter.landing,
           adapter'.detail_gen = adapter.detail_gen,
           adapter'.detail_done = adapter.detail_done,
           adapter'.want = adapter.want
    PROVE  /\ Requests(adapter.landing, adapter.detail_gen, adapter.want, epoch,
                       details, closed)'
           /\ Spinner'
           /\ Awaited(adapter.landing, adapter.detail_gen)' <=>
                 Awaited(adapter.landing, adapter.detail_gen)
<1>1. Requests(adapter.landing, adapter.detail_gen, adapter.want, epoch,
               details, closed)'
  BY DEF IInv, Requests, Queue, Slots, Workers
<1>2. Awaited(adapter.landing, adapter.detail_gen)' <=>
         Awaited(adapter.landing, adapter.detail_gen)
  BY DEF Awaited
<1>3. Spinner'
  BY <1>2 DEF IInv, Spinner, detail_loading
<1> QED
  BY <1>1, <1>2, <1>3

\* An awaited request was made after the last close.
LEMMA AwaitedIsNew ==
    ASSUME IInv, Awaited(adapter.landing, adapter.detail_gen)
    PROVE  closed < adapter.detail_gen
<1>1. detail_addr(adapter.detail_gen) \in L!Addr
      /\ detail_addr(adapter.detail_gen).req = adapter.detail_gen
  BY Addresses, Fields DEF IInv, TypeOK
<1> QED
  BY <1>1 DEF IInv, Requests, Slots, Awaited

\* A command may start one more season generation, whatever page is awaited.
LEMMA CommandIsCounted ==
    ASSUME IInv, adapter.season_gen < MaxSeasonGen
    PROVE  /\ adapter.season_gen + 1 \in SeasonGens
           /\ adapter.season_gen + 1 <= MaxSeasonGen + adapter.detail_gen
           /\ Awaited(adapter.landing, adapter.detail_gen) =>
                 adapter.season_gen + 1 < MaxSeasonGen + adapter.detail_gen
<1>1. adapter.season_gen \in Nat /\ adapter.detail_gen \in Nat /\ closed \in Nat
  BY Fields, MetadataAssumption DEF IInv, TypeOK, Gens
<1>2. Awaited(adapter.landing, adapter.detail_gen) => closed < adapter.detail_gen
  BY AwaitedIsNew
<1>3. adapter.season_gen + 1 \in SeasonGens
  BY <1>1, MetadataAssumption DEF SeasonGens
<1> QED
  BY <1>1, <1>2, <1>3, MetadataAssumption

-----------------------------------------------------------------------------
(* The actions.                                                            *)

\* The invariant holds before the first request.
LEMMA InitIInv == Init => IInv
<1> SUFFICES ASSUME Init PROVE IInv
  OBVIOUS
<1>1. 0 \in Gens /\ 0 \in SeasonGens /\ 0 \in Epochs
  BY MetadataAssumption DEF Gens, SeasonGens, Epochs
<1>2. NewAdapter \in Adapter
  BY <1>1, NewLanding DEF NewAdapter, Adapter
<1>3. /\ adapter.landing = L!New /\ adapter.detail_gen = 0 /\ adapter.detail_done = 0
      /\ adapter.season_gen = 0 /\ adapter.season_result = None
      /\ adapter.want = None
  BY DEF Init, NewAdapter
<1>4. TypeOK
  BY <1>1, <1>2 DEF Init, TypeOK
<1>5. Requests(adapter.landing, adapter.detail_gen, adapter.want, epoch,
               details, closed)
  BY <1>1, <1>3, NewLanding, FS_EmptySet DEF Init
<1>6. ~Awaited(adapter.landing, adapter.detail_gen)
  BY <1>1, <1>3, Addresses DEF Awaited, L!New, L!Free
<1>7. Spinner
  BY <1>3, <1>6 DEF Spinner, detail_loading, Init
<1>8. Tabs
  BY <1>3 DEF Tabs, Init, SeasonSpinnerIsOwed, season_loading
<1>9. Counted
  BY <1>3, <1>6, MetadataAssumption DEF Counted
<1> QED
  BY <1>4, <1>5, <1>7, <1>8, <1>9 DEF IInv, NothingReopens, EpisodesBelongToThePage, Init

\* What begin_detail_request leaves before the admission.
LEMMA NewGenerationEffect ==
    ASSUME IInv, NEW item \in Items, adapter.detail_gen < MaxGen,
           adapter.season_gen < MaxSeasonGen
    PROVE  LET ad == NewGeneration(adapter, item)
           IN  /\ ad \in Adapter
               /\ ad.detail_gen = adapter.detail_gen + 1
               /\ ad.detail_gen \in Gens
               /\ ad.detail_done = adapter.detail_done
               /\ ad.landing = L!Clear(adapter.landing)
               /\ ad.want = item
               /\ ad.season_gen = adapter.season_gen + 1
               /\ ad.season_done = adapter.season_gen + 1
               /\ ad.season_result = None
<1> DEFINE c == L!Clear(adapter.landing)
           s == supersede_season(adapter)
<1>1. adapter \in Adapter /\ adapter.detail_gen \in Nat /\ adapter.detail_gen \in Gens
      /\ adapter.landing \in L!Inner
  BY Fields DEF IInv, TypeOK
<1>2. adapter.detail_gen + 1 \in Gens
  BY <1>1, MetadataAssumption DEF Gens
<1>3. adapter.season_gen + 1 \in SeasonGens
  BY CommandIsCounted
<1>4. /\ s \in Adapter
      /\ s.detail_gen = adapter.detail_gen /\ s.detail_done = adapter.detail_done
      /\ s.landing = adapter.landing /\ s.want = adapter.want
      /\ s.season_gen = adapter.season_gen + 1
      /\ s.season_done = adapter.season_gen + 1
      /\ s.season_result = None
  BY <1>1, <1>3, SupersedeSeason
<1>5. c \in L!Inner
  BY <1>1, ClearEffect DEF IInv, Requests, Queue
<1>6. NewGeneration(adapter, item) =
        [s EXCEPT !.detail_gen = adapter.detail_gen + 1, !.landing = c, !.want = item]
  BY <1>4 DEF NewGeneration, Adapter
<1> HIDE DEF c, s
<1>7. [s EXCEPT !.detail_gen = adapter.detail_gen + 1, !.landing = c, !.want = item]
      \in Adapter
  BY <1>2, <1>4, <1>5 DEF Adapter
<1> QED
  BY <1>2, <1>4, <1>6, <1>7 DEF Adapter, c

\* Facts every branch of a request shares: the strip is superseded, the
\* generation is newer than the last close, and the page on screen stays.
LEMMA RequestHolds ==
    ASSUME IInv, NEW item \in Items,
           adapter.detail_gen < MaxGen, adapter.season_gen < MaxSeasonGen,
           adapter' \in Adapter, details' \subseteq DetailWorker,
           adapter'.detail_gen = adapter.detail_gen + 1,
           adapter'.detail_done \in {adapter.detail_done, adapter.detail_gen + 1},
           adapter'.season_gen = adapter.season_gen + 1,
           adapter'.season_done = adapter.season_gen + 1,
           adapter'.season_result = None,
           Requests(adapter'.landing, adapter'.detail_gen, adapter'.want, epoch,
                    details', closed),
           adapter'.detail_done = adapter.detail_gen + 1
             \/ Awaited(adapter'.landing, adapter'.detail_gen),
           UNCHANGED <<current, epoch, seasons, closed>>
    PROVE  IInv'
<1>1. adapter.season_gen \in Nat /\ adapter.detail_gen \in Nat /\ closed \in Nat
      /\ adapter.detail_done \in Nat
  BY Fields, MetadataAssumption DEF IInv, TypeOK, Gens
<1>2. TypeOK'
  BY DEF IInv, TypeOK
<1>3. Tabs'
  BY TabsSuperseded
<1>4. Spinner'
  BY <1>1 DEF IInv, Spinner, detail_loading
<1>5. Counted'
  BY <1>1, MetadataAssumption DEF Counted
<1>6. NothingReopens' /\ EpisodesBelongToThePage'
  BY DEF IInv, NothingReopens, EpisodesBelongToThePage
<1> QED
  BY <1>2, <1>3, <1>4, <1>5, <1>6 DEF IInv

\* request_detail_with_spawn: rejected, spawned or refused.
LEMMA RequestDetailIInv ==
    ASSUME IInv, NEW item \in Items, NEW spawned \in Spawns,
           RequestDetail(item, spawned)
    PROVE  IInv'
<1> DEFINE ad == NewGeneration(adapter, item)
           gen == adapter.detail_gen + 1
           addr == detail_addr(ad.detail_gen)
           l == L!Clear(adapter.landing)
           admitted == L!CanAdmit(ad.landing, addr)
           held == L!AdmitMode(ad.landing, addr, FALSE)
           w == [epoch |-> epoch, gen |-> ad.detail_gen, item |-> item]
<1>0. adapter.detail_gen < MaxGen /\ adapter.season_gen < MaxSeasonGen
      /\ UNCHANGED <<current, epoch, seasons, closed>>
  BY DEF RequestDetail
<1>1. /\ ad \in Adapter
      /\ ad.detail_gen = gen /\ gen \in Gens
      /\ ad.detail_done = adapter.detail_done
      /\ ad.landing = l /\ ad.want = item
      /\ ad.season_gen = adapter.season_gen + 1
      /\ ad.season_done = adapter.season_gen + 1
      /\ ad.season_result = None
  BY <1>0, NewGenerationEffect
<1>2. adapter.detail_gen \in Gens /\ adapter.detail_gen \in Nat
      /\ adapter.landing \in L!Inner /\ epoch \in Epochs
      /\ details \in SUBSET DetailWorker /\ closed \in Nat
  BY Fields, MetadataAssumption DEF IInv, TypeOK, Gens
<1>3. /\ l \in L!Inner
      /\ Requests(l, gen, item, epoch, details, closed)
      /\ l.inflight[detail_addr(gen)].st = "free"
  BY <1>1, <1>2, ClearKeeps DEF IInv
<1>4. closed < gen
  BY <1>2 DEF IInv, Spinner
<1>5. w \in DetailWorker
  BY <1>1, <1>2 DEF DetailWorker
<1>6. CASE ~admitted
  <2>1. adapter' = [ad EXCEPT !.detail_done = gen] /\ details' = details
    BY <1>1, <1>6 DEF RequestDetail
  <2> HIDE DEF ad, l, gen
  <2>2. /\ adapter' \in Adapter
        /\ adapter'.detail_gen = gen /\ adapter'.detail_done = gen
        /\ adapter'.landing = l /\ adapter'.want = item
        /\ adapter'.season_gen = adapter.season_gen + 1
        /\ adapter'.season_done = adapter.season_gen + 1
        /\ adapter'.season_result = None
    BY <1>1, <2>1 DEF Adapter
  <2> QED
    BY <1>0, <1>2, <1>3, <2>1, <2>2, RequestHolds DEF gen
<1>7. CASE admitted /\ spawned
  <2>1. adapter' = [ad EXCEPT !.landing = held] /\ details' = details \cup {w}
    BY <1>7 DEF RequestDetail
  <2>2. /\ held \in L!Inner
        /\ Requests(held, gen, item, epoch, details \cup {w}, closed)
        /\ Awaited(held, gen)
    <3> DEFINE h == L!AdmitMode(l, detail_addr(gen), FALSE)
               v == [epoch |-> epoch, gen |-> gen, item |-> item]
    <3>1. held = h /\ w = v
      BY <1>1
    <3>2. L!CanAdmit(l, detail_addr(gen))
      BY <1>1, <1>7
    <3> HIDE DEF l, gen, ad
    <3>3. /\ h \in L!Inner
          /\ Requests(h, gen, item, epoch, details \cup {v}, closed)
          /\ Awaited(h, gen)
      BY <1>1, <1>2, <1>3, <1>4, <3>2, AdmitKeeps
    <3> HIDE DEF h, v, held, w
    <3> QED
      BY <3>1, <3>3
  <2> HIDE DEF ad, l, gen, held, w
  <2>3. /\ adapter' \in Adapter
        /\ adapter'.detail_gen = gen /\ adapter'.detail_done = adapter.detail_done
        /\ adapter'.landing = held /\ adapter'.want = item
        /\ adapter'.season_gen = adapter.season_gen + 1
        /\ adapter'.season_done = adapter.season_gen + 1
        /\ adapter'.season_result = None
    BY <1>1, <2>1, <2>2 DEF Adapter
  <2>4. details' \subseteq DetailWorker
    BY <1>2, <1>5, <2>1
  <2> QED
    BY <1>0, <2>1, <2>2, <2>3, <2>4, RequestHolds DEF gen
<1>8. CASE admitted /\ ~spawned
  <2> DEFINE n == L!Refused(held, addr)
  <2>1. adapter' = [ad EXCEPT !.landing = n] /\ details' = details
    BY <1>8 DEF RequestDetail
  <2>2. /\ n \in L!Inner
        /\ Requests(n, gen, item, epoch, details, closed)
        /\ Awaited(n, gen)
    BY <1>1, <1>2, <1>3, <1>4, <1>8, RefuseKeeps
  <2> HIDE DEF ad, l, gen, n
  <2>3. /\ adapter' \in Adapter
        /\ adapter'.detail_gen = gen /\ adapter'.detail_done = adapter.detail_done
        /\ adapter'.landing = n /\ adapter'.want = item
        /\ adapter'.season_gen = adapter.season_gen + 1
        /\ adapter'.season_done = adapter.season_gen + 1
        /\ adapter'.season_result = None
    BY <1>1, <2>1, <2>2 DEF Adapter
  <2> QED
    BY <1>0, <1>2, <2>1, <2>2, <2>3, RequestHolds DEF gen
<1> QED
  BY <1>6, <1>7, <1>8

\* clear closes the page and cancels what is out.
LEMMA ClearIInv == ASSUME IInv, Clear PROVE IInv'
<1> DEFINE l == L!Clear(adapter.landing)
<1>1. /\ adapter \in Adapter /\ adapter.landing \in L!Inner
      /\ adapter.detail_gen \in Gens /\ adapter.detail_gen \in Nat
      /\ adapter.season_gen \in Nat
      /\ epoch \in Epochs /\ details \in SUBSET DetailWorker
  BY Fields DEF IInv, TypeOK
<1>2. adapter.detail_gen + 1 \in Gens
  BY <1>1, MetadataAssumption DEF Clear, Gens
<1>3. /\ l \in L!Inner
      /\ Requests(l, adapter.detail_gen + 1, None, epoch, details, closed')
      /\ l.inflight[detail_addr(adapter.detail_gen + 1)].st = "free"
  BY <1>1, <1>2, ClearKeeps DEF IInv
<1>4. /\ adapter' \in Adapter
      /\ adapter'.detail_gen = adapter.detail_gen + 1
      /\ adapter'.detail_done = adapter.detail_gen + 1
      /\ adapter'.landing = l
      /\ adapter'.want = None
      /\ adapter'.season_gen = adapter.season_gen
      /\ adapter'.season_done = adapter.season_done
      /\ adapter'.season_result = adapter.season_result
  BY <1>1, <1>2, <1>3, SupersedeDetail DEF Clear
<1>5. /\ current' = None /\ closed' = adapter'.detail_gen
      /\ epoch' = epoch /\ details' = details /\ seasons' = seasons
  BY DEF Clear
<1> HIDE DEF l
<1>6. TypeOK'
  BY <1>1, <1>2, <1>4, <1>5 DEF IInv, TypeOK
<1>7. Tabs'
  BY <1>4, <1>5, TabsKept
<1>8. ~Awaited(adapter.landing, adapter.detail_gen)'
  BY <1>3, <1>4 DEF Awaited
<1>9. Spinner'
  BY <1>1, <1>4, <1>5, <1>8 DEF Spinner, detail_loading
<1>10. Counted'
  BY <1>1, <1>4, <1>8, MetadataAssumption DEF IInv, Counted
<1>11. NothingReopens' /\ EpisodesBelongToThePage'
  BY <1>5 DEF NothingReopens, EpisodesBelongToThePage
<1> QED
  BY <1>3, <1>4, <1>5, <1>6, <1>7, <1>9, <1>10, <1>11 DEF IInv

\* A profile switch starts with an adapter no worker knows.
LEMMA ResetIInv == ASSUME IInv, Reset PROVE IInv'
<1> DEFINE l == L!Clear(L!New)
<1>1. /\ epoch \in Nat /\ epoch + 1 \in Epochs /\ 0 \in Gens /\ 0 + 1 \in Gens
      /\ 0 \in SeasonGens /\ details \in SUBSET DetailWorker
  BY MetadataAssumption DEF IInv, TypeOK, Reset, Epochs, Gens, SeasonGens
<1>2. NewAdapter \in Adapter
  BY <1>1, NewLanding DEF NewAdapter, Adapter
<1>3. /\ NewAdapter.landing = L!New /\ NewAdapter.detail_gen = 0
      /\ NewAdapter.season_gen = 0 /\ NewAdapter.season_done = 0
      /\ NewAdapter.season_result = None
  BY DEF NewAdapter
<1>4. \A w \in details : w.epoch <= epoch + 1 /\ w.epoch # epoch + 1
  <2>1. ASSUME NEW w \in details PROVE w.epoch \in Nat
    BY MetadataAssumption DEF IInv, TypeOK, DetailWorker, Epochs
  <2>2. ASSUME NEW w \in details PROVE w.epoch <= epoch
    BY DEF IInv, Requests, Workers
  <2> QED
    BY <1>1, <2>1, <2>2
<1>5. Requests(L!New, 0, None, epoch + 1, details, 0)
  <2>1. IsFiniteSet(details)
        /\ \A v, w \in details : (v.epoch = w.epoch /\ v.gen = w.gen) => v = w
    BY DEF IInv, Requests, Workers
  <2> QED
    BY <1>1, <1>4, <2>1, NewLanding
<1>6. /\ l \in L!Inner
      /\ Requests(l, 0 + 1, None, epoch + 1, details, 1)
      /\ l.inflight[detail_addr(0 + 1)].st = "free"
  BY <1>1, <1>5, NewLanding, ClearKeeps
<1>7. /\ adapter' \in Adapter
      /\ adapter'.detail_gen = 1 /\ adapter'.detail_done = 1
      /\ adapter'.landing = l /\ adapter'.want = None
      /\ adapter'.season_gen = 0 /\ adapter'.season_done = 0
      /\ adapter'.season_result = None
  <2>1. adapter' = supersede_detail(NewAdapter)
    BY DEF Reset
  <2> HIDE DEF NewAdapter
  <2> QED
    BY <1>1, <1>2, <1>3, <1>6, <2>1, SupersedeDetail
<1>8. /\ current' = None /\ closed' = adapter'.detail_gen
      /\ epoch' = epoch + 1 /\ details' = details /\ seasons' = seasons
  BY DEF Reset
<1> HIDE DEF l
<1>9. TypeOK'
  BY <1>1, <1>7, <1>8 DEF IInv, TypeOK
<1>10. Tabs'
  <2>1. ASSUME NEW w \in seasons
        PROVE  w.epoch <= epoch + 1 /\ w.epoch # epoch + 1
    <3>1. w.epoch \in Nat
      BY SeasonFields DEF IInv, TypeOK
    <3>2. w.epoch <= epoch
      BY DEF IInv, Tabs
    <3> QED
      BY <1>1, <3>1, <3>2
  <2>2. SeasonSpinnerIsOwed'
    BY <1>7 DEF SeasonSpinnerIsOwed, season_loading
  <2> QED
    BY <1>7, <1>8, <2>1, <2>2 DEF Tabs
<1>11. ~Awaited(adapter.landing, adapter.detail_gen)'
  BY <1>6, <1>7 DEF Awaited
<1>12. Spinner'
  BY <1>7, <1>8 DEF Spinner, detail_loading
<1>13. Counted'
  BY <1>7, <1>11, MetadataAssumption DEF Counted
<1>14. NothingReopens' /\ EpisodesBelongToThePage'
  BY <1>8 DEF NothingReopens, EpisodesBelongToThePage
<1> QED
  BY <1>6, <1>7, <1>8, <1>9, <1>10, <1>12, <1>13, <1>14 DEF IInv

\* load_season starts a fetch for the page that is open.
LEMMA LoadSeasonIInv ==
    ASSUME IInv, NEW idx \in Seasons, NEW spawned \in Spawns, LoadSeason(idx, spawned)
    PROVE  IInv'
<1> DEFINE gen == adapter.season_gen + 1
           w == [epoch |-> epoch, gen |-> gen, item |-> current.item,
                 idx |-> idx, prev |-> current.cur_season, of |-> current.load]
<1>1. /\ adapter \in Adapter /\ adapter.season_gen \in Nat
      /\ current \in Detail /\ epoch \in Epochs /\ epoch \in Nat
      /\ adapter.season_gen < MaxSeasonGen
      /\ epoch' = epoch /\ details' = details /\ closed' = closed
  BY Fields, MetadataAssumption DEF IInv, TypeOK, LoadSeason, Epochs
<1>2. /\ gen \in SeasonGens
      /\ gen <= MaxSeasonGen + adapter.detail_gen
      /\ Awaited(adapter.landing, adapter.detail_gen) =>
            gen < MaxSeasonGen + adapter.detail_gen
  BY <1>1, CommandIsCounted
<1>3. /\ current' \in Detail /\ current'.load = current.load
      /\ current'.episodes = current.episodes
  BY <1>1 DEF LoadSeason, Detail
<1>4. None \notin Detail \/ current # None
  BY DEF LoadSeason
<1>5. w \in SeasonWorker /\ w.epoch = epoch /\ w.gen = gen /\ w.of = current.load
  BY <1>1, <1>2 DEF SeasonWorker, Detail
<1>6. /\ adapter' \in Adapter
      /\ adapter'.landing = adapter.landing /\ adapter'.want = adapter.want
      /\ adapter'.detail_gen = adapter.detail_gen
      /\ adapter'.detail_done = adapter.detail_done
      /\ adapter'.season_gen = gen
      /\ adapter'.season_result = adapter.season_result
  BY <1>1, <1>2 DEF LoadSeason, Adapter
<1>7. \/ seasons' = seasons \cup {w}
      \/ seasons' = seasons /\ adapter'.season_done = gen
  BY <1>1, <1>2 DEF LoadSeason, Adapter
<1>8. \A v \in seasons : v.epoch <= epoch /\ (v.epoch = epoch => v.gen <= adapter.season_gen)
                         /\ v.gen \in Nat
  BY SeasonFields DEF IInv, TypeOK, Tabs, Current
<1>9. adapter.season_result # None =>
         adapter.season_result.gen <= adapter.season_gen
         /\ adapter.season_result.gen \in Nat
  BY <1>1, Fields, SeasonFields DEF IInv, Tabs, Current
<1> HIDE DEF w
<1>10. TypeOK'
  BY <1>1, <1>3, <1>5, <1>6, <1>7 DEF IInv, TypeOK
<1>11. SeasonSpinnerIsOwed'
  BY <1>1, <1>5, <1>6, <1>7 DEF SeasonSpinnerIsOwed, season_loading
<1>12. ASSUME NEW v \in seasons', v.epoch = epoch'
       PROVE  Current(v, adapter'.season_gen, current')
  <2>1. CASE v = w
    BY <1>1, <1>2, <1>3, <1>5, <1>6, <2>1 DEF Current
  <2>2. CASE v \in seasons
    BY <1>1, <1>6, <1>8, <1>12, <2>2 DEF Current
  <2> QED
    BY <1>7, <2>1, <2>2
<1>13. \A v \in seasons' : v.epoch <= epoch'
  BY <1>1, <1>5, <1>7, <1>8
<1>14. adapter'.season_result # None =>
          Current(adapter'.season_result, adapter'.season_gen, current')
  BY <1>1, <1>6, <1>9 DEF Current
<1>15. Tabs'
  BY <1>11, <1>12, <1>13, <1>14 DEF Tabs
<1>16. /\ Requests(adapter.landing, adapter.detail_gen, adapter.want, epoch,
                   details, closed)'
       /\ Spinner'
       /\ Awaited(adapter.landing, adapter.detail_gen)' <=>
             Awaited(adapter.landing, adapter.detail_gen)
  BY <1>1, <1>6, RequestsKept
<1>17. Counted'
  BY <1>2, <1>6, <1>16 DEF Counted
<1>18. NothingReopens' /\ EpisodesBelongToThePage'
  BY <1>1, <1>3, <1>4 DEF IInv, NothingReopens, EpisodesBelongToThePage, LoadSeason
<1> QED
  BY <1>10, <1>15, <1>16, <1>17, <1>18 DEF IInv

\* load_season_now lists the season itself.
LEMMA LoadSeasonNowIInv ==
    ASSUME IInv, NEW idx \in Seasons, LoadSeasonNow(idx)
    PROVE  IInv'
<1>1. /\ adapter \in Adapter /\ current \in Detail /\ current # None
      /\ adapter.season_gen < MaxSeasonGen
      /\ epoch' = epoch /\ details' = details /\ closed' = closed
      /\ seasons' = seasons
  BY DEF IInv, TypeOK, LoadSeasonNow
<1>2. /\ adapter.season_gen + 1 \in SeasonGens
      /\ adapter.season_gen + 1 <= MaxSeasonGen + adapter.detail_gen
      /\ Awaited(adapter.landing, adapter.detail_gen) =>
            adapter.season_gen + 1 < MaxSeasonGen + adapter.detail_gen
  BY <1>1, CommandIsCounted
<1>3. /\ adapter' \in Adapter
      /\ adapter'.landing = adapter.landing /\ adapter'.want = adapter.want
      /\ adapter'.detail_gen = adapter.detail_gen
      /\ adapter'.detail_done = adapter.detail_done
      /\ adapter'.season_gen = adapter.season_gen + 1
      /\ adapter'.season_done = adapter.season_gen + 1
      /\ adapter'.season_result = None
  BY <1>1, <1>2, SupersedeSeason DEF LoadSeasonNow
<1>4. [season |-> idx, of |-> current.load] \in Episodes
  BY <1>1 DEF Episodes, Detail
<1>5. /\ current' \in Detail /\ current'.load = current.load
      /\ current'.episodes.of = current.load
  BY <1>1, <1>4 DEF LoadSeasonNow, Detail
<1>6. TypeOK'
  BY <1>1, <1>3, <1>5 DEF IInv, TypeOK
<1>7. Tabs'
  BY <1>1, <1>3, TabsSuperseded
<1>8. /\ Requests(adapter.landing, adapter.detail_gen, adapter.want, epoch,
                  details, closed)'
      /\ Spinner'
      /\ Awaited(adapter.landing, adapter.detail_gen)' <=>
            Awaited(adapter.landing, adapter.detail_gen)
  BY <1>1, <1>3, RequestsKept
<1>9. Counted'
  BY <1>2, <1>3, <1>8 DEF Counted
<1>10. NothingReopens' /\ EpisodesBelongToThePage'
  BY <1>1, <1>5 DEF IInv, NothingReopens, EpisodesBelongToThePage
<1> QED
  BY <1>6, <1>7, <1>8, <1>9, <1>10 DEF IInv

\* A detail worker answers into the adapter it captured.
LEMMA DetailWorkerLandsIInv ==
    ASSUME IInv, NEW w \in details, NEW ok \in BOOLEAN, DetailWorkerLands(w, ok)
    PROVE  IInv'
<1> DEFINE l == adapter.landing
           n == L!Put(l, detail_addr(w.gen),
                      [item |-> w.item, ok |-> ok, from |-> w.epoch])
           gen == adapter.detail_gen
<1>1. /\ adapter \in Adapter /\ l \in L!Inner /\ gen \in Gens /\ epoch \in Epochs
      /\ details \in SUBSET DetailWorker
  BY Fields DEF IInv, TypeOK
<1>2. /\ details' = details \ {w} /\ current' = current /\ epoch' = epoch
      /\ seasons' = seasons /\ closed' = closed
  BY DEF DetailWorkerLands
<1>3. /\ adapter' \in Adapter
      /\ adapter'.want = adapter.want
      /\ adapter'.detail_gen = adapter.detail_gen
      /\ adapter'.detail_done = adapter.detail_done
      /\ adapter'.season_gen = adapter.season_gen
      /\ adapter'.season_done = adapter.season_done
      /\ adapter'.season_result = adapter.season_result
      /\ Requests(adapter'.landing, gen, adapter.want, epoch, details \ {w}, closed)
      /\ Awaited(adapter'.landing, gen) <=> Awaited(l, gen)
  <2>1. CASE w.epoch = epoch
    <3>1. adapter' = [adapter EXCEPT !.landing = n]
      BY <2>1 DEF DetailWorkerLands, Answered
    <3>2. /\ n \in L!Inner
          /\ Requests(n, gen, adapter.want, epoch, details \ {w}, closed)
          /\ Awaited(n, gen) <=> Awaited(l, gen)
      BY <1>1, <2>1, PutKeeps DEF IInv
    <3> HIDE DEF n
    <3>3. /\ adapter' \in Adapter
          /\ adapter'.landing = n
          /\ adapter'.want = adapter.want
          /\ adapter'.detail_gen = adapter.detail_gen
          /\ adapter'.detail_done = adapter.detail_done
          /\ adapter'.season_gen = adapter.season_gen
          /\ adapter'.season_done = adapter.season_done
          /\ adapter'.season_result = adapter.season_result
      BY <1>1, <3>1, <3>2 DEF Adapter
    <3> QED
      BY <3>2, <3>3
  <2>2. CASE w.epoch # epoch
    <3>1. adapter' = adapter
      BY <2>2 DEF DetailWorkerLands, Answered
    <3>2. Requests(l, gen, adapter.want, epoch, details \ {w}, closed)
      BY <1>1, <2>2, OldWorkerKeeps DEF IInv
    <3> QED
      BY <1>1, <3>1, <3>2
  <2> QED
    BY <2>1, <2>2
<1>4. TypeOK'
  BY <1>1, <1>2, <1>3 DEF IInv, TypeOK
<1>5. Tabs'
  BY <1>2, <1>3, TabsKept
<1>6. Spinner'
  BY <1>2, <1>3 DEF IInv, Spinner, detail_loading
<1>7. Counted'
  BY <1>3 DEF IInv, Counted
<1>8. NothingReopens' /\ EpisodesBelongToThePage'
  BY <1>2 DEF IInv, NothingReopens, EpisodesBelongToThePage
<1> QED
  BY <1>2, <1>3, <1>4, <1>5, <1>6, <1>7, <1>8 DEF IInv

\* A season worker answers; a newer result in the slot stays.
LEMMA SeasonWorkerLandsIInv ==
    ASSUME IInv, NEW w \in seasons, NEW ok \in BOOLEAN, SeasonWorkerLands(w, ok)
    PROVE  IInv'
<1> DEFINE r == [gen |-> w.gen, item |-> w.item, idx |-> w.idx, prev |-> w.prev,
                 of |-> w.of, ok |-> ok]
           old == adapter.season_result
<1>1. /\ adapter \in Adapter /\ adapter.season_gen \in Nat
      /\ old \in SeasonResult \cup {None}
      /\ w \in SeasonWorker
      /\ w.gen \in SeasonGens /\ w.gen \in Nat
  BY Fields, SeasonFields DEF IInv, TypeOK
<1>2. /\ seasons' = seasons \ {w} /\ current' = current /\ epoch' = epoch
      /\ details' = details /\ closed' = closed
  BY DEF SeasonWorkerLands
<1>3. r \in SeasonResult /\ r.gen = w.gen /\ r.of = w.of
  BY <1>1, SeasonFields DEF SeasonResult
<1>4. \/ /\ w.epoch = epoch
         /\ old = None \/ old.gen < w.gen
         /\ adapter' = [adapter EXCEPT !.season_result = r]
      \/ /\ w.epoch = epoch
         /\ old # None /\ ~(old.gen < w.gen)
         /\ adapter' = adapter
      \/ w.epoch # epoch /\ adapter' = adapter
  BY <1>3 DEF SeasonWorkerLands, Answered, land_season
<1> HIDE DEF r
<1>5. /\ adapter' \in Adapter
      /\ adapter'.landing = adapter.landing /\ adapter'.want = adapter.want
      /\ adapter'.detail_gen = adapter.detail_gen
      /\ adapter'.detail_done = adapter.detail_done
      /\ adapter'.season_gen = adapter.season_gen
      /\ adapter'.season_done = adapter.season_done
  BY <1>1, <1>3, <1>4 DEF Adapter
<1>6. \/ w.epoch = epoch /\ (old = None \/ old.gen < w.gen)
         /\ adapter'.season_result = r
      \/ w.epoch = epoch /\ old # None /\ ~(old.gen < w.gen)
         /\ adapter'.season_result = old
      \/ w.epoch # epoch /\ adapter'.season_result = old
  BY <1>1, <1>4 DEF Adapter
<1>7. w.epoch = epoch => Current(w, adapter.season_gen, current)
  BY DEF IInv, Tabs
<1>8. old # None => Current(old, adapter.season_gen, current) /\ old.gen \in Nat
  BY <1>1, SeasonFields DEF IInv, Tabs
<1>9. TypeOK'
  BY <1>1, <1>2, <1>5 DEF IInv, TypeOK
<1>10. adapter'.season_result # None =>
          Current(adapter'.season_result, adapter'.season_gen, current')
  BY <1>2, <1>3, <1>5, <1>6, <1>7, <1>8 DEF Current
<1>11. \A v \in seasons' : /\ v.epoch <= epoch'
                           /\ v.epoch = epoch' => Current(v, adapter'.season_gen, current')
  BY <1>2, <1>5 DEF IInv, Tabs, Current
<1>12. SeasonSpinnerIsOwed'
  <2> SUFFICES ASSUME season_loading(adapter)
               PROVE  \/ \E v \in seasons \ {w} :
                             v.epoch = epoch /\ v.gen = adapter.season_gen
                      \/ /\ adapter'.season_result # None
                         /\ adapter'.season_result.gen = adapter.season_gen
    BY <1>2, <1>5 DEF SeasonSpinnerIsOwed, season_loading
  <2>2. CASE \E v \in seasons \ {w} : v.epoch = epoch /\ v.gen = adapter.season_gen
    BY <2>2
  <2>3. CASE w.epoch = epoch /\ w.gen = adapter.season_gen
    BY <1>1, <1>3, <1>6, <1>8, <2>3, NoneAssumption DEF Current
  <2>4. CASE old # None /\ old.gen = adapter.season_gen
    BY <1>1, <1>3, <1>6, <1>7, <1>8, <2>4 DEF Current
  <2> QED
    BY <2>2, <2>3, <2>4 DEF IInv, Tabs, SeasonSpinnerIsOwed
<1>13. Tabs'
  BY <1>10, <1>11, <1>12 DEF Tabs
<1>14. /\ Requests(adapter.landing, adapter.detail_gen, adapter.want, epoch,
                   details, closed)'
       /\ Spinner'
       /\ Awaited(adapter.landing, adapter.detail_gen)' <=>
             Awaited(adapter.landing, adapter.detail_gen)
  BY <1>2, <1>5, RequestsKept
<1>15. Counted'
  BY <1>5, <1>14 DEF IInv, Counted
<1>16. NothingReopens' /\ EpisodesBelongToThePage'
  BY <1>2 DEF IInv, NothingReopens, EpisodesBelongToThePage
<1> QED
  BY <1>9, <1>13, <1>14, <1>15, <1>16 DEF IInv

\* pump_detail settles the spinner and may replace the page.
LEMMA PumpDetailIInv ==
    ASSUME IInv, NEW season \in Seasons, PumpDetail(season)
    PROVE  IInv'
<1> DEFINE l == adapter.landing
           gen == adapter.detail_gen
           mine == Mine(l, Wanted(adapter), gen)
           n == L!TakeFor(l, {"metadata"}, Wanted(adapter))
           ad == settle([adapter EXCEPT !.landing = n], mine)
           fresh == {r \in mine : r.lane = "Data" /\ r.key.ok}
<1>1. /\ adapter \in Adapter /\ l \in L!Inner /\ gen \in Gens /\ epoch \in Epochs
      /\ details \in SUBSET DetailWorker /\ adapter.want \in Items \cup {None}
      /\ gen \in Nat /\ adapter.season_gen \in Nat /\ closed \in Nat
      /\ gen <= MaxGen
  BY Fields, MetadataAssumption DEF IInv, TypeOK, Gens
<1>2. /\ epoch' = epoch /\ details' = details /\ seasons' = seasons
      /\ closed' = closed
  BY DEF PumpDetail
<1>3. /\ n \in L!Inner
      /\ Requests(n, gen, adapter.want, epoch, details, closed)
      /\ Awaited(n, gen) => Awaited(l, gen) /\ mine = {}
      /\ Awaited(l, gen) => Awaited(n, gen) \/ mine # {}
      /\ mine # {} => Awaited(l, gen)
      /\ \A r \in mine : r.lane = "Data" =>
            r.key \in DetailKey /\ r.key.from = epoch /\ r.addr \in L!Addr
  <2> DEFINE W == Wanted(adapter)
  <2>1. \A k \in DetailKey : k.item = adapter.want => k \in W
    BY DEF Wanted
  <2>2. Requests(l, gen, adapter.want, epoch, details, closed)
    BY DEF IInv
  <2> HIDE DEF W
  <2>3. LET m == L!TakeFor(l, {"metadata"}, W)
            own == Mine(l, W, gen)
        IN  /\ m \in L!Inner
            /\ Requests(m, gen, adapter.want, epoch, details, closed)
            /\ Awaited(m, gen) => Awaited(l, gen) /\ own = {}
            /\ Awaited(l, gen) => Awaited(m, gen) \/ own # {}
            /\ own # {} => Awaited(l, gen)
            /\ \A r \in own : r.lane = "Data" =>
                  r.key \in DetailKey /\ r.key.from = epoch /\ r.addr \in L!Addr
    BY <1>1, <2>1, <2>2, TakeKeeps
  <2> QED
    BY <2>3 DEF W
<1>4. \A r \in mine : r.addr.req = gen
  BY DEF Mine
<1>5. IF fresh = {}
      THEN adapter' = ad /\ current' = current
      ELSE /\ adapter' = supersede_season(ad)
           /\ \E r \in fresh :
                 current' = [item |-> r.key.item, load |-> <<r.key.from, r.addr.req>>,
                             cur_season |-> season,
                             episodes |-> [season |-> season,
                                           of |-> <<r.key.from, r.addr.req>>]]
  BY DEF PumpDetail, install_landed_detail, Mine
<1> HIDE DEF n, mine
<1>6. /\ ad \in Adapter
      /\ ad.landing = n /\ ad.want = adapter.want /\ ad.detail_gen = gen
      /\ mine # {} => ad.detail_done = gen
      /\ mine = {} => ad.detail_done = adapter.detail_done
      /\ ad.season_gen = adapter.season_gen
      /\ ad.season_done = adapter.season_done
      /\ ad.season_result = adapter.season_result
  BY <1>1, <1>3 DEF settle, Adapter
<1> HIDE DEF ad
<1>7. CASE fresh = {}
  <2>1. adapter' = ad /\ current' = current
    BY <1>5, <1>7
  <2>2. TypeOK'
    BY <1>2, <1>6, <2>1 DEF IInv, TypeOK
  <2>3. Tabs'
    BY <1>2, <1>6, <2>1, TabsKept
  <2>4. Spinner'
    BY <1>1, <1>2, <1>3, <1>6, <2>1 DEF IInv, Spinner, detail_loading
  <2>5. Counted'
    BY <1>3, <1>6, <2>1 DEF IInv, Counted
  <2>6. NothingReopens' /\ EpisodesBelongToThePage'
    BY <1>2, <2>1 DEF IInv, NothingReopens, EpisodesBelongToThePage
  <2> QED
    BY <1>2, <1>3, <1>6, <2>1, <2>2, <2>3, <2>4, <2>5, <2>6 DEF IInv
<1>8. CASE fresh # {}
  <2>1. PICK r \in fresh :
           current' = [item |-> r.key.item, load |-> <<r.key.from, r.addr.req>>,
                       cur_season |-> season,
                       episodes |-> [season |-> season,
                                     of |-> <<r.key.from, r.addr.req>>]]
    BY <1>5, <1>8
  <2>2. r \in mine /\ r.lane = "Data"
    OBVIOUS
  <2>3. /\ r.key.item \in Items /\ r.key.from = epoch /\ r.addr.req = gen
    BY <1>3, <1>4, <2>2 DEF DetailKey
  <2>4. <<epoch, gen>> \in Load /\ <<epoch, gen>>[1] = epoch /\ <<epoch, gen>>[2] = gen
    BY <1>1 DEF Load
  <2>5. /\ current' \in Detail /\ current'.load = <<epoch, gen>>
        /\ current'.episodes.of = <<epoch, gen>>
    BY <2>1, <2>3, <2>4 DEF Detail, Episodes
  <2>6. Awaited(l, gen) /\ mine # {}
    BY <1>3, <2>2
  <2>7. closed < gen
    BY <2>6, AwaitedIsNew
  <2>8. adapter.season_gen < MaxSeasonGen + gen
    BY <2>6 DEF IInv, Counted
  <2>9. adapter.season_gen + 1 \in SeasonGens
    BY <1>1, <2>8, MetadataAssumption DEF SeasonGens
  <2>10. adapter' = supersede_season(ad)
    BY <1>5, <1>8
  <2>11. /\ adapter' \in Adapter
         /\ adapter'.landing = n /\ adapter'.want = adapter.want
         /\ adapter'.detail_gen = gen /\ adapter'.detail_done = gen
         /\ adapter'.season_gen = adapter.season_gen + 1
         /\ adapter'.season_done = adapter.season_gen + 1
         /\ adapter'.season_result = None
    BY <1>6, <2>6, <2>9, <2>10, SupersedeSeason
  <2>12. ~Awaited(n, gen)
    BY <1>3, <2>6
  <2>13. TypeOK'
    BY <1>2, <2>5, <2>11 DEF IInv, TypeOK
  <2>14. Tabs'
    BY <1>2, <2>11, TabsSuperseded
  <2>15. Spinner'
    BY <1>1, <1>2, <2>7, <2>11 DEF Spinner, detail_loading
  <2>16. Counted'
    BY <1>1, <2>8, <2>11, <2>12, MetadataAssumption DEF Counted
  <2>17. NothingReopens' /\ EpisodesBelongToThePage'
    BY <1>2, <2>4, <2>5, <2>7 DEF NothingReopens, EpisodesBelongToThePage
  <2> QED
    BY <1>2, <1>3, <2>11, <2>13, <2>14, <2>15, <2>16, <2>17 DEF IInv
<1> QED
  BY <1>7, <1>8

\* pump_season patches the page only with a fetch of its own.
LEMMA PumpSeasonIInv == ASSUME IInv, PumpSeason PROVE IInv'
<1> DEFINE r == adapter.season_result
           mine == r.gen = adapter.season_gen
           patches == mine /\ current # None /\ same_item(current, r)
<1>1. /\ adapter \in Adapter /\ r \in SeasonResult
      /\ r.gen \in SeasonGens
      /\ Current(r, adapter.season_gen, current)
      /\ current \in Detail \cup {None}
      /\ r.idx \in Seasons /\ r.prev \in Seasons /\ r.of \in Load
  BY Fields, SeasonFields DEF IInv, TypeOK, Tabs, PumpSeason
<1>2. /\ epoch' = epoch /\ details' = details /\ seasons' = seasons
      /\ closed' = closed
  BY DEF PumpSeason
<1>3. /\ adapter' \in Adapter
      /\ adapter'.landing = adapter.landing /\ adapter'.want = adapter.want
      /\ adapter'.detail_gen = adapter.detail_gen
      /\ adapter'.detail_done = adapter.detail_done
      /\ adapter'.season_gen = adapter.season_gen
      /\ adapter'.season_result = None
      /\ adapter'.season_done = IF mine THEN adapter.season_gen ELSE adapter.season_done
  BY <1>1 DEF PumpSeason, Adapter
<1>4. CASE ~patches
  <2>1. current' = current
    BY <1>4 DEF PumpSeason
  <2> QED
    <3>1. TypeOK'
      BY <1>2, <1>3, <2>1 DEF IInv, TypeOK
    <3>2. SeasonSpinnerIsOwed'
      BY <1>2, <1>3 DEF IInv, Tabs, SeasonSpinnerIsOwed, season_loading
    <3>3. Tabs'
      BY <1>2, <1>3, <2>1, <3>2 DEF IInv, Tabs, Current
    <3>4. /\ Requests(adapter.landing, adapter.detail_gen, adapter.want, epoch,
                      details, closed)'
          /\ Spinner'
          /\ Awaited(adapter.landing, adapter.detail_gen)' <=>
                Awaited(adapter.landing, adapter.detail_gen)
      BY <1>2, <1>3, RequestsKept
    <3>5. Counted'
      BY <1>3, <3>4 DEF IInv, Counted
    <3>6. NothingReopens' /\ EpisodesBelongToThePage'
      BY <1>2, <2>1 DEF IInv, NothingReopens, EpisodesBelongToThePage
    <3> QED
      BY <3>1, <3>3, <3>4, <3>5, <3>6 DEF IInv
<1>5. CASE patches
  <2>1. current \in Detail /\ current # None /\ r.of = current.load
    BY <1>1, <1>5 DEF Current
  <2>2. [season |-> r.idx, of |-> r.of] \in Episodes
    BY <1>1 DEF Episodes
  <2>3. \/ current' = [current EXCEPT !.cur_season = r.idx,
                                      !.episodes = [season |-> r.idx, of |-> r.of]]
        \/ current' = [current EXCEPT !.cur_season = r.prev]
    BY <1>5 DEF PumpSeason
  <2>4. /\ current' \in Detail /\ current'.load = current.load
        /\ current'.episodes.of \in {current.load, current.episodes.of}
    <3>1. CASE current' = [current EXCEPT !.cur_season = r.idx,
                              !.episodes = [season |-> r.idx, of |-> r.of]]
      BY <1>1, <2>1, <2>2, <3>1 DEF Detail
    <3>2. CASE current' = [current EXCEPT !.cur_season = r.prev]
      BY <1>1, <2>1, <3>2 DEF Detail
    <3> QED
      BY <2>3, <3>1, <3>2
  <2>5. current'.episodes.of = current.load
    BY <2>1, <2>4 DEF IInv, EpisodesBelongToThePage
  <2>6. TypeOK'
    BY <1>2, <1>3, <2>4 DEF IInv, TypeOK
  <2>7. SeasonSpinnerIsOwed'
    BY <1>2, <1>3, <1>5 DEF SeasonSpinnerIsOwed, season_loading
  <2>8. Tabs'
    BY <1>2, <1>3, <2>1, <2>4, <2>7 DEF IInv, Tabs, Current
  <2>9. /\ Requests(adapter.landing, adapter.detail_gen, adapter.want, epoch,
                    details, closed)'
        /\ Spinner'
        /\ Awaited(adapter.landing, adapter.detail_gen)' <=>
              Awaited(adapter.landing, adapter.detail_gen)
    BY <1>2, <1>3, RequestsKept
  <2>10. Counted'
    BY <1>3, <2>9 DEF IInv, Counted
  <2>11. NothingReopens' /\ EpisodesBelongToThePage'
    BY <1>2, <2>1, <2>4, <2>5 DEF IInv, NothingReopens, EpisodesBelongToThePage
  <2> QED
    BY <2>6, <2>8, <2>9, <2>10, <2>11 DEF IInv
<1> QED
  BY <1>4, <1>5

\* Every step preserves the invariant.
LEMMA NextIInv == IInv /\ [Next]_vars => IInv'
<1> SUFFICES ASSUME IInv, [Next]_vars PROVE IInv'
  OBVIOUS
<1>1. CASE \E item \in Items, spawned \in Spawns : RequestDetail(item, spawned)
  BY <1>1, RequestDetailIInv
<1>2. CASE Clear
  BY <1>2, ClearIInv
<1>3. CASE Reset
  BY <1>3, ResetIInv
<1>4. CASE \E idx \in Seasons, spawned \in Spawns : LoadSeason(idx, spawned)
  BY <1>4, LoadSeasonIInv
<1>5. CASE \E idx \in Seasons : LoadSeasonNow(idx)
  BY <1>5, LoadSeasonNowIInv
<1>6. CASE \E w \in details, ok \in BOOLEAN : DetailWorkerLands(w, ok)
  BY <1>6, DetailWorkerLandsIInv
<1>7. CASE \E w \in seasons, ok \in BOOLEAN : SeasonWorkerLands(w, ok)
  BY <1>7, SeasonWorkerLandsIInv
<1>8. CASE \E season \in Seasons : PumpDetail(season)
  BY <1>8, PumpDetailIInv
<1>9. CASE PumpSeason
  BY <1>9, PumpSeasonIInv
<1>10. CASE UNCHANGED vars
  <2>1. /\ current' = current /\ adapter' = adapter /\ epoch' = epoch
        /\ details' = details /\ seasons' = seasons /\ closed' = closed
    BY <1>10 DEF vars
  <2>2. TypeOK'
    BY <2>1 DEF IInv, TypeOK
  <2>3. Tabs'
    BY <2>1, TabsKept
  <2>4. /\ Requests(adapter.landing, adapter.detail_gen, adapter.want, epoch,
                    details, closed)'
        /\ Spinner'
        /\ Awaited(adapter.landing, adapter.detail_gen)' <=>
              Awaited(adapter.landing, adapter.detail_gen)
    BY <2>1, RequestsKept
  <2>5. Counted'
    BY <2>1, <2>4 DEF IInv, Counted
  <2>6. NothingReopens' /\ EpisodesBelongToThePage'
    BY <2>1 DEF IInv, NothingReopens, EpisodesBelongToThePage
  <2> QED
    BY <2>2, <2>3, <2>4, <2>5, <2>6 DEF IInv
<1> QED
  BY <1>1, <1>2, <1>3, <1>4, <1>5, <1>6, <1>7, <1>8, <1>9, <1>10 DEF Next, Commands

\* The inductive invariant holds of every behaviour of the detail page.
THEOREM MetadataInvariant == Spec => []IInv
BY InitIInv, NextIInv, PTL DEF Spec

-----------------------------------------------------------------------------
(* What the invariant says of the page.                                    *)

\* A spinner that turns is owed by a worker or a queued answer.
LEMMA SpinnerFollows == IInv => DetailSpinnerIsOwed
<1> SUFFICES ASSUME IInv, detail_loading(adapter)
             PROVE  LET a == detail_addr(adapter.detail_gen)
                        slot == adapter.landing.inflight[a]
                    IN  /\ ~slot.cancelled
                        /\ \/ /\ slot.st = "running"
                              /\ \E w \in details :
                                    w.epoch = epoch /\ w.gen = adapter.detail_gen
                           \/ /\ slot.st = "terminal"
                              /\ \E r \in L!Queued(adapter.landing) : r.addr = a
  BY DEF DetailSpinnerIsOwed
<1> DEFINE a == detail_addr(adapter.detail_gen)
           slot == adapter.landing.inflight[a]
<1>1. a \in L!Addr /\ a.req = adapter.detail_gen
  BY Addresses, Fields DEF IInv, TypeOK
<1>2. slot.st # "free" /\ ~slot.cancelled
  BY DEF IInv, Spinner, Awaited
<1>3. slot.st \in {"free", "running", "terminal"}
  <2>1. adapter.landing \in L!Inner
    BY Fields DEF IInv, TypeOK
  <2>2. slot \in L!Reservation
    BY <1>1, <2>1 DEF L!Inner
  <2> QED
    BY <2>2 DEF L!Reservation
<1> QED
  BY <1>1, <1>2, <1>3 DEF IInv, Requests, Slots

\* While the newest request runs the data lane is empty.
LEMMA LaneFollows == IInv => DataLaneNeverFills
<1> SUFFICES ASSUME IInv, NEW g \in Gens,
                    adapter.landing.inflight[detail_addr(g)].st = "running",
                    ~adapter.landing.inflight[detail_addr(g)].cancelled
             PROVE  g = adapter.detail_gen /\ ~L!DataFull(adapter.landing)
  BY DEF DataLaneNeverFills
<1> DEFINE l == adapter.landing
<1>1. l \in L!Inner
  BY Fields DEF IInv, TypeOK
<1>2. detail_addr(g) \in L!Addr /\ detail_addr(g).req = g
  BY Addresses
<1>3. g = adapter.detail_gen
  BY <1>2 DEF IInv, Requests, Slots
<1>4. ASSUME NEW r \in l.data PROVE FALSE
  <2>1. r \in L!Queued(l) /\ r.addr \in L!Addr /\ r.lane = "Data"
    BY <1>1, <1>4 DEF L!Queued, L!Inner, L!Record
  <2>2. l.inflight[r.addr].st = "terminal" /\ ~l.inflight[r.addr].cancelled
    BY <2>1 DEF IInv, Requests, Queue
  <2>3. r.addr.req = adapter.detail_gen
    BY <2>1, <2>2 DEF IInv, Requests, Slots
  <2>4. r.addr = detail_addr(g)
    BY <1>3, <2>1, <2>3, Addresses
  <2> QED
    BY <2>2, <2>4
<1>5. l.data = {}
  BY <1>4
<1>6. L!Cardinality(l.data) = 0
  BY <1>5, SameCount, FS_EmptySet
<1>7. ~L!DataFull(l)
  BY <1>6, MetadataAssumption DEF L!DataFull
<1> QED
  BY <1>3, <1>7

\* Under every order of answers, refusals, closes and profile switches, no
\* spinner of the page is orphaned and no loaded detail meets a full lane.
THEOREM PageIsSafe == Spec => []MetadataSafe
<1>1. IInv => MetadataSafe
  BY SpinnerFollows, LaneFollows DEF MetadataSafe, IInv, Tabs
<1> QED
  BY <1>1, MetadataInvariant, PTL

\* A load that answers late never reopens a closed page, and a worker of the
\* previous profile never fills the next one's (clear, reset, pump_detail).
THEOREM ClosedPagesStayClosed == Spec => []NothingReopens
<1>1. IInv => NothingReopens
  BY DEF IInv
<1> QED
  BY <1>1, MetadataInvariant, PTL

\* The episodes listed were asked for on the very load of the page that is
\* shown (load_season, pump_season, install_landed_detail).
THEOREM EpisodesAreThePages == Spec => []EpisodesBelongToThePage
<1>1. IInv => EpisodesBelongToThePage
  BY DEF IInv
<1> QED
  BY <1>1, MetadataInvariant, PTL

\* The slots that stay held across a cancellation are no more than the
\* running workers of the adapter.
LEMMA HeldByWorkers ==
    ASSUME IInv, NEW l \in L!Inner,
           \A a \in L!Addr : l.inflight[a].st # "free" =>
              \E w \in details : w.epoch = epoch /\ w.gen = a.req
    PROVE  /\ Cardinality(L!Held(l)) \in Nat
           /\ Cardinality({w \in details : w.epoch = epoch}) \in Nat
           /\ Cardinality(L!Held(l)) <= Cardinality({w \in details : w.epoch = epoch})
<1> DEFINE own == {w \in details : w.epoch = epoch}
           named == {w \in own : detail_addr(w.gen) \in L!Held(l)}
           f == [w \in named |-> detail_addr(w.gen)]
<1>1. IsFiniteSet(own)
  BY FS_Subset DEF IInv, Requests, Workers
<1>2. IsFiniteSet(named) /\ Cardinality(named) <= Cardinality(own)
  BY <1>1, FS_Subset
<1>3. f \in Surjection(named, L!Held(l))
  <2>1. f \in [named -> L!Held(l)]
    OBVIOUS
  <2>2. ASSUME NEW a \in L!Held(l) PROVE \E w \in named : f[w] = a
    <3>1. a \in L!Addr /\ l.inflight[a].st # "free"
      BY DEF L!Held
    <3>2. PICK w \in details : w.epoch = epoch /\ w.gen = a.req
      BY <3>1
    <3>3. detail_addr(w.gen) = a
      BY <3>1, <3>2, Addresses
    <3> QED
      BY <3>2, <3>3
  <2> QED
    BY <2>1, <2>2 DEF Surjection
<1>4. IsFiniteSet(L!Held(l)) /\ Cardinality(L!Held(l)) <= Cardinality(named)
  BY <1>2, <1>3, FS_Surjection
<1>5. Cardinality(L!Held(l)) \in Nat /\ Cardinality(own) \in Nat
      /\ Cardinality(named) \in Nat
  BY <1>1, <1>2, <1>4, FS_CardinalityType
<1> HIDE DEF own, named
<1> QED
  BY <1>2, <1>4, <1>5 DEF own

\* The landing turns the new generation away only when running workers hold
\* all its slots.
LEMMA RejectedRequest ==
    ASSUME IInv, NEW item \in Items, NEW spawned \in Spawns,
           RequestDetail(item, spawned),
           adapter'.detail_done = adapter'.detail_gen
    PROVE  Cardinality({w \in details : w.epoch = epoch}) >= DetailInflight
<1> DEFINE ad == NewGeneration(adapter, item)
           gen == adapter.detail_gen + 1
           addr == detail_addr(ad.detail_gen)
           l == L!Clear(adapter.landing)
           admitted == L!CanAdmit(ad.landing, addr)
           held == L!AdmitMode(ad.landing, addr, FALSE)
<1>0. adapter.detail_gen < MaxGen /\ adapter.season_gen < MaxSeasonGen
  BY DEF RequestDetail
<1>1. /\ ad \in Adapter
      /\ ad.detail_gen = gen /\ gen \in Gens
      /\ ad.detail_done = adapter.detail_done
      /\ ad.landing = l
  BY <1>0, NewGenerationEffect
<1>2. adapter.detail_gen \in Gens /\ adapter.detail_gen \in Nat
      /\ adapter.detail_done \in Nat
      /\ adapter.landing \in L!Inner /\ epoch \in Epochs
      /\ details \in SUBSET DetailWorker
  BY Fields DEF IInv, TypeOK
<1>3. /\ l \in L!Inner
      /\ Requests(l, gen, item, epoch, details, closed)
      /\ l.inflight[detail_addr(gen)].st = "free"
      /\ \A a \in L!Addr : l.inflight[a].st # "free" => l.inflight[a].st = "running"
  BY <1>1, <1>2, ClearKeeps DEF IInv
<1>4. ~admitted
  <2> SUFFICES ASSUME admitted PROVE FALSE
    OBVIOUS
  <2>1. \/ adapter' = [ad EXCEPT !.landing = held]
        \/ adapter' = [ad EXCEPT !.landing = L!Refused(held, addr)]
    BY DEF RequestDetail
  <2> HIDE DEF ad, held, addr
  <2>2. adapter'.detail_gen = gen /\ adapter'.detail_done = adapter.detail_done
    BY <1>1, <2>1 DEF Adapter
  <2>3. adapter.detail_done <= adapter.detail_gen
    BY DEF IInv, Spinner
  <2> QED
    BY <1>2, <2>2, <2>3
<1>5. addr = detail_addr(gen) /\ addr \in L!Addr /\ addr.to = "metadata"
  BY <1>1, Addresses
<1>6. addr \notin L!Held(l)
  BY <1>3, <1>5 DEF L!Held
<1>7. L!HeldBy(l, addr.to) = L!Held(l)
  <2>1. \A a \in L!Held(l) : a.to = "metadata"
    BY Addresses DEF L!Held
  <2> QED
    BY <1>5, <2>1 DEF L!HeldBy
<1>8. /\ Cardinality(L!Held(l)) \in Nat
      /\ Cardinality({w \in details : w.epoch = epoch}) \in Nat
      /\ Cardinality(L!Held(l)) <= Cardinality({w \in details : w.epoch = epoch})
  <2>1. \A a \in L!Addr : l.inflight[a].st # "free" =>
           \E w \in details : w.epoch = epoch /\ w.gen = a.req
    BY <1>3 DEF Requests, Slots
  <2> QED
    BY <1>3, <2>1, HeldByWorkers
<1>9. ~(L!Cardinality(L!Held(l)) < DetailInflight)
  BY <1>1, <1>4, <1>6, <1>7 DEF L!CanAdmit
<1>10. ~(Cardinality(L!Held(l)) < DetailInflight)
  BY <1>9, SameCount
<1> HIDE DEF l
<1> QED
  BY <1>8, <1>10, MetadataAssumption

\* A page's request is turned away only while workers that do not come back
\* hold every slot (request_detail_with_spawn, Landing::admit).
THEOREM AnswersNeverCostARequest == Spec => RejectedOnlyWhenWorkersHang
<1> DEFINE A == /\ adapter'.detail_gen = adapter.detail_gen + 1
                /\ adapter'.want # None
                /\ adapter'.detail_done = adapter'.detail_gen
           B == Cardinality({w \in details : w.epoch = epoch}) >= DetailInflight
<1>1. IInv /\ [Next]_vars => [A => B]_vars
  <2> SUFFICES ASSUME IInv, Next, A PROVE B
    OBVIOUS
  <2>0. adapter.detail_gen \in Nat /\ adapter.landing \in L!Inner /\ adapter \in Adapter
    BY Fields DEF IInv, TypeOK
  <2>1. CASE \E item \in Items, spawned \in Spawns : RequestDetail(item, spawned)
    BY <2>1, RejectedRequest
  <2>2. CASE Clear
    <3>1. adapter.detail_gen + 1 \in Gens
      BY <2>0, <2>2, MetadataAssumption DEF Clear, Gens
    <3>2. L!Clear(adapter.landing) \in L!Inner
      BY <2>0, ClearEffect DEF IInv, Requests, Queue
    <3> QED
      BY <2>0, <2>2, <3>1, <3>2, SupersedeDetail DEF Clear
  <2>3. CASE Reset
    BY <2>3 DEF Reset, supersede_detail, NewAdapter
  <2>4. CASE ~(\E item \in Items, spawned \in Spawns : RequestDetail(item, spawned))
             /\ ~Clear /\ ~Reset
    <3> SUFFICES adapter'.detail_gen = adapter.detail_gen
      BY <2>0
    <3>1. CASE \E idx \in Seasons, spawned \in Spawns : LoadSeason(idx, spawned)
      BY <2>0, <3>1 DEF LoadSeason, Adapter
    <3>2. CASE \E idx \in Seasons : LoadSeasonNow(idx)
      BY <2>0, <3>2 DEF LoadSeasonNow, supersede_season, Adapter
    <3>3. CASE \E w \in details, ok \in BOOLEAN : DetailWorkerLands(w, ok)
      BY <2>0, <3>3 DEF DetailWorkerLands, Adapter
    <3>4. CASE \E w \in seasons, ok \in BOOLEAN : SeasonWorkerLands(w, ok)
      BY <2>0, <3>4 DEF SeasonWorkerLands, land_season, Adapter
    <3>5. CASE \E season \in Seasons : PumpDetail(season)
      BY <2>0, <3>5 DEF PumpDetail, settle, install_landed_detail, supersede_season, Adapter
    <3>6. CASE PumpSeason
      BY <2>0, <3>6 DEF PumpSeason, Adapter
    <3> QED
      BY <2>4, <3>1, <3>2, <3>3, <3>4, <3>5, <3>6 DEF Next, Commands
  <2> QED
    BY <2>1, <2>2, <2>3, <2>4
<1> QED
  BY <1>1, MetadataInvariant, PTL DEF Spec, RejectedOnlyWhenWorkersHang
=============================================================================
