--------------------------- MODULE LandingProofs ---------------------------
(***************************************************************************)
(* Proofs about module Landing, for every set of addressees, requests and  *)
(* keys and every value of the three capacities.                           *)
(*                                                                         *)
(* The argument: each landing method is first reduced to what it does to   *)
(* the fields of Inner (the *Effect lemmas); a publication, a drain and a  *)
(* cancellation are then shown to preserve the inductive invariant IInv,   *)
(* and each action of the specification is one of the three, an admission  *)
(* or a step that leaves the landing alone.                                *)
(***************************************************************************)
EXTENDS Landing, FiniteSetTheorems, TLAPS

-----------------------------------------------------------------------------
(* What the operations do to the fields of Inner.                          *)

\* admit_mode reserves one slot of an address that had none, and nothing else.
LEMMA AdmitEffect ==
    ASSUME NEW l \in Inner, NEW a \in Addr, NEW stream \in BOOLEAN,
           CanAdmit(l, a)
    PROVE  LET n == AdmitMode(l, a, stream)
           IN  /\ n \in Inner
               /\ n.data = l.data /\ n.control = l.control
               /\ n.seq = l.seq /\ n.dropped = l.dropped
               /\ n.inflight = [l.inflight EXCEPT ![a] =
                     [st |-> "running", cancelled |-> FALSE, stream |-> stream]]
BY DEF AdmitMode, Inner, Reservation

\* A publication of the running request a: one record rec with the next
\* sequence number enters one lane, and lost payloads are counted.
Publishes(l, n, a, rec, extra) ==
    /\ n \in Inner
    /\ rec \in Record
    /\ rec.addr = a
    /\ rec.seq = l.seq + 1
    /\ n.seq = l.seq + 1
    /\ n.dropped = l.dropped + extra
    /\ \/ /\ n.data = l.data \cup {rec}
          /\ n.control = l.control
          /\ ~DataFull(l)
       \/ /\ n.data = l.data
          /\ n.control = l.control \cup {rec}
    /\ n.inflight = IF rec.terminal
                    THEN [l.inflight EXCEPT ![a].st = "terminal"]
                    ELSE l.inflight

\* count_drop of a lost payload touches the two counters only.
LEMMA CountLostEffect ==
    ASSUME NEW l \in Inner, NEW m \in Machines
    PROVE  LET n == CountLost(l, m)
           IN  /\ n \in Inner
               /\ n.data = l.data /\ n.control = l.control
               /\ n.seq = l.seq /\ n.dropped = l.dropped + 1
               /\ n.inflight = l.inflight
<1> DEFINE n == CountLost(l, m)
<1>1. n = [l EXCEPT !.dropped = l.dropped + 1,
                    !.dropped_for = [l.dropped_for EXCEPT ![m] = @ + 1]]
  BY DEF CountLost, Inner
<1>2. l.dropped + 1 \in Nat
      /\ [l.dropped_for EXCEPT ![m] = @ + 1] \in [Machines -> Nat]
  BY DEF Inner
<1> HIDE DEF n
<1>3. n \in Inner
  BY <1>1, <1>2 DEF Inner
<1>4. /\ n.data = l.data /\ n.control = l.control
      /\ n.seq = l.seq /\ n.dropped = l.dropped + 1
      /\ n.inflight = l.inflight
  BY <1>1 DEF Inner
<1> QED
  BY <1>3, <1>4 DEF n

\* complete_locked of a running request queues exactly one terminal record.
LEMMA TerminateEffect ==
    ASSUME NEW l \in Inner, NEW a \in Addr, NEW lane \in Lanes,
           NEW key \in Keys \cup {NoKey}
    PROVE  \E rec \in Record :
              /\ rec.terminal
              /\ Publishes(l, Terminate(l, a, lane, key), a, rec,
                           IF Overflows(l, a, lane) THEN 1 ELSE 0)
<1> DEFINE full == Overflows(l, a, lane)
           shown == IF full \/ l.inflight[a].cancelled THEN "Dropped" ELSE lane
           rec == [seq |-> l.seq + 1, addr |-> a, lane |-> shown,
                   key |-> IF shown = "Data" THEN key ELSE NoKey,
                   terminal |-> TRUE]
           inDataLane == ~l.inflight[a].stream /\ shown = "Data"
           counted == IF full THEN CountLost(l, a.to) ELSE l
           n == Terminate(l, a, lane, key)
<1>1. rec \in Record /\ rec.addr = a /\ rec.seq = l.seq + 1 /\ rec.terminal
      /\ rec.lane = shown
  BY DEF Record, Inner, Lanes
<1>2. /\ counted \in Inner
      /\ counted.data = l.data /\ counted.control = l.control
      /\ counted.seq = l.seq
      /\ counted.dropped = l.dropped + (IF full THEN 1 ELSE 0)
      /\ counted.inflight = l.inflight
  <2>1. a.to \in Machines
    BY DEF Addr
  <2>2. CASE full
    BY <2>1, <2>2, CountLostEffect
  <2>3. CASE ~full
    BY <2>3 DEF Inner
  <2> QED
    BY <2>2, <2>3
<1>3. n = [counted EXCEPT
            !.seq = @ + 1,
            !.data = IF inDataLane THEN @ \cup {rec} ELSE @,
            !.control = IF inDataLane THEN @ ELSE @ \cup {rec},
            !.inflight[a].st = "terminal"]
  BY DEF Terminate
<1> HIDE DEF counted, rec
<1>4. /\ n.seq = l.seq + 1
      /\ n.dropped = l.dropped + (IF full THEN 1 ELSE 0)
      /\ n.data = (IF inDataLane THEN l.data \cup {rec} ELSE l.data)
      /\ n.control = (IF inDataLane THEN l.control ELSE l.control \cup {rec})
      /\ n.inflight = [l.inflight EXCEPT ![a].st = "terminal"]
  BY <1>2, <1>3 DEF Inner
<1>5. n \in Inner
  <2>1. counted.seq + 1 \in Nat
    BY <1>2 DEF Inner
  <2>2. (IF inDataLane THEN counted.data \cup {rec} ELSE counted.data)
           \in SUBSET {r \in Record : r.lane = "Data"}
    BY <1>1, <1>2 DEF Inner
  <2>3. (IF inDataLane THEN counted.control ELSE counted.control \cup {rec})
           \in SUBSET {r \in Record : r.terminal}
    BY <1>1, <1>2 DEF Inner
  <2>4. [counted.inflight EXCEPT ![a].st = "terminal"] \in [Addr -> Reservation]
    BY <1>2 DEF Inner, Reservation
  <2> HIDE DEF inDataLane
  <2> QED
    BY <1>2, <1>3, <2>1, <2>2, <2>3, <2>4, ZenonT(30) DEF Inner
<1>6. inDataLane => ~DataFull(l)
  BY DEF Overflows, Lanes
<1> QED
  BY <1>1, <1>4, <1>5, <1>6 DEF Publishes

\* An accepted progress queues one record and leaves the request running.
LEMMA ProgressEffect ==
    ASSUME NEW l \in Inner, NEW a \in Addr, NEW key \in Keys,
           Streaming(l, a), ~DataFull(l)
    PROVE  \E rec \in Record :
              ~rec.terminal /\ Publishes(l, Progress(l, a, key), a, rec, 0)
<1> DEFINE rec == [seq |-> l.seq + 1, addr |-> a, lane |-> "Data",
                   key |-> key, terminal |-> FALSE]
<1>1. rec \in Record /\ rec.addr = a /\ rec.seq = l.seq + 1 /\ ~rec.terminal
      /\ rec.lane = "Data"
  BY DEF Record, Inner, Lanes
<1>2. Progress(l, a, key) =
        [l EXCEPT !.seq = @ + 1, !.data = @ \cup {rec}]
  BY DEF Progress
<1> DEFINE n == Progress(l, a, key)
<1> HIDE DEF n, rec
<1>3. l.seq + 1 \in Nat
      /\ l.data \cup {rec} \in SUBSET {r \in Record : r.lane = "Data"}
  BY <1>1 DEF Inner
<1>4. n = [l EXCEPT !.seq = l.seq + 1, !.data = l.data \cup {rec}]
  BY <1>2 DEF Inner, n
<1>5. n \in Inner
  BY <1>3, <1>4 DEF Inner
<1>6. /\ n.seq = l.seq + 1 /\ n.data = l.data \cup {rec}
      /\ n.control = l.control /\ n.dropped = l.dropped + 0
      /\ n.inflight = l.inflight
  BY <1>4 DEF Inner
<1>7. Publishes(l, n, a, rec, 0)
  BY <1>1, <1>5, <1>6 DEF Publishes
<1> QED
  BY <1>1, <1>7 DEF n

\* A progress that meets a full lane ends its stream with a counted Dropped.
LEMMA ProgressFullEffect ==
    ASSUME NEW l \in Inner, NEW a \in Addr, NEW key \in Keys,
           Streaming(l, a), DataFull(l)
    PROVE  \E rec \in Record :
              rec.terminal /\ Publishes(l, Progress(l, a, key), a, rec, 1)
<1> DEFINE c == CountLost(l, a.to)
<1>1. /\ c \in Inner
      /\ c.data = l.data /\ c.control = l.control
      /\ c.seq = l.seq /\ c.dropped = l.dropped + 1
      /\ c.inflight = l.inflight
  BY CountLostEffect DEF Addr
<1>2. Progress(l, a, key) = Terminate(c, a, "Dropped", NoKey)
  BY <1>1 DEF Progress, Complete, Streaming
<1> HIDE DEF c
<1>3. ~Overflows(c, a, "Dropped")
  BY DEF Overflows
<1>4. PICK rec \in Record :
         rec.terminal /\ Publishes(c, Terminate(c, a, "Dropped", NoKey), a, rec, 0)
  BY <1>1, <1>3, TerminateEffect DEF Lanes
<1> QED
  BY <1>1, <1>2, <1>4 DEF Publishes, DataFull, Inner

\* count_drop for a finite set of discarded records.
LEMMA CountDropsEffect ==
    ASSUME NEW l \in Inner, NEW recs, IsFiniteSet(recs)
    PROVE  LET n == CountDrops(l, recs)
           IN  /\ n \in Inner
               /\ n.data = l.data /\ n.control = l.control
               /\ n.seq = l.seq
               /\ n.dropped = l.dropped + Cardinality(recs)
               /\ n.inflight = l.inflight
<1> DEFINE n == CountDrops(l, recs)
           df == [m \in Machines |->
                   l.dropped_for[m] + Cardinality({r \in recs : r.addr.to = m})]
<1>1. n = [l EXCEPT !.dropped = l.dropped + Cardinality(recs),
                    !.dropped_for = df]
  BY DEF CountDrops, Inner
<1>2. Cardinality(recs) \in Nat
  BY FS_CardinalityType
<1>3. df \in [Machines -> Nat]
  <2>1. ASSUME NEW m \in Machines
        PROVE  Cardinality({r \in recs : r.addr.to = m}) \in Nat
    BY FS_Subset, FS_CardinalityType
  <2> QED
    BY <2>1 DEF Inner
<1>4. l.dropped + Cardinality(recs) \in Nat
  BY <1>2 DEF Inner
<1> HIDE DEF n, df
<1>5. n \in Inner
  BY <1>1, <1>3, <1>4 DEF Inner
<1>6. /\ n.data = l.data /\ n.control = l.control
      /\ n.seq = l.seq /\ n.dropped = l.dropped + Cardinality(recs)
      /\ n.inflight = l.inflight
  BY <1>1 DEF Inner
<1> QED
  BY <1>5, <1>6 DEF n

\* take_for empties the lanes, frees the terminated requests and counts what
\* it does not deliver.
LEMMA TakeForEffect ==
    ASSUME NEW l \in Inner, NEW live, NEW want, IsFiniteSet(Queued(l))
    PROVE  LET n == TakeFor(l, live, want)
           IN  /\ n \in Inner
               /\ n.data = {} /\ n.control = {}
               /\ n.seq = l.seq
               /\ n.dropped = l.dropped
                     + Cardinality(Queued(l) \ Deliverable(l, live, want))
               /\ n.inflight = [a \in Addr |->
                     IF a \in Terminated(l) THEN Free ELSE l.inflight[a]]
<1> DEFINE n == TakeFor(l, live, want)
           gone == Queued(l) \ Deliverable(l, live, want)
           c == CountDrops(l, gone)
           fl == [a \in Addr |-> IF a \in Terminated(l) THEN Free ELSE l.inflight[a]]
<1>1. IsFiniteSet(gone)
  BY FS_Difference
<1>2. /\ c \in Inner
      /\ c.data = l.data /\ c.control = l.control
      /\ c.seq = l.seq
      /\ c.dropped = l.dropped + Cardinality(gone)
      /\ c.inflight = l.inflight
  BY <1>1, CountDropsEffect
<1>3. n = [c EXCEPT !.data = {}, !.control = {},
                    !.inflight = [a \in Addr |->
                       IF a \in Terminated(l) THEN Free ELSE c.inflight[a]]]
  BY <1>2 DEF TakeFor, Inner
<1>4. fl \in [Addr -> Reservation]
  BY DEF Inner, Reservation, Free
<1> HIDE DEF n, c, gone
<1>5. n = [c EXCEPT !.data = {}, !.control = {}, !.inflight = fl]
  BY <1>2, <1>3
<1> HIDE DEF fl
<1>6. n \in Inner
  BY <1>2, <1>4, <1>5 DEF Inner
<1>7. /\ n.data = {} /\ n.control = {} /\ n.seq = l.seq
      /\ n.dropped = l.dropped + Cardinality(gone)
      /\ n.inflight = fl
  BY <1>2, <1>5 DEF Inner
<1> QED
  BY <1>6, <1>7 DEF n, gone, fl

\* The records a cancellation of S discards.
Gone(l, S) == {r \in Queued(l) : r.addr \in S \cap Held(l)}

\* cancel_locked discards the queued records of the cancelled requests, frees
\* the terminal ones and marks the running ones.
LEMMA CancelEffect ==
    ASSUME NEW l \in Inner, NEW S, IsFiniteSet(Queued(l))
    PROVE  LET n == CancelAll(l, S)
           IN  /\ n \in Inner
               /\ n.data = l.data \ Gone(l, S)
               /\ n.control = l.control \ Gone(l, S)
               /\ n.seq = l.seq
               /\ n.dropped = l.dropped + Cardinality(Gone(l, S))
               /\ n.inflight = [a \in Addr |->
                     IF a \notin S \cap Held(l) THEN l.inflight[a]
                     ELSE IF l.inflight[a].st = "terminal" THEN Free
                     ELSE [l.inflight[a] EXCEPT !.cancelled = TRUE]]
<1> DEFINE n == CancelAll(l, S)
           hit == S \cap Held(l)
           gone == Gone(l, S)
           c == CountDrops(l, gone)
           fl == [a \in Addr |->
                     IF a \notin hit THEN l.inflight[a]
                     ELSE IF l.inflight[a].st = "terminal" THEN Free
                     ELSE [l.inflight[a] EXCEPT !.cancelled = TRUE]]
<1>1. IsFiniteSet(gone)
  BY FS_Subset DEF Gone
<1>2. /\ c \in Inner
      /\ c.data = l.data /\ c.control = l.control
      /\ c.seq = l.seq
      /\ c.dropped = l.dropped + Cardinality(gone)
      /\ c.inflight = l.inflight
  BY <1>1, CountDropsEffect
<1>3. n = [c EXCEPT !.data = c.data \ gone, !.control = c.control \ gone,
                    !.inflight = [a \in Addr |->
                       IF a \notin hit THEN c.inflight[a]
                       ELSE IF c.inflight[a].st = "terminal" THEN Free
                       ELSE [c.inflight[a] EXCEPT !.cancelled = TRUE]]]
  BY <1>2 DEF CancelAll, Gone, Inner
<1>4. fl \in [Addr -> Reservation]
  BY DEF Inner, Reservation, Free
<1> HIDE DEF n, c, gone, hit
<1>5. n = [c EXCEPT !.data = l.data \ gone, !.control = l.control \ gone,
                    !.inflight = fl]
  BY <1>2, <1>3
<1> HIDE DEF fl
<1>6. n \in Inner
  BY <1>2, <1>4, <1>5 DEF Inner
<1>7. /\ n.data = l.data \ gone /\ n.control = l.control \ gone
      /\ n.seq = l.seq
      /\ n.dropped = l.dropped + Cardinality(gone)
      /\ n.inflight = fl
  BY <1>2, <1>5 DEF Inner
<1> QED
  BY <1>6, <1>7 DEF n, gone, fl, hit
-----------------------------------------------------------------------------
(* The inductive invariant.                                                *)

\* Everything the landing stores is finite, whatever the constants are.
Finite ==
    /\ IsFiniteSet(inner.data)
    /\ IsFiniteSet(inner.control)
    /\ IsFiniteSet(out)
    /\ IsFiniteSet(Held(inner))

\* An address that left any trace has been launched, and a launch happens
\* once: no later operation reuses the address.
Launched ==
    /\ \A a \in Addr : worker[a] = "idle" => /\ inner.inflight[a].st = "free"
                                            /\ a \notin cancels
    /\ \A r \in out : worker[r.addr] # "idle"

\* Sequence numbers are handed out in order.
Stamped == \A r \in Queued(inner) \cup out : r.seq <= inner.seq

\* The reservation of a delivered terminal is gone.
Retired == \A r \in out : r.terminal => inner.inflight[r.addr].st = "free"

\* A cancelled request either gave its slot back or is marked.
Silenced ==
    \A a \in cancels : \/ inner.inflight[a].st = "free"
                       \/ inner.inflight[a].cancelled

\* The bounds that are inductive; the bound on the control lane follows from
\* them, since its records are terminals of distinct reservations.
Bounded ==
    /\ Cardinality(inner.data) <= Cap
    /\ Cardinality(Held(inner)) <= TotalCap
    /\ \A m \in Machines : Cardinality(HeldBy(inner, m)) <= InflightCap

IInv ==
    /\ TypeOK
    /\ Finite
    /\ SlotsAreOwed
    /\ Launched
    /\ Stamped
    /\ Retired
    /\ Silenced
    /\ DrainInOrder
    /\ OneTerminalLast
    /\ Bounded
    /\ EveryRecordAccounted
-----------------------------------------------------------------------------
(* The three kinds of step.                                                *)

\* A publication of a running request preserves the invariant.
LEMMA PublishStep ==
    ASSUME IInv, NEW a \in Addr, inner.inflight[a].st = "running",
           NEW rec \in Record, NEW extra \in Nat,
           Publishes(inner, inner', a, rec, extra),
           worker' \in [Addr -> WorkerState],
           \A b \in Addr : b # a => worker'[b] = worker[b],
           worker'[a] # "idle",
           ~rec.terminal => worker'[a] \in {"launching", "running"},
           out' = out, cancels' = cancels, lost' = lost + extra
    PROVE  IInv'
<1> USE DEF IInv
<1>1. inner \in Inner /\ inner' \in Inner /\ lost \in Nat
  BY DEF TypeOK, Publishes
<1>2. TypeOK'
  BY <1>1 DEF TypeOK
<1>3. Queued(inner') = Queued(inner) \cup {rec}
  BY DEF Publishes, Queued
<1>4. rec.addr = a /\ rec.seq = inner.seq + 1 /\ inner'.seq = inner.seq + 1
  BY DEF Publishes
<1>5. \A r \in Queued(inner) \cup out : r \in Record /\ r.seq < rec.seq
  <2>1. Queued(inner) \cup out \subseteq Record
    BY <1>1 DEF TypeOK, Inner, Queued
  <2> QED
    BY <1>1, <1>4, <2>1 DEF Stamped, Record, Inner
<1>6. \A b \in Addr : b # a => inner'.inflight[b] = inner.inflight[b]
  BY <1>1 DEF Publishes, Inner
<1>7. inner'.inflight[a].cancelled = inner.inflight[a].cancelled
      /\ inner'.inflight[a].st = IF rec.terminal THEN "terminal" ELSE "running"
  BY <1>1 DEF Publishes, Inner, Reservation
<1>8. Held(inner') = Held(inner)
  BY <1>6, <1>7 DEF Held
<1>9. Finite'
  <2>1. IsFiniteSet(inner.data \cup {rec}) /\ IsFiniteSet(inner.control \cup {rec})
    BY FS_AddElement DEF Finite
  <2> QED
    BY <1>8, <2>1 DEF Publishes, Finite
<1>10. SlotsAreOwed'
  <2> SUFFICES ASSUME NEW b \in Addr
               PROVE  /\ inner'.inflight[b].st = "running"
                            => worker'[b] \in {"launching", "running"}
                      /\ inner'.inflight[b].st = "terminal" <=>
                            \E r \in Queued(inner') : r.addr = b /\ r.terminal
                      /\ inner'.inflight[b].st = "free" =>
                            \A r \in Queued(inner') : r.addr # b
    BY DEF SlotsAreOwed
  <2>1. CASE b # a
    BY <1>3, <1>4, <1>6, <2>1 DEF SlotsAreOwed
  <2>2. CASE b = a
    BY <1>3, <1>4, <1>7, <2>2 DEF SlotsAreOwed
  <2> QED
    BY <2>1, <2>2
<1>11. Launched'
  BY <1>6, <1>7 DEF Launched, TypeOK, Record
<1>12. Stamped'
  BY <1>1, <1>3, <1>4, <1>5 DEF Stamped, Record, Inner
<1>13. Retired'
  BY <1>6 DEF Retired, TypeOK, Record
<1>14. Silenced'
  BY <1>6, <1>7 DEF Silenced, TypeOK
<1>15. DrainInOrder'
  BY <1>3, <1>5 DEF DrainInOrder
<1>16. OneTerminalLast'
  <2>1. \A r \in Queued(inner) \cup out : r.addr = a => ~r.terminal
    BY DEF SlotsAreOwed, Retired
  <2> SUFFICES ASSUME NEW r \in Queued(inner') \cup out,
                      NEW q \in Queued(inner') \cup out,
                      r.addr = q.addr, r.terminal
               PROVE  q.seq <= r.seq /\ (q.terminal => q = r)
    BY DEF OneTerminalLast
  <2>2. CASE r = rec
    BY <1>1, <1>3, <1>4, <1>5, <2>1, <2>2 DEF Record, Inner
  <2>3. CASE r # rec
    <3>1. r \in Queued(inner) \cup out /\ q # rec
      BY <1>3, <1>4, <2>1, <2>3
    <3> QED
      BY <1>3, <3>1 DEF OneTerminalLast
  <2> QED
    BY <2>2, <2>3
<1>17. Bounded'
  <2>1. ~DataFull(inner) => Cardinality(inner.data \cup {rec}) <= Cap
    <3>1. Cardinality(inner.data) \in Nat /\ Cap \in Nat
      BY FS_CardinalityType, CapsAssumption DEF Finite
    <3>2. rec \notin inner.data
      BY <1>1, <1>4, <1>5 DEF Inner, Queued
    <3>3. Cardinality(inner.data \cup {rec}) = Cardinality(inner.data) + 1
      BY <3>2, FS_AddElement DEF Finite
    <3> QED
      BY <3>1, <3>3 DEF DataFull
  <2>2. \A m \in Machines : HeldBy(inner', m) = HeldBy(inner, m)
    BY <1>8 DEF HeldBy
  <2> QED
    BY <1>8, <2>1, <2>2 DEF Bounded, Publishes
<1>18. EveryRecordAccounted'
  <2>1. rec \notin Queued(inner)
    BY <1>1, <1>4, <1>5 DEF Inner
  <2>2. IsFiniteSet(Queued(inner))
    BY FS_Union DEF Finite, Queued
  <2>3. Cardinality(Queued(inner')) = Cardinality(Queued(inner)) + 1
    BY <1>3, <2>1, <2>2, FS_AddElement
  <2>4. Cardinality(Queued(inner)) \in Nat /\ Cardinality(out) \in Nat
    BY <2>2, FS_CardinalityType DEF Finite
  <2>5. inner'.dropped = inner.dropped + extra /\ inner.dropped \in Nat
        /\ inner.seq \in Nat
    BY <1>1 DEF Publishes, Inner
  <2> QED
    BY <1>1, <1>4, <2>3, <2>4, <2>5 DEF EveryRecordAccounted
<1> QED
  BY <1>2, <1>9, <1>10, <1>11, <1>12, <1>13, <1>14, <1>15, <1>16, <1>17, <1>18

\* Fewer reservations stay within the bounds.
LEMMA HeldShrinks ==
    ASSUME NEW l, NEW n, IsFiniteSet(Held(l)), Held(n) \subseteq Held(l),
           Cardinality(Held(l)) <= TotalCap,
           \A m \in Machines : Cardinality(HeldBy(l, m)) <= InflightCap
    PROVE  /\ IsFiniteSet(Held(n))
           /\ Cardinality(Held(n)) <= TotalCap
           /\ \A m \in Machines : Cardinality(HeldBy(n, m)) <= InflightCap
<1>1. IsFiniteSet(Held(n)) /\ Cardinality(Held(n)) <= Cardinality(Held(l))
  BY FS_Subset
<1>2. Cardinality(Held(n)) \in Nat /\ Cardinality(Held(l)) \in Nat
  BY <1>1, FS_CardinalityType
<1>3. ASSUME NEW m \in Machines
      PROVE  Cardinality(HeldBy(n, m)) <= InflightCap
  <2>1. HeldBy(n, m) \subseteq HeldBy(l, m) /\ HeldBy(l, m) \subseteq Held(l)
    BY DEF HeldBy
  <2>2. IsFiniteSet(HeldBy(l, m))
    BY <2>1, FS_Subset
  <2>3. Cardinality(HeldBy(n, m)) <= Cardinality(HeldBy(l, m))
        /\ IsFiniteSet(HeldBy(n, m))
    BY <2>1, <2>2, FS_Subset
  <2>4. Cardinality(HeldBy(n, m)) \in Nat /\ Cardinality(HeldBy(l, m)) \in Nat
    BY <2>2, <2>3, FS_CardinalityType
  <2> QED
    BY <2>3, <2>4, CapsAssumption
<1> QED
  BY <1>1, <1>2, <1>3, CapsAssumption

\* A drain preserves the invariant.
LEMMA TakeStep ==
    ASSUME IInv, NEW live, NEW want,
           inner' = TakeFor(inner, live, want),
           out' = out \cup Deliverable(inner, live, want),
           UNCHANGED <<worker, cancels, lost>>
    PROVE  IInv'
<1> USE DEF IInv
<1> DEFINE D == Deliverable(inner, live, want)
           Q == Queued(inner)
<1>1. inner \in Inner /\ lost \in Nat
  BY DEF TypeOK
<1>2. IsFiniteSet(Q) /\ IsFiniteSet(D) /\ D \subseteq Q
  <2>1. IsFiniteSet(Q)
    BY FS_Union DEF Finite, Queued
  <2>2. D \subseteq Q
    BY DEF Deliverable
  <2> QED
    BY <2>1, <2>2, FS_Subset
<1>3. /\ inner' \in Inner
      /\ inner'.data = {} /\ inner'.control = {}
      /\ inner'.seq = inner.seq
      /\ inner'.dropped = inner.dropped + Cardinality(Q \ D)
      /\ inner'.inflight = [a \in Addr |->
            IF a \in Terminated(inner) THEN Free ELSE inner.inflight[a]]
  BY <1>1, <1>2, TakeForEffect
<1>4. Queued(inner') = {}
  BY <1>3 DEF Queued
<1>5. \A a \in Addr : a \in Terminated(inner) <=> inner.inflight[a].st = "terminal"
  BY DEF SlotsAreOwed, Terminated
<1>6. \A a \in Addr : inner'.inflight[a] =
         IF inner.inflight[a].st = "terminal" THEN Free ELSE inner.inflight[a]
  BY <1>3, <1>5
<1>7. Q \subseteq Record /\ out \subseteq Record
  BY <1>1 DEF TypeOK, Inner, Queued
<1> HIDE DEF D, Q
<1>8. TypeOK'
  BY <1>2, <1>3, <1>7 DEF TypeOK, D
<1>9. Held(inner') \subseteq Held(inner)
  BY <1>6 DEF Held, Free
<1>10. Finite'
  <2>1. IsFiniteSet(Held(inner'))
    BY <1>9, FS_Subset DEF Finite
  <2>2. IsFiniteSet(out')
    BY <1>2, FS_Union DEF Finite, D
  <2> QED
    BY <1>3, <2>1, <2>2, FS_EmptySet DEF Finite
<1>11. SlotsAreOwed'
  BY <1>4, <1>6 DEF SlotsAreOwed, Free, TypeOK, Inner, Reservation
<1>12. Launched'
  <2>1. \A r \in Q : r.addr \in Addr /\ inner.inflight[r.addr].st # "free"
    BY <1>7 DEF SlotsAreOwed, Q, Record
  <2>2. \A a \in Addr : worker[a] = "idle" => inner'.inflight[a].st = "free"
    BY <1>6 DEF Launched, Free
  <2> QED
    BY <1>2, <2>1, <2>2 DEF Launched, D
<1>13. Stamped'
  BY <1>2, <1>3, <1>4 DEF Stamped, D, Q
<1>14. Retired'
  <2> SUFFICES ASSUME NEW r \in out', r.terminal
               PROVE  inner'.inflight[r.addr].st = "free"
    BY DEF Retired
  <2>1. CASE r \in out
    BY <1>6, <1>7, <2>1 DEF Retired, Record
  <2>2. CASE r \in D
    BY <1>2, <1>6, <1>7, <2>2 DEF SlotsAreOwed, Q, Record, Free
  <2> QED
    BY <2>1, <2>2 DEF D
<1>15. Silenced'
  BY <1>6 DEF Silenced, TypeOK, Free
<1>16. DrainInOrder'
  BY <1>4 DEF DrainInOrder
<1>17. OneTerminalLast'
  BY <1>2, <1>4 DEF OneTerminalLast, D, Q
<1>18. Bounded'
  <2>1. /\ Cardinality(Held(inner')) <= TotalCap
        /\ \A m \in Machines : Cardinality(HeldBy(inner', m)) <= InflightCap
    BY <1>9, HeldShrinks DEF Finite, Bounded
  <2>3. Cardinality(inner'.data) <= Cap
    BY <1>3, FS_EmptySet, CapsAssumption
  <2> QED
    BY <2>1, <2>3 DEF Bounded
<1>19. EveryRecordAccounted'
  <2>1. out \cap D = {}
    BY <1>2, <1>7 DEF DrainInOrder, Q, Record
  <2>2. Cardinality(out') = Cardinality(out) + Cardinality(D)
    <3>1. Cardinality(out \cup D)
            = Cardinality(out) + Cardinality(D) - Cardinality(out \cap D)
      BY <1>2, FS_Union DEF Finite
    <3>2. Cardinality(out) \in Nat /\ Cardinality(D) \in Nat
      BY <1>2, FS_CardinalityType DEF Finite
    <3>3. out' = out \cup D
      BY DEF D
    <3>4. Cardinality(out \cap D) = 0
      BY <2>1, FS_EmptySet
    <3>5. Cardinality(out \cup D) = Cardinality(out) + Cardinality(D)
      BY <3>1, <3>2, <3>4
    <3> QED
      BY <3>3, <3>5
  <2>3. Cardinality(Q \ D) = Cardinality(Q) - Cardinality(D)
    <3>1. Q \cap D = D
      BY <1>2
    <3> QED
      BY <1>2, <3>1, FS_Difference
  <2>4. /\ Cardinality(Q) \in Nat /\ Cardinality(D) \in Nat
        /\ Cardinality(out) \in Nat
    BY <1>2, FS_CardinalityType DEF Finite
  <2>5. inner.dropped \in Nat /\ inner.seq \in Nat
    BY <1>1 DEF Inner
  <2>6. inner.dropped + Cardinality(Q) + Cardinality(out) = inner.seq + lost
    BY DEF EveryRecordAccounted, Q
  <2> QED
    BY <1>1, <1>3, <1>4, <2>2, <2>3, <2>4, <2>5, <2>6, FS_EmptySet
       DEF EveryRecordAccounted
<1> QED
  BY <1>8, <1>10, <1>11, <1>12, <1>13, <1>14, <1>15, <1>16, <1>17, <1>18, <1>19

\* Cancelling the held addresses of S preserves the invariant.
LEMMA CancelStep ==
    ASSUME IInv, NEW S \in SUBSET Held(inner),
           inner' = CancelAll(inner, S),
           cancels' = cancels \cup S,
           UNCHANGED <<worker, out, lost>>
    PROVE  IInv'
<1> USE DEF IInv
<1> DEFINE G == Gone(inner, S)
           Q == Queued(inner)
<1>1. inner \in Inner /\ lost \in Nat
  BY DEF TypeOK
<1>2. IsFiniteSet(Q) /\ G \subseteq Q /\ IsFiniteSet(G)
  <2>1. IsFiniteSet(Q)
    BY FS_Union DEF Finite, Queued
  <2>2. G \subseteq Q
    BY DEF Gone
  <2> QED
    BY <2>1, <2>2, FS_Subset
<1>3. /\ inner' \in Inner
      /\ inner'.data = inner.data \ G
      /\ inner'.control = inner.control \ G
      /\ inner'.seq = inner.seq
      /\ inner'.dropped = inner.dropped + Cardinality(G)
      /\ inner'.inflight = [a \in Addr |->
            IF a \notin S \cap Held(inner) THEN inner.inflight[a]
            ELSE IF inner.inflight[a].st = "terminal" THEN Free
            ELSE [inner.inflight[a] EXCEPT !.cancelled = TRUE]]
  BY <1>1, <1>2, CancelEffect
<1>4. Queued(inner') = Q \ G
  BY <1>3 DEF Queued
<1>5. G = {r \in Q : r.addr \in S}
  BY DEF Gone
<1>6. S \subseteq Addr /\ \A a \in S : inner.inflight[a].st # "free"
  BY DEF Held
<1>7. Q \subseteq Record /\ out \subseteq Record
  BY <1>1 DEF TypeOK, Inner, Queued
<1> HIDE DEF G, Q
<1>8. \A a \in Addr : a \notin S => inner'.inflight[a] = inner.inflight[a]
  BY <1>3
<1>9. \A a \in S :
         /\ inner.inflight[a].st = "terminal" => inner'.inflight[a].st = "free"
         /\ inner.inflight[a].st = "running" =>
               inner'.inflight[a].st = "running" /\ inner'.inflight[a].cancelled
         /\ inner.inflight[a].st \in {"running", "terminal"}
  BY <1>1, <1>3, <1>6 DEF Inner, Reservation, Free
<1>10. TypeOK'
  BY <1>3, <1>6 DEF TypeOK
<1>11. Held(inner') \subseteq Held(inner)
  BY <1>6, <1>8 DEF Held
<1>12. Finite'
  <2>1. IsFiniteSet(Held(inner'))
    BY <1>11, FS_Subset DEF Finite
  <2>2. IsFiniteSet(inner.data \ G) /\ IsFiniteSet(inner.control \ G)
    BY FS_Difference DEF Finite
  <2> QED
    BY <1>3, <2>1, <2>2 DEF Finite
<1>13. SlotsAreOwed'
  <2> SUFFICES ASSUME NEW a \in Addr
               PROVE  /\ inner'.inflight[a].st = "running"
                            => worker[a] \in {"launching", "running"}
                      /\ inner'.inflight[a].st = "terminal" <=>
                            \E r \in Q \ G : r.addr = a /\ r.terminal
                      /\ inner'.inflight[a].st = "free" =>
                            \A r \in Q \ G : r.addr # a
    BY <1>4 DEF SlotsAreOwed
  <2>1. CASE a \in S
    BY <1>5, <1>9, <2>1 DEF SlotsAreOwed
  <2>2. CASE a \notin S
    BY <1>5, <1>8, <2>2 DEF SlotsAreOwed, Q
  <2> QED
    BY <2>1, <2>2
<1>14. Launched'
  BY <1>6, <1>8 DEF Launched
<1>15. Stamped'
  BY <1>3, <1>4 DEF Stamped, Q
<1>16. Retired'
  <2>1. \A r \in out : r.addr \in Addr
    BY <1>7 DEF Record
  <2> QED
    BY <1>6, <1>8, <2>1 DEF Retired
<1>17. Silenced'
  BY <1>6, <1>8, <1>9 DEF Silenced, TypeOK
<1>18. DrainInOrder'
  BY <1>4 DEF DrainInOrder, Q
<1>19. OneTerminalLast'
  BY <1>4 DEF OneTerminalLast, Q
<1>20. Bounded'
  <2>1. /\ Cardinality(Held(inner')) <= TotalCap
        /\ \A m \in Machines : Cardinality(HeldBy(inner', m)) <= InflightCap
    BY <1>11, HeldShrinks DEF Finite, Bounded
  <2>2. Cardinality(inner.data \ G) <= Cardinality(inner.data)
    <3>1. inner.data \ G \in SUBSET inner.data
      OBVIOUS
    <3> QED
      BY <3>1, FS_Subset DEF Finite
  <2>3. Cardinality(inner.data \ G) \in Nat /\ Cardinality(inner.data) \in Nat
    BY <1>3, <1>12, FS_CardinalityType DEF Finite
  <2> QED
    BY <1>3, <2>1, <2>2, <2>3, CapsAssumption DEF Bounded
<1>21. EveryRecordAccounted'
  <2>1. Cardinality(Q \ G) = Cardinality(Q) - Cardinality(G)
    <3>1. Q \cap G = G
      BY <1>2
    <3> QED
      BY <1>2, <3>1, FS_Difference
  <2>2. /\ Cardinality(Q) \in Nat /\ Cardinality(G) \in Nat
        /\ Cardinality(out) \in Nat
    BY <1>2, FS_CardinalityType DEF Finite
  <2>3. inner.dropped \in Nat /\ inner.seq \in Nat
    BY <1>1 DEF Inner
  <2>4. inner.dropped + Cardinality(Q) + Cardinality(out) = inner.seq + lost
    BY DEF EveryRecordAccounted, Q
  <2> QED
    BY <1>1, <1>3, <1>4, <2>1, <2>2, <2>3, <2>4 DEF EveryRecordAccounted
<1> QED
  BY <1>10, <1>12, <1>13, <1>14, <1>15, <1>16, <1>17, <1>18, <1>19, <1>20, <1>21

\* An admission reserves a slot for an address that was never used.
LEMMA AdmitStep ==
    ASSUME IInv, NEW a \in Addr, NEW stream \in BOOLEAN, Admit(a, stream)
    PROVE  IInv'
<1> USE DEF IInv
<1>1. inner \in Inner
  BY DEF TypeOK
<1>2. /\ inner' \in Inner
      /\ inner'.data = inner.data /\ inner'.control = inner.control
      /\ inner'.seq = inner.seq /\ inner'.dropped = inner.dropped
      /\ inner'.inflight = [inner.inflight EXCEPT ![a] =
            [st |-> "running", cancelled |-> FALSE, stream |-> stream]]
  BY <1>1, AdmitEffect DEF Admit
<1>3. Queued(inner') = Queued(inner)
  BY <1>2 DEF Queued
<1>4. \A b \in Addr : b # a => inner'.inflight[b] = inner.inflight[b]
                              /\ worker'[b] = worker[b]
  BY <1>1, <1>2 DEF Inner, Admit, TypeOK
<1>5. inner'.inflight[a].st = "running" /\ worker'[a] = "launching"
  BY <1>1, <1>2 DEF Inner, Admit, TypeOK
<1>6. worker[a] = "idle" /\ inner.inflight[a].st = "free" /\ a \notin cancels
  BY DEF Admit, Launched
<1>7. out' = out /\ cancels' = cancels /\ lost' = lost
  BY DEF Admit
<1>8. TypeOK'
  BY <1>2, <1>7 DEF TypeOK, Admit, WorkerState
<1>9. Held(inner') = Held(inner) \cup {a}
  BY <1>4, <1>5 DEF Held
<1>10. Finite'
  BY <1>2, <1>7, <1>9, FS_AddElement DEF Finite
<1>11. SlotsAreOwed'
  <2>1. ASSUME NEW b \in Addr, b # a
        PROVE  /\ inner'.inflight[b].st = "running"
                     => worker'[b] \in {"launching", "running"}
               /\ inner'.inflight[b].st = "terminal" <=>
                     \E r \in Queued(inner') : r.addr = b /\ r.terminal
               /\ inner'.inflight[b].st = "free" =>
                     \A r \in Queued(inner') : r.addr # b
    BY <1>3, <1>4, <2>1 DEF SlotsAreOwed
  <2>2. \A r \in Queued(inner') : r.addr # a
    BY <1>3, <1>6 DEF SlotsAreOwed
  <2> QED
    BY <1>5, <2>1, <2>2 DEF SlotsAreOwed
<1>12. Launched'
  BY <1>4, <1>5, <1>7 DEF Launched, TypeOK, Record
<1>13. \A r \in out : r.addr \in Addr /\ r.addr # a
  BY <1>6 DEF Launched, TypeOK, Record
<1>14. Stamped'
  BY <1>2, <1>3, <1>7 DEF Stamped
<1>15. Retired'
  BY <1>4, <1>7, <1>13 DEF Retired
<1>16. Silenced'
  BY <1>4, <1>6, <1>7 DEF Silenced, TypeOK
<1>17. DrainInOrder'
  BY <1>3, <1>7 DEF DrainInOrder
<1>18. OneTerminalLast'
  BY <1>3, <1>7 DEF OneTerminalLast
<1>19. Bounded'
  <2>1. Cardinality(Held(inner)) < TotalCap
        /\ Cardinality(HeldBy(inner, a.to)) < InflightCap
        /\ a \notin Held(inner)
    BY DEF Admit, CanAdmit
  <2>2. Cardinality(Held(inner')) = Cardinality(Held(inner)) + 1
    BY <1>9, <2>1, FS_AddElement DEF Finite
  <2>3. Cardinality(Held(inner)) \in Nat
    BY FS_CardinalityType DEF Finite
  <2>4. ASSUME NEW m \in Machines
        PROVE  Cardinality(HeldBy(inner', m)) <= InflightCap
    <3>1. CASE m # a.to
      <4>1. HeldBy(inner', m) = HeldBy(inner, m)
        BY <1>9, <3>1 DEF HeldBy
      <4> QED
        BY <4>1 DEF Bounded
    <3>2. CASE m = a.to
      <4>1. HeldBy(inner', m) = HeldBy(inner, m) \cup {a} /\ a \notin HeldBy(inner, m)
        BY <1>9, <2>1, <3>2 DEF HeldBy
      <4>2. IsFiniteSet(HeldBy(inner, m))
        <5>1. HeldBy(inner, m) \in SUBSET Held(inner)
          BY DEF HeldBy
        <5> QED
          BY <5>1, FS_Subset DEF Finite
      <4>3. Cardinality(HeldBy(inner', m)) = Cardinality(HeldBy(inner, m)) + 1
        BY <4>1, <4>2, FS_AddElement
      <4>4. Cardinality(HeldBy(inner, m)) \in Nat
        BY <4>2, FS_CardinalityType
      <4> QED
        BY <2>1, <3>2, <4>3, <4>4, CapsAssumption
    <3> QED
      BY <3>1, <3>2
  <2> QED
    BY <1>2, <2>1, <2>2, <2>3, <2>4, CapsAssumption DEF Bounded
<1>20. EveryRecordAccounted'
  BY <1>2, <1>3, <1>7 DEF EveryRecordAccounted
<1> QED
  BY <1>8, <1>10, <1>11, <1>12, <1>14, <1>15, <1>16, <1>17, <1>18, <1>19, <1>20

\* A step of the workers alone, which no reservation depends on.
LEMMA WorkerStep ==
    ASSUME IInv, NEW a \in Addr,
           worker' \in [Addr -> WorkerState],
           \A b \in Addr : b # a => worker'[b] = worker[b],
           worker[a] # "idle", worker'[a] # "idle",
           inner.inflight[a].st = "running" =>
               worker'[a] \in {"launching", "running"},
           UNCHANGED <<inner, out, cancels, lost>>
    PROVE  IInv'
<1> USE DEF IInv
<1>1. TypeOK' /\ Launched'
  BY DEF TypeOK, Launched, Record
<1>2. SlotsAreOwed'
  BY DEF SlotsAreOwed
<1>3. Finite' /\ Stamped' /\ Retired' /\ Silenced'
  BY DEF Finite, Stamped, Retired, Silenced
<1>4. DrainInOrder' /\ OneTerminalLast' /\ Bounded' /\ EveryRecordAccounted'
  BY DEF DrainInOrder, OneTerminalLast, Bounded, EveryRecordAccounted
<1> QED
  BY <1>1, <1>2, <1>3, <1>4
-----------------------------------------------------------------------------
(* The theorems.                                                           *)

\* The invariant holds when the landing is created.
LEMMA InitIInv == Init => IInv
<1> SUFFICES ASSUME Init PROVE IInv
  OBVIOUS
<1>1. inner = New /\ worker = [a \in Addr |-> "idle"] /\ out = {} /\ cancels = {}
      /\ lost = 0
  BY DEF Init
<1>2. /\ inner.data = {} /\ inner.control = {} /\ inner.seq = 0
      /\ inner.dropped = 0 /\ inner.inflight = [a \in Addr |-> Free]
  BY <1>1 DEF New
<1>3. inner \in Inner
  BY <1>1 DEF New, Inner, Free, Reservation
<1>4. Queued(inner) = {} /\ Held(inner) = {}
      /\ \A m \in Machines : HeldBy(inner, m) = {}
  BY <1>2 DEF Queued, Held, HeldBy, Free
<1>5. TypeOK
  BY <1>1, <1>3 DEF TypeOK, WorkerState
<1>6. Finite
  BY <1>1, <1>2, <1>4, FS_EmptySet DEF Finite
<1>7. SlotsAreOwed /\ Launched
  BY <1>1, <1>2, <1>4 DEF SlotsAreOwed, Launched, Free
<1>8. Stamped /\ Retired /\ Silenced /\ DrainInOrder /\ OneTerminalLast
  BY <1>1, <1>4 DEF Stamped, Retired, Silenced, DrainInOrder, OneTerminalLast
<1>9. Bounded
  BY <1>2, <1>4, FS_EmptySet, CapsAssumption DEF Bounded
<1>10. EveryRecordAccounted
  BY <1>1, <1>2, <1>4, FS_EmptySet DEF EveryRecordAccounted
<1> QED
  BY <1>5, <1>6, <1>7, <1>8, <1>9, <1>10 DEF IInv

\* A completion preserves the invariant whatever state the request is in.
LEMMA CompleteStep ==
    ASSUME IInv, NEW a \in Addr, NEW lane \in Lanes,
           NEW key \in Keys \cup {NoKey},
           worker[a] \in {"launching", "running"},
           inner' = Complete(inner, a, lane, key),
           worker' \in [Addr -> WorkerState],
           \A b \in Addr : b # a => worker'[b] = worker[b],
           worker'[a] # "idle",
           out' = out, cancels' = cancels,
           lost' = IF inner.inflight[a].st = "running" /\ Overflows(inner, a, lane)
                   THEN lost + 1 ELSE lost
    PROVE  IInv'
<1>1. CASE inner.inflight[a].st = "running"
  <2> DEFINE extra == IF Overflows(inner, a, lane) THEN 1 ELSE 0
  <2>1. inner' = Terminate(inner, a, lane, key)
    BY <1>1 DEF Complete
  <2>2. PICK rec \in Record :
           rec.terminal /\ Publishes(inner, inner', a, rec, extra)
    BY <2>1, TerminateEffect DEF IInv, TypeOK
  <2>3. extra \in Nat /\ lost' = lost + extra
    BY <1>1 DEF IInv, TypeOK
  <2> HIDE DEF extra
  <2> QED
    BY <1>1, <2>2, <2>3, PublishStep
<1>2. CASE inner.inflight[a].st # "running"
  <2>1. UNCHANGED <<inner, out, cancels, lost>>
    BY <1>2 DEF Complete
  <2> QED
    BY <1>2, <2>1, WorkerStep
<1> QED
  BY <1>1, <1>2

\* Every action of the specification preserves the invariant.
LEMMA NextIInv == IInv /\ [Next]_vars => IInv'
<1> SUFFICES ASSUME IInv, [Next]_vars PROVE IInv'
  OBVIOUS
<1> USE DEF Lanes
<1>w. worker \in [Addr -> WorkerState] /\ lost \in Nat
  BY DEF IInv, TypeOK
<1>1. ASSUME NEW a \in Addr, NEW stream \in BOOLEAN, Admit(a, stream) PROVE IInv'
  BY <1>1, AdmitStep
<1>2. ASSUME NEW a \in Addr, Spawn(a) PROVE IInv'
  BY <1>w, <1>2, WorkerStep DEF Spawn, WorkerState
<1>3. ASSUME NEW a \in Addr, SpawnRefused(a) PROVE IInv'
  <2>1. inner' = Complete(inner, a, "Refused", NoKey)
        /\ ~Overflows(inner, a, "Refused")
    BY <1>3 DEF SpawnRefused, Refused, Overflows
  <2> QED
    BY <1>w, <1>3, <2>1, CompleteStep DEF SpawnRefused, WorkerState
<1>4. ASSUME NEW live, NEW want, MainTakeFor(live, want) PROVE IInv'
  BY <1>4, TakeStep DEF MainTakeFor
<1>5. ASSUME NEW a \in Addr, MainCancel(a) PROVE IInv'
  <2>1. {a} \in SUBSET Held(inner) /\ inner' = CancelAll(inner, {a})
    BY <1>5 DEF MainCancel, Cancel
  <2> QED
    BY <1>5, <2>1, CancelStep DEF MainCancel
<1>6. ASSUME MainClear PROVE IInv'
  <2>1. Held(inner) \in SUBSET Held(inner) /\ inner' = CancelAll(inner, Held(inner))
    BY <1>6 DEF MainClear, Clear
  <2> QED
    BY <1>6, <2>1, CancelStep DEF MainClear
<1>7. ASSUME NEW a \in Addr, NEW k \in Keys, WorkerProgress(a, k) PROVE IInv'
  <2>1. CASE Streaming(inner, a) /\ DataFull(inner)
    <3>1. PICK rec \in Record :
             rec.terminal /\ Publishes(inner, inner', a, rec, 1)
      BY <1>7, <2>1, ProgressFullEffect DEF WorkerProgress, IInv, TypeOK
    <3>2. inner.inflight[a].st = "running" /\ 1 \in Nat
      BY <2>1 DEF Streaming
    <3> QED
      BY <1>w, <1>7, <2>1, <3>1, <3>2, PublishStep DEF WorkerProgress
  <2>2. CASE Streaming(inner, a) /\ ~DataFull(inner)
    <3>1. PICK rec \in Record :
             ~rec.terminal /\ Publishes(inner, inner', a, rec, 0)
      BY <1>7, <2>2, ProgressEffect DEF WorkerProgress, IInv, TypeOK
    <3>2. inner.inflight[a].st = "running" /\ 0 \in Nat /\ lost' = lost + 0
      BY <1>w, <1>7, <2>2 DEF Streaming, WorkerProgress
    <3> QED
      BY <1>w, <1>7, <3>1, <3>2, PublishStep DEF WorkerProgress
  <2>3. CASE ~Streaming(inner, a)
    BY <1>w, <1>7, <2>3, WorkerStep DEF WorkerProgress, Progress
  <2> QED
    BY <2>1, <2>2, <2>3
<1>8. ASSUME NEW a \in Addr, NEW k \in Keys, WorkerPut(a, k) PROVE IInv'
  BY <1>w, <1>8, CompleteStep DEF WorkerPut, Put
<1>9. ASSUME NEW a \in Addr, WorkerExit(a) PROVE IInv'
  <2>1. inner' = Complete(inner, a, "Dropped", NoKey)
        /\ ~Overflows(inner, a, "Dropped")
    BY <1>9 DEF WorkerExit, Dropped, Overflows
  <2> QED
    BY <1>w, <1>9, <2>1, CompleteStep DEF WorkerExit, WorkerState
<1>10. CASE UNCHANGED vars
  BY <1>10 DEF vars, IInv, TypeOK, Finite, SlotsAreOwed, Launched, Stamped,
       Retired, Silenced, DrainInOrder, OneTerminalLast, Bounded,
       EveryRecordAccounted
<1> QED
  BY <1>1, <1>2, <1>3, <1>4, <1>5, <1>6, <1>7, <1>8, <1>9, <1>10
     DEF Next, Main, Worker

\* The inductive invariant of the landing holds in every reachable state.
THEOREM InductiveInvariant == Spec => []IInv
BY InitIInv, NextIInv, PTL DEF Spec

\* Landing's state keeps its type: data records in the data lane, terminals in
\* the control lane.
THEOREM TypeCorrect == Spec => []TypeOK
<1>1. IInv => TypeOK
  BY DEF IInv
<1> QED
  BY <1>1, InductiveInvariant, PTL

\* No slot of Landing leaks: a reservation is held exactly as long as a live
\* worker or a queued terminal will return it.
THEOREM NoSlotLeaks == Spec => []SlotsAreOwed
<1>1. IInv => SlotsAreOwed
  BY DEF IInv
<1> QED
  BY <1>1, InductiveInvariant, PTL

\* One terminal per admitted operation, after everything else it published.
THEOREM TerminalsAreUnique == Spec => []OneTerminalLast
<1>1. IInv => OneTerminalLast
  BY DEF IInv
<1> QED
  BY <1>1, InductiveInvariant, PTL

\* take_for delivers both lanes in one arrival order across drains.
THEOREM DrainsInOrder == Spec => []DrainInOrder
<1>1. IInv => DrainInOrder
  BY DEF IInv
<1> QED
  BY <1>1, InductiveInvariant, PTL

\* count_drop accounts for every record take_for did not deliver.
THEOREM NothingVanishes == Spec => []EveryRecordAccounted
<1>1. IInv => EveryRecordAccounted
  BY DEF IInv
<1> QED
  BY <1>1, InductiveInvariant, PTL

\* Landing's storage is bounded by its capacities, the control lane included,
\* although no code bounds that lane: its records are terminals of distinct
\* reservations, so there are no more of them than slots.
THEOREM StorageIsBounded == Spec => []StorageBounded
<1>1. ASSUME IInv PROVE StorageBounded
  <2> USE <1>1 DEF IInv
  <2> DEFINE f == [r \in inner.control |-> r.addr]
  <2>1. inner.control \subseteq {r \in Record : r.terminal}
    BY DEF TypeOK, Inner
  <2>2. f \in [inner.control -> Held(inner)]
    <3>1. \A r \in inner.control : r.addr \in Addr /\ inner.inflight[r.addr].st # "free"
      BY <2>1 DEF SlotsAreOwed, Queued, Record
    <3> QED
      BY <3>1 DEF Held
  <2>3. \A r, q \in inner.control : f[r] = f[q] => r = q
    BY <2>1 DEF OneTerminalLast, Queued
  <2>4. f \in Injection(inner.control, Held(inner))
    BY <2>2, <2>3 DEF Injection, IsInjective
  <2>5. Cardinality(inner.control) <= Cardinality(Held(inner))
    BY <2>4, FS_Injection DEF Finite
  <2>6. Cardinality(inner.control) \in Nat /\ Cardinality(Held(inner)) \in Nat
    BY FS_CardinalityType DEF Finite
  <2> QED
    BY <2>5, <2>6, CapsAssumption DEF StorageBounded, Bounded
<1> QED
  BY <1>1, InductiveInvariant, PTL

\* take_for never delivers anything of an operation that was cancelled before,
\* however late its worker answers.
THEOREM CancelledNeverDelivered == Spec => CancelledStaysSilent
<1> DEFINE Silent == \A r \in out' \ out : r.addr \notin cancels
<1>1. IInv /\ [Next]_vars => [Silent]_vars
  <2> SUFFICES ASSUME IInv, Next, out' # out PROVE Silent
    BY DEF vars
  <2>1. PICK live \in SUBSET Machines, want \in SUBSET Keys : MainTakeFor(live, want)
    BY DEF Next, Main, Worker, Admit, Spawn, SpawnRefused, MainCancel, MainClear,
       WorkerProgress, WorkerPut, WorkerExit
  <2>2. out' \ out \subseteq Deliverable(inner, live, want)
    BY <2>1 DEF MainTakeFor
  <2>3. \A r \in Deliverable(inner, live, want) :
           /\ ~inner.inflight[r.addr].cancelled
           /\ r.addr \in Addr
           /\ inner.inflight[r.addr].st # "free"
    <3>1. Queued(inner) \subseteq Record
      BY DEF IInv, TypeOK, Inner, Queued
    <3> QED
      BY <3>1 DEF Deliverable, IInv, SlotsAreOwed, Record
  <2> QED
    BY <2>2, <2>3 DEF IInv, Silenced
<1> QED
  BY <1>1, InductiveInvariant, PTL DEF Spec, CancelledStaysSilent

\* The landing's safety in one: slot ownership, drain order and bounded storage, over the types
\* (admit, finish, drain).
THEOREM LandingIsSafe == Spec => []LandingSafe
<1>1. TypeOK /\ SlotsAreOwed /\ DrainInOrder /\ StorageBounded => LandingSafe
  BY DEF LandingSafe
<1> QED
  BY <1>1, TypeCorrect, NoSlotLeaks, DrainsInOrder, StorageIsBounded, PTL

=============================================================================
