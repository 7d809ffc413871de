----------------------------- MODULE LandingOps -----------------------------
(***************************************************************************)
(* The bounded result transport between worker threads and the main        *)
(* thread: `Landing<K, V>` of rust-modules/src/ui/landing.rs.              *)
(*                                                                         *)
(* Every method of Landing takes the one mutex around `Inner`, so a method *)
(* is one atomic state transformer.  This module gives each of them as an  *)
(* operator from an Inner value to the next one; module Landing runs them  *)
(* under arbitrary workers and module Metadata chains them the way the     *)
(* detail page does.                                                       *)
(*                                                                         *)
(* Abstractions.  A lane is a set of records and not a queue: records are  *)
(* stamped with a strictly increasing `seq` when they are pushed, and      *)
(* take_for sorts both lanes by it, so the stamp is the queue order.       *)
(* Payloads (the V of Landing) are left out; the key K is kept because     *)
(* take_for filters by it.  The two drop counters wrap at 2^32 in the      *)
(* code; nothing reads them back but the state hash, so they are naturals. *)
(***************************************************************************)
EXTENDS Naturals, FiniteSets

CONSTANTS
    Machines,       \* addressees (MachineId)
    Reqs,           \* request ids (RequestId)
    Keys,           \* result keys (K)
    NoKey,          \* the key of a record without data
    Cap,            \* data lane capacity
    InflightCap,    \* reservations one addressee may hold
    TotalCap        \* reservations in all

ASSUME CapsAssumption ==
    /\ Cap \in Nat
    /\ InflightCap \in Nat
    /\ TotalCap \in Nat

Addr == [to : Machines, req : Reqs]

Lanes == {"Data", "Dropped", "Refused"}

Record == [seq : Nat, addr : Addr, lane : Lanes, key : Keys \cup {NoKey},
           terminal : BOOLEAN]

\* An address without an entry in the `inflight` map is "free".
Reservation == [st : {"free", "running", "terminal"}, cancelled : BOOLEAN,
                stream : BOOLEAN]

Free == [st |-> "free", cancelled |-> FALSE, stream |-> FALSE]

\* The data lane carries data only, the control lane terminals only.
Inner == [data : SUBSET {r \in Record : r.lane = "Data"},
          control : SUBSET {r \in Record : r.terminal}, seq : Nat,
          dropped : Nat, dropped_for : [Machines -> Nat],
          inflight : [Addr -> Reservation]]

New == [data |-> {}, control |-> {}, seq |-> 0, dropped |-> 0,
        dropped_for |-> [m \in Machines |-> 0],
        inflight |-> [a \in Addr |-> Free]]

Queued(l) == l.data \cup l.control

Held(l) == {a \in Addr : l.inflight[a].st # "free"}

HeldBy(l, m) == {a \in Held(l) : a.to = m}

-----------------------------------------------------------------------------
(* Admission.                                                              *)

CanAdmit(l, a) ==
    /\ a \notin Held(l)
    /\ Cardinality(Held(l)) < TotalCap
    /\ Cardinality(HeldBy(l, a.to)) < InflightCap

\* admit / admit_stream.  A Duplicate or Capacity rejection changes nothing.
AdmitMode(l, a, stream) ==
    IF CanAdmit(l, a)
    THEN [l EXCEPT !.inflight[a] =
              [st |-> "running", cancelled |-> FALSE, stream |-> stream]]
    ELSE l

-----------------------------------------------------------------------------
(* Publication.                                                            *)

\* count_drop, once for every record of recs.
CountDrops(l, recs) ==
    [l EXCEPT !.dropped = @ + Cardinality(recs),
              !.dropped_for = [m \in Machines |->
                  @[m] + Cardinality({r \in recs : r.addr.to = m})]]

\* count_drop of one publication for m that never became a record.
CountLost(l, m) ==
    [l EXCEPT !.dropped = @ + 1, !.dropped_for[m] = @ + 1]

DataFull(l) == Cardinality(l.data) >= Cap

\* The one-shot result a full data lane turns into Dropped.
Overflows(l, a, lane) ==
    /\ ~l.inflight[a].cancelled
    /\ ~l.inflight[a].stream
    /\ lane = "Data"
    /\ DataFull(l)

\* complete_locked for a reservation that is still running.  Nothing is
\* recorded for an address that is free (Unknown) or already terminal.
Terminate(l, a, lane, key) ==
    LET full  == Overflows(l, a, lane)
        shown == IF full \/ l.inflight[a].cancelled THEN "Dropped" ELSE lane
        rec   == [seq |-> l.seq + 1, addr |-> a, lane |-> shown,
                  key |-> IF shown = "Data" THEN key ELSE NoKey,
                  terminal |-> TRUE]
        inDataLane == ~l.inflight[a].stream /\ shown = "Data"
        counted == IF full THEN CountLost(l, a.to) ELSE l
    IN  [counted EXCEPT
            !.seq = @ + 1,
            !.data = IF inDataLane THEN @ \cup {rec} ELSE @,
            !.control = IF inDataLane THEN @ ELSE @ \cup {rec},
            !.inflight[a].st = "terminal"]

\* Mutant: a second terminal is recorded like the first.
CompleteTwice(l, a, lane, key) ==
    IF l.inflight[a].st # "free" THEN Terminate(l, a, lane, key) ELSE l

\* Mutant: a cancelled worker's completion is refused like a cancelled progress.
CompleteUnlessCancelled(l, a, lane, key) ==
    IF l.inflight[a].st = "running" /\ ~l.inflight[a].cancelled
    THEN Terminate(l, a, lane, key) ELSE l

Complete(l, a, lane, key) ==
    IF l.inflight[a].st = "running" THEN Terminate(l, a, lane, key) ELSE l

Put(l, a, key) == Complete(l, a, "Data", key)

Dropped(l, a) == Complete(l, a, "Dropped", NoKey)

Refused(l, a) == Complete(l, a, "Refused", NoKey)

\* The reservations progress accepts; the others get an error and no record.
Streaming(l, a) ==
    /\ l.inflight[a].st = "running"
    /\ l.inflight[a].stream
    /\ ~l.inflight[a].cancelled

\* progress: a full data lane closes the stream with one Dropped terminal.
Progress(l, a, key) ==
    IF ~Streaming(l, a) THEN l
    ELSE IF DataFull(l)
    THEN Complete(CountLost(l, a.to), a, "Dropped", NoKey)
    ELSE [l EXCEPT
            !.seq = @ + 1,
            !.data = @ \cup {[seq |-> l.seq + 1, addr |-> a, lane |-> "Data",
                              key |-> key, terminal |-> FALSE]}]

-----------------------------------------------------------------------------
(* The main thread: drain and cancellation.                                *)

\* Mutant: the cancelled flag of the reservation is not looked up.
DeliverableIfLive(l, live, want) ==
    {r \in Queued(l) : /\ r.addr.to \in live
                       /\ r.lane = "Data" => r.key \in want}

\* The records take_for hands to the caller.  The rest of the queue is
\* discarded and counted.
Deliverable(l, live, want) ==
    {r \in Queued(l) : /\ ~l.inflight[r.addr].cancelled
                       /\ r.addr.to \in live
                       /\ r.lane = "Data" => r.key \in want}

Terminated(l) == {r.addr : r \in {q \in Queued(l) : q.terminal}}

\* Mutant: only a terminal that is delivered retires its reservation.
TakeForKeepsDropped(l, live, want) ==
    [CountDrops(l, Queued(l) \ Deliverable(l, live, want)) EXCEPT
        !.data = {}, !.control = {},
        !.inflight = [a \in Addr |->
            IF \E r \in Deliverable(l, live, want) : r.addr = a /\ r.terminal
            THEN Free ELSE @[a]]]

\* take_for empties both lanes and retires the reservation of every terminal.
TakeFor(l, live, want) ==
    [CountDrops(l, Queued(l) \ Deliverable(l, live, want)) EXCEPT
        !.data = {}, !.control = {},
        !.inflight = [a \in Addr |-> IF a \in Terminated(l) THEN Free ELSE @[a]]]

\* Mutant: the records a cancellation discards are not counted.
CancelAllUncounted(l, S) ==
    LET hit == S \cap Held(l)
        gone == {r \in Queued(l) : r.addr \in hit}
    IN  [l EXCEPT
            !.data = @ \ gone, !.control = @ \ gone,
            !.inflight = [a \in Addr |->
                IF a \notin hit THEN @[a]
                ELSE IF @[a].st = "terminal" THEN Free
                ELSE [@[a] EXCEPT !.cancelled = TRUE]]]

\* cancel_locked for every address of S: queued records go, a terminal
\* reservation is retired, a running one is kept until its worker answers.
CancelAll(l, S) ==
    LET hit == S \cap Held(l)
        gone == {r \in Queued(l) : r.addr \in hit}
    IN  [CountDrops(l, gone) EXCEPT
            !.data = @ \ gone, !.control = @ \ gone,
            !.inflight = [a \in Addr |->
                IF a \notin hit THEN @[a]
                ELSE IF @[a].st = "terminal" THEN Free
                ELSE [@[a] EXCEPT !.cancelled = TRUE]]]

Cancel(l, a) == CancelAll(l, {a})

Clear(l) == CancelAll(l, Held(l))
=============================================================================
