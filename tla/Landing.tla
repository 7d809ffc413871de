------------------------------ MODULE Landing ------------------------------
(***************************************************************************)
(* The landing of rust-modules/src/ui/landing.rs shared by the main thread *)
(* and any number of workers.                                              *)
(*                                                                         *)
(* The main thread admits a request and starts its worker in one call, so  *)
(* while a launch is under way it does nothing else; workers and their     *)
(* completion guards run at any point in between.  A worker may publish    *)
(* progress and terminals in any order and as often as it likes: what a    *)
(* second or a late publication does is the landing's business.  Every     *)
(* address is used for one operation only, as the module comment of        *)
(* landing.rs requires of its callers.                                     *)
(***************************************************************************)
EXTENDS LandingOps

CONSTANT MaxSeq     \* bound on the records published by progress

ASSUME MaxSeqAssumption == MaxSeq \in Nat

VARIABLES
    inner,      \* Landing::inner
    worker,     \* the worker of each address
    out,        \* history: the records take_for has delivered
    cancels,    \* history: the addresses cancelled while they held a slot
    lost        \* history: publications counted as dropped by a full lane

vars == <<inner, worker, out, cancels, lost>>

WorkerState == {"idle", "launching", "running", "done"}

TypeOK ==
    /\ inner \in Inner
    /\ worker \in [Addr -> WorkerState]
    /\ out \in SUBSET Record
    /\ cancels \in SUBSET Addr
    /\ lost \in Nat

Init ==
    /\ inner = New
    /\ worker = [a \in Addr |-> "idle"]
    /\ out = {}
    /\ cancels = {}
    /\ lost = 0

-----------------------------------------------------------------------------
(* The main thread.                                                        *)

MainIdle == \A a \in Addr : worker[a] # "launching"

Admit(a, stream) ==
    /\ MainIdle
    /\ worker[a] = "idle"
    /\ CanAdmit(inner, a)
    /\ inner' = AdmitMode(inner, a, stream)
    /\ worker' = [worker EXCEPT ![a] = "launching"]
    /\ UNCHANGED <<out, cancels, lost>>

\* The operating system started the thread.
Spawn(a) ==
    /\ worker[a] = "launching"
    /\ worker' = [worker EXCEPT ![a] = "running"]
    /\ UNCHANGED <<inner, out, cancels, lost>>

\* The operating system refused the thread: the launcher answers for it.
SpawnRefused(a) ==
    /\ worker[a] = "launching"
    /\ worker' = [worker EXCEPT ![a] = "done"]
    /\ inner' = Refused(inner, a)
    /\ UNCHANGED <<out, cancels, lost>>

MainTakeFor(live, want) ==
    /\ MainIdle
    /\ out' = out \cup Deliverable(inner, live, want)
    /\ inner' = TakeFor(inner, live, want)
    /\ UNCHANGED <<worker, cancels, lost>>

MainCancel(a) ==
    /\ MainIdle
    /\ a \in Held(inner)
    /\ inner' = Cancel(inner, a)
    /\ cancels' = cancels \cup {a}
    /\ UNCHANGED <<worker, out, lost>>

MainClear ==
    /\ MainIdle
    /\ inner' = Clear(inner)
    /\ cancels' = cancels \cup Held(inner)
    /\ UNCHANGED <<worker, out, lost>>

-----------------------------------------------------------------------------
(* The workers.                                                            *)

WorkerProgress(a, k) ==
    /\ worker[a] = "running"
    /\ inner.seq < MaxSeq
    /\ inner' = Progress(inner, a, k)
    /\ lost' = IF Streaming(inner, a) /\ DataFull(inner) THEN lost + 1 ELSE lost
    /\ UNCHANGED <<worker, out, cancels>>

WorkerPut(a, k) ==
    /\ worker[a] = "running"
    /\ inner' = Put(inner, a, k)
    /\ lost' = IF inner.inflight[a].st = "running" /\ Overflows(inner, a, "Data")
               THEN lost + 1 ELSE lost
    /\ UNCHANGED <<worker, out, cancels>>

\* The worker returns or unwinds and its CompletionGuard drops.
WorkerExit(a) ==
    /\ worker[a] = "running"
    /\ worker' = [worker EXCEPT ![a] = "done"]
    /\ inner' = Dropped(inner, a)
    /\ UNCHANGED <<out, cancels, lost>>

-----------------------------------------------------------------------------
Main ==
    \/ \E a \in Addr, stream \in BOOLEAN : Admit(a, stream)
    \/ \E a \in Addr : Spawn(a)
    \/ \E a \in Addr : SpawnRefused(a)
    \/ \E live \in SUBSET Machines, want \in SUBSET Keys : MainTakeFor(live, want)
    \/ \E a \in Addr : MainCancel(a)
    \/ MainClear

Worker(a) ==
    \/ \E k \in Keys : WorkerProgress(a, k)
    \/ \E k \in Keys : WorkerPut(a, k)
    \/ WorkerExit(a)

Next == Main \/ \E a \in Addr : Worker(a)

Spec == Init /\ [][Next]_vars

\* The frame loop drains every frame and a launch is two adjacent calls; a
\* worker's blocking calls all have a timeout, so it returns in the end.
FairSpec ==
    /\ Spec
    /\ WF_vars(\E live \in SUBSET Machines, want \in SUBSET Keys :
                  MainTakeFor(live, want))
    /\ \A a \in Addr : WF_vars(Spawn(a) \/ SpawnRefused(a))
    /\ \A a \in Addr : WF_vars(WorkerExit(a))

-----------------------------------------------------------------------------
(* Properties.                                                             *)

\* A reservation is held for exactly as long as someone still owes its
\* answer: a running one belongs to a live worker (or a launch under way), a
\* terminal one to one queued terminal record, and no record is queued for an
\* address without a reservation.  A slot is never leaked, however cancels,
\* late publications and drains interleave.
SlotsAreOwed ==
    \A a \in Addr :
        /\ inner.inflight[a].st = "running" => worker[a] \in {"launching", "running"}
        /\ inner.inflight[a].st = "terminal" <=>
              \E r \in Queued(inner) : r.addr = a /\ r.terminal
        /\ inner.inflight[a].st = "free" =>
              \A r \in Queued(inner) : r.addr # a

\* One admitted operation has one terminal, queued or delivered, and nothing
\* of the operation comes after it: progress never follows its stream's end.
OneTerminalLast ==
    \A r, q \in Queued(inner) \cup out :
        (r.addr = q.addr /\ r.terminal) => /\ q.seq <= r.seq
                                           /\ q.terminal => q = r

\* A drain never overtakes: whatever is still queued arrived after every
\* record already delivered, across both lanes.
DrainInOrder ==
    \A r \in out, q \in Queued(inner) : r.seq < q.seq

\* The landing's memory is bounded: data by its cap, control by the
\* reservations, the reservations globally and per addressee.
StorageBounded ==
    /\ Cardinality(inner.data) <= Cap
    /\ Cardinality(inner.control) <= TotalCap
    /\ Cardinality(Held(inner)) <= TotalCap
    /\ \A m \in Machines : Cardinality(HeldBy(inner, m)) <= InflightCap

\* No record vanishes: everything ever stamped is queued, delivered or counted
\* as dropped, and a publication lost to a full lane is counted once more.
EveryRecordAccounted ==
    inner.dropped + Cardinality(Queued(inner)) + Cardinality(out)
        = inner.seq + lost

\* What a landing may never be, whatever workers, cancellations and drains it
\* has seen: a slot is held without an owner, a drain reorders the lanes, or
\* storage outgrows its caps (ui/landing.rs, admit, finish, drain).
LandingSafe ==
    /\ TypeOK
    /\ SlotsAreOwed
    /\ DrainInOrder
    /\ StorageBounded

\* Nothing of an operation is delivered once it has been cancelled, not even
\* the answer its worker publishes long afterwards.
CancelledStaysSilent ==
    [][\A r \in out' \ out : r.addr \notin cancels]_vars

\* Every admitted request gives its slot back, whatever its worker publishes
\* and whether or not it is cancelled: Reqs bounds the requests, so once they
\* have all been made the slots are all free again.
SlotsReturn == []<>(\A a \in Addr : inner.inflight[a].st = "free")
=============================================================================
