--------------------------- MODULE StorageWorker ----------------------------
(***************************************************************************)
(* The persistence executor: rust-modules/src/storage_worker.rs.           *)
(*                                                                         *)
(* One worker thread runs jobs from a bounded channel in order.  `submit`  *)
(* starts the worker on demand and refuses a job when the channel is full, *)
(* the thread cannot be started or the worker has died; `submit_retained`  *)
(* keeps the job of a user edit in a backlog that the frame pump offers    *)
(* again.  A job that panics kills the worker: its unwinding drops the     *)
(* job's own channels, then the command receiver with everything queued    *)
(* behind it, then the job's reply.  A caller polls a ticket of two        *)
(* channels, the job's result and the worker's.                            *)
(*                                                                         *)
(* Abstractions.  A job's work is its completion.  The backlog's one-second *)
(* retry timer can elapse at any time.  The backlog's pump submits one job *)
(* per step, so that other threads' submits come in between.               *)
(***************************************************************************)
EXTENDS Integers, Sequences, SequencesExt, FiniteSets

CONSTANTS
    CAPACITY,  \* bound of the channel
    MaxJobs,   \* bound on jobs
    MaxPanics  \* bound on jobs dropped before another may panic

ASSUME StorageWorkerAssumption ==
    /\ CAPACITY \in Nat \ {0}
    /\ MaxJobs \in Nat
    /\ MaxPanics \in Nat

VARIABLES
    slot,      \* SHARED: "none", "open", or "closed" (its receiver is dropped)
    chan,      \* the channel's jobs
    running,   \* the job being handled, 0 for none
    dying,     \* jobs whose unwinding has not reached the end: see Unwind
    retained,  \* Retained::jobs
    retry_at,  \* Retained::retry_at.is_some()
    pumping,   \* pump_retained_locked is in its loop
    jobs,      \* jobs submitted so far
    kept,      \* those of submit_retained
    result,    \* [job -> its result channel: "open", "sent", "dropped"]
    worker,    \* [job -> the ticket's worker channel: "open", "dropped"]
    applied,   \* history: the jobs completed, in order
    seen       \* jobs whose ticket told its caller of the failure

vars == <<slot, chan, running, dying, retained, retry_at, pumping, jobs, kept,
          result, worker, applied, seen>>

Jobs == 1 .. MaxJobs

TypeOK ==
    /\ slot \in {"none", "open", "closed"}
    /\ chan \in Seq(Jobs)
    /\ Len(chan) <= CAPACITY
    /\ running \in Jobs \cup {0}
    /\ dying \subseteq Jobs
    /\ retained \in Seq(Jobs)
    /\ retry_at \in BOOLEAN
    /\ pumping \in BOOLEAN
    /\ jobs \in 0 .. MaxJobs
    /\ kept \subseteq Jobs
    /\ result \in [Jobs -> {"open", "sent", "dropped"}]
    /\ worker \in [Jobs -> {"open", "dropped"}]
    /\ applied \in Seq(Jobs)
    /\ seen \subseteq Jobs

Init ==
    /\ slot = "none"
    /\ chan = <<>>
    /\ running = 0
    /\ dying = {}
    /\ retained = <<>>
    /\ retry_at = FALSE
    /\ pumping = FALSE
    /\ jobs = 0
    /\ kept = {}
    /\ result = [j \in Jobs |-> "open"]
    /\ worker = [j \in Jobs |-> "open"]
    /\ applied = <<>>
    /\ seen = {}

-----------------------------------------------------------------------------
(* submit_shared: the slot is locked for the whole of it.                  *)

\* (mutant) The dead executor stays in the slot.
StoppedKeepsSlot == "closed"

StoppedClearsSlot == "none"

Accepted(j) ==
    /\ slot # "closed"
    /\ Len(chan) < CAPACITY
    /\ slot' = "open"
    /\ chan' = Append(chan, j)

Full ==
    /\ slot = "open"
    /\ Len(chan) >= CAPACITY
    /\ UNCHANGED <<slot, chan>>

Stopped ==
    /\ slot = "closed"
    /\ slot' = StoppedClearsSlot
    /\ UNCHANGED chan

StartFailed ==
    /\ slot = "none"
    /\ UNCHANGED <<slot, chan>>

\* A background producer's submit: a refusal is the caller's to handle, so its
\* result is settled at once.
Submit ==
    /\ jobs < MaxJobs
    /\ jobs' = jobs + 1
    /\ \/ Accepted(jobs + 1) /\ UNCHANGED result
       \/ /\ Full \/ Stopped \/ StartFailed
          /\ result' = [result EXCEPT ![jobs + 1] = "sent"]
    /\ UNCHANGED <<running, dying, retained, retry_at, pumping, kept, worker,
                   applied, seen>>

-----------------------------------------------------------------------------
(* The backlog, under its own lock.                                        *)

SubmitRetained ==
    /\ ~pumping
    /\ jobs < MaxJobs
    /\ jobs' = jobs + 1
    /\ kept' = kept \cup {jobs + 1}
    /\ retained' = Append(retained, jobs + 1)
    /\ pumping' = ~retry_at
    /\ UNCHANGED <<slot, chan, running, dying, retry_at, result, worker, applied, seen>>

\* The frame's pump, with the timer unset or elapsed.
PumpRetained ==
    /\ ~pumping
    /\ retained # <<>> \/ retry_at
    /\ retry_at' = FALSE
    /\ pumping' = TRUE
    /\ UNCHANGED <<slot, chan, running, dying, retained, jobs, kept, result,
                   worker, applied, seen>>

PumpAccepted ==
    /\ pumping
    /\ retained # <<>>
    /\ Accepted(Head(retained))
    /\ retained' = Tail(retained)
    /\ UNCHANGED <<running, dying, retry_at, pumping, jobs, kept, result, worker,
                   applied, seen>>

\* (mutant) The refused job goes to the back of the backlog.
PutBackLast == Append(Tail(retained), Head(retained))

\* (mutant) The refused job is gone.
PutBackNothing == Tail(retained)

PutBack == retained

\* Refused: the job is back at the front, and only a full channel is tried
\* again on the next frame.
PumpRefused ==
    /\ pumping
    /\ retained # <<>>
    /\ Full \/ Stopped \/ StartFailed
    /\ retained' = PutBack
    /\ retry_at' = (slot # "open")
    /\ pumping' = FALSE
    /\ UNCHANGED <<running, dying, jobs, kept, result, worker, applied, seen>>

PumpEnds ==
    /\ pumping
    /\ retained = <<>>
    /\ pumping' = FALSE
    /\ UNCHANGED <<slot, chan, running, dying, retained, retry_at, jobs, kept,
                   result, worker, applied, seen>>

-----------------------------------------------------------------------------
(* The worker thread.                                                      *)

Take ==
    /\ slot = "open"
    /\ running = 0
    /\ chan # <<>>
    /\ running' = Head(chan)
    /\ chan' = Tail(chan)
    /\ UNCHANGED <<slot, dying, retained, retry_at, pumping, jobs, kept, result,
                   worker, applied, seen>>

Finish ==
    /\ running # 0
    /\ running \notin dying
    /\ result' = [result EXCEPT ![running] = "sent"]
    /\ applied' = Append(applied, running)
    /\ running' = 0
    /\ UNCHANGED <<slot, chan, dying, retained, retry_at, pumping, jobs, kept,
                   worker, seen>>

Dropped(f, js) == [j \in Jobs |-> IF j \in js THEN "dropped" ELSE f[j]]

\* The job panics: its closure is unwound inside catch_unwind, with the result
\* sender and, in a retained job, the `done` sender of its ticket.
Unwind ==
    /\ running # 0
    /\ running \notin dying
    /\ Cardinality({j \in Jobs : result[j] = "dropped"}) < MaxPanics
    /\ dying' = dying \cup {running}
    /\ result' = Dropped(result, {running})
    /\ worker' = Dropped(worker, {running} \cap kept)
    /\ UNCHANGED <<slot, chan, running, retained, retry_at, pumping, jobs, kept,
                   applied, seen>>

\* drop(receiver): closes the channel and drops what is queued.
DropReceiver ==
    /\ running \in dying
    /\ slot' = "closed"
    /\ chan' = <<>>
    /\ running' = 0
    /\ result' = Dropped(result, ToSet(chan))
    /\ worker' = Dropped(worker, ToSet(chan))
    /\ UNCHANGED <<dying, retained, retry_at, pumping, jobs, kept, applied, seen>>

\* drop(reply), and the thread ends.
DropReply(j) ==
    /\ j \in dying
    /\ j # running
    /\ worker' = Dropped(worker, {j})
    /\ dying' = dying \ {j}
    /\ UNCHANGED <<slot, chan, running, retained, retry_at, pumping, jobs, kept,
                   result, applied, seen>>

-----------------------------------------------------------------------------
(* TypedTicket::try_recv, when it reports the failure.                     *)

Poll(j) ==
    /\ j \notin seen
    /\ result[j] = "dropped"
    /\ worker[j] = "dropped"
    /\ seen' = seen \cup {j}
    /\ UNCHANGED <<slot, chan, running, dying, retained, retry_at, pumping, jobs,
                   kept, result, worker, applied>>

Next ==
    \/ Submit \/ SubmitRetained \/ PumpRetained \/ PumpAccepted \/ PumpRefused
    \/ PumpEnds \/ Take \/ Finish \/ Unwind \/ DropReceiver
    \/ \E j \in Jobs : DropReply(j) \/ Poll(j)

Spec == Init /\ [][Next]_vars

\* The frame pumps, the worker runs and its jobs end; starting a thread is not
\* refused for ever.
Fairness ==
    /\ WF_vars(PumpRetained) /\ WF_vars(PumpEnds) /\ WF_vars(PumpRefused)
    /\ SF_vars(PumpAccepted)
    /\ WF_vars(Take) /\ WF_vars(Finish \/ Unwind) /\ WF_vars(DropReceiver)

FairSpec == Spec /\ Fairness

-----------------------------------------------------------------------------
(* Properties.                                                             *)

\* Writes reach the disk in the order they were made, as far as they reach it:
\* a refused user edit is not overtaken by a later one, nor a queued job by
\* another (pump_retained_locked, Writer::start).
AppliedInOrder ==
    \A a, b \in DOMAIN applied :
        a < b /\ (applied[a] \in kept <=> applied[b] \in kept) => applied[a] < applied[b]

\* A user edit is in exactly one place, the backlog, the channel, the worker
\* or the disk, until it is applied or a panic has dropped it: none is lost to
\* a refusal, none is done twice (submit_retained, pump_retained_locked).
EditsAreInOnePlace ==
    \A j \in kept :
        LET places == {<<"retained", i>> : i \in {i \in DOMAIN retained : retained[i] = j}}
                 \cup {<<"chan", i>> : i \in {i \in DOMAIN chan : chan[i] = j}}
                 \cup {<<"applied", i>> : i \in {i \in DOMAIN applied : applied[i] = j}}
                 \cup (IF running = j THEN {<<"running", 0>>} ELSE {})
        IN  /\ \A x, y \in places : x = y
            /\ places = {} => result[j] = "dropped"

\* A caller that saw the failure of a job it submitted can rely on it that the
\* worker it ran on takes no more jobs: a following submit is not queued behind
\* a dead worker (TypedTicket::try_recv, Writer::start).
FailureMeansStopped == \A j \in Jobs \ kept : j \in seen => running # j

\* The executor at every moment: no edit lost or doubled, and no failure seen
\* of a worker that still takes jobs (storage_worker.rs).
StorageWorkerSafe ==
    /\ TypeOK
    /\ EditsAreInOnePlace
    /\ FailureMeansStopped

\* Every user edit is applied in the end, or dropped by a panic, although the
\* channel fills, threads are refused and workers die.
EditsAreSettled ==
    \A j \in Jobs : j \in kept ~> result[j] # "open"

=============================================================================
