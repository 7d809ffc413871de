----------------------------- MODULE RouteStart -----------------------------
(***************************************************************************)
(* The two reducers a native start goes through, as operators on records.  *)
(*                                                                         *)
(* PLAYER_CONTROL (route/decision.rs) owns the route: a semantic           *)
(* transaction (serial) is prepared, and one exact physical Load (attempt) *)
(* settles it.  NativeSessionState (player/shared.rs) owns the one native  *)
(* object: an epoch begins with a Load, and ends when the object is        *)
(* retired; a Load given up on while it runs is Abandoned.                 *)
(*                                                                         *)
(* Left out of the control phase: user and automatic route edits           *)
(* (StagingUser, Applying, Completing) and the Original trial.             *)
(***************************************************************************)
EXTENDS Integers, Sequences, FiniteSetsExt

Phase(st, serial, attempt) == [st |-> st, serial |-> serial, attempt |-> attempt]

Bare(st) == Phase(st, 0, 0)

NoResult == [serial |-> 0, attempt |-> 0, ok |-> FALSE]

InitControl ==
    [phase |-> Bare("Stable"), fallback |-> Bare("Idle"), next_action |-> 0,
     next_attempt |-> 0, results |-> << >>, last |-> NoResult]

\* The phases that own a route-start transaction.
Transacting == {"Preparing", "Prepared", "Starting"}

\* The transaction a start may use, 0 when the phase has none to give.
Ticket(c) == IF c.phase.st \in Transacting THEN c.phase.serial ELSE 0

\* A transaction already owned is kept; a route at rest gets a new one, recoverable
\* (Preparing) only while a Stable engine stands behind it.
begin_route_start(c) ==
    IF c.phase.st \in {"Stable", "Failed", "Idle"}
    THEN [c EXCEPT !.next_action = @ + 1,
                   !.phase = Phase(IF c.phase.st = "Stable" THEN "Preparing" ELSE "Prepared",
                                   c.next_action + 1, 0)]
    ELSE c

prepare_route_start(c) ==
    IF c.phase.st = "Preparing" THEN [c EXCEPT !.phase.st = "Prepared"] ELSE c

claim_route_start_attempt(c) ==
    [c EXCEPT !.next_attempt = @ + 1,
              !.phase = Phase("Starting", c.phase.serial, c.next_attempt + 1)]

\* A transaction that reached no native thread.  Only Preparing without a route to open
\* still has its old engine to fall back to.
abort_route_start(c, result) ==
    CASE c.phase.st \notin Transacting -> c
      [] c.phase.st = "Preparing" /\ result = "NoRoute" -> [c EXCEPT !.phase = Bare("Stable")]
      [] OTHER -> [c EXCEPT !.phase = Phase("Failed", c.phase.serial, 0)]

\* Preparation refused before any teardown: the old engine, if any, is still good.
reject_route_start_preparation(c) ==
    CASE c.phase.st = "Preparing" -> [c EXCEPT !.phase = Bare("Stable")]
      [] c.phase.st = "Prepared" -> [c EXCEPT !.phase = Phase("Failed", c.phase.serial, 0)]
      [] OTHER -> c

\* (mutant) a result is matched by its transaction, not by its physical attempt
SettleByTransaction(c, r) ==
    IF c.phase.st = "Starting" /\ c.phase.serial = r.serial
    THEN [c EXCEPT !.last = r,
                   !.phase = IF r.ok THEN Bare("Stable") ELSE Phase("Failed", r.serial, 0)]
    ELSE c

\* Only the exact attempt in flight settles the route.
settle_route_start(c, r) ==
    IF c.phase = Phase("Starting", r.serial, r.attempt)
    THEN [c EXCEPT !.last = r,
                   !.phase = IF r.ok THEN Bare("Stable") ELSE Phase("Failed", r.serial, 0)]
    ELSE c

publish_route_start_result(c, r) == [c EXCEPT !.results = Append(@, r)]

\* The results are settled in the order of their publication.  The first that is of the attempt
\* in flight ends the phase Starting, so the others change nothing.
drain_route_start_results(c) ==
    LET d == [c EXCEPT !.results = << >>]
        hits == { i \in DOMAIN c.results : settle_route_start(d, c.results[i]) # d }
    IN  IF hits = {} THEN d ELSE settle_route_start(d, c.results[Min(hits)])

\* The foreground's view of attempt a: Superseded carries the attempt to follow.
route_start_status(c, a) ==
    LET Follow(b, verdict) == CASE b = a -> [st |-> verdict, attempt |-> a]
                                [] b > a -> [st |-> "Superseded", attempt |-> b]
                                [] OTHER -> [st |-> "Stale", attempt |-> a]
    IN  CASE c.phase.st = "Starting" -> Follow(c.phase.attempt, "Pending")
          [] c.phase.st = "Stable" /\ c.last.ok -> Follow(c.last.attempt, "Started")
          [] /\ c.phase.st = "Failed"
             /\ ~c.last.ok
             /\ c.last.serial = c.phase.serial -> Follow(c.last.attempt, "Failed")
          [] OTHER -> [st |-> "Stale", attempt |-> a]

fail_current_engine(c) ==
    CASE c.phase.st \in Transacting -> [c EXCEPT !.phase = Phase("Failed", c.phase.serial, 0)]
      [] c.phase.st = "Stable" -> [c EXCEPT !.next_action = @ + 1,
                                            !.phase = Phase("Failed", c.next_action + 1, 0)]
      [] OTHER -> c

\* A reload hands the destroyed attempt's transaction back, so its retry mints a new attempt.
begin_engine_teardown(c, for_reload) ==
    CASE ~for_reload -> [c EXCEPT !.phase = Bare("Stopping")]
      [] for_reload /\ c.phase.st = "Starting" ->
           [c EXCEPT !.phase = Phase("Prepared", c.phase.serial, 0)]
      [] OTHER -> c

finish_engine_teardown(c) ==
    IF c.phase.st = "Stopping" THEN [c EXCEPT !.phase = Bare("Idle")] ELSE c

\* A new request hides the phase it may have to give back; a transaction is never hidden.
CanRequest(c) == c.phase.st \notin Transacting

begin_playback_request(c) ==
    [c EXCEPT !.fallback = IF c.phase.st = "Resolving" THEN @ ELSE c.phase,
              !.phase = Bare("Resolving")]

\* A settled request hides nothing any more.
Forgotten(c) == [c EXCEPT !.fallback = Bare("Idle")]

prepare_playback_landing(c, playable) ==
    LET f == Forgotten(c)
    IN  CASE ~playable -> [f EXCEPT !.phase = Bare("Idle")]
          [] playable /\ c.phase.st \in Transacting -> prepare_route_start(f)
          [] OTHER -> [f EXCEPT !.next_action = @ + 1,
                                !.phase = Phase("Prepared", c.next_action + 1, 0)]

cancel_playback_request(c) ==
    IF c.phase.st = "Resolving" THEN [Forgotten(c) EXCEPT !.phase = c.fallback] ELSE c

-----------------------------------------------------------------------------
InitNative ==
    [st |-> "Idle", epoch |-> 0, returned |-> FALSE, next_epoch |-> 0,
     overdue |-> FALSE, load_failed |-> FALSE, load_timed_out |-> FALSE]

Active(n, epoch) == n.st = "Active" /\ n.epoch = epoch

begin_native_session(n) ==
    [n EXCEPT !.st = "Active", !.epoch = n.next_epoch + 1, !.returned = FALSE,
              !.overdue = FALSE, !.next_epoch = @ + 1]

mark_native_load_returned(n, epoch) ==
    IF Active(n, epoch) THEN [n EXCEPT !.returned = TRUE, !.overdue = FALSE] ELSE n

native_load_returned(n, epoch) == Active(n, epoch) /\ n.returned

\* (mutant) the refusal is published whoever owns the session by now
PublishFailureOfAnyone(n, epoch) == [n EXCEPT !.load_failed = TRUE]

publish_native_load_failure(n, epoch) ==
    IF Active(n, epoch) THEN [n EXCEPT !.load_failed = TRUE] ELSE n

\* UNLOADCOMPLETED from the firmware, admitted for the owner only.
unload_completed(n, epoch) ==
    IF n.epoch = epoch /\ n.st \in {"Active", "Abandoned"} THEN [n EXCEPT !.st = "Unloaded"] ELSE n

\* (mutant) the wait for the native Load has no budget
GateWaitsForever(n, epoch) ==
    IF ~Active(n, epoch) THEN [n EXCEPT !.load_failed = TRUE, !.load_timed_out = TRUE] ELSE n

\* NATIVE_LOAD_BUDGET bounds the wait for the Load's return, and a second window the wait for
\* loadCompleted after it; losing Active while waiting counts as a fired budget.
native_load_gate(n, epoch) ==
    IF n.overdue \/ ~Active(n, epoch)
    THEN [n EXCEPT !.load_failed = TRUE, !.load_timed_out = TRUE]
    ELSE n

retire_native_session(n, epoch) ==
    IF n.epoch = epoch /\ n.st # "Idle" THEN [n EXCEPT !.st = "Idle"] ELSE n

abandon_native_session(n, epoch) ==
    IF Active(n, epoch) THEN [n EXCEPT !.st = "Abandoned"] ELSE n

\* The per-session reset.  An abandoned object outlives the engine and keeps its phase.
reset_session(n) ==
    [n EXCEPT !.st = IF @ = "Abandoned" THEN @ ELSE "Idle",
              !.load_failed = FALSE, !.load_timed_out = FALSE]
=============================================================================
