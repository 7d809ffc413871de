----------------------------- MODULE Foreground -----------------------------
(***************************************************************************)
(* Playback across an app switch: the foreground lifecycle reducer         *)
(* (app/lifecycle.rs) driven by the main loop (app/run.rs), the engine it  *)
(* suspends and restarts (player/engine.rs, player/pump.rs), and the load  *)
(* thread (player/threads.rs) which runs the blocking native Load beside   *)
(* it.                                                                     *)
(*                                                                         *)
(* The main thread handles one event at a time between frames; a frame's   *)
(* playback tick is pump (drain, then check), poll, and the landing of a   *)
(* resolved plan.  The load thread's steps interleave with all of these.   *)
(* A claim is taken and settled inside one main-thread call, so the        *)
(* Claimed states and the ids that guard them are not visible here.        *)
(*                                                                         *)
(* Left out: trailer previews, the Original trial, user route edits, the   *)
(* paused-seek preroll flags, the jail refusal.  The specification's names *)
(* begin with Fg: PlaybackProofs extends this module together with Seek.   *)
(***************************************************************************)
EXTENDS RouteStart, FiniteSets

CONSTANTS
    MaxPos,       \* playback positions are 0 .. MaxPos
    Rewind,       \* RESUME_REWIND_NS, in positions
    MaxAttempt,   \* bound: physical Loads
    MaxAction     \* bound: route transactions

ASSUME ForegroundAssumption ==
    /\ MaxPos \in Nat \ {0}
    /\ Rewind \in Nat
    /\ MaxAttempt \in Nat \ {0}
    /\ MaxAction \in Nat \ {0}

VARIABLES
    fg,       \* ForegroundState, without its transient claims
    player,   \* control, native, engine, parked Load, session
    loads,    \* the load threads that were not joined yet
    play,     \* the resolve mailbox: "none", "busy" or "slot"
    window,   \* WindowActivity: may the app present?
    page,     \* is the player page mounted?
    pc        \* where the main loop is in its frame

fgVars == << fg, player, loads, play, window, page, pc >>

NoEngine == [epoch |-> 0, serial |-> 0, attempt |-> 0, playing |-> FALSE]

FgIdle == [st |-> "Idle", pos |-> 0, clock |-> "Paused", attempt |-> 0]

Fg(st, pos, clock, attempt) == [st |-> st, pos |-> pos, clock |-> clock, attempt |-> attempt]

FgInit ==
    /\ fg = FgIdle
    /\ player = [control |-> InitControl, native |-> InitNative, engine |-> NoEngine,
                 parked |-> 0, url |-> "none", armed |-> -1, pos |-> 0, paused |-> FALSE]
    /\ loads = {}
    /\ play = "none"
    /\ window = TRUE
    /\ page = FALSE
    /\ pc = "events"

Live(p) == p.engine # NoEngine

LoadOf(ls, epoch) == CHOOSE l \in ls : l.epoch = epoch

Finished(l) == l.step = "done"

ResultOf(l) == [serial |-> l.serial, attempt |-> l.attempt, ok |-> l.ok]

-----------------------------------------------------------------------------
(* The engine: release, teardown, start. *)

\* Everything the next Load must not inherit; the armed seek and the position go too.
Reset(p) == [p EXCEPT !.native = reset_session(@), !.armed = -1, !.pos = 0]

\* A real stop also ends the playback: the URL and the viewer's pause go.
Stopped(p) ==
    [Reset(p) EXCEPT !.control = finish_engine_teardown(@), !.url = "none", !.paused = FALSE]

Ended(p, for_reload) == IF for_reload THEN Reset(p) ELSE Stopped(p)

\* Joining a load thread waits for the rest of its steps: what it had not published yet is.
Joined(p, l, ok) ==
    LET r == [ResultOf(l) EXCEPT !.ok = ok]
    IN  IF l.step \in {"published", "done"}
        THEN p
        ELSE [p EXCEPT !.control = publish_route_start_result(@, r)]

\* (mutant) a Load past its budget is dropped with its engine instead of being parked
TeardownForgetsTheLoad(p, ls, for_reload) ==
    LET gone == [p EXCEPT !.control = begin_engine_teardown(@, for_reload), !.engine = NoEngine]
    IN  { [p |-> IF for_reload /\ ~Live(p)
                 THEN p
                 ELSE Ended([gone EXCEPT !.native = retire_native_session(@, p.engine.epoch)], for_reload),
           loads |-> ls \ { l \in ls : Finished(l) }] }

\* A Load past its budget and still running is parked, not joined; every other one is joined
\* (a running one returns with either verdict) and its native object released.
teardown(p, ls, for_reload) ==
    LET e == p.engine
        l == LoadOf(ls, e.epoch)
        gone == [p EXCEPT !.control = begin_engine_teardown(@, for_reload), !.engine = NoEngine]
    IN  CASE ~Live(p) ->
               { [p |-> IF for_reload THEN p
                        ELSE Stopped([p EXCEPT !.control = begin_engine_teardown(@, FALSE)]),
                  loads |-> ls] }
          [] Live(p) /\ ~Finished(l) /\ p.native.load_timed_out ->
               { [p |-> Ended([gone EXCEPT !.native = abandon_native_session(@, e.epoch),
                                           !.parked = e.epoch], for_reload),
                  loads |-> ls] }
          [] OTHER ->
               { [p |-> Ended([Joined(gone, l, ok) EXCEPT
                                 !.native = retire_native_session(@, e.epoch)], for_reload),
                  loads |-> ls \ {l}] :
                 ok \in IF l.step = "loading" THEN BOOLEAN ELSE {l.ok} }

\* A parked Load that returned is joined and its object released.
reap_abandoned_load(p, ls) ==
    IF p.parked # 0 /\ Finished(LoadOf(ls, p.parked))
    THEN [p |-> [p EXCEPT !.native = retire_native_session(@, p.parked), !.parked = 0],
          loads |-> ls \ {LoadOf(ls, p.parked)}]
    ELSE [p |-> p, loads |-> ls]

Outcome(p, ls, out) == [p |-> p, loads |-> ls, out |-> out]

\* start_bufferfeed_inner for the transaction the control owns: launch a Load, or fail.  A
\* start refused at a thread spawn has minted its attempt, and its demuxer may have consumed
\* the armed seek.
StartOwned(p0, ls0) ==
    LET q == reap_abandoned_load(p0, ls0)
        p == q.p
        c == prepare_route_start(p.control)
        d == claim_route_start_attempt(c)
        n == begin_native_session(p.native)
        e == [epoch |-> n.epoch, serial |-> d.phase.serial, attempt |-> d.phase.attempt,
              playing |-> FALSE]
        refused(result, ctl, armed) ==
            Outcome([p EXCEPT !.control = abort_route_start(ctl, result), !.armed = armed],
                    q.loads, "Failed")
    IN  CASE p.parked # 0 -> { refused("StartFailed", p.control, p.armed) }
          [] p.parked = 0 /\ p.url = "none" -> { refused("NoRoute", p.control, p.armed) }
          [] p.parked = 0 /\ p.url # "none" /\ p.native.st # "Idle" -> { refused("StartFailed", c, p.armed) }
          [] OTHER ->
               { Outcome([p EXCEPT !.control = d, !.native = n, !.engine = e, !.armed = -1],
                         q.loads \cup { [epoch |-> e.epoch, serial |-> e.serial,
                                         attempt |-> e.attempt, step |-> "loading", ok |-> FALSE] },
                         "Launched") }
               \cup { refused("StartFailed", d, armed) : armed \in {p.armed, -1} }

\* A live engine answers for itself: its own Load in flight is followed, a pending other
\* transaction cannot borrow it, otherwise the start is a no-op.
start_bufferfeed_tracked(p, ls) ==
    LET c == begin_route_start(p.control)
        mine == p.control.phase = Phase("Starting", p.engine.serial, p.engine.attempt)
    IN  CASE Live(p) /\ mine -> { Outcome(p, ls, "Launched") }
          [] Live(p) /\ ~mine /\ Ticket(p.control) # 0 ->
               { Outcome([p EXCEPT !.control = abort_route_start(@, "StartFailed")], ls, "Failed") }
          [] Live(p) /\ Ticket(p.control) = 0 -> { Outcome(p, ls, "AlreadyRunning") }
          [] ~Live(p) /\ Ticket(c) = 0 -> { Outcome(p, ls, "Failed") }
          [] OTHER -> StartOwned([p EXCEPT !.control = c], ls)

\* The point the next Load opens at: direct play arms a seek of the demuxer, a transcode has
\* it in its URL.
Positioned(p, pos) == [p EXCEPT !.armed = IF p.url = "direct" THEN pos ELSE @, !.pos = pos]

\* Prepare the next Load to open at pos.  A transcode may refuse to be rebuilt there.
resume_at(p, pos) ==
    CASE pos <= 0 -> { [p |-> p, prepared |-> TRUE] }
      [] pos > 0 /\ p.url = "none" -> { [p |-> p, prepared |-> FALSE] }
      [] OTHER -> { [p |-> Positioned(p, pos), prepared |-> TRUE] }
                  \cup IF p.url = "transcode" THEN { [p |-> p, prepared |-> FALSE] } ELSE {}

\* A seek that needs a fresh Load: same session, new engine at the target.
reload_transaction(p, ls, pos) ==
    LET c == prepare_route_start(begin_route_start(p.control))
    IN  IF Ticket(c) = 0
        THEN { Outcome(p, ls, "Failed") }
        ELSE UNION { StartOwned(Positioned(t.p, pos), t.loads) :
                     t \in teardown([p EXCEPT !.control = c], ls, TRUE) }

-----------------------------------------------------------------------------
(* The lifecycle reducer with the effects it drives. *)

\* Parked and waiting for a new Load to be launched; a launched one is not.
awaiting_load(f) == f.st \in {"Suspended", "Prepared"}

\* (mutant) the suspended clock is read off the transport alone
ClockOffTransport(f, paused) == IF paused THEN "Paused" ELSE "Playing"

\* The transport may still be physically paused while a newer Play is being carried out.
clock_for_suspend(f, paused) ==
    CASE f.st = "ClockPending" -> "Playing"
      [] f.st = "LoadPending" -> f.clock
      [] OTHER -> IF paused THEN "Paused" ELSE "Playing"

Effect(p, ls, f, act) == [p |-> p, loads |-> ls, fg |-> f, act |-> act]

\* Resume the transport: at once when it is not paused, otherwise the player may refuse.
PlayClock(p, ls) ==
    { Effect([p EXCEPT !.paused = FALSE], ls, FgIdle, "Handled") }
    \cup IF p.paused THEN { Effect(p, ls, Fg("ClockPending", 0, "Playing", 0), "Handled") } ELSE {}

\* Launch the Load of a prepared route.  A refusal keeps it prepared; an engine outside this
\* lifecycle releases it.
LoadEffect(p, ls, pos, clock) ==
    { CASE o.out = "Launched" ->
             Effect(o.p, o.loads, Fg("LoadPending", pos, clock, o.p.engine.attempt), "Launched")
        [] o.out = "Failed" -> Effect(o.p, o.loads, Fg("Prepared", pos, clock, 0), "Handled")
        [] OTHER -> Effect(o.p, o.loads, FgIdle, "Handled") :
      o \in start_bufferfeed_tracked(p, ls) }

Intent(f, input) == IF input = "PlayKey" THEN "Playing" ELSE f.clock

ResumePoint(f) ==
    CASE f.clock = "Paused" -> f.pos
      [] f.clock # "Paused" /\ f.pos > Rewind -> f.pos - Rewind
      [] OTHER -> 0

drive_foreground(p, ls, f, input) ==
    CASE f.st = "Idle" -> { Effect(p, ls, f, "Ordinary") }
      [] f.st = "Suspended" ->
           UNION { IF r.prepared
                   THEN LoadEffect(r.p, ls, ResumePoint(f), Intent(f, input))
                   ELSE { Effect(r.p, ls, f, "Handled") } :
                   r \in resume_at(p, ResumePoint(f)) }
      [] f.st = "Prepared" -> LoadEffect(p, ls, f.pos, Intent(f, input))
      [] f.st = "ClockPending" /\ input = "PlayKey" -> PlayClock(p, ls)
      [] OTHER -> { Effect(p, ls, f, "Handled") }

\* Retire a failed engine only while it is still the observed attempt's.
suspend_bufferfeed_if_attempt(p, ls, a) ==
    IF p.engine.attempt = a THEN teardown(p, ls, TRUE) ELSE { [p |-> p, loads |-> ls] }

\* What the poll makes of the exact attempt it waits for, with the effects that follow.
settle_load(p, ls, f, status) ==
    CASE status.st = "Pending" -> { Effect(p, ls, f, "Pending") }
      [] status.st = "Superseded" -> { Effect(p, ls, [f EXCEPT !.attempt = status.attempt], "Pending") }
      [] status.st = "Failed" -> { Effect(t.p, t.loads, Fg("Prepared", f.pos, f.clock, 0), "Failed") :
                                   t \in suspend_bufferfeed_if_attempt(p, ls, f.attempt) }
      [] status.st = "Stale" -> { Effect(p, ls, FgIdle, "Failed") }
      [] OTHER -> IF f.clock = "Paused" THEN { Effect(p, ls, FgIdle, "Started") } ELSE PlayClock(p, ls)

-----------------------------------------------------------------------------
(* Events, between frames. *)

\* Bounds: no handler that can start a Load runs once these are used up.
CanStart ==
    /\ player.control.next_attempt < MaxAttempt
    /\ player.control.next_action < MaxAction

cancel_play(p) == [p EXCEPT !.control = cancel_playback_request(@)]

\* The OS takes the screen: park the session unless it is parked already.
Background ==
    /\ pc = "events"
    /\ window' = FALSE
    /\ IF (play # "none" \/ Live(player) \/ player.url # "none") /\ ~awaiting_load(fg)
       THEN /\ fg' = Fg("Suspended", player.pos, clock_for_suspend(fg, player.paused), 0)
            /\ \E t \in teardown(player, loads, TRUE) : player' = cancel_play(t.p) /\ loads' = t.loads
            /\ play' = "none"
       ELSE UNCHANGED << fg, player, loads, play >>
    /\ UNCHANGED << page, pc >>

DidForeground ==
    /\ pc = "events" /\ CanStart
    /\ window' = TRUE
    /\ \E o \in drive_foreground(player, loads, fg, "DidForeground") :
          /\ fg' = o.fg /\ player' = o.p /\ loads' = o.loads
          /\ page' = (page \/ o.act = "Launched")
    /\ UNCHANGED << play, pc >>

\* PLAY: retries the parked session if there is one; else it starts the engine off the player
\* page and resumes the transport on it.
key_play ==
    /\ pc = "events" /\ CanStart
    /\ LET f == IF ~page /\ fg.st = "ClockPending" THEN FgIdle ELSE fg
       IN  \E o \in drive_foreground(player, loads, f, "PlayKey") :
             /\ fg' = o.fg
             /\ \/ /\ o.act # "Ordinary"
                   /\ player' = o.p /\ loads' = o.loads
                   /\ page' = (page \/ o.act = "Launched")
                \/ /\ o.act = "Ordinary" /\ ~page
                   /\ \E s \in start_bufferfeed_tracked(o.p, o.loads) :
                         /\ player' \in {s.p} \cup IF s.out = "Failed" THEN {}
                                                  ELSE { [s.p EXCEPT !.paused = FALSE] }
                         /\ loads' = s.loads
                         /\ page' = (s.out # "Failed")
                \/ /\ o.act = "Ordinary" /\ page
                   /\ player' \in {o.p, [o.p EXCEPT !.paused = FALSE]}
                   /\ UNCHANGED << loads, page >>
    /\ UNCHANGED << play, window, pc >>

\* PAUSE is accepted while a Load holds the clock, too.
key_pause ==
    /\ pc = "events" /\ page /\ Live(player) /\ ~player.paused
    /\ player' = [player EXCEPT !.paused = TRUE]
    /\ UNCHANGED << fg, loads, play, window, page, pc >>

\* An item is started from a browse page.
RequestPlay ==
    /\ pc = "events" /\ CanStart /\ ~page /\ CanRequest(player.control)
    /\ player' = [player EXCEPT !.control = begin_playback_request(@), !.paused = FALSE]
    /\ play' = "busy"
    /\ page' = TRUE
    /\ UNCHANGED << fg, loads, window, pc >>

\* Retry of a failed playback, or the next episode: a real stop, then a new request.
StopAndRequest ==
    /\ pc = "events" /\ CanStart /\ page /\ play = "none"
    /\ \E t \in teardown(player, loads, FALSE) :
          /\ player' = [t.p EXCEPT !.control = begin_playback_request(@)]
          /\ loads' = t.loads
    /\ play' = "busy"
    /\ UNCHANGED << fg, window, page, pc >>

exit_player ==
    /\ pc = "events" /\ page
    /\ \E t \in teardown(cancel_play(player), loads, FALSE) : player' = t.p /\ loads' = t.loads
    /\ play' = "none"
    /\ page' = FALSE
    /\ UNCHANGED << fg, window, pc >>

\* The frame's release of a parked Load whose thread has returned.
Reap ==
    /\ pc = "events" /\ player.parked # 0 /\ Finished(LoadOf(loads, player.parked))
    /\ player' = reap_abandoned_load(player, loads).p
    /\ loads' = reap_abandoned_load(player, loads).loads
    /\ UNCHANGED << fg, play, window, page, pc >>

-----------------------------------------------------------------------------
(* The frame's playback tick. *)

playback_may_run == window /\ ~awaiting_load(fg)

\* pump, first half: settle what the load thread published.
PumpDrain ==
    /\ pc = "events"
    /\ pc' = IF playback_may_run /\ Live(player) THEN "check" ELSE "poll"
    /\ player' = IF playback_may_run /\ Live(player)
                 THEN [player EXCEPT !.control = drain_route_start_results(@)]
                 ELSE player
    /\ UNCHANGED << fg, loads, play, window, page >>

\* pump, second half: a failed Load ends the route; a Load in progress completes, waits or
\* runs out of budget; a playing engine advances or is replaced by a seek; the demuxer may die
\* under any of them.
PumpCheck ==
    /\ pc = "check"
    /\ pc' = "poll"
    /\ \/ /\ player.native.load_failed
          /\ player' = [player EXCEPT !.control = fail_current_engine(@)]
          /\ UNCHANGED loads
       \/ /\ ~player.native.load_failed /\ ~player.engine.playing
          /\ player' = [player EXCEPT !.native = native_load_gate(@, player.engine.epoch)]
          /\ UNCHANGED loads
       \/ /\ ~player.native.load_failed /\ ~player.engine.playing
          /\ native_load_returned(player.native, player.engine.epoch)
          /\ LoadOf(loads, player.engine.epoch).ok
          /\ player' = [player EXCEPT !.engine.playing = TRUE]
          /\ UNCHANGED loads
       \/ /\ ~player.native.load_failed /\ player.engine.playing
          /\ player' \in {player, [player EXCEPT !.pos = MaxPos]}
          /\ UNCHANGED loads
       \/ /\ ~player.native.load_failed
          /\ player' = [player EXCEPT !.control = fail_current_engine(@)]
          /\ UNCHANGED loads
       \/ /\ ~player.native.load_failed /\ player.engine.playing /\ CanStart
          /\ \E o \in reload_transaction(player, loads, 1) : player' = o.p /\ loads' = o.loads
    /\ UNCHANGED << fg, play, window, page >>

poll_foreground_load ==
    /\ pc = "poll"
    /\ pc' = "land"
    /\ IF playback_may_run /\ fg.st = "LoadPending"
       THEN \E o \in settle_load(player, loads, fg, route_start_status(player.control, fg.attempt)) :
              fg' = o.fg /\ player' = o.p /\ loads' = o.loads
       ELSE UNCHANGED << fg, player, loads >>
    /\ UNCHANGED << play, window, page >>

\* A resolved plan lands: a new playback first retires the parked one, then the plan is
\* installed, its resume point armed and the engine started.
pump_play ==
    /\ pc = "land"
    /\ pc' = "events"
    /\ LET f == IF window /\ play # "none" /\ awaiting_load(fg) THEN FgIdle ELSE fg
       IN  /\ fg' = f
           /\ IF play = "slot" /\ window /\ ~awaiting_load(f)
              THEN /\ play' = "none"
                   /\ \/ /\ player' = [player EXCEPT !.control = prepare_playback_landing(@, FALSE),
                                                     !.url = "none"]
                         /\ UNCHANGED << loads, page >>
                      \/ \E resume \in {0, MaxPos}, url \in {"direct", "transcode"} :
                         \E r \in resume_at([player EXCEPT
                                              !.control = prepare_playback_landing(@, TRUE),
                                              !.url = url], resume) :
                           IF ~r.prepared
                           THEN /\ player' = [r.p EXCEPT !.control = reject_route_start_preparation(@)]
                                /\ UNCHANGED << loads, page >>
                           ELSE \E o \in start_bufferfeed_tracked(r.p, loads) :
                                  /\ player' = o.p /\ loads' = o.loads
                                  /\ page' = (page \/ o.out # "Failed")
              ELSE UNCHANGED << player, loads, play, page >>
    /\ UNCHANGED window

-----------------------------------------------------------------------------
(* The resolve worker, the load thread, the firmware and time. *)

ResolveLands ==
    /\ play = "busy" /\ play' = "slot"
    /\ UNCHANGED << fg, player, loads, window, page, pc >>

Stepped(l, step) == (loads \ {l}) \cup { [l EXCEPT !.step = step] }

\* sf_load comes back, or never does.
LoadReturns(l) ==
    /\ l.step = "loading"
    /\ \E ok \in BOOLEAN : loads' = (loads \ {l}) \cup { [l EXCEPT !.step = "returned", !.ok = ok] }
    /\ UNCHANGED << fg, player, play, window, page, pc >>

\* load_thread after sf_load: open the epoch's gate, publish the route's result, then the
\* refusal.
load_thread(l) ==
    /\ \/ /\ l.step = "returned"
          /\ loads' = Stepped(l, "marked")
          /\ player' = [player EXCEPT !.native = mark_native_load_returned(@, l.epoch)]
       \/ /\ l.step = "marked"
          /\ loads' = Stepped(l, IF l.ok THEN "done" ELSE "published")
          /\ player' = [player EXCEPT !.control = publish_route_start_result(@, ResultOf(l))]
       \/ /\ l.step = "published"
          /\ loads' = Stepped(l, "done")
          /\ player' = [player EXCEPT !.native = publish_native_load_failure(@, l.epoch)]
    /\ UNCHANGED << fg, play, window, page, pc >>

\* The firmware unloads an object by itself: the engine's or a parked one.
FirmwareUnloads ==
    /\ player.native.st \in {"Active", "Abandoned"}
    /\ player' = [player EXCEPT !.native = unload_completed(@, @.epoch)]
    /\ UNCHANGED << fg, loads, play, window, page, pc >>

BudgetElapses ==
    /\ Live(player) /\ ~player.engine.playing /\ ~player.native.overdue
    /\ player' = [player EXCEPT !.native.overdue = TRUE]
    /\ UNCHANGED << fg, loads, play, window, page, pc >>

Tick == PumpDrain \/ PumpCheck \/ poll_foreground_load \/ pump_play

LoadStep == \E l \in loads : load_thread(l)

FgNext ==
    \/ Background \/ DidForeground \/ key_play \/ key_pause
    \/ RequestPlay \/ StopAndRequest \/ exit_player \/ Reap
    \/ PumpDrain \/ PumpCheck \/ poll_foreground_load \/ pump_play
    \/ ResolveLands \/ FirmwareUnloads \/ BudgetElapses
    \/ LoadStep
    \/ \E l \in loads : LoadReturns(l)

FgSpec == FgInit /\ [][FgNext]_fgVars

\* The frame loop turns, threads that left sf_load finish, time passes.  sf_load itself owes
\* nothing.
FgFairSpec ==
    FgSpec /\ WF_fgVars(Tick) /\ WF_fgVars(LoadStep) /\ WF_fgVars(BudgetElapses)

-----------------------------------------------------------------------------
(* Properties *)

FgStates == {"Idle", "Suspended", "Prepared", "LoadPending", "ClockPending"}

\* The shape of the state: positions stay in range, a running Load has its thread, and each
\* thread is at one of its steps.
FgTypeOK ==
    /\ fg.st \in FgStates /\ fg.pos \in 0 .. MaxPos /\ fg.clock \in {"Paused", "Playing"}
    /\ player.url \in {"none", "direct", "transcode"}
    /\ player.pos \in 0 .. MaxPos /\ player.armed \in -1 .. MaxPos
    /\ player.control.phase.st \in {"Idle", "Resolving", "Stable", "Failed"} \cup Transacting
    /\ player.native.st \in {"Idle", "Active", "Unloaded", "Abandoned"}
    /\ \A l \in loads : l.step \in {"loading", "returned", "marked", "published", "done"}
    /\ play \in {"none", "busy", "slot"}
    /\ window \in BOOLEAN /\ page \in BOOLEAN
    /\ pc \in {"events", "check", "poll", "land"}

\* The C seam holds one native object: no two Loads are ever out at once, and every thread that
\* was not joined is the engine's or the parked one's (start_bufferfeed_inner, teardown).
OneNativeObject ==
    /\ Cardinality(loads) <= 1
    /\ \A l \in loads : l.epoch \in {player.engine.epoch, player.parked} \ {0}
    /\ ~(Live(player) /\ player.parked # 0)

\* load_failed is about the Load of the engine that is live: a refusal or a timeout of an
\* earlier Load never fails the next one (publish_native_load_failure, reset_session).
FailureIsItsOwn ==
    player.native.load_failed =>
        /\ Live(player)
        /\ \/ player.native.load_timed_out
           \/ LET l == LoadOf(loads, player.engine.epoch) IN Finished(l) /\ ~l.ok

\* A route that says a Load is in flight has the engine that runs it, so the phase that
\* refuses every new playback always ends (settle_route_start, begin_engine_teardown).
StartingIsOwned ==
    player.control.phase.st = "Starting" =>
        /\ player.engine.serial = player.control.phase.serial
        /\ player.engine.attempt = player.control.phase.attempt

\* Stable over a live engine means the television accepted that engine's own Load, and the
\* foreground starts the clock for no other (route_start_status, "Stable must never lead that
\* slot").
StableIsAccepted ==
    (player.control.phase.st = "Stable" /\ Live(player)) =>
        LET l == LoadOf(loads, player.engine.epoch) IN Finished(l) /\ l.ok

\* A parked session owns no engine: its retry meets neither AlreadyRunning nor the conflict
\* with another Load (after_load, suspend_bufferfeed_if_attempt).
ParkedOwnsNoEngine == awaiting_load(fg) => ~Live(player)

\* From a browse page a new playback is never refused because an old start still owns the
\* route (begin_playback_request, exit_player).
BrowsingCanPlay == ~page => CanRequest(player.control)

\* The session, its engine and its route agree at every moment: a start has its engine, a
\* Stable its accepted Load, a parked session no engine, a browse page a free route.
ForegroundSafe ==
    /\ FgTypeOK
    /\ StartingIsOwned
    /\ StableIsAccepted
    /\ ParkedOwnsNoEngine
    /\ BrowsingCanPlay

Intends(f) == f.st = "ClockPending" \/ (f.st # "Idle" /\ f.clock = "Playing")

\* Once the viewer's Play is the parked session's intent, no failure, retry or further app
\* switch turns it back into a pause while the lifecycle owns the session (clock_for_suspend).
PlayIntentSurvives ==
    [][(Intends(fg) /\ fg'.st # "Idle") => Intends(fg')]_fgVars

\* A launched resume is always settled while the app is on screen, even if the television never
\* returns from Load (NATIVE_LOAD_BUDGET, poll_foreground_load).
LoadSettles == []<>~(fg.st = "LoadPending" /\ window)

\* "failure retains the already prepared route so a Play retry never repeats the server
\* preparation or resume_at" (poll_foreground_load): when the poll sees the Load refused and
\* keeps the session Prepared, the next Load still opens at the resume point.
FailureRetainsTheResume ==
    [][(/\ pc = "poll" /\ fg.st = "LoadPending" /\ fg'.st = "Prepared"
        /\ fg.pos > 0 /\ player.url = "direct")
       => player'.armed = fg.pos]_fgVars
=============================================================================
