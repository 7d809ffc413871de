------------------------------- MODULE Seek ---------------------------------
(***************************************************************************)
(* An in-place seek of a direct-play stream: player/pump.rs (the request,  *)
(* the flush, the stuck watchdog), player/engine.rs (the rebase on the     *)
(* landed keyframe, the stale guards, the prime) and the seek of the demux *)
(* thread (ff.rs).  Module AuQueue has the lanes' locks, parks and limits. *)
(*                                                                         *)
(* The main thread flushes the pipeline, drains one lane and then the      *)
(* other, and only then publishes the target; the demuxer, wherever it is, *)
(* sees it before its next read.  Access units of the old position arrive  *)
(* in between and are told from the new ones by their timestamps alone.    *)
(*                                                                         *)
(* Abstractions.  One tick is one video AU.  A feed the pipeline has no    *)
(* room for and the throttle are one refusal.  A Pause or a Play that is   *)
(* to be tried again is no step.  Left out: HLS and transcode seeks, the   *)
(* presentation gate, the EOS of an ended lane.                            *)
(***************************************************************************)
EXTENDS Integers, Sequences

CONSTANTS
    File,               \* the packets, in file order: [lane, pts, key]
    Targets,            \* where a viewer may seek
    LaneCap,            \* AUs a lane holds before the demuxer parks
    SEEK_STALE_AHEAD, SEEK_STALE_BEHIND, MAX_REBASE_DROPS,
    STALE_BACKJUMP, AUDIO_STALE_AHEAD,
    PRIME, PRIME_AUDIO, PRIME_VIDEO_MAX,
    MAX_RETRIES,        \* reopen attempts before a reload: 2 in pump
    MaxSeeks            \* bound: seeks the viewer asks for

Lanes == {"v", "a"}

None == -1

NoAu == [lane |-> "v", pts |-> None, key |-> FALSE]

ASSUME SeekAssumption ==
    /\ File \in Seq([lane : Lanes, pts : Nat, key : BOOLEAN])
    /\ Len(File) > 0 /\ File[1].key /\ File[1].pts = 0
    /\ \A n \in DOMAIN File : File[n].key => File[n].lane = "v"
    /\ Targets \subseteq Nat
    /\ {LaneCap, SEEK_STALE_AHEAD, SEEK_STALE_BEHIND, MAX_REBASE_DROPS, STALE_BACKJUMP,
        AUDIO_STALE_AHEAD, PRIME, PRIME_AUDIO, PRIME_VIDEO_MAX, MAX_RETRIES, MaxSeeks}
         \subseteq Nat
    /\ PRIME_VIDEO_MAX > 0

VARIABLES
    request,      \* TX.seek_to_ns: what the viewer asked for and no seek has taken up
    applying,     \* how far the main thread is in applying a seek, and its target
    seek_to,      \* SHARED.seek_to_ns: for the demuxer, which takes it
    seek_target,  \* SHARED.seek_target_ns: for the rebase guard
    seeking,      \* SHARED.seeking: the spinner
    demux,        \* the demux thread: where it is, its position, the AU in its hand
    q,            \* [lane -> the AUs queued]
    pending,      \* [lane -> Engine::pending_video, pending_audio]
    stage,        \* Engine::stage, or Error
    flushed, rebase_pending, rebase_drops, seek_retries,  \* of Engine
    stuck,        \* SEEK_STUCK_MS have passed since the seek was armed
    prime_play, seek_base, max_fed, pts_shift,
    INPLACE_SEEK_OK,
    want,         \* history: the newest target asked for
    anchor,       \* history: the content time of the keyframe the timeline hangs on, if one was chosen
    missed,       \* history: an av_seek_frame failed since this seek was armed
    seeks         \* bound: seeks asked for

mailbox == << request, applying, seek_to, seek_target, seeking >>
lanes == << q, pending >>
rebase == << flushed, rebase_pending, rebase_drops, seek_retries, stuck >>
clock == << prime_play, seek_base, max_fed, pts_shift >>
history == << want, anchor, missed, seeks >>

vars == << mailbox, demux, lanes, stage, rebase, clock, INPLACE_SEEK_OK, history >>

Opened == [at |-> "top", pos |-> 1, au |-> NoAu]

Empty == [l \in Lanes |-> << >>]
Nothing == [l \in Lanes |-> NoAu]

\* Playing from the beginning.
Init ==
    /\ request = None /\ seek_to = None /\ seek_target = None /\ seeking = FALSE
    /\ applying = [step |-> "no", t |-> None]
    /\ demux = Opened
    /\ q = Empty /\ pending = Nothing
    /\ stage = "Playing"
    /\ flushed = FALSE /\ rebase_pending = FALSE /\ rebase_drops = 0
    /\ seek_retries = 0 /\ stuck = FALSE
    /\ prime_play = FALSE /\ seek_base = 0 /\ max_fed = [l \in Lanes |-> 0] /\ pts_shift = 0
    /\ INPLACE_SEEK_OK = TRUE
    /\ want = 0 /\ anchor = 0 /\ missed = FALSE /\ seeks = 0

-----------------------------------------------------------------------------
(* The demux thread. *)

\* AVSEEK_FLAG_BACKWARD: the last keyframe at or before the target.
Landing(t) ==
    CHOOSE n \in DOMAIN File :
        /\ File[n].key /\ File[n].pts <= t
        /\ \A k \in DOMAIN File : File[k].key /\ File[k].pts <= t => k <= n

\* A container that seeks at all has a keyframe for every target.
ASSUME LandingAssumption == \A t \in Targets : Landing(t) \in DOMAIN File

\* The target is swapped out between two reads; a seek that fails is only logged.
TakeSeek ==
    /\ demux.at = "top"
    /\ seek_to' = None
    /\ \E ok \in BOOLEAN :
         /\ demux' = [demux EXCEPT !.at = "read",
                                   !.pos = IF seek_to # None /\ ok THEN Landing(seek_to) ELSE @]
         /\ missed' = (missed \/ (seek_to # None /\ ~ok))
    /\ UNCHANGED << request, applying, seek_target, seeking, lanes, stage, rebase, clock,
                    INPLACE_SEEK_OK, want, anchor, seeks >>

\* av_read_frame.  At the end of the file the thread is gone, with no look at seek_to.
Read ==
    /\ demux.at = "read"
    /\ demux' = IF demux.pos > Len(File)
                THEN [demux EXCEPT !.at = "ended"]
                ELSE [at |-> "push", pos |-> demux.pos + 1, au |-> File[demux.pos]]
    /\ UNCHANGED << mailbox, lanes, stage, rebase, clock, INPLACE_SEEK_OK, history >>

\* A full lane parks the demuxer, the audio lane only while there is video (PushGate).
Push ==
    LET l == demux.au.lane
    IN  /\ demux.at = "push"
        /\ Len(q[l]) < LaneCap \/ (l = "a" /\ q["v"] = << >>)
        /\ q' = [q EXCEPT ![l] = Append(@, demux.au)]
        /\ demux' = [demux EXCEPT !.at = "top", !.au = NoAu]
        /\ UNCHANGED << mailbox, pending, stage, rebase, clock, INPLACE_SEEK_OK, history >>

-----------------------------------------------------------------------------
(* The main thread: requests, the seek and its watchdog. *)

request_seek(t) ==
    /\ applying.step = "no" /\ stage \in {"Loading", "Playing"}
    /\ seeks < MaxSeeks
    /\ request' = t /\ want' = t /\ seeking' = TRUE /\ seeks' = seeks + 1
    /\ UNCHANGED << applying, seek_to, seek_target, demux, lanes, stage, rebase, clock,
                    INPLACE_SEEK_OK, anchor, missed >>

\* A fresh demuxer at the target, or an error for the viewer.  The old one is joined first; the
\* session's mailboxes and the spinner are reset.
reload_at(t) ==
    /\ request' = None
    /\ UNCHANGED << applying, want, anchor, seeks >>
    /\ \/ /\ stage' = "Starting"
          /\ demux' = Opened
          /\ q' = Empty /\ pending' = Nothing
          /\ seek_to' = t /\ seek_target' = None /\ seeking' = FALSE
          /\ flushed' = FALSE /\ rebase_pending' = FALSE /\ rebase_drops' = 0
          /\ seek_retries' = 0 /\ stuck' = FALSE
          /\ prime_play' = FALSE /\ seek_base' = 0 /\ max_fed' = [l \in Lanes |-> 0]
          /\ pts_shift' = 0
          /\ INPLACE_SEEK_OK' = TRUE /\ missed' = FALSE
       \/ /\ stage' = "Error"
          /\ demux' = [Opened EXCEPT !.at = "ended"]
          /\ q' = Empty /\ pending' = Nothing
          /\ UNCHANGED << seek_to, seek_target, seeking, rebase, clock, INPLACE_SEEK_OK, missed >>

\* The Engine is made when the demuxer is already running: the rebase is armed if the target is
\* still in the mailbox.  (Otherwise the first keyframe is fed as it is and nothing is primed.)
Install ==
    /\ stage = "Starting"
    /\ stage' = "Loading"
    /\ rebase_pending' = (seek_to # None)
    /\ anchor' = IF seek_to # None THEN anchor ELSE None
    /\ UNCHANGED << mailbox, demux, lanes, flushed, rebase_drops, seek_retries, stuck, clock,
                    INPLACE_SEEK_OK, want, missed, seeks >>

Resolving == flushed /\ rebase_pending

CanSeek == applying.step = "no" /\ stage = "Playing" /\ request # None /\ ~Resolving

\* No in-place seek on this pipeline, a refused Pause, or a retired native epoch.
SeekByReload ==
    /\ CanSeek
    /\ reload_at(request)

\* The clock is held; the pipeline is flushed and the video lane drained.
SeekInPlace ==
    /\ CanSeek /\ INPLACE_SEEK_OK
    /\ request' = None
    /\ applying' = [step |-> "video", t |-> request]
    /\ q' = [q EXCEPT !["v"] = << >>]
    /\ UNCHANGED << seek_to, seek_target, seeking, demux, pending, stage, rebase, clock,
                    INPLACE_SEEK_OK, history >>

\* The AUs held for a retry; drain_aq and the seek both clear them.
DropHeld == pending' = Nothing

DrainAudio ==
    /\ applying.step = "video"
    /\ applying' = [applying EXCEPT !.step = "audio"]
    /\ q' = [q EXCEPT !["a"] = << >>]
    /\ DropHeld
    /\ UNCHANGED << request, seek_to, seek_target, seeking, demux, stage, rebase, clock,
                    INPLACE_SEEK_OK, history >>

\* The target is published, the rebase armed and Play put off until the decoder is primed.
Publish ==
    /\ applying.step = "audio"
    /\ applying' = [step |-> "no", t |-> None]
    /\ seek_to' = applying.t /\ seek_target' = applying.t
    /\ flushed' = TRUE /\ rebase_pending' = TRUE /\ rebase_drops' = 0
    /\ seek_retries' = 0 /\ stuck' = FALSE
    /\ max_fed' = [l \in Lanes |-> 0] /\ prime_play' = TRUE
    /\ DropHeld
    /\ missed' = FALSE
    /\ UNCHANGED << request, seeking, demux, q, stage, seek_base, pts_shift,
                    INPLACE_SEEK_OK, want, anchor, seeks >>

TimePasses ==
    /\ Resolving /\ ~stuck
    /\ stuck' = TRUE
    /\ UNCHANGED << mailbox, demux, lanes, stage, flushed, rebase_pending, rebase_drops,
                    seek_retries, clock, INPLACE_SEEK_OK, history >>

\* (mutant) the watchdog goes back to the target it armed
ArmedTarget == seek_target

\* The newest request, or else the target that was armed.
NewestTarget == IF request # None THEN request ELSE seek_target

Overdue == applying.step = "no" /\ stage = "Playing" /\ Resolving /\ stuck

RetryReopen ==
    /\ Overdue /\ seek_retries < MAX_RETRIES
    /\ request' = None
    /\ seek_to' = NewestTarget /\ seek_target' = NewestTarget
    /\ seek_retries' = seek_retries + 1 /\ stuck' = FALSE
    /\ UNCHANGED << applying, seeking, demux, lanes, stage, flushed, rebase_pending,
                    rebase_drops, clock, INPLACE_SEEK_OK, history >>

\* (mutant) the watchdog only ever tries the reopen again
NoGiveUp == FALSE

GiveUp ==
    /\ Overdue /\ seek_retries >= MAX_RETRIES
    /\ reload_at(NewestTarget)

\* A Load for a seek primes before it plays.
prime_before_play == rebase_pending

LoadCompletes ==
    /\ applying.step = "no" /\ stage = "Loading"
    /\ stage' = "Playing" /\ prime_play' = prime_before_play
    /\ UNCHANGED << mailbox, demux, lanes, rebase, seek_base, max_fed, pts_shift,
                    INPLACE_SEEK_OK, history >>

-----------------------------------------------------------------------------
(* The main thread: feeding.  Not while a request waits. *)

MayFeed == applying.step = "no" /\ stage = "Playing" /\ request = None

HasAu(l) == pending[l] # NoAu \/ q[l] # << >>

\* The AU held for a retry, or else the one aq_pop returns.
NextAu(l) == IF pending[l] # NoAu THEN pending[l] ELSE Head(q[l])

Popped(l) == IF pending[l] # NoAu THEN q[l] ELSE Tail(q[l])

\* (mutant) the distance to the target is not looked at
NeverStale(pts) == FALSE

\* A keyframe of the position the demuxer is leaving.
StaleKeyframe(pts) ==
    /\ flushed /\ rebase_drops < MAX_REBASE_DROPS
    /\ \/ pts - seek_target > SEEK_STALE_AHEAD
       \/ seek_target - pts > SEEK_STALE_BEHIND

Drop(l) ==
    /\ pending' = [pending EXCEPT ![l] = NoAu]
    /\ q' = [q EXCEPT ![l] = Popped(l)]

\* The AU goes to the pipeline, or is held until there is room.
Offer(l, fp, high, ok) ==
    /\ q' = [q EXCEPT ![l] = Popped(l)]
    /\ pending' = [pending EXCEPT ![l] = IF ok THEN NoAu ELSE NextAu(l)]
    /\ max_fed' = [max_fed EXCEPT ![l] = IF ok /\ fp > high THEN fp ELSE @]

Floored(fp) == IF fp < 0 THEN 0 ELSE fp

\* Before the landed keyframe nothing is fed; a stale one is dropped.
DropVideo ==
    /\ MayFeed /\ HasAu("v")
    /\ LET au == NextAu("v")
           fp == au.pts + pts_shift
       IN  \/ /\ rebase_pending /\ ~au.key
              /\ UNCHANGED rebase_drops
           \/ /\ rebase_pending /\ au.key /\ StaleKeyframe(au.pts)
              /\ rebase_drops' = rebase_drops + 1
           \/ /\ ~rebase_pending /\ fp < max_fed["v"] - STALE_BACKJUMP
              /\ UNCHANGED rebase_drops
    /\ Drop("v")
    /\ UNCHANGED << mailbox, demux, stage, flushed, rebase_pending, seek_retries, stuck,
                    clock, INPLACE_SEEK_OK, history >>

\* The first keyframe that is not stale: the timeline hangs on it.  In place it keeps its
\* content time and needs a fresh segment; after a reload it becomes time zero.
Anchor(ok) ==
    /\ MayFeed /\ HasAu("v") /\ rebase_pending
    /\ LET au == NextAu("v")
           shift == IF flushed THEN 0 ELSE -au.pts
           fp == Floored(au.pts + shift)
       IN  /\ au.key /\ ~StaleKeyframe(au.pts)
           /\ pts_shift' = shift /\ seek_base' = au.pts + shift
           /\ INPLACE_SEEK_OK' \in IF flushed THEN {INPLACE_SEEK_OK, FALSE} ELSE {INPLACE_SEEK_OK}
           /\ rebase_pending' = FALSE /\ flushed' = FALSE /\ stuck' = FALSE
           /\ anchor' = au.pts
           /\ Offer("v", fp, max_fed["v"], ok)
    /\ UNCHANGED << mailbox, demux, stage, rebase_drops, seek_retries, prime_play, want, missed,
                    seeks >>

FeedVideo(ok) ==
    /\ MayFeed /\ HasAu("v") /\ ~rebase_pending
    /\ LET fp == NextAu("v").pts + pts_shift
       IN  /\ fp >= max_fed["v"] - STALE_BACKJUMP
           /\ Offer("v", Floored(fp), max_fed["v"], ok)
    /\ UNCHANGED << mailbox, demux, stage, rebase, prime_play, seek_base, pts_shift,
                    INPLACE_SEEK_OK, history >>

StaleAudio(fp) ==
    \/ max_fed["v"] > 0 /\ fp > max_fed["v"] + AUDIO_STALE_AHEAD
    \/ fp < max_fed["a"] - STALE_BACKJUMP

\* The audio lane waits for the rebase.
DropAudio ==
    /\ MayFeed /\ HasAu("a") /\ ~rebase_pending
    /\ StaleAudio(NextAu("a").pts + pts_shift)
    /\ Drop("a")
    /\ UNCHANGED << mailbox, demux, stage, rebase, clock, INPLACE_SEEK_OK, history >>

FeedAudio(ok) ==
    /\ MayFeed /\ HasAu("a") /\ ~rebase_pending
    /\ LET fp == NextAu("a").pts + pts_shift
       IN  /\ ~StaleAudio(fp)
           /\ Offer("a", Floored(fp), max_fed["a"], ok)
    /\ UNCHANGED << mailbox, demux, stage, rebase, prime_play, seek_base, pts_shift,
                    INPLACE_SEEK_OK, history >>

\* Enough of both lanes has been accepted past the base, or of the video alone.
DecoderReady ==
    LET buffered(l) == max_fed[l] - seek_base
    IN  IF buffered("a") > 0
        THEN buffered("v") >= PRIME /\ buffered("a") >= PRIME_AUDIO
        ELSE buffered("v") >= PRIME_VIDEO_MAX

\* (mutant) the spinner stays up when the clock starts
SpinnerLeft == UNCHANGED seeking

SpinnerDown == seeking' = FALSE

\* Tried after every AU and at the end of a tick; a Play that Starfish refuses is tried again.
try_prime ==
    /\ MayFeed /\ prime_play /\ DecoderReady
    /\ prime_play' = FALSE /\ SpinnerDown
    /\ UNCHANGED << request, applying, seek_to, seek_target, demux, lanes, stage, rebase,
                    seek_base, max_fed, pts_shift, INPLACE_SEEK_OK, history >>

-----------------------------------------------------------------------------
Demux == TakeSeek \/ Read \/ Push

Feed(ok) == DropVideo \/ Anchor(ok) \/ FeedVideo(ok)

Apply == SeekByReload \/ SeekInPlace \/ DrainAudio \/ Publish

Watch == RetryReopen \/ GiveUp

Reload == Install \/ LoadCompletes

Next ==
    \/ Demux
    \/ \E t \in Targets : request_seek(t)
    \/ Apply \/ TimePasses \/ Watch \/ Reload
    \/ \E ok \in BOOLEAN : Feed(ok) \/ FeedAudio(ok)
    \/ DropAudio \/ try_prime

Spec == Init /\ [][Next]_vars

\* The pump ticks and in the end gets its way with the pipeline, the demuxer runs, time passes.
Pump == Apply \/ Watch \/ Reload \/ Feed(TRUE) \/ FeedAudio(TRUE) \/ DropAudio \/ try_prime

FairSpec == Spec /\ WF_vars(Demux) /\ WF_vars(Pump) /\ WF_vars(TimePasses)

-----------------------------------------------------------------------------
(* Properties. *)

AccessUnits == {File[n] : n \in DOMAIN File}

\* The variables keep their types.
TypeOK ==
    /\ request \in Targets \cup {None} /\ seek_to \in Targets \cup {None}
    /\ seek_target \in Targets \cup {None}
    /\ applying \in [step : {"no", "video", "audio"}, t : Targets \cup {None}]
    /\ demux \in [at : {"top", "read", "push", "ended"}, pos : 1 .. Len(File) + 1,
                  au : AccessUnits \cup {NoAu}]
    /\ q \in [Lanes -> Seq(AccessUnits)] /\ pending \in [Lanes -> AccessUnits \cup {NoAu}]
    /\ stage \in {"Starting", "Loading", "Playing", "Error"}
    /\ seeking \in BOOLEAN /\ flushed \in BOOLEAN /\ rebase_pending \in BOOLEAN
    /\ stuck \in BOOLEAN /\ prime_play \in BOOLEAN /\ INPLACE_SEEK_OK \in BOOLEAN
    /\ missed \in BOOLEAN
    /\ rebase_drops \in 0 .. MAX_REBASE_DROPS /\ seek_retries \in 0 .. MAX_RETRIES
    /\ seek_base \in Nat /\ max_fed \in [Lanes -> Nat] /\ pts_shift \in Int
    /\ want \in Targets \cup {0} /\ anchor \in Nat \cup {None} /\ seeks \in 0 .. MaxSeeks

\* pump.rs, "adopt the NEWEST coalesced target": once no request waits, what the demuxer is sent
\* to and what the rebase guard measures against are the last place the viewer asked for, however
\* many seeks, retries and reloads came before.
NewestTargetWins ==
    request = None /\ applying.step = "no" /\ stage # "Error" =>
        /\ seek_to \in {None, want}
        /\ Resolving => seek_target = want

\* engine.rs, the rebase guard: with every seek carried out, every av_seek_frame good and the cap
\* on dropped keyframes not used up, the timeline hangs on a keyframe of the viewer's newest
\* target, never on one of the position the demuxer was leaving or of a target since given up.
LandsNearTarget ==
    ( /\ request = None /\ applying.step = "no" /\ stage = "Playing" /\ ~rebase_pending
      /\ anchor # None /\ ~missed /\ rebase_drops < MAX_REBASE_DROPS ) =>
        /\ anchor - want <= SEEK_STALE_AHEAD
        /\ want - anchor <= SEEK_STALE_BEHIND

\* engine.rs at SEEK_STALE_BEHIND_NS: the keyframe a backward seek lands on "is at most ~one GOP
\* behind", and the bound is loose enough for sparse keyframes.  Only a reload needs it of the
\* file: its first keyframe is not measured against the target.
KeyframesAreDense ==
    \A t \in Targets : t - File[Landing(t)].pts <= SEEK_STALE_BEHIND

\* pump.rs, "drop any AU held from BEFORE the seek": while a seek waits for its keyframe nothing
\* is held for a retry, so no AU of the old position gets the new timeline's shift.
NothingHeldAcrossASeek == Resolving => pending = Nothing

\* engine.rs, prime-then-play: the clock is held from the flush until the landed keyframe and
\* PRIME of the new position are in the pipeline, after a reload as well as in place.
ClockHeldThroughTheGap == rebase_pending /\ stage = "Playing" => prime_play

\* player/mod.rs, abandon_seek: the spinner that a request raises is up while it waits, and as
\* long as it is up there is a request, a seek or a prime that will take it down.
SpinnerIsOwed ==
    stage # "Error" =>
        /\ request # None \/ applying.step # "no" => seeking
        /\ seeking => request # None \/ applying.step # "no" \/ prime_play

\* The seek at every moment: nothing of the old position is held, the clock waits for the landed
\* keyframe, and the spinner has somebody to take it down (engine.rs, pump.rs).
SeekSafe ==
    /\ TypeOK
    /\ NothingHeldAcrossASeek
    /\ ClockHeldThroughTheGap
    /\ SpinnerIsOwed

\* Less video is left than the prime asks for when no audio has come.
TooNearTheEnd ==
    /\ ~rebase_pending
    /\ \A n \in DOMAIN File : File[n].lane = "v" => File[n].pts - anchor < PRIME_VIDEO_MAX

\* pump.rs, the stuck watchdog: every request ends in playback with the clock running, or in an
\* error on screen, also when the demuxer is gone, a seek of its fails or more requests come;
\* except where the file ends before the decoder can be primed.
SeekSettles ==
    request # None ~>
        \/ stage = "Error"
        \/ request = None /\ stage = "Playing" /\ ~rebase_pending /\ ~prime_play
        \/ request = None /\ TooNearTheEnd
=============================================================================
