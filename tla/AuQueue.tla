------------------------------ MODULE AuQueue -------------------------------
(***************************************************************************)
(* The two access-unit lanes between the demuxer and the media pipeline:   *)
(* rust-modules/src/aq.rs, the pushes of the demux thread (ff.rs) and the  *)
(* lane feeders and clock prime of the main thread (player/engine.rs).     *)
(*                                                                         *)
(* The demuxer reads one file sequentially and pushes every access unit    *)
(* (AU) to its lane.  A push over the lane's soft cap parks: on the video  *)
(* lane until the lane drains; on the audio lane only while the video lane *)
(* is stocked, since parking there withholds the very video the consumer   *)
(* waits for.  The main thread pops, discards what its guards take for an  *)
(* AU of an earlier seek, feeds the pipeline and starts the clock once     *)
(* enough of both lanes has been accepted.  One of the guards compares a   *)
(* sound with the last picture fed, and so also discards sound of this     *)
(* very file where that runs well ahead of its picture.  Teardown aborts   *)
(* the lanes one after the other and joins the demuxer.                    *)
(*                                                                         *)
(* Abstractions.  Every AU is one byte long and one tick of media: the     *)
(* i-th AU of a lane has pts i - 1.  A condition variable's timed wait can *)
(* time out at once and so is no state of its own; an untimed one is left  *)
(* only by a signal.  The pipeline (external) accepts what fits its        *)
(* buffers and presents in pts order.  The session plays at once, or       *)
(* starts at a resume or a seek with the clock held; every AU is of this   *)
(* session, the demuxer lands on a keyframe, and pts count from there.     *)
(***************************************************************************)
EXTENDS Integers, Sequences

CONSTANTS
    Files,         \* the files considered: sequences of lanes
    BaseCap,       \* [lane -> soft cap]: AQ_VIDEO_BYTES, AQ_AUDIO_BYTES
    Headroom,      \* AUDIO_AHEAD_HEADROOM
    PipeCap,       \* [lane -> AUs the pipeline buffers] (external)
    PRIME,         \* PRIME_NS
    PRIME_AUDIO,   \* PRIME_AUDIO_NS
    PRIME_VIDEO_MAX, \* PRIME_VIDEO_MAX_NS
    MAX_FEED_AHEAD,  \* MAX_FEED_AHEAD_NS
    AUDIO_SLACK,     \* AUDIO_SLACK_NS
    STALE_BACKJUMP,  \* STALE_BACKJUMP_NS
    AUDIO_STALE_AHEAD, \* AUDIO_STALE_AHEAD_NS
    Starts           \* the ways to start that are considered

Lanes == {"v", "a"}

\* At once; by a Load for a resume or a seek; by a seek within a Load.
AllStarts == {"play", "load", "in_place"}

ASSUME AuQueueAssumption ==
    /\ \A f \in Files : f \in Seq(Lanes)
    /\ BaseCap \in [Lanes -> Nat]
    /\ PipeCap \in [Lanes -> Nat]
    /\ {Headroom, PRIME, PRIME_AUDIO, PRIME_VIDEO_MAX, MAX_FEED_AHEAD, AUDIO_SLACK,
        STALE_BACKJUMP, AUDIO_STALE_AHEAD} \subseteq Nat
    /\ PRIME <= PRIME_VIDEO_MAX
    \* The pipeline can hold what primes the clock.
    /\ PRIME_VIDEO_MAX < PipeCap["v"]
    /\ PRIME_AUDIO < PipeCap["a"]
    /\ Starts \subseteq AllStarts

NoPts == -1

VARIABLES
    file,       \* what the demuxer has not read yet
    q,          \* [lane -> the AUs from AuQueue::head to tail, by pts]
    eof,        \* [lane -> AuQueue::eof]
    abort,      \* [lane -> AuQueue::abort]
    pc,         \* where the demuxer is: see Demuxer
    cur,        \* the lane it is pushing to
    hint,       \* what it found while unlocked: that the video lane is hint
                \* (audio push), that polling on is useful (video push)
    pushed,     \* [lane -> AUs pushed so far]
    failed,     \* SHARED.demux_io_failed
    pending,    \* [lane -> Engine::pending_video, pending_audio]
    fed,        \* history: [lane -> the AUs the pipeline accepted, by pts]
    max_fed,    \* [lane -> Engine::max_fed_video_pts, max_fed_audio_pts]
    start,      \* how the session started
    rebase_pending, \* Engine::rebase_pending
    prime_play, \* Engine::prime_play: the clock is held
    pres,       \* SHARED.pres_fed: the presented position, or NoPts
    teardown    \* how far the teardown is: "no", "video", "joining"

vars == <<file, q, eof, abort, pc, cur, hint, pushed, failed, pending, fed,
          max_fed, start, rebase_pending, prime_play, pres, teardown>>

consumer == <<pending, fed, max_fed, start, rebase_pending, prime_play, pres, teardown>>

\* read: av_read_frame; loop: the lane is locked and its cap is tested;
\* unlocked: draining the wire; relock: locked again; wait: parked untimed.
Demuxer == {"read", "loop", "unlocked", "relock", "wait", "ended"}

TypeOK ==
    /\ file \in Seq(Lanes)
    /\ q \in [Lanes -> Seq(Nat)]
    /\ eof \in [Lanes -> BOOLEAN]
    /\ abort \in [Lanes -> BOOLEAN]
    /\ pc \in Demuxer
    /\ cur \in Lanes
    /\ hint \in BOOLEAN
    /\ pushed \in [Lanes -> Nat]
    /\ failed \in BOOLEAN
    /\ pending \in [Lanes -> Nat \cup {NoPts}]
    /\ fed \in [Lanes -> Seq(Nat)]
    /\ max_fed \in [Lanes -> Nat]
    /\ start \in AllStarts
    /\ rebase_pending \in BOOLEAN
    /\ prime_play \in BOOLEAN
    /\ pres \in Nat \cup {NoPts}
    /\ teardown \in {"no", "video", "joining"}

Init ==
    /\ file \in Files
    /\ q = [l \in Lanes |-> <<>>]
    /\ eof = [l \in Lanes |-> FALSE]
    /\ abort = [l \in Lanes |-> FALSE]
    /\ pc = "read"
    /\ cur = "v"
    /\ hint = FALSE
    /\ pushed = [l \in Lanes |-> 0]
    /\ failed = FALSE
    /\ pending = [l \in Lanes |-> NoPts]
    /\ fed = [l \in Lanes |-> <<>>]
    /\ max_fed = [l \in Lanes |-> 0]
    /\ start \in Starts
    /\ rebase_pending = (start # "play")
    /\ prime_play = rebase_pending
    /\ pres = IF start = "in_place" THEN NoPts ELSE 0
    /\ teardown = "no"

-----------------------------------------------------------------------------
(* The demux thread.                                                       *)

OverCap(l) == Len(q[l]) > BaseCap[l]

aq_span_ns(l) == IF q[l] = <<>> THEN 0 ELSE q[l][Len(q[l])] - q[l][1]

\* VideoReach::reach_ns
reach_ns == IF pushed["v"] = 0 THEN 0 ELSE pushed["v"] - 1

fail_at_ceiling == reach_ns < PRIME_VIDEO_MAX

End ==
    /\ pc' = "ended"
    /\ eof' = [l \in Lanes |-> TRUE]

ReadPacket ==
    /\ pc = "read"
    /\ file # <<>>
    /\ cur' = Head(file)
    /\ file' = Tail(file)
    /\ pc' = "loop"
    /\ UNCHANGED <<q, eof, abort, hint, pushed, failed, consumer>>

\* The end of the file, or a read that the teardown interrupts.
ReadEnds ==
    /\ pc = "read"
    /\ file = <<>> \/ \E l \in Lanes : abort[l]
    /\ End
    /\ UNCHANGED <<file, q, abort, cur, hint, pushed, failed, consumer>>

Pts == pushed[cur]

\* The AU becomes the lane's tail; with the lane's lock held.
Append1 ==
    /\ q' = [q EXCEPT ![cur] = Append(@, Pts)]
    /\ pushed' = [pushed EXCEPT ![cur] = @ + 1]
    /\ pc' = "read"
    /\ UNCHANGED <<file, eof, abort, cur, hint, failed, consumer>>

\* The loop is left with room in the lane.
Push ==
    /\ pc = "loop"
    /\ ~OverCap(cur)
    /\ ~abort[cur]
    /\ Append1

\* The push returns -1 and the read loop breaks.
PushAborted ==
    /\ pc = "loop"
    /\ abort[cur]
    /\ End
    /\ UNCHANGED <<file, q, abort, cur, hint, pushed, failed, consumer>>

\* Over the cap: the lane is unlocked to drain the wire.
Unlock ==
    /\ pc = "loop"
    /\ OverCap(cur)
    /\ ~abort[cur]
    /\ pc' = "unlocked"
    /\ UNCHANGED <<file, q, eof, abort, cur, hint, pushed, failed, consumer>>

\* (mutant) A full audio lane parks whatever the video lane holds.
NeverStarved == FALSE

\* PushGate: the other lane holds less than the pump's feed-ahead target.
Starved == aq_span_ns("v") < MAX_FEED_AHEAD

\* Unlocked: drain_wire, whose answer says whether polling on is useful; for
\* an audio AU the video lane is then looked at, under its own lock.
Drain ==
    /\ pc = "unlocked"
    /\ IF cur = "a" THEN hint' = Starved ELSE hint' \in BOOLEAN
    /\ pc' = "relock"
    /\ UNCHANGED <<file, q, eof, abort, cur, pushed, failed, consumer>>

StillFull == OverCap(cur) /\ ~abort[cur]

UnderCeiling == Len(q["a"]) <= BaseCap["a"] + Headroom

\* Locked again, the audio lane still full and the video lane starved: the
\* AU is admitted up to the hard ceiling.
Admit ==
    /\ pc = "relock"
    /\ cur = "a"
    /\ StillFull
    /\ hint
    /\ UnderCeiling
    /\ Append1

\* At the ceiling: PUSH_CEILING, and the demuxer fails the stream.
Ceiling ==
    /\ pc = "relock"
    /\ cur = "a"
    /\ StillFull
    /\ hint
    /\ ~UnderCeiling
    /\ fail_at_ceiling
    /\ failed' = TRUE
    /\ End
    /\ UNCHANGED <<file, q, abort, cur, hint, pushed, consumer>>

\* (mutant) The untimed wait is entered without testing the lane again.
MayWaitBlindly == cur = "v" /\ ~hint

MayWait == cur = "v" /\ ~hint /\ StillFull

\* The video lane's untimed wait.
Park ==
    /\ pc = "relock"
    /\ MayWait
    /\ pc' = "wait"
    /\ UNCHANGED <<file, q, eof, abort, cur, hint, pushed, failed, consumer>>

\* Back to the test: the lane has room or is aborted, or a timed wait ends.
Retry ==
    /\ pc = "relock"
    /\ \/ ~StillFull
       \/ cur = "v" /\ hint
       \/ cur = "a" /\ ~hint
       \/ cur = "a" /\ ~UnderCeiling /\ ~fail_at_ceiling
    /\ pc' = "loop"
    /\ UNCHANGED <<file, q, eof, abort, cur, hint, pushed, failed, consumer>>

Demux == \/ ReadPacket \/ ReadEnds \/ Push \/ PushAborted \/ Unlock \/ Drain
         \/ Admit \/ Ceiling \/ Park \/ Retry

-----------------------------------------------------------------------------
(* The main thread: one iteration of a lane's feeder, and the prime.       *)

demuxer == <<file, eof, abort, cur, hint, pushed, failed>>

\* Signalling a lane's not_full wakes the demuxer parked on it.
Woken(l) == IF pc = "wait" /\ cur = l THEN "loop" ELSE pc

\* The pending AU, or else the one aq_pop returns.
Next1(l) == IF pending[l] # NoPts THEN pending[l] ELSE q[l][1]

Throttled(l) ==
    /\ ~prime_play
    /\ pres # NoPts
    /\ Next1(l) - pres > MAX_FEED_AHEAD + (IF l = "a" THEN AUDIO_SLACK ELSE 0)

\* A video high-water is known: after an in-place seek, whose AUs keep the
\* file's own pts, from the first picture; else from the first after pts 0.
PictureFed == IF start = "in_place" THEN fed["v"] # <<>> ELSE max_fed["v"] > 0

\* The feeders' guards against an AU of an earlier seek: a big jump back in
\* the lane, or a sound far ahead of the last picture.
Stale(l) ==
    \/ Next1(l) < max_fed[l] - STALE_BACKJUMP
    \/ l = "a" /\ PictureFed /\ Next1(l) > max_fed["v"] + AUDIO_STALE_AHEAD

\* sf_feed answers 'O' (external: the pipeline's own buffer has room).
Accepts(l) == max_fed[l] < pres + PipeCap[l]

\* (mutant) The AU the pipeline has no room for is not kept.
HeldNothing(l) == NoPts

Held(l) == Next1(l)

\* The next AU is discarded, accepted or kept for the next tick.
Feed(l) ==
    LET ok == ~Stale(l) /\ ~Throttled(l) /\ Accepts(l)
    IN  /\ teardown = "no"
        /\ pending[l] # NoPts \/ q[l] # <<>>
        /\ IF pending[l] # NoPts
           THEN UNCHANGED <<q, pc>>
           ELSE /\ q' = [q EXCEPT ![l] = Tail(@)]
                /\ pc' = Woken(l)
        /\ pending' = [pending EXCEPT ![l] = IF Stale(l) \/ ok THEN NoPts ELSE Held(l)]
        /\ IF ok
           THEN /\ fed' = [fed EXCEPT ![l] = Append(@, Next1(l))]
                /\ max_fed' = [max_fed EXCEPT ![l] =
                                   IF Next1(l) > @ THEN Next1(l) ELSE @]
           ELSE UNCHANGED <<fed, max_fed>>
        /\ UNCHANGED <<demuxer, start, pres, teardown>>

\* try_prime's decoder_ready, on what the pipeline has accepted beyond the
\* seek base.
decoder_ready(high) ==
    IF high["a"] > 0
    THEN high["v"] >= PRIME /\ high["a"] >= PRIME_AUDIO
    ELSE high["v"] >= PRIME_VIDEO_MAX

\* The first video AU is the landed keyframe and ends the rebase.
FeedVideo ==
    /\ Feed("v")
    /\ rebase_pending' = FALSE
    /\ prime_play' = (prime_play /\ (Stale("v") \/ ~decoder_ready(max_fed')))

FeedAudio ==
    /\ ~rebase_pending
    /\ Feed("a")
    /\ UNCHANGED <<rebase_pending, prime_play>>

\* feed_both_lanes ends with a prime attempt of its own.
TryPrime ==
    /\ teardown = "no"
    /\ prime_play
    /\ decoder_ready(max_fed)
    /\ prime_play' = FALSE
    /\ UNCHANGED <<demuxer, q, pc, pending, fed, max_fed, start, rebase_pending,
                   pres, teardown>>

\* External: the pipeline presents the next tick of what it holds; its clock
\* needs a picture to start on.
Present ==
    /\ teardown = "no"
    /\ ~prime_play
    /\ fed["v"] # <<>>
    /\ \E l \in Lanes : max_fed[l] > pres
    /\ pres' = pres + 1
    /\ UNCHANGED <<demuxer, q, pc, pending, fed, max_fed, start, rebase_pending,
                   prime_play, teardown>>

\* (mutant) The flag is set and nobody is woken.
AbortSilently(l) ==
    /\ abort' = [abort EXCEPT ![l] = TRUE]
    /\ pc' = pc

aq_abort(l) ==
    /\ abort' = [abort EXCEPT ![l] = TRUE]
    /\ pc' = Woken(l)

AbortVideo ==
    /\ teardown = "no"
    /\ aq_abort("v")
    /\ teardown' = "video"
    /\ UNCHANGED <<file, q, eof, cur, hint, pushed, failed, pending, fed,
                   max_fed, start, rebase_pending, prime_play, pres>>

AbortAudio ==
    /\ teardown = "video"
    /\ aq_abort("a")
    /\ teardown' = "joining"
    /\ UNCHANGED <<file, q, eof, cur, hint, pushed, failed, pending, fed,
                   max_fed, start, rebase_pending, prime_play, pres>>

Next == \/ Demux \/ FeedVideo \/ FeedAudio \/ TryPrime \/ Present
        \/ AbortVideo \/ AbortAudio

Spec == Init /\ [][Next]_vars

\* Both threads keep running, reads end, and the pipeline presents what it
\* holds while its clock runs.
Fairness ==
    /\ WF_vars(Demux)
    /\ WF_vars(FeedVideo)
    /\ WF_vars(FeedAudio)
    /\ WF_vars(TryPrime)
    /\ WF_vars(Present)
    /\ WF_vars(AbortAudio)

FairSpec == Spec /\ Fairness

-----------------------------------------------------------------------------
(* Properties.                                                             *)

\* However the parks, admissions and pops interleave, a lane holds at most
\* one AU over its cap, and the audio lane one over its hard ceiling
\* (aq_push_park, PushGate).
LanesAreBounded ==
    /\ Len(q["v"]) <= BaseCap["v"] + 1
    /\ Len(q["a"]) <= BaseCap["a"] + Headroom + 1

\* Between the demuxer and the pipeline no AU is repeated, overtaken or lost
\* by a full pipeline or a parked push: what is pending or queued in a lane is
\* what was pushed last, and before that every picture was accepted, and every
\* sound but those that may lie AUDIO_STALE_AHEAD beyond a picture (aq_pop,
\* feed_stream, feed_audio_lane).
LostOnlyWhenStale ==
    \A l \in Lanes :
        LET held == (IF pending[l] = NoPts THEN <<>> ELSE <<pending[l]>>) \o q[l]
            done == pushed[l] - Len(held)
            sent == fed[l]
        IN  /\ \A i \in DOMAIN held : held[i] = done + i - 1
            /\ \A i, j \in DOMAIN sent : i < j => sent[i] < sent[j]
            /\ \A i \in DOMAIN sent : sent[i] < done
            /\ \A p \in 0 .. done - 1 :
                   l = "v" \/ p <= AUDIO_STALE_AHEAD => \E i \in DOMAIN sent : sent[i] = p

\* No wakeup is lost: the demuxer sleeps without a timeout only on a lane that
\* is over its cap and not aborted, so a pop or an abort is still to come
\* (aq_push_park, aq_pop, aq_abort).
SleepsOnlyOnAFullLane ==
    pc = "wait" => OverCap(cur) /\ ~abort[cur]

\* The lanes at every moment: within their ceilings, and no demuxer asleep
\* where nobody will wake it (aq.rs).
AuQueueSafe ==
    /\ TypeOK
    /\ LanesAreBounded
    /\ SleepsOnlyOnAFullLane

\* The teardown's join returns: with both lanes aborted the demuxer ends
\* wherever it was parked (engine.rs, teardown).
JoinReturns == teardown = "joining" ~> pc = "ended"

\* The clock is held although the video-only depth is buffered.
HeldOnAudio == prime_play /\ max_fed["v"] >= PRIME_VIDEO_MAX

\* A file of any interleaving is read to its end, or fails at the ceiling,
\* unless the clock stays held on an audio lane that is short of its prime:
\* the lanes never wait for each other (PushGate).
DemuxFinishes == []<>~HeldOnAudio => <>(pc = "ended")

=============================================================================
