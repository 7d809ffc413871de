----------------------------- MODULE ViewState ------------------------------
(***************************************************************************)
(* The queue of view-state writes (Mark as Watched / Unwatched, Remove     *)
(* from Continue Watching, Favorite): rust-modules/src/viewstate.rs and    *)
(* stores/viewstate.rs.                                                    *)
(*                                                                         *)
(* A press edits what is shown at once, queues one write and kicks the     *)
(* queue; a write runs on a worker of its own, tells the server and then   *)
(* overwrites the one-place mailbox of the ViewStateAdapter it captured.   *)
(* The frame's pump takes the mail, kicks the queue and, when nothing is   *)
(* queued or sent, issues the refreshes it owes.                           *)
(*                                                                         *)
(* kick's loop goes on after a spawn: it starts a worker for every queued  *)
(* write and `sent` remembers the last of them only.                       *)
(*                                                                         *)
(* Abstractions.  An item is the pair (sid, rk) on the one backend; a      *)
(* press for another sid is refused like a press without a client.  What   *)
(* the stores show is the last write pressed per toggle, and what the      *)
(* server holds is the request it took last.  A DetailRefresh is the       *)
(* request whose page it addresses.  Request ids are u64 and do not wrap.  *)
(* The store's notice is left out.                                         *)
(***************************************************************************)
EXTENDS Integers, Sequences, SequencesExt, Retain

CONSTANTS
    Items,        \* the (server, ratingKey) pairs
    Writes,       \* the kinds of write considered
    None,         \* an Option's None
    RETRY_FRAMES, \* frames between a refused spawn and the next attempt
    MaxReq,       \* bound on presses
    MaxEpoch      \* bound on profile switches

AllWrites == {"Watched", "Unwatched", "RemoveFromDeck", "Favorite", "Unfavorite"}

ASSUME ViewStateAssumption ==
    /\ Writes \subseteq AllWrites
    /\ None \notin AllWrites
    /\ RETRY_FRAMES \in Nat \ {0}
    /\ MaxReq \in Nat
    /\ MaxEpoch \in Nat

VARIABLES
    queue,           \* ViewStateState::queue
    sent,            \* ViewStateState::sent
    retry_cd,        \* ViewStateState::retry_cd
    want_hubs,       \* ViewStateState::want_hubs
    want_detail,     \* ViewStateState::want_detail: a request id, 0 for None
    next_request_id, \* ViewStateState::next_request_id
    mail,            \* ViewStateAdapter::mail of the store's adapter: an id, or 0
    epoch,           \* how often the store has rotated its adapter
    workers,         \* running workers
    client,          \* jellyfin::client().is_some()
    shown,           \* the last write the local surfaces were edited to, per toggle
    server,          \* the request the server took last, per toggle
    since            \* history: the first id of this profile

vars == <<queue, sent, retry_cd, want_hubs, want_detail, next_request_id, mail,
          epoch, workers, client, shown, server, since>>

Ids == 1 .. MaxReq

family(w) == CASE w \in {"Watched", "Unwatched"} -> 0
               [] w = "RemoveFromDeck" -> 1
               [] w \in {"Favorite", "Unfavorite"} -> 2

Toggles == Items \X {family(w) : w \in Writes}

Toggle(r) == <<r.item, family(r.w)>>

\* detail: the press came from a Detail page, which is re-read afterwards.
Req == [id : Ids, item : Items, w : Writes, detail : BOOLEAN]

\* told: the request to the server has returned and only the mail is missing.
Worker == [epoch : 0 .. MaxEpoch, req : Req, told : BOOLEAN]

TypeOK ==
    /\ queue \in Seq(Req)
    /\ sent \in Req \cup {None}
    /\ retry_cd \in 0 .. RETRY_FRAMES
    /\ want_hubs \in BOOLEAN
    /\ want_detail \in {0} \cup Ids
    /\ next_request_id \in 1 .. (MaxReq + 1)
    /\ mail \in {0} \cup Ids
    /\ epoch \in 0 .. MaxEpoch
    /\ workers \subseteq Worker
    /\ client \in BOOLEAN
    /\ shown \in [Toggles -> Writes \cup {None}]
    /\ server \in [Toggles -> {0} \cup Ids]
    /\ since \in 1 .. (MaxReq + 1)

Init ==
    /\ queue = <<>>
    /\ sent = None
    /\ retry_cd = 0
    /\ want_hubs = FALSE
    /\ want_detail = 0
    /\ next_request_id = 1
    /\ mail = 0
    /\ epoch = 0
    /\ workers = {}
    /\ client = TRUE
    /\ shown = [t \in Toggles |-> None]
    /\ server = [t \in Toggles |-> 0]
    /\ since = 1

is_busy(q, s) == q # <<>> \/ s # None

-----------------------------------------------------------------------------
(* The main thread.                                                        *)

\* (mutant) The older write of the toggle stays queued.
coalesce_nothing(q, t) == q

coalesce(q, t) == RetainAt(q, {i \in DOMAIN q : Toggle(q[i]) # t})

\* (mutant) The refused write is not put back.
RefusedIsDropped(q, s, cd, n) ==
    [queue   |-> SubSeq(q, n + 2, Len(q)),
     sent    |-> IF n > 0 THEN q[n] ELSE s,
     retry   |-> IF n < Len(q) THEN RETRY_FRAMES ELSE cd,
     spawned |-> {q[i] : i \in 1 .. n}]

\* What kick can leave behind, by how many of the queued writes n the system
\* gives a thread: n = Len(q), or the one after the first n was refused.
KickOutcome(q, s, cd, n) ==
    [queue   |-> SubSeq(q, n + 1, Len(q)),
     sent    |-> IF n > 0 THEN q[n] ELSE s,
     retry   |-> IF n < Len(q) THEN RETRY_FRAMES ELSE cd,
     spawned |-> {q[i] : i \in 1 .. n}]

kick(q, s, cd) ==
    CASE s # None \/ cd > 0 -> {[queue |-> q, sent |-> s, retry |-> cd, spawned |-> {}]}
      [] s = None /\ cd = 0 /\ ~client ->
            {[queue |-> <<>>, sent |-> s, retry |-> cd, spawned |-> {}]}
      [] OTHER -> {KickOutcome(q, s, cd, n) : n \in 0 .. Len(q)}

Spawn(reqs) ==
    workers' = workers \cup {[epoch |-> epoch, req |-> r, told |-> FALSE] : r \in reqs}

\* A refused press (no client) changes nothing and is left out.
Request(item, w, detail) ==
    LET r == [id |-> next_request_id, item |-> item, w |-> w, detail |-> detail]
    IN  /\ next_request_id <= MaxReq
        /\ client
        /\ shown' = [shown EXCEPT ![Toggle(r)] = w]
        /\ next_request_id' = next_request_id + 1
        /\ \E k \in kick(Append(coalesce(queue, Toggle(r)), r), sent, retry_cd) :
              /\ queue' = k.queue
              /\ sent' = k.sent
              /\ retry_cd' = k.retry
              /\ Spawn(k.spawned)
        /\ UNCHANGED <<want_hubs, want_detail, mail, epoch, client, server, since>>

\* (mutant) The state is cleared and the adapter kept.
ResetInPlace ==
    /\ since <= MaxReq
    /\ queue' = <<>>
    /\ sent' = None
    /\ retry_cd' = 0
    /\ want_hubs' = FALSE
    /\ want_detail' = 0
    /\ since' = next_request_id
    /\ UNCHANGED <<epoch, mail, next_request_id, workers, client, shown, server>>

\* The store rotates its adapter, then clears its state.
Reset ==
    /\ epoch < MaxEpoch
    /\ epoch' = epoch + 1
    /\ mail' = 0
    /\ queue' = <<>>
    /\ sent' = None
    /\ retry_cd' = 0
    /\ want_hubs' = FALSE
    /\ want_detail' = 0
    /\ since' = next_request_id
    /\ UNCHANGED <<next_request_id, workers, client, shown, server>>

retry_tick(cd) == IF cd > 0 THEN cd - 1 ELSE cd

\* (mutant) Only the frame that spends the countdown is due.
retry_due_once(cd) == cd = 1

retry_due(cd) == cd <= 1

\* One frame: pump_with_gate and the take_detail_refresh that follows it.
Pump ==
    LET exact  == mail # 0 /\ sent # None /\ sent.id = mail
        cd     == retry_tick(retry_cd)
        s      == IF exact THEN None ELSE sent
        hubs   == want_hubs \/ exact
        detail == IF exact /\ sent.detail THEN sent.id ELSE want_detail
        Kicked == IF retry_due(retry_cd)
                  THEN kick(queue, s, cd)
                  ELSE {[queue |-> queue, sent |-> s, retry |-> cd, spawned |-> {}]}
    IN  \E k \in Kicked :
          /\ queue' = k.queue
          /\ sent' = k.sent
          /\ retry_cd' = k.retry
          /\ Spawn(k.spawned)
          /\ mail' = 0
          /\ want_hubs' = (hubs /\ is_busy(k.queue, k.sent))
          /\ want_detail' = IF is_busy(k.queue, k.sent) THEN detail ELSE 0
          /\ UNCHANGED <<next_request_id, epoch, client, shown, server, since>>

\* Sign-in and sign-out.
SetClient ==
    /\ client' = ~client
    /\ UNCHANGED <<queue, sent, retry_cd, want_hubs, want_detail, next_request_id,
                   mail, epoch, workers, shown, server, since>>

-----------------------------------------------------------------------------
(* The workers.                                                            *)

\* perform_jellyfin: the server takes the write, or it fails.
Perform(wk, ok) ==
    /\ wk \in workers
    /\ ~wk.told
    /\ workers' = (workers \ {wk}) \cup {[wk EXCEPT !.told = TRUE]}
    /\ server' = IF ok THEN [server EXCEPT ![Toggle(wk.req)] = wk.req.id] ELSE server
    /\ UNCHANGED <<queue, sent, retry_cd, want_hubs, want_detail, next_request_id,
                   mail, epoch, client, shown, since>>

\* The completion replaces whatever the captured adapter's mailbox holds.
Complete(wk) ==
    /\ wk \in workers
    /\ wk.told
    /\ workers' = workers \ {wk}
    /\ mail' = IF wk.epoch = epoch THEN wk.req.id ELSE mail
    /\ UNCHANGED <<queue, sent, retry_cd, want_hubs, want_detail, next_request_id,
                   epoch, client, shown, server, since>>

Next ==
    \/ \E item \in Items, w \in Writes, detail \in BOOLEAN : Request(item, w, detail)
    \/ Reset
    \/ Pump
    \/ SetClient
    \/ \E wk \in workers, ok \in BOOLEAN : Perform(wk, ok)
    \/ \E wk \in workers : Complete(wk)

Spec == Init /\ [][Next]_vars

\* Every frame pumps, requests to the server end (curl has a timeout), a
\* thread that ended its request posts its mail, and the system does not
\* refuse threads for ever.
Fairness ==
    /\ WF_vars(Pump)
    /\ SF_vars(Pump /\ workers' # workers)
    /\ WF_vars(\E wk \in workers : Perform(wk, TRUE) \/ Perform(wk, FALSE) \/ Complete(wk))

FairSpec == Spec /\ Fairness

-----------------------------------------------------------------------------
(* Properties.                                                             *)

Mine == {wk \in workers : wk.epoch = epoch}

Started == {wk.req.id : wk \in Mine} \cup (IF sent = None THEN {} ELSE {sent.id})

\* Writes are started in the order they were pressed, whatever was refused,
\* coalesced or overtaken in between: the queue is in press order and every
\* write already started is older than all of it (kick, coalesce).
StartedInPressOrder ==
    \A i \in DOMAIN queue :
        /\ \A j \in DOMAIN queue : i < j => queue[i].id < queue[j].id
        /\ \A id \in Started : id < queue[i].id

\* The one queued write of a toggle is the one the surfaces were last edited
\* to: a change of mind never leaves the older intent queued, and one toggle
\* never swallows another's (request, coalesce, Write::family).
QueuedIsWhatIsShown ==
    \A i \in DOMAIN queue :
        /\ shown[Toggle(queue[i])] = queue[i].w
        /\ \A j \in DOMAIN queue : Toggle(queue[i]) = Toggle(queue[j]) => i = j

\* The queue at every moment: in press order behind what was started, one
\* write for each toggle, and that the one on the screen (viewstate.rs).
ViewStateSafe ==
    /\ TypeOK
    /\ StartedInPressOrder
    /\ QueuedIsWhatIsShown

\* Nothing pressed under one profile is queued, in flight, answered or owed a
\* refresh under the next, although the old profile's workers still answer
\* (ViewStateStore::run, reset).
NothingCrossesProfiles ==
    /\ \A i \in DOMAIN queue : queue[i].id >= since
    /\ sent # None => sent.id >= since
    /\ mail # 0 => mail >= since
    /\ want_detail # 0 => want_detail >= since
    /\ want_hubs => since < next_request_id

\* A queued press goes away only by being started, by a newer press of its
\* toggle, because the client left, or with its profile (kick, coalesce).
NoPressIsLost ==
    [][\A i \in DOMAIN queue :
          \/ queue[i] \in ToSet(queue')
          \/ \E wk \in workers' : wk.req = queue[i]
          \/ \E r \in ToSet(queue') \cup {wk.req : wk \in workers'} :
                Toggle(r) = Toggle(queue[i]) /\ r.id > queue[i].id
          \/ ~client
          \/ since' > since]_vars

\* As long as no two writes are out together, every accepted press is
\* followed by an idle queue with its refreshes issued (pump_with_gate,
\* retry_tick).
DrainsOneAtATime ==
    [](\A w1, w2 \in Mine : w1 = w2) =>
        (is_busy(queue, sent) ~> (~is_busy(queue, sent) /\ ~want_hubs /\ want_detail = 0))

\* "One write at a time, in order": the server takes the writes of a toggle
\* in the order they were pressed (viewstate.rs, module documentation).
WritesLandInPressOrder ==
    [][\A t \in Toggles : server'[t] >= server[t]]_vars

=============================================================================
