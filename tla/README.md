# Butaca: a TLA+ verification project

Butaca is a native Jellyfin client for LG webOS televisions. Its core is the
Rust crate under `rust-modules/src`, linked into a small C shim. This directory
holds TLA+ models of the parts of it where threads, callbacks and the frame
loop meet, TLC configurations that check them on small instances, and
machine-checked (TLAPS) proofs of their safety properties for every size of
instance: every invariant and every action property a passing run checks is
also a theorem.
`PROJECT.json` maps every definition to the lines it models, lists the runs,
the mutants that show each property can fail, the hazards the properties are
for, the findings and the theorems.

## 1. The system

One SDL **main thread** runs the frame loop: it takes input, calls the pump of
every store, feeds the media pipeline and draws. It never blocks on I/O: every
fetch, write and decode is a short-lived **worker thread** that answers through
a mailbox or a landing the main thread polls on a later frame. Playback adds a
**demux thread** (FFmpeg), a **load thread** for the vendor's blocking `Load`
call and **callbacks** from the vendor's pipeline. Persistence has **one
worker thread** of its own, and the durable store is a separate **service
process** reached over the Luna bus.

So the hard behaviour is the same everywhere: an answer arrives after the
question was withdrawn, replaced or asked again; the operating system refuses a
thread; a queue is at its limit; a worker panics; a profile is switched with
work in flight. Unit tests cover these one at a time and in a chosen order.

### Inventory

| Component | State | Operations | Interacts through | What makes it correct |
|---|---|---|---|---|
| Landing transport (`ui/landing.rs`) | data and control lanes, reservations, sequence, drop counters | admit, progress, put, dropped, refused, take_for, cancel, clear | workers publish, main thread drains | a slot is returned exactly once; one terminal per request and last; arrival order; cancelled requests are silent; bounded; drops are counted |
| Detail page store (`metadata.rs`, `metadata/record.rs`, `stores/metadata.rs`) | current detail, generations, landing, season slot | request, clear, load_season, pumps, adapter rotation | one landing and one season mailbox per adapter | no late answer reopens a page or shows another show's episodes; a spinner always has somebody to end it |
| View-state writes (`viewstate.rs`, `stores/viewstate.rs`) | queue, sent, retry countdown, owed refreshes, mailbox | request, coalesce, kick, pump, reset | one worker per write, one-place mailbox | no press is lost, writes go in press order, nothing crosses profiles, the queue drains |
| Access-unit lanes and feed (`aq.rs`, `ff.rs`, `player/engine.rs`) | two byte-bounded queues, pending units, clock hold | push/park, pop, abort, feed, prime, teardown | demux thread and main thread, two locks | nothing lost or reordered, bounded memory, no mutual wait, teardown returns |
| Persistence executor (`storage_worker.rs`) | executor slot, bounded channel, backlog, tickets | submit, submit_retained, pump, worker loop | mutexes and channels | user edits survive refusals in order; a failure is visible only once the dead worker is fenced |
| Foreground lifecycle (`app/lifecycle.rs`) | suspended snapshot, claim, pending load | suspend, claim, finish_prepare, settle_load, finish_clock | platform events, route start attempts | one resume per suspension, the saved position and clock survive every failure |
| Native session (`player/shared.rs`, `player/threads.rs`) | epoch, phase, load call, presentation gate | begin, load returned, callback, retire, abandon | load thread, vendor callbacks | no effect of a retired epoch reaches a newer one |
| HLS clock and rebuffer (`player/shared.rs`) | prime kind, hold epoch, recovery debt, candidate seqlock | hold, reserve, complete, candidate publish | demux thread and main thread | the clock starts once per hold and never on a half-published candidate |
| Route control (`route/decision.rs`) | route owner, start attempts, seek intents | start, supersede, publish result, seek | main and load threads | a stale start result is never installed |
| Storage service (`storage_service/*`, `storage/state.rs`) | one DB8 record, ledger, key names | load, commit, reconcile, promote, cleanup | RPCs that can be lost | an operation is applied once or reported unapplied; no key is removed while referenced |
| Adaptive bitrate (`abr/*`) | rung, window of acquisitions, trial | estimate, propose, prime, commit/reject | demuxer and HLS clock | a trial never spends the reserve twice |
| Search (`search.rs`, `stores/search.rs`) | query, generation, roster and favourites seen, one claim, mailbox and answer per source | set_query, pump, maybe_spawn, land, reset | one worker and one mailbox per source | only answers to the present question are shown, none is lost, the spinner ends |
| In-place seek (`player/pump.rs`, `player/engine.rs`, `ff.rs`) | request, published target, rebase, retries, held clock, spinner | request_seek, the flush and drains, publish, rebase, watchdog, reload, prime | main thread and demux thread through two mailboxes and the lanes | the newest target wins, nothing of the old position is taken for the new one, every seek ends |
| Person, collection, catalog, browse | generations, mailboxes, landings | page fetches | mailboxes | newest answer wins |
| Poster scheduler and image cache | slots, LRU, workers, disk index, generation | intern, fetch, evict, clear | worker pool, index lock | nothing of a signed-out account is written back |
| Session and sign-in (`server/*`, `auth/*`, `grant.rs`) | account, roster, pins, grants | sign in/out, publish, persist | persistence executor | revisions never go backwards |
| UI, rendering, transports, recorder, diagnostics, platform shim | see `PROJECT.json` | | | presentation and I/O |

## 2. Modules

| Module | Models |
|---|---|
| `LandingOps` | every state-changing method of `Landing<K, V>` as an operator on its mutex-guarded `Inner` |
| `Landing` | a landing shared by the main thread and any number of workers |
| `LandingProofs` | the TLAPS proofs about `Landing` |
| `Metadata` | the detail page; composes `LandingOps` by `INSTANCE` as the detail landing of each adapter |
| `MetadataProofs` | the TLAPS proofs about `Metadata` |
| `ViewState` | the write queue |
| `ViewStateProofs` | the TLAPS proofs about `ViewState` |
| `AuQueue` | both lanes with the demuxer, the feeders, the clock prime and the teardown |
| `AuQueueProofs` | the TLAPS proofs about `AuQueue` |
| `Seek` | an in-place seek: request, drains, publication, rebase, watchdog, reload, prime |
| `StorageWorker` | the executor, its worker and the backlog |
| `StorageWorkerProofs` | the TLAPS proofs about `StorageWorker` |
| `StorageSpec` | what the storage service promises its client: an at-most-once log and honest answers |
| `StorageService` | client, helper process, record, DB8 and key manager; refines `StorageSpec` |
| `StorageServiceProofs` | the TLAPS proofs about `StorageService`, the refinement included |
| `Retain` | `Vec::retain`: the places of a sequence that are kept, in their order; used by `ViewState` and `StorageService` |
| `RouteStart` | the route-control and native-session reducers, as operators on records |
| `Foreground` | the foreground lifecycle over `RouteStart`, the main loop, the engine and the load threads |
| `PlaybackProofs` | the TLAPS proofs about `Seek` and about `Foreground` with `RouteStart` |
| `Search` | the search store with its sources' workers |
| `SearchProofs` | the TLAPS proofs about `Search` |
| `MC*` | the constants of the runs, symmetry sets and file shapes |

**Landing.** `inner` is `Landing::inner`. Each method takes the one mutex, so a
method is one atomic step. Lanes are sets: a record's `seq` stamp is its place,
because `take_for` sorts by it. `worker` says who may still publish for an
address; `out`, `cancels` and `lost` are history. A launch occupies the main
thread from `admit` to the spawn's answer; workers run in between.

**Metadata.** A page request supersedes the previous one (`supersede_detail`),
cancels its landing entry and spawns a worker that captured the adapter; a
profile switch rotates the adapter, and old workers keep answering into the old
one. Loads and episodes carry the request that fetched them, which is what lets
the properties say "of this very load". `now`, `playing` and alternative sources
are left out.

**ViewState.** A press edits the shown state, coalesces and kicks. `kick`
starts a worker for *every* queued write, because its loop continues after a
successful spawn, and `sent` remembers the last one. `server` records which
request the server took last per toggle.

**AuQueue.** `pc` is where the demux thread is in `aq_push_park`, including the
window where the lane is unlocked to drain the wire and the untimed condition
wait. `hint` is what it read while unlocked. Units are one byte and one tick
long. The vendor pipeline is external: it accepts what fits and presents in
order. A popped unit is discarded, fed, or kept for the next tick, in the order
of the feeders' tests: first the guards against units of an earlier seek
(`Stale`), then the throttle, then the pipeline's answer. `fed` is history: what
the pipeline accepted. Every unit is of one session and in order, so the
back-jump guard never fires here (the proof says why); the guard on sound
far ahead of the last picture does, in a held start and under a running clock.
HLS priming is left out.

**Seek.** The lanes' locks and parks are `AuQueue`'s business; here a push is one
step. What matters is the order on the main thread (flush, drain video, drain
audio, publish) against the demuxer, which sees the target only before its next
read and may push units of the old position at any point in between. The
file is a sequence of packets; `av_seek_frame` goes back to the last keyframe
and may fail. `applying` is how far the main thread is in one pump call;
`Starting` is the part of a reload in which the new demuxer already runs and the
Engine is not made yet. `want`, `anchor` and `missed` are history.

**StorageWorker.** A panic is four steps, as the code orders them: the closure
unwinds (dropping the result sender and, for a retained job, the ticket's
second channel), the receiver is dropped with what is queued, the reply is
dropped, the thread ends. The backlog's pump submits one job per step.

**StorageService.** One client saves one operation at a time: load, choose a
mutation, commit at the revision seen, and on a transport failure reconcile. The
helper serves one request at a time and calls DB8 and the key manager. Each put
may be rejected, lose its reply, or time out and land *after* the helper has
gone on. Helper and application may die between any two calls; the helper's
list of keys to remove dies with it. `log` is the order in which the record took
operations; `KeepsItsPromise` is the refinement of `StorageSpec`, in which
"durable" is only said of an operation in the log, and an operation is never added
after "conflict" was said of it. "conflict" is said of an operation that was not
added or that another one has followed in the log: the repair of plain
credentials that reads a newer record back answers it although its operation is in
the log (`backend.rs:680`, section 5). Every other answer is "unknown" there.
Revisions, epochs and
generations are natural numbers: the saves and faults a run allows bound them,
and the code promises no other bound.

**RouteStart and Foreground.** `RouteStart` has the pure transitions of
`PLAYER_CONTROL` and `NativeSessionState`; `Foreground` composes them with
`ForegroundState`, the main loop's order (events, pump's drain, pump's check,
poll, the landing of a resolved plan) and the load threads, whose blocking
native Load may be accepted, refused, slow or never return. A claim is taken and
settled inside one main-thread call, so the claimed states do not show.
`drain_route_start_results` settles with the first queued result that fits: it
ends the phase `Starting`, so the code's loop passes over the rest. The
specification's names begin with `Fg`, because `PlaybackProofs` extends `Seek` too.

**Search.** Every source has a fetch (`IDLE`, claimed, mail), an answer and a
retry countdown. A worker carries the generation, roster and sections it was
started under; a supersede forgets the answers but not the claims, so old workers
post over newer mail and duplicates go out. The debounce and the retries count
frames of the pump.

## 3. Runs

| Run | Question | Instance |
|---|---|---|
| `landing` | slots, terminals, order, bounds, accounting, silence of cancelled requests, every slot returns | 3 requests, 2 slots, data lane of 1, 2 keys |
| `metadata` | pages, episodes and spinners under any order of answers; spinners stop | 2 shows, 2 seasons, 2 slots, 4 generations of each, 1 profile switch |
| `metadata_season_tab` | *finding*: a failed fetch puts the tab on a season that is not listed | 3 seasons |
| `viewstate` | order, coalescing, profiles, losses, draining | 1 item, 3 kinds of write, 3 presses, a refused thread, 1 switch |
| `viewstate_order` | *finding*: writes can reach the server out of order | 2 items, 4 presses |
| `auqueue` | bounds, losses, lost wakeups, join, no mutual wait | all 512 files of 9 units, the three ways to start |
| `seek` | newest target, landing near it, nothing held over, held clock, owed spinner, every seek ends | a file of 6 ticks with a keyframe and an audio unit every 2, 2 seeks between 2 targets, 1 retry, cap of 2 drops |
| `storageworker` | order, place and settlement of user edits, failure only of a stopped worker | 4 jobs, channel of 2, 2 deaths |
| `storageservice` | at-most-once and honest answers (refinement), no lost update, no stranded key, no weakened protection, every save ends | 2 operations, ledger of 2, 1 death, resubmission or foreign write |
| `foreground` | one native object, verdicts of their own Load, no orphaned start, the viewer's Play survives, a resume settles | 3 positions, 2 Loads, 4 route transactions |
| `foreground_retry` | *finding*: a refused Load loses the resume point the retry relies on | the same |
| `search` | only answers to the present question, none lost, no source shut out, retries, the spinner ends | 2 sources, 2 queries and the blank one, 3 generations, 2 threads, 1 change of roster and favourites each |

Each module's `<Module>Safe` (`LandingSafe`, `SeekSafe`, ...) is the conjunction of
its type invariant and the named invariants that describe its state at every
moment, each with its own comment in the module; TLC names the run's other
properties one by one. `SpinnersStop` (`Metadata`) and `ProtectionIsKept`
(`StorageService`) join two properties of one mechanism in the same way.

`CHECK_DEADLOCK FALSE` is used where the system may come to rest: when all
requests, files or jobs the bounds allow have been used up.

**Why the bounds suffice.** Each is one more than the smallest number at which
the mechanism bites. Three requests over two slots let one be refused while a
cancelled one still holds a slot and another waits as a terminal; a data lane of
one overflows on the second record. Two slots and four detail generations let
both slots belong to cancelled workers when a third request arrives. Three
presses give one write out, one queued and one to coalesce. Nine units exceed
both soft caps, the audio headroom, a pending unit in each lane and the
pipeline's buffer together, and leave room for sound more than
`AUDIO_STALE_AHEAD` (three ticks in the run) ahead of the last picture. Four jobs over a channel of two give one running,
two queued and one refused into the backlog. Two operations and one fault let a
late put of the first meet the second. Two Loads let the verdict of a retired
one arrive in the time of the next. Three generations over two threads let a
worker of each of two older questions be out beside the newest. In `seek` the
two targets are further apart than the stale window in both directions, so that
a keyframe of one is stale for the other; the second tap can come while the
first resolves; one retry (the code has two) and two drops (the code has 240) are
enough for both limits to be used up. Every property of a run has a mutant in
`PROJECT.json`, a plausible slip in the code that TLC finds under the same
bounds.

**Fairness.** Weak fairness of the pumps and of the feeders: the frame loop
calls them every frame. Weak fairness of a worker's completion: each blocking
call below it has a timeout, and a completion guard answers when it unwinds
(`Search`: of each source's fetch). Strong fairness of a spawn (`ViewState`,
`StorageWorker`): the operating system may refuse threads, but not for ever. The
pipeline presents what it holds while its clock runs. `StorageService`: the
helper accepts what is sent and its calls return or time out. `Foreground`: the
frame loop, the load threads past the native Load, and time; the native Load
itself owes nothing and may never return. `Seek`: the pump, the demuxer and time;
the pipeline takes in the end what it is offered. Nothing is assumed of presses,
cancellations, profile switches, panics, deaths, foreign writes, successful
`av_seek`s or reloads, or the teardown's beginning.

## 4. What is proved

### Landing

`LandingProofs` proves, for every set of addressees, requests and keys and
every capacity in `Nat` (`CapsAssumption`, `MaxSeqAssumption`; no finiteness of
the sets is assumed):

- `TypeCorrect`, `NoSlotLeaks`, `TerminalsAreUnique`, `DrainsInOrder`,
  `NothingVanishes`, `StorageIsBounded`: the invariants of `landing` and the parts
  of `LandingSafe`, which `LandingIsSafe` puts together;
- `CancelledNeverDelivered`: its action property.

They follow from `InductiveInvariant`. `IInv` adds to the checked invariants
what makes them inductive: the lanes, the history and the reservations are
finite (`Finite`: cardinalities mean nothing otherwise); an address that left a
trace has been launched, so a fresh admission cannot collide with its past
(`Launched`); stamps are at most `seq` (`Stamped`); the reservation of a delivered
terminal is gone, so no second one can follow (`Retired`); a cancelled request
has given its slot back or is marked (`Silenced`). The bound on the control lane
follows: its records are terminals of distinct reservations.
The argument is in three layers: `*Effect` lemmas say what each method does to
each field; `PublishStep`, `TakeStep`, `CancelStep` and `AdmitStep` show that a
publication, a drain, a cancellation and an admission preserve `IInv`; `NextIInv`
splits the next-state relation into those four.

### Search

`SearchProofs` proves, for every set of sources and queries and every limit
(the assumptions of `Search`): `SearchTypes`, `OnlyAskedIsShown`
(`ShownIsAsked`), `AnswersSurviveDuplicates` (`AnswerIsKept`), `ClaimsAreOwed`
(`ClaimIsOwed`), `NoResultsMeansNone` (`NoResultsIsFinal`) and `SearchIsSafe`
(`SearchSafe`), from `SearchInvariant`. The strengthening says of mail and workers what the
properties say of answers: they carry a generation the store has had, mail of the
present generation answers the present question, and a claim that is not in the
mailbox is in a worker. `RecordedEffect` states once what the pump's recording of
one source's mail does to its answer; every action has a lemma of its own.

### Seek

`PlaybackProofs` proves, for every file, set of targets and limit
(`SeekAssumption`; `LandingAssumption`: a target has a keyframe at or before it):
`SeekTypes`, `TheNewestTargetWins`, `NothingIsHeldAcrossASeek`, `TheClockIsHeld`,
`TheSpinnerIsOwed` and `SeekIsSafe` (`SeekSafe`), from `SeekInvariant`. `SeekIInv` adds: what the demuxer is
about to push came out of the file (`InHand`); a request and a seek being applied
are for the newest target (`Newest`); before a fresh Load completes nothing is
flushed and no Play put off (`FreshIsBare`); until the landed keyframe nothing
has been accepted, which is why the prime cannot start the clock
(`NothingFed`). The properties need each other: the spinner survives a retry only
because the clock is held, and the retry keeps the newest target only because the
guard has it.

`SeeksLandNearTheTarget` proves `LandsNearTarget`. After a seek in place
the guard itself measures the keyframe; after a reload nothing does, so the
theorem says what it needs of the file: `KeyframesAreDense`, a keyframe at most
`SEEK_STALE_BEHIND` before each target, which is what the comment at
`engine.rs:1921` takes for granted of the guard's bound. (`MCSeek` assumes it of
the run's file, and TLC evaluates it there.) `LandsInv` follows the landing through the reload: until the fresh demuxer takes
the target it has read nothing (`Untaken`); from then on the first video unit in
line, about to be read, in its hand or at the head of the lane, is the keyframe
the newest target lands on (`Taken`, `LandedFirst`), and nothing is held back to
be fed before it (`NothingHeldYet`). That a target has a landing, at or before
it, comes from the least-number principle (`LeastNatural`), taken from the
well-foundedness of `<`: no induction over the file is needed.

### Foreground

`PlaybackProofs` proves, for every length, rewind and bound
(`ForegroundAssumption`): `SessionEngineAndRouteAgree` (`ForegroundSafe`),
`OnlyOneNativeObject` (`OneNativeObject`), `FailureBelongsToTheEngine`
(`FailureIsItsOwn`) and, as an action property, `PlayIntentIsKept`
(`PlayIntentSurvives`), from `AppSwitchInvariant`.

`FgIInv` says that the four places that know of a Load speak of the same one.
There is the engine's Load, or a parked one, or none (`WithEngine`,
`WithParked`, `AtRest`). With an engine (`Running`), the route in `Starting` names
that Load's transaction and attempt, `Stable` is said only of its acceptance, a
queued result of its attempt is its verdict (`Tells`), and the native session has
its epoch and fails only by its refusal or a timeout (`Serves`). Without one
(`Quiet`) no session is active, nothing has failed and no start is in flight.
`Route` keeps the numbers apart: an attempt is published only after it was minted,
so the result of a parked Load can never settle a later start; a settled
transaction is never started again. `Tells` needs the queue and not
the phase alone, because the load thread publishes before the pump drains; and it
remembers the attempt of a failed transaction, because the poll retires the engine
only of the attempt it observed.
The argument has three layers. Lemmas about the reducers of `RouteStart` say that
each leaves a route that says nothing new of a running Load (`Kept`) or, with no
engine, merely sound numbers (`Sane`). `Teardown`, `StartsOwned`, `StartsTracked`,
`ReloadsSound`, `DrivesForeground` and `SettlesLoad` carry this through the engine's
and the lifecycle's operations, for any player that is `Sound`. Each action then
has a lemma of its own.

### Metadata

`MetadataProofs` proves, for every set of items and seasons and every capacity
of the landing (`MetadataAssumption`: the data lane and the reservations have at
least one place; `NoneAssumption`: `None` is not a season result): `PageIsSafe`
(`MetadataSafe`), `ClosedPagesStayClosed` (`NothingReopens`),
`EpisodesAreThePages` (`EpisodesBelongToThePage`) and, as an action property,
`AnswersNeverCostARequest` (`RejectedOnlyWhenWorkersHang`). `IInv` has a detail
half, `Requests`, and a season half, `Tabs`. The detail half says of the landing
what a late answer meets: a queued record is the terminal of a held slot, and a
loaded detail is of this adapter and of the wanted item (`Queue`: otherwise the
pump would discard the answer the spinner waits for); a slot is cancelled unless it is the
newest request's, made after the last close (`Slots`); a worker of this adapter
holds the running slot of its generation, alone (`Workers`). So the data lane is
empty while the newest request runs, and the slots that survive a new request's
cancellations map onto running workers, which is the cardinality argument behind
the action property. `Tabs` says that a season fetch of the newest generation,
still out or in the slot, was asked for on the page that is open; it survives
a new page only because `install_landed_detail` supersedes the strip. `Counted`
bounds the season generations, which an installed page raises without a guard.
The `*Effect` lemmas say what `clear`, a completion and `take_for` do to the lanes
and slots of the instance; the `*Keeps` lemmas show that each preserves `Requests`.

### AuQueue

`AuQueueProofs` proves, for every file, cap and depth (`AuQueueAssumption`):
`LanesAreSafe` (`AuQueueSafe`) and `LanesLoseOnlyTheStale` (`LostOnlyWhenStale`).
`IInv` adds two parts. `Flow`: what a lane holds, unit by unit, is what follows the
units the feeder is done with (accepted or discarded) and the one held back for
a retry, up to the last one pushed. `Sent`: of the units it is done with, the
pipeline has every picture and every sound up to `AUDIO_STALE_AHEAD`, in order. The
high-water of a lane is never beyond what the feeder is done with, so the next
unit is no jump back, and only the guard on sound ahead of the picture discards
anything (`StaleIsAhead`). The end-to-end property needs `Flow`: a refused unit goes back to the
feeder's hand and not to the queue, so the order of the queue alone does not say
that the retry is the next unit. `LanesAreBounded`
needs no history: every append is decided on a length read under the same lock,
the soft cap in `Push` and the ceiling in `Admit`, so a hint that went stale while
the lane was unlocked can admit a unit too early but not one too many.

### StorageWorker

`StorageWorkerProofs` proves, for every channel capacity above zero and every
number of jobs and panics (`StorageWorkerAssumption`): `WorkerIsSafe`
(`StorageWorkerSafe`), `WritesStayInOrder` (`AppliedInOrder`) and
`FailedWritesStayUndone`: a job whose ticket showed a failure was not applied and
never will be. The order is an invariant of the whole line (`InLine`): from what
was applied, over the job in hand and the channel, back to the backlog, jobs of a
kind stand in the order of their submits. A panic's four steps need the rest:
`Unwound` and `Dead` say that a job whose result is dropped is nowhere, or is
still unwinding in the worker's hand; `DeadTicket` that a background job's second
channel closes only once the job has left the executor.

### ViewState

`ViewStateProofs` proves, for every set of items and writes and every bound
(`ViewStateAssumption`): `QueueIsSafe` (`ViewStateSafe`), `ProfilesAreApart`
(`NothingCrossesProfiles`) and, as an action property, `PressesAreKept`
(`NoPressIsLost`). `IInv` says that ids lie between the profile's first and the
next to be given out (`Pressed`, `Numbered`: a press of this profile cannot meet an
id of the last one), that the queue is in press order behind every started write
(`InOrder`), and that it holds one write for each toggle, the one on the screen
(`Shows`: without it a refused spawn could put a write back that a later press
had replaced). The parts take the queue as a parameter, because a press and a
frame build a queue that `kick` then takes writes from. `Retained` states once
what `retain` keeps, by an increasing enumeration of the places kept.

### StorageService

`StorageServiceProofs` proves, for both firmwares, every number of operations and
every number of faults below the ledger's capacity (`StorageServiceAssumption`:
with more foreign writes than places the receipt a client asks about may be gone,
and the code says no more then): `ServiceIsSafe` (`StorageServiceSafe`), the
action properties `UpdatesAreKept` (`NoUpdateIsLost`) and
`CredentialsStayProtected` (`ProtectionIsKept`), and `PromiseIsKept`: the
specification implements `StorageSpec` under the mapping of `KeepsItsPromise`.

A put is *live* while it carries the record's revision; taking one makes every
other dead. `IInv` says of each live put that it was computed from the record as
it stands (`PutsOK`, `Computed`): its keys exist, its ledger is the record's or
that with one receipt, and it does not give up a seal it may not give up.
That is what makes a put that lands after its sender died harmless, and
the three step properties follow from it at the one step, `Lands`, that changes
the record. The rest is there to establish it: the client and the helper agree on
the newest operation (`ClientOK`, `HelperOK`); a waiting helper knows that once
the record has moved from the revision it read, no put is live (`WaitOK`), which
is why a readback that does not find its receipt may answer "conflict"; the key
made for a put is named by nothing else while the put is out (`KeyOK`), which is
why a rejected put's key may be removed; and the ledger holds the newest
operation's receipt, at most as many places from its end as there were foreign
writes (`Logged`), which is where the bound on faults is used. `RepairOK` follows the repair of plain
credentials: its operation was added before the repair's put, and a record that
has moved on since has the repair or ends with another operation. For the
refinement, `Tells` says step by step that an operation is added once, not
after a conflict was answered, that "durable" is only said of what was added
and "conflict" only of what was not added or was followed by another; `Seen`
maps the answers.

### What stays with TLC

- Every liveness property (`SlotsReturn`, `SpinnersStop`, `DrainsOneAtATime`,
  `JoinReturns`, `DemuxFinishes`, `EditsAreSettled`, `EverySaveEnds`,
  `LoadSettles`, `SearchEnds`, `FailureIsRetried`, `SeekSettles`): fairness and
  `ENABLED` are out of the prover's reach.
- The three findings of section 5: a counterexample is TLC's to find.
- That the runs' instances are of interest: an invariant's hypotheses being met, and
  every action firing, is seen in TLC's coverage.

## 5. Findings

Each is a violation run whose property quotes a comment of the code.

1. **Season tab** (`metadata.rs`). `prev` is the tab last *selected*, not the
   season whose episodes are listed; two quick hops and a failure leave tab and
   row disagreeing with no spinner.
2. **View-state writes** (`viewstate.rs`). "One write at a time" does not hold:
   `kick` starts all queued writes, so two writes of one toggle can be at the
   server together. The same cause lets the forgotten worker overwrite the
   mailbox entry the queue waits for, which is why `DrainsOneAtATime` is stated
   only for behaviours in which no two writes are out together.
3. **Foreground retry** (`app/lifecycle.rs`). A refused native Load tears the
   session's seek and position down, but the lifecycle stays `Prepared` and the
   retry does not prepare again: it opens at the beginning of the file.

### Observations

What the models show the code to do and no property denies, each next to a
comment that reads otherwise.

- *Rebase race* (`player/engine.rs:1364`). The Engine of a reload or a resume
  reads `seek_to_ns` to decide whether to rebase and prime, after the demux
  thread that swaps it out has been started. A demuxer that opens first leaves
  both unarmed, although `arm_seek` (`engine.rs:1440`) says
  `rebase_pending=true`. `Install` models it; `LandsNearTarget` is about
  timelines whose keyframe was chosen.
- *Taps while a seek resolves* (`player/pump.rs:1435`). A waiting tap gates the
  feeding, so the resolving seek cannot anchor until the watchdog adopts the
  tap 1.2 s later; `pump.rs:1038` says it is processed "once this seek anchors".
- *Seek near the end* (`player/engine.rs:2136`). With less of the file left than
  the prime asks for, the clock never starts (`TooNearTheEnd`); `engine.rs:1907`
  says "can't hang". In the same corner, a demuxer that ends without having seen
  the target disarms the watchdog if a keyframe of the old position was near
  enough to be taken for the landing. The run keeps its targets away from it.
- *Audio ceiling* (`ff.rs:7837`). The stream is failed while less than 2.5 s of
  video has been read, but a seek starts the clock at 0.7 s (`ff.rs:7799`).
- *Video-only escape* (`player/engine.rs:2131`). With some audio, but less than
  its prime, the clock stays held at any video depth, and the full video lane
  then parks the demuxer in front of the audio (`HeldOnAudio`).
- *Failure fence* (`storage_worker.rs:102`). A retained job's ticket can report
  the failure while the dead worker's queue still accepts.
- *Audio guard* (`player/engine.rs:2481`). A sound more than 5 s ahead of the last
  picture fed is taken for one of before a seek and discarded; `engine.rs:1931`
  says "Legit audio lead is bounded by the throttle to" 3.6 s, "so 5s has margin".
  But the lead that the throttle bounds is over the position presented, and the
  guard comes before the throttle, compares with the last picture fed and goes
  through the whole queue in one call. In a held start of a file whose audio
  runs ahead (the case of `ff.rs:7775`), and under a running clock while pictures
  are late, sound of this session is lost. `LostOnlyWhenStale` says how much is
  not: every picture, and the sound of the first 5 s.
- *Overtaken repair* (`storage_service/backend.rs:680`). When a commit of plain
  credentials is repaired and another write overtakes the repair, the answer is
  a conflict, which `persistence.rs:603` reports as a failure; `auth/owner.rs:553`
  then says "A definite failure restores it: the record never changed". The record
  did take the operation. It is the reason why `StorageSpec` allows the answer of
  an operation that is in the log behind another.
- *Preserved credentials* (`storage_service/backend.rs:772`). A reconcile whose
  unseal fails answers that the credentials are unchanged while a timed-out
  promotion may still land (`backend.rs:740`).
- *Foreground*. The pump drains route results before it reads the load's
  failure, so a refusal published in between is stale by the time it is settled
  and the prepared route is dropped; a Pause pressed while a resume loads for
  playing is undone when its clock starts; a background event while a play
  request resolves drops the request.

## 6. Not modelled, and the plan

Layout, drawing, text, sockets, parsers, diagnostics and the C shim are I/O or
presentation, and they are most of the code's lines; transports appear as answers
that may be late or fail. Person, collection, catalog and browse repeat the
mailbox of `Search` and the landing of `Metadata`. What is left, in this order:

1. The HLS clock: holds, the candidate seqlock, the rebuffer's debt, and the
   seeks of a transcode.
2. The route-control phases of user edits and the Original trial, in `RouteStart`.
3. The session store on top of `StorageWorker` and `StorageService`: sign-in, pins
   and plaintext grants.
4. The poster scheduler: the worker pool and the slots' LRU.
