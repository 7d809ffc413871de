------------------------------ MODULE Metadata ------------------------------
(***************************************************************************)
(* The detail page's item and its seasons: rust-modules/src/metadata.rs,   *)
(* metadata/record.rs and stores/metadata.rs.                              *)
(*                                                                         *)
(* The main thread requests a detail, hops between season tabs, closes the *)
(* page or switches profile; each fetch runs on a worker of its own and    *)
(* answers, in any order, into the MetadataAdapter it captured: a detail   *)
(* into the landing of module LandingOps, a season into a one-place slot.  *)
(* Two pumps install what has landed.                                      *)
(*                                                                         *)
(* A command is one atomic action.  While it runs, a worker can only put a *)
(* terminal into the landing or a season into the slot, and either has the *)
(* same effect just before or just after the command: the command locks    *)
(* each of them once to clear it, and admission counts a cancelled request *)
(* whether or not its worker has answered.                                 *)
(*                                                                         *)
(* Abstractions.  An item is the pair (sid, rk).  A loaded Detail is its   *)
(* item, the tab and the season its episodes are of, tagged with the       *)
(* request that fetched it; likewise episodes are tagged with the load of  *)
(* the page they were asked for.  Generations are u32 in the code and do   *)
(* not wrap here.  `now`, `playing` and the alt-source list are left out.  *)
(***************************************************************************)
EXTENDS Naturals, FiniteSets

CONSTANTS
    Items,          \* the (server, ratingKey) pairs
    Seasons,        \* season indices of a show
    None,           \* an Option's None
    DetailCap,      \* Landing::with_inflight(2, 4): data lane
    DetailInflight, \* Landing::with_inflight(2, 4): reservations
    Spawns,         \* the answers of task::spawn_small that are considered
    MaxGen,         \* bound on detail generations
    MaxSeasonGen,   \* bound on season generations the commands start; each
                    \* installed page adds one
    MaxEpoch        \* bound on profile switches

ASSUME MetadataAssumption ==
    /\ DetailCap \in Nat \ {0}
    /\ DetailInflight \in Nat \ {0}
    /\ Spawns \subseteq BOOLEAN
    /\ MaxGen \in Nat
    /\ MaxSeasonGen \in Nat
    /\ MaxEpoch \in Nat
    /\ None \notin Items

VARIABLES
    current,    \* MetadataState::current
    adapter,    \* the MetadataAdapter the store holds
    epoch,      \* how often the store has rotated its adapter
    details,    \* running detail workers
    seasons,    \* running season workers
    closed      \* history: the detail generation of the last Clear

vars == <<current, adapter, epoch, details, seasons, closed>>

Gens == 0 .. MaxGen
SeasonGens == 0 .. (MaxSeasonGen + MaxGen)
Epochs == 0 .. MaxEpoch

\* The worker's answer rides with the landing's key: ok is Some(detail), and
\* from says on which adapter the worker was started.
DetailKey == [item : Items, ok : BOOLEAN, from : Epochs]

L == INSTANCE LandingOps WITH
        Machines <- {"metadata"}, Reqs <- Gens, Keys <- DetailKey, NoKey <- None,
        Cap <- DetailCap, InflightCap <- DetailInflight, TotalCap <- DetailInflight

\* One load of a page: the adapter it was made on and its generation there.
Load == Epochs \X Gens

Episodes == [season : Seasons, of : Load]

Detail == [item : Items, load : Load, cur_season : Seasons, episodes : Episodes]

SeasonResult == [gen : SeasonGens, item : Items, idx : Seasons, prev : Seasons,
                 of : Load, ok : BOOLEAN]

\* An Option's None is no result of a fetch.
ASSUME NoneAssumption == None \notin SeasonResult

Adapter == [detail_gen : Gens, detail_done : Gens, landing : L!Inner,
            want : Items \cup {None},
            season_gen : SeasonGens, season_done : SeasonGens,
            season_result : SeasonResult \cup {None}]

NewAdapter == [detail_gen |-> 0, detail_done |-> 0, landing |-> L!New,
               want |-> None, season_gen |-> 0, season_done |-> 0,
               season_result |-> None]

DetailWorker == [epoch : Epochs, gen : Gens, item : Items]

SeasonWorker == [epoch : Epochs, gen : SeasonGens, item : Items, idx : Seasons,
                 prev : Seasons, of : Load]

TypeOK ==
    /\ current \in Detail \cup {None}
    /\ adapter \in Adapter
    /\ epoch \in Epochs
    /\ details \subseteq DetailWorker
    /\ seasons \subseteq SeasonWorker
    /\ closed \in Gens

Init ==
    /\ current = None
    /\ adapter = NewAdapter
    /\ epoch = 0
    /\ details = {}
    /\ seasons = {}
    /\ closed = 0

detail_addr(gen) == [to |-> "metadata", req |-> gen]

detail_loading(ad) == ad.detail_gen # 0 /\ ad.detail_gen # ad.detail_done

season_loading(ad) == ad.season_gen # 0 /\ ad.season_gen # ad.season_done

-----------------------------------------------------------------------------
(* Generations.                                                            *)

supersede_season(ad) ==
    [ad EXCEPT !.season_gen = @ + 1,
               !.season_done = ad.season_gen + 1,
               !.season_result = None]

supersede_detail(ad) ==
    [ad EXCEPT !.detail_gen = @ + 1,
               !.detail_done = ad.detail_gen + 1,
               !.landing = L!Clear(@),
               !.want = None]

\* Mutant: the requests before this one are not cancelled.
NewGenerationKeepsLanding(ad, item) ==
    [supersede_season(ad) EXCEPT !.detail_gen = @ + 1, !.want = item]

\* begin_detail_request up to the admission.
NewGeneration(ad, item) ==
    [supersede_season(ad) EXCEPT !.detail_gen = @ + 1,
                                 !.landing = L!Clear(@),
                                 !.want = item]

-----------------------------------------------------------------------------
(* The commands of the main thread.                                        *)

\* request_detail_with_spawn: a rejected admission settles the spinner at
\* once, a refused spawn through the landing.
RequestDetail(item, spawned) ==
    LET ad == NewGeneration(adapter, item)
        gen == ad.detail_gen
        addr == detail_addr(gen)
        admitted == L!CanAdmit(ad.landing, addr)
        held == L!AdmitMode(ad.landing, addr, FALSE)
    IN  /\ adapter.detail_gen < MaxGen
        /\ adapter.season_gen < MaxSeasonGen
        /\ adapter' =
              IF ~admitted THEN [ad EXCEPT !.detail_done = gen]
              ELSE IF spawned THEN [ad EXCEPT !.landing = held]
              ELSE [ad EXCEPT !.landing = L!Refused(held, addr)]
        /\ details' = IF admitted /\ spawned
                      THEN details \cup {[epoch |-> epoch, gen |-> gen, item |-> item]}
                      ELSE details
        /\ UNCHANGED <<current, epoch, seasons, closed>>

\* clear: the page closes.
Clear ==
    /\ adapter.detail_gen < MaxGen
    /\ adapter' = supersede_detail(adapter)
    /\ current' = None
    /\ closed' = adapter'.detail_gen
    /\ UNCHANGED <<epoch, details, seasons>>

\* MetadataStore::run rotates the adapter, then reset drops the state.  The
\* workers keep the adapter they captured.
Reset ==
    /\ epoch < MaxEpoch
    /\ MaxGen > 0
    /\ epoch' = epoch + 1
    /\ adapter' = supersede_detail(NewAdapter)
    /\ current' = None
    /\ closed' = adapter'.detail_gen
    /\ UNCHANGED <<details, seasons>>

\* load_season, asked for by the season strip for a tab that is not selected.
LoadSeason(idx, spawned) ==
    LET gen == adapter.season_gen + 1
    IN  /\ adapter.season_gen < MaxSeasonGen
        /\ current # None
        /\ current.cur_season # idx
        /\ current' = [current EXCEPT !.cur_season = idx]
        /\ adapter' = IF spawned THEN [adapter EXCEPT !.season_gen = gen]
                      ELSE [adapter EXCEPT !.season_gen = gen, !.season_done = gen]
        /\ seasons' = IF spawned
                      THEN seasons \cup
                             {[epoch |-> epoch, gen |-> gen, item |-> current.item,
                               idx |-> idx, prev |-> current.cur_season,
                               of |-> current.load]}
                      ELSE seasons
        /\ UNCHANGED <<epoch, details, closed>>

\* load_season_now blocks the main thread for its fetch; a failed one lists an
\* empty season.
LoadSeasonNow(idx) ==
    /\ adapter.season_gen < MaxSeasonGen
    /\ current # None
    /\ adapter' = supersede_season(adapter)
    /\ current' = [current EXCEPT !.cur_season = idx,
                                  !.episodes = [season |-> idx, of |-> current.load]]
    /\ UNCHANGED <<epoch, details, seasons, closed>>

-----------------------------------------------------------------------------
(* The workers.  One whose adapter was rotated away answers into an adapter *)
(* nobody pumps.                                                            *)

\* Mutant: the worker answers into the adapter the store holds now.
AnsweredByAnyone(w) == TRUE

Answered(w) == w.epoch = epoch

\* finish_detail_fetch, land_detail and record::put.
DetailWorkerLands(w, ok) ==
    /\ details' = details \ {w}
    /\ adapter' =
          IF Answered(w)
          THEN [adapter EXCEPT !.landing =
                    L!Put(@, detail_addr(w.gen),
                          [item |-> w.item, ok |-> ok, from |-> w.epoch])]
          ELSE adapter
    /\ UNCHANGED <<current, epoch, seasons, closed>>

\* Mutant: the slot takes whatever arrives last.
land_season_overwrites(ad, r) == [ad EXCEPT !.season_result = r]

\* The slot is monotone: an older fetch never replaces a newer one.
land_season(ad, r) ==
    IF ad.season_result = None \/ ad.season_result.gen < r.gen
    THEN [ad EXCEPT !.season_result = r]
    ELSE ad

SeasonWorkerLands(w, ok) ==
    LET r == [gen |-> w.gen, item |-> w.item, idx |-> w.idx, prev |-> w.prev,
              of |-> w.of, ok |-> ok]
    IN  /\ seasons' = seasons \ {w}
        /\ adapter' = IF Answered(w) THEN land_season(adapter, r) ELSE adapter
        /\ UNCHANGED <<current, epoch, details, closed>>

-----------------------------------------------------------------------------
(* The pumps, once a frame.                                                *)

\* The keys pump_detail asks the landing for.
Wanted(ad) == {k \in DetailKey : ad.want = None \/ k.item = ad.want}

\* Mutant: the installed page keeps the season fetches of the page before it.
install_landed_detail_only(ad) == ad

\* install_landed_detail supersedes the season fetches of the page it replaces.
install_landed_detail(ad) == supersede_season(ad)

\* Mutant: only a loaded detail settles the spinner.
settle_if_loaded(ad, recs) ==
    IF \E r \in recs : r.lane = "Data" /\ r.key.ok
    THEN [ad EXCEPT !.detail_done = ad.detail_gen] ELSE ad

\* The newest request's terminal settles the spinner, whatever its lane.
settle(ad, recs) ==
    IF recs # {} THEN [ad EXCEPT !.detail_done = ad.detail_gen] ELSE ad

\* pump_detail_with_gate.  A reservation has one terminal, so at most one of
\* the drained records is the newest request's.
PumpDetail(season) ==
    LET drained == L!Deliverable(adapter.landing, {"metadata"}, Wanted(adapter))
        mine == {r \in drained : r.addr.req = adapter.detail_gen}
        ad == settle([adapter EXCEPT
                         !.landing = L!TakeFor(@, {"metadata"}, Wanted(adapter))],
                     mine)
        fresh == {r \in mine : r.lane = "Data" /\ r.key.ok}
    IN  /\ L!Queued(adapter.landing) # {}
        /\ IF fresh = {}
           THEN /\ adapter' = ad
                /\ UNCHANGED current
           ELSE /\ adapter' = install_landed_detail(ad)
                /\ \E r \in fresh :
                      LET load == <<r.key.from, r.addr.req>>
                      IN  current' = [item |-> r.key.item, load |-> load,
                                      cur_season |-> season,
                                      episodes |-> [season |-> season, of |-> load]]
        /\ UNCHANGED <<epoch, details, seasons, closed>>

same_item(page, r) == page.item = r.item

\* pump_season_with_gate: settle the spinner first, then patch the page if the
\* result is its own; a failure puts the tab back where it was.
PumpSeason ==
    LET r == adapter.season_result
        taken == [adapter EXCEPT !.season_result = None]
        mine == r.gen = adapter.season_gen
        patched == IF r.ok
                   THEN [current EXCEPT !.cur_season = r.idx,
                                        !.episodes = [season |-> r.idx, of |-> r.of]]
                   ELSE [current EXCEPT !.cur_season = r.prev]
    IN  /\ r # None
        /\ adapter' = IF mine THEN [taken EXCEPT !.season_done = r.gen] ELSE taken
        /\ current' = IF mine /\ current # None /\ same_item(current, r)
                      THEN patched ELSE current
        /\ UNCHANGED <<epoch, details, seasons, closed>>

-----------------------------------------------------------------------------
Commands ==
    \/ \E item \in Items, spawned \in Spawns : RequestDetail(item, spawned)
    \/ Clear
    \/ Reset
    \/ \E idx \in Seasons, spawned \in Spawns : LoadSeason(idx, spawned)
    \/ \E idx \in Seasons : LoadSeasonNow(idx)

Next ==
    \/ Commands
    \/ \E w \in details, ok \in BOOLEAN : DetailWorkerLands(w, ok)
    \/ \E w \in seasons, ok \in BOOLEAN : SeasonWorkerLands(w, ok)
    \/ \E season \in Seasons : PumpDetail(season)
    \/ PumpSeason

Spec == Init /\ [][Next]_vars

\* The frame loop pumps every frame whatever screen is mounted, and a fetch
\* ends: every request below it has a timeout and a panic is caught.
FairSpec ==
    /\ Spec
    /\ WF_vars(\E season \in Seasons : PumpDetail(season))
    /\ WF_vars(PumpSeason)
    /\ \A e \in Epochs, g \in Gens :
          WF_vars(\E w \in details, ok \in BOOLEAN :
                     w.epoch = e /\ w.gen = g /\ DetailWorkerLands(w, ok))
    /\ \A e \in Epochs, g \in SeasonGens :
          WF_vars(\E w \in seasons, ok \in BOOLEAN :
                     w.epoch = e /\ w.gen = g /\ SeasonWorkerLands(w, ok))

-----------------------------------------------------------------------------
(* Properties.                                                             *)

\* A page on screen was asked for after the last close and on the profile that
\* is signed in: a load that answers late never reopens a closed page, and a
\* worker of the previous profile never fills the next one's.
NothingReopens ==
    current # None => /\ current.load[1] = epoch
                      /\ current.load[2] > closed

\* The detail spinner is never orphaned: while it turns, the newest request
\* holds an uncancelled reservation and its worker runs or its answer is queued.
DetailSpinnerIsOwed ==
    LET a == detail_addr(adapter.detail_gen)
        slot == adapter.landing.inflight[a]
    IN  detail_loading(adapter) =>
          /\ ~slot.cancelled
          /\ \/ /\ slot.st = "running"
                /\ \E w \in details : w.epoch = epoch /\ w.gen = adapter.detail_gen
             \/ /\ slot.st = "terminal"
                /\ \E r \in L!Queued(adapter.landing) : r.addr = a

\* The episode row's spinner, which also gates the episode presses, is never
\* orphaned either: the newest season fetch runs or its answer is in the slot.
SeasonSpinnerIsOwed ==
    season_loading(adapter) =>
        \/ \E w \in seasons : w.epoch = epoch /\ w.gen = adapter.season_gen
        \/ /\ adapter.season_result # None
           /\ adapter.season_result.gen = adapter.season_gen

\* The episodes listed were asked for on this very load of the page: not on
\* another show, and not on an earlier load of the same show.
EpisodesBelongToThePage ==
    current # None => current.episodes.of = current.load

\* Only the newest request can still answer, so the two-place data lane never
\* turns a loaded detail into a Dropped.
DataLaneNeverFills ==
    \A g \in Gens :
        LET slot == adapter.landing.inflight[detail_addr(g)]
        IN  (slot.st = "running" /\ ~slot.cancelled) =>
               /\ g = adapter.detail_gen
               /\ ~L!DataFull(adapter.landing)

\* Whatever pages, tabs, refusals and profiles came before: neither spinner is
\* orphaned and no loaded detail meets a full lane (metadata.rs, open,
\* load_season, the two pumps).
MetadataSafe ==
    /\ TypeOK
    /\ DetailSpinnerIsOwed
    /\ SeasonSpinnerIsOwed
    /\ DataLaneNeverFills

\* A request is turned away only while every slot is held by a worker that is
\* still running: answers nobody pumped yet never cost a page its request.
RejectedOnlyWhenWorkersHang ==
    [][(/\ adapter'.detail_gen = adapter.detail_gen + 1
        /\ adapter'.want # None
        /\ adapter'.detail_done = adapter'.detail_gen)
       => Cardinality({w \in details : w.epoch = epoch}) >= DetailInflight]_vars

\* Each spinner stops once the user stops asking for more: MaxGen and
\* MaxSeasonGen bound the requests, so that from some point on no newer one
\* takes a spinner over, and no answer, refusal, close or profile switch
\* before that point leaves it turning (pump_detail, pump_season_with_gate).
DetailSettles == []<>~detail_loading(adapter)

\* The same for the season strip.
SeasonSettles == []<>~season_loading(adapter)

\* Both spinners stop.
SpinnersStop == DetailSettles /\ SeasonSettles

\* After a season fetch failed, the selected tab is the season whose episodes
\* are listed, as the comments of load_season and pump_season say.
FailedSeasonRestoresTheTab ==
    [][(/\ adapter.season_result # None
        /\ ~adapter.season_result.ok
        /\ adapter'.season_result = None
        /\ season_loading(adapter) /\ ~season_loading(adapter')
        /\ adapter'.season_gen = adapter.season_gen
        /\ current # None
        /\ same_item(current, adapter.season_result))
       => current'.cur_season = current'.episodes.season]_vars
=============================================================================
