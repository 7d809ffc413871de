------------------------------- MODULE Search -------------------------------
(***************************************************************************)
(* The search store (search.rs) over its single-flight mailboxes           *)
(* (stores/mod.rs, Fetch): one query, asked of every live source by a      *)
(* worker thread of its own, with a debounce, a retry after a failure, and *)
(* a generation that every change of the query, of the roster or of the    *)
(* favourite libraries moves on.                                           *)
(*                                                                         *)
(* The main thread's calls are atomic here.  A worker posts between two of *)
(* them: within a pump a post to one source commutes with the steps of the *)
(* others, and state_from reads no mailbox.                                *)
(*                                                                         *)
(* Left out: whitespace-only edits of the field (they only repaint),       *)
(* set_watched_local, recents, and the order and folding of merge.         *)
(***************************************************************************)
EXTENDS Integers, FiniteSets

CONSTANTS
    Sources,       \* registry slots
    Terms,         \* trimmed queries of at least MIN_QUERY characters
    Blank,         \* a query too short to ask
    RetryFrames,   \* RETRY_FRAMES
    SettleFrames,  \* the debounce, in frames
    MaxThreads,    \* the thread ceiling of spawn_small
    MaxGen,        \* bound: generations a command may start
    MaxRoster,     \* bound: roster changes
    MaxSections    \* bound: changes of the favourite libraries

ASSUME SearchAssumption ==
    /\ Blank \notin Terms
    /\ RetryFrames \in Nat \ {0}
    /\ SettleFrames \in Nat \ {0}
    /\ MaxThreads \in Nat \ {0}
    /\ MaxGen \in Nat /\ MaxRoster \in Nat /\ MaxSections \in Nat

VARIABLES
    query,      \* trimmed
    gen,        \* the content epoch
    visible,    \* registry generation last observed
    favs,       \* the favourite table the results are ranked by, as its generation
    settle,     \* frames the query has held still
    armed,      \* is the debounce still holding the fetch back?
    src,        \* per source: status, retry countdown, answer
    shelves,    \* the published answers that have items
    state,      \* what the screen says
    fetch,      \* per source: the claim and the mailbox
    workers,    \* the fetches that are out
    roster,     \* the registry's generation
    live,       \* the registry's live slots
    sections,   \* generation of the Browse directory's favourites
    told        \* history: the sources that answered this generation

vars == << query, gen, visible, favs, settle, armed, src, shelves, state, fetch,
           workers, roster, live, sections, told >>

store == << query, visible, favs, settle, armed, src, shelves, state >>

\* What was asked, with the credential of which roster, and whether the answer has items.
NoAnswer == [terms |-> Blank, roster |-> 0, items |-> FALSE]

EMPTY == [status |-> "Pending", cd |-> 0, answer |-> NoAnswer]

NoMail == [gen |-> 0, ok |-> FALSE, answer |-> NoAnswer]

IDLE == [busy |-> FALSE, mail |-> NoMail]

Init ==
    /\ query = Blank /\ gen = 0 /\ visible = 0 /\ favs = 0
    /\ settle = 0 /\ armed = FALSE
    /\ src = [i \in Sources |-> EMPTY]
    /\ shelves = {} /\ state = "Idle"
    /\ fetch = [i \in Sources |-> IDLE]
    /\ workers = {}
    /\ roster = 1 /\ live \in SUBSET Sources /\ sections = 0
    /\ told = {}

-----------------------------------------------------------------------------
(* The pieces of a step. *)

\* (mutant) a supersede empties the mailbox and forgets to release the claim
ClearedMail(f) == [f EXCEPT !.mail = NoMail]

\* Drop the mailbox and the claim with it; the worker runs on.
Cleared(f) == IDLE

\* (mutant) the newer fetch wins and nothing else is compared
BeatsByGeneration(old, m) == old.gen < m.gen

\* A newer generation wins; at the same one an answer beats a failure.
Beats(old, m) ==
    \/ old.gen < m.gen
    \/ old.gen = m.gen /\ ~old.ok /\ m.ok

\* (mutant) any mail is taken for an answer to the query on the screen
FreshOrNot(m, g) == m # NoMail

Fresh(m, g) == m # NoMail /\ m.gen = g

Cooled(cd) == IF cd > 0 THEN cd - 1 ELSE cd

\* A late failure cannot unsay an answer.
record(s, m) ==
    CASE m.ok -> [s EXCEPT !.status = "Answered", !.answer = m.answer]
      [] ~m.ok /\ s.status # "Answered" -> [s EXCEPT !.status = "Failed", !.cd = RetryFrames]
      [] OTHER -> s

Recorded(s, m, g) ==
    LET c == [s EXCEPT !.cd = Cooled(@)]
    IN  IF Fresh(m, g) THEN record(c, m) ELSE c

\* (mutant) stale or not, the claim stays with the worker that is out
TakenKeepsTheClaim(f) == IF f.mail = NoMail THEN f ELSE [f EXCEPT !.mail = NoMail]

\* Taking mail releases the claim, whatever the mail is; an empty mailbox releases nothing.
Taken(f) == IF f.mail = NoMail THEN f ELSE IDLE

\* The sources a settled query is still owed to.
maybe_spawn(s, f, waiting) ==
    /\ ~waiting /\ query # Blank
    /\ ~f.busy
    /\ s.cd = 0 /\ s.status # "Answered"

\* (mutant) a refused thread keeps its claim
ClaimedAnyway(f, wants, started, i) == IF i \in wants THEN [f EXCEPT !.busy = TRUE] ELSE f

\* The claim of a spawn that was refused is released again.
Claimed(f, wants, started, i) == IF i \in started THEN [f EXCEPT !.busy = TRUE] ELSE f

HasItems(s) == s.status = "Answered" /\ s.answer.items

\* The answers that have items, ranked by the favourites f.
merge(ss, ids, f) ==
    { [terms |-> ss[i].answer.terms, roster |-> ss[i].answer.roster, favs |-> f] :
        i \in { j \in ids : HasItems(ss[j]) } }

\* Ready once there is nothing to wait for, or something to show meanwhile.
state_from(ss, ids) ==
    CASE query = Blank -> "Idle"
      [] query # Blank /\ \E i \in ids : ss[i].status = "Pending" ->
           IF \E i \in ids : HasItems(ss[i]) THEN "Ready" ELSE "Searching"
      [] OTHER -> IF \E i \in ids : ss[i].status = "Answered" THEN "Ready" ELSE "Failed"

\* Everything in flight is about something else from now on.
supersede(f) ==
    /\ favs' = f
    /\ gen' = gen + 1
    /\ src' = [i \in Sources |-> EMPTY]
    /\ fetch' = [i \in Sources |-> Cleared(fetch[i])]
    /\ told' = {}

-----------------------------------------------------------------------------
set_query(t) ==
    /\ gen < MaxGen
    /\ t # query \/ t = Blank
    /\ query' = t
    /\ supersede(sections)
    /\ shelves' = {}
    /\ state' = IF t = Blank THEN "Idle" ELSE "Searching"
    /\ settle' = 0
    /\ armed' = (t # Blank)
    /\ UNCHANGED << visible, workers, roster, live, sections >>

\* Sign-out or profile switch.  The adapter is replaced: its workers post to a mailbox that
\* nothing reads.
reset ==
    /\ gen < MaxGen
    /\ supersede(0)
    /\ visible' = roster
    /\ query' = Blank
    /\ shelves' = {} /\ state' = "Idle"
    /\ settle' = 0 /\ armed' = FALSE
    /\ workers' = {}
    /\ UNCHANGED << roster, live, sections >>

Worker(i, g, c) ==
    [at |-> i, gen |-> g, terms |-> query, roster |-> roster, copy |-> c]

\* Two workers can be out for one source at one generation: a stale landing frees a claim.
NewWorker(i, g) ==
    Worker(i, g, CHOOSE c \in 1 .. MaxThreads : Worker(i, g, c) \notin workers)

\* One frame.  A changed roster, then a changed favourite table, supersedes; the debounce
\* advances; each live source cools down, takes its mail and is asked again if it is owed to.
pump ==
    LET moved == visible # roster
        refav == (IF moved THEN 0 ELSE favs) # sections /\ query # Blank
        again == moved \/ refav
        g == gen + (IF moved THEN 1 ELSE 0) + (IF refav THEN 1 ELSE 0)
        held == (IF refav THEN 0 ELSE settle) + 1
        waiting == (armed \/ refav) /\ held < SettleFrames
        src0 == IF again THEN [i \in Sources |-> EMPTY] ELSE src
        fetch0 == IF again THEN [i \in Sources |-> Cleared(fetch[i])] ELSE fetch
        src1 == [i \in Sources |-> IF i \in live THEN Recorded(src0[i], fetch0[i].mail, g) ELSE src0[i]]
        fetch1 == [i \in Sources |-> IF i \in live THEN Taken(fetch0[i]) ELSE fetch0[i]]
        wants == { i \in live : maybe_spawn(src1[i], fetch1[i], waiting) }
        landed == \E i \in live : Fresh(fetch0[i].mail, g)
    IN  /\ visible' = roster /\ favs' = sections /\ gen' = g
        /\ settle' = IF armed \/ refav THEN held ELSE settle
        /\ armed' = waiting
        /\ src' = src1
        /\ \E started \in SUBSET wants :
             /\ Cardinality(workers) + Cardinality(started) <= MaxThreads
             /\ started # wants => Cardinality(workers) + Cardinality(started) = MaxThreads
             /\ fetch' = [i \in Sources |-> Claimed(fetch1[i], wants, started, i)]
             /\ workers' = workers \cup { NewWorker(i, g) : i \in started }
        /\ shelves' = IF landed THEN merge(src1, live, sections) ELSE IF again THEN {} ELSE shelves
        /\ state' = state_from(src1, live)
        /\ told' = IF again THEN {} ELSE told
        /\ UNCHANGED << query, roster, live, sections >>

\* A worker asks with the credential of the moment it runs, and posts what it came back with.
land(w) ==
    \E ok \in BOOLEAN, items \in BOOLEAN, r \in w.roster .. roster :
      LET a == [terms |-> w.terms, roster |-> r, items |-> items]
          m == [gen |-> w.gen, ok |-> ok, answer |-> IF ok THEN a ELSE NoAnswer]
          old == fetch[w.at].mail
      IN  /\ fetch' = [fetch EXCEPT ![w.at].mail = IF old = NoMail \/ Beats(old, m) THEN m ELSE old]
          /\ workers' = workers \ {w}
          /\ told' = IF ok /\ w.gen = gen THEN told \cup {w.at} ELSE told
          /\ UNCHANGED << store, gen, roster, live, sections >>

\* The registry: a sign-out, a profile switch, a server found or lost.
RosterChanges ==
    /\ roster < MaxRoster
    /\ roster' = roster + 1
    /\ live' \in SUBSET Sources
    /\ UNCHANGED << store, gen, fetch, workers, sections, told >>

\* The Browse directory: a library discovered, a favourite edited.
SectionsChange ==
    /\ sections < MaxSections
    /\ sections' = sections + 1
    /\ UNCHANGED << store, gen, fetch, workers, roster, live, told >>

Next ==
    \/ \E t \in Terms \cup {Blank} : set_query(t)
    \/ reset \/ pump
    \/ \E w \in workers : land(w)
    \/ RosterChanges \/ SectionsChange

Spec == Init /\ [][Next]_vars

\* The frame loop turns, and every fetch ends: its transfer has a time-out.
FairSpec ==
    /\ Spec
    /\ WF_vars(pump)
    /\ \A i \in Sources : WF_vars(\E w \in workers : w.at = i /\ land(w))

-----------------------------------------------------------------------------
(* Properties *)

Answers == [terms : Terms \cup {Blank}, roster : Nat, items : BOOLEAN]

Mails == [gen : Nat, ok : BOOLEAN, answer : Answers]

Source == [status : {"Pending", "Answered", "Failed"}, cd : 0 .. RetryFrames, answer : Answers]

Claim == [busy : BOOLEAN, mail : Mails]

\* The shape of the state.
TypeOK ==
    /\ query \in Terms \cup {Blank} /\ gen \in Nat
    /\ visible \in Nat /\ favs \in Nat /\ settle \in Nat /\ armed \in BOOLEAN
    /\ src \in [Sources -> Source]
    /\ shelves \subseteq [terms : Terms \cup {Blank}, roster : Nat, favs : Nat]
    /\ state \in {"Idle", "Searching", "Ready", "Failed"}
    /\ fetch \in [Sources -> Claim]
    /\ \A w \in workers :
         w.at \in Sources /\ w.gen \in Nat /\ w.terms \in Terms /\ w.roster \in Nat
    /\ roster \in Nat /\ sections \in Nat /\ live \subseteq Sources /\ told \subseteq Sources

\* What is on the shelves was asked about the query in the field, with a credential of the
\* roster this store has seen, and ranked by the favourites it holds, whatever superseded
\* workers bring in and whenever (the generation fence of pump, supersede).
ShownIsAsked ==
    \A a \in shelves : a.terms = query /\ a.roster = visible /\ a.favs = favs

\* An answer to the query on the screen is never lost to a duplicate fetch of the same source
\* that failed, before or after it (land, record: "a late failure cannot unsay an answer").
AnswerIsKept ==
    \A i \in told :
        \/ src[i].status = "Answered"
        \/ fetch[i].mail.gen = gen /\ fetch[i].mail.ok

\* A held claim has mail or a worker that will bring it: no source is shut out for ever
\* (Fetch::clear, Fetch::take, maybe_spawn's release).
ClaimIsOwed ==
    \A i \in Sources :
        fetch[i].busy => fetch[i].mail # NoMail \/ \E w \in workers : w.at = i

\* "No results" is not said while a source of the known roster is still out (state_from).
NoResultsIsFinal ==
    (state = "Ready" /\ shelves = {} /\ visible = roster) =>
        \A i \in live : src[i].status # "Pending"

\* The store at every moment: no source shut out by its claim, no verdict before the last
\* source (search.rs, maybe_spawn, state_from).
SearchSafe ==
    /\ TypeOK
    /\ ClaimIsOwed
    /\ NoResultsIsFinal

\* The spinner ends, although threads are refused, fetches fail and stale answers free the
\* claims of newer ones.
SearchEnds == []<>(state # "Searching")

\* A source that failed is asked again, for as long as the query stands: neither the claim
\* nor the backoff latches (maybe_spawn: "the failure path is self-healing").
Asked(i) ==
    \/ i \notin live \/ query = Blank \/ src[i].status = "Answered"
    \/ \E w \in workers : w.at = i /\ w.gen = gen

FailureIsRetried == \A i \in Sources : []<>Asked(i)
=============================================================================
