--------------------------- MODULE StorageService ---------------------------
(***************************************************************************)
(* The durable account record: the application's client                    *)
(* (storage/client.rs, server/session/persistence.rs), the storage helper  *)
(* process (storage_service/backend.rs), the record's state machine        *)
(* (storage/state.rs), and the two platform services behind them, the DB8  *)
(* database and the key manager.                                           *)
(*                                                                         *)
(* One client saves one operation at a time: it loads the record, chooses  *)
(* a mutation, sends it with the revision it saw, and on a transport       *)
(* failure asks the helper what became of the operation.  The helper       *)
(* serves one request at a time.  Each call it makes to DB8 may time out:  *)
(* the put may then be lost, may have been applied with its reply lost, or *)
(* may still be on its way and land after the helper has gone on.  The     *)
(* helper or the application can die between any two calls; the helper's   *)
(* list of keys to remove dies with it.                                    *)
(*                                                                         *)
(* Abstractions.  A record keeps what decides a step: its DB8 revision,    *)
(* tenure epoch, credential generation, how the credentials are protected  *)
(* ("km" sealed under a key named after the generation, "acl" plain),      *)
(* status, session migration, staged refresh and operation ledger.         *)
(* Revision 0 stands for the absent record.  Digests match their           *)
(* operations; sizes and encodings fit.  The wire mutations the            *)
(* application never sends (consent, pending and empty migrations) and the *)
(* language reset of a cleared record are left out.                        *)
(***************************************************************************)
EXTENDS Integers, Sequences, SequencesExt, FiniteSets, Retain

CONSTANTS
    LEDGER_CAPACITY, \* bound of the ledger and of pending_cleanup
    OLD_FIRMWARE,    \* webOS 1 to 4: no key manager
    MaxOps,          \* bound on the client's operations
    MaxFaults        \* bound on deaths, requests sent again and writes by others

ASSUME StorageServiceAssumption ==
    /\ OLD_FIRMWARE \in BOOLEAN
    /\ MaxOps \in Nat
    /\ MaxFaults \in Nat
    /\ LEDGER_CAPACITY \in Nat
    /\ LEDGER_CAPACITY > MaxFaults

VARIABLES
    db,        \* DB8: the canonical record
    inflight,  \* DB8: puts sent and not yet processed
    keys,      \* key manager: generations that have a key
    gens,      \* generations drawn so far
    h,         \* the helper: its request and the call it waits for
    cleanup,   \* the helper's pending_cleanup
    c,         \* the client: its request
    ops,       \* operations submitted so far
    fresh,     \* operations of a fresh sign-in or an import
    answer,    \* [operation -> what its caller was told]
    foreign,   \* writes of others so far
    faults,    \* those, deaths and requests sent again so far
    log        \* history: operations in the order the record took them

vars == <<db, inflight, keys, gens, h, cleanup, c, ops, fresh, answer, foreign,
          faults, log>>

Fault ==
    /\ faults < MaxFaults
    /\ faults' = faults + 1

Ops == 1 .. MaxOps
Operations == 1 .. (MaxOps + MaxFaults)  \* those above MaxOps are of others

NoPending == [op |-> 0, gen |-> 0]

\* CanonicalState::new, at the revision that stands for no record.
NewRecord ==
    [rev |-> 0, epoch |-> 0, gen |-> 0, env |-> "none", status |-> "active",
     session |-> FALSE, pending |-> NoPending, ledger |-> <<>>]

NoMutation == [kind |-> "none", protection |-> "none"]
NoPut == [rev |-> 0, val |-> NewRecord, op |-> 0]
HIdle == [pc |-> "idle", op |-> 0, mut |-> NoMutation, base |-> NewRecord,
          key |-> 0, put |-> NoPut, ack |-> "none"]
CIdle == [pc |-> "idle", op |-> 0, mut |-> NoMutation, rev |-> 0]

Gens == Nat
Revs == Nat
Entries == [op : Operations, gen : Gens, auth : BOOLEAN]
Records ==
    [rev : Revs, epoch : Nat, gen : Gens, env : {"none", "km", "acl"},
     status : {"active", "cleared"}, session : BOOLEAN,
     pending : [op : 0 .. MaxOps, gen : Gens],
     ledger : Seq(Entries)]
Mutations == [kind : {"none", "prefs", "auth", "import", "clear"},
              protection : {"none", "required", "fallback", "acl"}]
Puts == [rev : Revs, val : Records, op : 0 .. MaxOps]
Requests ==
    [pc : {"idle", "commit", "reconcile", "put", "stage", "promote", "repair"},
     op : 0 .. MaxOps, mut : Mutations, base : Records, key : Gens, put : Puts,
     ack : {"none", "ok", "rejected", "lost"}]
Retired == [op : Ops, gen : Gens]
Saves ==
    [pc : {"idle", "commit", "commit_sent", "reconcile", "reconcile_sent"},
     op : 0 .. MaxOps, mut : Mutations, rev : Revs]
Answers == {"none", "durable", "conflict", "uncertain", "preserved", "failed",
            "lost"}

TypeOK ==
    /\ db \in Records
    /\ Len(db.ledger) <= LEDGER_CAPACITY
    /\ \A p \in inflight : p \in Puts
    /\ keys \subseteq Gens
    /\ gens \in Gens
    /\ h \in Requests
    /\ cleanup \in Seq(Retired)
    /\ Len(cleanup) <= LEDGER_CAPACITY
    /\ c \in Saves
    /\ ops \in 0 .. MaxOps
    /\ fresh \subseteq Ops
    /\ answer \in [Ops -> Answers]
    /\ foreign \in 0 .. faults
    /\ faults \in 0 .. MaxFaults
    /\ log \in Seq(Operations)

\* A first start, or a record signed in under either protection.
Init ==
    /\ \E env \in {"none", "km", "acl"} :
           db = IF env = "none" THEN NewRecord
                ELSE [NewRecord EXCEPT !.rev = 1, !.gen = 1, !.env = env,
                                       !.session = TRUE]
    /\ keys = IF db.env = "km" THEN {1} ELSE {}
    /\ gens = 1
    /\ inflight = {}
    /\ h = HIdle
    /\ cleanup = <<>>
    /\ c = CIdle
    /\ ops = 0
    /\ fresh = {}
    /\ answer = [o \in Ops |-> "none"]
    /\ foreign = 0
    /\ faults = 0
    /\ log = <<>>

-----------------------------------------------------------------------------
(* The record's state machine: storage/state.rs.                           *)

\* operation_status
InLedger(r, op) == \E e \in ToSet(r.ledger) : e.op = op

\* replay_needs_auth: the receipt is one for credentials.
ReceiptNeedsAuth(r, op) == \E e \in ToSet(r.ledger) : e.op = op /\ e.auth

IsAuth(m) == m.kind \in {"auth", "import"}

\* CanonicalState equality; the DB8 revision is not part of the state.
Same(a, b) == [a EXCEPT !.rev = 0] = [b EXCEPT !.rev = 0]

\* The conditions under which apply_verified_digest answers Conflict.
Accepts(r, m) ==
    /\ r.pending # NoPending => m.kind # "import"
    /\ m.kind = "prefs" => r.session /\ r.env # "none"
    /\ r.status = "cleared" => m.kind \in {"auth", "clear"}

\* The receipt every mutation leaves; it also cancels what is staged.
WithReceipt(r, op, auth) ==
    LET l == Append(r.ledger, [op |-> op, gen |-> r.gen, auth |-> auth])
    IN  [r EXCEPT !.pending = NoPending,
                  !.ledger = IF Len(l) > LEDGER_CAPACITY THEN Tail(l) ELSE l]

\* apply_verified_digest: the record after operation op, with generation g
\* for the mutations that draw one.
Applied(r, op, m, g, env) ==
    CASE m.kind = "prefs" -> WithReceipt(r, op, FALSE)
      [] IsAuth(m) ->
             WithReceipt([r EXCEPT !.gen = g, !.env = env, !.status = "active",
                                   !.session = TRUE], op, TRUE)
      [] m.kind = "clear" ->
             WithReceipt([r EXCEPT !.epoch = @ + 1, !.gen = g, !.env = "none",
                                   !.status = "cleared", !.session = TRUE],
                         op, FALSE)

\* pending_candidate: the staged refresh, promoted.
Candidate(r) ==
    Applied([r EXCEPT !.pending = NoPending], r.pending.op,
            [kind |-> "auth", protection |-> "required"], r.pending.gen, "km")

-----------------------------------------------------------------------------
(* The helper's helpers: storage_service/backend.rs.                       *)

References(r, g) == r.gen = g \/ (r.pending # NoPending /\ r.pending.gen = g)

\* What opening the record's credentials can return: a key that is there may
\* still be refused by the key manager, credentials in the clear always open.
Opens(r) ==
    CASE r.env = "none" -> {FALSE}
      [] r.env = "acl" -> {TRUE}
      [] r.env = "km" -> IF r.gen \in keys THEN BOOLEAN ELSE {FALSE}

\* remember_retired, on the list cl.
Remember(old, next, op, cl) ==
    IF old.gen = next.gen \/ old.env # "km" \/ \E i \in DOMAIN cl : cl[i].op = op
    THEN cl
    ELSE Append(IF Len(cl) >= LEDGER_CAPACITY THEN Tail(cl) ELSE cl,
                [op |-> op, gen |-> old.gen])

\* cleanup_confirmed: the entries it removes, and their keys.
Confirmed(op, cur, e) == e.op = op /\ ~References(cur, e.gen)
CleanupConfirmed(op, cur, cl, ks) ==
    /\ cleanup' = RetainAt(cl, {i \in DOMAIN cl : ~Confirmed(op, cur, cl[i])})
    /\ keys' = ks \ {e.gen : e \in {x \in ToSet(cl) : Confirmed(op, cur, x)}}

\* cleanup_cancelled_pending: the keys left.
WithoutCancelled(old, cur, ks) ==
    IF old.pending # NoPending /\ ~References(cur, old.pending.gen)
    THEN ks \ {old.pending.gen} ELSE ks

\* The helper answers: the client hears it if it still waits.
Answer(a) ==
    /\ h' = HIdle
    /\ IF c.pc \in {"commit_sent", "reconcile_sent"}
       THEN /\ answer' = [answer EXCEPT ![c.op] = a]
            /\ c' = CIdle
       ELSE UNCHANGED <<answer, c>>

\* A put leaves for DB8 and the helper waits in pc.
Put(pc, op, mut, base, val, applies, key) ==
    LET p == [rev |-> base.rev, val |-> val, op |-> applies]
    IN  /\ inflight' = inflight \cup {p}
        /\ h' = [pc |-> pc, op |-> op, mut |-> mut, base |-> base, key |-> key,
                 put |-> p, ack |-> "none"]

unchangedHelper == <<db, gens, ops, fresh, foreign, faults, log>>

\* finish_pending on the staged record r: authenticate the staged bytes with
\* the key manager, then promote them at the revision just read.
FinishPending(r, ks) ==
    \E ok \in IF r.pending.gen \in ks THEN BOOLEAN ELSE {FALSE} :
        IF ok
        THEN /\ Put("promote", r.pending.op, h.mut, r, Candidate(r),
                    r.pending.op, 0)
             /\ UNCHANGED <<c, answer>>
        ELSE /\ Answer("preserved")
             /\ UNCHANGED inflight

-----------------------------------------------------------------------------
(* The client: server/session/persistence.rs and storage/client.rs.        *)

\* (mutant) The two tests of the existing record are mixed up.
SwappedProtection(mayFallback, r) ==
    CASE mayFallback -> "fallback"
      [] ~mayFallback /\ r.env = "km" -> "acl"
      [] ~mayFallback /\ r.env # "km" -> "required"

\* protection_for_auth_write
ProtectionFor(mayFallback, r) ==
    CASE mayFallback -> IF OLD_FIRMWARE THEN "acl" ELSE "fallback"
      [] ~mayFallback /\ r.env = "acl" -> "acl"
      [] ~mayFallback /\ r.env = "km" -> "required"
      [] ~mayFallback /\ r.env = "none" ->
             IF OLD_FIRMWARE THEN "acl" ELSE "required"

\* commit_session_with and commit_clear_with: the mutation for the record r
\* just loaded, whose credentials opened or not, or NoMutation when the save
\* fails without a request.  changed: the protected half of the session
\* differs from what was opened.
Choose(r, authority, opened, changed) ==
    CASE authority = "signout" -> [kind |-> "clear", protection |-> "none"]
      [] authority = "migration" ->
             [kind |-> "import", protection |-> ProtectionFor(TRUE, NewRecord)]
      [] authority = "public" ->
             IF r.rev = 0 THEN NoMutation
             ELSE [kind |-> "prefs", protection |-> "none"]
      [] authority = "fresh" ->
             [kind |-> "auth", protection |-> ProtectionFor(TRUE, r)]
      [] authority = "routine" ->
             IF opened /\ ~changed THEN [kind |-> "prefs", protection |-> "none"]
             ELSE IF r.env # "none" /\ ~opened THEN NoMutation
             ELSE [kind |-> "auth", protection |-> ProtectionFor(FALSE, r)]

\* A save: load through the idle helper, choose, and send.
Submit ==
    /\ c.pc = "idle"
    /\ h.pc = "idle"
    /\ ops < MaxOps
    /\ ops' = ops + 1
    /\ \E authority \in {"signout", "migration", "public", "fresh", "routine"} :
       \E opened \in Opens(db), changed \in BOOLEAN :
           LET m == Choose(db, authority, opened, changed)
           IN  /\ IF m = NoMutation
                  THEN /\ answer' = [answer EXCEPT ![ops + 1] = "failed"]
                       /\ UNCHANGED c
                  ELSE /\ c' = [pc |-> "commit", op |-> ops + 1, mut |-> m,
                                rev |-> db.rev]
                       /\ UNCHANGED answer
               /\ fresh' = IF authority \in {"fresh", "migration"}
                           THEN fresh \cup {ops + 1} ELSE fresh
    /\ UNCHANGED <<db, inflight, keys, gens, h, cleanup, foreign, faults, log>>

\* commit_with: a transport failure of the commit is followed by a
\* reconcile; one of the reconcile ends the save.
Disconnected ==
    IF c.pc \in {"commit", "commit_sent"}
    THEN /\ c' = [c EXCEPT !.pc = "reconcile"]
         /\ UNCHANGED answer
    ELSE /\ c' = CIdle
         /\ answer' = [answer EXCEPT ![c.op] = "failed"]

\* No helper within the start window, or no reply within IO_DEADLINE; the
\* helper may still be at work.
GivesUp ==
    /\ c.pc # "idle"
    /\ Disconnected
    /\ UNCHANGED <<db, inflight, keys, gens, h, cleanup, ops, fresh, foreign,
                   faults, log>>

\* The commit is sent again, which the helper answers from what it stored.
\* commit_with does so when a reconcile says NotApplied, an answer of the
\* protocol this helper never gives; here a client may do so once it has lost
\* the connection.
Resubmit ==
    /\ c.pc = "reconcile"
    /\ Fault
    /\ c' = [c EXCEPT !.pc = "commit"]
    /\ UNCHANGED <<db, inflight, keys, gens, h, cleanup, ops, fresh, answer,
                   foreign, log>>

-----------------------------------------------------------------------------
(* The helper's requests.                                                  *)

\* service.rs: the idle helper accepts the client's request.
Accept ==
    /\ h.pc = "idle"
    /\ \/ /\ c.pc = "commit"
          /\ c' = [c EXCEPT !.pc = "commit_sent"]
       \/ /\ c.pc = "reconcile"
          /\ c' = [c EXCEPT !.pc = "reconcile_sent"]
    /\ h' = [HIdle EXCEPT !.pc = c.pc, !.op = c.op, !.mut = c.mut,
                          !.base = [NewRecord EXCEPT !.rev = c.rev]]
    /\ UNCHANGED <<db, inflight, keys, gens, cleanup, ops, fresh, answer,
                   foreign, faults, log>>

\* The first load of a request fails.
LoadFails ==
    /\ h.pc \in {"commit", "reconcile"}
    /\ Answer("failed")
    /\ UNCHANGED <<inflight, keys, cleanup>>
    /\ UNCHANGED unchangedHelper

\* commit and Reconcile find the operation staged.
FindsPending ==
    /\ h.pc \in {"commit", "reconcile"}
    /\ db.pending.op = h.op
    /\ FinishPending(db, keys)
    /\ UNCHANGED <<keys, cleanup>>
    /\ UNCHANGED unchangedHelper

\* commit and Reconcile find the operation in the ledger: a receipt for
\* credentials needs the credentials to open.
FindsApplied ==
    /\ h.pc \in {"commit", "reconcile"}
    /\ db.pending.op # h.op
    /\ InLedger(db, h.op)
    /\ \E ok \in Opens(db) :
           IF ReceiptNeedsAuth(db, h.op) /\ ~ok
           THEN /\ Answer("uncertain")
                /\ UNCHANGED <<keys, cleanup>>
           ELSE /\ Answer("durable")
                /\ CleanupConfirmed(h.op, db, cleanup, keys)
    /\ UNCHANGED inflight
    /\ UNCHANGED unchangedHelper

\* Reconcile: absence from the ledger proves nothing.
ReconcileUnknown ==
    /\ h.pc = "reconcile"
    /\ db.pending.op # h.op
    /\ ~InLedger(db, h.op)
    /\ Answer("uncertain")
    /\ UNCHANGED <<inflight, keys, cleanup>>
    /\ UNCHANGED unchangedHelper

FreshCommit ==
    /\ h.pc = "commit"
    /\ db.pending.op # h.op
    /\ ~InLedger(db, h.op)

\* commit: the expectation does not name the record as it is, or the record
\* does not take the mutation (a key made for it is removed again).
CommitConflicts ==
    /\ FreshCommit
    /\ \/ h.base.rev # db.rev
       \/ ~Accepts(db, h.mut) /\ ~(h.mut.kind = "import" /\ db.session)
    /\ Answer("conflict")
    /\ UNCHANGED <<inflight, keys, cleanup>>
    /\ UNCHANGED unchangedHelper

\* commit: an import into a record that has had one is refused by prepare,
\* before a key is made; a required seal that fails is reported.
CommitRefused ==
    /\ FreshCommit
    /\ h.base.rev = db.rev
    /\ \/ /\ h.mut.kind = "import"
          /\ db.session
          /\ Answer("failed")
       \/ /\ h.mut.protection = "required"
          /\ Answer("preserved")
    /\ UNCHANGED <<inflight, keys, cleanup>>
    /\ UNCHANGED unchangedHelper

\* commit: a refresh that must be sealed goes through a staged record.
Strict(m) == m.protection = "required"

\* commit: seal the credentials under a key of a new generation, or fall back
\* to the clear where that is allowed; stage a required refresh, put anything
\* else.
CommitPuts ==
    /\ FreshCommit
    /\ h.base.rev = db.rev
    /\ Accepts(db, h.mut)
    /\ h.mut.kind = "import" => ~db.session
    /\ gens' = IF h.mut.kind = "prefs" THEN gens ELSE gens + 1
    /\ \E env \in CASE h.mut.protection = "required" -> {"km"}
                     [] h.mut.protection = "fallback" -> {"km", "acl"}
                     [] h.mut.protection = "acl" -> {"acl"}
                     [] h.mut.protection = "none" -> {"none"} :
           LET key == IF env = "km" THEN gens + 1 ELSE 0
               next == Applied(db, h.op, h.mut, gens + 1, env)
           IN  /\ keys' = IF env = "km" THEN keys \cup {key} ELSE keys
               /\ IF Strict(h.mut)
                  THEN /\ Put("stage", h.op, h.mut, db,
                              [db EXCEPT !.pending = [op |-> h.op, gen |-> key]],
                              0, key)
                       /\ UNCHANGED cleanup
                  ELSE /\ Put("put", h.op, h.mut, db, next, h.op, key)
                       /\ cleanup' = Remember(db, next, h.op, cleanup)
    /\ UNCHANGED <<db, c, ops, fresh, answer, foreign, faults, log>>

Waiting == h.pc \in {"put", "stage", "promote", "repair"}

\* (mutant) The repair's put is waited for without a deadline.
UnboundedWait ==
    /\ Waiting
    /\ h.pc # "repair"
    /\ h.ack = "none"
    /\ h' = [h EXCEPT !.ack = "lost"]
    /\ UNCHANGED <<db, inflight, keys, gens, cleanup, c, ops, fresh, answer,
                   foreign, faults, log>>

\* Bus::call gives up on the put; it is not recalled from DB8.
TimesOut ==
    /\ Waiting
    /\ h.ack = "none"
    /\ h' = [h EXCEPT !.ack = "lost"]
    /\ UNCHANGED <<db, inflight, keys, gens, cleanup, c, ops, fresh, answer,
                   foreign, faults, log>>

\* (mutant) A put without an acknowledgement is taken to have failed.
KeysUnlessAcked == IF h.ack # "ok" THEN keys \ {h.key} ELSE keys

\* Keys and cleanup list once the reply of a put that created a key is in:
\* only a rejection by DB8 proves that the key is not used.
KeysAfterReply == IF h.ack = "rejected" THEN keys \ {h.key} ELSE keys
CleanupAfterReply ==
    IF h.ack = "rejected"
    THEN RetainAt(cleanup, {i \in DOMAIN cleanup : cleanup[i].op # h.op})
    ELSE cleanup

\* The load after a put fails.
ReadbackFails ==
    /\ Waiting
    /\ h.ack # "none"
    /\ Answer("uncertain")
    /\ keys' = IF h.pc \in {"put", "stage"} THEN KeysAfterReply ELSE keys
    /\ cleanup' = IF h.pc = "put" THEN CleanupAfterReply ELSE cleanup
    /\ UNCHANGED inflight
    /\ UNCHANGED unchangedHelper

\* (mutant) What the ledger does not have was refused.
ConflictAnyway == "conflict"

\* commit, after the put, when the ledger does not have the operation: at
\* another revision the put can no longer be taken; at the same one it can.
NotFound == IF db.rev # h.base.rev THEN "conflict" ELSE "uncertain"

\* commit, after the put: the ledger says what happened.
CommitReadsBack ==
    /\ h.pc = "put"
    /\ h.ack # "none"
    /\ LET verified == Same(db, h.put.val)
       IN  IF ~InLedger(db, h.op)
           THEN /\ Answer(NotFound)
                /\ keys' = KeysAfterReply
                /\ cleanup' = CleanupAfterReply
                /\ UNCHANGED inflight
           ELSE \E ok \in Opens(db) :
                CASE verified /\ h.key # 0 /\ ~ok ->
                        \* retry_readback_acl: replace the sealed credentials
                        \* by plain ones in that very revision.
                        /\ Put("repair", h.op, h.mut, db,
                               [db EXCEPT !.env = "acl"], 0, h.key)
                        /\ keys' = KeysAfterReply
                        /\ cleanup' = CleanupAfterReply
                        /\ UNCHANGED <<c, answer>>
                  [] ~verified /\ IsAuth(h.mut) /\ ~ok ->
                        /\ Answer("uncertain")
                        /\ keys' = KeysAfterReply
                        /\ cleanup' = CleanupAfterReply
                        /\ UNCHANGED inflight
                  [] OTHER ->
                        /\ Answer("durable")
                        /\ CleanupConfirmed(h.op, db, CleanupAfterReply,
                               IF verified
                               THEN WithoutCancelled(h.base, db, KeysAfterReply)
                               ELSE KeysAfterReply)
                        /\ UNCHANGED inflight
    /\ UNCHANGED unchangedHelper

\* retry_readback_acl, after its put.  A record that has moved on answers
\* Conflict, although the operation was added to it.
RepairReadsBack ==
    /\ h.pc = "repair"
    /\ h.ack # "none"
    /\ IF Same(db, h.put.val)
       THEN /\ Answer("durable")
            /\ CleanupConfirmed(h.op, db, cleanup, keys \ {h.key})
       ELSE /\ Answer(IF db.rev # h.base.rev THEN "conflict" ELSE "uncertain")
            /\ UNCHANGED <<keys, cleanup>>
    /\ UNCHANGED inflight
    /\ UNCHANGED unchangedHelper

\* stage_strict, after its put.
StageReadsBack ==
    /\ h.pc = "stage"
    /\ h.ack # "none"
    /\ IF Same(db, h.put.val)
       THEN LET ks == WithoutCancelled(h.base, db, KeysAfterReply)
            IN  /\ keys' = ks
                /\ FinishPending(db, ks)
       ELSE /\ keys' = KeysAfterReply
            /\ Answer("uncertain")
            /\ UNCHANGED inflight
    /\ UNCHANGED cleanup
    /\ UNCHANGED unchangedHelper

\* finish_pending, after its put, whose reply it does not look at.
PromoteReadsBack ==
    /\ h.pc = "promote"
    /\ h.ack # "none"
    /\ IF Same(db, h.put.val)
       THEN /\ Answer("durable")
            /\ CleanupConfirmed(h.op, db, Remember(h.base, db, h.op, cleanup),
                                keys)
       ELSE /\ Answer("uncertain")
            /\ UNCHANGED <<keys, cleanup>>
    /\ UNCHANGED inflight
    /\ UNCHANGED unchangedHelper

-----------------------------------------------------------------------------
(* DB8, other writers and deaths.                                          *)

\* (mutant) Puts do not carry the revision they were computed from.
LandsAnyway ==
    \E p \in inflight :
        /\ inflight' = inflight \ {p}
        /\ db' = [p.val EXCEPT !.rev = db.rev + 1]
        /\ log' = IF p.op # 0 THEN Append(log, p.op) ELSE log
        /\ UNCHANGED <<h, keys, gens, cleanup, c, ops, fresh, answer, foreign,
                       faults>>

\* DB8 takes a put whose revision is the record's and rejects another.  Its
\* reply reaches the helper if that still waits, or is lost.
Lands ==
    \E p \in inflight :
    \E replied \in IF Waiting /\ h.put = p /\ h.ack = "none" THEN BOOLEAN
                    ELSE {FALSE} :
        LET taken == p.rev = db.rev
        IN  /\ inflight' = inflight \ {p}
            /\ db' = IF taken THEN [p.val EXCEPT !.rev = db.rev + 1] ELSE db
            /\ log' = IF taken /\ p.op # 0 THEN Append(log, p.op) ELSE log
            /\ h' = IF replied
                    THEN [h EXCEPT !.ack = IF taken THEN "ok" ELSE "rejected"]
                    ELSE h
            /\ UNCHANGED <<keys, gens, cleanup, c, ops, fresh, answer, foreign,
                           faults>>

\* A public change by a writer other than this helper; it cancels what is
\* staged.
ForeignWrite ==
    /\ Fault
    /\ db.rev # 0
    /\ db.status = "active"
    /\ foreign' = foreign + 1
    /\ db' = [WithReceipt(db, MaxOps + foreign + 1, FALSE) EXCEPT !.rev = @ + 1]
    /\ log' = Append(log, MaxOps + foreign + 1)
    /\ UNCHANGED <<inflight, keys, gens, h, cleanup, c, ops, fresh, answer>>

\* The helper dies, or leaves when idle; the next one starts with nothing.
HelperDies ==
    /\ Fault
    /\ h' = HIdle
    /\ cleanup' = <<>>
    /\ IF c.pc \in {"commit_sent", "reconcile_sent"} THEN Disconnected
       ELSE UNCHANGED <<c, answer>>
    /\ UNCHANGED <<db, inflight, keys, gens, ops, fresh, foreign, log>>

\* The application dies; the helper finishes what it has accepted.
AppDies ==
    /\ c.pc # "idle"
    /\ Fault
    /\ c' = CIdle
    /\ answer' = [answer EXCEPT ![c.op] = "lost"]
    /\ UNCHANGED <<db, inflight, keys, gens, h, cleanup, ops, fresh, foreign, log>>

Helper ==
    \/ FindsPending \/ FindsApplied \/ ReconcileUnknown \/ CommitConflicts
    \/ CommitRefused \/ CommitPuts \/ CommitReadsBack \/ RepairReadsBack
    \/ StageReadsBack \/ PromoteReadsBack \/ TimesOut

Next ==
    \/ Submit \/ GivesUp \/ Resubmit \/ Accept
    \/ LoadFails \/ ReadbackFails
    \/ Helper
    \/ Lands \/ ForeignWrite \/ HelperDies \/ AppDies

Spec == Init /\ [][Next]_vars

\* The client reaches a helper that runs, and the helper's loop goes on: it
\* takes what is sent and every call it makes returns or times out.
FairSpec == Spec /\ WF_vars(Accept) /\ WF_vars(Helper)

-----------------------------------------------------------------------------
(* Properties.                                                             *)

\* Credentials are never stranded: the key of the active and of the staged
\* credentials exists as long as the record names them, whatever put lands
\* late (backend.rs: only a rejection or an exact readback removes a key).
KeysOfTheRecordExist ==
    /\ db.env = "km" => db.gen \in keys
    /\ db.pending # NoPending => db.pending.gen \in keys

\* The record at every moment: no credentials without their key, and a ledger
\* within its length (backend.rs).
StorageServiceSafe ==
    /\ TypeOK
    /\ KeysOfTheRecordExist

\* No update is lost: a record is only replaced by one computed from it, so
\* the ledger keeps its receipts but for the oldest.
NoUpdateIsLost ==
    [][db' # db =>
         \/ db'.ledger = db.ledger
         \/ \E e \in ToSet(db'.ledger) :
                db'.ledger \in {Append(db.ledger, e), Tail(Append(db.ledger, e))}
      ]_vars

\* A routine save never turns sealed credentials into plain ones: only the
\* operation of a fresh sign-in or of an import may.
RoutineNeverWeakens ==
    [][db.env = "km" /\ db'.env = "acl" => Last(db'.ledger).op \in fresh]_vars

\* A required refresh only becomes active out of its staged form, under the
\* same sealed bytes, after the key manager opened them.
PromotedFromStage ==
    [][db'.gen # db.gen /\ db'.env = "km" /\ Last(db'.ledger).op \notin fresh
         => db.pending = [op |-> Last(db'.ledger).op, gen |-> db'.gen]]_vars

\* The protection of the stored credentials changes only as the user's sign-in
\* or a staged and verified refresh asks.
ProtectionIsKept == RoutineNeverWeakens /\ PromotedFromStage

\* Every save ends: its caller is told something.
EverySaveEnds == \A o \in Ops : c.op = o ~> c.op # o

\* The client's view, by the promise of StorageSpec.
Told(a) == CASE a \in {"none", "durable", "conflict"} -> a [] OTHER -> "unknown"
Promise == INSTANCE StorageSpec WITH
    Operations <- Operations,
    log <- log,
    answer <- [o \in Operations |-> IF o \in Ops THEN Told(answer[o]) ELSE "none"]

\* The service implements it: at most once, "durable" only of what was added,
\* and "conflict" of what never will be, or is already overtaken.
KeepsItsPromise == Promise!Spec
=============================================================================
