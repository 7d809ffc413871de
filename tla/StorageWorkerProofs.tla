------------------------ MODULE StorageWorkerProofs -------------------------
(* Proofs about module StorageWorker, for every capacity and number of jobs and panics. *)
EXTENDS StorageWorker, SequenceTheorems, TLAPS

\* The job the worker has in hand.
Hand == {running} \ {0}

\* Of two jobs of the same kind, user edits K or background jobs, x was submitted first.
Prec(K, x, y) == (x \in K <=> y \in K) => x < y

Before(K, A, B) == \A x \in A, y \in B : Prec(K, x, y)

Rising(K, s) == \A a, b \in 1 .. Len(s) : a < b => Prec(K, s[a], s[b])

\* From the disk back to the backlog, the jobs of a kind stand in the order of their submits.
InLine ==
    /\ Rising(kept, applied) /\ Rising(kept, chan) /\ Rising(kept, retained)
    /\ Before(kept, ToSet(applied), Hand \cup ToSet(chan) \cup ToSet(retained))
    /\ Before(kept, Hand, ToSet(chan) \cup ToSet(retained))
    /\ Before(kept, ToSet(chan), ToSet(retained))

\* Only submitted jobs are anywhere, only user edits in the backlog, and a ticket whose worker
\* is gone is that of a submitted job.
Numbered ==
    /\ kept \subseteq 1 .. jobs /\ dying \subseteq 1 .. jobs
    /\ ToSet(applied) \cup Hand \cup ToSet(chan) \subseteq 1 .. jobs
    /\ ToSet(retained) \subseteq kept
    /\ \A j \in Jobs : worker[j] = "dropped" => j <= jobs

\* A user edit is somewhere, or a panic has dropped it.
Placed ==
    \A j \in kept : \/ result[j] = "dropped"
                    \/ j \in ToSet(applied) \cup Hand \cup ToSet(chan) \cup ToSet(retained)

\* A job that unwinds has dropped its result and is not queued again.
Unwound == \A j \in dying : result[j] = "dropped" /\ j \notin ToSet(chan) \cup ToSet(retained)

\* A background job's ticket loses its worker only when the job has left the executor.
DeadTicket ==
    /\ \A j \in Jobs \ kept : worker[j] = "dropped" => j \notin Hand \cup ToSet(chan)
    /\ \A j \in seen : worker[j] = "dropped"

\* A dropped result is that of a submitted job that is nowhere, or still unwinding in hand.
Dead ==
    /\ \A j \in Jobs : result[j] = "dropped" =>
           /\ j <= jobs /\ j \notin ToSet(applied) \cup ToSet(chan) \cup ToSet(retained)
           /\ j \in Hand => j \in dying
    /\ \A j \in seen : result[j] = "dropped"

\* A caller that was told of a failure can do the write again: it has not been done and will not be.
FailureIsFinal == \A j \in seen : j \notin ToSet(applied)

IInv == TypeOK /\ InLine /\ Numbered /\ Placed /\ Unwound /\ DeadTicket /\ Dead

-----------------------------------------------------------------------------
(* Sequences. *)

\* The members of a sequence are what stands at its places.
LEMMA Members ==
    ASSUME NEW S, NEW s \in Seq(S)
    PROVE  /\ Len(s) \in Nat /\ DOMAIN s = 1 .. Len(s)
           /\ ToSet(s) = {s[i] : i \in 1 .. Len(s)} /\ ToSet(s) \subseteq S
<1>1. Len(s) \in Nat /\ DOMAIN s = 1 .. Len(s) /\ \A i \in 1 .. Len(s) : s[i] \in S
  BY LenProperties, ElementOfSeq
<1> QED
  BY <1>1 DEF ToSet

\* The empty sequence has no member.
LEMMA EmptyMembers == ToSet(<< >>) = {}
<1>1. << >> \in Seq(Nat) /\ Len(<< >>) = 0 /\ 1 .. 0 = {}
  OBVIOUS
<1> DEFINE e == << >>
<1>2. e \in Seq(Nat) /\ Len(e) = 0
  BY <1>1
<1> HIDE DEF e
<1>3. ToSet(e) = {e[i] : i \in 1 .. 0}
  BY <1>2, Members
<1>4. ToSet(e) = {}
  BY <1>1, <1>3
<1> QED
  BY <1>4 DEF e

\* The jobs of a sequence that a job has joined.
LEMMA AppendMembers ==
    ASSUME NEW S, NEW s \in Seq(S), NEW e \in S
    PROVE  /\ Append(s, e) \in Seq(S) /\ Len(Append(s, e)) = Len(s) + 1
           /\ \A i \in 1 .. Len(s) : Append(s, e)[i] = s[i]
           /\ Append(s, e)[Len(s) + 1] = e
           /\ ToSet(Append(s, e)) = ToSet(s) \cup {e}
<1> DEFINE t == Append(s, e)
<1>1. /\ t \in Seq(S) /\ Len(t) = Len(s) + 1 /\ Len(s) \in Nat
      /\ \A i \in 1 .. Len(s) : t[i] = s[i]
      /\ t[Len(s) + 1] = e
  BY AppendProperties, LenProperties
<1> HIDE DEF t
<1>2. ToSet(t) = {t[i] : i \in 1 .. Len(t)} /\ ToSet(s) = {s[i] : i \in 1 .. Len(s)}
  BY <1>1, Members
<1>3. ASSUME NEW x \in ToSet(t) PROVE x \in ToSet(s) \cup {e}
  <2>1. PICK i \in 1 .. Len(t) : x = t[i]
    BY <1>2
  <2>2. i \in 1 .. Len(s) \/ i = Len(s) + 1
    BY <1>1
  <2> QED
    BY <1>1, <1>2, <2>1, <2>2
<1>4. ASSUME NEW x \in ToSet(s) \cup {e} PROVE x \in ToSet(t)
  <2>1. CASE x = e
    <3>1. Len(s) + 1 \in 1 .. Len(t)
      BY <1>1
    <3> QED
      BY <1>1, <1>2, <2>1, <3>1
  <2>2. CASE x \in ToSet(s)
    <3>1. PICK i \in 1 .. Len(s) : x = s[i]
      BY <1>2, <2>2
    <3>2. i \in 1 .. Len(t) /\ t[i] = x
      BY <1>1, <3>1
    <3> QED
      BY <1>2, <3>2
  <2> QED
    BY <2>1, <2>2
<1>5. ToSet(t) = ToSet(s) \cup {e}
  BY <1>3, <1>4
<1> QED
  BY <1>1, <1>5 DEF t

\* The jobs of a sequence that its first one has left.
LEMMA TailMembers ==
    ASSUME NEW S, NEW s \in Seq(S), s # << >>
    PROVE  /\ Head(s) = s[1] /\ Head(s) \in S /\ Len(s) >= 1
           /\ Tail(s) \in Seq(S) /\ Len(Tail(s)) = Len(s) - 1
           /\ \A i \in 1 .. Len(s) - 1 : Tail(s)[i] = s[i + 1]
           /\ ToSet(s) = {Head(s)} \cup ToSet(Tail(s))
<1> DEFINE t == Tail(s)
<1>1. /\ t \in Seq(S) /\ Len(t) = Len(s) - 1 /\ Len(s) \in Nat \ {0} /\ Head(s) = s[1] /\ Head(s) \in S
      /\ \A i \in 1 .. Len(s) - 1 : t[i] = s[i + 1]
  BY HeadTailProperties, EmptySeq
<1> HIDE DEF t
<1>2. ToSet(t) = {t[i] : i \in 1 .. Len(t)} /\ ToSet(s) = {s[i] : i \in 1 .. Len(s)}
  BY <1>1, Members
<1>3. ASSUME NEW x \in ToSet(s) PROVE x \in {s[1]} \cup ToSet(t)
  <2>1. PICK i \in 1 .. Len(s) : x = s[i]
    BY <1>2
  <2>2. CASE i = 1
    BY <2>1, <2>2
  <2>3. CASE i # 1
    <3>1. i - 1 \in 1 .. Len(t) /\ i - 1 + 1 = i
      BY <1>1, <2>3
    <3>2. t[i - 1] = x
      BY <1>1, <2>1, <3>1
    <3> QED
      BY <1>2, <3>1, <3>2
  <2> QED
    BY <2>2, <2>3
<1>4. ASSUME NEW x \in {s[1]} \cup ToSet(t) PROVE x \in ToSet(s)
  <2>1. CASE x = s[1]
    <3>1. 1 \in 1 .. Len(s)
      BY <1>1
    <3> QED
      BY <1>2, <2>1, <3>1
  <2>2. CASE x \in ToSet(t)
    <3>1. PICK i \in 1 .. Len(t) : x = t[i]
      BY <1>2, <2>2
    <3>2. i + 1 \in 1 .. Len(s) /\ s[i + 1] = x
      BY <1>1, <3>1
    <3> QED
      BY <1>2, <3>2
  <2> QED
    BY <2>1, <2>2
<1>5. ToSet(s) = {s[1]} \cup ToSet(t)
  BY <1>3, <1>4
<1> QED
  BY <1>1, <1>5 DEF t

\* A job that comes after a rising sequence extends it.
LEMMA RisingAppend ==
    ASSUME NEW K, NEW s \in Seq(Nat), NEW e \in Nat, Rising(K, s), Before(K, ToSet(s), {e})
    PROVE  Rising(K, Append(s, e))
<1> DEFINE t == Append(s, e)
<1>1. /\ Len(t) = Len(s) + 1 /\ Len(s) \in Nat /\ t[Len(s) + 1] = e
      /\ \A i \in 1 .. Len(s) : t[i] = s[i] /\ s[i] \in ToSet(s)
  BY AppendMembers, Members
<1> HIDE DEF t
<1> SUFFICES ASSUME NEW a \in 1 .. Len(t), NEW b \in 1 .. Len(t), a < b PROVE Prec(K, t[a], t[b])
  BY DEF Rising, t
<1>2. Len(t) = Len(s) + 1 /\ Len(s) \in Nat
  BY <1>1
<1>3. a \in 1 .. Len(s) /\ (b \in 1 .. Len(s) \/ b = Len(s) + 1)
  BY <1>2
<1> QED
  BY <1>1, <1>3 DEF Rising, Before

\* The rest of a rising sequence rises, after its first job.
LEMMA RisingTail ==
    ASSUME NEW K, NEW s \in Seq(Nat), s # << >>, Rising(K, s)
    PROVE  Rising(K, Tail(s)) /\ Before(K, {Head(s)}, ToSet(Tail(s)))
<1> DEFINE t == Tail(s)
<1>1. /\ Len(t) = Len(s) - 1 /\ Len(s) \in Nat \ {0} /\ t \in Seq(Nat) /\ Head(s) = s[1]
      /\ \A i \in 1 .. Len(t) : t[i] = s[i + 1] /\ i + 1 \in 1 .. Len(s)
  BY TailMembers, Members
<1> HIDE DEF t
<1>2. Rising(K, t)
  <2> SUFFICES ASSUME NEW a \in 1 .. Len(t), NEW b \in 1 .. Len(t), a < b PROVE Prec(K, t[a], t[b])
    BY DEF Rising
  <2>1. a + 1 \in 1 .. Len(s) /\ b + 1 \in 1 .. Len(s) /\ a + 1 < b + 1
    BY <1>1
  <2> QED
    BY <1>1, <2>1 DEF Rising
<1>3. ASSUME NEW y \in ToSet(t) PROVE Prec(K, s[1], y)
  <2>1. PICK i \in 1 .. Len(t) : y = t[i]
    BY <1>1, Members
  <2>2. 1 \in 1 .. Len(s) /\ i + 1 \in 1 .. Len(s) /\ 1 < i + 1 /\ y = s[i + 1]
    BY <1>1, <2>1
  <2> QED
    BY <2>2 DEF Rising
<1> QED
  BY <1>1, <1>2, <1>3 DEF t, Before

\* Where every job is older than the new edit n, the edit changes nobody's kind.
LEMMA KindsStand ==
    ASSUME NEW K, NEW n, NEW s \in Seq(Nat), n \notin ToSet(s), Rising(K, s)
    PROVE  Rising(K \cup {n}, s)
<1>1. \A i \in 1 .. Len(s) : s[i] \in ToSet(s)
  BY Members
<1> QED
  BY <1>1 DEF Rising, Prec

-----------------------------------------------------------------------------
(* The executor. *)

\* The types, job by job.
LEMMA Types ==
    ASSUME TypeOK
    PROVE  /\ chan \in Seq(Nat) /\ retained \in Seq(Nat) /\ applied \in Seq(Nat)
           /\ Jobs \subseteq Nat \ {0} /\ running \in Nat /\ jobs \in Nat /\ MaxJobs \in Nat
           /\ Hand \subseteq Jobs
           /\ ToSet(chan) \subseteq Jobs /\ ToSet(retained) \subseteq Jobs
           /\ ToSet(applied) \subseteq Jobs
<1>1. MaxJobs \in Nat
  BY StorageWorkerAssumption
<1>2. Jobs \subseteq Nat \ {0}
  BY <1>1 DEF Jobs
<1>3. chan \in Seq(Jobs) /\ retained \in Seq(Jobs) /\ applied \in Seq(Jobs)
  BY DEF TypeOK
<1>4. chan \in Seq(Nat) /\ retained \in Seq(Nat) /\ applied \in Seq(Nat)
  BY <1>2, <1>3, SeqMonotonic
<1>5. ToSet(chan) \subseteq Jobs /\ ToSet(retained) \subseteq Jobs /\ ToSet(applied) \subseteq Jobs
  BY <1>3, Members
<1> QED
  BY <1>1, <1>2, <1>4, <1>5 DEF TypeOK, Hand

\* The invariant holds before the first job.
LEMMA InitHolds == Init => IInv
<1> SUFFICES ASSUME Init PROVE IInv
  OBVIOUS
<1>1. /\ ToSet(chan) = {} /\ ToSet(retained) = {} /\ ToSet(applied) = {} /\ Hand = {}
      /\ Len(chan) = 0 /\ Len(retained) = 0 /\ Len(applied) = 0 /\ kept = {} /\ dying = {}
  BY EmptyMembers DEF Init, Hand
<1>2. TypeOK
  <2>1. MaxJobs \in Nat /\ CAPACITY \in Nat
    BY StorageWorkerAssumption
  <2>2. << >> \in Seq(Jobs) /\ 0 \in 0 .. MaxJobs
    BY <2>1
  <2>3. /\ result \in [Jobs -> {"open", "sent", "dropped"}] /\ worker \in [Jobs -> {"open", "dropped"}]
        /\ Len(chan) <= CAPACITY /\ kept \subseteq Jobs /\ dying \subseteq Jobs /\ seen \subseteq Jobs
    BY <2>1, <1>1 DEF Init
  <2> QED
    BY <2>2, <2>3 DEF Init, TypeOK
<1>3. InLine
  BY <1>1 DEF InLine, Rising, Before
<1>4. Numbered
  BY <1>1 DEF Numbered, Init
<1>5. Placed /\ Unwound /\ DeadTicket
  BY <1>1 DEF Placed, Unwound, DeadTicket, Init
<1>6. Dead
  BY DEF Dead, Init
<1> QED
  BY <1>2, <1>3, <1>4, <1>5, <1>6 DEF IInv

\* A new background job at the end of the channel.
LEMMA SubmitHolds ==
    ASSUME IInv, Submit
    PROVE  IInv'
<1> USE DEF IInv
<1> DEFINE n == jobs + 1
<1>1. /\ jobs' = n /\ n \in Jobs /\ n \in Nat /\ n <= MaxJobs /\ n \in 0 .. MaxJobs
      /\ UNCHANGED <<running, dying, retained, retry_at, pumping, kept, worker, applied, seen>>
      /\ Hand' = Hand
  BY Types DEF Submit, TypeOK, Jobs, Hand
<1>2. /\ n \notin kept /\ n \notin dying /\ n \notin ToSet(chan) \cup ToSet(retained) \cup Hand \cup ToSet(applied)
      /\ worker[n] = "open"
      /\ \A x \in ToSet(chan) \cup ToSet(retained) \cup Hand \cup ToSet(applied) : x < n
  <2>1. worker[n] # "dropped"
    BY <1>1, Types DEF Numbered
  <2>2. worker[n] = "open"
    BY <2>1, <1>1 DEF TypeOK
  <2>3. ToSet(chan) \cup ToSet(retained) \cup Hand \cup ToSet(applied) \cup kept \cup dying \subseteq 1 .. jobs
    BY DEF Numbered
  <2>4. \A x \in 1 .. jobs : x < n
    BY Types
  <2>5. n \notin 1 .. jobs
    BY Types
  <2> QED
    BY <2>2, <2>3, <2>4, <2>5
<1>3. /\ \A j \in Jobs \ {n} : result'[j] = result[j]
      /\ \A j \in kept \cup dying : result'[j] = result[j]
      /\ result' \in [Jobs -> {"open", "sent", "dropped"}]
      /\ result[n] # "dropped" /\ result'[n] # "dropped"
  <2>1. result[n] # "dropped"
    BY <1>1, Types DEF Dead
  <2> QED
    BY <2>1, <1>1, <1>2 DEF Submit, TypeOK
<1>4. CASE UNCHANGED chan /\ slot' \in {"none", "open", "closed"}
  <2>1. TypeOK'
    BY <1>1, <1>3, <1>4 DEF TypeOK
  <2>2. InLine'
    BY <1>1, <1>4 DEF InLine
  <2>3. Numbered'
    BY <1>1, <1>4, Types DEF Numbered
  <2>4. Placed' /\ Unwound' /\ DeadTicket'
    BY <1>1, <1>3, <1>4 DEF Placed, Unwound, DeadTicket
  <2>5. Dead'
    BY <1>1, <1>3, <1>4, Types DEF Dead, TypeOK
  <2> QED
    BY <2>1, <2>2, <2>3, <2>4, <2>5
<1>5. CASE Accepted(n)
  <2>1. /\ chan \in Seq(Jobs) /\ chan' = Append(chan, n) /\ slot' = "open" /\ Len(chan) < CAPACITY
        /\ CAPACITY \in Nat
    BY <1>5, StorageWorkerAssumption DEF Accepted, TypeOK
  <2>2. chan' \in Seq(Jobs) /\ Len(chan') = Len(chan) + 1 /\ ToSet(chan') = ToSet(chan) \cup {n}
    BY <2>1, <1>1, AppendMembers
  <2>3. TypeOK'
    BY <1>1, <1>3, <2>1, <2>2 DEF TypeOK
  <2>4. InLine'
    <3>1. Before(kept, ToSet(chan), {n}) /\ Before(kept, Hand, {n}) /\ Before(kept, ToSet(applied), {n})
      BY <1>2 DEF Before, Prec
    <3>2. Before(kept, {n}, ToSet(retained))
      BY <1>2 DEF Before, Prec, Numbered
    <3>3. Rising(kept, chan')
      BY <3>1, <2>1, <1>1, Types, RisingAppend DEF InLine
    <3> QED
      BY <3>1, <3>2, <3>3, <1>1, <2>2 DEF InLine, Before
  <2>5. Numbered'
    BY <1>1, <2>2, Types DEF Numbered
  <2>6. Placed' /\ Unwound'
    BY <1>1, <1>2, <1>3, <2>2 DEF Placed, Unwound
  <2>7. DeadTicket'
    BY <1>1, <1>2, <2>2 DEF DeadTicket
  <2>8. Dead'
    <3>1. \A j \in Jobs : j <= jobs => j <= n
      BY Types
    <3> HIDE DEF n
    <3> QED
      BY <1>1, <1>3, <2>2, <3>1 DEF Dead, TypeOK
  <2> QED
    BY <2>3, <2>4, <2>5, <2>6, <2>7, <2>8
<1> QED
  BY <1>4, <1>5 DEF Submit, Full, Stopped, StartFailed, StoppedClearsSlot, TypeOK

\* A new user edit at the end of the backlog.
LEMMA SubmitRetainedHolds ==
    ASSUME IInv, SubmitRetained
    PROVE  IInv'
<1> USE DEF IInv
<1> DEFINE n == jobs + 1
<1>1. /\ jobs' = n /\ n \in Jobs /\ n \in Nat /\ n \in 0 .. MaxJobs /\ kept' = kept \cup {n}
      /\ retained' = Append(retained, n) /\ pumping' \in BOOLEAN /\ retained \in Seq(Jobs)
      /\ UNCHANGED <<slot, chan, running, dying, retry_at, result, worker, applied, seen>>
      /\ Hand' = Hand
  BY Types DEF SubmitRetained, TypeOK, Jobs, Hand
<1>2. /\ n \notin kept /\ n \notin dying /\ n \notin ToSet(chan) \cup ToSet(retained) \cup Hand \cup ToSet(applied)
      /\ \A x \in ToSet(chan) \cup ToSet(retained) \cup Hand \cup ToSet(applied) : x < n
  <2>1. ToSet(chan) \cup ToSet(retained) \cup Hand \cup ToSet(applied) \cup kept \cup dying \subseteq 1 .. jobs
    BY DEF Numbered
  <2>2. \A x \in 1 .. jobs : x < n
    BY Types
  <2>3. n \notin 1 .. jobs
    BY Types
  <2> QED
    BY <2>1, <2>2, <2>3
<1>3. retained' \in Seq(Jobs) /\ ToSet(retained') = ToSet(retained) \cup {n}
  BY <1>1, AppendMembers
<1>4. TypeOK'
  BY <1>1, <1>3 DEF TypeOK
<1>5. InLine'
  <2>1. Rising(kept', applied) /\ Rising(kept', chan) /\ Rising(kept', retained)
    BY <1>1, <1>2, Types, KindsStand DEF InLine
  <2>2. \A x, y \in ToSet(chan) \cup ToSet(retained) \cup Hand \cup ToSet(applied) :
            Prec(kept, x, y) => Prec(kept', x, y)
    BY <1>1, <1>2 DEF Prec
  <2>3. \A x \in ToSet(chan) \cup ToSet(retained) \cup Hand \cup ToSet(applied) : Prec(kept', x, n)
    BY <1>2 DEF Prec
  <2>4. Rising(kept', retained')
    <3>1. Before(kept', ToSet(retained), {n}) /\ retained \in Seq(Nat)
      BY <2>3, Types DEF Before
    <3> QED
      BY <2>1, <3>1, <1>1, RisingAppend
  <2> QED
    BY <2>1, <2>2, <2>3, <2>4, <1>1, <1>3 DEF InLine, Before
<1>6. Numbered'
  <2>1. 1 .. jobs \subseteq 1 .. n /\ n \in 1 .. n /\ \A j \in Jobs : j <= jobs => j <= n
    BY Types
  <2> HIDE DEF n
  <2> QED
    BY <1>1, <1>3, <2>1 DEF Numbered
<1>7. Placed' /\ Unwound' /\ DeadTicket'
  BY <1>1, <1>2, <1>3 DEF Placed, Unwound, DeadTicket
<1>8. Dead'
  <2>1. result[n] # "dropped" /\ \A j \in Jobs : j <= jobs => j <= n
    BY <1>1, Types DEF Dead
  <2> HIDE DEF n
  <2> QED
    BY <1>1, <1>3, <2>1 DEF Dead, TypeOK
<1> QED
  BY <1>4, <1>5, <1>6, <1>7, <1>8

\* The backlog's first edit moves to the end of the channel.
LEMMA PumpAcceptedHolds ==
    ASSUME IInv, PumpAccepted
    PROVE  IInv'
<1> USE DEF IInv
<1> DEFINE h == Head(retained)
<1>1. /\ chan \in Seq(Jobs) /\ retained \in Seq(Jobs) /\ retained # << >>
      /\ chan' = Append(chan, h) /\ retained' = Tail(retained) /\ slot' = "open"
      /\ Len(chan) < CAPACITY /\ CAPACITY \in Nat /\ Len(chan) \in Nat
      /\ UNCHANGED <<running, dying, retry_at, pumping, jobs, kept, result, worker, applied, seen>>
      /\ Hand' = Hand
  BY StorageWorkerAssumption DEF PumpAccepted, Accepted, TypeOK, Hand
<1>2. /\ h \in Jobs /\ retained' \in Seq(Jobs) /\ ToSet(retained) = {h} \cup ToSet(retained')
  BY <1>1, TailMembers
<1> HIDE DEF h
<1>3. chan' \in Seq(Jobs) /\ Len(chan') = Len(chan) + 1 /\ ToSet(chan') = ToSet(chan) \cup {h}
  BY <1>1, <1>2, AppendMembers
<1>4. TypeOK'
  BY <1>1, <1>2, <1>3 DEF TypeOK
<1>5. InLine'
  <2>1. Rising(kept, retained') /\ Before(kept, {h}, ToSet(retained'))
    BY <1>1, Types, RisingTail DEF InLine, h
  <2>2. Before(kept, ToSet(chan), {h})
    BY <1>2 DEF InLine, Before
  <2>3. Rising(kept, chan')
    BY <2>2, <1>1, <1>2, Types, RisingAppend DEF InLine
  <2> QED
    BY <2>1, <2>2, <2>3, <1>1, <1>2, <1>3 DEF InLine, Before
<1>6. Numbered' /\ Placed' /\ Unwound'
  BY <1>1, <1>2, <1>3 DEF Numbered, Placed, Unwound
<1>7. DeadTicket'
  BY <1>1, <1>2, <1>3 DEF DeadTicket, Numbered
<1>8. Dead'
  BY <1>1, <1>2, <1>3 DEF Dead
<1> QED
  BY <1>4, <1>5, <1>6, <1>7, <1>8

\* The worker takes the channel's first job in hand.
LEMMA TakeHolds ==
    ASSUME IInv, Take
    PROVE  IInv'
<1> USE DEF IInv
<1>1. /\ chan \in Seq(Jobs) /\ chan # << >> /\ running = 0 /\ running' = Head(chan) /\ chan' = Tail(chan)
      /\ UNCHANGED <<slot, dying, retained, retry_at, pumping, jobs, kept, result, worker, applied, seen>>
      /\ CAPACITY \in Nat /\ Len(chan) \in Nat /\ Len(chan) <= CAPACITY
  BY StorageWorkerAssumption DEF Take, TypeOK
<1>2. /\ running' \in Jobs /\ chan' \in Seq(Jobs) /\ Len(chan') = Len(chan) - 1
      /\ ToSet(chan) = {running'} \cup ToSet(chan')
  BY <1>1, TailMembers
<1>3. Hand = {} /\ Hand' = {running'}
  BY <1>1, <1>2, Types DEF Hand
<1>4. TypeOK'
  BY <1>1, <1>2 DEF TypeOK
<1>5. InLine'
  <2>1. Rising(kept, chan') /\ Before(kept, {running'}, ToSet(chan'))
    BY <1>1, Types, RisingTail DEF InLine
  <2> QED
    BY <2>1, <1>1, <1>2, <1>3 DEF InLine, Before
<1>6. Numbered' /\ Placed' /\ Unwound' /\ DeadTicket'
  BY <1>1, <1>2, <1>3 DEF Numbered, Placed, Unwound, DeadTicket
<1>7. Dead'
  BY <1>1, <1>2, <1>3 DEF Dead
<1> QED
  BY <1>4, <1>5, <1>6, <1>7

\* The job in hand is done.
LEMMA FinishHolds ==
    ASSUME IInv, Finish
    PROVE  IInv'
<1> USE DEF IInv
<1>1. /\ applied \in Seq(Jobs) /\ running \in Jobs /\ running \notin dying /\ applied' = Append(applied, running)
      /\ running' = 0 /\ result' = [result EXCEPT ![running] = "sent"]
      /\ UNCHANGED <<slot, chan, dying, retained, retry_at, pumping, jobs, kept, worker, seen>>
      /\ Hand = {running} /\ Hand' = {}
  BY DEF Finish, TypeOK, Hand
<1>2. applied' \in Seq(Jobs) /\ ToSet(applied') = ToSet(applied) \cup {running}
  BY <1>1, AppendMembers
<1>3. /\ result' \in [Jobs -> {"open", "sent", "dropped"}]
      /\ \A j \in Jobs : j # running => result'[j] = result[j]
  BY <1>1 DEF TypeOK
<1>4. TypeOK'
  BY <1>1, <1>2, <1>3 DEF TypeOK
<1>5. InLine'
  <2>1. Rising(kept, applied')
    BY <1>1, Types, RisingAppend DEF InLine, Before
  <2> QED
    BY <2>1, <1>1, <1>2 DEF InLine, Before
<1>6. Numbered' /\ DeadTicket'
  BY <1>1, <1>2 DEF Numbered, DeadTicket
<1>7. Placed' /\ Unwound'
  BY <1>1, <1>2, <1>3 DEF Placed, Unwound, TypeOK
<1>8. Dead'
  <2>1. result[running] # "dropped" /\ result'[running] = "sent" /\ running \notin seen
    BY <1>1 DEF Dead, TypeOK
  <2> QED
    BY <2>1, <1>1, <1>2, <1>3 DEF Dead, TypeOK
<1> QED
  BY <1>4, <1>5, <1>6, <1>7, <1>8

\* The job in hand panics: nothing moves, and only its own channels are dropped.
LEMMA UnwindHolds ==
    ASSUME IInv, Unwind
    PROVE  IInv'
<1> USE DEF IInv
<1>1. /\ running \in Jobs /\ dying' = dying \cup {running}
      /\ UNCHANGED <<slot, chan, running, retained, retry_at, pumping, jobs, kept, applied, seen>>
      /\ Hand = {running} /\ Hand' = Hand
  BY DEF Unwind, TypeOK, Hand
<1>2. /\ result' \in [Jobs -> {"open", "sent", "dropped"}] /\ result'[running] = "dropped"
      /\ \A j \in Jobs : result[j] = "dropped" => result'[j] = "dropped"
      /\ \A j \in Jobs : j # running => result'[j] = result[j]
  BY <1>1 DEF Unwind, Dropped, TypeOK
<1>3. /\ worker' \in [Jobs -> {"open", "dropped"}]
      /\ \A j \in Jobs : worker[j] = "dropped" => worker'[j] = "dropped"
      /\ \A j \in Jobs : worker'[j] = "dropped" => worker[j] = "dropped" \/ j \in {running} \cap kept
  BY <1>1 DEF Unwind, Dropped, TypeOK
<1>4. TypeOK'
  BY <1>1, <1>2, <1>3 DEF TypeOK
<1>5. InLine'
  BY <1>1 DEF InLine
<1>6. Numbered'
  <2>1. running \in 1 .. jobs
    BY <1>1 DEF Numbered
  <2>2. \A j \in Jobs : worker'[j] = "dropped" => j <= jobs
    BY <1>3, <2>1, Types DEF Numbered
  <2> QED
    BY <1>1, <2>1, <2>2 DEF Numbered
<1>7. Placed' /\ DeadTicket'
  BY <1>1, <1>2, <1>3 DEF Placed, DeadTicket, TypeOK
<1>8. Unwound'
  <2>1. running \notin ToSet(chan) \cup ToSet(retained)
    <3>1. \A y \in ToSet(chan) \cup ToSet(retained) : Prec(kept, running, y)
      BY <1>1 DEF InLine, Before
    <3>2. ~Prec(kept, running, running)
      BY Types DEF Prec
    <3> QED
      BY <3>1, <3>2
  <2> QED
    BY <2>1, <1>1, <1>2 DEF Unwound, TypeOK
<1>9. Dead'
  <2>1. running \notin ToSet(applied) \cup ToSet(chan) \cup ToSet(retained)
    <3>1. /\ \A y \in ToSet(chan) \cup ToSet(retained) : Prec(kept, running, y)
          /\ \A x \in ToSet(applied) : Prec(kept, x, running)
      BY <1>1 DEF InLine, Before
    <3>2. ~Prec(kept, running, running)
      BY Types DEF Prec
    <3> QED
      BY <3>1, <3>2
  <2>2. running <= jobs
    BY <1>1, Types DEF Numbered
  <2> QED
    BY <2>1, <2>2, <1>1, <1>2 DEF Dead, TypeOK
<1> QED
  BY <1>4, <1>5, <1>6, <1>7, <1>8, <1>9

\* The dying worker drops the channel and what is queued in it.
LEMMA DropReceiverHolds ==
    ASSUME IInv, DropReceiver
    PROVE  IInv'
<1> USE DEF IInv
<1>1. /\ running \in dying /\ chan' = << >> /\ running' = 0 /\ slot' = "closed"
      /\ UNCHANGED <<dying, retained, retry_at, pumping, jobs, kept, applied, seen>>
      /\ ToSet(chan') = {} /\ Hand' = {} /\ Hand \subseteq dying
  BY EmptyMembers DEF DropReceiver, Hand
<1>2. /\ result' \in [Jobs -> {"open", "sent", "dropped"}]
      /\ \A j \in Jobs : result'[j] = "dropped" <=> result[j] = "dropped" \/ j \in ToSet(chan)
  BY DEF DropReceiver, Dropped, TypeOK
<1>3. /\ worker' \in [Jobs -> {"open", "dropped"}]
      /\ \A j \in Jobs : worker[j] = "dropped" => worker'[j] = "dropped"
      /\ \A j \in Jobs : worker'[j] = "dropped" => worker[j] = "dropped" \/ j \in ToSet(chan)
  BY DEF DropReceiver, Dropped, TypeOK
<1>4. chan' \in Seq(Jobs) /\ Len(chan') <= CAPACITY /\ Len(chan') = 0
  BY <1>1, StorageWorkerAssumption
<1>5. TypeOK'
  BY <1>1, <1>2, <1>3, <1>4 DEF TypeOK
<1>6. InLine'
  <2>1. Rising(kept, chan')
    BY <1>4 DEF Rising
  <2> QED
    BY <2>1, <1>1 DEF InLine, Before
<1>7. Numbered'
  BY <1>1, <1>3, Types DEF Numbered
<1>8. Placed' /\ Unwound' /\ DeadTicket'
  BY <1>1, <1>2, <1>3 DEF Placed, Unwound, DeadTicket, TypeOK
<1>9. Dead'
  <2>1. \A j \in ToSet(chan) : j \in Jobs /\ j <= jobs /\ j \notin ToSet(applied) \cup ToSet(retained)
    <3> SUFFICES ASSUME NEW j \in ToSet(chan)
                 PROVE  j \in Jobs /\ j <= jobs /\ j \notin ToSet(applied) \cup ToSet(retained)
      OBVIOUS
    <3>1. /\ \A y \in ToSet(retained) : Prec(kept, j, y)
          /\ \A x \in ToSet(applied) : Prec(kept, x, j)
      BY DEF InLine, Before
    <3>2. ~Prec(kept, j, j)
      BY Types DEF Prec
    <3>3. j \in Jobs /\ j <= jobs
      BY Types DEF Numbered
    <3> QED
      BY <3>1, <3>2, <3>3
  <2> QED
    BY <2>1, <1>1, <1>2 DEF Dead, TypeOK
<1> QED
  BY <1>5, <1>6, <1>7, <1>8, <1>9

\* The unwound job's reply is dropped, or a caller learns of a failure.
LEMMA TicketHolds ==
    ASSUME IInv, NEW j \in Jobs, DropReply(j) \/ Poll(j)
    PROVE  IInv'
<1> USE DEF IInv
<1>1. /\ UNCHANGED <<slot, chan, running, retained, retry_at, pumping, jobs, kept, result, applied>>
      /\ dying' \subseteq dying /\ Hand' = Hand
  BY DEF DropReply, Poll, Hand
<1>2. /\ worker' \in [Jobs -> {"open", "dropped"}]
      /\ \A k \in Jobs : worker[k] = "dropped" => worker'[k] = "dropped"
      /\ \A k \in Jobs : worker'[k] = "dropped" => worker[k] = "dropped" \/ k \in dying \ Hand
  BY DEF DropReply, Poll, Dropped, TypeOK, Hand
<1>3. /\ seen' \subseteq Jobs
      /\ \A k \in seen' : k \in seen \/ (worker'[k] = "dropped" /\ result[k] = "dropped")
      /\ \A k \in dying : k \in Hand => k \in dying'
  BY DEF Hand, DropReply, Poll, TypeOK
<1>4. TypeOK'
  BY <1>1, <1>2, <1>3 DEF TypeOK
<1>5. InLine' /\ Placed' /\ Unwound'
  BY <1>1 DEF InLine, Placed, Unwound
<1>6. Numbered'
  BY <1>1, <1>2, Types DEF Numbered
<1>7. DeadTicket'
  BY <1>1, <1>2, <1>3 DEF DeadTicket, Unwound, TypeOK
<1>8. Dead'
  BY <1>1, <1>3 DEF Dead
<1> QED
  BY <1>4, <1>5, <1>6, <1>7, <1>8

\* Every step keeps the jobs of a kind in line and every edit in its place.
LEMMA StepHolds == IInv /\ [Next]_vars => IInv'
<1> SUFFICES ASSUME IInv, [Next]_vars PROVE IInv'
  OBVIOUS
<1>1. CASE PumpRetained \/ PumpRefused \/ PumpEnds \/ UNCHANGED vars
  <2>1. /\ UNCHANGED <<chan, running, dying, retained, jobs, kept, result, worker, applied, seen>>
        /\ slot' \in {"none", "open", "closed"} /\ Hand' = Hand
    BY <1>1 DEF PumpRetained, PumpRefused, PumpEnds, PutBack, Full, Stopped, StartFailed,
                StoppedClearsSlot, vars, Hand, IInv, TypeOK
  <2>2. retry_at' \in BOOLEAN /\ pumping' \in BOOLEAN
    BY <1>1 DEF PumpRetained, PumpRefused, PumpEnds, vars, IInv, TypeOK
  <2>3. TypeOK'
    BY <2>1, <2>2 DEF IInv, TypeOK
  <2>4. InLine' /\ Numbered' /\ Placed' /\ Unwound' /\ DeadTicket' /\ Dead'
    BY <2>1 DEF IInv, InLine, Numbered, Placed, Unwound, DeadTicket, Dead
  <2> QED
    BY <2>3, <2>4 DEF IInv
<1>2. CASE Submit
  BY <1>2, SubmitHolds
<1>3. CASE SubmitRetained
  BY <1>3, SubmitRetainedHolds
<1>4. CASE PumpAccepted
  BY <1>4, PumpAcceptedHolds
<1>5. CASE Take
  BY <1>5, TakeHolds
<1>6. CASE Finish
  BY <1>6, FinishHolds
<1>7. CASE Unwind
  BY <1>7, UnwindHolds
<1>8. CASE DropReceiver
  BY <1>8, DropReceiverHolds
<1>9. CASE \E j \in Jobs : DropReply(j) \/ Poll(j)
  BY <1>9, TicketHolds
<1> QED
  BY <1>1, <1>2, <1>3, <1>4, <1>5, <1>6, <1>7, <1>8, <1>9 DEF Next

\* The inductive invariant holds of every behaviour.
LEMMA Invariant == Spec => []IInv
  BY InitHolds, StepHolds, PTL DEF Spec
-----------------------------------------------------------------------------
\* A user edit has one place at most: places further back hold younger edits.
LEMMA OnePlace ==
    ASSUME IInv
    PROVE  EditsAreInOnePlace
<1> SUFFICES ASSUME NEW j \in kept
             PROVE  LET places == {<<"retained", i>> : i \in {i \in DOMAIN retained : retained[i] = j}}
                             \cup {<<"chan", i>> : i \in {i \in DOMAIN chan : chan[i] = j}}
                             \cup {<<"applied", i>> : i \in {i \in DOMAIN applied : applied[i] = j}}
                             \cup (IF running = j THEN {<<"running", 0>>} ELSE {})
                    IN  /\ \A x, y \in places : x = y
                        /\ places = {} => result[j] = "dropped"
  BY DEF EditsAreInOnePlace
<1> DEFINE R == {i \in DOMAIN retained : retained[i] = j}
           C == {i \in DOMAIN chan : chan[i] = j}
           A == {i \in DOMAIN applied : applied[i] = j}
           H == IF running = j THEN {<<"running", 0>>} ELSE {}
           places == {<<"retained", i>> : i \in R} \cup {<<"chan", i>> : i \in C}
                       \cup {<<"applied", i>> : i \in A} \cup H
<1>1. j \in Nat \ {0} /\ ~Prec(kept, j, j)
  BY Types DEF IInv, TypeOK, Prec
<1>2. ASSUME NEW s \in Seq(Nat), Rising(kept, s)
      PROVE  /\ \A a, b \in {i \in DOMAIN s : s[i] = j} : a = b
             /\ {i \in DOMAIN s : s[i] = j} = {} <=> j \notin ToSet(s)
  <2>1. Len(s) \in Nat /\ DOMAIN s = 1 .. Len(s) /\ ToSet(s) = {s[i] : i \in 1 .. Len(s)}
    BY Members
  <2>2. ASSUME NEW a \in {i \in DOMAIN s : s[i] = j}, NEW b \in {i \in DOMAIN s : s[i] = j} PROVE a = b
    <3>1. ~(a < b) /\ ~(b < a)
      BY <1>1, <1>2, <2>1 DEF Rising
    <3> QED
      BY <3>1, <2>1
  <2> QED
    BY <2>1, <2>2
<1>3. /\ R = {} <=> j \notin ToSet(retained)
      /\ C = {} <=> j \notin ToSet(chan)
      /\ A = {} <=> j \notin ToSet(applied)
  BY <1>2, Types DEF IInv, InLine
<1>4. /\ \A a, b \in R : a = b
      /\ \A a, b \in C : a = b
      /\ \A a, b \in A : a = b
  BY <1>2, Types DEF IInv, InLine
<1>5. H = {} <=> j \notin Hand
  BY <1>1 DEF Hand
<1>6. /\ R = {} \/ C = {}
      /\ R = {} \/ A = {}
      /\ R = {} \/ H = {}
      /\ C = {} \/ A = {}
      /\ C = {} \/ H = {}
      /\ A = {} \/ H = {}
  <2>1. /\ j \notin ToSet(applied) \/ j \notin Hand \cup ToSet(chan) \cup ToSet(retained)
        /\ j \notin Hand \/ j \notin ToSet(chan) \cup ToSet(retained)
        /\ j \notin ToSet(chan) \/ j \notin ToSet(retained)
    BY <1>1 DEF IInv, InLine, Before
  <2> HIDE DEF R, C, A, H
  <2> QED
    BY <2>1, <1>3, <1>5
<1>7. \A x, y \in H : x = y
  OBVIOUS
<1>8. places = {} => result[j] = "dropped"
  <2> SUFFICES ASSUME places = {} PROVE result[j] = "dropped"
    OBVIOUS
  <2> HIDE DEF R, C, A, H
  <2>1. R = {} /\ C = {} /\ A = {} /\ H = {}
    OBVIOUS
  <2> QED
    BY <2>1, <1>3, <1>5 DEF IInv, Placed
<1>9. ASSUME NEW x \in places, NEW y \in places PROVE x = y
  <2> HIDE DEF R, C, A, H
  <2>1. CASE R # {}
    BY <2>1, <1>4, <1>6
  <2>2. CASE C # {}
    BY <2>2, <1>4, <1>6
  <2>3. CASE A # {}
    BY <2>3, <1>4, <1>6
  <2>4. CASE H # {}
    BY <2>4, <1>7, <1>6
  <2> QED
    BY <2>1, <2>2, <2>3, <2>4
<1> QED
  BY <1>8, <1>9

\* The executor loses and doubles no user edit, and a caller that has seen its job fail deals with
\* a worker that takes no more jobs (submit_retained, pump_retained_locked, TypedTicket::try_recv).
THEOREM WorkerIsSafe == Spec => []StorageWorkerSafe
<1>1. IInv => StorageWorkerSafe
  <2> SUFFICES ASSUME IInv PROVE StorageWorkerSafe
    OBVIOUS
  <2>1. FailureMeansStopped
    BY DEF IInv, DeadTicket, FailureMeansStopped, TypeOK, Hand, Jobs
  <2> QED
    BY <2>1, OnePlace DEF IInv, StorageWorkerSafe
<1> QED
  BY <1>1, Invariant, PTL

\* Writes of a kind reach the disk in the order they were submitted, whatever is refused, retried
\* or dropped by a panic in between (pump_retained_locked, Writer::start).
THEOREM WritesStayInOrder == Spec => []AppliedInOrder
<1>1. IInv => AppliedInOrder
  BY Types, Members DEF IInv, InLine, Rising, Prec, AppliedInOrder
<1> QED
  BY <1>1, Invariant, PTL

\* A job whose caller has been told that it failed has not been done and never will be, so doing
\* the write again does it once (TypedTicket::try_recv, Writer::start).
THEOREM FailedWritesStayUndone == Spec => []FailureIsFinal
<1>1. IInv => FailureIsFinal
  BY DEF IInv, Dead, FailureIsFinal, TypeOK
<1> QED
  BY <1>1, Invariant, PTL

=============================================================================
