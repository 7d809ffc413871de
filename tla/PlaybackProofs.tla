----------------------------- MODULE PlaybackProofs -------------------------
(***************************************************************************)
(* Proofs about playback: module Seek for every file, set of targets and   *)
(* limit, and module Foreground for every length, rewind and bound.        *)
(*                                                                         *)
(* SeekIInv and LandsInv are the inductive invariants of a seek, FgIInv    *)
(* that of an app switch.                                                  *)
(***************************************************************************)
EXTENDS Seek, Foreground, FiniteSetTheorems, WellFoundedInduction, TLAPS

\* What the demuxer is about to push came out of the file.
InHand == demux.at = "push" => demux.au \in AccessUnits

\* A request and a seek that is being applied are for the newest target, and the spinner is up.
Newest ==
    /\ request # None => request = want /\ applying.step = "no"
    /\ applying.step # "no" => applying.t = want /\ stage = "Playing"

\* Nothing is flushed and no Play put off before a fresh Load has completed.
FreshIsBare == stage \in {"Starting", "Loading"} => ~flushed /\ ~prime_play

\* Before the landed keyframe nothing has been accepted, so nothing can prime.
NothingFed == rebase_pending \/ stage = "Starting" => max_fed = [l \in Lanes |-> 0]

SeekIInv ==
    /\ TypeOK /\ InHand /\ Newest /\ FreshIsBare /\ NothingFed
    /\ NewestTargetWins /\ NothingHeldAcrossASeek /\ ClockHeldThroughTheGap /\ SpinnerIsOwed

-----------------------------------------------------------------------------
\* The file's access units are units with natural timestamps, and NoAu is none of them.
LEMMA UnitTypes ==
    /\ AccessUnits \subseteq [lane : Lanes, pts : Nat, key : BOOLEAN]
    /\ NoAu \notin AccessUnits
    /\ \A n \in 1 .. Len(File) : File[n] \in AccessUnits
    /\ Len(File) \in Nat \ {0} /\ DOMAIN File = 1 .. Len(File)
    /\ None \notin Nat /\ None \notin Targets
<1>1. /\ Len(File) \in Nat \ {0} /\ DOMAIN File = 1 .. Len(File)
      /\ \A n \in 1 .. Len(File) : File[n] \in [lane : Lanes, pts : Nat, key : BOOLEAN]
  <2>1. File \in Seq([lane : Lanes, pts : Nat, key : BOOLEAN]) /\ Len(File) > 0
    BY SeekAssumption
  <2> DEFINE U == [lane : Lanes, pts : Nat, key : BOOLEAN]
  <2>2. File \in Seq(U)
    BY <2>1
  <2> HIDE DEF U
  <2>3. Len(File) \in Nat /\ DOMAIN File = 1 .. Len(File) /\ \A n \in 1 .. Len(File) : File[n] \in U
    BY <2>2
  <2> QED
    BY <2>1, <2>3 DEF U
<1>2. AccessUnits \subseteq [lane : Lanes, pts : Nat, key : BOOLEAN]
  BY <1>1 DEF AccessUnits
<1>3. NoAu.pts \notin Nat
  BY DEF NoAu, None
<1>4. NoAu \notin AccessUnits
  BY <1>2, <1>3
<1>5. None \notin Nat /\ None \notin Targets
  BY SeekAssumption DEF None
<1>6. \A n \in 1 .. Len(File) : File[n] \in AccessUnits
  BY <1>1 DEF AccessUnits
<1> QED
  BY <1>1, <1>2, <1>4, <1>5, <1>6

\* The unit a feeder looks at came out of the file, and what is left is a lane.
LEMMA NextAuTypes ==
    ASSUME TypeOK, NEW l \in Lanes, HasAu(l)
    PROVE  /\ NextAu(l) \in AccessUnits /\ NextAu(l).pts \in Nat
           /\ Popped(l) \in Seq(AccessUnits)
<1>1. q[l] \in Seq(AccessUnits) /\ pending[l] \in AccessUnits \cup {NoAu}
  BY DEF TypeOK
<1>2. CASE pending[l] # NoAu
  BY <1>1, <1>2, UnitTypes DEF NextAu, Popped
<1>3. CASE pending[l] = NoAu
  <2>1. q[l] # << >>
    BY <1>3 DEF HasAu
  <2>2. Head(q[l]) \in AccessUnits /\ Tail(q[l]) \in Seq(AccessUnits)
    BY <1>1, <2>1
  <2> QED
    BY <1>3, <2>2, UnitTypes DEF NextAu, Popped
<1> QED
  BY <1>2, <1>3

\* The limits are natural numbers, and an empty lane is a lane.
LEMMA Limits ==
    /\ MAX_REBASE_DROPS \in Nat /\ MAX_RETRIES \in Nat /\ MaxSeeks \in Nat
    /\ PRIME \in Nat /\ PRIME_AUDIO \in Nat /\ PRIME_VIDEO_MAX \in Nat \ {0}
    /\ << >> \in Seq(AccessUnits) /\ Targets \subseteq Nat
<1>1. {MAX_REBASE_DROPS, MAX_RETRIES, MaxSeeks, PRIME, PRIME_AUDIO, PRIME_VIDEO_MAX} \subseteq Nat
  BY SeekAssumption
<1>2. PRIME_VIDEO_MAX > 0 /\ Targets \subseteq Nat
  BY SeekAssumption
<1>3. << >> \in Seq(AccessUnits)
  OBVIOUS
<1> QED
  BY <1>1, <1>2, <1>3

\* Playing from the beginning satisfies the invariant.
LEMMA InitIInv == Init => SeekIInv
<1> SUFFICES ASSUME Init PROVE SeekIInv
  OBVIOUS
<1> USE DEF Init
<1>2. q \in [Lanes -> Seq(AccessUnits)] /\ pending \in [Lanes -> AccessUnits \cup {NoAu}]
  BY DEF Empty, Nothing
<1>3. demux \in [at : {"top", "read", "push", "ended"}, pos : 1 .. Len(File) + 1,
                 au : AccessUnits \cup {NoAu}]
  BY UnitTypes DEF Opened
<1>4. TypeOK
  <2>1. /\ applying \in [step : {"no", "video", "audio"}, t : Targets \cup {None}]
        /\ max_fed \in [Lanes -> Nat]
    OBVIOUS
  <2>2. /\ rebase_drops \in 0 .. MAX_REBASE_DROPS /\ seek_retries \in 0 .. MAX_RETRIES
        /\ seeks \in 0 .. MaxSeeks
    BY Limits
  <2>3. seek_base \in Nat /\ pts_shift \in Int /\ anchor \in Nat \cup {None}
    OBVIOUS
  <2> QED
    BY <1>2, <1>3, <2>1, <2>2, <2>3 DEF TypeOK
<1>5. InHand /\ Newest /\ FreshIsBare /\ NothingFed
  BY DEF InHand, Newest, FreshIsBare, NothingFed, Opened
<1>6. NewestTargetWins /\ NothingHeldAcrossASeek /\ ClockHeldThroughTheGap /\ SpinnerIsOwed
  BY DEF NewestTargetWins, NothingHeldAcrossASeek, ClockHeldThroughTheGap, SpinnerIsOwed, Resolving
<1> QED
  BY <1>4, <1>5, <1>6 DEF SeekIInv

-----------------------------------------------------------------------------
\* The demuxer takes the target.
LEMMA TakeSeekKeepsIInv ==
    ASSUME SeekIInv, TakeSeek
    PROVE  SeekIInv'
<1> USE DEF mailbox, lanes, rebase, clock, history, TakeSeek
<1>1. TypeOK'
  <2>1. PICK ok \in BOOLEAN :
          demux' = [demux EXCEPT !.at = "read",
                                 !.pos = IF seek_to # None /\ ok THEN Landing(seek_to) ELSE @]
    OBVIOUS
  <2>2. seek_to # None => Landing(seek_to) \in 1 .. Len(File) + 1
    BY LandingAssumption, UnitTypes DEF SeekIInv, TypeOK
  <2>3. demux' \in [at : {"top", "read", "push", "ended"}, pos : 1 .. Len(File) + 1,
                   au : AccessUnits \cup {NoAu}]
    BY <2>1, <2>2 DEF SeekIInv, TypeOK
  <2>4. missed' \in BOOLEAN
    BY DEF SeekIInv, TypeOK
  <2> QED
    BY <2>3, <2>4 DEF SeekIInv, TypeOK
<1>2. (InHand /\ Newest /\ FreshIsBare /\ NothingFed)'
  BY UnitTypes DEF SeekIInv, TypeOK, InHand, Newest, FreshIsBare, NothingFed
<1>3. NewestTargetWins'
  BY UnitTypes DEF SeekIInv, TypeOK, Newest, FreshIsBare, NewestTargetWins, Resolving
<1>4. (NothingHeldAcrossASeek /\ ClockHeldThroughTheGap /\ SpinnerIsOwed)'
  BY UnitTypes DEF SeekIInv, TypeOK, Newest, FreshIsBare, NothingFed, NothingHeldAcrossASeek,
     ClockHeldThroughTheGap, SpinnerIsOwed, Resolving
<1> QED
  BY <1>1, <1>2, <1>3, <1>4 DEF SeekIInv

\* The demuxer reads a packet, or ends.
LEMMA ReadKeepsIInv ==
    ASSUME SeekIInv, Read
    PROVE  SeekIInv'
<1> USE DEF mailbox, lanes, rebase, clock, history, Read
<1>1. TypeOK'
  <2>1. CASE demux.pos > Len(File)
    <3>1. demux' \in [at : {"top", "read", "push", "ended"}, pos : 1 .. Len(File) + 1,
                     au : AccessUnits \cup {NoAu}]
      BY <2>1 DEF SeekIInv, TypeOK
    <3> QED
      BY <3>1 DEF SeekIInv, TypeOK
  <2>2. CASE ~(demux.pos > Len(File))
    <3>1. demux.pos \in 1 .. Len(File)
      BY <2>2, UnitTypes DEF SeekIInv, TypeOK
    <3>2. demux.pos + 1 \in 1 .. Len(File) + 1 /\ File[demux.pos] \in AccessUnits
      BY <3>1, UnitTypes
    <3> QED
      BY <2>2, <3>2 DEF SeekIInv, TypeOK
  <2> QED
    BY <2>1, <2>2
<1>2. (InHand /\ Newest /\ FreshIsBare /\ NothingFed)'
  <2>1. demux.pos \in 1 .. Len(File) => File[demux.pos] \in AccessUnits
    BY UnitTypes
  <2>2. ~(demux.pos > Len(File)) => demux.pos \in 1 .. Len(File)
    BY UnitTypes DEF SeekIInv, TypeOK
  <2>3. InHand'
    BY <2>1, <2>2 DEF SeekIInv, TypeOK, InHand
  <2> QED
    BY <2>3 DEF SeekIInv, Newest, FreshIsBare, NothingFed
<1>3. NewestTargetWins'
  BY UnitTypes DEF SeekIInv, TypeOK, Newest, FreshIsBare, NewestTargetWins, Resolving
<1>4. (NothingHeldAcrossASeek /\ ClockHeldThroughTheGap /\ SpinnerIsOwed)'
  BY UnitTypes DEF SeekIInv, TypeOK, Newest, FreshIsBare, NothingFed, NothingHeldAcrossASeek,
     ClockHeldThroughTheGap, SpinnerIsOwed, Resolving
<1> QED
  BY <1>1, <1>2, <1>3, <1>4 DEF SeekIInv

\* The demuxer pushes what it has in hand.
LEMMA PushKeepsIInv ==
    ASSUME SeekIInv, Push
    PROVE  SeekIInv'
<1> USE DEF mailbox, lanes, rebase, clock, history, Push
<1>1. TypeOK'
  <2>1. demux.au \in AccessUnits /\ demux.au.lane \in Lanes
    BY UnitTypes DEF SeekIInv, InHand
  <2>2. q' \in [Lanes -> Seq(AccessUnits)]
    BY <2>1 DEF SeekIInv, TypeOK
  <2>3. demux' \in [at : {"top", "read", "push", "ended"}, pos : 1 .. Len(File) + 1,
                   au : AccessUnits \cup {NoAu}]
    BY DEF SeekIInv, TypeOK
  <2> QED
    BY <2>2, <2>3 DEF SeekIInv, TypeOK
<1>2. (InHand /\ Newest /\ FreshIsBare /\ NothingFed)'
  BY UnitTypes DEF SeekIInv, TypeOK, InHand, Newest, FreshIsBare, NothingFed
<1>3. NewestTargetWins'
  BY UnitTypes DEF SeekIInv, TypeOK, Newest, FreshIsBare, NewestTargetWins, Resolving
<1>4. (NothingHeldAcrossASeek /\ ClockHeldThroughTheGap /\ SpinnerIsOwed)'
  BY UnitTypes DEF SeekIInv, TypeOK, Newest, FreshIsBare, NothingFed, NothingHeldAcrossASeek,
     ClockHeldThroughTheGap, SpinnerIsOwed, Resolving
<1> QED
  BY <1>1, <1>2, <1>3, <1>4 DEF SeekIInv

\* The viewer asks for a position.
LEMMA RequestKeepsIInv ==
    ASSUME SeekIInv, NEW t \in Targets, request_seek(t)
    PROVE  SeekIInv'
<1> USE DEF mailbox, lanes, rebase, clock, history, request_seek
<1>1. TypeOK'
  <2>1. seeks' \in 0 .. MaxSeeks
    BY Limits DEF SeekIInv, TypeOK
  <2> QED
    BY <2>1 DEF SeekIInv, TypeOK
<1>2. (InHand /\ Newest /\ FreshIsBare /\ NothingFed)'
  BY UnitTypes DEF SeekIInv, TypeOK, InHand, Newest, FreshIsBare, NothingFed
<1>3. NewestTargetWins'
  BY UnitTypes DEF SeekIInv, TypeOK, Newest, FreshIsBare, NewestTargetWins, Resolving
<1>4. (NothingHeldAcrossASeek /\ ClockHeldThroughTheGap /\ SpinnerIsOwed)'
  BY UnitTypes DEF SeekIInv, TypeOK, Newest, FreshIsBare, NothingFed, NothingHeldAcrossASeek,
     ClockHeldThroughTheGap, SpinnerIsOwed, Resolving
<1> QED
  BY <1>1, <1>2, <1>3, <1>4 DEF SeekIInv

\* A reload at the newest target keeps the invariant.
LEMMA ReloadAtKeepsIInv ==
    ASSUME SeekIInv, NEW t \in Targets, t = want, stage = "Playing", applying.step = "no", reload_at(t)
    PROVE  SeekIInv'
<1> USE DEF mailbox, lanes, rebase, clock, history, reload_at
<1>1. TypeOK'
  <2>0. q' = Empty /\ pending' = Nothing
    OBVIOUS
  <2>1. q' \in [Lanes -> Seq(AccessUnits)] /\ pending' \in [Lanes -> AccessUnits \cup {NoAu}]
    BY <2>0, Limits DEF Empty, Nothing
  <2>2. demux' \in [at : {"top", "read", "push", "ended"}, pos : 1 .. Len(File) + 1,
                   au : AccessUnits \cup {NoAu}]
    BY UnitTypes DEF Opened
  <2>3. /\ rebase_drops' \in 0 .. MAX_REBASE_DROPS /\ seek_retries' \in 0 .. MAX_RETRIES
        /\ seek_base' \in Nat /\ max_fed' \in [Lanes -> Nat] /\ pts_shift' \in Int
    <3>1. 0 \in 0 .. MAX_REBASE_DROPS /\ 0 \in 0 .. MAX_RETRIES
      BY Limits
    <3> QED
      BY <3>1 DEF SeekIInv, TypeOK
  <2>4. /\ request' \in Targets \cup {None} /\ seek_to' \in Targets \cup {None}
        /\ seek_target' \in Targets \cup {None}
    BY DEF SeekIInv, TypeOK
  <2>5. /\ seeking' \in BOOLEAN /\ flushed' \in BOOLEAN /\ rebase_pending' \in BOOLEAN
        /\ stuck' \in BOOLEAN /\ prime_play' \in BOOLEAN /\ INPLACE_SEEK_OK' \in BOOLEAN
        /\ missed' \in BOOLEAN /\ stage' \in {"Starting", "Loading", "Playing", "Error"}
    BY Zenon DEF SeekIInv, TypeOK
  <2>6. UNCHANGED << applying, want, anchor, seeks >>
    OBVIOUS
  <2> HIDE DEF reload_at
  <2> QED
    BY <2>1, <2>2, <2>3, <2>4, <2>5, <2>6 DEF SeekIInv, TypeOK
<1>2. (InHand /\ Newest /\ FreshIsBare /\ NothingFed)'
  BY UnitTypes DEF SeekIInv, TypeOK, InHand, Newest, FreshIsBare, NothingFed, Opened, Nothing
<1>3. NewestTargetWins'
  BY UnitTypes DEF SeekIInv, TypeOK, Newest, FreshIsBare, NewestTargetWins, Resolving, Opened, Nothing
<1>4. (NothingHeldAcrossASeek /\ ClockHeldThroughTheGap /\ SpinnerIsOwed)'
  BY UnitTypes DEF SeekIInv, TypeOK, Newest, FreshIsBare, NothingFed, NothingHeldAcrossASeek,
     ClockHeldThroughTheGap, SpinnerIsOwed, Resolving, Opened, Nothing
<1> QED
  BY <1>1, <1>2, <1>3, <1>4 DEF SeekIInv

\* The Engine of a reload is made.
LEMMA InstallKeepsIInv ==
    ASSUME SeekIInv, Install
    PROVE  SeekIInv'
<1> USE DEF mailbox, lanes, rebase, clock, history, Install
<1>1. TypeOK'
  BY UnitTypes DEF SeekIInv, TypeOK
<1>2. (InHand /\ Newest /\ FreshIsBare /\ NothingFed)'
  BY UnitTypes DEF SeekIInv, TypeOK, InHand, Newest, FreshIsBare, NothingFed, Resolving
<1>3. NewestTargetWins'
  BY UnitTypes DEF SeekIInv, TypeOK, Newest, FreshIsBare, NewestTargetWins, Resolving, Resolving
<1>4. (NothingHeldAcrossASeek /\ ClockHeldThroughTheGap /\ SpinnerIsOwed)'
  BY UnitTypes DEF SeekIInv, TypeOK, Newest, FreshIsBare, NothingFed, NothingHeldAcrossASeek,
     ClockHeldThroughTheGap, SpinnerIsOwed, Resolving, Resolving
<1> QED
  BY <1>1, <1>2, <1>3, <1>4 DEF SeekIInv

\* A seek is taken up in place.
LEMMA SeekInPlaceKeepsIInv ==
    ASSUME SeekIInv, SeekInPlace
    PROVE  SeekIInv'
<1> USE DEF mailbox, lanes, rebase, clock, history, SeekInPlace, CanSeek
<1>1. TypeOK'
  <2>1. q' \in [Lanes -> Seq(AccessUnits)]
    BY Limits DEF SeekIInv, TypeOK, Lanes
  <2>2. applying' \in [step : {"no", "video", "audio"}, t : Targets \cup {None}]
    BY DEF SeekIInv, TypeOK
  <2> QED
    BY <2>1, <2>2 DEF SeekIInv, TypeOK
<1>2. (InHand /\ Newest /\ FreshIsBare /\ NothingFed)'
  BY UnitTypes DEF SeekIInv, TypeOK, InHand, Newest, FreshIsBare, NothingFed
<1>3. NewestTargetWins'
  BY UnitTypes DEF SeekIInv, TypeOK, Newest, FreshIsBare, NewestTargetWins, Resolving
<1>4. (NothingHeldAcrossASeek /\ ClockHeldThroughTheGap /\ SpinnerIsOwed)'
  BY UnitTypes DEF SeekIInv, TypeOK, Newest, FreshIsBare, NothingFed, NothingHeldAcrossASeek,
     ClockHeldThroughTheGap, SpinnerIsOwed, Resolving
<1> QED
  BY <1>1, <1>2, <1>3, <1>4 DEF SeekIInv

\* The audio lane is drained.
LEMMA DrainAudioKeepsIInv ==
    ASSUME SeekIInv, DrainAudio
    PROVE  SeekIInv'
<1> USE DEF mailbox, lanes, rebase, clock, history, DrainAudio, DropHeld
<1>1. TypeOK'
  <2>1. q' \in [Lanes -> Seq(AccessUnits)] /\ pending' \in [Lanes -> AccessUnits \cup {NoAu}]
    BY Limits DEF SeekIInv, TypeOK, Nothing, Lanes
  <2>2. applying' \in [step : {"no", "video", "audio"}, t : Targets \cup {None}]
    BY DEF SeekIInv, TypeOK
  <2> QED
    BY <2>1, <2>2 DEF SeekIInv, TypeOK
<1>2. (InHand /\ Newest /\ FreshIsBare /\ NothingFed)'
  BY UnitTypes DEF SeekIInv, TypeOK, InHand, Newest, FreshIsBare, NothingFed
<1>3. NewestTargetWins'
  BY UnitTypes DEF SeekIInv, TypeOK, Newest, FreshIsBare, NewestTargetWins, Resolving
<1>4. (NothingHeldAcrossASeek /\ ClockHeldThroughTheGap /\ SpinnerIsOwed)'
  BY UnitTypes DEF SeekIInv, TypeOK, Newest, FreshIsBare, NothingFed, NothingHeldAcrossASeek,
     ClockHeldThroughTheGap, SpinnerIsOwed, Resolving
<1> QED
  BY <1>1, <1>2, <1>3, <1>4 DEF SeekIInv

\* The target is published.
LEMMA PublishKeepsIInv ==
    ASSUME SeekIInv, Publish
    PROVE  SeekIInv'
<1> USE DEF mailbox, lanes, rebase, clock, history, Publish, DropHeld
<1>1. TypeOK'
  <2>1. pending' \in [Lanes -> AccessUnits \cup {NoAu}] /\ max_fed' \in [Lanes -> Nat]
    BY DEF Nothing
  <2>2. applying' \in [step : {"no", "video", "audio"}, t : Targets \cup {None}]
    OBVIOUS
  <2>3. rebase_drops' \in 0 .. MAX_REBASE_DROPS /\ seek_retries' \in 0 .. MAX_RETRIES
    BY Limits
  <2> QED
    BY <2>1, <2>2, <2>3, ZenonT(90) DEF SeekIInv, TypeOK
<1>2. (InHand /\ Newest /\ FreshIsBare /\ NothingFed)'
  BY UnitTypes DEF SeekIInv, TypeOK, InHand, Newest, FreshIsBare, NothingFed
<1>3. NewestTargetWins'
  BY UnitTypes DEF SeekIInv, TypeOK, Newest, FreshIsBare, NewestTargetWins, Resolving
<1>4. (NothingHeldAcrossASeek /\ ClockHeldThroughTheGap /\ SpinnerIsOwed)'
  BY UnitTypes DEF SeekIInv, TypeOK, Newest, FreshIsBare, NothingFed, NothingHeldAcrossASeek,
     ClockHeldThroughTheGap, SpinnerIsOwed, Resolving
<1> QED
  BY <1>1, <1>2, <1>3, <1>4 DEF SeekIInv

\* The seek becomes overdue.
LEMMA TimePassesKeepsIInv ==
    ASSUME SeekIInv, TimePasses
    PROVE  SeekIInv'
<1> USE DEF mailbox, lanes, rebase, clock, history, TimePasses
<1>1. TypeOK'
  BY DEF SeekIInv, TypeOK
<1>2. (InHand /\ Newest /\ FreshIsBare /\ NothingFed)'
  BY UnitTypes DEF SeekIInv, TypeOK, InHand, Newest, FreshIsBare, NothingFed
<1>3. NewestTargetWins'
  BY UnitTypes DEF SeekIInv, TypeOK, Newest, FreshIsBare, NewestTargetWins, Resolving
<1>4. (NothingHeldAcrossASeek /\ ClockHeldThroughTheGap /\ SpinnerIsOwed)'
  BY UnitTypes DEF SeekIInv, TypeOK, Newest, FreshIsBare, NothingFed, NothingHeldAcrossASeek,
     ClockHeldThroughTheGap, SpinnerIsOwed, Resolving
<1> QED
  BY <1>1, <1>2, <1>3, <1>4 DEF SeekIInv

\* The watchdog publishes the newest target again.
LEMMA RetryReopenKeepsIInv ==
    ASSUME SeekIInv, RetryReopen
    PROVE  SeekIInv'
<1> USE DEF mailbox, lanes, rebase, clock, history, RetryReopen, Overdue, NewestTarget
<1>0. NewestTarget = want
  BY DEF SeekIInv, Newest, NewestTargetWins, Resolving
<1>1. TypeOK'
  <2>1. seek_retries' \in 0 .. MAX_RETRIES
    BY Limits DEF SeekIInv, TypeOK
  <2>2. seek_to' \in Targets \cup {None} /\ seek_target' \in Targets \cup {None}
    BY DEF SeekIInv, TypeOK
  <2>3. /\ request' = None /\ stuck' = FALSE
        /\ UNCHANGED << applying, seeking, demux, lanes, stage, flushed, rebase_pending,
                        rebase_drops, clock, INPLACE_SEEK_OK, history >>
    OBVIOUS
  <2>4. stuck' \in BOOLEAN /\ request' \in Targets \cup {None}
    BY <2>3
  <2> HIDE DEF RetryReopen, Overdue, NewestTarget
  <2> QED
    BY <2>1, <2>2, <2>3, <2>4, SMTT(30) DEF SeekIInv, TypeOK
<1>2. (InHand /\ Newest /\ FreshIsBare /\ NothingFed)'
  BY UnitTypes, <1>0 DEF SeekIInv, TypeOK, InHand, Newest, FreshIsBare, NothingFed
<1>3. NewestTargetWins'
  BY UnitTypes, <1>0 DEF SeekIInv, TypeOK, Newest, FreshIsBare, NewestTargetWins, Resolving
<1>4. (NothingHeldAcrossASeek /\ ClockHeldThroughTheGap /\ SpinnerIsOwed)'
  BY UnitTypes, <1>0 DEF SeekIInv, TypeOK, Newest, FreshIsBare, NothingFed, NothingHeldAcrossASeek,
     ClockHeldThroughTheGap, SpinnerIsOwed, Resolving
<1> QED
  BY <1>1, <1>2, <1>3, <1>4 DEF SeekIInv

\* The fresh Load completes.
LEMMA LoadCompletesKeepsIInv ==
    ASSUME SeekIInv, LoadCompletes
    PROVE  SeekIInv'
<1> USE DEF mailbox, lanes, rebase, clock, history, LoadCompletes, prime_before_play
<1>1. TypeOK'
  BY DEF SeekIInv, TypeOK
<1>2. (InHand /\ Newest /\ FreshIsBare /\ NothingFed)'
  BY UnitTypes DEF SeekIInv, TypeOK, InHand, Newest, FreshIsBare, NothingFed
<1>3. NewestTargetWins'
  BY UnitTypes DEF SeekIInv, TypeOK, Newest, FreshIsBare, NewestTargetWins, Resolving
<1>4. (NothingHeldAcrossASeek /\ ClockHeldThroughTheGap /\ SpinnerIsOwed)'
  BY UnitTypes DEF SeekIInv, TypeOK, Newest, FreshIsBare, NothingFed, NothingHeldAcrossASeek,
     ClockHeldThroughTheGap, SpinnerIsOwed, Resolving
<1> QED
  BY <1>1, <1>2, <1>3, <1>4 DEF SeekIInv

\* A feeder's step keeps the lanes and the high-water marks in their types.
LEMMA OfferTypes ==
    ASSUME TypeOK, NEW l \in Lanes, HasAu(l), NEW fp \in Nat, NEW ok \in BOOLEAN,
           Offer(l, fp, max_fed[l], ok)
    PROVE  /\ q' \in [Lanes -> Seq(AccessUnits)]
           /\ pending' \in [Lanes -> AccessUnits \cup {NoAu}]
           /\ max_fed' \in [Lanes -> Nat]
<1>1. NextAu(l) \in AccessUnits /\ Popped(l) \in Seq(AccessUnits)
  BY NextAuTypes
<1> QED
  BY <1>1 DEF TypeOK, Offer

\* So does one that drops its unit.
LEMMA DropTypes ==
    ASSUME TypeOK, NEW l \in Lanes, HasAu(l), Drop(l)
    PROVE  /\ q' \in [Lanes -> Seq(AccessUnits)]
           /\ pending' \in [Lanes -> AccessUnits \cup {NoAu}]
<1>1. Popped(l) \in Seq(AccessUnits)
  BY NextAuTypes
<1> QED
  BY <1>1 DEF TypeOK, Drop

\* A video unit is dropped.
LEMMA DropVideoKeepsIInv ==
    ASSUME SeekIInv, DropVideo
    PROVE  SeekIInv'
<1> USE DEF mailbox, lanes, rebase, clock, history, DropVideo, MayFeed
<1>1. TypeOK'
  <2>1. TypeOK /\ HasAu("v") /\ Drop("v") /\ "v" \in Lanes
    BY DEF SeekIInv, Lanes
  <2>2. /\ q' \in [Lanes -> Seq(AccessUnits)]
        /\ pending' \in [Lanes -> AccessUnits \cup {NoAu}]
    BY <2>1, DropTypes
  <2>3. rebase_drops' \in 0 .. MAX_REBASE_DROPS
    BY Limits DEF SeekIInv, TypeOK, StaleKeyframe
  <2> QED
    BY <2>2, <2>3 DEF SeekIInv, TypeOK
<1>2. (InHand /\ Newest /\ FreshIsBare /\ NothingFed)'
  BY UnitTypes DEF SeekIInv, TypeOK, InHand, Newest, FreshIsBare, NothingFed, Drop, Nothing
<1>3. NewestTargetWins'
  BY UnitTypes DEF SeekIInv, TypeOK, Newest, FreshIsBare, NewestTargetWins, Resolving, Drop, Nothing
<1>4. (NothingHeldAcrossASeek /\ ClockHeldThroughTheGap /\ SpinnerIsOwed)'
  BY UnitTypes DEF SeekIInv, TypeOK, Newest, FreshIsBare, NothingFed, NothingHeldAcrossASeek,
     ClockHeldThroughTheGap, SpinnerIsOwed, Resolving, Drop, Nothing
<1> QED
  BY <1>1, <1>2, <1>3, <1>4 DEF SeekIInv

\* The timeline is hung on a keyframe.
LEMMA AnchorKeepsIInv ==
    ASSUME SeekIInv, NEW ok \in BOOLEAN, Anchor(ok)
    PROVE  SeekIInv'
<1> USE DEF mailbox, lanes, rebase, clock, history, Anchor, MayFeed
<1> DEFINE au == NextAu("v")
           shift == IF flushed THEN 0 ELSE -au.pts
<1>0. /\ HasAu("v") /\ au.pts \in Nat /\ Floored(au.pts + shift) \in Nat
      /\ Offer("v", Floored(au.pts + shift), max_fed["v"], ok)
      /\ pts_shift' = shift /\ seek_base' = au.pts + shift /\ anchor' = au.pts
      /\ au.pts + shift \in Nat /\ shift \in Int
  <2>1. HasAu("v") /\ au.pts \in Nat
    BY NextAuTypes DEF SeekIInv, Lanes
  <2>2. au.pts + shift \in Nat /\ shift \in Int
    BY <2>1
  <2> QED
    BY <2>1, <2>2 DEF Floored
<1>1. TypeOK'
  <2>1. /\ q' \in [Lanes -> Seq(AccessUnits)] /\ pending' \in [Lanes -> AccessUnits \cup {NoAu}]
        /\ max_fed' \in [Lanes -> Nat]
    BY <1>0, OfferTypes DEF SeekIInv, Lanes
  <2>2. /\ pts_shift' \in Int /\ seek_base' \in Nat /\ anchor' \in Nat
    BY <1>0, UnitTypes
  <2>3. INPLACE_SEEK_OK' \in BOOLEAN
    BY DEF SeekIInv, TypeOK
  <2> QED
    BY <2>1, <2>2, <2>3, ZenonT(90) DEF SeekIInv, TypeOK
<1>2. (InHand /\ Newest /\ FreshIsBare /\ NothingFed)'
  BY UnitTypes DEF SeekIInv, TypeOK, InHand, Newest, FreshIsBare, NothingFed
<1>3. NewestTargetWins'
  BY UnitTypes DEF SeekIInv, TypeOK, Newest, FreshIsBare, NewestTargetWins, Resolving
<1>4. (NothingHeldAcrossASeek /\ ClockHeldThroughTheGap /\ SpinnerIsOwed)'
  BY UnitTypes DEF SeekIInv, TypeOK, Newest, FreshIsBare, NothingFed, NothingHeldAcrossASeek,
     ClockHeldThroughTheGap, SpinnerIsOwed, Resolving
<1> QED
  BY <1>1, <1>2, <1>3, <1>4 DEF SeekIInv

\* A video unit is offered.
LEMMA FeedVideoKeepsIInv ==
    ASSUME SeekIInv, NEW ok \in BOOLEAN, FeedVideo(ok)
    PROVE  SeekIInv'
<1> USE DEF mailbox, lanes, rebase, clock, history, FeedVideo, MayFeed
<1>1. TypeOK'
  <2>1. NextAu("v").pts \in Nat
    BY NextAuTypes DEF SeekIInv, Lanes
  <2>2. Floored(NextAu("v").pts + pts_shift) \in Nat
    BY <2>1 DEF SeekIInv, TypeOK, Floored
  <2>3. /\ q' \in [Lanes -> Seq(AccessUnits)] /\ pending' \in [Lanes -> AccessUnits \cup {NoAu}]
        /\ max_fed' \in [Lanes -> Nat]
    BY <2>2, OfferTypes DEF SeekIInv, Lanes
  <2> QED
    BY <2>3 DEF SeekIInv, TypeOK
<1>2. (InHand /\ Newest /\ FreshIsBare /\ NothingFed)'
  BY UnitTypes DEF SeekIInv, TypeOK, InHand, Newest, FreshIsBare, NothingFed
<1>3. NewestTargetWins'
  BY UnitTypes DEF SeekIInv, TypeOK, Newest, FreshIsBare, NewestTargetWins, Resolving
<1>4. (NothingHeldAcrossASeek /\ ClockHeldThroughTheGap /\ SpinnerIsOwed)'
  BY UnitTypes DEF SeekIInv, TypeOK, Newest, FreshIsBare, NothingFed, NothingHeldAcrossASeek,
     ClockHeldThroughTheGap, SpinnerIsOwed, Resolving
<1> QED
  BY <1>1, <1>2, <1>3, <1>4 DEF SeekIInv

\* An audio unit is offered.
LEMMA FeedAudioKeepsIInv ==
    ASSUME SeekIInv, NEW ok \in BOOLEAN, FeedAudio(ok)
    PROVE  SeekIInv'
<1> USE DEF mailbox, lanes, rebase, clock, history, FeedAudio, MayFeed
<1>1. TypeOK'
  <2>1. NextAu("a").pts \in Nat
    BY NextAuTypes DEF SeekIInv, Lanes
  <2>2. Floored(NextAu("a").pts + pts_shift) \in Nat
    BY <2>1 DEF SeekIInv, TypeOK, Floored
  <2>3. /\ q' \in [Lanes -> Seq(AccessUnits)] /\ pending' \in [Lanes -> AccessUnits \cup {NoAu}]
        /\ max_fed' \in [Lanes -> Nat]
    BY <2>2, OfferTypes DEF SeekIInv, Lanes
  <2> QED
    BY <2>3 DEF SeekIInv, TypeOK
<1>2. (InHand /\ Newest /\ FreshIsBare /\ NothingFed)'
  BY UnitTypes DEF SeekIInv, TypeOK, InHand, Newest, FreshIsBare, NothingFed
<1>3. NewestTargetWins'
  BY UnitTypes DEF SeekIInv, TypeOK, Newest, FreshIsBare, NewestTargetWins, Resolving
<1>4. (NothingHeldAcrossASeek /\ ClockHeldThroughTheGap /\ SpinnerIsOwed)'
  BY UnitTypes DEF SeekIInv, TypeOK, Newest, FreshIsBare, NothingFed, NothingHeldAcrossASeek,
     ClockHeldThroughTheGap, SpinnerIsOwed, Resolving
<1> QED
  BY <1>1, <1>2, <1>3, <1>4 DEF SeekIInv

\* An audio unit is dropped.
LEMMA DropAudioKeepsIInv ==
    ASSUME SeekIInv, DropAudio
    PROVE  SeekIInv'
<1> USE DEF mailbox, lanes, rebase, clock, history, DropAudio, MayFeed
<1>1. TypeOK'
  <2>1. TypeOK /\ HasAu("a") /\ Drop("a") /\ "a" \in Lanes
    BY DEF SeekIInv, Lanes
  <2>2. /\ q' \in [Lanes -> Seq(AccessUnits)]
        /\ pending' \in [Lanes -> AccessUnits \cup {NoAu}]
    BY <2>1, DropTypes
  <2> QED
    BY <2>2 DEF SeekIInv, TypeOK
<1>2. (InHand /\ Newest /\ FreshIsBare /\ NothingFed)'
  BY UnitTypes DEF SeekIInv, TypeOK, InHand, Newest, FreshIsBare, NothingFed
<1>3. NewestTargetWins'
  BY UnitTypes DEF SeekIInv, TypeOK, Newest, FreshIsBare, NewestTargetWins, Resolving
<1>4. (NothingHeldAcrossASeek /\ ClockHeldThroughTheGap /\ SpinnerIsOwed)'
  BY UnitTypes DEF SeekIInv, TypeOK, Newest, FreshIsBare, NothingFed, NothingHeldAcrossASeek,
     ClockHeldThroughTheGap, SpinnerIsOwed, Resolving
<1> QED
  BY <1>1, <1>2, <1>3, <1>4 DEF SeekIInv

\* The clock starts: never while the landed keyframe is awaited.
LEMMA PrimeKeepsIInv ==
    ASSUME SeekIInv, try_prime
    PROVE  SeekIInv'
<1> USE DEF mailbox, lanes, rebase, clock, history, try_prime, SpinnerDown, MayFeed
<1>0. ~rebase_pending
  BY Limits DEF SeekIInv, TypeOK, NothingFed, DecoderReady, Lanes
<1>1. TypeOK'
  <2>1. /\ prime_play' \in BOOLEAN /\ seeking' \in BOOLEAN
        /\ UNCHANGED << request, applying, seek_to, seek_target, demux, lanes, stage, rebase,
                        seek_base, max_fed, pts_shift, INPLACE_SEEK_OK, history >>
    OBVIOUS
  <2> HIDE DEF try_prime, SpinnerDown, MayFeed
  <2> QED
    BY <2>1, SMTT(30) DEF SeekIInv, TypeOK
<1>2. (InHand /\ Newest /\ FreshIsBare /\ NothingFed)'
  BY UnitTypes, <1>0 DEF SeekIInv, TypeOK, InHand, Newest, FreshIsBare, NothingFed
<1>3. NewestTargetWins'
  BY UnitTypes, <1>0 DEF SeekIInv, TypeOK, Newest, FreshIsBare, NewestTargetWins, Resolving
<1>4. (NothingHeldAcrossASeek /\ ClockHeldThroughTheGap /\ SpinnerIsOwed)'
  BY UnitTypes, <1>0 DEF SeekIInv, TypeOK, Newest, FreshIsBare, NothingFed, NothingHeldAcrossASeek,
     ClockHeldThroughTheGap, SpinnerIsOwed, Resolving
<1> QED
  BY <1>1, <1>2, <1>3, <1>4 DEF SeekIInv

-----------------------------------------------------------------------------
\* A request that is taken up, and the target an overdue seek goes on to, are the newest target.
LEMMA WorksTowardsTheNewest ==
    ASSUME SeekIInv
    PROVE  /\ CanSeek => request \in Targets /\ request = want
           /\ Overdue => NewestTarget \in Targets /\ NewestTarget = want
<1>1. want \in Nat
  BY Limits DEF SeekIInv, TypeOK
<1> QED
  BY <1>1, UnitTypes
  DEF SeekIInv, TypeOK, Newest, NewestTargetWins, CanSeek, Overdue, NewestTarget, Resolving

\* Every step keeps the invariant.
LEMMA NextKeepsIInv == SeekIInv /\ [Next]_vars => SeekIInv'
<1> SUFFICES ASSUME SeekIInv, [Next]_vars PROVE SeekIInv'
  OBVIOUS
<1>1. CASE Demux
  BY <1>1, TakeSeekKeepsIInv, ReadKeepsIInv, PushKeepsIInv DEF Demux
<1>2. CASE \E t \in Targets : request_seek(t)
  BY <1>2, RequestKeepsIInv
<1>3. CASE Apply
  <2>1. CASE SeekByReload
    <3>1. request \in Targets /\ request = want /\ stage = "Playing" /\ applying.step = "no"
      BY <2>1, WorksTowardsTheNewest DEF SeekByReload, CanSeek
    <3> QED
      BY <2>1, <3>1, ReloadAtKeepsIInv DEF SeekByReload
  <2> QED
    BY <1>3, <2>1, SeekInPlaceKeepsIInv, DrainAudioKeepsIInv, PublishKeepsIInv DEF Apply
<1>4. CASE TimePasses
  BY <1>4, TimePassesKeepsIInv
<1>5. CASE Watch
  <2>1. CASE GiveUp
    <3>1. NewestTarget \in Targets /\ NewestTarget = want
      BY <2>1, WorksTowardsTheNewest DEF GiveUp, Overdue
    <3> QED
      BY <2>1, <3>1, ReloadAtKeepsIInv DEF GiveUp, Overdue
  <2> QED
    BY <1>5, <2>1, RetryReopenKeepsIInv DEF Watch
<1>6. CASE Reload
  BY <1>6, InstallKeepsIInv, LoadCompletesKeepsIInv DEF Reload
<1>7. CASE \E ok \in BOOLEAN : Feed(ok) \/ FeedAudio(ok)
  BY <1>7, DropVideoKeepsIInv, AnchorKeepsIInv, FeedVideoKeepsIInv, FeedAudioKeepsIInv DEF Feed
<1>8. CASE DropAudio
  BY <1>8, DropAudioKeepsIInv
<1>9. CASE try_prime
  BY <1>9, PrimeKeepsIInv
<1>10. CASE UNCHANGED vars
  BY <1>10
  DEF SeekIInv, TypeOK, InHand, Newest, FreshIsBare, NothingFed, NewestTargetWins,
      NothingHeldAcrossASeek, ClockHeldThroughTheGap, SpinnerIsOwed, Resolving, vars, mailbox,
      lanes, rebase, clock, history
<1> QED
  BY <1>1, <1>2, <1>3, <1>4, <1>5, <1>6, <1>7, <1>8, <1>9, <1>10 DEF Next

\* The invariant holds of every behaviour.
THEOREM SeekInvariant == Spec => []SeekIInv
<1>1. Init => SeekIInv
  BY InitIInv
<1>2. SeekIInv /\ [Next]_vars => SeekIInv'
  BY NextKeepsIInv
<1> QED
  BY <1>1, <1>2, PTL DEF Spec

\* The variables of Seek keep their types.
THEOREM SeekTypes == Spec => []TypeOK
<1>1. SeekIInv => TypeOK
  BY DEF SeekIInv
<1> QED
  BY <1>1, SeekInvariant, PTL

\* Once no request waits, the demuxer and the rebase guard have the newest target.
THEOREM TheNewestTargetWins == Spec => []NewestTargetWins
<1>1. SeekIInv => NewestTargetWins
  BY DEF SeekIInv
<1> QED
  BY <1>1, SeekInvariant, PTL

\* No access unit of the old position waits for a retry while a seek awaits its keyframe.
THEOREM NothingIsHeldAcrossASeek == Spec => []NothingHeldAcrossASeek
<1>1. SeekIInv => NothingHeldAcrossASeek
  BY DEF SeekIInv
<1> QED
  BY <1>1, SeekInvariant, PTL

\* The clock is held from the flush or the Load until the landed keyframe.
THEOREM TheClockIsHeld == Spec => []ClockHeldThroughTheGap
<1>1. SeekIInv => ClockHeldThroughTheGap
  BY DEF SeekIInv
<1> QED
  BY <1>1, SeekInvariant, PTL

\* The spinner is up while a request waits, and while it is up somebody will take it down.
THEOREM TheSpinnerIsOwed == Spec => []SpinnerIsOwed
<1>1. SeekIInv => SpinnerIsOwed
  BY DEF SeekIInv
<1> QED
  BY <1>1, SeekInvariant, PTL

\* The seek's safety in one: the types, the held access units, the clock and the spinner (pump.rs,
\* engine.rs).
THEOREM SeekIsSafe == Spec => []SeekSafe
<1>1. (TypeOK /\ NothingHeldAcrossASeek /\ ClockHeldThroughTheGap /\ SpinnerIsOwed) => SeekSafe
  BY DEF SeekSafe
<1> QED
  BY <1>1, SeekTypes, NothingIsHeldAcrossASeek, TheClockIsHeld, TheSpinnerIsOwed, PTL

-----------------------------------------------------------------------------
(* Where a seek lands. *)

\* A reload waits for its first keyframe, which no guard measures against the target.
Fresh == rebase_pending /\ ~flushed /\ stage # "Error"

\* Nothing is held for a retry before the keyframe has been chosen.
NothingHeldYet ==
    rebase_pending \/ stage \in {"Starting", "Loading"} => pending = Nothing

\* A reload's demuxer that has not taken the target has read nothing.
Untaken ==
    (Fresh \/ stage = "Starting") /\ seek_to # None => demux = Opened /\ q = Empty

\* Packet n is the first video unit that the feeder will see.
LandedFirst(n) ==
    \/ q["v"] = << >> /\ demux.at = "read" /\ demux.pos = n
    \/ q["v"] = << >> /\ demux.at = "push" /\ demux.au = File[n]
    \/ q["v"] # << >> /\ Head(q["v"]) = File[n]

\* Once it has, the first video unit in line is the keyframe the newest target lands on.
Taken ==
    Fresh /\ seek_to = None /\ ~missed /\ request = None /\ applying.step = "no" =>
        want \in Targets /\ LandedFirst(Landing(want))

\* A Load whose demuxer was faster than its Engine chose no keyframe.
Unchosen == stage = "Loading" /\ ~rebase_pending => anchor = None

LandsInv == NothingHeldYet /\ Untaken /\ Taken /\ Unchosen /\ LandsNearTarget

\* A nonempty set of natural numbers has a least element.
LEMMA LeastNatural ==
    ASSUME NEW S, S \subseteq Nat, S # {}
    PROVE  \E m \in S : \A n \in S : m <= n
<1>1. \E R, N : IsWellFoundedOn(R, N) /\ N = Nat /\ \A x, y \in Nat : x < y => <<x, y>> \in R
  <2>1. \A x, y \in Nat : x < y => <<x, y>> \in OpToRel(<, Nat)
    BY DEF OpToRel
  <2> QED
    BY <2>1, NatLessThanWellFounded, Zenon
<1>2. PICK R, N : IsWellFoundedOn(R, N) /\ N = Nat /\ \A x, y \in Nat : x < y => <<x, y>> \in R
  BY <1>1, Zenon
<1>3. PICK x \in S : \A y \in S : ~(<<y, x>> \in R)
  <2>1. IsWellFoundedOn(R, N) /\ S \subseteq N
    BY <1>2
  <2> QED
    BY <2>1, WFMin, Zenon
<1>4. \A y \in S : ~(y < x)
  BY <1>2, <1>3
<1> QED
  BY <1>4

\* A backward seek lands on a keyframe at or before its target.
LEMMA LandsBehind ==
    ASSUME NEW t \in Targets
    PROVE  /\ Landing(t) \in 1 .. Len(File)
           /\ File[Landing(t)].key /\ File[Landing(t)].pts <= t
<1> DEFINE K == {n \in DOMAIN File : File[n].key /\ File[n].pts <= t}
           Bounds == {m \in Nat : \A k \in K : k <= m}
<1>1. K \subseteq 1 .. Len(File) /\ Len(File) \in Nat /\ DOMAIN File = 1 .. Len(File)
  BY UnitTypes
<1>2. 1 \in K
  BY <1>1, UnitTypes, SeekAssumption
<1>3. Len(File) \in Bounds
  BY <1>1
<1>4. PICK m \in Bounds : \A n \in Bounds : m <= n
  <2> HIDE DEF Bounds
  <2>1. Bounds \subseteq Nat
    BY DEF Bounds
  <2> QED
    BY <2>1, <1>3, LeastNatural
<1>5. m \in K
  <2> SUFFICES ASSUME m \notin K PROVE FALSE
    OBVIOUS
  <2>1. \A k \in K : k <= m - 1
    BY <1>1, <1>4
  <2>2. m - 1 \in Nat
    BY <1>2, <2>1, <1>4
  <2>3. m - 1 \in Bounds
    BY <2>1, <2>2
  <2> QED
    BY <1>4, <2>3
<1>6. \E n \in DOMAIN File :
        /\ File[n].key /\ File[n].pts <= t
        /\ \A k \in DOMAIN File : File[k].key /\ File[k].pts <= t => k <= n
  BY <1>4, <1>5
<1> HIDE DEF K, Bounds
<1>7. /\ Landing(t) \in DOMAIN File
      /\ File[Landing(t)].key /\ File[Landing(t)].pts <= t
  BY <1>6 DEF Landing
<1> QED
  BY <1>1, <1>7

\* The keyframe a reload lands on is near its target, given keyframes that are dense enough.
LEMMA LandsClose ==
    ASSUME KeyframesAreDense, NEW t \in Targets
    PROVE  /\ File[Landing(t)].pts - t <= SEEK_STALE_AHEAD
           /\ t - File[Landing(t)].pts <= SEEK_STALE_BEHIND
<1>1. File[Landing(t)].pts <= t /\ File[Landing(t)].pts \in Nat /\ t \in Nat
  BY LandsBehind, UnitTypes, Limits
<1>2. {SEEK_STALE_AHEAD, SEEK_STALE_BEHIND} \subseteq Nat
  BY SeekAssumption
<1>3. SEEK_STALE_AHEAD \in Nat
  BY <1>2
<1> QED
  BY <1>1, <1>3 DEF KeyframesAreDense

\* It is a video unit.
LEMMA LandsOnVideo ==
    ASSUME NEW t \in Targets
    PROVE  File[Landing(t)].lane = "v" /\ File[Landing(t)] # NoAu
  BY LandsBehind, UnitTypes, SeekAssumption

\* Playing from the beginning hangs on the beginning.
LEMMA InitLands == Init => LandsInv
<1>1. {SEEK_STALE_AHEAD, SEEK_STALE_BEHIND} \subseteq Nat
  BY SeekAssumption
<1>2. 0 <= SEEK_STALE_AHEAD /\ 0 <= SEEK_STALE_BEHIND
  BY <1>1
<1> QED
  BY <1>2 DEF Init, LandsInv, NothingHeldYet, Untaken, Taken, Unchosen, LandsNearTarget, Fresh, None

\* The demuxer takes the target, reads and pushes: the landed keyframe stays first in line.
LEMMA DemuxLands ==
    ASSUME SeekIInv, LandsInv, Demux
    PROVE  LandsInv'
<1> USE DEF mailbox, lanes, rebase, clock, history
<1>1. CASE TakeSeek
  <2> USE <1>1 DEF TakeSeek
  <2>1. (NothingHeldYet /\ Unchosen)' /\ Untaken'
    BY DEF LandsInv, NothingHeldYet, Unchosen, Untaken, Fresh
  <2>2. Taken'
    <3> SUFFICES ASSUME Fresh, ~missed', request = None, applying.step = "no"
                 PROVE  want \in Targets /\ LandedFirst(Landing(want))'
      BY DEF Taken, Fresh
    <3>1. CASE seek_to = None
      <4>1. want \in Targets /\ LandedFirst(Landing(want)) /\ demux.at = "top"
        BY <3>1 DEF LandsInv, Taken, SeekIInv, TypeOK
      <4> QED
        BY <4>1 DEF LandedFirst
    <3>2. CASE seek_to # None
      <4>1. seek_to = want /\ want \in Targets /\ q = Empty
        BY <3>2 DEF SeekIInv, NewestTargetWins, TypeOK, Fresh, LandsInv, Untaken
      <4>2. demux' = [demux EXCEPT !.at = "read", !.pos = Landing(want)]
        BY <3>2, <4>1
      <4> QED
        BY <4>1, <4>2 DEF LandedFirst, Empty, Lanes, SeekIInv, TypeOK
    <3> QED
      BY <3>1, <3>2
  <2>3. LandsNearTarget'
    BY DEF LandsInv, LandsNearTarget, SeekIInv, TypeOK
  <2> QED
    BY <2>1, <2>2, <2>3 DEF LandsInv
<1>2. CASE Read
  <2> USE <1>2 DEF Read
  <2>1. (NothingHeldYet /\ Unchosen /\ LandsNearTarget)'
    BY DEF LandsInv, NothingHeldYet, Unchosen, LandsNearTarget
  <2>2. Untaken'
    BY DEF LandsInv, Untaken, Fresh, Opened
  <2>3. Taken'
    <3> SUFFICES ASSUME Fresh, seek_to = None, ~missed, request = None, applying.step = "no"
                 PROVE  want \in Targets /\ LandedFirst(Landing(want))'
      BY DEF Taken, Fresh
    <3>1. want \in Targets /\ LandedFirst(Landing(want)) /\ demux.at = "read"
      BY DEF LandsInv, Taken
    <3>2. demux.pos = Landing(want) => ~(demux.pos > Len(File))
      BY <3>1, LandsBehind, UnitTypes
    <3> QED
      BY <3>1, <3>2 DEF LandedFirst
  <2> QED
    BY <2>1, <2>2, <2>3 DEF LandsInv
<1>3. CASE Push
  <2> USE <1>3 DEF Push
  <2>1. (NothingHeldYet /\ Unchosen /\ LandsNearTarget)'
    BY DEF LandsInv, NothingHeldYet, Unchosen, LandsNearTarget
  <2>2. Untaken'
    BY DEF LandsInv, Untaken, Fresh, Opened
  <2>3. Taken'
    <3> SUFFICES ASSUME Fresh, seek_to = None, ~missed, request = None, applying.step = "no"
                 PROVE  want \in Targets /\ LandedFirst(Landing(want))'
      BY DEF Taken, Fresh
    <3>1. want \in Targets /\ LandedFirst(Landing(want)) /\ demux.at = "push"
      BY DEF LandsInv, Taken
    <3>2. q["v"] \in Seq(AccessUnits) /\ demux.au \in AccessUnits /\ demux.au.lane \in Lanes
      BY UnitTypes DEF SeekIInv, TypeOK, InHand, Lanes
    <3>3. CASE q["v"] = << >>
      <4>1. demux.au = File[Landing(want)] /\ demux.au.lane = "v"
        BY <3>1, <3>3, LandsOnVideo DEF LandedFirst
      <4>2. q'["v"] = Append(q["v"], demux.au)
        BY <4>1 DEF SeekIInv, TypeOK, Lanes
      <4>3. q'["v"] # << >> /\ Head(q'["v"]) = File[Landing(want)]
        BY <3>2, <3>3, <4>1, <4>2
      <4> QED
        BY <3>1, <4>3 DEF LandedFirst
    <3>4. CASE q["v"] # << >>
      <4>1. Head(q["v"]) = File[Landing(want)]
        BY <3>1, <3>4 DEF LandedFirst
      <4>2. q'["v"] \in {q["v"], Append(q["v"], demux.au)}
        BY <3>2 DEF SeekIInv, TypeOK, Lanes
      <4>3. q'["v"] # << >> /\ Head(q'["v"]) = File[Landing(want)]
        BY <3>2, <3>4, <4>1, <4>2
      <4> QED
        BY <3>1, <4>3 DEF LandedFirst
    <3> QED
      BY <3>3, <3>4
  <2> QED
    BY <2>1, <2>2, <2>3 DEF LandsInv
<1> QED
  BY <1>1, <1>2, <1>3 DEF Demux

\* A reload begins with a bare demuxer.
LEMMA ReloadAtLands ==
    ASSUME SeekIInv, LandsInv, NEW t \in Targets, reload_at(t)
    PROVE  LandsInv'
<1> USE DEF reload_at, rebase, clock
<1>1. (NothingHeldYet /\ Untaken /\ Unchosen)'
  BY DEF NothingHeldYet, Untaken, Unchosen, Fresh
<1>2. (Taken /\ LandsNearTarget)'
  BY DEF Taken, Fresh, LandsNearTarget
<1> QED
  BY <1>1, <1>2 DEF LandsInv

\* So do the main thread's other steps before a keyframe is chosen.
LEMMA ApplyLands ==
    ASSUME SeekIInv, LandsInv,
           SeekInPlace \/ DrainAudio \/ Publish \/ TimePasses \/ RetryReopen \/ Install
           \/ LoadCompletes \/ try_prime \/ \E t \in Targets : request_seek(t)
    PROVE  LandsInv'
<1> USE DEF mailbox, lanes, rebase, clock, history
<1>1. CASE SeekInPlace
  <2> USE <1>1 DEF SeekInPlace, CanSeek
  <2>1. (NothingHeldYet /\ Unchosen /\ LandsNearTarget /\ Taken)'
    BY DEF LandsInv, NothingHeldYet, Unchosen, LandsNearTarget, Taken, Fresh
  <2>2. Untaken'
    BY DEF LandsInv, Untaken, Fresh, Empty, Lanes
  <2> QED
    BY <2>1, <2>2 DEF LandsInv
<1>2. CASE DrainAudio
  <2> USE <1>2 DEF DrainAudio, DropHeld
  <2>1. (NothingHeldYet /\ Unchosen)'
    BY DEF LandsInv, NothingHeldYet, Unchosen
  <2>2. applying'.step = "audio"
    BY DEF SeekIInv, TypeOK
  <2>3. (LandsNearTarget /\ Taken)'
    BY <2>2 DEF LandsNearTarget, Taken, Fresh
  <2>4. Untaken'
    BY DEF LandsInv, Untaken, Fresh, Empty, Lanes
  <2> QED
    BY <2>1, <2>3, <2>4 DEF LandsInv
<1>3. CASE Publish
  BY <1>3 DEF Publish, DropHeld, LandsInv, NothingHeldYet, Unchosen, LandsNearTarget, Taken, Untaken,
     Fresh, SeekIInv, Newest
<1>4. CASE TimePasses
  BY <1>4 DEF TimePasses, LandsInv, NothingHeldYet, Unchosen, LandsNearTarget, Taken, Untaken,
     Fresh, LandedFirst
<1>5. CASE RetryReopen
  BY <1>5 DEF RetryReopen, Overdue, Resolving, LandsInv, NothingHeldYet, Unchosen, LandsNearTarget,
     Taken, Untaken, Fresh
<1>6. CASE Install
  BY <1>6 DEF Install, LandsInv, NothingHeldYet, Unchosen, LandsNearTarget, Taken, Untaken, Fresh
<1>7. CASE LoadCompletes
  BY <1>7 DEF LoadCompletes, LandsInv, NothingHeldYet, Unchosen, LandsNearTarget, Taken, Untaken,
     Fresh, LandedFirst
<1>8. CASE try_prime
  BY <1>8 DEF try_prime, LandsInv, NothingHeldYet, Unchosen, LandsNearTarget, Taken, Untaken,
     Fresh, LandedFirst
<1>9. CASE \E t \in Targets : request_seek(t)
  <2>1. PICK t \in Targets : request_seek(t)
    BY <1>9
  <2>2. request' # None
    BY <2>1, UnitTypes DEF request_seek
  <2> QED
    BY <2>1, <2>2 DEF request_seek, LandsInv, NothingHeldYet, Unchosen, LandsNearTarget, Taken,
       Untaken, Fresh
<1> QED
  BY <1>1, <1>2, <1>3, <1>4, <1>5, <1>6, <1>7, <1>8, <1>9

\* While a reload waits for its keyframe the feeder has nothing, or that keyframe, before it.
LEMMA FirstInLine ==
    ASSUME SeekIInv, LandsInv, MayFeed, HasAu("v"), Fresh
    PROVE  /\ seek_to = None
           /\ ~missed => want \in Targets /\ NextAu("v") = File[Landing(want)]
<1>1. pending["v"] = NoAu
  BY DEF LandsInv, NothingHeldYet, Fresh, Nothing, Lanes
<1>2. q["v"] # << >> /\ NextAu("v") = Head(q["v"])
  BY <1>1 DEF HasAu, NextAu
<1>3. seek_to = None
  BY <1>2 DEF LandsInv, Untaken, Empty, Lanes
<1> QED
  BY <1>2, <1>3 DEF LandsInv, Taken, LandedFirst, MayFeed

\* The keyframe that is chosen is near the newest target: in place the guard measures it, after a
\* reload it is the one the demuxer landed on.
LEMMA AnchorLands ==
    ASSUME KeyframesAreDense, SeekIInv, LandsInv, NEW ok \in BOOLEAN, Anchor(ok)
    PROVE  LandsInv'
<1> USE DEF Anchor
<1>1. (NothingHeldYet /\ Untaken /\ Taken /\ Unchosen)'
  BY DEF MayFeed, mailbox, NothingHeldYet, Untaken, Taken, Unchosen, Fresh
<1>2. LandsNearTarget'
  <2> SUFFICES ASSUME ~missed, rebase_drops < MAX_REBASE_DROPS
               PROVE  /\ NextAu("v").pts - want <= SEEK_STALE_AHEAD
                      /\ want - NextAu("v").pts <= SEEK_STALE_BEHIND
    BY DEF LandsNearTarget, mailbox
  <2>1. NextAu("v").pts \in Nat /\ want \in Nat
    BY NextAuTypes, Limits DEF SeekIInv, TypeOK, Lanes
  <2>2. CASE flushed
    <3>1. seek_target = want
      BY <2>2 DEF SeekIInv, NewestTargetWins, Resolving, MayFeed
    <3>2. {SEEK_STALE_AHEAD, SEEK_STALE_BEHIND} \subseteq Nat
      BY SeekAssumption
    <3>3. SEEK_STALE_AHEAD \in Nat /\ SEEK_STALE_BEHIND \in Nat
      BY <3>2
    <3>4. ~StaleKeyframe(NextAu("v").pts)
      OBVIOUS
    <3>5. /\ ~(NextAu("v").pts - want > SEEK_STALE_AHEAD)
          /\ ~(want - NextAu("v").pts > SEEK_STALE_BEHIND)
      BY <2>2, <3>1, <3>4 DEF StaleKeyframe
    <3> QED
      BY <2>1, <3>3, <3>5
  <2>3. CASE ~flushed
    <3>1. Fresh
      BY <2>3 DEF Fresh, MayFeed
    <3>2. want \in Targets /\ NextAu("v") = File[Landing(want)]
      BY <3>1, FirstInLine
    <3> QED
      BY <3>2, LandsClose
  <2> QED
    BY <2>2, <2>3
<1> QED
  BY <1>1, <1>2 DEF LandsInv

\* The other feeding steps leave the line's first keyframe and the anchor alone.
LEMMA FeedLands ==
    ASSUME SeekIInv, LandsInv, NEW ok \in BOOLEAN,
           DropVideo \/ FeedVideo(ok) \/ FeedAudio(ok) \/ DropAudio
    PROVE  LandsInv'
<1> USE DEF mailbox, lanes, rebase, clock, history
<1>1. CASE FeedVideo(ok) \/ FeedAudio(ok) \/ DropAudio
  <2>1. /\ ~rebase_pending /\ stage = "Playing"
        /\ UNCHANGED << request, applying, stage, rebase_pending, rebase_drops, anchor, want, missed >>
    BY <1>1 DEF FeedVideo, FeedAudio, DropAudio, MayFeed
  <2> QED
    BY <2>1 DEF LandsInv, NothingHeldYet, Unchosen, LandsNearTarget, Taken, Untaken, Fresh
<1>2. CASE DropVideo
  <2> USE <1>2 DEF DropVideo
  <2>1. stage = "Playing" /\ UNCHANGED << stage, rebase_pending, flushed, want, missed, request, applying, anchor >>
    BY DEF MayFeed
  <2>2. Fresh => missed /\ seek_to = None
    <3> SUFFICES ASSUME Fresh PROVE missed /\ seek_to = None
      OBVIOUS
    <3>1. ~NextAu("v").key /\ MayFeed /\ HasAu("v")
      BY DEF Fresh, StaleKeyframe
    <3> QED
      BY <3>1, FirstInLine, LandsBehind DEF SeekIInv, TypeOK
  <2>3. (Untaken /\ Taken)'
    BY <2>1, <2>2 DEF Untaken, Taken, Fresh
  <2>4. NothingHeldYet'
    <3>1. rebase_pending => pending' = Nothing
      BY DEF LandsInv, NothingHeldYet, Drop, Nothing, Lanes
    <3> QED
      BY <2>1, <3>1 DEF NothingHeldYet
  <2>5. (Unchosen /\ LandsNearTarget)'
    BY <2>1 DEF LandsInv, Unchosen, LandsNearTarget
  <2> QED
    BY <2>3, <2>4, <2>5 DEF LandsInv
<1> QED
  BY <1>1, <1>2

\* Every step keeps it.
LEMMA NextLands == KeyframesAreDense /\ SeekIInv /\ LandsInv /\ [Next]_vars => LandsInv'
<1> SUFFICES ASSUME KeyframesAreDense, SeekIInv, LandsInv, [Next]_vars PROVE LandsInv'
  OBVIOUS
<1>1. CASE Demux
  BY <1>1, DemuxLands
<1>2. CASE Apply
  BY <1>2, ApplyLands, ReloadAtLands, WorksTowardsTheNewest DEF Apply, SeekByReload
<1>3. CASE Watch
  BY <1>3, ApplyLands, ReloadAtLands, WorksTowardsTheNewest DEF Watch, GiveUp
<1>4. CASE TimePasses \/ Reload \/ try_prime \/ \E t \in Targets : request_seek(t)
  BY <1>4, ApplyLands DEF Reload
<1>5. CASE \E ok \in BOOLEAN : Feed(ok) \/ FeedAudio(ok)
  BY <1>5, FeedLands, AnchorLands DEF Feed
<1>6. CASE DropAudio
  BY <1>6, FeedLands
<1>7. CASE UNCHANGED vars
  BY <1>7
  DEF vars, mailbox, lanes, rebase, clock, history, LandsInv, NothingHeldYet, Unchosen,
      LandsNearTarget, Taken, Untaken, Fresh, LandedFirst
<1> QED
  BY <1>1, <1>2, <1>3, <1>4, <1>5, <1>6, <1>7 DEF Next

\* With keyframes that are dense enough the timeline hangs on a keyframe of the newest target,
\* however many seeks, retries and reloads came before it (engine.rs, the rebase guard).
THEOREM SeeksLandNearTheTarget ==
    ASSUME KeyframesAreDense
    PROVE  Spec => []LandsNearTarget
<1>1. Init => LandsInv
  BY InitLands
<1>2. SeekIInv /\ LandsInv /\ [Next]_vars => LandsInv'
  BY NextLands
<1>3. LandsInv => LandsNearTarget
  BY DEF LandsInv
<1> QED
  BY <1>1, <1>2, <1>3, SeekInvariant, PTL DEF Spec

-----------------------------------------------------------------------------
(***************************************************************************)
(* Foreground                                                              *)
(***************************************************************************)

PhaseType ==
    [st : {"Idle", "Resolving", "Stable", "Failed", "Stopping"} \cup Transacting,
     serial : Nat, attempt : Nat]

ResultType == [serial : Nat, attempt : Nat, ok : BOOLEAN]

ControlType ==
    [phase : PhaseType, fallback : PhaseType, next_action : Nat, next_attempt : Nat,
     results : Seq(ResultType), last : ResultType]

NativeType ==
    [st : {"Idle", "Active", "Unloaded", "Abandoned"}, epoch : Nat, returned : BOOLEAN,
     next_epoch : Nat, overdue : BOOLEAN, load_failed : BOOLEAN, load_timed_out : BOOLEAN]

EngineType == [epoch : Nat, serial : Nat, attempt : Nat, playing : BOOLEAN]

LoadType ==
    [epoch : Nat, serial : Nat, attempt : Nat,
     step : {"loading", "returned", "marked", "published", "done"}, ok : BOOLEAN]

PlayerType ==
    [control : ControlType, native : NativeType, engine : EngineType, parked : Nat,
     url : {"none", "direct", "transcode"}, armed : -1 .. MaxPos, pos : 0 .. MaxPos,
     paused : BOOLEAN]

FgType ==
    [st : FgStates, pos : 0 .. MaxPos, clock : {"Paused", "Playing"}, attempt : Nat]

\* A phase a route can rest in: its transaction was handed out, and it has a number.
Handed(c, ph) ==
    /\ ph.serial <= c.next_action
    /\ ph.st \in Transacting \cup {"Failed"} => ph.serial > 0

\* The route's numbers: no settled transaction is reused, no attempt is published before it is
\* minted, and a request hides a phase at rest.
Route(c) ==
    /\ Handed(c, c.phase)
    /\ c.phase.st # "Stopping"
    /\ c.last.serial <= c.next_action
    /\ c.phase.st \in Transacting => c.last.serial < c.phase.serial
    /\ \A i \in DOMAIN c.results : c.results[i].attempt <= c.next_attempt
    /\ c.phase.st = "Resolving" =>
         Handed(c, c.fallback) /\ c.fallback.st \in {"Idle", "Stable", "Failed"}

\* Only a refused Load has a step between its result and its end.
Published(l) == l.step = "published" => ~l.ok

\* What the route says of the Load of the live engine.
Tells(c, l) ==
    /\ c.phase.st # "Resolving"
    /\ c.phase.st = "Starting" => c.phase.serial = l.serial /\ c.phase.attempt = l.attempt
    /\ c.phase.st = "Stable" => Finished(l) /\ l.ok
    /\ c.phase.st = "Failed" /\ c.last.serial = c.phase.serial => c.last.attempt = l.attempt
    /\ l.attempt <= c.next_attempt
    /\ \A i \in DOMAIN c.results :
         c.results[i].attempt = l.attempt => l.step \in {"published", "done"} /\ c.results[i].ok = l.ok

\* What the native session says of it.
Serves(n, l) ==
    /\ n.epoch = l.epoch /\ n.st \in {"Active", "Unloaded"}
    /\ n.load_failed => n.load_timed_out \/ (Finished(l) /\ ~l.ok)

Running(p, l) ==
    /\ l.epoch = p.engine.epoch /\ l.serial = p.engine.serial /\ l.attempt = p.engine.attempt
    /\ l.epoch > 0 /\ l.attempt > 0
    /\ Published(l)
    /\ Tells(p.control, l)
    /\ Serves(p.native, l)

\* No engine: nothing is in flight, nothing has failed.
Quiet(p) ==
    /\ ~Live(p)
    /\ p.native.st # "Active" /\ ~p.native.load_failed
    /\ p.control.phase.st # "Starting"

Waiting(p, l) ==
    l.epoch = p.parked /\ l.attempt <= p.control.next_attempt /\ Published(l)

\* The engine's Load, the parked Load, or none: never two.
WithEngine(p, ls) ==
    Live(p) /\ p.parked = 0 /\ \E l \in LoadType : ls = {l} /\ Running(p, l)

WithParked(p, ls) ==
    Quiet(p) /\ p.parked # 0 /\ \E l \in LoadType : ls = {l} /\ Waiting(p, l)

AtRest(p, ls) == Quiet(p) /\ p.parked = 0 /\ ls = {}

Sound(p, ls) ==
    /\ p \in PlayerType
    /\ Route(p.control)
    /\ WithEngine(p, ls) \/ WithParked(p, ls) \/ AtRest(p, ls)

FgIInv ==
    /\ fg \in FgType
    /\ play \in {"none", "busy", "slot"} /\ window \in BOOLEAN /\ page \in BOOLEAN
    /\ pc \in {"events", "check", "poll", "land"}
    /\ Sound(player, loads)
    /\ Live(player) => page
    /\ pc = "check" => Live(player)
    /\ ParkedOwnsNoEngine
    /\ BrowsingCanPlay

\* Reducers that leave the attempts alone and say nothing new of a running Load.
Kept(c, d) ==
    /\ d \in ControlType /\ Route(d)
    /\ d.next_attempt = c.next_attempt
    /\ \A l \in LoadType : Published(l) /\ Tells(c, l) => Tells(d, l)

Rephase(c, ph, n) == [c EXCEPT !.phase = ph, !.next_action = n]

\* A change of the phase alone, to a phase that claims nothing of a running Load, is one.
LEMMA Rephased ==
    ASSUME NEW c \in ControlType, Route(c), NEW ph \in PhaseType, NEW n \in Nat, n >= c.next_action,
           ph.serial <= n, ph.st \notin {"Resolving", "Starting", "Stable", "Stopping"},
           ph.st \in Transacting => ph.serial > c.last.serial,
           ph.st = "Failed" => ph.serial > c.last.serial
    PROVE  Kept(c, Rephase(c, ph, n)) /\ Rephase(c, ph, n).phase = ph
<1> DEFINE d == Rephase(c, ph, n)
<1>1. /\ d.phase = ph /\ d.next_action = n /\ d.results = c.results /\ d.last = c.last
      /\ d.next_attempt = c.next_attempt /\ d.fallback = c.fallback
  BY DEF ControlType, Rephase
<1>2. d \in ControlType
  BY DEF ControlType, Rephase
<1>3. /\ ph.st \in {"Idle", "Failed"} \cup Transacting /\ ph.serial \in Nat
      /\ c.last.serial \in Nat /\ c.next_action \in Nat
  BY DEF PhaseType, ControlType, ResultType
<1> HIDE DEF d
<1>4. Route(d)
  BY <1>1, <1>3 DEF Route, Handed
<1>5. ASSUME NEW l \in LoadType, Tells(c, l) PROVE Tells(d, l)
  BY <1>1, <1>3, <1>5 DEF Tells
<1>6. Kept(c, d)
  BY <1>1, <1>2, <1>4, <1>5 DEF Kept
<1> QED
  BY <1>1, <1>6 DEF d

\* The fields of a control.
LEMMA ControlFields ==
    ASSUME NEW c \in ControlType
    PROVE  /\ c.phase \in PhaseType /\ c.fallback \in PhaseType /\ c.last \in ResultType
           /\ c.next_action \in Nat /\ c.next_attempt \in Nat /\ c.results \in Seq(ResultType)
           /\ c.phase.serial \in Nat /\ c.phase.attempt \in Nat /\ c.last.serial \in Nat
           /\ c.last.attempt \in Nat
           /\ c.phase.st \in {"Idle", "Resolving", "Stable", "Failed", "Stopping"} \cup Transacting
  BY DEF ControlType, PhaseType, ResultType

\* A phase and its parts.
LEMMA PhaseIs ==
    ASSUME NEW st \in {"Idle", "Resolving", "Stable", "Failed", "Stopping"} \cup Transacting,
           NEW serial \in Nat, NEW attempt \in Nat
    PROVE  /\ Phase(st, serial, attempt) \in PhaseType
           /\ Phase(st, serial, attempt).st = st /\ Phase(st, serial, attempt).serial = serial
           /\ Phase(st, serial, attempt).attempt = attempt
  BY DEF Phase, PhaseType

\* Nothing changed is nothing said.
LEMMA KeptItself == ASSUME NEW c \in ControlType, Route(c) PROVE Kept(c, c)
  BY DEF Kept

\* begin_route_start: a new or kept transaction says nothing new of a running Load.
LEMMA BeginRouteStart ==
    ASSUME NEW c \in ControlType, Route(c)
    PROVE  /\ Kept(c, begin_route_start(c))
           /\ begin_route_start(c).phase.st \in Transacting \cup {"Resolving"}
           /\ begin_route_start(c).phase.st = "Starting" => c.phase.st = "Starting"
           /\ begin_route_start(c).phase.st = "Resolving" => c.phase.st = "Resolving"
           /\ c.phase.st \in Transacting \cup {"Resolving"} => begin_route_start(c) = c
<1> USE ControlFields
<1>1. CASE c.phase.st \in {"Stable", "Failed", "Idle"}
  <2> DEFINE ph == Phase(IF c.phase.st = "Stable" THEN "Preparing" ELSE "Prepared", c.next_action + 1, 0)
             n == c.next_action + 1
  <2>1. begin_route_start(c) = Rephase(c, ph, n)
    BY <1>1 DEF begin_route_start, ControlType, Rephase
  <2>2. /\ ph \in PhaseType /\ ph.st \in {"Preparing", "Prepared"} /\ ph.serial = c.next_action + 1
        /\ n \in Nat /\ n >= c.next_action
    BY DEF Phase, PhaseType, Transacting
  <2>3. ph.serial > c.last.serial
    BY <2>2 DEF Route
  <2> HIDE DEF ph, n
  <2>4. n = c.next_action + 1
    BY DEF n
  <2>5. Kept(c, Rephase(c, ph, n)) /\ Rephase(c, ph, n).phase = ph
    BY <2>2, <2>3, <2>4, Rephased DEF Transacting
  <2> QED
    BY <1>1, <2>1, <2>2, <2>5 DEF Transacting
<1>2. CASE c.phase.st \notin {"Stable", "Failed", "Idle"}
  BY <1>2, KeptItself DEF begin_route_start, Route
<1> QED
  BY <1>1, <1>2


\* With no engine to speak of, only the numbers matter.
Sane(c, d) == d \in ControlType /\ Route(d) /\ d.next_attempt = c.next_attempt

\* Kept is the stronger of the two.
LEMMA KeptIsSane == ASSUME NEW c, NEW d, Kept(c, d) PROVE Sane(c, d)
  BY DEF Kept, Sane

\* prepare_route_start: Preparing becomes Prepared, under the same transaction.
LEMMA PrepareRouteStart ==
    ASSUME NEW c \in ControlType, Route(c)
    PROVE  /\ Kept(c, prepare_route_start(c))
           /\ prepare_route_start(c).phase.st =
                IF c.phase.st = "Preparing" THEN "Prepared" ELSE c.phase.st
<1> USE ControlFields
<1>1. CASE c.phase.st = "Preparing"
  <2> DEFINE ph == [c.phase EXCEPT !.st = "Prepared"]
             n == c.next_action
  <2>1. prepare_route_start(c) = Rephase(c, ph, n)
    BY <1>1 DEF prepare_route_start, ControlType, Rephase
  <2>2. ph \in PhaseType /\ ph.st = "Prepared" /\ ph.serial = c.phase.serial
    BY DEF PhaseType, Transacting
  <2>3. ph.serial > c.last.serial /\ ph.serial <= c.next_action
    BY <1>1, <2>2 DEF Route, Handed, Transacting
  <2>4. n = c.next_action
    OBVIOUS
  <2> HIDE DEF ph, n
  <2>5. Kept(c, Rephase(c, ph, n)) /\ Rephase(c, ph, n).phase = ph
    BY <2>2, <2>3, <2>4, Rephased DEF Transacting
  <2> QED
    BY <1>1, <2>1, <2>2, <2>5
<1>2. CASE c.phase.st # "Preparing"
  BY <1>2, KeptItself DEF prepare_route_start
<1> QED
  BY <1>1, <1>2

\* A phase that has failed keeps its transaction's number.
LEMMA FailsTransaction ==
    ASSUME NEW c \in ControlType, Route(c), c.phase.st \in Transacting
    PROVE  LET d == [c EXCEPT !.phase = Phase("Failed", c.phase.serial, 0)]
           IN  Kept(c, d) /\ d.phase.st = "Failed"
<1> USE ControlFields
<1> DEFINE ph == Phase("Failed", c.phase.serial, 0)
           n == c.next_action
<1>1. [c EXCEPT !.phase = Phase("Failed", c.phase.serial, 0)] = Rephase(c, ph, n)
  BY DEF ControlType, Rephase
<1>2. ph \in PhaseType /\ ph.st = "Failed" /\ ph.serial = c.phase.serial
  BY DEF Phase, PhaseType
<1>3. ph.serial > c.last.serial /\ ph.serial <= c.next_action /\ n = c.next_action
  BY <1>2 DEF Route, Handed
<1> HIDE DEF ph, n
<1>4. Kept(c, Rephase(c, ph, n)) /\ Rephase(c, ph, n).phase = ph
  BY <1>2, <1>3, Rephased DEF Transacting
<1> QED
  BY <1>1, <1>2, <1>4

\* A route put at rest.
LEMMA BareRest ==
    ASSUME NEW c \in ControlType, Route(c), NEW st \in {"Idle", "Stable"}
    PROVE  LET d == [c EXCEPT !.phase = Bare(st)] IN Sane(c, d) /\ d.phase.st = st
<1> DEFINE d == [c EXCEPT !.phase = Bare(st)]
<1>1. /\ d.phase = Bare(st) /\ d.next_action = c.next_action /\ d.results = c.results
      /\ d.last = c.last /\ d.next_attempt = c.next_attempt
  BY DEF ControlType
<1>2. Bare(st) \in PhaseType /\ Bare(st).st = st /\ Bare(st).serial = 0
  BY DEF Bare, Phase, PhaseType
<1>3. d \in ControlType
  BY <1>2 DEF ControlType
<1> HIDE DEF d
<1>4. Route(d)
  BY <1>1, <1>2, ControlFields DEF Route, Handed, Transacting
<1>5. Sane(c, d) /\ d.phase.st = st
  BY <1>1, <1>2, <1>3, <1>4 DEF Sane
<1> QED
  BY <1>5 DEF d

\* Idle says nothing of a running Load.
LEMMA BareIdle ==
    ASSUME NEW c \in ControlType, Route(c)
    PROVE  Kept(c, [c EXCEPT !.phase = Bare("Idle")])
<1>1. Sane(c, [c EXCEPT !.phase = Bare("Idle")])
  BY BareRest
<1>2. ASSUME NEW l \in LoadType, Tells(c, l) PROVE Tells([c EXCEPT !.phase = Bare("Idle")], l)
  BY <1>2 DEF Tells, Bare, Phase, ControlType
<1> QED
  BY <1>1, <1>2 DEF Kept, Sane

\* abort_route_start frees the route; only without a route to open may it speak of the old engine.
LEMMA AbortRouteStart ==
    ASSUME NEW c \in ControlType, Route(c), NEW result
    PROVE  /\ Sane(c, abort_route_start(c, result))
           /\ CanRequest(abort_route_start(c, result))
           /\ result # "NoRoute" => Kept(c, abort_route_start(c, result))
           /\ c.phase.st # "Resolving" => abort_route_start(c, result).phase.st # "Resolving"
<1>1. CASE c.phase.st = "Preparing" /\ result = "NoRoute"
  <2>1. abort_route_start(c, result) = [c EXCEPT !.phase = Bare("Stable")]
    BY <1>1 DEF abort_route_start, Transacting
  <2>2. Sane(c, abort_route_start(c, result)) /\ abort_route_start(c, result).phase.st = "Stable"
    BY <2>1, BareRest
  <2> QED
    BY <1>1, <2>2 DEF CanRequest, Transacting
<1>2. CASE ~(c.phase.st = "Preparing" /\ result = "NoRoute") /\ c.phase.st \in Transacting
  <2>1. abort_route_start(c, result) = [c EXCEPT !.phase = Phase("Failed", c.phase.serial, 0)]
    BY <1>2 DEF abort_route_start
  <2> QED
    BY <1>2, <2>1, FailsTransaction, KeptIsSane DEF CanRequest, Transacting
<1>3. CASE c.phase.st \notin Transacting
  <2>1. abort_route_start(c, result) = c
    BY <1>3 DEF abort_route_start, Transacting
  <2> QED
    BY <1>3, <2>1, KeptItself, KeptIsSane DEF CanRequest
<1> QED
  BY <1>1, <1>2, <1>3

\* reject_route_start_preparation fails a Prepared transaction.
LEMMA RejectPreparation ==
    ASSUME NEW c \in ControlType, Route(c), c.phase.st = "Prepared"
    PROVE  /\ Kept(c, reject_route_start_preparation(c))
           /\ reject_route_start_preparation(c).phase.st = "Failed"
<1>1. reject_route_start_preparation(c) = [c EXCEPT !.phase = Phase("Failed", c.phase.serial, 0)]
  BY DEF reject_route_start_preparation
<1> QED
  BY <1>1, FailsTransaction DEF Transacting

\* fail_current_engine leaves a free route.
LEMMA FailEngine ==
    ASSUME NEW c \in ControlType, Route(c)
    PROVE  /\ Kept(c, fail_current_engine(c))
           /\ fail_current_engine(c).phase.st # "Starting"
           /\ CanRequest(fail_current_engine(c))
<1> USE ControlFields
<1>1. CASE c.phase.st \in Transacting
  <2>1. fail_current_engine(c) = [c EXCEPT !.phase = Phase("Failed", c.phase.serial, 0)]
    BY <1>1 DEF fail_current_engine, Transacting
  <2> QED
    BY <1>1, <2>1, FailsTransaction DEF CanRequest, Transacting
<1>2. CASE c.phase.st = "Stable"
  <2> DEFINE ph == Phase("Failed", c.next_action + 1, 0)
             n == c.next_action + 1
  <2>1. fail_current_engine(c) = Rephase(c, ph, n)
    BY <1>2 DEF fail_current_engine, Transacting, ControlType, Rephase
  <2>2. ph \in PhaseType /\ ph.st = "Failed" /\ ph.serial = c.next_action + 1
    BY DEF Phase, PhaseType
  <2>3. ph.serial > c.last.serial /\ n = c.next_action + 1
    BY <2>2 DEF Route
  <2> HIDE DEF ph, n
  <2>4. Kept(c, Rephase(c, ph, n)) /\ Rephase(c, ph, n).phase = ph
    BY <2>2, <2>3, Rephased DEF Transacting
  <2> QED
    BY <2>1, <2>2, <2>4 DEF CanRequest, Transacting
<1>3. CASE c.phase.st \notin Transacting \cup {"Stable"}
  <2>1. fail_current_engine(c) = c
    BY <1>3 DEF fail_current_engine
  <2> QED
    BY <1>3, <2>1, KeptItself DEF CanRequest, Transacting
<1> QED
  BY <1>1, <1>2, <1>3

\* begin_engine_teardown for a reload hands a started transaction back as Prepared.
LEMMA HandBack ==
    ASSUME NEW c \in ControlType, Route(c)
    PROVE  /\ Kept(c, begin_engine_teardown(c, TRUE))
           /\ begin_engine_teardown(c, TRUE).phase.st =
                IF c.phase.st = "Starting" THEN "Prepared" ELSE c.phase.st
<1> USE ControlFields
<1>1. CASE c.phase.st = "Starting"
  <2> DEFINE ph == Phase("Prepared", c.phase.serial, 0)
             n == c.next_action
  <2>1. begin_engine_teardown(c, TRUE) = Rephase(c, ph, n)
    BY <1>1 DEF begin_engine_teardown, ControlType, Rephase
  <2>2. ph \in PhaseType /\ ph.st = "Prepared" /\ ph.serial = c.phase.serial
    BY DEF Phase, PhaseType, Transacting
  <2>3. ph.serial > c.last.serial /\ ph.serial <= c.next_action /\ n = c.next_action
    BY <1>1, <2>2 DEF Route, Handed, Transacting
  <2> HIDE DEF ph, n
  <2>5. Kept(c, Rephase(c, ph, n)) /\ Rephase(c, ph, n).phase = ph
    BY <2>2, <2>3, Rephased DEF Transacting
  <2> QED
    BY <1>1, <2>1, <2>2, <2>5
<1>2. CASE c.phase.st # "Starting"
  <2>1. begin_engine_teardown(c, TRUE) = c
    BY <1>2 DEF begin_engine_teardown
  <2> QED
    BY <1>2, <2>1, KeptItself
<1> QED
  BY <1>1, <1>2

\* A real stop ends at Idle, whatever was published on the way.
LEMMA StopEnds ==
    ASSUME NEW c \in ControlType, Route(c)
    PROVE  LET d == finish_engine_teardown(begin_engine_teardown(c, FALSE))
           IN  Sane(c, d) /\ d.phase.st = "Idle"
<1>1. begin_engine_teardown(c, FALSE).phase.st = "Stopping"
  BY DEF begin_engine_teardown, Bare, Phase, ControlType
<1>2. finish_engine_teardown(begin_engine_teardown(c, FALSE)) = [c EXCEPT !.phase = Bare("Idle")]
  BY <1>1 DEF finish_engine_teardown, begin_engine_teardown, ControlType
<1> QED
  BY <1>2, BareRest

\* The fallback of a settled request is forgotten, and nothing else of the route.
LEMMA Forgets ==
    ASSUME NEW c \in ControlType, Route(c)
    PROVE  LET f == Forgotten(c)
           IN  /\ Kept(c, f) /\ f.phase = c.phase /\ f.next_action = c.next_action
               /\ f.last = c.last /\ f.results = c.results /\ f.next_attempt = c.next_attempt
<1> DEFINE f == Forgotten(c)
<1>1. /\ f.phase = c.phase /\ f.next_action = c.next_action /\ f.last = c.last
      /\ f.results = c.results /\ f.next_attempt = c.next_attempt /\ f.fallback = Bare("Idle")
  BY DEF Forgotten, ControlType
<1>2. Bare("Idle") \in PhaseType /\ Bare("Idle").st = "Idle" /\ Bare("Idle").serial = 0
  BY DEF Bare, Phase, PhaseType
<1>3. f \in ControlType
  BY <1>2 DEF Forgotten, ControlType
<1> HIDE DEF f
<1>4. Handed(f, Bare("Idle"))
  BY <1>1, <1>2, ControlFields DEF Handed, Transacting
<1>5. Route(f)
  BY <1>1, <1>2, <1>4 DEF Route, Handed
<1>6. ASSUME NEW l \in LoadType, Tells(c, l) PROVE Tells(f, l)
  BY <1>1, <1>6 DEF Tells
<1> QED
  BY <1>1, <1>3, <1>5, <1>6 DEF Kept, f

\* prepare_playback_landing: a plan without a playable route ends at Idle, another is Prepared.
LEMMA LandingPrepared ==
    ASSUME NEW c \in ControlType, Route(c), NEW playable \in BOOLEAN
    PROVE  LET d == prepare_playback_landing(c, playable)
           IN  /\ Kept(c, d)
               /\ d.phase.st = "Starting" => c.phase.st = "Starting"
               /\ ~playable => d.phase.st = "Idle"
               /\ playable => d.phase.st \in {"Prepared", "Starting"}
<1> DEFINE f == Forgotten(c)
           d == prepare_playback_landing(c, playable)
<1>1. /\ Kept(c, f) /\ f \in ControlType /\ Route(f) /\ f.phase = c.phase
      /\ f.next_action = c.next_action /\ f.last = c.last
  BY Forgets DEF Kept
<1>2. /\ ~playable => d = [f EXCEPT !.phase = Bare("Idle")]
      /\ playable /\ c.phase.st \in Transacting => d = prepare_route_start(f)
      /\ playable /\ c.phase.st \notin Transacting =>
           d = [f EXCEPT !.next_action = @ + 1, !.phase = Phase("Prepared", c.next_action + 1, 0)]
  BY DEF prepare_playback_landing
<1> HIDE DEF f, d
<1>3. /\ Kept(f, d)
      /\ d.phase.st = "Starting" => c.phase.st = "Starting"
      /\ ~playable => d.phase.st = "Idle"
      /\ playable => d.phase.st \in {"Prepared", "Starting"}
  <2>1. CASE ~playable
    BY <1>1, <1>2, <2>1, BareIdle, BareRest
  <2>2. CASE playable /\ c.phase.st \in Transacting
    BY <1>1, <1>2, <2>2, PrepareRouteStart DEF Transacting
  <2>3. CASE playable /\ c.phase.st \notin Transacting
    <3> DEFINE ph == Phase("Prepared", c.next_action + 1, 0)
               n == f.next_action + 1
    <3>1. d = Rephase(f, ph, n)
      BY <1>1, <1>2, <2>3 DEF ControlType, Rephase
    <3>2. ph \in PhaseType /\ ph.st = "Prepared" /\ ph.serial = f.next_action + 1
      BY <1>1, ControlFields DEF Phase, PhaseType, Transacting
    <3>3. ph.serial > f.last.serial /\ n = f.next_action + 1 /\ f.next_action \in Nat
      BY <1>1, <3>2, ControlFields DEF Route
    <3> HIDE DEF ph, n
    <3>4. n \in Nat /\ n >= f.next_action /\ ph.serial <= n
      BY <3>2, <3>3
    <3>5. Kept(f, Rephase(f, ph, n)) /\ Rephase(f, ph, n).phase = ph
      BY <1>1, <3>2, <3>3, <3>4, Rephased DEF Transacting
    <3> QED
      BY <2>3, <3>1, <3>2, <3>5
  <2> QED
    BY <2>1, <2>2, <2>3
<1>4. Kept(c, d)
  BY <1>1, <1>3 DEF Kept
<1> QED
  BY <1>3, <1>4 DEF d

\* cancel_playback_request gives the hidden phase back, and only a request has one.
LEMMA CancelRequest ==
    ASSUME NEW c \in ControlType, Route(c)
    PROVE  LET d == cancel_playback_request(c)
           IN  /\ Sane(c, d)
               /\ c.phase.st # "Resolving" => d = c
               /\ c.phase.st = "Resolving" => d.phase.st \in {"Idle", "Stable", "Failed"}
<1>1. CASE c.phase.st = "Resolving"
  <2> DEFINE f == Forgotten(c)
             d == [f EXCEPT !.phase = c.fallback]
  <2>0. /\ f \in ControlType /\ f.next_action = c.next_action /\ f.last = c.last
        /\ f.results = c.results /\ f.next_attempt = c.next_attempt
    BY Forgets DEF Kept
  <2>1. /\ d.phase = c.fallback /\ d.next_action = c.next_action /\ d.results = c.results
        /\ d.last = c.last /\ d.next_attempt = c.next_attempt /\ d \in ControlType
    <3> HIDE DEF f
    <3> QED
      BY <2>0 DEF ControlType
  <2>2. cancel_playback_request(c) = d
    BY <1>1 DEF cancel_playback_request
  <2> HIDE DEF d
  <2>3. Handed(c, c.fallback) /\ c.fallback.st \in {"Idle", "Stable", "Failed"}
    BY <1>1 DEF Route
  <2>4. Route(d)
    BY <2>1, <2>3 DEF Route, Handed, Transacting
  <2> QED
    BY <1>1, <2>1, <2>2, <2>3, <2>4 DEF Sane
<1>2. CASE c.phase.st # "Resolving"
  BY <1>2, KeptItself, KeptIsSane DEF cancel_playback_request
<1> QED
  BY <1>1, <1>2

\* begin_playback_request hides a phase at rest.
LEMMA BeginRequest ==
    ASSUME NEW c \in ControlType, Route(c), CanRequest(c)
    PROVE  LET d == begin_playback_request(c)
           IN  Sane(c, d) /\ d.phase.st = "Resolving"
<1> DEFINE d == begin_playback_request(c)
           back == IF c.phase.st = "Resolving" THEN c.fallback ELSE c.phase
<1>1. /\ d.phase = Bare("Resolving") /\ d.next_action = c.next_action /\ d.results = c.results
      /\ d.last = c.last /\ d.next_attempt = c.next_attempt /\ d.fallback = back
  BY DEF begin_playback_request, ControlType
<1>2. Bare("Resolving") \in PhaseType /\ Bare("Resolving").st = "Resolving" /\ Bare("Resolving").serial = 0
  BY DEF Bare, Phase, PhaseType
<1>3. d \in ControlType
  BY <1>2 DEF begin_playback_request, ControlType
<1>4. Handed(c, back) /\ back.st \in {"Idle", "Stable", "Failed"}
  BY ControlFields DEF Route, CanRequest
<1> HIDE DEF d, back
<1>5. Route(d)
  BY <1>1, <1>2, <1>4, ControlFields DEF Route, Handed, Transacting
<1>6. Sane(c, d) /\ d.phase.st = "Resolving"
  BY <1>1, <1>2, <1>3, <1>5 DEF Sane
<1> QED
  BY <1>6 DEF d

\* What a queued result is.
LEMMA QueuedResults ==
    ASSUME NEW c \in ControlType
    PROVE  \A i \in DOMAIN c.results : i \in Nat /\ c.results[i] \in ResultType /\ c.results[i].attempt \in Nat
<1> DEFINE rs == c.results
<1>1. rs \in Seq(ResultType)
  BY ControlFields
<1> HIDE DEF rs
<1>2. \A i \in DOMAIN rs : i \in Nat /\ rs[i] \in ResultType
  BY <1>1
<1>3. \A i \in DOMAIN rs : rs[i].attempt \in Nat
  BY <1>2 DEF ResultType
<1> QED
  BY <1>2, <1>3 DEF rs

\* A result joins the queue; nothing else moves.
LEMMA PublishResult ==
    ASSUME NEW c \in ControlType, Route(c), NEW r \in ResultType, r.attempt <= c.next_attempt
    PROVE  LET d == publish_route_start_result(c, r)
           IN  /\ Sane(c, d) /\ d.phase = c.phase /\ d.last = c.last
               /\ \A i \in DOMAIN d.results :
                    (i \in DOMAIN c.results /\ d.results[i] = c.results[i]) \/ d.results[i] = r
<1> DEFINE d == publish_route_start_result(c, r)
<1>1. /\ d.phase = c.phase /\ d.next_action = c.next_action /\ d.results = Append(c.results, r)
      /\ d.last = c.last /\ d.next_attempt = c.next_attempt /\ d.fallback = c.fallback
  BY DEF publish_route_start_result, ControlType
<1>2. d.results \in Seq(ResultType)
  BY <1>1, ControlFields
<1>3. d \in ControlType
  BY <1>1, <1>2 DEF publish_route_start_result, ControlType
<1>4. \A i \in DOMAIN d.results :
        (i \in DOMAIN c.results /\ d.results[i] = c.results[i]) \/ d.results[i] = r
  BY <1>1, ControlFields
<1> HIDE DEF d
<1>5. Route(d)
  BY <1>1, <1>4 DEF Route, Handed
<1>6. Sane(c, d)
  BY <1>1, <1>3, <1>5 DEF Sane
<1> QED
  BY <1>1, <1>4, <1>6 DEF d

\* A real stop may publish the joined Load's result between its two halves.
LEMMA StopPublishes ==
    ASSUME NEW c \in ControlType, Route(c), NEW r \in ResultType, r.attempt <= c.next_attempt
    PROVE  LET d == finish_engine_teardown(publish_route_start_result(begin_engine_teardown(c, FALSE), r))
           IN  Sane(c, d) /\ d.phase.st = "Idle"
<1> DEFINE m == [c EXCEPT !.phase = Bare("Idle")]
           b == begin_engine_teardown(c, FALSE)
           e == publish_route_start_result(b, r)
<1>1. Sane(c, m) /\ m.phase.st = "Idle"
  BY BareRest
<1>2. b = [c EXCEPT !.phase = Bare("Stopping")]
  BY DEF begin_engine_teardown
<1> HIDE DEF b
<1>a. e = [c EXCEPT !.phase = Bare("Stopping"), !.results = Append(c.results, r)]
  BY <1>2 DEF publish_route_start_result, ControlType
<1> HIDE DEF e
<1>3. e.phase.st = "Stopping"
  BY <1>a DEF Bare, Phase, ControlType
<1>4. finish_engine_teardown(e) = publish_route_start_result(m, r)
  BY <1>a, <1>3 DEF finish_engine_teardown, publish_route_start_result, ControlType
<1> HIDE DEF m
<1>5. m \in ControlType /\ Route(m) /\ m.next_attempt = c.next_attempt
  BY <1>1 DEF Sane
<1>6. Sane(m, publish_route_start_result(m, r)) /\ publish_route_start_result(m, r).phase = m.phase
  BY <1>5, PublishResult
<1>7. Sane(c, finish_engine_teardown(e)) /\ finish_engine_teardown(e).phase.st = "Idle"
  BY <1>1, <1>4, <1>5, <1>6 DEF Sane
<1> QED
  BY <1>7 DEF e, b

\* The exact result of the Load in flight settles the route as the Load ended.
LEMMA SettleRouteStart ==
    ASSUME NEW c \in ControlType, Route(c), NEW r \in ResultType,
           c.phase = Phase("Starting", r.serial, r.attempt),
           NEW d, d = [c EXCEPT !.last = r, !.results = << >>,
                                !.phase = IF r.ok THEN Bare("Stable") ELSE Phase("Failed", r.serial, 0)]
    PROVE  /\ Sane(c, d) /\ d.phase.st # "Starting"
           /\ \A l \in LoadType :
                (Published(l) /\ Tells(c, l) /\ l.step \in {"published", "done"} /\ r.ok = l.ok) => Tells(d, l)
<1> DEFINE ph == IF r.ok THEN Bare("Stable") ELSE Phase("Failed", r.serial, 0)
<1>1. /\ r.serial \in Nat /\ r.attempt \in Nat /\ r.ok \in BOOLEAN
  BY DEF ResultType
<1>2. /\ c.phase.st = "Starting" /\ c.phase.serial = r.serial /\ c.phase.attempt = r.attempt
  BY DEF Phase
<1>3. /\ ph \in PhaseType /\ ph.st = (IF r.ok THEN "Stable" ELSE "Failed")
      /\ ph.serial = (IF r.ok THEN 0 ELSE r.serial)
  BY <1>1 DEF Bare, Phase, PhaseType
<1>4. /\ d.phase = ph /\ d.next_action = c.next_action /\ d.results = << >>
      /\ d.last = r /\ d.next_attempt = c.next_attempt
  BY DEF ControlType
<1>a. d = [c EXCEPT !.last = r, !.results = << >>, !.phase = ph] /\ << >> \in Seq(ResultType)
  OBVIOUS
<1> HIDE DEF ph
<1>5. d \in ControlType
  BY <1>3, <1>a DEF ControlType
<1>6. Route(d)
  BY <1>1, <1>2, <1>3, <1>4, ControlFields DEF Route, Handed, Transacting
<1>7. ASSUME NEW l \in LoadType, Published(l), Tells(c, l), l.step \in {"published", "done"}, r.ok = l.ok
      PROVE  Tells(d, l)
  BY <1>1, <1>2, <1>3, <1>4, <1>7 DEF Tells, Published, Finished
<1> QED
  BY <1>3, <1>4, <1>5, <1>6, <1>7 DEF Sane

\* drain_route_start_results settles the route with the result of the Load it speaks of.
LEMMA DrainResults ==
    ASSUME NEW c \in ControlType, Route(c)
    PROVE  LET d == drain_route_start_results(c)
           IN  Kept(c, d) /\ (d.phase.st = "Starting" => c.phase.st = "Starting")
<1> DEFINE e == [c EXCEPT !.results = << >>]
           hits == { i \in DOMAIN c.results : settle_route_start(e, c.results[i]) # e }
           d == drain_route_start_results(c)
<1>1. /\ e.phase = c.phase /\ e.next_action = c.next_action /\ e.results = << >>
      /\ e.last = c.last /\ e.next_attempt = c.next_attempt /\ e.fallback = c.fallback
      /\ e \in ControlType
  <2>1. << >> \in Seq(ResultType)
    OBVIOUS
  <2> QED
    BY <2>1 DEF ControlType
<1>2. CASE hits = {}
  <2>1. d = e
    BY <1>2 DEF drain_route_start_results
  <2> HIDE DEF e, d
  <2>2. Route(e)
    BY <1>1 DEF Route, Handed
  <2>3. \A l \in LoadType : Tells(c, l) => Tells(e, l)
    BY <1>1 DEF Tells
  <2>4. Kept(c, d) /\ (d.phase.st = "Starting" => c.phase.st = "Starting")
    BY <1>1, <2>1, <2>2, <2>3 DEF Kept
  <2> QED
    BY <2>4 DEF d
<1>3. CASE hits # {}
  <2>1. hits \subseteq Nat
    BY QueuedResults
  <2>2. PICK k \in hits : \A j \in hits : k <= j
    BY <1>3, <2>1, LeastNatural
  <2>3. Min(hits) \in hits
    BY <2>1, <2>2 DEF Min
  <2> DEFINE r == c.results[Min(hits)]
  <2>4. d = settle_route_start(e, r) /\ settle_route_start(e, r) # e
    BY <1>3, <2>3 DEF drain_route_start_results
  <2>5. r \in ResultType /\ Min(hits) \in DOMAIN c.results
    BY <2>3, QueuedResults
  <2>6. e.phase = Phase("Starting", r.serial, r.attempt)
    BY <2>4 DEF settle_route_start
  <2>7. d = [e EXCEPT !.last = r, !.phase = IF r.ok THEN Bare("Stable") ELSE Phase("Failed", r.serial, 0)]
    BY <2>4, <2>6 DEF settle_route_start
  <2>8. d = [c EXCEPT !.last = r, !.results = << >>,
                      !.phase = IF r.ok THEN Bare("Stable") ELSE Phase("Failed", r.serial, 0)]
    BY <2>7 DEF ControlType
  <2> DEFINE h == Min(hits)
  <2>9. r = c.results[h] /\ h \in DOMAIN c.results
    BY <2>5
  <2>10. c.phase = Phase("Starting", r.serial, r.attempt)
    BY <1>1, <2>6
  <2> HIDE DEF e, hits, d, r, h
  <2>11. /\ Sane(c, d) /\ d.phase.st # "Starting"
         /\ \A l \in LoadType :
              (Published(l) /\ Tells(c, l) /\ l.step \in {"published", "done"} /\ r.ok = l.ok) => Tells(d, l)
    BY <2>5, <2>8, <2>10, SettleRouteStart
  <2>12. c.phase.st = "Starting" /\ c.phase.attempt = r.attempt
    BY <2>10 DEF Phase
  <2>13. ASSUME NEW l \in LoadType, Published(l), Tells(c, l)
         PROVE  l.step \in {"published", "done"} /\ r.ok = l.ok
    BY <2>9, <2>12, <2>13 DEF Tells
  <2>14. Kept(c, d)
    BY <2>11, <2>13 DEF Kept, Sane
  <2> QED
    BY <2>11, <2>14 DEF d
<1> QED
  BY <1>2, <1>3

\* The claimed attempt is one nobody has published.
LEMMA ClaimAttempt ==
    ASSUME NEW c \in ControlType, Route(c), c.phase.st = "Prepared"
    PROVE  LET d == claim_route_start_attempt(c)
           IN  /\ d \in ControlType /\ Route(d)
               /\ d.next_attempt = c.next_attempt + 1 /\ d.results = c.results
               /\ d.phase.st = "Starting" /\ d.phase.serial = c.phase.serial
               /\ d.phase.attempt = c.next_attempt + 1
<1> DEFINE d == claim_route_start_attempt(c)
           ph == Phase("Starting", c.phase.serial, c.next_attempt + 1)
<1>1. /\ ph \in PhaseType /\ ph.st = "Starting" /\ ph.serial = c.phase.serial
      /\ ph.attempt = c.next_attempt + 1 /\ c.next_attempt + 1 \in Nat
  BY ControlFields DEF Phase, PhaseType, Transacting
<1>2. /\ d.phase = ph /\ d.next_action = c.next_action /\ d.results = c.results
      /\ d.last = c.last /\ d.next_attempt = c.next_attempt + 1
  BY DEF claim_route_start_attempt, ControlType
<1>3. d \in ControlType
  BY <1>1 DEF claim_route_start_attempt, ControlType
<1>4. \A i \in DOMAIN c.results : c.results[i].attempt \in Nat
  BY QueuedResults
<1> HIDE DEF d, ph
<1>5. Route(d)
  BY <1>1, <1>2, <1>4, ControlFields DEF Route, Handed, Transacting
<1>6. /\ d \in ControlType /\ Route(d)
      /\ d.next_attempt = c.next_attempt + 1 /\ d.results = c.results
      /\ d.phase.st = "Starting" /\ d.phase.serial = c.phase.serial
      /\ d.phase.attempt = c.next_attempt + 1
  BY <1>1, <1>2, <1>3, <1>5
<1> QED
  BY <1>6 DEF d

\* The fields of a player.
LEMMA PlayerFields ==
    ASSUME NEW p \in PlayerType
    PROVE  /\ p.control \in ControlType /\ p.native \in NativeType /\ p.engine \in EngineType
           /\ p.parked \in Nat /\ p.url \in {"none", "direct", "transcode"}
           /\ p.armed \in -1 .. MaxPos /\ p.pos \in 0 .. MaxPos /\ p.paused \in BOOLEAN
           /\ p.engine.attempt \in Nat /\ p.engine.epoch \in Nat /\ p.engine.serial \in Nat
           /\ p.native.next_epoch \in Nat /\ p.native.epoch \in Nat
           /\ p.native.st \in {"Idle", "Active", "Unloaded", "Abandoned"}
  BY DEF PlayerType, NativeType, EngineType

\* Live is about the engine alone.
LEMMA SameEngine ==
    ASSUME NEW p, NEW o, p.engine = o.engine PROVE Live(p) <=> Live(o)
  BY DEF Live

\* What Sound looks at.
LEMMA SoundFields ==
    ASSUME NEW p, NEW o \in PlayerType, NEW ls, Sound(p, ls), o.control = p.control,
           o.native = p.native, o.engine = p.engine, o.parked = p.parked
    PROVE  Sound(o, ls)
  BY DEF Sound, WithEngine, WithParked, AtRest, Running, Quiet, Waiting, Live

\* A reducer that says nothing new of a running Load keeps the player sound.
LEMMA KeepsSound ==
    ASSUME NEW p, NEW ls, Sound(p, ls), NEW d, Kept(p.control, d),
           d.phase.st = "Starting" => p.control.phase.st = "Starting"
    PROVE  Sound([p EXCEPT !.control = d], ls)
<1> DEFINE o == [p EXCEPT !.control = d]
<1>1. /\ o \in PlayerType /\ o.control = d /\ o.native = p.native
      /\ o.engine = p.engine /\ o.parked = p.parked
  BY DEF Sound, PlayerType, Kept
<1> HIDE DEF o
<1>2. Live(o) <=> Live(p)
  BY <1>1 DEF Live
<1>3. ASSUME NEW l \in LoadType, Running(p, l) PROVE Running(o, l)
  BY <1>1, <1>3 DEF Running, Kept
<1>4. ASSUME NEW l \in LoadType, Waiting(p, l) PROVE Waiting(o, l)
  BY <1>1, <1>4 DEF Waiting, Kept
<1>5. Quiet(p) => Quiet(o)
  BY <1>1, <1>2 DEF Quiet
<1>6. Route(o.control)
  BY <1>1 DEF Kept
<1>7. Sound(o, ls)
  BY <1>1, <1>2, <1>3, <1>4, <1>5, <1>6 DEF Sound, WithEngine, WithParked, AtRest
<1> QED
  BY <1>7 DEF o

\* Without an engine any sane route does.
LEMMA SaneSound ==
    ASSUME NEW p, NEW ls, Sound(p, ls), ~Live(p), NEW d, Sane(p.control, d), d.phase.st # "Starting"
    PROVE  Sound([p EXCEPT !.control = d], ls)
<1> DEFINE o == [p EXCEPT !.control = d]
<1>1. /\ o \in PlayerType /\ o.control = d /\ o.native = p.native
      /\ o.engine = p.engine /\ o.parked = p.parked
  BY DEF Sound, PlayerType, Sane
<1> HIDE DEF o
<1>2. ~Live(o)
  BY <1>1 DEF Live
<1>4. ASSUME NEW l \in LoadType, Waiting(p, l) PROVE Waiting(o, l)
  BY <1>1, <1>4 DEF Waiting, Sane
<1>5. Quiet(p) => Quiet(o)
  BY <1>1, <1>2 DEF Quiet
<1>6. Route(o.control)
  BY <1>1 DEF Sane
<1>7. Sound(o, ls)
  BY <1>1, <1>2, <1>4, <1>5, <1>6 DEF Sound, WithEngine, WithParked, AtRest
<1> QED
  BY <1>7 DEF o

\* The parts of a sound player.
LEMMA SoundParts ==
    ASSUME NEW p, NEW ls, Sound(p, ls)
    PROVE  /\ p \in PlayerType /\ p.control \in ControlType /\ Route(p.control)
           /\ Live(p) => p.parked = 0 /\ \E l \in LoadType : ls = {l} /\ Running(p, l)
           /\ ~Live(p) => Quiet(p)
           /\ ~Live(p) /\ p.parked # 0 => \E l \in LoadType : ls = {l} /\ Waiting(p, l)
           /\ ~Live(p) /\ p.parked = 0 => ls = {}
<1>1. p \in PlayerType /\ Route(p.control)
  BY DEF Sound
<1>2. p.control \in ControlType
  BY <1>1 DEF PlayerType
<1> QED
  BY <1>1, <1>2 DEF Sound, WithEngine, WithParked, AtRest, Quiet

\* The thread of an epoch, when there is but one.
LEMMA LoadOfOne ==
    ASSUME NEW l, NEW k, l.epoch = k PROVE LoadOf({l}, k) = l
  BY DEF LoadOf

\* Nothing in flight, nothing failed: a sound player at rest.
LEMMA Rests ==
    ASSUME NEW p \in PlayerType, Route(p.control), Quiet(p), p.parked = 0 PROVE Sound(p, {})
  BY DEF Sound, AtRest

\* A Load that nobody waits for any more, in a player that is quiet otherwise.
LEMMA Parks ==
    ASSUME NEW p \in PlayerType, Route(p.control), Quiet(p), p.parked # 0,
           NEW l \in LoadType, Waiting(p, l)
    PROVE  Sound(p, {l})
  BY DEF Sound, WithParked

\* The reset leaves no Load active and no failure to inherit.
LEMMA ResetNative ==
    ASSUME NEW n \in NativeType, n.st # "Active"
    PROVE  LET m == reset_session(n) IN m \in NativeType /\ m.st # "Active" /\ ~m.load_failed
  BY DEF reset_session, NativeType

\* Retiring the session's own epoch ends its activity.
LEMMA RetireNative ==
    ASSUME NEW n \in NativeType, NEW k, n.epoch = k
    PROVE  LET m == retire_native_session(n, k) IN m \in NativeType /\ m.st # "Active"
  BY DEF retire_native_session, NativeType

\* So does abandoning it.
LEMMA AbandonNative ==
    ASSUME NEW n \in NativeType, NEW k, n.epoch = k
    PROVE  LET m == abandon_native_session(n, k) IN m \in NativeType /\ m.st # "Active"
  BY DEF abandon_native_session, NativeType, Active

\* What a teardown leaves of the route.
EndedRoute(c, for_reload) == IF for_reload THEN c ELSE finish_engine_teardown(c)

TornPhase(c, for_reload) ==
    IF ~for_reload THEN "Idle" ELSE IF c.phase.st = "Starting" THEN "Prepared" ELSE c.phase.st

\* The first half of a teardown is a control.
LEMMA BeginTeardown ==
    ASSUME NEW c \in ControlType, NEW for_reload \in BOOLEAN
    PROVE  begin_engine_teardown(c, for_reload) \in ControlType
<1> DEFINE stopping == Bare("Stopping")
           back == Phase("Prepared", c.phase.serial, 0)
<1>1. stopping \in PhaseType /\ back \in PhaseType
  BY ControlFields DEF Bare, Phase, PhaseType, Transacting
<1>2. CASE ~for_reload
  <2>1. begin_engine_teardown(c, for_reload) = [c EXCEPT !.phase = stopping]
    BY <1>2 DEF begin_engine_teardown
  <2> HIDE DEF stopping
  <2> QED
    BY <1>1, <2>1 DEF ControlType
<1>3. CASE for_reload /\ c.phase.st = "Starting"
  <2>1. begin_engine_teardown(c, for_reload) = [c EXCEPT !.phase = back]
    BY <1>3 DEF begin_engine_teardown
  <2> HIDE DEF back
  <2> QED
    BY <1>1, <2>1 DEF ControlType
<1>4. CASE for_reload /\ c.phase.st # "Starting"
  <2>1. begin_engine_teardown(c, for_reload) = c
    BY <1>4 DEF begin_engine_teardown
  <2> QED
    BY <2>1
<1> QED
  BY <1>2, <1>3, <1>4

\* Both halves of a teardown, with nothing published in between.
LEMMA TeardownRoute ==
    ASSUME NEW c \in ControlType, Route(c), NEW for_reload \in BOOLEAN
    PROVE  LET b == begin_engine_teardown(c, for_reload)
           IN  /\ Sane(c, EndedRoute(b, for_reload))
               /\ EndedRoute(b, for_reload).phase.st = TornPhase(c, for_reload)
<1>1. CASE for_reload
  BY <1>1, HandBack, KeptIsSane DEF EndedRoute, TornPhase
<1>2. CASE ~for_reload
  BY <1>2, StopEnds DEF EndedRoute, TornPhase
<1> QED
  BY <1>1, <1>2

\* Both halves, with the joined Load's result in between.
LEMMA TeardownPublishes ==
    ASSUME NEW c \in ControlType, Route(c), NEW for_reload \in BOOLEAN,
           NEW r \in ResultType, r.attempt <= c.next_attempt
    PROVE  LET b == publish_route_start_result(begin_engine_teardown(c, for_reload), r)
           IN  /\ b \in ControlType
               /\ Sane(c, EndedRoute(b, for_reload))
               /\ EndedRoute(b, for_reload).phase.st = TornPhase(c, for_reload)
<1> DEFINE a == begin_engine_teardown(c, for_reload)
<1>1. a \in ControlType
  BY BeginTeardown
<1>2. publish_route_start_result(a, r) \in ControlType
  <2> HIDE DEF a
  <2>1. Append(a.results, r) \in Seq(ResultType)
    BY <1>1, ControlFields
  <2> QED
    BY <1>1, <2>1 DEF publish_route_start_result, ControlType
<1>3. CASE for_reload
  <2>1. Kept(c, a) /\ a.phase.st = TornPhase(c, for_reload)
    BY <1>3, HandBack DEF TornPhase
  <2> HIDE DEF a
  <2>2. Route(a) /\ a.next_attempt = c.next_attempt
    BY <2>1 DEF Kept
  <2>3. Sane(a, publish_route_start_result(a, r)) /\ publish_route_start_result(a, r).phase = a.phase
    BY <1>1, <2>2, PublishResult
  <2>4. Sane(c, publish_route_start_result(a, r))
    BY <2>2, <2>3 DEF Sane
  <2>5. EndedRoute(publish_route_start_result(a, r), for_reload) = publish_route_start_result(a, r)
    BY <1>3 DEF EndedRoute
  <2> QED
    BY <1>2, <2>1, <2>3, <2>4, <2>5 DEF a
<1>4. CASE ~for_reload
  <2>1. for_reload = FALSE
    BY <1>4
  <2>2. LET d == finish_engine_teardown(publish_route_start_result(begin_engine_teardown(c, FALSE), r))
        IN  Sane(c, d) /\ d.phase.st = "Idle"
    BY StopPublishes
  <2> QED
    BY <1>2, <2>1, <2>2 DEF EndedRoute, TornPhase
<1> QED
  BY <1>3, <1>4

\* The session's reset touches neither the route nor the engine.
LEMMA EndedPlayer ==
    ASSUME NEW p \in PlayerType, p.native.st # "Active",
           NEW for_reload \in BOOLEAN, EndedRoute(p.control, for_reload) \in ControlType
    PROVE  LET o == Ended(p, for_reload)
           IN  /\ o \in PlayerType /\ o.control = EndedRoute(p.control, for_reload)
               /\ o.engine = p.engine /\ o.parked = p.parked
               /\ o.native.st # "Active" /\ ~o.native.load_failed
               /\ for_reload => o.url = p.url
<1>1. /\ reset_session(p.native) \in NativeType /\ reset_session(p.native).st # "Active"
      /\ ~reset_session(p.native).load_failed
  BY PlayerFields, ResetNative
<1>2. -1 \in -1 .. MaxPos /\ 0 \in 0 .. MaxPos
  BY ForegroundAssumption
<1>3. CASE for_reload
  <2>1. Ended(p, for_reload) = [p EXCEPT !.native = reset_session(p.native), !.armed = -1, !.pos = 0]
    BY <1>3 DEF Ended, Reset
  <2> QED
    BY <1>1, <1>2, <1>3, <2>1 DEF PlayerType, EndedRoute
<1>4. CASE ~for_reload
  <2>1. Ended(p, for_reload) =
          [p EXCEPT !.native = reset_session(p.native), !.armed = -1, !.pos = 0,
                    !.control = finish_engine_teardown(p.control), !.url = "none", !.paused = FALSE]
    BY <1>4 DEF Ended, Reset, Stopped, PlayerType
  <2> QED
    BY <1>1, <1>2, <1>4, <2>1 DEF PlayerType, EndedRoute
<1> QED
  BY <1>3, <1>4

\* teardown: whatever was live is joined or parked, and the player is sound and without an engine.
LEMMA Teardown ==
    ASSUME NEW p, NEW ls, Sound(p, ls), NEW for_reload \in BOOLEAN,
           NEW t \in teardown(p, ls, for_reload)
    PROVE  /\ Sound(t.p, t.loads) /\ ~Live(t.p)
           /\ t.p.control.phase.st = TornPhase(p.control, for_reload)
           /\ for_reload => t.p.url = p.url
<1> DEFINE e == p.engine
           l == LoadOf(ls, e.epoch)
           b == begin_engine_teardown(p.control, for_reload)
           gone == [p EXCEPT !.control = begin_engine_teardown(p.control, for_reload), !.engine = NoEngine]
<1>1. p \in PlayerType /\ p.control \in ControlType /\ Route(p.control)
  BY SoundParts
<1>2. /\ b \in ControlType /\ Sane(p.control, EndedRoute(b, for_reload))
      /\ EndedRoute(b, for_reload).phase.st = TornPhase(p.control, for_reload)
  BY <1>1, BeginTeardown, TeardownRoute
<1>3. NoEngine \in EngineType
  BY DEF NoEngine, EngineType
<1>4. TornPhase(p.control, for_reload) # "Starting"
  BY DEF TornPhase
<1>5. CASE ~Live(p)
  <2>1. CASE for_reload
    <3>1. t = [p |-> p, loads |-> ls]
      BY <1>5, <2>1 DEF teardown
    <3>2. p.control.phase.st # "Starting"
      BY <1>5, SoundParts DEF Quiet
    <3> QED
      BY <1>5, <2>1, <3>1, <3>2 DEF TornPhase
  <2>2. CASE ~for_reload
    <3> DEFINE s == [p EXCEPT !.control = begin_engine_teardown(p.control, FALSE)]
    <3>1. t = [p |-> Stopped(s), loads |-> ls]
      BY <1>5, <2>2 DEF teardown
    <3>2. b = begin_engine_teardown(p.control, FALSE)
      BY <2>2
    <3>3. /\ s \in PlayerType /\ s.control = b /\ s.native = p.native /\ s.engine = p.engine
          /\ s.parked = p.parked
      BY <1>1, <1>2, <3>2 DEF PlayerType
    <3>4. Stopped(s) = Ended(s, for_reload)
      BY <2>2 DEF Ended
    <3>5. Quiet(p)
      BY <1>5, SoundParts
    <3> DEFINE o == Ended(s, for_reload)
    <3> HIDE DEF s, b
    <3>6. /\ o \in PlayerType /\ o.control = EndedRoute(s.control, for_reload)
          /\ o.engine = s.engine /\ o.parked = s.parked
          /\ o.native.st # "Active" /\ ~o.native.load_failed
      BY <1>2, <3>3, <3>5, EndedPlayer DEF Quiet, Sane
    <3> HIDE DEF o
    <3>7. Quiet(o) /\ ~Live(o)
      BY <1>2, <1>4, <1>5, <3>3, <3>6, SameEngine DEF Quiet
    <3>8. Route(o.control) /\ o.control.next_attempt = p.control.next_attempt
      BY <1>2, <3>3, <3>6 DEF Sane
    <3>9. Sound(o, ls)
      <4>1. CASE p.parked = 0
        BY <1>5, <3>3, <3>6, <3>7, <3>8, <4>1, SoundParts, Rests
      <4>2. CASE p.parked # 0
        <5>1. PICK w \in LoadType : ls = {w} /\ Waiting(p, w)
          BY <1>5, <4>2, SoundParts
        <5>2. Waiting(o, w)
          BY <3>3, <3>6, <3>8, <5>1 DEF Waiting
        <5> QED
          BY <3>3, <3>6, <3>7, <3>8, <4>2, <5>1, <5>2, Parks
      <4> QED
        BY <4>1, <4>2
    <3>10. t.p = o /\ t.loads = ls
      BY <3>1, <3>4 DEF o
    <3> QED
      BY <1>2, <2>2, <3>3, <3>6, <3>7, <3>9, <3>10
  <2> QED
    BY <2>1, <2>2
<1>6. CASE Live(p)
  <2>1. PICK w \in LoadType : ls = {w} /\ Running(p, w)
    BY <1>6, SoundParts
  <2>2. /\ p.parked = 0 /\ l = w /\ w.epoch = e.epoch /\ w.epoch > 0
        /\ w.attempt <= p.control.next_attempt /\ Published(w) /\ p.native.epoch = e.epoch
    <3>1. p.parked = 0
      BY <1>6, SoundParts
    <3>2. /\ w.epoch = e.epoch /\ w.epoch > 0 /\ Published(w)
          /\ Tells(p.control, w) /\ Serves(p.native, w)
      BY <2>1 DEF Running
    <3>3. l = w
      BY <2>1, <3>2, LoadOfOne
    <3> QED
      BY <3>1, <3>2, <3>3 DEF Tells, Serves
  <2>3. /\ gone \in PlayerType /\ gone.control = b /\ gone.native = p.native
        /\ gone.engine = NoEngine /\ gone.parked = 0 /\ gone.url = p.url
    BY <1>1, <1>2, <1>3, <2>2 DEF PlayerType
  <2>4. CASE ~Finished(l) /\ p.native.load_timed_out
    <3> DEFINE n == abandon_native_session(p.native, e.epoch)
               s == [gone EXCEPT !.native = n, !.parked = e.epoch]
    <3>1. t = [p |-> Ended(s, for_reload), loads |-> ls]
      BY <1>6, <2>3, <2>4 DEF teardown
    <3>2. n \in NativeType /\ n.st # "Active"
      BY <1>1, <2>2, PlayerFields, AbandonNative
    <3>3. e.epoch \in Nat
      BY <1>1, PlayerFields
    <3> HIDE DEF gone, n, e, b
    <3>4. /\ s \in PlayerType /\ s.control = b /\ s.native = n /\ s.engine = NoEngine
          /\ s.parked = e.epoch /\ s.url = p.url
      BY <2>3, <3>2, <3>3 DEF PlayerType
    <3> DEFINE o == Ended(s, for_reload)
    <3> HIDE DEF s
    <3>5. /\ o \in PlayerType /\ o.control = EndedRoute(b, for_reload)
          /\ o.engine = NoEngine /\ o.parked = e.epoch
          /\ o.native.st # "Active" /\ ~o.native.load_failed
          /\ for_reload => o.url = p.url
      BY <1>2, <3>2, <3>4, EndedPlayer DEF Sane
    <3>6. t.p = o /\ t.loads = ls
      BY <3>1
    <3> HIDE DEF o
    <3>7. Quiet(o) /\ ~Live(o)
      BY <1>2, <1>4, <3>5 DEF Quiet, Live
    <3>8. Route(o.control) /\ o.control.next_attempt = p.control.next_attempt
      BY <1>2, <3>5 DEF Sane
    <3>9. Waiting(o, w)
      BY <2>2, <3>5, <3>8 DEF Waiting
    <3>10. e.epoch # 0
      BY <2>2, <3>3
    <3>11. Sound(o, ls)
      BY <2>1, <3>5, <3>7, <3>8, <3>9, <3>10, Parks
    <3> QED
      BY <1>2, <3>5, <3>6, <3>7, <3>11
  <2>5. CASE ~(~Finished(l) /\ p.native.load_timed_out)
    <3>1. PICK ok \in BOOLEAN :
            /\ ok \in (IF l.step = "loading" THEN BOOLEAN ELSE {l.ok})
            /\ t = [p |-> Ended([Joined(gone, l, ok) EXCEPT
                                   !.native = retire_native_session(@, e.epoch)], for_reload),
                    loads |-> ls \ {l}]
      <4>1. w.ok \in BOOLEAN
        BY DEF LoadType
      <4>2. \E ok \in IF l.step = "loading" THEN BOOLEAN ELSE {l.ok} :
              t = [p |-> Ended([Joined(gone, l, ok) EXCEPT
                                   !.native = retire_native_session(@, e.epoch)], for_reload),
                    loads |-> ls \ {l}]
        BY <1>6, <2>5 DEF teardown
      <4> QED
        BY <2>2, <4>1, <4>2
    <3> DEFINE j == Joined(gone, l, ok)
               r == [ResultOf(w) EXCEPT !.ok = ok]
               n == retire_native_session(p.native, e.epoch)
    <3>2. r \in ResultType /\ r.attempt = w.attempt
      BY DEF ResultOf, ResultType, LoadType
    <3>3. /\ j \in PlayerType /\ j.native = p.native /\ j.engine = NoEngine /\ j.parked = 0
          /\ j.url = p.url
          /\ Sane(p.control, EndedRoute(j.control, for_reload))
          /\ EndedRoute(j.control, for_reload).phase.st = TornPhase(p.control, for_reload)
      <4>1. CASE w.step \in {"published", "done"}
        <5>1. j = gone
          BY <2>2, <4>1 DEF Joined
        <5> HIDE DEF gone, b, j
        <5> QED
          BY <1>2, <2>3, <5>1
      <4>2. CASE w.step \notin {"published", "done"}
        <5> DEFINE pub == publish_route_start_result(b, r)
        <5>1. /\ pub \in ControlType
              /\ Sane(p.control, EndedRoute(pub, for_reload))
              /\ EndedRoute(pub, for_reload).phase.st = TornPhase(p.control, for_reload)
          BY <1>1, <2>2, <3>2, TeardownPublishes
        <5> HIDE DEF gone, b
        <5>2. j = [gone EXCEPT !.control = pub]
          BY <2>2, <2>3, <4>2 DEF Joined
        <5> HIDE DEF pub, j
        <5>3. /\ j \in PlayerType /\ j.native = p.native /\ j.engine = NoEngine /\ j.parked = 0
              /\ j.url = p.url /\ j.control = pub
          BY <2>3, <5>1, <5>2 DEF PlayerType
        <5> QED
          BY <5>1, <5>3
      <4> QED
        BY <4>1, <4>2
    <3>4. n \in NativeType /\ n.st # "Active"
      BY <1>1, <2>2, PlayerFields, RetireNative
    <3> DEFINE s == [j EXCEPT !.native = n]
    <3>5. t = [p |-> Ended(s, for_reload), loads |-> {}]
      <4> HIDE DEF j, gone
      <4>1. ls \ {l} = {}
        BY <2>1, <2>2
      <4>2. retire_native_session(j.native, e.epoch) = n
        BY <3>3
      <4> QED
        BY <3>1, <4>1, <4>2 DEF j
    <3> HIDE DEF gone, j, n, e, b
    <3>6. /\ s \in PlayerType /\ s.control = j.control /\ s.native = n /\ s.engine = NoEngine
          /\ s.parked = 0 /\ s.url = p.url
      BY <3>3, <3>4 DEF PlayerType
    <3> DEFINE o == Ended(s, for_reload)
    <3> HIDE DEF s
    <3>7. /\ o \in PlayerType /\ o.control = EndedRoute(j.control, for_reload)
          /\ o.engine = NoEngine /\ o.parked = 0
          /\ o.native.st # "Active" /\ ~o.native.load_failed
          /\ for_reload => o.url = p.url
      BY <3>3, <3>4, <3>6, EndedPlayer DEF Sane
    <3>8. t.p = o /\ t.loads = {}
      BY <3>5
    <3> HIDE DEF o
    <3>9. Quiet(o) /\ ~Live(o)
      BY <1>4, <3>3, <3>7 DEF Quiet, Live
    <3>10. Route(o.control)
      BY <3>3, <3>7 DEF Sane
    <3>11. Sound(o, {})
      BY <3>7, <3>9, <3>10, Rests
    <3> QED
      BY <3>3, <3>7, <3>8, <3>9, <3>11
  <2> QED
    BY <2>4, <2>5
<1> QED
  BY <1>5, <1>6

\* reap_abandoned_load releases the parked Load and leaves the route and the engine alone.
LEMMA ReapLoad ==
    ASSUME NEW p, NEW ls, Sound(p, ls)
    PROVE  LET t == reap_abandoned_load(p, ls)
           IN  /\ Sound(t.p, t.loads) /\ t.p.control = p.control /\ t.p.engine = p.engine
               /\ t.p.url = p.url /\ t.p.armed = p.armed
<1> DEFINE t == reap_abandoned_load(p, ls)
<1>1. CASE p.parked # 0 /\ Finished(LoadOf(ls, p.parked))
  <2> DEFINE n == retire_native_session(p.native, p.parked)
             o == [p EXCEPT !.native = n, !.parked = 0]
  <2>1. p \in PlayerType /\ p.native \in NativeType /\ Route(p.control)
    BY SoundParts, PlayerFields
  <2>2. ~Live(p) /\ Quiet(p)
    BY <1>1, SoundParts
  <2>3. PICK w \in LoadType : ls = {w} /\ Waiting(p, w)
    BY <1>1, <2>2, SoundParts
  <2>4. n \in NativeType /\ n.st # "Active" /\ ~n.load_failed
    BY <2>1, <2>2 DEF retire_native_session, NativeType, Quiet
  <2>5. LoadOf(ls, p.parked) = w
    BY <2>3, LoadOfOne DEF Waiting
  <2>6. t = [p |-> o, loads |-> {}]
    BY <1>1, <2>3, <2>5 DEF reap_abandoned_load
  <2> HIDE DEF n
  <2>7. /\ o \in PlayerType /\ o.control = p.control /\ o.engine = p.engine /\ o.native = n
        /\ o.url = p.url /\ o.armed = p.armed /\ o.parked = 0
    BY <2>1, <2>4 DEF PlayerType
  <2> HIDE DEF o
  <2>8. Quiet(o)
    BY <2>2, <2>4, <2>7, SameEngine DEF Quiet
  <2>9. Sound(o, {})
    BY <2>1, <2>7, <2>8, Rests
  <2> QED
    BY <2>6, <2>7, <2>9
<1>2. CASE ~(p.parked # 0 /\ Finished(LoadOf(ls, p.parked)))
  <2>1. t = [p |-> p, loads |-> ls]
    BY <1>2 DEF reap_abandoned_load
  <2> QED
    BY <2>1
<1> QED
  BY <1>1, <1>2

\* A start refused: the route fails, the seek may be gone, nothing else has moved.
LEMMA RefusedStart ==
    ASSUME NEW p, NEW ls, Sound(p, ls), ~Live(p), NEW c, Sane(p.control, c), NEW armed \in -1 .. MaxPos,
           NEW result
    PROVE  LET o == [p EXCEPT !.control = abort_route_start(c, result), !.armed = armed]
           IN  Sound(o, ls) /\ o.engine = p.engine /\ CanRequest(o.control)
<1> DEFINE d == abort_route_start(c, result)
           m == [p EXCEPT !.control = d]
           o == [p EXCEPT !.control = abort_route_start(c, result), !.armed = armed]
<1>1. Sane(c, d) /\ CanRequest(d)
  BY AbortRouteStart DEF Sane
<1>2. Sane(p.control, d) /\ d.phase.st # "Starting" /\ d \in ControlType
  BY <1>1 DEF Sane, CanRequest, Transacting
<1>3. p \in PlayerType
  BY SoundParts
<1> HIDE DEF d
<1>4. Sound(m, ls)
  BY <1>2, SaneSound
<1>5. /\ o \in PlayerType /\ o.control = d /\ o.engine = p.engine
      /\ o.native = m.native /\ o.control = m.control /\ o.engine = m.engine /\ o.parked = m.parked
  BY <1>2, <1>3 DEF PlayerType, d
<1> HIDE DEF o, m
<1>6. Sound(o, ls)
  BY <1>4, <1>5, SoundFields
<1>7. Sound(o, ls) /\ o.engine = p.engine /\ CanRequest(o.control)
  BY <1>1, <1>5, <1>6
<1> QED
  BY <1>7 DEF o, d

\* The same once an attempt was minted: no Load is parked then.
LEMMA RefusedClaim ==
    ASSUME NEW p, NEW ls, Sound(p, ls), ~Live(p), p.parked = 0, NEW c \in ControlType, Route(c),
           NEW armed \in -1 .. MaxPos
    PROVE  LET o == [p EXCEPT !.control = abort_route_start(c, "StartFailed"), !.armed = armed]
           IN  Sound(o, ls) /\ o.engine = p.engine /\ CanRequest(o.control)
<1> DEFINE d == abort_route_start(c, "StartFailed")
           o == [p EXCEPT !.control = abort_route_start(c, "StartFailed"), !.armed = armed]
<1>1. Sane(c, d) /\ CanRequest(d)
  BY AbortRouteStart
<1>2. d.phase.st # "Starting" /\ d \in ControlType /\ Route(d)
  BY <1>1 DEF Sane, CanRequest, Transacting
<1>3. p \in PlayerType /\ Quiet(p) /\ ls = {}
  BY SoundParts
<1> HIDE DEF d
<1>5. /\ o \in PlayerType /\ o.control = d /\ o.engine = p.engine
      /\ o.native = p.native /\ o.parked = p.parked
  BY <1>2, <1>3 DEF PlayerType, d
<1> HIDE DEF o
<1>6. Quiet(o)
  BY <1>2, <1>3, <1>5, SameEngine DEF Quiet
<1>7. Sound(o, ls)
  BY <1>2, <1>3, <1>5, <1>6, Rests
<1>8. Sound(o, ls) /\ o.engine = p.engine /\ CanRequest(o.control)
  BY <1>1, <1>5, <1>7
<1> QED
  BY <1>8 DEF o, d

\* begin_native_session: an active session, of an epoch that is a positive number.
LEMMA BeginNative ==
    ASSUME NEW n \in NativeType
    PROVE  LET m == begin_native_session(n)
           IN  /\ m \in NativeType /\ m.st = "Active" /\ m.epoch \in Nat /\ m.epoch > 0
               /\ m.load_failed = n.load_failed
<1>1. n.next_epoch + 1 \in Nat /\ n.next_epoch + 1 > 0
  BY DEF NativeType
<1> QED
  BY <1>1 DEF begin_native_session, NativeType

\* A Load launched: the route, the engine and the native session all name it.
LEMMA LaunchedStart ==
    ASSUME NEW p, NEW ls, Sound(p, ls), ~Live(p), p.parked = 0,
           NEW c \in ControlType, Route(c), c.phase.st = "Prepared"
    PROVE  LET d == claim_route_start_attempt(c)
               n == begin_native_session(p.native)
               e == [epoch |-> n.epoch, serial |-> d.phase.serial, attempt |-> d.phase.attempt,
                     playing |-> FALSE]
               l == [epoch |-> e.epoch, serial |-> e.serial, attempt |-> e.attempt,
                     step |-> "loading", ok |-> FALSE]
               o == [p EXCEPT !.control = d, !.native = n, !.engine = e, !.armed = -1]
           IN  Sound(o, ls \cup {l}) /\ Live(o)
<1> DEFINE d == claim_route_start_attempt(c)
           n == begin_native_session(p.native)
           e == [epoch |-> n.epoch, serial |-> d.phase.serial, attempt |-> d.phase.attempt,
                 playing |-> FALSE]
           l == [epoch |-> e.epoch, serial |-> e.serial, attempt |-> e.attempt,
                 step |-> "loading", ok |-> FALSE]
           o == [p EXCEPT !.control = d, !.native = n, !.engine = e, !.armed = -1]
<1>1. /\ d \in ControlType /\ Route(d) /\ d.results = c.results
      /\ d.next_attempt = c.next_attempt + 1 /\ d.phase.attempt = c.next_attempt + 1
      /\ d.phase.st = "Starting"
  BY ClaimAttempt
<1>2. p \in PlayerType /\ Quiet(p) /\ ls = {} /\ p.native \in NativeType
  BY SoundParts, PlayerFields
<1>3. /\ n \in NativeType /\ n.st = "Active" /\ n.epoch \in Nat /\ n.epoch > 0
      /\ n.load_failed = p.native.load_failed
  BY <1>2, BeginNative
<1> HIDE DEF d, n
<1>4. /\ d.phase.serial \in Nat /\ d.phase.attempt \in Nat /\ c.next_attempt \in Nat
  BY <1>1, ControlFields
<1>5. /\ e \in EngineType /\ e.epoch = n.epoch /\ e.serial = d.phase.serial
      /\ e.attempt = d.phase.attempt
  BY <1>3, <1>4 DEF EngineType
<1> HIDE DEF e
<1>6. e # NoEngine
  BY <1>3, <1>5 DEF NoEngine
<1>7. /\ l \in LoadType /\ l.epoch = n.epoch /\ l.serial = d.phase.serial
      /\ l.attempt = d.phase.attempt /\ l.step = "loading"
  BY <1>3, <1>4, <1>5 DEF LoadType
<1> HIDE DEF l
<1>8. -1 \in -1 .. MaxPos
  BY ForegroundAssumption
<1>9. /\ o \in PlayerType /\ o.control = d /\ o.native = n /\ o.engine = e /\ o.parked = 0
  <2>1. o \in PlayerType
    BY <1>1, <1>2, <1>3, <1>5, <1>8 DEF PlayerType
  <2>2. o.control = d /\ o.native = n /\ o.engine = e /\ o.parked = 0
    BY <1>2 DEF PlayerType
  <2> QED
    BY <2>1, <2>2
<1> HIDE DEF o
<1>10. Live(o)
  BY <1>6, <1>9 DEF Live
<1>11. \A i \in DOMAIN d.results : d.results[i].attempt # l.attempt
  <2>1. \A i \in DOMAIN c.results : c.results[i].attempt <= c.next_attempt /\ c.results[i].attempt \in Nat
    BY QueuedResults DEF Route
  <2> QED
    BY <1>1, <1>4, <1>7, <2>1
<1>12. Tells(d, l)
  BY <1>1, <1>4, <1>7, <1>11 DEF Tells
<1>13. Serves(n, l)
  BY <1>2, <1>3, <1>7 DEF Serves, Quiet
<1>14. Running(o, l)
  BY <1>1, <1>3, <1>4, <1>5, <1>7, <1>9, <1>12, <1>13 DEF Running, Published
<1>15. Sound(o, ls \cup {l})
  BY <1>1, <1>2, <1>7, <1>9, <1>10, <1>14 DEF Sound, WithEngine
<1> QED
  BY <1>10, <1>15 DEF o, l, e, n, d

\* start_bufferfeed_inner for a transaction it owns: a Load launched, or a free route.
LEMMA StartsOwned ==
    ASSUME NEW p0, NEW ls0, Sound(p0, ls0), ~Live(p0),
           p0.control.phase.st \in {"Preparing", "Prepared"}, NEW o \in StartOwned(p0, ls0)
    PROVE  /\ Sound(o.p, o.loads) /\ o.out \in {"Launched", "Failed"}
           /\ o.out = "Launched" => Live(o.p)
           /\ o.out = "Failed" => o.p.engine = p0.engine /\ CanRequest(o.p.control)
<1> DEFINE t == reap_abandoned_load(p0, ls0)
           p == t.p
           c == prepare_route_start(p.control)
           d == claim_route_start_attempt(c)
           n == begin_native_session(p.native)
           e == [epoch |-> n.epoch, serial |-> d.phase.serial, attempt |-> d.phase.attempt,
                 playing |-> FALSE]
           l == [epoch |-> e.epoch, serial |-> e.serial, attempt |-> e.attempt,
                 step |-> "loading", ok |-> FALSE]
           refused(result, ctl, armed) ==
              Outcome([p EXCEPT !.control = abort_route_start(ctl, result), !.armed = armed], t.loads, "Failed")
<1>1. /\ Sound(p, t.loads) /\ p.control = p0.control /\ p.engine = p0.engine
  BY ReapLoad
<1>2. ~Live(p)
  BY <1>1, SameEngine
<1>3. p \in PlayerType /\ p.control \in ControlType /\ Route(p.control) /\ p.armed \in -1 .. MaxPos
  BY <1>1, SoundParts, PlayerFields
<1>4. Kept(p.control, c) /\ c.phase.st = "Prepared"
  BY <1>1, <1>3, PrepareRouteStart
<1>5. Sane(p.control, p.control) /\ Sane(p.control, c) /\ c \in ControlType /\ Route(c)
  BY <1>3, <1>4, KeptIsSane, KeptItself DEF Kept
<1>6. d \in ControlType /\ Route(d)
  BY <1>4, <1>5, ClaimAttempt
<1>7. -1 \in -1 .. MaxPos
  BY ForegroundAssumption
<1>8. \/ o = refused("StartFailed", p.control, p.armed)
      \/ o = refused("NoRoute", p.control, p.armed)
      \/ o = refused("StartFailed", c, p.armed)
      \/ /\ p.parked = 0
         /\ \/ o = Outcome([p EXCEPT !.control = d, !.native = n, !.engine = e, !.armed = -1],
                           t.loads \cup {l}, "Launched")
            \/ \E armed \in {p.armed, -1} : o = refused("StartFailed", d, armed)
  <2>1. CASE p.parked # 0
    BY <2>1 DEF StartOwned
  <2>2. CASE p.parked = 0 /\ p.url = "none"
    BY <2>2 DEF StartOwned
  <2>3. CASE p.parked = 0 /\ p.url # "none" /\ p.native.st # "Idle"
    BY <2>3 DEF StartOwned
  <2>4. CASE p.parked = 0 /\ p.url # "none" /\ p.native.st = "Idle"
    BY <2>4 DEF StartOwned
  <2> QED
    BY <2>1, <2>2, <2>3, <2>4
<1>9. ASSUME NEW ctl, NEW armed, NEW result, o = refused(result, ctl, armed),
             LET m == [p EXCEPT !.control = abort_route_start(ctl, result), !.armed = armed]
             IN  Sound(m, t.loads) /\ m.engine = p.engine /\ CanRequest(m.control)
      PROVE  /\ Sound(o.p, o.loads) /\ o.out = "Failed"
             /\ o.p.engine = p0.engine /\ CanRequest(o.p.control)
  BY <1>1, <1>9 DEF Outcome
<1>10. CASE o = refused("StartFailed", p.control, p.armed)
  <2>1. LET m == [p EXCEPT !.control = abort_route_start(p.control, "StartFailed"), !.armed = p.armed]
        IN  Sound(m, t.loads) /\ m.engine = p.engine /\ CanRequest(m.control)
    BY <1>1, <1>2, <1>3, <1>5, RefusedStart
  <2> QED
    BY <1>9, <1>10, <2>1
<1>11. CASE o = refused("NoRoute", p.control, p.armed)
  <2>1. LET m == [p EXCEPT !.control = abort_route_start(p.control, "NoRoute"), !.armed = p.armed]
        IN  Sound(m, t.loads) /\ m.engine = p.engine /\ CanRequest(m.control)
    BY <1>1, <1>2, <1>3, <1>5, RefusedStart
  <2> QED
    BY <1>9, <1>11, <2>1
<1>12. CASE o = refused("StartFailed", c, p.armed)
  <2>1. LET m == [p EXCEPT !.control = abort_route_start(c, "StartFailed"), !.armed = p.armed]
        IN  Sound(m, t.loads) /\ m.engine = p.engine /\ CanRequest(m.control)
    BY <1>1, <1>2, <1>3, <1>5, RefusedStart
  <2> QED
    BY <1>9, <1>12, <2>1
<1>13. CASE p.parked = 0 /\ \E armed \in {p.armed, -1} : o = refused("StartFailed", d, armed)
  <2>1. PICK armed \in -1 .. MaxPos : o = refused("StartFailed", d, armed)
    BY <1>3, <1>7, <1>13
  <2>2. LET m == [p EXCEPT !.control = abort_route_start(d, "StartFailed"), !.armed = armed]
        IN  Sound(m, t.loads) /\ m.engine = p.engine /\ CanRequest(m.control)
    BY <1>1, <1>2, <1>6, <1>13, RefusedClaim
  <2> QED
    BY <1>9, <2>1, <2>2
<1>14. CASE /\ p.parked = 0
            /\ o = Outcome([p EXCEPT !.control = d, !.native = n, !.engine = e, !.armed = -1],
                           t.loads \cup {l}, "Launched")
  <2> DEFINE m == [p EXCEPT !.control = d, !.native = n, !.engine = e, !.armed = -1]
  <2>1. Sound(m, t.loads \cup {l}) /\ Live(m)
    <3>1. p.parked = 0
      BY <1>14
    <3> DEFINE ls == t.loads
    <3>2. Sound(p, ls)
      BY <1>1
    <3> HIDE DEF t, p, c, ls
    <3>3. Sound(m, ls \cup {l}) /\ Live(m)
      BY <1>2, <1>4, <1>5, <3>1, <3>2, LaunchedStart
    <3> QED
      BY <3>3 DEF ls
  <2>2. o.p = m /\ o.loads = t.loads \cup {l} /\ o.out = "Launched"
    BY <1>14 DEF Outcome
  <2> HIDE DEF m
  <2> QED
    BY <2>1, <2>2
<1> QED
  BY <1>8, <1>10, <1>11, <1>12, <1>13, <1>14

\* A route that owns a transaction has a number for it.
LEMMA TicketIs ==
    ASSUME NEW c \in ControlType, Route(c) PROVE Ticket(c) # 0 <=> c.phase.st \in Transacting
  BY ControlFields DEF Ticket, Route, Handed

\* A start leaves the player sound; a failed one leaves the engine alone and the route free.
LEMMA StartsTracked ==
    ASSUME NEW p, NEW ls, Sound(p, ls), NEW o \in start_bufferfeed_tracked(p, ls)
    PROVE  /\ Sound(o.p, o.loads) /\ o.out \in {"Launched", "Failed", "AlreadyRunning"}
           /\ o.out = "Launched" => Live(o.p)
           /\ o.out = "Failed" => o.p.engine = p.engine /\ CanRequest(o.p.control)
           /\ o.out = "AlreadyRunning" => o.p = p /\ Live(p)
<1> DEFINE c == begin_route_start(p.control)
           mine == p.control.phase = Phase("Starting", p.engine.serial, p.engine.attempt)
<1>1. p \in PlayerType /\ p.control \in ControlType /\ Route(p.control)
  BY SoundParts
<1>2. /\ Kept(p.control, c) /\ c.phase.st \in Transacting \cup {"Resolving"}
      /\ c.phase.st = "Starting" => p.control.phase.st = "Starting"
      /\ c.phase.st = "Resolving" => p.control.phase.st = "Resolving"
  BY <1>1, BeginRouteStart
<1>3. CASE Live(p) /\ mine
  <2>0. Ticket(p.control) # 0
    BY <1>1, <1>3, TicketIs DEF Phase, Transacting
  <2>1. o = Outcome(p, ls, "Launched")
    BY <1>3, <2>0 DEF start_bufferfeed_tracked
  <2> QED
    BY <1>3, <2>1 DEF Outcome
<1>4. CASE Live(p) /\ ~mine /\ Ticket(p.control) # 0
  <2> DEFINE d == abort_route_start(p.control, "StartFailed")
             m == [p EXCEPT !.control = d]
  <2>1. o = Outcome(m, ls, "Failed")
    BY <1>4 DEF start_bufferfeed_tracked
  <2>2. Kept(p.control, d) /\ CanRequest(d)
    BY <1>1, AbortRouteStart
  <2> HIDE DEF d
  <2>3. Sound(m, ls)
    BY <2>2, KeepsSound DEF CanRequest, Transacting
  <2>4. m.engine = p.engine /\ m.control = d
    BY <1>1 DEF PlayerType
  <2> HIDE DEF m
  <2> QED
    BY <2>1, <2>2, <2>3, <2>4 DEF Outcome
<1>5. CASE Live(p) /\ ~mine /\ Ticket(p.control) = 0
  <2>1. o = Outcome(p, ls, "AlreadyRunning")
    BY <1>5 DEF start_bufferfeed_tracked
  <2> QED
    BY <1>5, <2>1 DEF Outcome
<1>6. CASE ~Live(p) /\ Ticket(c) = 0
  <2>1. o = Outcome(p, ls, "Failed")
    BY <1>6 DEF start_bufferfeed_tracked
  <2>2. c \in ControlType /\ Route(c)
    BY <1>2 DEF Kept
  <2>3. p.control.phase.st = "Resolving"
    BY <1>2, <1>6, <2>2, TicketIs
  <2> QED
    BY <2>1, <2>3 DEF Outcome, CanRequest, Transacting
<1>7. CASE ~Live(p) /\ Ticket(c) # 0
  <2> DEFINE m == [p EXCEPT !.control = c]
  <2>1. o \in StartOwned(m, ls)
    BY <1>7 DEF start_bufferfeed_tracked
  <2>2. c \in ControlType /\ Route(c)
    BY <1>2 DEF Kept
  <2>3. p.control.phase.st # "Starting"
    BY <1>7, SoundParts DEF Quiet
  <2>4. c.phase.st \in {"Preparing", "Prepared"}
    BY <1>2, <1>7, <2>2, <2>3, TicketIs DEF Transacting
  <2> HIDE DEF c
  <2>5. Sound(m, ls)
    BY <1>2, KeepsSound
  <2>6. m.engine = p.engine /\ m.control = c
    BY <1>1 DEF PlayerType
  <2> HIDE DEF m
  <2>7. ~Live(m)
    BY <1>7, <2>6, SameEngine
  <2> QED
    BY <2>1, <2>4, <2>5, <2>6, <2>7, StartsOwned
<1> QED
  BY <1>3, <1>4, <1>5, <1>6, <1>7

\* A new resume point changes nothing that Sound looks at.
LEMMA PositionedSound ==
    ASSUME NEW p, NEW ls, Sound(p, ls), NEW pos \in 0 .. MaxPos
    PROVE  LET o == Positioned(p, pos)
           IN  Sound(o, ls) /\ o.control = p.control /\ o.engine = p.engine
<1> DEFINE o == Positioned(p, pos)
<1>1. p \in PlayerType
  BY SoundParts
<1>2. pos \in -1 .. MaxPos
  OBVIOUS
<1>3. /\ o \in PlayerType /\ o.control = p.control /\ o.engine = p.engine
      /\ o.native = p.native /\ o.parked = p.parked
  BY <1>1, <1>2 DEF Positioned, PlayerType
<1> HIDE DEF o
<1>4. Sound(o, ls) /\ o.control = p.control /\ o.engine = p.engine
  BY <1>3, SoundFields
<1> QED
  BY <1>4 DEF o

\* resume_at, prepared or refused.
LEMMA ResumesAt ==
    ASSUME NEW p, NEW ls, Sound(p, ls), NEW pos \in 0 .. MaxPos, NEW r \in resume_at(p, pos)
    PROVE  Sound(r.p, ls) /\ r.p.control = p.control /\ r.p.engine = p.engine
<1>1. pos \in Int
  OBVIOUS
<1>2. \/ \E b \in BOOLEAN : r = [p |-> p, prepared |-> b]
      \/ r = [p |-> Positioned(p, pos), prepared |-> TRUE]
  <2>1. CASE pos <= 0
    BY <2>1 DEF resume_at
  <2>2. CASE pos > 0 /\ p.url = "none"
    BY <2>2 DEF resume_at
  <2>3. CASE pos > 0 /\ p.url # "none"
    <3>1. r \in { [p |-> Positioned(p, pos), prepared |-> TRUE] }
                  \cup IF p.url = "transcode" THEN { [p |-> p, prepared |-> FALSE] } ELSE {}
      BY <2>3 DEF resume_at
    <3> QED
      BY <3>1
  <2> QED
    BY <1>1, <2>1, <2>2, <2>3
<1>3. \/ r.p = p
      \/ r.p = Positioned(p, pos)
  BY <1>2
<1> QED
  BY <1>3, PositionedSound

\* reload_transaction: teardown, resume point and start in one.
LEMMA ReloadsSound ==
    ASSUME NEW p, NEW ls, Sound(p, ls), NEW pos \in 0 .. MaxPos,
           NEW o \in reload_transaction(p, ls, pos)
    PROVE  Sound(o.p, o.loads)
<1> DEFINE b == begin_route_start(p.control)
           c == prepare_route_start(b)
           m == [p EXCEPT !.control = c]
<1>1. p \in PlayerType /\ p.control \in ControlType /\ Route(p.control)
  BY SoundParts
<1>2. /\ Kept(p.control, b)
      /\ b.phase.st = "Starting" => p.control.phase.st = "Starting"
  BY <1>1, BeginRouteStart
<1>3. b \in ControlType /\ Route(b)
  BY <1>2 DEF Kept
<1>4. Kept(b, c) /\ c.phase.st # "Preparing" /\ (c.phase.st = "Starting" => b.phase.st = "Starting")
  <2> HIDE DEF b
  <2> QED
    BY <1>3, PrepareRouteStart
<1>5. Kept(p.control, c)
  BY <1>2, <1>4 DEF Kept
<1>6. CASE Ticket(c) = 0
  BY <1>6 DEF reload_transaction, Outcome
<1>7. CASE Ticket(c) # 0
  <2>1. PICK t \in teardown(m, ls, TRUE) : o \in StartOwned(Positioned(t.p, pos), t.loads)
    BY <1>7 DEF reload_transaction
  <2>2. c \in ControlType /\ Route(c)
    BY <1>4 DEF Kept
  <2> HIDE DEF b
  <2> HIDE DEF c
  <2>3. Sound(m, ls)
    BY <1>2, <1>4, <1>5, KeepsSound
  <2>4. m.control = c
    BY <1>1 DEF PlayerType
  <2> HIDE DEF m
  <2>5. /\ Sound(t.p, t.loads) /\ ~Live(t.p)
        /\ t.p.control.phase.st = TornPhase(c, TRUE)
    BY <2>3, <2>4, Teardown
  <2>6. TornPhase(c, TRUE) = "Prepared"
    BY <1>4, <1>7, <2>2, TicketIs DEF TornPhase, Transacting
  <2> DEFINE s == Positioned(t.p, pos)
  <2>7. Sound(s, t.loads) /\ s.control = t.p.control /\ s.engine = t.p.engine
    BY <2>5, PositionedSound
  <2>8. o \in StartOwned(s, t.loads)
    BY <2>1
  <2> HIDE DEF s
  <2>9. ~Live(s)
    BY <2>5, <2>7, SameEngine
  <2> QED
    BY <2>5, <2>6, <2>7, <2>8, <2>9, StartsOwned
<1> QED
  BY <1>6, <1>7

\* Giving up a request: a live engine has none.
LEMMA CancelsSound ==
    ASSUME NEW p, NEW ls, Sound(p, ls)
    PROVE  LET o == cancel_play(p)
           IN  /\ Sound(o, ls) /\ o.engine = p.engine
               /\ CanRequest(p.control) => CanRequest(o.control)
<1> DEFINE d == cancel_playback_request(p.control)
           o == [p EXCEPT !.control = d]
<1>1. p \in PlayerType /\ p.control \in ControlType /\ Route(p.control)
  BY SoundParts
<1>2. /\ Sane(p.control, d)
      /\ p.control.phase.st # "Resolving" => d = p.control
      /\ p.control.phase.st = "Resolving" => d.phase.st \in {"Idle", "Stable", "Failed"}
  BY <1>1, CancelRequest
<1>3. o.engine = p.engine /\ o.control = d
  BY <1>1 DEF PlayerType
<1>4. CanRequest(p.control) => CanRequest(d)
  BY <1>2 DEF CanRequest, Transacting
<1> HIDE DEF d
<1>5. CASE p.control.phase.st = "Resolving"
  <2>1. ~Live(p)
    BY <1>5, SoundParts DEF Running, Tells
  <2> QED
    BY <1>2, <1>3, <1>4, <1>5, <2>1, SaneSound DEF cancel_play, d
<1>6. CASE p.control.phase.st # "Resolving"
  <2>1. o = p
    BY <1>1, <1>2, <1>6 DEF PlayerType
  <2> QED
    BY <1>3, <1>4, <2>1 DEF cancel_play, d
<1> QED
  BY <1>5, <1>6

\* What a resume effect leaves: a sound player, a lifecycle that owns no engine while it waits,
\* a page for every engine that was launched.
Resumed(o, p) ==
    /\ Sound(o.p, o.loads) /\ o.fg \in FgType
    /\ awaiting_load(o.fg) => ~Live(o.p)
    /\ Live(o.p) => Live(p) \/ o.act = "Launched"
    /\ o.act # "Launched" /\ CanRequest(p.control) => CanRequest(o.p.control)

\* A lifecycle state and its name.
LEMMA FgIs ==
    ASSUME NEW st \in FgStates, NEW pos \in 0 .. MaxPos, NEW rate \in {"Paused", "Playing"},
           NEW attempt \in Nat
    PROVE  /\ Fg(st, pos, rate, attempt) \in FgType
           /\ Fg(st, pos, rate, attempt).st = st
  BY DEF Fg, FgType

\* The lifecycle at rest waits for nothing.
LEMMA FgIdleIs ==
    FgIdle \in FgType /\ FgIdle.st = "Idle" /\ ~awaiting_load(FgIdle)
<1>1. 0 \in 0 .. MaxPos
  BY ForegroundAssumption
<1> QED
  BY <1>1 DEF FgIdle, FgType, FgStates, awaiting_load

\* The viewer's pause is nothing that Sound looks at.
LEMMA PausedSound ==
    ASSUME NEW p, NEW ls, Sound(p, ls), NEW b \in BOOLEAN
    PROVE  LET o == [p EXCEPT !.paused = b]
           IN  Sound(o, ls) /\ o.control = p.control /\ o.engine = p.engine
<1> DEFINE o == [p EXCEPT !.paused = b]
<1>1. p \in PlayerType
  BY SoundParts
<1>2. /\ o \in PlayerType /\ o.control = p.control /\ o.engine = p.engine
      /\ o.native = p.native /\ o.parked = p.parked
  BY <1>1 DEF PlayerType
<1> HIDE DEF o
<1>3. Sound(o, ls) /\ o.control = p.control /\ o.engine = p.engine
  BY <1>2, SoundFields
<1> QED
  BY <1>3 DEF o

\* PlayClock touches the transport alone.
LEMMA PlayClockResumes ==
    ASSUME NEW p, NEW ls, Sound(p, ls), NEW o \in PlayClock(p, ls)
    PROVE  Resumed(o, p)
<1>1. 0 \in 0 .. MaxPos
  BY ForegroundAssumption
<1> DEFINE m == [p EXCEPT !.paused = FALSE]
           f == Fg("ClockPending", 0, "Playing", 0)
<1>2. o = Effect(m, ls, FgIdle, "Handled") \/ o = Effect(p, ls, f, "Handled")
  BY DEF PlayClock
<1>3. Sound(m, ls) /\ m.control = p.control /\ m.engine = p.engine
  BY PausedSound
<1>4. f \in FgType /\ ~awaiting_load(f)
  BY <1>1, FgIs DEF FgStates, awaiting_load
<1>5. FgIdle \in FgType /\ ~awaiting_load(FgIdle)
  BY FgIdleIs
<1> HIDE DEF m, f
<1>6. o.loads = ls /\ o.act = "Handled" /\ ((o.p = m /\ o.fg = FgIdle) \/ (o.p = p /\ o.fg = f))
  BY <1>2 DEF Effect
<1> QED
  BY <1>3, <1>4, <1>5, <1>6, SameEngine DEF Resumed

\* A Load asked for by a parked session: launched with its page, or refused without an engine.
LEMMA LoadEffectResumes ==
    ASSUME NEW p, NEW ls, Sound(p, ls), ~Live(p), NEW pos \in 0 .. MaxPos,
           NEW rate \in {"Paused", "Playing"}, NEW o \in LoadEffect(p, ls, pos, rate)
    PROVE  Resumed(o, p) /\ o.act \in {"Launched", "Handled"}
<1> DEFINE Of(s) ==
             CASE s.out = "Launched" ->
                    Effect(s.p, s.loads, Fg("LoadPending", pos, rate, s.p.engine.attempt), "Launched")
               [] s.out = "Failed" -> Effect(s.p, s.loads, Fg("Prepared", pos, rate, 0), "Handled")
               [] OTHER -> Effect(s.p, s.loads, FgIdle, "Handled")
<1>1. PICK s \in start_bufferfeed_tracked(p, ls) : o = Of(s)
  BY DEF LoadEffect
<1>2. /\ Sound(s.p, s.loads) /\ s.out \in {"Launched", "Failed"}
      /\ s.out = "Launched" => Live(s.p)
      /\ s.out = "Failed" => s.p.engine = p.engine /\ CanRequest(s.p.control)
  BY StartsTracked
<1>3. CASE s.out = "Launched"
  <2> DEFINE f == Fg("LoadPending", pos, rate, s.p.engine.attempt)
  <2>1. o = Effect(s.p, s.loads, f, "Launched")
    BY <1>1, <1>3
  <2>2. s.p.engine.attempt \in Nat
    BY <1>2, SoundParts, PlayerFields
  <2>3. f \in FgType /\ ~awaiting_load(f)
    BY <2>2, FgIs DEF FgStates, awaiting_load
  <2> HIDE DEF f
  <2> QED
    BY <1>2, <2>1, <2>3 DEF Resumed, Effect
<1>4. CASE s.out = "Failed"
  <2> DEFINE f == Fg("Prepared", pos, rate, 0)
  <2>1. o = Effect(s.p, s.loads, f, "Handled")
    BY <1>1, <1>4
  <2>2. f \in FgType
    BY FgIs DEF FgStates
  <2>3. ~Live(s.p)
    BY <1>2, <1>4, SameEngine
  <2> HIDE DEF f
  <2> QED
    BY <1>2, <1>4, <2>1, <2>2, <2>3 DEF Resumed, Effect
<1> QED
  BY <1>2, <1>3, <1>4

\* The rewound resume point is a position.
LEMMA ResumePointIs ==
    ASSUME NEW f \in FgType PROVE ResumePoint(f) \in 0 .. MaxPos
<1>1. f.pos \in 0 .. MaxPos /\ MaxPos \in Nat /\ Rewind \in Nat
  BY ForegroundAssumption DEF FgType
<1>2. CASE f.clock = "Paused"
  BY <1>1, <1>2 DEF ResumePoint
<1>3. CASE f.clock # "Paused" /\ f.pos > Rewind
  BY <1>1, <1>3 DEF ResumePoint
<1>4. CASE f.clock # "Paused" /\ ~(f.pos > Rewind)
  BY <1>1, <1>4 DEF ResumePoint
<1> QED
  BY <1>2, <1>3, <1>4

\* drive_foreground: every effect of the resume and of the PLAY key.
LEMMA DrivesForeground ==
    ASSUME NEW p, NEW ls, Sound(p, ls), NEW f \in FgType,
           awaiting_load(f) => ~Live(p), NEW input \in {"DidForeground", "PlayKey"},
           NEW o \in drive_foreground(p, ls, f, input)
    PROVE  /\ Resumed(o, p)
           /\ o.act = "Ordinary" => o.p = p /\ o.loads = ls /\ o.fg = f /\ f.st = "Idle"
<1> DEFINE k == Intent(f, input)
<1>1. k \in {"Paused", "Playing"} /\ f.pos \in 0 .. MaxPos /\ f.st \in FgStates
  BY DEF Intent, FgType
<1>2. CASE f.st = "Idle"
  <2>1. o = Effect(p, ls, f, "Ordinary")
    BY <1>2 DEF drive_foreground
  <2> QED
    BY <1>2, <2>1 DEF Effect, Resumed, awaiting_load
<1>3. CASE f.st = "Suspended"
  <2> DEFINE pos == ResumePoint(f)
  <2>1. PICK r \in resume_at(p, pos) :
          o \in IF r.prepared THEN LoadEffect(r.p, ls, pos, k) ELSE { Effect(r.p, ls, f, "Handled") }
    BY <1>3 DEF drive_foreground
  <2>2. pos \in 0 .. MaxPos
    BY ResumePointIs
  <2> HIDE DEF pos, k
  <2>3. Sound(r.p, ls) /\ r.p.control = p.control /\ r.p.engine = p.engine
    BY <2>2, ResumesAt
  <2>4. ~Live(r.p) /\ ~Live(p)
    BY <1>3, <2>3, SameEngine DEF awaiting_load
  <2>5. CASE r.prepared
    <3>1. Resumed(o, r.p) /\ o.act \in {"Launched", "Handled"}
      BY <1>1, <2>1, <2>2, <2>3, <2>4, <2>5, LoadEffectResumes
    <3> QED
      BY <2>3, <2>4, <3>1 DEF Resumed
  <2>6. CASE ~r.prepared
    <3>1. o = Effect(r.p, ls, f, "Handled")
      BY <2>1, <2>6
    <3> QED
      BY <2>3, <2>4, <3>1 DEF Effect, Resumed
  <2> QED
    BY <2>5, <2>6
<1>4. CASE f.st = "Prepared"
  <2>1. o \in LoadEffect(p, ls, f.pos, k)
    BY <1>4 DEF drive_foreground
  <2>2. ~Live(p)
    BY <1>4 DEF awaiting_load
  <2> HIDE DEF k
  <2>3. Resumed(o, p) /\ o.act \in {"Launched", "Handled"}
    BY <1>1, <2>1, <2>2, LoadEffectResumes
  <2> QED
    BY <2>3
<1>5. CASE f.st = "ClockPending" /\ input = "PlayKey"
  <2>1. o \in PlayClock(p, ls)
    BY <1>5 DEF drive_foreground
  <2>2. o.act = "Handled"
    BY <2>1 DEF PlayClock, Effect
  <2> QED
    BY <2>1, <2>2, PlayClockResumes
<1>6. CASE f.st = "LoadPending" \/ (f.st = "ClockPending" /\ input # "PlayKey")
  <2>1. o = Effect(p, ls, f, "Handled")
    BY <1>6 DEF drive_foreground
  <2> QED
    BY <1>6, <2>1 DEF Effect, Resumed, awaiting_load
<1> QED
  BY <1>1, <1>2, <1>3, <1>4, <1>5, <1>6 DEF FgStates

\* What the poll makes of the observed attempt.  A failure it acts upon is the live engine's own.
LEMMA StatusIs ==
    ASSUME NEW c \in ControlType, NEW a \in Nat
    PROVE  LET s == route_start_status(c, a)
           IN  /\ s.st \in {"Pending", "Superseded", "Started", "Failed", "Stale"} /\ s.attempt \in Nat
               /\ s.st = "Failed" =>
                    c.phase.st = "Failed" /\ c.last.serial = c.phase.serial /\ c.last.attempt = a
<1> DEFINE Follow(b, verdict) == CASE b = a -> [st |-> verdict, attempt |-> a]
                                   [] b > a -> [st |-> "Superseded", attempt |-> b]
                                   [] OTHER -> [st |-> "Stale", attempt |-> a]
           s == route_start_status(c, a)
<1>1. ASSUME NEW b \in Nat, NEW verdict
      PROVE  /\ Follow(b, verdict).st \in {verdict, "Superseded", "Stale"}
             /\ Follow(b, verdict).attempt \in Nat
             /\ Follow(b, verdict).st = verdict => b = a \/ verdict \in {"Superseded", "Stale"}
  <2>1. CASE b = a
    BY <2>1
  <2>2. CASE b > a
    BY <2>2
  <2>3. CASE b < a
    <3>1. ~(b = a) /\ ~(b > a)
      BY <2>3
    <3>2. Follow(b, verdict) = [st |-> "Stale", attempt |-> a]
      BY <3>1
    <3> QED
      BY <3>2
  <2> QED
    BY <2>1, <2>2, <2>3
<1>2. c.phase.attempt \in Nat /\ c.last.attempt \in Nat
  BY ControlFields
<1>3. CASE c.phase.st = "Starting"
  <2>1. s = Follow(c.phase.attempt, "Pending")
    BY <1>3 DEF route_start_status
  <2> HIDE DEF Follow, s
  <2>2. s.st \in {"Pending", "Superseded", "Stale"} /\ s.attempt \in Nat
    BY <1>1, <1>2, <2>1
  <2> QED
    BY <2>2 DEF s
<1>4. CASE c.phase.st = "Stable" /\ c.last.ok
  <2>1. s = Follow(c.last.attempt, "Started")
    BY <1>4 DEF route_start_status
  <2> HIDE DEF Follow, s
  <2>2. s.st \in {"Started", "Superseded", "Stale"} /\ s.attempt \in Nat
    BY <1>1, <1>2, <2>1
  <2> QED
    BY <2>2 DEF s
<1>5. CASE c.phase.st = "Failed" /\ ~c.last.ok /\ c.last.serial = c.phase.serial
  <2>1. s = Follow(c.last.attempt, "Failed")
    BY <1>5 DEF route_start_status
  <2> HIDE DEF Follow, s
  <2>2. /\ s.st \in {"Failed", "Superseded", "Stale"} /\ s.attempt \in Nat
        /\ s.st = "Failed" => c.last.attempt = a
    BY <1>1, <1>2, <2>1
  <2> QED
    BY <1>5, <2>2 DEF s
<1>6. CASE /\ c.phase.st # "Starting" /\ ~(c.phase.st = "Stable" /\ c.last.ok)
           /\ ~(c.phase.st = "Failed" /\ ~c.last.ok /\ c.last.serial = c.phase.serial)
  <2>1. s = [st |-> "Stale", attempt |-> a]
    BY <1>6 DEF route_start_status
  <2> HIDE DEF s
  <2>2. s.st = "Stale" /\ s.attempt \in Nat
    BY <2>1
  <2> QED
    BY <2>2 DEF s
<1> QED
  BY <1>3, <1>4, <1>5, <1>6

\* settle_load: a failed Load's session is parked, and its engine is gone.
LEMMA SettlesLoad ==
    ASSUME NEW p, NEW ls, Sound(p, ls), NEW f \in FgType, f.st = "LoadPending",
           NEW o \in settle_load(p, ls, f, route_start_status(p.control, f.attempt))
    PROVE  /\ Sound(o.p, o.loads) /\ o.fg \in FgType
           /\ awaiting_load(o.fg) => ~Live(o.p)
           /\ Live(o.p) => Live(p)
           /\ CanRequest(p.control) => CanRequest(o.p.control)
<1> DEFINE s == route_start_status(p.control, f.attempt)
<1>1. p \in PlayerType /\ p.control \in ControlType /\ Route(p.control) /\ f.attempt \in Nat
  BY SoundParts DEF FgType
<1>2. /\ s.st \in {"Pending", "Superseded", "Started", "Failed", "Stale"} /\ s.attempt \in Nat
      /\ s.st = "Failed" =>
           /\ p.control.phase.st = "Failed" /\ p.control.last.serial = p.control.phase.serial
           /\ p.control.last.attempt = f.attempt
  BY <1>1, StatusIs
<1>3. o \in settle_load(p, ls, f, s)
  OBVIOUS
<1> HIDE DEF s
<1>4. CASE s.st = "Pending"
  <2>1. o = Effect(p, ls, f, "Pending")
    BY <1>3, <1>4 DEF settle_load
  <2> QED
    BY <2>1 DEF Effect, awaiting_load
<1>5. CASE s.st = "Superseded"
  <2> DEFINE g == [f EXCEPT !.attempt = s.attempt]
  <2>1. o = Effect(p, ls, g, "Pending")
    BY <1>3, <1>5 DEF settle_load
  <2>2. g \in FgType /\ ~awaiting_load(g)
    BY <1>2 DEF FgType, awaiting_load
  <2> HIDE DEF g
  <2> QED
    BY <2>1, <2>2 DEF Effect
<1>6. CASE s.st = "Stale"
  <2>1. o = Effect(p, ls, FgIdle, "Failed")
    BY <1>3, <1>6 DEF settle_load
  <2> QED
    BY <2>1, FgIdleIs DEF Effect
<1>7. CASE s.st = "Started"
  <2>1. o \in IF f.clock = "Paused" THEN { Effect(p, ls, FgIdle, "Started") } ELSE PlayClock(p, ls)
    BY <1>3, <1>7 DEF settle_load
  <2>2. CASE f.clock = "Paused"
    BY <2>1, <2>2, FgIdleIs DEF Effect
  <2>3. CASE f.clock # "Paused"
    <3>1. Resumed(o, p) /\ o.act = "Handled"
      BY <2>1, <2>3, PlayClockResumes DEF PlayClock, Effect
    <3> QED
      BY <3>1 DEF Resumed
  <2> QED
    BY <2>2, <2>3
<1>8. CASE s.st = "Failed"
  <2> DEFINE g == Fg("Prepared", f.pos, f.clock, 0)
  <2>1. PICK t \in suspend_bufferfeed_if_attempt(p, ls, f.attempt) : o = Effect(t.p, t.loads, g, "Failed")
    BY <1>3, <1>8 DEF settle_load
  <2>2. g \in FgType
    <3>1. f.pos \in 0 .. MaxPos /\ f.clock \in {"Paused", "Playing"} /\ "Prepared" \in FgStates
      BY DEF FgType, FgStates
    <3> QED
      BY <3>1, FgIs
  <2>3. Live(p) => p.engine.attempt = f.attempt
    BY <1>2, <1>8, SoundParts DEF Running, Tells
  <2>4. CASE p.engine.attempt = f.attempt
    <3>1. t \in teardown(p, ls, TRUE)
      BY <2>1, <2>4 DEF suspend_bufferfeed_if_attempt
    <3>2. /\ Sound(t.p, t.loads) /\ ~Live(t.p)
          /\ t.p.control.phase.st = TornPhase(p.control, TRUE)
      BY <3>1, Teardown
    <3>3. CanRequest(p.control) => CanRequest(t.p.control)
      BY <3>2 DEF CanRequest, TornPhase, Transacting
    <3> HIDE DEF g
    <3> QED
      BY <2>1, <2>2, <3>2, <3>3 DEF Effect
  <2>5. CASE p.engine.attempt # f.attempt
    <3>1. t = [p |-> p, loads |-> ls]
      BY <2>1, <2>5 DEF suspend_bufferfeed_if_attempt
    <3> HIDE DEF g
    <3> QED
      BY <2>1, <2>2, <2>3, <2>5, <3>1 DEF Effect
  <2> QED
    BY <2>4, <2>5
<1> QED
  BY <1>2, <1>4, <1>5, <1>6, <1>7, <1>8

\* The invariant holds at the start.
LEMMA FgInitHolds == ASSUME FgInit PROVE FgIInv
<1>1. 0 \in 0 .. MaxPos /\ -1 \in -1 .. MaxPos
  BY ForegroundAssumption
<1>2. InitControl \in ControlType
  <2>1. << >> \in Seq(ResultType)
    OBVIOUS
  <2> QED
    BY <2>1 DEF InitControl, ControlType, PhaseType, ResultType, Bare, Phase, NoResult
<1>3. Route(InitControl) /\ InitControl.phase.st = "Stable"
  BY DEF InitControl, Route, Handed, Bare, Phase, NoResult, Transacting
<1>4. InitNative \in NativeType /\ InitNative.st = "Idle" /\ ~InitNative.load_failed
  BY DEF InitNative, NativeType
<1>5. NoEngine \in EngineType
  BY DEF NoEngine, EngineType
<1>6. /\ player \in PlayerType /\ player.control = InitControl /\ player.native = InitNative
      /\ player.engine = NoEngine /\ player.parked = 0
  BY <1>1, <1>2, <1>4, <1>5 DEF FgInit, PlayerType
<1>7. Quiet(player) /\ ~Live(player)
  BY <1>3, <1>4, <1>6 DEF Quiet, Live
<1>8. Sound(player, {})
  BY <1>3, <1>6, <1>7, Rests
<1>9. CanRequest(player.control)
  BY <1>3, <1>6 DEF CanRequest, Transacting
<1> QED
  BY <1>7, <1>8, <1>9, FgIdleIs DEF FgInit, FgIInv, ParkedOwnsNoEngine, BrowsingCanPlay

\* The app switch keeps it.
LEMMA BackgroundKeeps == ASSUME FgIInv, Background PROVE FgIInv'
<1> USE DEF FgIInv, ParkedOwnsNoEngine, BrowsingCanPlay
<1>1. player.pos \in 0 .. MaxPos
  BY SoundParts, PlayerFields
<1>2. CASE (play # "none" \/ Live(player) \/ player.url # "none") /\ ~awaiting_load(fg)
  <2> DEFINE k == clock_for_suspend(fg, player.paused)
  <2>1. k \in {"Paused", "Playing"}
    <3>1. CASE fg.st = "ClockPending"
      BY <3>1 DEF clock_for_suspend
    <3>2. CASE fg.st = "LoadPending"
      BY <3>2 DEF clock_for_suspend, FgType
    <3>3. CASE fg.st \notin {"ClockPending", "LoadPending"}
      BY <3>3 DEF clock_for_suspend
    <3> QED
      BY <3>1, <3>2, <3>3
  <2>2. fg' = Fg("Suspended", player.pos, k, 0)
    BY <1>2 DEF Background
  <2> HIDE DEF k
  <2>3. fg' \in FgType
    BY <1>1, <2>1, <2>2, FgIs DEF FgStates
  <2>4. PICK t \in teardown(player, loads, TRUE) : player' = cancel_play(t.p) /\ loads' = t.loads
    BY <1>2 DEF Background
  <2>5. /\ Sound(t.p, t.loads) /\ ~Live(t.p)
        /\ t.p.control.phase.st = TornPhase(player.control, TRUE)
    BY Teardown
  <2>6. CanRequest(player.control) => CanRequest(t.p.control)
    BY <2>5 DEF CanRequest, TornPhase, Transacting
  <2>7. /\ Sound(player', loads') /\ player'.engine = t.p.engine
        /\ CanRequest(t.p.control) => CanRequest(player'.control)
    BY <2>4, <2>5, CancelsSound
  <2>8. ~Live(player')
    BY <2>5, <2>7, SameEngine
  <2> QED
    BY <1>2, <2>3, <2>6, <2>7, <2>8 DEF Background
<1>3. CASE ~((play # "none" \/ Live(player) \/ player.url # "none") /\ ~awaiting_load(fg))
  BY <1>3 DEF Background
<1> QED
  BY <1>2, <1>3

\* The return to the screen keeps it.
LEMMA DidForegroundKeeps == ASSUME FgIInv, DidForeground PROVE FgIInv'
<1> USE DEF FgIInv, ParkedOwnsNoEngine, BrowsingCanPlay
<1>1. PICK o \in drive_foreground(player, loads, fg, "DidForeground") :
        /\ fg' = o.fg /\ player' = o.p /\ loads' = o.loads /\ page' = (page \/ o.act = "Launched")
  BY DEF DidForeground
<1>2. Resumed(o, player)
  BY DrivesForeground
<1>3. window' = TRUE /\ play' = play /\ pc' = pc /\ pc = "events"
  BY DEF DidForeground
<1> QED
  BY <1>1, <1>2, <1>3 DEF Resumed

\* PLAY keeps it.
LEMMA KeyPlayKeeps == ASSUME FgIInv, key_play PROVE FgIInv'
<1> USE DEF FgIInv, ParkedOwnsNoEngine, BrowsingCanPlay
<1> DEFINE f == IF ~page /\ fg.st = "ClockPending" THEN FgIdle ELSE fg
<1>1. f \in FgType /\ (awaiting_load(f) => ~Live(player))
  BY FgIdleIs
<1>2. play' = play /\ window' = window /\ pc' = pc /\ pc = "events"
  BY DEF key_play
<1>3. PICK o \in drive_foreground(player, loads, f, "PlayKey") :
        /\ fg' = o.fg
        /\ \/ /\ o.act # "Ordinary"
              /\ player' = o.p /\ loads' = o.loads
              /\ page' = (page \/ o.act = "Launched")
           \/ /\ o.act = "Ordinary" /\ ~page
              /\ \E s \in start_bufferfeed_tracked(o.p, o.loads) :
                    /\ player' \in {s.p} \cup IF s.out = "Failed" THEN {}
                                             ELSE { [s.p EXCEPT !.paused = FALSE] }
                    /\ loads' = s.loads
                    /\ page' = (s.out # "Failed")
           \/ /\ o.act = "Ordinary" /\ page
              /\ player' \in {o.p, [o.p EXCEPT !.paused = FALSE]}
              /\ UNCHANGED << loads, page >>
  BY DEF key_play
<1> HIDE DEF f
<1>4. /\ Resumed(o, player)
      /\ o.act = "Ordinary" => o.p = player /\ o.loads = loads /\ o.fg = f /\ f.st = "Idle"
  BY <1>1, DrivesForeground
<1>5. CASE o.act # "Ordinary"
  BY <1>2, <1>3, <1>4, <1>5 DEF Resumed
<1>6. CASE o.act = "Ordinary" /\ ~page
  <2>1. PICK s \in start_bufferfeed_tracked(player, loads) :
          /\ player' \in {s.p} \cup IF s.out = "Failed" THEN {} ELSE { [s.p EXCEPT !.paused = FALSE] }
          /\ loads' = s.loads
          /\ page' = (s.out # "Failed")
    BY <1>3, <1>4, <1>6
  <2>2. /\ Sound(s.p, s.loads)
        /\ s.out = "Failed" => s.p.engine = player.engine /\ CanRequest(s.p.control)
    BY StartsTracked
  <2>3. player' = s.p \/ player' = [s.p EXCEPT !.paused = FALSE]
    BY <2>1
  <2> DEFINE m == [s.p EXCEPT !.paused = FALSE]
  <2>m. Sound(m, s.loads) /\ m.control = s.p.control /\ m.engine = s.p.engine
    BY <2>2, PausedSound
  <2>n. (player' = s.p \/ player' = m) /\ loads' = s.loads
    BY <2>1, <2>3
  <2> HIDE DEF m
  <2>4. Sound(player', loads') /\ player'.control = s.p.control /\ player'.engine = s.p.engine
    BY <2>2, <2>m, <2>n
  <2>5. s.out = "Failed" => ~Live(player')
    BY <1>6, <2>2, <2>4, SameEngine
  <2>6. fg' \in FgType /\ ~awaiting_load(fg')
    BY <1>1, <1>3, <1>4, <1>6 DEF awaiting_load
  <2> QED
    BY <1>2, <2>1, <2>2, <2>4, <2>5, <2>6, ZenonT(60)
<1>7. CASE o.act = "Ordinary" /\ page
  <2>1. /\ player' = player \/ player' = [player EXCEPT !.paused = FALSE]
        /\ loads' = loads /\ page' = page
    BY <1>3, <1>4, <1>7
  <2>2. Sound(player', loads')
    BY <2>1, PausedSound
  <2>3. fg' \in FgType /\ ~awaiting_load(fg')
    BY <1>1, <1>3, <1>4, <1>7 DEF awaiting_load
  <2> QED
    BY <1>2, <1>7, <2>1, <2>2, <2>3
<1> QED
  BY <1>5, <1>6, <1>7

\* PAUSE keeps it.
LEMMA KeyPauseKeeps == ASSUME FgIInv, key_pause PROVE FgIInv'
<1> USE DEF FgIInv, ParkedOwnsNoEngine, BrowsingCanPlay
<1>1. /\ player' = [player EXCEPT !.paused = TRUE] /\ page
      /\ UNCHANGED << fg, loads, play, window, page, pc >>
  BY DEF key_pause
<1>2. Sound(player', loads') /\ player'.control = player.control /\ player'.engine = player.engine
  BY <1>1, PausedSound
<1>3. Live(player') <=> Live(player)
  BY <1>2, SameEngine
<1> QED
  BY <1>1, <1>2, <1>3

\* A request hides the route of a player without an engine.
LEMMA RequestsSound ==
    ASSUME NEW p, NEW ls, Sound(p, ls), ~Live(p), CanRequest(p.control)
    PROVE  LET o == [p EXCEPT !.control = begin_playback_request(p.control)]
           IN  Sound(o, ls) /\ o.engine = p.engine
<1> DEFINE d == begin_playback_request(p.control)
<1>1. p \in PlayerType /\ p.control \in ControlType /\ Route(p.control)
  BY SoundParts
<1>2. Sane(p.control, d) /\ d.phase.st # "Starting"
  BY <1>1, BeginRequest
<1> HIDE DEF d
<1>3. LET o == [p EXCEPT !.control = d] IN Sound(o, ls) /\ o.engine = p.engine
  BY <1>1, <1>2, SaneSound DEF PlayerType
<1> QED
  BY <1>3 DEF d

\* A new request keeps it.
LEMMA RequestPlayKeeps == ASSUME FgIInv, RequestPlay PROVE FgIInv'
<1> USE DEF FgIInv, ParkedOwnsNoEngine, BrowsingCanPlay
<1> DEFINE o == [player EXCEPT !.control = begin_playback_request(player.control)]
<1>1. /\ ~page /\ CanRequest(player.control) /\ play' = "busy" /\ page' = TRUE
      /\ UNCHANGED << fg, loads, window, pc >>
      /\ player' = [player EXCEPT !.control = begin_playback_request(player.control), !.paused = FALSE]
  BY DEF RequestPlay
<1>2. Sound(o, loads) /\ o.engine = player.engine
  BY <1>1, RequestsSound
<1>3. player' = [o EXCEPT !.paused = FALSE]
  BY <1>1, SoundParts DEF PlayerType
<1> DEFINE m == [o EXCEPT !.paused = FALSE]
<1> HIDE DEF o
<1>m. Sound(m, loads) /\ m.engine = o.engine
  BY <1>2, PausedSound
<1>4. Sound(player', loads') /\ player'.engine = player.engine
  BY <1>1, <1>2, <1>3, <1>m
<1>5. ~Live(player')
  BY <1>1, <1>4, SameEngine
<1> QED
  BY <1>1, <1>4, <1>5, SameEngine

\* A stop with a new request keeps it.
LEMMA StopAndRequestKeeps == ASSUME FgIInv, StopAndRequest PROVE FgIInv'
<1> USE DEF FgIInv, ParkedOwnsNoEngine, BrowsingCanPlay
<1>1. /\ page /\ pc = "events" /\ play' = "busy" /\ UNCHANGED << fg, window, page, pc >>
  BY DEF StopAndRequest
<1>2. PICK t \in teardown(player, loads, FALSE) :
        /\ player' = [t.p EXCEPT !.control = begin_playback_request(t.p.control)] /\ loads' = t.loads
  BY DEF StopAndRequest
<1>3. Sound(t.p, t.loads) /\ ~Live(t.p) /\ t.p.control.phase.st = "Idle"
  BY Teardown DEF TornPhase
<1>4. CanRequest(t.p.control)
  BY <1>3 DEF CanRequest, Transacting
<1>5. Sound(player', loads') /\ player'.engine = t.p.engine
  BY <1>2, <1>3, <1>4, RequestsSound
<1>6. ~Live(player')
  BY <1>3, <1>5, SameEngine
<1> QED
  BY <1>1, <1>5, <1>6

\* Leaving the player keeps it.
LEMMA ExitPlayerKeeps == ASSUME FgIInv, exit_player PROVE FgIInv'
<1> USE DEF FgIInv, ParkedOwnsNoEngine, BrowsingCanPlay
<1> DEFINE o == cancel_play(player)
<1>1. /\ pc = "events" /\ play' = "none" /\ page' = FALSE /\ UNCHANGED << fg, window, pc >>
      /\ \E t \in teardown(o, loads, FALSE) : player' = t.p /\ loads' = t.loads
  BY DEF exit_player
<1>2. Sound(o, loads)
  BY CancelsSound
<1> HIDE DEF o
<1>3. PICK t \in teardown(o, loads, FALSE) : player' = t.p /\ loads' = t.loads
  BY <1>1
<1>4. Sound(t.p, t.loads) /\ ~Live(t.p) /\ t.p.control.phase.st = "Idle"
  BY <1>2, Teardown DEF TornPhase
<1>5. CanRequest(t.p.control)
  BY <1>4 DEF CanRequest, Transacting
<1> QED
  BY <1>1, <1>3, <1>4, <1>5

\* The frame's reaping keeps it.
LEMMA ReapKeeps == ASSUME FgIInv, Reap PROVE FgIInv'
<1> USE DEF FgIInv, ParkedOwnsNoEngine, BrowsingCanPlay
<1> DEFINE t == reap_abandoned_load(player, loads)
<1>1. player' = t.p /\ loads' = t.loads /\ UNCHANGED << fg, play, window, page, pc >>
  BY DEF Reap
<1>2. Sound(t.p, t.loads) /\ t.p.control = player.control /\ t.p.engine = player.engine
  BY ReapLoad
<1> HIDE DEF t
<1>3. Live(player') <=> Live(player)
  BY <1>1, <1>2, SameEngine
<1> QED
  BY <1>1, <1>2, <1>3

\* The first half of pump keeps it.
LEMMA PumpDrainKeeps == ASSUME FgIInv, PumpDrain PROVE FgIInv'
<1> USE DEF FgIInv, ParkedOwnsNoEngine, BrowsingCanPlay
<1>1. UNCHANGED << fg, loads, play, window, page >>
  BY DEF PumpDrain
<1>2. CASE playback_may_run /\ Live(player)
  <2> DEFINE d == drain_route_start_results(player.control)
  <2>1. pc' = "check" /\ player' = [player EXCEPT !.control = d]
    BY <1>2 DEF PumpDrain
  <2>2. player \in PlayerType /\ player.control \in ControlType /\ Route(player.control)
    BY SoundParts
  <2>3. Kept(player.control, d) /\ (d.phase.st = "Starting" => player.control.phase.st = "Starting")
    BY <2>2, DrainResults
  <2> HIDE DEF d
  <2>4. Sound(player', loads')
    BY <1>1, <2>1, <2>3, KeepsSound
  <2>5. player'.engine = player.engine
    BY <2>1, <2>2 DEF PlayerType
  <2>6. Live(player')
    BY <1>2, <2>5, SameEngine
  <2>7. ~awaiting_load(fg) /\ page
    BY <1>2
  <2> QED
    BY <1>1, <2>1, <2>4, <2>6, <2>7
<1>3. CASE ~(playback_may_run /\ Live(player))
  <2>1. pc' = "poll" /\ player' = player
    BY <1>3 DEF PumpDrain
  <2> QED
    BY <1>1, <2>1
<1> QED
  BY <1>2, <1>3

\* A change of the native session that the running Load accounts for.
LEMMA NativeSound ==
    ASSUME NEW p, NEW ls, Sound(p, ls), Live(p), NEW m \in NativeType, m.epoch = p.native.epoch,
           m.st \in {"Active", "Unloaded"},
           m.load_failed /\ ~m.load_timed_out => p.native.load_failed /\ ~p.native.load_timed_out
    PROVE  LET o == [p EXCEPT !.native = m]
           IN  Sound(o, ls) /\ o.control = p.control /\ o.engine = p.engine
<1> DEFINE o == [p EXCEPT !.native = m]
<1>1. p \in PlayerType /\ Route(p.control) /\ p.parked = 0
  BY SoundParts
<1>2. /\ o \in PlayerType /\ o.control = p.control /\ o.engine = p.engine
      /\ o.native = m /\ o.parked = p.parked
  BY <1>1 DEF PlayerType
<1>3. PICK l \in LoadType : ls = {l} /\ Running(p, l)
  BY SoundParts
<1> HIDE DEF o
<1>4. Serves(m, l)
  BY <1>3 DEF Running, Serves
<1>5. Running(o, l)
  BY <1>2, <1>3, <1>4 DEF Running
<1>6. Live(o)
  BY <1>2, SameEngine
<1>7. Sound(o, ls)
  BY <1>1, <1>2, <1>3, <1>5, <1>6 DEF Sound, WithEngine
<1> QED
  BY <1>2, <1>7 DEF o

\* native_load_gate fails a Load only by its timeout.
LEMMA GateSound ==
    ASSUME NEW p, NEW ls, Sound(p, ls), Live(p)
    PROVE  LET o == [p EXCEPT !.native = native_load_gate(p.native, p.engine.epoch)]
           IN  Sound(o, ls) /\ o.control = p.control /\ o.engine = p.engine
<1> DEFINE m == native_load_gate(p.native, p.engine.epoch)
<1>1. p.native \in NativeType /\ p.native.st \in {"Active", "Unloaded"}
  BY SoundParts, PlayerFields DEF Running, Serves
<1>2. /\ m \in NativeType /\ m.epoch = p.native.epoch /\ m.st = p.native.st
      /\ m.load_failed /\ ~m.load_timed_out => p.native.load_failed /\ ~p.native.load_timed_out
  BY <1>1 DEF native_load_gate, NativeType
<1> HIDE DEF m
<1>3. LET o == [p EXCEPT !.native = m] IN Sound(o, ls) /\ o.control = p.control /\ o.engine = p.engine
  BY <1>1, <1>2, NativeSound
<1> QED
  BY <1>3 DEF m

\* The engine's clock is nobody's concern here.
LEMMA PlayingSound ==
    ASSUME NEW p, NEW ls, Sound(p, ls), Live(p)
    PROVE  Sound([p EXCEPT !.engine.playing = TRUE], ls)
<1> DEFINE o == [p EXCEPT !.engine.playing = TRUE]
<1>1. p \in PlayerType /\ Route(p.control) /\ p.parked = 0
  BY SoundParts
<1>2. p.engine \in EngineType
  BY <1>1, PlayerFields
<1> DEFINE e == [p.engine EXCEPT !.playing = TRUE]
<1>3. /\ e \in EngineType /\ e.epoch = p.engine.epoch /\ e.serial = p.engine.serial
      /\ e.attempt = p.engine.attempt
  BY <1>2 DEF EngineType
<1>4. o = [p EXCEPT !.engine = e]
  BY <1>1 DEF PlayerType
<1> HIDE DEF e, o
<1>5. /\ o \in PlayerType /\ o.control = p.control /\ o.engine = e
      /\ o.native = p.native /\ o.parked = p.parked
  BY <1>1, <1>3, <1>4 DEF PlayerType
<1>6. PICK l \in LoadType : ls = {l} /\ Running(p, l)
  BY SoundParts
<1>7. Running(o, l)
  BY <1>3, <1>5, <1>6 DEF Running
<1>8. Live(o)
  <2>1. l.epoch > 0 /\ e.epoch = l.epoch
    BY <1>3, <1>6 DEF Running
  <2> QED
    BY <1>5, <2>1 DEF Live, NoEngine
<1>9. Sound(o, ls)
  BY <1>1, <1>5, <1>6, <1>7, <1>8 DEF Sound, WithEngine
<1> QED
  BY <1>9 DEF o

\* The second half of pump keeps it.
LEMMA PumpCheckKeeps == ASSUME FgIInv, PumpCheck PROVE FgIInv'
<1> USE DEF FgIInv, ParkedOwnsNoEngine, BrowsingCanPlay
<1>1. /\ pc = "check" /\ pc' = "poll" /\ UNCHANGED << fg, play, window, page >>
  BY DEF PumpCheck
<1>2. Live(player) /\ page /\ ~awaiting_load(fg)
  BY <1>1
<1>3. SUFFICES Sound(player', loads')
  BY <1>1, <1>2
<1>4. player \in PlayerType /\ player.control \in ControlType /\ Route(player.control)
  BY SoundParts
<1>5. CASE player' = [player EXCEPT !.control = fail_current_engine(player.control)] /\ loads' = loads
  <2> DEFINE d == fail_current_engine(player.control)
  <2>1. Kept(player.control, d) /\ d.phase.st # "Starting"
    BY <1>4, FailEngine
  <2> HIDE DEF d
  <2>2. Sound([player EXCEPT !.control = d], loads)
    BY <2>1, KeepsSound
  <2> QED
    BY <1>5, <2>2 DEF d
<1>6. CASE player' = [player EXCEPT !.native = native_load_gate(player.native, player.engine.epoch)] /\ loads' = loads
  BY <1>2, <1>6, GateSound
<1>7. CASE player' = [player EXCEPT !.engine.playing = TRUE] /\ loads' = loads
  BY <1>2, <1>7, PlayingSound
<1>8. CASE player' \in {player, [player EXCEPT !.pos = MaxPos]} /\ loads' = loads
  <2> DEFINE o == [player EXCEPT !.pos = MaxPos]
  <2>1. MaxPos \in 0 .. MaxPos
    BY ForegroundAssumption
  <2>2. /\ o \in PlayerType /\ o.control = player.control /\ o.engine = player.engine
        /\ o.native = player.native /\ o.parked = player.parked
    BY <1>4, <2>1 DEF PlayerType
  <2>3. loads' = loads /\ (player' = player \/ player' = o)
    BY <1>8
  <2> HIDE DEF o
  <2> QED
    BY <2>2, <2>3, SoundFields
<1>9. CASE \E o \in reload_transaction(player, loads, 1) : player' = o.p /\ loads' = o.loads
  <2>1. 1 \in 0 .. MaxPos
    BY ForegroundAssumption
  <2> QED
    BY <1>9, <2>1, ReloadsSound
<1> QED
  BY <1>5, <1>6, <1>7, <1>8, <1>9 DEF PumpCheck

\* The poll keeps it.
LEMMA PollKeeps == ASSUME FgIInv, poll_foreground_load PROVE FgIInv'
<1> USE DEF FgIInv, ParkedOwnsNoEngine, BrowsingCanPlay
<1>1. /\ pc' = "land" /\ UNCHANGED << play, window, page >>
  BY DEF poll_foreground_load
<1>2. CASE playback_may_run /\ fg.st = "LoadPending"
  <2>1. PICK o \in settle_load(player, loads, fg, route_start_status(player.control, fg.attempt)) :
          fg' = o.fg /\ player' = o.p /\ loads' = o.loads
    BY <1>2 DEF poll_foreground_load
  <2>2. /\ Sound(o.p, o.loads) /\ o.fg \in FgType
        /\ awaiting_load(o.fg) => ~Live(o.p)
        /\ Live(o.p) => Live(player)
        /\ CanRequest(player.control) => CanRequest(o.p.control)
    BY <1>2, SettlesLoad
  <2> QED
    BY <1>1, <2>1, <2>2
<1>3. CASE ~(playback_may_run /\ fg.st = "LoadPending")
  BY <1>1, <1>3 DEF poll_foreground_load
<1> QED
  BY <1>2, <1>3

\* A plan that lands: its route is prepared, its URL installed.
LEMMA LandsSound ==
    ASSUME NEW p, NEW ls, Sound(p, ls), NEW playable \in BOOLEAN, NEW url \in {"none", "direct", "transcode"}
    PROVE  LET o == [p EXCEPT !.control = prepare_playback_landing(p.control, playable), !.url = url]
           IN  /\ Sound(o, ls) /\ o.engine = p.engine
               /\ ~playable => CanRequest(o.control)
               /\ playable => o.control.phase.st \in {"Prepared", "Starting"}
               /\ o.control.phase.st = "Starting" => p.control.phase.st = "Starting"
<1> DEFINE d == prepare_playback_landing(p.control, playable)
           m == [p EXCEPT !.control = d]
           o == [p EXCEPT !.control = prepare_playback_landing(p.control, playable), !.url = url]
<1>1. p \in PlayerType /\ p.control \in ControlType /\ Route(p.control)
  BY SoundParts
<1>2. /\ Kept(p.control, d)
      /\ d.phase.st = "Starting" => p.control.phase.st = "Starting"
      /\ ~playable => d.phase.st = "Idle"
      /\ playable => d.phase.st \in {"Prepared", "Starting"}
  BY <1>1, LandingPrepared
<1>3. d \in ControlType
  BY <1>2 DEF Kept
<1> HIDE DEF d
<1>4. Sound(m, ls)
  BY <1>2, KeepsSound
<1>5. /\ o \in PlayerType /\ o.control = d /\ o.engine = p.engine
      /\ o.control = m.control /\ o.engine = m.engine /\ o.native = m.native /\ o.parked = m.parked
  BY <1>1, <1>3 DEF PlayerType, d
<1> HIDE DEF o, m
<1>6. Sound(o, ls)
  BY <1>4, <1>5, SoundFields
<1>7. /\ Sound(o, ls) /\ o.engine = p.engine
      /\ ~playable => CanRequest(o.control)
      /\ playable => o.control.phase.st \in {"Prepared", "Starting"}
      /\ o.control.phase.st = "Starting" => p.control.phase.st = "Starting"
  BY <1>2, <1>5, <1>6 DEF CanRequest, Transacting
<1> QED
  BY <1>7 DEF o, d

\* A landing whose resume point is refused.
LEMMA RejectsSound ==
    ASSUME NEW p, NEW ls, Sound(p, ls), p.control.phase.st \in {"Prepared", "Starting"}
    PROVE  LET o == [p EXCEPT !.control = reject_route_start_preparation(p.control)]
           IN  /\ Sound(o, ls) /\ o.engine = p.engine
               /\ p.control.phase.st # "Starting" => CanRequest(o.control)
<1> DEFINE d == reject_route_start_preparation(p.control)
           o == [p EXCEPT !.control = d]
<1>1. p \in PlayerType /\ p.control \in ControlType /\ Route(p.control)
  BY SoundParts
<1>2. /\ Kept(p.control, d)
      /\ p.control.phase.st = "Prepared" => d.phase.st = "Failed"
      /\ p.control.phase.st = "Starting" => d = p.control
  BY <1>1, RejectPreparation, KeptItself DEF reject_route_start_preparation
<1> HIDE DEF d
<1>3. Sound(o, ls)
  BY <1>2, KeepsSound
<1>4. o.engine = p.engine /\ o.control = d
  BY <1>1 DEF PlayerType
<1> HIDE DEF o
<1>5. /\ Sound(o, ls) /\ o.engine = p.engine
      /\ p.control.phase.st # "Starting" => CanRequest(o.control)
  BY <1>2, <1>3, <1>4 DEF CanRequest, Transacting
<1> QED
  BY <1>5 DEF o, d

\* The landing of a plan keeps it.
LEMMA PumpPlayKeeps == ASSUME FgIInv, pump_play PROVE FgIInv'
<1> USE DEF FgIInv, ParkedOwnsNoEngine, BrowsingCanPlay
<1> DEFINE f == IF window /\ play # "none" /\ awaiting_load(fg) THEN FgIdle ELSE fg
<1>1. /\ fg' = f /\ pc' = "events" /\ window' = window
  BY DEF pump_play
<1>2. f \in FgType /\ (awaiting_load(f) => awaiting_load(fg))
  BY FgIdleIs
<1>3. CASE ~(play = "slot" /\ window /\ ~awaiting_load(f))
  <2>1. UNCHANGED << player, loads, play, page >>
    BY <1>3 DEF pump_play
  <2> QED
    BY <1>1, <1>2, <2>1
<1>4. CASE play = "slot" /\ window /\ ~awaiting_load(f)
  <2> DEFINE Landed(playable, url) ==
               [player EXCEPT !.control = prepare_playback_landing(player.control, playable), !.url = url]
  <2>1. /\ play' = "none"
        /\ \/ player' = Landed(FALSE, "none") /\ UNCHANGED << loads, page >>
           \/ \E resume \in {0, MaxPos}, url \in {"direct", "transcode"} :
              \E r \in resume_at(Landed(TRUE, url), resume) :
                IF ~r.prepared
                THEN /\ player' = [r.p EXCEPT !.control = reject_route_start_preparation(r.p.control)]
                     /\ UNCHANGED << loads, page >>
                ELSE \E o \in start_bufferfeed_tracked(r.p, loads) :
                       /\ player' = o.p /\ loads' = o.loads
                       /\ page' = (page \/ o.out # "Failed")
    BY <1>4 DEF pump_play
  <2>2. ~awaiting_load(fg')
    BY <1>1, <1>4
  <2>3. SUFFICES /\ Sound(player', loads') /\ page' \in BOOLEAN
                 /\ Live(player') => page'
                 /\ ~page' => CanRequest(player'.control)
    BY <1>1, <1>2, <2>1, <2>2
  <2>4. CASE player' = Landed(FALSE, "none") /\ UNCHANGED << loads, page >>
    <3>1. Sound(player', loads) /\ player'.engine = player.engine /\ CanRequest(player'.control)
      BY <2>4, LandsSound
    <3> QED
      BY <2>4, <3>1, SameEngine
  <2>5. CASE \E resume \in {0, MaxPos}, url \in {"direct", "transcode"} :
              \E r \in resume_at(Landed(TRUE, url), resume) :
                IF ~r.prepared
                THEN /\ player' = [r.p EXCEPT !.control = reject_route_start_preparation(r.p.control)]
                     /\ UNCHANGED << loads, page >>
                ELSE \E o \in start_bufferfeed_tracked(r.p, loads) :
                       /\ player' = o.p /\ loads' = o.loads
                       /\ page' = (page \/ o.out # "Failed")
    <3>1. PICK resume \in {0, MaxPos}, url \in {"direct", "transcode"} :
              \E r \in resume_at(Landed(TRUE, url), resume) :
                IF ~r.prepared
                THEN /\ player' = [r.p EXCEPT !.control = reject_route_start_preparation(r.p.control)]
                     /\ UNCHANGED << loads, page >>
                ELSE \E o \in start_bufferfeed_tracked(r.p, loads) :
                       /\ player' = o.p /\ loads' = o.loads
                       /\ page' = (page \/ o.out # "Failed")
      BY <2>5
    <3> DEFINE s == Landed(TRUE, url)
    <3>2. /\ Sound(s, loads) /\ s.engine = player.engine
          /\ s.control.phase.st \in {"Prepared", "Starting"}
          /\ s.control.phase.st = "Starting" => player.control.phase.st = "Starting"
      BY LandsSound
    <3>3. PICK r \in resume_at(s, resume) :
                IF ~r.prepared
                THEN /\ player' = [r.p EXCEPT !.control = reject_route_start_preparation(r.p.control)]
                     /\ UNCHANGED << loads, page >>
                ELSE \E o \in start_bufferfeed_tracked(r.p, loads) :
                       /\ player' = o.p /\ loads' = o.loads
                       /\ page' = (page \/ o.out # "Failed")
      BY <3>1
    <3>4. resume \in 0 .. MaxPos
      BY ForegroundAssumption
    <3> HIDE DEF s
    <3>5. Sound(r.p, loads) /\ r.p.control = s.control /\ r.p.engine = s.engine
      BY <3>2, <3>3, <3>4, ResumesAt
    <3>6. CASE ~r.prepared
      <4> DEFINE m == [r.p EXCEPT !.control = reject_route_start_preparation(r.p.control)]
      <4>1. player' = m /\ loads' = loads /\ page' = page
        BY <3>3, <3>6
      <4>2. /\ Sound(m, loads) /\ m.engine = r.p.engine
            /\ r.p.control.phase.st # "Starting" => CanRequest(m.control)
        BY <3>2, <3>5, RejectsSound
      <4> HIDE DEF m
      <4>3. Live(m) <=> Live(player)
        BY <3>2, <3>5, <4>2, SameEngine
      <4>4. ~page => CanRequest(m.control)
        BY <3>2, <3>5, <4>2 DEF CanRequest, Transacting
      <4> QED
        BY <4>1, <4>2, <4>3, <4>4
    <3>7. CASE r.prepared
      <4>1. PICK o \in start_bufferfeed_tracked(r.p, loads) :
              player' = o.p /\ loads' = o.loads /\ page' = (page \/ o.out # "Failed")
        BY <3>3, <3>7
      <4>2. /\ Sound(o.p, o.loads)
            /\ o.out = "Failed" => o.p.engine = r.p.engine /\ CanRequest(o.p.control)
        BY <3>5, StartsTracked
      <4>3. o.out = "Failed" => (Live(o.p) <=> Live(player))
        BY <3>2, <3>5, <4>2, SameEngine
      <4> QED
        BY <4>1, <4>2, <4>3
    <3> QED
      BY <3>6, <3>7
  <2> QED
    BY <2>1, <2>4, <2>5
<1> QED
  BY <1>3, <1>4

\* A step of the only thread there is: the engine's, or the parked one's.
LEMMA ThreadOf ==
    ASSUME NEW p, NEW ls, Sound(p, ls), NEW l \in ls
    PROVE  /\ ls = {l} /\ l \in LoadType
           /\ Live(p) => Running(p, l) /\ p.parked = 0
           /\ ~Live(p) => Quiet(p) /\ Waiting(p, l) /\ p.parked # 0
<1>1. CASE Live(p)
  BY <1>1, SoundParts
<1>2. CASE ~Live(p)
  BY <1>2, SoundParts
<1> QED
  BY <1>1, <1>2

\* What a step of that thread has to respect.
LEMMA ThreadSound ==
    ASSUME NEW p, NEW ls, Sound(p, ls), NEW l \in ls, NEW o \in PlayerType, NEW w \in LoadType,
           w.epoch = l.epoch, w.attempt = l.attempt, w.serial = l.serial, Published(w),
           o.engine = p.engine, o.parked = p.parked, Route(o.control),
           o.control.next_attempt = p.control.next_attempt, o.control.phase = p.control.phase,
           Running(p, l) => Tells(o.control, w) /\ Serves(o.native, w),
           ~Live(p) => o.native = p.native
    PROVE  Sound(o, {w})
<1>1. /\ ls = {l} /\ l \in LoadType
      /\ Live(p) => Running(p, l) /\ p.parked = 0
      /\ ~Live(p) => Quiet(p) /\ Waiting(p, l) /\ p.parked # 0
  BY ThreadOf
<1>2. Live(o) <=> Live(p)
  BY SameEngine
<1>3. CASE Live(p)
  <2>1. Running(o, w)
    BY <1>1, <1>3 DEF Running
  <2> QED
    BY <1>1, <1>2, <1>3, <2>1 DEF Sound, WithEngine
<1>4. CASE ~Live(p)
  <2>1. Waiting(o, w) /\ Quiet(o)
    BY <1>1, <1>2, <1>4 DEF Waiting, Quiet
  <2> QED
    BY <1>1, <1>2, <1>4, <2>1, Parks
<1> QED
  BY <1>3, <1>4

\* The return of sf_load keeps it.
LEMMA LoadReturnsKeeps == ASSUME FgIInv, NEW l \in loads, LoadReturns(l) PROVE FgIInv'
<1> USE DEF FgIInv, ParkedOwnsNoEngine, BrowsingCanPlay
<1>1. l.step = "loading" /\ UNCHANGED << fg, player, play, window, page, pc >>
  BY DEF LoadReturns
<1>2. PICK ok \in BOOLEAN : loads' = (loads \ {l}) \cup { [l EXCEPT !.step = "returned", !.ok = ok] }
  BY DEF LoadReturns
<1> DEFINE w == [l EXCEPT !.step = "returned", !.ok = ok]
<1>3. loads = {l} /\ l \in LoadType
  BY ThreadOf
<1>4. /\ w \in LoadType /\ w.epoch = l.epoch /\ w.attempt = l.attempt /\ w.serial = l.serial
      /\ w.step = "returned"
  BY <1>3 DEF LoadType
<1>5. loads' = {w}
  BY <1>2, <1>3
<1> HIDE DEF w
<1>6. Published(w)
  BY <1>4 DEF Published
<1>7. Running(player, l) => Tells(player.control, w) /\ Serves(player.native, w)
  BY <1>1, <1>4 DEF Running, Tells, Serves, Finished
<1>8. player \in PlayerType /\ Route(player.control)
  BY SoundParts
<1>9. Sound(player, {w})
  BY <1>4, <1>6, <1>7, <1>8, ThreadSound
<1> QED
  BY <1>1, <1>5, <1>9

\* The load thread opens the gate of its own epoch only.
LEMMA ThreadMarks ==
    ASSUME FgIInv, NEW l \in loads, l.step = "returned", loads' = Stepped(l, "marked"),
           player' = [player EXCEPT !.native = mark_native_load_returned(@, l.epoch)]
    PROVE  Sound(player', loads') /\ player'.engine = player.engine /\ player'.control.phase = player.control.phase
<1> DEFINE w == [l EXCEPT !.step = "marked"]
           n == mark_native_load_returned(player.native, l.epoch)
<1>0. Sound(player, loads)
  BY DEF FgIInv
<1>1. /\ loads = {l} /\ l \in LoadType
      /\ ~Live(player) => Quiet(player)
  BY <1>0, ThreadOf
<1>2. /\ w \in LoadType /\ w.epoch = l.epoch /\ w.attempt = l.attempt /\ w.serial = l.serial
      /\ w.step = "marked"
  BY <1>1 DEF LoadType
<1>3. loads' = {w}
  BY <1>1 DEF Stepped
<1>4. player \in PlayerType /\ Route(player.control) /\ player.native \in NativeType
  BY <1>0, SoundParts, PlayerFields
<1>5. /\ n \in NativeType /\ n.epoch = player.native.epoch /\ n.st = player.native.st
      /\ n.load_failed = player.native.load_failed /\ n.load_timed_out = player.native.load_timed_out
  BY <1>4 DEF mark_native_load_returned, NativeType
<1>6. ~Live(player) => n = player.native
  BY <1>1 DEF mark_native_load_returned, Active, Quiet
<1> HIDE DEF w, n
<1>7. /\ player' \in PlayerType /\ player'.control = player.control /\ player'.native = n
      /\ player'.engine = player.engine /\ player'.parked = player.parked
  BY <1>4, <1>5 DEF PlayerType, n
<1>8. Published(w)
  BY <1>2 DEF Published
<1>9. Running(player, l) => Tells(player.control, w) /\ Serves(n, w)
  BY <1>2, <1>5 DEF Running, Tells, Serves, Finished
<1>10. Sound(player', {w})
  BY <1>0, <1>2, <1>4, <1>6, <1>7, <1>8, <1>9, ThreadSound
<1> QED
  BY <1>3, <1>7, <1>10

\* It publishes the result of its own attempt only.
LEMMA ThreadPublishes ==
    ASSUME FgIInv, NEW l \in loads, l.step = "marked",
           loads' = Stepped(l, IF l.ok THEN "done" ELSE "published"),
           player' = [player EXCEPT !.control = publish_route_start_result(@, ResultOf(l))]
    PROVE  Sound(player', loads') /\ player'.engine = player.engine /\ player'.control.phase = player.control.phase
<1> DEFINE w == [l EXCEPT !.step = IF l.ok THEN "done" ELSE "published"]
           r == ResultOf(l)
           d == publish_route_start_result(player.control, r)
<1>0. Sound(player, loads)
  BY DEF FgIInv
<1>1. /\ loads = {l} /\ l \in LoadType
      /\ Live(player) => Running(player, l)
      /\ ~Live(player) => Waiting(player, l)
  BY <1>0, ThreadOf
<1>2. /\ w \in LoadType /\ w.epoch = l.epoch /\ w.attempt = l.attempt /\ w.serial = l.serial
      /\ w.ok = l.ok /\ w.step = (IF l.ok THEN "done" ELSE "published")
  BY <1>1 DEF LoadType
<1>3. loads' = {w}
  BY <1>1 DEF Stepped
<1>4. player \in PlayerType /\ player.control \in ControlType /\ Route(player.control)
  BY <1>0, SoundParts
<1>5. r \in ResultType /\ r.attempt = l.attempt /\ r.ok = l.ok /\ r.attempt <= player.control.next_attempt
  <2>1. l.attempt <= player.control.next_attempt
    BY <1>1 DEF Running, Tells, Waiting
  <2> QED
    BY <1>1, <2>1 DEF ResultOf, ResultType, LoadType
<1>6. /\ Sane(player.control, d) /\ d.phase = player.control.phase /\ d.last = player.control.last
      /\ \A i \in DOMAIN d.results :
           \/ i \in DOMAIN player.control.results /\ d.results[i] = player.control.results[i]
           \/ d.results[i] = r
  <2> HIDE DEF r
  <2> QED
    BY <1>4, <1>5, PublishResult
<1> HIDE DEF w, r, d
<1>7. d \in ControlType /\ Route(d) /\ d.next_attempt = player.control.next_attempt
  BY <1>6 DEF Sane
<1>8. /\ player' \in PlayerType /\ player'.control = d /\ player'.native = player.native
      /\ player'.engine = player.engine /\ player'.parked = player.parked
  BY <1>4, <1>7 DEF PlayerType, d, r
<1>9. Published(w)
  BY <1>2 DEF Published
<1>10. ASSUME Running(player, l) PROVE Tells(d, w) /\ Serves(player.native, w)
  <2>1. Tells(player.control, l) /\ Serves(player.native, l)
    BY <1>10 DEF Running
  <2>2. ASSUME NEW i \in DOMAIN d.results, d.results[i].attempt = w.attempt
        PROVE  w.step \in {"published", "done"} /\ d.results[i].ok = w.ok
    BY <1>2, <1>5, <1>6, <2>1, <2>2 DEF Tells
  <2>3. Tells(d, w)
    BY <1>2, <1>6, <1>7, <2>1, <2>2 DEF Tells, Finished
  <2>4. Serves(player.native, w)
    BY <1>2, <2>1 DEF Serves, Finished
  <2> QED
    BY <2>3, <2>4
<1>11. /\ player'.control.next_attempt = player.control.next_attempt
       /\ player'.control.phase = player.control.phase /\ Route(player'.control)
       /\ Running(player, l) => Tells(player'.control, w) /\ Serves(player'.native, w)
       /\ ~Live(player) => player'.native = player.native
  BY <1>6, <1>7, <1>8, <1>10
<1>12. player'.engine = player.engine /\ player'.parked = player.parked /\ player' \in PlayerType
  BY <1>8
<1>13. Sound(player', {w})
  BY <1>0, <1>2, <1>9, <1>11, <1>12, ThreadSound
<1> QED
  BY <1>3, <1>6, <1>8, <1>13

\* It publishes its refusal to its own epoch only.
LEMMA ThreadEnds ==
    ASSUME FgIInv, NEW l \in loads, l.step = "published", loads' = Stepped(l, "done"),
           player' = [player EXCEPT !.native = publish_native_load_failure(@, l.epoch)]
    PROVE  Sound(player', loads') /\ player'.engine = player.engine /\ player'.control.phase = player.control.phase
<1> DEFINE w == [l EXCEPT !.step = "done"]
           n == publish_native_load_failure(player.native, l.epoch)
<1>0. Sound(player, loads)
  BY DEF FgIInv
<1>1. /\ loads = {l} /\ l \in LoadType
      /\ ~Live(player) => Quiet(player)
      /\ Live(player) => Running(player, l)
  BY <1>0, ThreadOf
<1>2. /\ w \in LoadType /\ w.epoch = l.epoch /\ w.attempt = l.attempt /\ w.serial = l.serial
      /\ w.step = "done" /\ w.ok = l.ok
  BY <1>1 DEF LoadType
<1>3. loads' = {w}
  BY <1>1 DEF Stepped
<1>4. player \in PlayerType /\ Route(player.control) /\ player.native \in NativeType
  BY <1>0, SoundParts, PlayerFields
<1>5. /\ n \in NativeType /\ n.epoch = player.native.epoch /\ n.st = player.native.st
  BY <1>4 DEF publish_native_load_failure, NativeType
<1>6. ~Live(player) => n = player.native
  BY <1>1 DEF publish_native_load_failure, Active, Quiet
<1> HIDE DEF w, n
<1>7. /\ player' \in PlayerType /\ player'.control = player.control /\ player'.native = n
      /\ player'.engine = player.engine /\ player'.parked = player.parked
  BY <1>4, <1>5 DEF PlayerType, n
<1>8. Published(w)
  BY <1>2 DEF Published
<1>9. ASSUME Running(player, l) PROVE Tells(player.control, w) /\ Serves(n, w)
  <2>1. ~l.ok
    BY <1>9 DEF Running, Published
  <2>2. Tells(player.control, l) /\ Serves(player.native, l)
    BY <1>9 DEF Running
  <2>3. Tells(player.control, w)
    BY <1>2, <2>1, <2>2 DEF Tells, Finished
  <2>4. Serves(n, w)
    BY <1>2, <1>5, <2>1, <2>2 DEF Serves, Finished
  <2> QED
    BY <2>3, <2>4
<1>10. Sound(player', {w})
  BY <1>0, <1>2, <1>4, <1>6, <1>7, <1>8, <1>9, ThreadSound
<1> QED
  BY <1>3, <1>7, <1>10

\* The load thread keeps the invariant.
LEMMA LoadThreadKeeps == ASSUME FgIInv, NEW l \in loads, load_thread(l) PROVE FgIInv'
<1> USE DEF FgIInv, ParkedOwnsNoEngine, BrowsingCanPlay
<1>1. UNCHANGED << fg, play, window, page, pc >>
  BY DEF load_thread
<1>2. Sound(player', loads') /\ player'.engine = player.engine /\ player'.control.phase = player.control.phase
  BY ThreadMarks, ThreadPublishes, ThreadEnds DEF load_thread
<1>3. Live(player') <=> Live(player)
  BY <1>2, SameEngine
<1>4. CanRequest(player'.control) <=> CanRequest(player.control)
  BY <1>2 DEF CanRequest
<1> QED
  BY <1>1, <1>2, <1>3, <1>4

\* The resolve worker keeps it.
LEMMA ResolveLandsKeeps == ASSUME FgIInv, ResolveLands PROVE FgIInv'
  BY DEF FgIInv, ParkedOwnsNoEngine, BrowsingCanPlay, ResolveLands

\* The firmware's unload keeps it.
LEMMA FirmwareUnloadsKeeps == ASSUME FgIInv, FirmwareUnloads PROVE FgIInv'
<1> USE DEF FgIInv, ParkedOwnsNoEngine, BrowsingCanPlay
<1> DEFINE n == unload_completed(player.native, player.native.epoch)
<1>0. player \in PlayerType /\ player.native \in NativeType
  BY SoundParts, PlayerFields
<1>1. /\ player.native.st \in {"Active", "Abandoned"} /\ player' = [player EXCEPT !.native = n]
      /\ UNCHANGED << fg, loads, play, window, page, pc >>
  BY <1>0 DEF FirmwareUnloads, PlayerType
<1>2. /\ n \in NativeType /\ n.epoch = player.native.epoch /\ n.st = "Unloaded"
      /\ n.load_failed = player.native.load_failed /\ n.load_timed_out = player.native.load_timed_out
  BY <1>0, <1>1 DEF unload_completed, NativeType
<1> HIDE DEF n
<1>3. /\ player' \in PlayerType /\ player'.native = n /\ player'.parked = player.parked
      /\ player'.control = player.control /\ player'.engine = player.engine
  BY <1>0, <1>1, <1>2 DEF PlayerType
<1>4. Live(player') <=> Live(player)
  BY <1>3 DEF Live
<1>5. Sound(player', loads)
  <2>1. CASE Live(player)
    BY <1>1, <1>2, <2>1, NativeSound
  <2>2. CASE ~Live(player)
    <3>1. Quiet(player) /\ Route(player.control)
      BY <2>2, SoundParts
    <3>2. Quiet(player')
      BY <1>2, <1>3, <1>4, <3>1 DEF Quiet
    <3>3. ASSUME NEW l \in LoadType, Waiting(player, l) PROVE Waiting(player', l)
      BY <1>3, <3>3 DEF Waiting
    <3> QED
      BY <1>3, <2>2, <3>1, <3>2, <3>3 DEF Sound, WithEngine, WithParked, AtRest
  <2> QED
    BY <2>1, <2>2
<1> QED
  BY <1>1, <1>3, <1>4, <1>5

\* The budget's end keeps it.
LEMMA BudgetElapsesKeeps == ASSUME FgIInv, BudgetElapses PROVE FgIInv'
<1> USE DEF FgIInv, ParkedOwnsNoEngine, BrowsingCanPlay
<1> DEFINE n == [player.native EXCEPT !.overdue = TRUE]
<1>0. player \in PlayerType /\ player.native \in NativeType
  BY SoundParts, PlayerFields
<1>1. /\ Live(player) /\ player' = [player EXCEPT !.native = n]
      /\ UNCHANGED << fg, loads, play, window, page, pc >>
  BY <1>0 DEF BudgetElapses, PlayerType
<1>2. player.native.st \in {"Active", "Unloaded"}
  BY <1>1, SoundParts DEF Running, Serves
<1>3. /\ n \in NativeType /\ n.epoch = player.native.epoch /\ n.st \in {"Active", "Unloaded"}
      /\ n.load_failed = player.native.load_failed /\ n.load_timed_out = player.native.load_timed_out
  BY <1>0, <1>2 DEF NativeType
<1> HIDE DEF n
<1>4. Sound(player', loads) /\ player'.control = player.control /\ player'.engine = player.engine
  BY <1>1, <1>3, NativeSound
<1>5. Live(player')
  BY <1>1, <1>4, SameEngine
<1> QED
  BY <1>1, <1>4, <1>5

\* Every step keeps it.
LEMMA FgNextKeeps == ASSUME FgIInv, [FgNext]_fgVars PROVE FgIInv'
<1>1. CASE UNCHANGED fgVars
  BY <1>1 DEF fgVars, FgIInv, ParkedOwnsNoEngine, BrowsingCanPlay
<1>2. CASE FgNext
  BY <1>2, BackgroundKeeps, DidForegroundKeeps, KeyPlayKeeps, KeyPauseKeeps, RequestPlayKeeps,
     StopAndRequestKeeps, ExitPlayerKeeps, ReapKeeps, PumpDrainKeeps, PumpCheckKeeps, PollKeeps,
     PumpPlayKeeps, ResolveLandsKeeps, FirmwareUnloadsKeeps, BudgetElapsesKeeps, LoadThreadKeeps,
     LoadReturnsKeeps DEF FgNext, LoadStep
<1> QED
  BY <1>1, <1>2

\* Of a launched, a refused or a released Load, each keeps the Play it was asked for.
LEMMA LoadKeepsIntent ==
    ASSUME NEW p, NEW ls, NEW pos, NEW o \in LoadEffect(p, ls, pos, "Playing")
    PROVE  o.fg.st # "Idle" => Intends(o.fg)
<1> DEFINE Of(s) ==
             CASE s.out = "Launched" ->
                    Effect(s.p, s.loads, Fg("LoadPending", pos, "Playing", s.p.engine.attempt), "Launched")
               [] s.out = "Failed" -> Effect(s.p, s.loads, Fg("Prepared", pos, "Playing", 0), "Handled")
               [] OTHER -> Effect(s.p, s.loads, FgIdle, "Handled")
<1>1. PICK s \in start_bufferfeed_tracked(p, ls) : o = Of(s)
  BY DEF LoadEffect
<1>2. CASE s.out = "Launched"
  BY <1>1, <1>2 DEF Effect, Fg, Intends
<1>3. CASE s.out = "Failed"
  BY <1>1, <1>3 DEF Effect, Fg, Intends
<1>4. CASE s.out \notin {"Launched", "Failed"}
  <2>1. o = Effect(s.p, s.loads, FgIdle, "Handled")
    BY <1>1, <1>4
  <2> QED
    BY <2>1 DEF Effect, FgIdle
<1> QED
  BY <1>2, <1>3, <1>4

\* PlayClock ends the lifecycle or waits with Play pending.
LEMMA ClockKeepsIntent ==
    ASSUME NEW p, NEW ls, NEW o \in PlayClock(p, ls) PROVE o.fg.st # "Idle" => Intends(o.fg)
  BY DEF PlayClock, Effect, Fg, FgIdle, Intends

\* Neither the resume nor the PLAY key drops the Play.
LEMMA DriveKeepsIntent ==
    ASSUME NEW p, NEW ls, NEW f \in FgType, Intends(f), NEW input \in {"DidForeground", "PlayKey"},
           NEW o \in drive_foreground(p, ls, f, input)
    PROVE  o.fg.st # "Idle" => Intends(o.fg)
<1> DEFINE k == Intent(f, input)
<1>1. f.st \in FgStates
  BY DEF FgType
<1>2. CASE f.st = "Idle"
  <2>1. o = Effect(p, ls, f, "Ordinary")
    BY <1>2 DEF drive_foreground
  <2> QED
    BY <2>1 DEF Effect
<1>3. CASE f.st = "Suspended"
  <2> DEFINE pos == ResumePoint(f)
  <2>1. PICK r \in resume_at(p, pos) :
          o \in IF r.prepared THEN LoadEffect(r.p, ls, pos, k) ELSE { Effect(r.p, ls, f, "Handled") }
    BY <1>3 DEF drive_foreground
  <2>2. k = "Playing"
    BY <1>3 DEF Intent, Intends
  <2> HIDE DEF pos, k
  <2>3. CASE r.prepared
    BY <2>1, <2>2, <2>3, LoadKeepsIntent
  <2>4. CASE ~r.prepared
    BY <2>1, <2>4 DEF Effect
  <2> QED
    BY <2>3, <2>4
<1>4. CASE f.st = "Prepared"
  <2>1. o \in LoadEffect(p, ls, f.pos, k)
    BY <1>4 DEF drive_foreground
  <2>2. k = "Playing"
    BY <1>4 DEF Intent, Intends
  <2> HIDE DEF k
  <2> QED
    BY <2>1, <2>2, LoadKeepsIntent
<1>5. CASE f.st = "ClockPending" /\ input = "PlayKey"
  <2>1. o \in PlayClock(p, ls)
    BY <1>5 DEF drive_foreground
  <2> QED
    BY <2>1, ClockKeepsIntent
<1>6. CASE f.st = "LoadPending" \/ (f.st = "ClockPending" /\ input # "PlayKey")
  <2>1. o = Effect(p, ls, f, "Handled")
    BY <1>6 DEF drive_foreground
  <2> QED
    BY <2>1 DEF Effect
<1> QED
  BY <1>1, <1>2, <1>3, <1>4, <1>5, <1>6 DEF FgStates

\* Neither does the verdict on a Load.
LEMMA SettleKeepsIntent ==
    ASSUME NEW p, NEW ls, NEW f \in FgType, Intends(f), f.st = "LoadPending", NEW s,
           s.st \in {"Pending", "Superseded", "Started", "Failed", "Stale"},
           NEW o \in settle_load(p, ls, f, s)
    PROVE  o.fg.st # "Idle" => Intends(o.fg)
<1>1. f.clock = "Playing"
  BY DEF Intends
<1>2. CASE s.st = "Pending"
  <2>1. o = Effect(p, ls, f, "Pending")
    BY <1>2 DEF settle_load
  <2> QED
    BY <2>1 DEF Effect
<1>3. CASE s.st = "Superseded"
  <2>1. o = Effect(p, ls, [f EXCEPT !.attempt = s.attempt], "Pending")
    BY <1>3 DEF settle_load
  <2> QED
    BY <1>1, <2>1 DEF Effect, Intends, FgType
<1>4. CASE s.st = "Failed"
  <2>1. PICK t \in suspend_bufferfeed_if_attempt(p, ls, f.attempt) :
          o = Effect(t.p, t.loads, Fg("Prepared", f.pos, f.clock, 0), "Failed")
    BY <1>4 DEF settle_load
  <2> QED
    BY <1>1, <2>1 DEF Effect, Fg, Intends
<1>5. CASE s.st = "Stale"
  <2>1. o = Effect(p, ls, FgIdle, "Failed")
    BY <1>5 DEF settle_load
  <2> QED
    BY <2>1 DEF Effect, FgIdle
<1>6. CASE s.st = "Started"
  <2>1. o \in PlayClock(p, ls)
    BY <1>1, <1>6 DEF settle_load
  <2> QED
    BY <2>1, ClockKeepsIntent
<1> QED
  BY <1>2, <1>3, <1>4, <1>5, <1>6

\* Nor any other step.
LEMMA StepKeepsIntent ==
    ASSUME FgIInv, [FgNext]_fgVars, Intends(fg), fg'.st # "Idle" PROVE Intends(fg')
<1>1. fg \in FgType /\ fg.st \in FgStates /\ Sound(player, loads)
  BY DEF FgIInv, FgType
<1>2. CASE Background
  <2>1. CASE fg' = fg
    BY <2>1
  <2>2. CASE /\ fg' = Fg("Suspended", player.pos, clock_for_suspend(fg, player.paused), 0)
             /\ ~awaiting_load(fg)
    <3>1. clock_for_suspend(fg, player.paused) = "Playing"
      <4>1. CASE fg.st = "ClockPending"
        BY <4>1 DEF clock_for_suspend
      <4>2. CASE fg.st = "LoadPending"
        BY <4>2 DEF clock_for_suspend, Intends
      <4>3. fg.st \in {"ClockPending", "LoadPending"}
        BY <1>1, <2>2 DEF Intends, awaiting_load, FgStates
      <4> QED
        BY <4>1, <4>2, <4>3
    <3> QED
      BY <2>2, <3>1 DEF Fg, Intends
  <2> QED
    BY <1>2, <2>1, <2>2 DEF Background
<1>3. CASE DidForeground
  <2>1. PICK o \in drive_foreground(player, loads, fg, "DidForeground") : fg' = o.fg
    BY <1>3 DEF DidForeground
  <2> QED
    BY <1>1, <2>1, DriveKeepsIntent
<1>4. CASE key_play
  <2> DEFINE f == IF ~page /\ fg.st = "ClockPending" THEN FgIdle ELSE fg
  <2>1. PICK o \in drive_foreground(player, loads, f, "PlayKey") : fg' = o.fg
    BY <1>4 DEF key_play
  <2>2. CASE f = fg
    BY <1>1, <2>1, <2>2, DriveKeepsIntent
  <2>3. CASE f = FgIdle
    <3>1. o = Effect(player, loads, FgIdle, "Ordinary")
      BY <2>1, <2>3 DEF drive_foreground, FgIdle
    <3> QED
      BY <2>1, <3>1 DEF Effect, FgIdle
  <2> QED
    BY <2>2, <2>3
<1>5. CASE poll_foreground_load
  <2> DEFINE s == route_start_status(player.control, fg.attempt)
  <2>1. CASE fg' = fg
    BY <2>1
  <2>2. CASE fg.st = "LoadPending" /\ \E o \in settle_load(player, loads, fg, s) : fg' = o.fg
    <3>1. PICK o \in settle_load(player, loads, fg, s) : fg' = o.fg
      BY <2>2
    <3>2. s.st \in {"Pending", "Superseded", "Started", "Failed", "Stale"}
      BY <1>1, SoundParts, StatusIs DEF FgType
    <3> HIDE DEF s
    <3> QED
      BY <1>1, <2>2, <3>1, <3>2, SettleKeepsIntent
  <2> QED
    BY <1>5, <2>1, <2>2 DEF poll_foreground_load
<1>6. CASE pump_play
  <2>1. fg' = fg \/ fg' = FgIdle
    BY <1>6 DEF pump_play
  <2> QED
    BY <2>1 DEF FgIdle
<1>7. CASE fg' = fg
  BY <1>7
<1>8. CASE \/ key_pause \/ RequestPlay \/ StopAndRequest \/ exit_player \/ Reap \/ PumpDrain \/ PumpCheck
           \/ ResolveLands \/ FirmwareUnloads \/ BudgetElapses \/ LoadStep
           \/ (\E l \in loads : LoadReturns(l)) \/ UNCHANGED fgVars
  <2>1. fg' = fg
    BY <1>8 DEF key_pause, RequestPlay, StopAndRequest, exit_player, Reap, PumpDrain, PumpCheck,
      ResolveLands, FirmwareUnloads, BudgetElapses, LoadStep, load_thread, LoadReturns, fgVars
  <2> QED
    BY <2>1
<1> QED
  BY <1>2, <1>3, <1>4, <1>5, <1>6, <1>8 DEF FgNext

\* Playback across app switches keeps its invariant: the route, the engine, the native session
\* and the load threads all speak of one Load.
THEOREM AppSwitchInvariant == FgSpec => []FgIInv
<1>1. FgInit => FgIInv
  BY FgInitHolds
<1>2. FgIInv /\ [FgNext]_fgVars => FgIInv'
  BY FgNextKeeps
<1> QED
  BY <1>1, <1>2, PTL DEF FgSpec

\* At every moment a start has its engine, a Stable its accepted Load, a parked session no
\* engine, and a browse page a free route.
THEOREM SessionEngineAndRouteAgree == FgSpec => []ForegroundSafe
<1>1. ASSUME FgIInv PROVE ForegroundSafe
  <2>1. fg \in FgType /\ Sound(player, loads) /\ ParkedOwnsNoEngine /\ BrowsingCanPlay
    BY <1>1 DEF FgIInv
  <2>2. player \in PlayerType /\ player.control \in ControlType /\ Route(player.control)
    BY <2>1, SoundParts
  <2>3. FgTypeOK
    <3>1. player.control.phase.st \in {"Idle", "Resolving", "Stable", "Failed"} \cup Transacting
      BY <2>2, ControlFields DEF Route
    <3>2. /\ player.url \in {"none", "direct", "transcode"}
          /\ player.pos \in 0 .. MaxPos /\ player.armed \in -1 .. MaxPos
          /\ player.native.st \in {"Idle", "Active", "Unloaded", "Abandoned"}
      BY <2>2, PlayerFields
    <3>3. \A l \in loads : l.step \in {"loading", "returned", "marked", "published", "done"}
      BY <2>1, ThreadOf DEF LoadType
    <3>4. fg.st \in FgStates /\ fg.pos \in 0 .. MaxPos /\ fg.clock \in {"Paused", "Playing"}
      BY <2>1 DEF FgType
    <3> QED
      BY <1>1, <3>1, <3>2, <3>3, <3>4 DEF FgTypeOK, FgIInv
  <2>4. CASE Live(player)
    <3>1. PICK l \in LoadType : loads = {l} /\ Running(player, l)
      BY <2>1, <2>4, SoundParts
    <3>2. /\ l.epoch = player.engine.epoch /\ l.serial = player.engine.serial
          /\ l.attempt = player.engine.attempt /\ Tells(player.control, l)
      BY <3>1 DEF Running
    <3>3. LoadOf(loads, player.engine.epoch) = l
      BY <3>1, <3>2, LoadOfOne
    <3> QED
      BY <2>1, <2>3, <3>2, <3>3 DEF ForegroundSafe, StartingIsOwned, StableIsAccepted, Tells
  <2>5. CASE ~Live(player)
    <3>1. player.control.phase.st # "Starting"
      BY <2>1, <2>5, SoundParts DEF Quiet
    <3> QED
      BY <2>1, <2>3, <2>5, <3>1 DEF ForegroundSafe, StartingIsOwned, StableIsAccepted
  <2> QED
    BY <2>4, <2>5
<1> QED
  BY <1>1, AppSwitchInvariant, PTL

\* The C seam holds one native object: never two Loads out, and every thread is the engine's or
\* the parked one's.
THEOREM OnlyOneNativeObject == FgSpec => []OneNativeObject
<1>1. ASSUME FgIInv PROVE OneNativeObject
  <2>1. Sound(player, loads)
    BY <1>1 DEF FgIInv
  <2>2. loads = {} \/ \E l : loads = {l}
    BY <2>1, SoundParts
  <2>3. Cardinality(loads) <= 1
    <3>1. CASE loads = {}
      <4>1. Cardinality(loads) = 0
        BY <3>1, FS_EmptySet
      <4> QED
        BY <4>1
    <3>2. CASE \E l : loads = {l}
      <4>1. Cardinality(loads) = 1
        BY <3>2, FS_Singleton
      <4> QED
        BY <4>1
    <3> QED
      BY <2>2, <3>1, <3>2
  <2>4. ASSUME NEW l \in loads PROVE l.epoch \in {player.engine.epoch, player.parked} \ {0}
    <3>1. CASE Live(player)
      BY <2>1, <3>1, ThreadOf DEF Running
    <3>2. CASE ~Live(player)
      BY <2>1, <3>2, ThreadOf DEF Waiting
    <3> QED
      BY <3>1, <3>2
  <2>5. ~(Live(player) /\ player.parked # 0)
    BY <2>1, SoundParts
  <2> QED
    BY <2>3, <2>4, <2>5 DEF OneNativeObject
<1> QED
  BY <1>1, AppSwitchInvariant, PTL

\* load_failed is always the failure of the live engine's own Load.
THEOREM FailureBelongsToTheEngine == FgSpec => []FailureIsItsOwn
<1>1. ASSUME FgIInv PROVE FailureIsItsOwn
  <2>1. Sound(player, loads)
    BY <1>1 DEF FgIInv
  <2>2. SUFFICES ASSUME player.native.load_failed
                 PROVE  /\ Live(player)
                        /\ \/ player.native.load_timed_out
                           \/ LET l == LoadOf(loads, player.engine.epoch) IN Finished(l) /\ ~l.ok
    BY DEF FailureIsItsOwn
  <2>3. Live(player)
    BY <2>1, <2>2, SoundParts DEF Quiet
  <2>4. PICK l \in LoadType : loads = {l} /\ Running(player, l)
    BY <2>1, <2>3, SoundParts
  <2>5. LoadOf(loads, player.engine.epoch) = l
    BY <2>4, LoadOfOne DEF Running
  <2> QED
    BY <2>2, <2>3, <2>4, <2>5 DEF Running, Serves
<1> QED
  BY <1>1, AppSwitchInvariant, PTL

\* No failure, retry or app switch turns the viewer's Play back into a pause.
THEOREM PlayIntentIsKept == FgSpec => PlayIntentSurvives
<1>1. FgIInv /\ [FgNext]_fgVars => [(Intends(fg) /\ fg'.st # "Idle") => Intends(fg')]_fgVars
  BY StepKeepsIntent
<1> QED
  BY <1>1, AppSwitchInvariant, PTL DEF FgSpec, PlayIntentSurvives

=============================================================================
