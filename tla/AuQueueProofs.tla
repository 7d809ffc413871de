--------------------------- MODULE AuQueueProofs ---------------------------
(* Proofs about module AuQueue, for every file, cap and depth. *)
EXTENDS AuQueue, SequenceTheorems, TLAPS

\* How many access units of a lane the feeder holds back.
InHand(l) == IF pending[l] = NoPts THEN 0 ELSE 1

\* How many access units of a lane the feeder has accepted or discarded.
Done(l) == pushed[l] - InHand(l) - Len(q[l])

\* A lane unit by unit: the feeder's, then the queue's, are the ones after those it is done with.
Flow ==
    \A l \in Lanes :
        /\ Done(l) \in Nat
        /\ pending[l] # NoPts => pending[l] = Done(l)
        /\ \A i \in 1 .. Len(q[l]) : q[l][i] = Done(l) + InHand(l) + i - 1

\* What the pipeline has of a lane, in order: every picture the feeder is done with, and every
\* sound up to AUDIO_STALE_AHEAD.  The high-water is not beyond what the feeder is done with, so
\* no unit is a jump back.
Sent ==
    \A l \in Lanes :
        /\ max_fed[l] <= Done(l)
        /\ \A i, j \in 1 .. Len(fed[l]) : i < j => fed[l][i] < fed[l][j]
        /\ \A i \in 1 .. Len(fed[l]) : fed[l][i] < Done(l)
        /\ \A p \in 0 .. Done(l) - 1 :
               l = "v" \/ p <= AUDIO_STALE_AHEAD => \E i \in 1 .. Len(fed[l]) : fed[l][i] = p

IInv == TypeOK /\ LanesAreBounded /\ SleepsOnlyOnAFullLane /\ Flow /\ Sent

-----------------------------------------------------------------------------
\* The caps are natural numbers, and no timestamp is the mark of an empty hand.
LEMMA Limits ==
    /\ BaseCap \in [Lanes -> Nat] /\ BaseCap["v"] \in Nat /\ BaseCap["a"] \in Nat
    /\ Headroom \in Nat /\ NoPts \notin Nat /\ NoPts = -1
    /\ STALE_BACKJUMP \in Nat /\ AUDIO_STALE_AHEAD \in Nat
    /\ \A f \in Files : f \in Seq(Lanes)
<1>1. {Headroom, PRIME, PRIME_AUDIO, PRIME_VIDEO_MAX, MAX_FEED_AHEAD, AUDIO_SLACK,
       STALE_BACKJUMP, AUDIO_STALE_AHEAD} \subseteq Nat
  BY AuQueueAssumption
<1>2. Headroom \in Nat /\ STALE_BACKJUMP \in Nat /\ AUDIO_STALE_AHEAD \in Nat
  BY <1>1
<1> QED
  BY <1>2, AuQueueAssumption DEF Lanes, NoPts

\* The unit-by-unit account is the one LostOnlyWhenStale gives of the whole lane.
LEMMA FlowIsAccount ==
    ASSUME TypeOK, Flow, Sent
    PROVE  LostOnlyWhenStale
<1> SUFFICES ASSUME NEW l \in Lanes
             PROVE  LET held == (IF pending[l] = NoPts THEN << >> ELSE <<pending[l]>>) \o q[l]
                        done == pushed[l] - Len(held)
                        sent == fed[l]
                    IN  /\ \A i \in DOMAIN held : held[i] = done + i - 1
                        /\ \A i, j \in DOMAIN sent : i < j => sent[i] < sent[j]
                        /\ \A i \in DOMAIN sent : sent[i] < done
                        /\ \A p \in 0 .. done - 1 :
                               l = "v" \/ p <= AUDIO_STALE_AHEAD =>
                                   \E i \in DOMAIN sent : sent[i] = p
  BY DEF LostOnlyWhenStale
<1> DEFINE first == IF pending[l] = NoPts THEN << >> ELSE <<pending[l]>>
           held == first \o q[l]
<1>1. /\ q[l] \in Seq(Nat) /\ pending[l] \in Nat \cup {NoPts} /\ Done(l) \in Nat /\ pushed[l] \in Nat
      /\ pending[l] # NoPts => pending[l] = Done(l)
      /\ \A i \in 1 .. Len(q[l]) : q[l][i] = Done(l) + InHand(l) + i - 1
  BY DEF TypeOK, Flow
<1>2. first \in Seq(Nat) /\ Len(first) = InHand(l) /\ (InHand(l) = 1 => first[1] = Done(l))
  BY <1>1 DEF InHand
<1>3. InHand(l) \in {0, 1} /\ Len(q[l]) \in Nat /\ Len(first) \in Nat
  BY <1>1, <1>2 DEF InHand
<1> HIDE DEF first
<1>4. /\ Len(held) = Len(first) + Len(q[l]) /\ DOMAIN held = 1 .. Len(first) + Len(q[l])
      /\ \A i \in 1 .. Len(first) + Len(q[l]) :
             held[i] = IF i <= Len(first) THEN first[i] ELSE q[l][i - Len(first)]
  <2>1. /\ held \in Seq(Nat) /\ Len(held) = Len(first) + Len(q[l])
        /\ \A i \in 1 .. Len(first) + Len(q[l]) :
               held[i] = IF i <= Len(first) THEN first[i] ELSE q[l][i - Len(first)]
    BY <1>1, <1>2, ConcatProperties, Zenon
  <2>2. DOMAIN held = 1 .. Len(held)
    BY <2>1
  <2> QED
    BY <2>1, <2>2
<1> HIDE DEF held
<1>5. pushed[l] - Len(held) = Done(l)
  BY <1>1, <1>2, <1>3, <1>4 DEF Done
<1>6. ASSUME NEW i \in DOMAIN held PROVE held[i] = Done(l) + i - 1
  <2>1. CASE i <= Len(first)
    BY <1>1, <1>2, <1>3, <1>4, <2>1
  <2>2. CASE i > Len(first)
    <3>1. i \in 1 .. Len(first) + Len(q[l]) /\ i - Len(first) \in 1 .. Len(q[l])
      BY <1>3, <1>4, <2>2
    <3>2. held[i] = q[l][i - Len(first)]
      BY <1>3, <1>4, <2>2, <3>1
    <3>3. q[l][i - Len(first)] = Done(l) + InHand(l) + (i - Len(first)) - 1
      BY <1>1, <3>1
    <3>4. i \in Int /\ Done(l) \in Nat /\ InHand(l) \in Nat /\ Len(first) = InHand(l)
      BY <1>1, <1>2, <1>3, <3>1
    <3> QED
      BY <3>2, <3>3, <3>4
  <2> QED
    BY <2>1, <2>2, <1>2, <1>3, <1>4
<1>7. DOMAIN fed[l] = 1 .. Len(fed[l])
  BY DEF TypeOK
<1>8. /\ \A i, j \in DOMAIN fed[l] : i < j => fed[l][i] < fed[l][j]
      /\ \A i \in DOMAIN fed[l] : fed[l][i] < Done(l)
      /\ \A p \in 0 .. Done(l) - 1 :
             l = "v" \/ p <= AUDIO_STALE_AHEAD => \E i \in DOMAIN fed[l] : fed[l][i] = p
  BY <1>7 DEF Sent
<1>9. /\ \A i \in DOMAIN held : held[i] = (pushed[l] - Len(held)) + i - 1
      /\ \A i, j \in DOMAIN fed[l] : i < j => fed[l][i] < fed[l][j]
      /\ \A i \in DOMAIN fed[l] : fed[l][i] < pushed[l] - Len(held)
      /\ \A p \in 0 .. (pushed[l] - Len(held)) - 1 :
             l = "v" \/ p <= AUDIO_STALE_AHEAD => \E i \in DOMAIN fed[l] : fed[l][i] = p
  BY <1>5, <1>6, <1>8, Zenon
<1> QED
  BY <1>9, Zenon DEF held, first

\* Before anything is read the lanes are empty.
LEMMA InitHolds == Init => IInv
<1> SUFFICES ASSUME Init PROVE IInv
  OBVIOUS
<1>1. TypeOK
  <2>1. file \in Seq(Lanes) /\ rebase_pending \in BOOLEAN /\ prime_play \in BOOLEAN
    BY Limits, AuQueueAssumption DEF Init
  <2> QED
    <3>1. \A l \in Lanes : << >> \in Seq(Nat)
      OBVIOUS
    <3>2. pres \in Nat \cup {NoPts} /\ start \in AllStarts /\ pending \in [Lanes -> Nat \cup {NoPts}]
      BY AuQueueAssumption DEF Init
    <3>3. q \in [Lanes -> Seq(Nat)] /\ pushed \in [Lanes -> Nat] /\ fed \in [Lanes -> Seq(Nat)]
          /\ max_fed \in [Lanes -> Nat] /\ eof \in [Lanes -> BOOLEAN] /\ abort \in [Lanes -> BOOLEAN]
      BY <3>1 DEF Init
    <3>4. pc \in Demuxer /\ cur \in Lanes /\ hint \in BOOLEAN /\ failed \in BOOLEAN
          /\ teardown \in {"no", "video", "joining"}
      BY DEF Init, Demuxer, Lanes
    <3> QED
      BY <2>1, <3>2, <3>3, <3>4 DEF TypeOK
<1>2. LanesAreBounded /\ SleepsOnlyOnAFullLane
  BY Limits DEF Init, LanesAreBounded, SleepsOnlyOnAFullLane, Lanes
<1>3. Flow /\ Sent
  <2> SUFFICES ASSUME NEW l \in Lanes
               PROVE  /\ Done(l) = 0 /\ Len(q[l]) = 0 /\ Len(fed[l]) = 0 /\ pending[l] = NoPts
                      /\ max_fed[l] = 0
    BY DEF Flow, Sent
  <2> QED
    BY DEF Init, Done, InHand
<1> QED
  BY <1>1, <1>2, <1>3 DEF IInv

\* An append by the demuxer, into a lane with room under `room`, keeps the lanes in order.
LEMMA AppendHolds ==
    ASSUME IInv, Append1, pc # "wait",
           Len(q[cur]) <= BaseCap[cur] + (IF cur = "a" THEN Headroom ELSE 0)
    PROVE  IInv'
<1> USE DEF IInv
<1>1. /\ cur \in Lanes /\ q \in [Lanes -> Seq(Nat)] /\ pushed \in [Lanes -> Nat]
      /\ q[cur] \in Seq(Nat) /\ pushed[cur] \in Nat
  BY DEF TypeOK
<1>2. /\ q' = [q EXCEPT ![cur] = Append(q[cur], pushed[cur])]
      /\ pushed' = [pushed EXCEPT ![cur] = pushed[cur] + 1] /\ pc' = "read"
      /\ file' = file /\ eof' = eof /\ abort' = abort /\ cur' = cur /\ hint' = hint
      /\ failed' = failed /\ pending' = pending /\ fed' = fed /\ max_fed' = max_fed
      /\ start' = start /\ prime_play' = prime_play
      /\ rebase_pending' = rebase_pending /\ pres' = pres /\ teardown' = teardown
  BY DEF Append1, Pts, consumer
<1>3. /\ q'[cur] = Append(q[cur], pushed[cur]) /\ q'[cur] \in Seq(Nat)
      /\ Len(q'[cur]) = Len(q[cur]) + 1
      /\ \A i \in 1 .. Len(q[cur]) : q'[cur][i] = q[cur][i]
      /\ q'[cur][Len(q[cur]) + 1] = pushed[cur]
      /\ \A l \in Lanes : l # cur => q'[l] = q[l] /\ pushed'[l] = pushed[l]
      /\ pushed'[cur] = pushed[cur] + 1
  BY <1>1, <1>2
<1>4. TypeOK'
  BY <1>1, <1>2, <1>3 DEF TypeOK, Demuxer
<1>5. LanesAreBounded'
  BY <1>1, <1>3, Limits, SMTT(30) DEF LanesAreBounded, Lanes
<1>6. SleepsOnlyOnAFullLane'
  BY <1>2 DEF SleepsOnlyOnAFullLane
<1>7. ASSUME NEW l \in Lanes
      PROVE  Done(l)' = Done(l) /\ InHand(l)' = InHand(l) /\ Done(l) \in Nat /\ InHand(l) \in Nat
  <2>1. InHand(l)' = InHand(l) /\ InHand(l) \in Nat /\ Done(l) \in Nat
    BY <1>2 DEF InHand, Flow
  <2>2. pushed'[l] - Len(q'[l]) = pushed[l] - Len(q[l])
    <3>1. CASE l = cur
      <4>1. Len(q[l]) \in Nat /\ pushed[l] \in Nat
        BY <1>1, <3>1
      <4> QED
        BY <4>1, <3>1, <1>3
    <3>2. CASE l # cur
      BY <3>2, <1>3
    <3> QED
      BY <3>1, <3>2
  <2>3. pushed[l] \in Nat /\ pushed'[l] \in Nat /\ q[l] \in Seq(Nat) /\ q'[l] \in Seq(Nat)
    BY <1>4 DEF TypeOK
  <2>4. Len(q[l]) \in Nat /\ Len(q'[l]) \in Nat
    BY <2>3
  <2>5. /\ Done(l) = pushed[l] - InHand(l) - Len(q[l])
        /\ Done(l)' = pushed'[l] - InHand(l)' - Len(q'[l])
    BY DEF Done
  <2> DEFINE lenNow == Len(q'[l])
             lenWas == Len(q[l])
             here == InHand(l)
             now == pushed'[l]
             was == pushed[l]
  <2>6. now - here - lenNow = was - here - lenWas
    <3>1. now \in Int /\ lenNow \in Int /\ was \in Int /\ lenWas \in Int /\ here \in Int
          /\ now - lenNow = was - lenWas
      BY <2>1, <2>2, <2>3, <2>4
    <3> HIDE DEF lenNow, lenWas, here, now, was
    <3> QED
      BY <3>1, SMTT(30)
  <2>7. Done(l)' = Done(l)
    BY <2>1, <2>5, <2>6
  <2> QED
    BY <2>1, <2>7
<1>8. Flow'
  <2> SUFFICES ASSUME NEW l \in Lanes
               PROVE  /\ pending[l] # NoPts => pending[l] = Done(l)
                      /\ \A i \in 1 .. Len(q'[l]) : q'[l][i] = Done(l) + InHand(l) + i - 1
    BY <1>2, <1>7 DEF Flow
  <2>1. CASE l # cur
    BY <2>1, <1>3 DEF Flow
  <2>2. CASE l = cur
    <3>1. /\ pending[l] # NoPts => pending[l] = Done(l)
          /\ \A i \in 1 .. Len(q[l]) : q[l][i] = Done(l) + InHand(l) + i - 1
      BY DEF Flow
    <3>0. /\ Len(q[l]) \in Nat /\ Len(q'[l]) = Len(q[l]) + 1
          /\ pushed[l] = Done(l) + InHand(l) + Len(q[l])
      BY <1>1, <1>3, <1>7, <2>2 DEF Done
    <3>2. ASSUME NEW i \in 1 .. Len(q'[l]) PROVE q'[l][i] = Done(l) + InHand(l) + i - 1
      <4>1. CASE i \in 1 .. Len(q[l])
        BY <1>3, <2>2, <3>1, <4>1
      <4>2. CASE i = Len(q[l]) + 1
        BY <1>3, <1>7, <2>2, <3>0, <4>2
      <4> QED
        BY <4>1, <4>2, <3>0
    <3> QED
      BY <3>1, <3>2
  <2> QED
    BY <2>1, <2>2
<1>9. Sent'
  BY <1>2, <1>7 DEF Sent
<1> QED
  BY <1>4, <1>5, <1>6, <1>8, <1>9

\* A step of the demuxer that touches neither the lanes nor what has been pushed.
LEMMA DemuxHolds ==
    ASSUME IInv, Demux
    PROVE  IInv'
<1> USE DEF IInv
<1> DEFINE Quiet == /\ UNCHANGED <<q, abort, pushed, pending, fed, max_fed, start,
                                   rebase_pending, prime_play, pres, teardown>>
                    /\ file' \in Seq(Lanes) /\ eof' \in [Lanes -> BOOLEAN] /\ pc' \in Demuxer
                    /\ cur' \in Lanes /\ hint' \in BOOLEAN /\ failed' \in BOOLEAN
                    /\ pc' = "wait" => OverCap(cur) /\ ~abort[cur] /\ cur' = cur
<1>1. Quiet => IInv'
  <2> SUFFICES ASSUME Quiet PROVE IInv'
    OBVIOUS
  <2>1. TypeOK'
    BY DEF TypeOK
  <2>2. LanesAreBounded' /\ SleepsOnlyOnAFullLane'
    BY DEF LanesAreBounded, SleepsOnlyOnAFullLane, OverCap
  <2>3. Flow' /\ Sent'
    BY DEF Flow, Sent, Done, InHand
  <2> QED
    BY <2>1, <2>2, <2>3
<1>2. [l \in Lanes |-> TRUE] \in [Lanes -> BOOLEAN]
  OBVIOUS
<1>3. CASE ReadPacket
  <2>1. Head(file) \in Lanes /\ Tail(file) \in Seq(Lanes)
    BY <1>3 DEF TypeOK, ReadPacket
  <2> QED
    BY <1>1, <1>3, <2>1 DEF ReadPacket, consumer, TypeOK, Demuxer
<1>4. CASE ReadEnds \/ PushAborted
  BY <1>1, <1>2, <1>4 DEF ReadEnds, PushAborted, End, consumer, TypeOK, Demuxer
<1>5. CASE Push
  <2>1. Append1 /\ pc # "wait"
    BY <1>5 DEF Push
  <2>2. cur \in Lanes /\ Len(q[cur]) \in Nat
    BY DEF TypeOK
  <2>3. Len(q[cur]) <= BaseCap[cur] + (IF cur = "a" THEN Headroom ELSE 0)
    BY <1>5, <2>2, Limits DEF Push, OverCap
  <2> QED
    BY <2>1, <2>3, AppendHolds
<1>6. CASE Unlock
  BY <1>1, <1>6 DEF Unlock, consumer, TypeOK, Demuxer
<1>7. CASE Drain
  <2>1. hint' \in BOOLEAN
    <3>1. CASE cur = "a"
      <4>1. hint' = Starved
        BY <1>7, <3>1 DEF Drain
      <4>2. Starved \in BOOLEAN
        BY DEF Starved
      <4> QED
        BY <4>1, <4>2
    <3>2. CASE cur # "a"
      BY <1>7, <3>2 DEF Drain
    <3> QED
      BY <3>1, <3>2
  <2> QED
    BY <1>1, <1>7, <2>1 DEF Drain, consumer, TypeOK, Demuxer
<1>8. CASE Admit
  <2>1. Append1 /\ pc # "wait"
    BY <1>8 DEF Admit
  <2>2. Len(q[cur]) <= BaseCap[cur] + (IF cur = "a" THEN Headroom ELSE 0)
    BY <1>8 DEF Admit, UnderCeiling
  <2> QED
    BY <2>1, <2>2, AppendHolds
<1>9. CASE Ceiling
  BY <1>1, <1>2, <1>9 DEF Ceiling, End, consumer, TypeOK, Demuxer
<1>10. CASE Park
  BY <1>1, <1>10 DEF Park, MayWait, StillFull, consumer, TypeOK, Demuxer
<1>11. CASE Retry
  BY <1>1, <1>11 DEF Retry, consumer, TypeOK, Demuxer
<1> QED
  BY <1>3, <1>4, <1>5, <1>6, <1>7, <1>8, <1>9, <1>10, <1>11 DEF Demux

\* No unit is a jump back: what is discarded is a sound beyond AUDIO_STALE_AHEAD.
LEMMA StaleIsAhead ==
    ASSUME IInv, NEW l \in Lanes, Next1(l) = Done(l), Stale(l)
    PROVE  l # "v" /\ Done(l) > AUDIO_STALE_AHEAD
<1>1. /\ Done(l) \in Nat /\ max_fed[l] <= Done(l) /\ max_fed[l] \in Nat /\ max_fed["v"] \in Nat
      /\ STALE_BACKJUMP \in Nat /\ AUDIO_STALE_AHEAD \in Nat
  BY Limits DEF IInv, Flow, Sent, TypeOK, Lanes
<1>2. ~(Next1(l) < max_fed[l] - STALE_BACKJUMP)
  BY <1>1
<1> QED
  BY <1>1, <1>2 DEF Stale

\* One iteration of a feeder moves the front of the lane one place on, or keeps it in hand, and
\* wakes the demuxer whose lane it makes room in.  The unit moved past is accepted, or a sound
\* beyond AUDIO_STALE_AHEAD.
LEMMA FeedHolds ==
    ASSUME IInv, NEW l \in Lanes, Feed(l), rebase_pending' \in BOOLEAN, prime_play' \in BOOLEAN
    PROVE  IInv'
<1> USE DEF IInv
<1>1. /\ q \in [Lanes -> Seq(Nat)] /\ pushed \in [Lanes -> Nat] /\ fed \in [Lanes -> Seq(Nat)]
      /\ max_fed \in [Lanes -> Nat]
      /\ pending \in [Lanes -> Nat \cup {NoPts}] /\ NoPts \notin Nat
      /\ q[l] \in Seq(Nat) /\ fed[l] \in Seq(Nat) /\ pushed[l] \in Nat /\ max_fed[l] \in Nat
  BY Limits DEF TypeOK
<1>2. /\ file' = file /\ eof' = eof /\ abort' = abort /\ cur' = cur /\ hint' = hint
      /\ pushed' = pushed /\ failed' = failed /\ start' = start /\ pres' = pres
      /\ teardown' = teardown
  BY DEF Feed, demuxer
<1>3. /\ Done(l) \in Nat /\ InHand(l) \in {0, 1} /\ Done(l) = pushed[l] - InHand(l) - Len(q[l])
      /\ pending[l] # NoPts => pending[l] = Done(l)
      /\ \A i \in 1 .. Len(q[l]) : q[l][i] = Done(l) + InHand(l) + i - 1
      /\ InHand(l) = 0 <=> pending[l] = NoPts
  BY DEF Flow, InHand, Done
<1>4. Next1(l) = Done(l) /\ (pending[l] # NoPts \/ q[l] # << >>)
  <2>1. pending[l] # NoPts \/ q[l] # << >>
    BY DEF Feed
  <2>2. CASE pending[l] # NoPts
    BY <1>3, <2>2 DEF Next1
  <2>3. CASE pending[l] = NoPts
    <3>1. Len(q[l]) >= 1
      BY <2>1, <2>3, <1>1
    <3> QED
      BY <1>1, <1>3, <2>3, <3>1 DEF Next1
  <2> QED
    BY <2>1, <2>2, <2>3
<1>5. /\ q' \in [Lanes -> Seq(Nat)] /\ \A k \in Lanes : k # l => q'[k] = q[k]
      /\ Len(q'[l]) = Len(q[l]) - (1 - InHand(l))
      /\ \A i \in 1 .. Len(q'[l]) : q'[l][i] = Done(l) + i
      /\ pc' \in Demuxer
      /\ pc' = "wait" => pc = "wait" /\ q'[cur] = q[cur]
  <2>1. CASE pending[l] # NoPts
    <3>1. q' = q /\ pc' = pc
      BY <2>1 DEF Feed
    <3>2. InHand(l) = 1 /\ Len(q[l]) \in Nat
      BY <2>1, <1>1 DEF InHand
    <3>3. Len(q'[l]) = Len(q[l]) - (1 - InHand(l))
      BY <3>1, <3>2
    <3>4. \A i \in 1 .. Len(q'[l]) : q'[l][i] = Done(l) + i
      BY <3>1, <3>2, <1>3, SMTT(30)
    <3> QED
      BY <3>1, <3>3, <3>4, <1>1 DEF TypeOK
  <2>2. CASE pending[l] = NoPts
    <3>1. q' = [q EXCEPT ![l] = Tail(q[l])] /\ pc' = Woken(l)
      BY <2>2 DEF Feed
    <3>2. /\ Tail(q[l]) \in Seq(Nat) /\ Len(Tail(q[l])) = Len(q[l]) - 1
          /\ \A i \in 1 .. Len(q[l]) - 1 : Tail(q[l])[i] = q[l][i + 1]
      BY <2>2, <1>1, <1>4
    <3>3. q'[l] = Tail(q[l]) /\ q' \in [Lanes -> Seq(Nat)] /\ \A k \in Lanes : k # l => q'[k] = q[k]
      BY <3>1, <3>2, <1>1
    <3>4. ASSUME NEW i \in 1 .. Len(q'[l]) PROVE q'[l][i] = Done(l) + i
      <4>1. Len(q[l]) \in Nat /\ i \in 1 .. Len(q[l]) - 1 /\ i + 1 \in 1 .. Len(q[l])
        BY <3>2, <3>3, <1>1
      <4>2. q'[l][i] = q[l][i + 1]
        BY <4>1, <3>2, <3>3
      <4>3. q[l][i + 1] = Done(l) + 0 + (i + 1) - 1
        BY <4>1, <1>3, <2>2
      <4> QED
        BY <4>1, <4>2, <4>3, <1>3
    <3>5. /\ pc' \in Demuxer /\ cur \in Lanes
          /\ pc' = "wait" => pc = "wait" /\ q'[cur] = q[cur]
      <4>1. pc' \in Demuxer /\ cur \in Lanes /\ (pc' = "wait" => pc = "wait" /\ cur # l)
        BY <3>1 DEF Woken, TypeOK, Demuxer
      <4> QED
        BY <4>1, <3>3
    <3>6. Len(q'[l]) = Len(q[l]) - (1 - InHand(l))
      <4>1. InHand(l) = 0 /\ Len(q[l]) \in Nat /\ Len(q'[l]) = Len(q[l]) - 1
        BY <3>2, <3>3, <2>2, <1>1 DEF InHand
      <4> QED
        BY <4>1
    <3> QED
      BY <3>3, <3>4, <3>5, <3>6
  <2> QED
    BY <2>1, <2>2
<1> DEFINE Accepted == /\ fed' = [fed EXCEPT ![l] = Append(fed[l], Done(l))]
                       /\ max_fed' = [max_fed EXCEPT ![l] = IF Done(l) > max_fed[l] THEN Done(l)
                                                            ELSE max_fed[l]]
           Refused == fed' = fed /\ max_fed' = max_fed
<1>6. /\ \A k \in Lanes : k # l => pending'[k] = pending[k]
      /\ pending' \in [Lanes -> Nat \cup {NoPts}]
      /\ \/ pending'[l] = NoPts /\ Accepted
         \/ pending'[l] = NoPts /\ Refused /\ Stale(l)
         \/ pending'[l] = Done(l) /\ Refused
  BY <1>1, <1>3, <1>4 DEF Feed, Held
<1>7. /\ \A k \in Lanes : k # l => fed'[k] = fed[k] /\ max_fed'[k] = max_fed[k]
      /\ fed' \in [Lanes -> Seq(Nat)] /\ max_fed' \in [Lanes -> Nat]
  <2>1. CASE Accepted
    <3>1. Append(fed[l], Done(l)) \in Seq(Nat)
      BY <1>1, <1>3
    <3> QED
      BY <1>1, <1>3, <2>1, <3>1
  <2>2. CASE Refused
    BY <1>1, <2>2
  <2> QED
    BY <1>6, <2>1, <2>2
<1>8. TypeOK'
  BY <1>2, <1>5, <1>6, <1>7 DEF TypeOK
<1>9. \A k \in Lanes : Len(q'[k]) <= Len(q[k]) /\ Len(q'[k]) \in Nat
  <2> SUFFICES ASSUME NEW k \in Lanes PROVE Len(q'[k]) <= Len(q[k]) /\ Len(q'[k]) \in Nat
    OBVIOUS
  <2>1. q[k] \in Seq(Nat) /\ q'[k] \in Seq(Nat)
    BY <1>1, <1>5
  <2>2. Len(q[k]) \in Nat /\ Len(q'[k]) \in Nat
    BY <2>1
  <2> QED
    BY <2>2, <1>3, <1>5, SMTT(30)
<1>10. LanesAreBounded'
  <2>1. Len(q'["v"]) <= Len(q["v"]) /\ Len(q'["a"]) <= Len(q["a"]) /\ Len(q'["v"]) \in Nat
        /\ Len(q'["a"]) \in Nat /\ Len(q["v"]) \in Nat /\ Len(q["a"]) \in Nat
    BY <1>1, <1>9 DEF Lanes
  <2> QED
    BY <2>1, Limits, SMTT(30) DEF LanesAreBounded
<1>11. SleepsOnlyOnAFullLane'
  BY <1>2, <1>5 DEF SleepsOnlyOnAFullLane, OverCap, TypeOK
<1>12. ASSUME NEW k \in Lanes, k # l
       PROVE  q'[k] = q[k] /\ pending'[k] = pending[k] /\ InHand(k)' = InHand(k) /\ Done(k)' = Done(k)
  BY <1>2, <1>5, <1>6, <1>12 DEF InHand, Done
<1>13. /\ pending'[l] = NoPts => InHand(l)' = 0 /\ Done(l)' = Done(l) + 1
       /\ pending'[l] # NoPts => InHand(l)' = 1 /\ Done(l)' = Done(l)
  <2>1. InHand(l)' = IF pending'[l] = NoPts THEN 0 ELSE 1
    BY DEF InHand
  <2>2. Done(l)' = pushed[l] - InHand(l)' - Len(q'[l])
    BY <1>2 DEF Done
  <2>3. Len(q[l]) \in Nat
    BY <1>1
  <2> QED
    BY <2>1, <2>2, <2>3, <1>1, <1>3, <1>5
<1>14. Flow'
  <2> SUFFICES ASSUME NEW k \in Lanes
               PROVE  /\ Done(k)' \in Nat
                      /\ pending'[k] # NoPts => pending'[k] = Done(k)'
                      /\ \A i \in 1 .. Len(q'[k]) : q'[k][i] = Done(k)' + InHand(k)' + i - 1
    BY DEF Flow
  <2>1. CASE k # l
    BY <2>1, <1>12 DEF Flow
  <2>2. CASE k = l
    BY <2>2, <1>3, <1>5, <1>6, <1>13
  <2> QED
    BY <2>1, <2>2
<1>15. /\ max_fed[l] <= Done(l)
       /\ \A i, j \in 1 .. Len(fed[l]) : i < j => fed[l][i] < fed[l][j]
       /\ \A i \in 1 .. Len(fed[l]) : fed[l][i] < Done(l)
       /\ \A p \in 0 .. Done(l) - 1 :
              l = "v" \/ p <= AUDIO_STALE_AHEAD => \E i \in 1 .. Len(fed[l]) : fed[l][i] = p
  BY DEF Sent
<1> DEFINE Kept == /\ max_fed'[l] <= Done(l)'
                   /\ \A i, j \in 1 .. Len(fed'[l]) : i < j => fed'[l][i] < fed'[l][j]
                   /\ \A i \in 1 .. Len(fed'[l]) : fed'[l][i] < Done(l)'
                   /\ \A p \in 0 .. Done(l)' - 1 : l = "v" \/ p <= AUDIO_STALE_AHEAD =>
                          \E i \in 1 .. Len(fed'[l]) : fed'[l][i] = p
<1>16. Kept
  <2>1. CASE pending'[l] = NoPts /\ Accepted
    <3> DEFINE n == Len(fed[l])
    <3>1. /\ fed'[l] = Append(fed[l], Done(l)) /\ Done(l)' = Done(l) + 1 /\ n \in Nat
          /\ max_fed'[l] = IF Done(l) > max_fed[l] THEN Done(l) ELSE max_fed[l]
      BY <1>1, <1>13, <2>1
    <3>2. /\ Len(fed'[l]) = n + 1 /\ fed'[l][n + 1] = Done(l)
          /\ \A i \in 1 .. n : fed'[l][i] = fed[l][i] /\ fed[l][i] \in Nat
      BY <1>1, <1>3, <3>1, AppendProperties, ElementOfSeq
    <3>3. max_fed'[l] <= Done(l)'
      BY <1>1, <1>3, <1>15, <3>1
    <3> HIDE DEF n
    <3>4. ASSUME NEW i \in 1 .. Len(fed'[l]), NEW j \in 1 .. Len(fed'[l]), i < j
          PROVE  fed'[l][i] < fed'[l][j]
      <4>1. i \in 1 .. n /\ (j \in 1 .. n \/ j = n + 1)
        BY <3>1, <3>2, <3>4
      <4> QED
        BY <4>1, <3>2, <3>4, <1>15 DEF n
    <3>5. ASSUME NEW i \in 1 .. Len(fed'[l]) PROVE fed'[l][i] < Done(l)'
      <4>1. i \in 1 .. n \/ i = n + 1
        BY <3>1, <3>2
      <4>2. CASE i \in 1 .. n
        <5>1. fed'[l][i] \in Nat /\ fed'[l][i] < Done(l)
          BY <4>2, <3>2, <1>15 DEF n
        <5> QED
          BY <5>1, <3>1, <1>3
      <4>3. CASE i = n + 1
        BY <4>3, <3>1, <3>2, <1>3
      <4> QED
        BY <4>1, <4>2, <4>3
    <3>6. ASSUME NEW p \in 0 .. Done(l)' - 1, l = "v" \/ p <= AUDIO_STALE_AHEAD
          PROVE  \E i \in 1 .. Len(fed'[l]) : fed'[l][i] = p
      <4>1. CASE p \in 0 .. Done(l) - 1
        <5>1. PICK i \in 1 .. n : fed[l][i] = p
          BY <4>1, <3>6, <1>15 DEF n
        <5>2. i \in 1 .. Len(fed'[l]) /\ fed'[l][i] = p
          BY <5>1, <3>1, <3>2
        <5> QED
          BY <5>2
      <4>2. CASE p = Done(l)
        <5>1. n + 1 \in 1 .. Len(fed'[l])
          BY <3>1, <3>2
        <5> QED
          BY <4>2, <5>1, <3>2
      <4>3. p \in 0 .. Done(l) - 1 \/ p = Done(l)
        BY <3>1, <1>3
      <4> QED
        BY <4>1, <4>2, <4>3
    <3> QED
      BY <3>3, <3>4, <3>5, <3>6
  <2>2. CASE pending'[l] = NoPts /\ Refused /\ Stale(l)
    <3>1. /\ l # "v" /\ Done(l) > AUDIO_STALE_AHEAD /\ AUDIO_STALE_AHEAD \in Nat
          /\ Done(l)' = Done(l) + 1 /\ fed'[l] = fed[l] /\ max_fed'[l] = max_fed[l]
      BY <2>2, <1>4, <1>13, StaleIsAhead, Limits
    <3>2. max_fed'[l] <= Done(l)'
      BY <3>1, <1>1, <1>3, <1>15
    <3>3. ASSUME NEW i \in 1 .. Len(fed'[l]) PROVE fed'[l][i] < Done(l)'
      <4>1. fed[l][i] \in Nat /\ fed[l][i] < Done(l)
        BY <3>1, <1>1, <1>15, ElementOfSeq
      <4> QED
        BY <4>1, <3>1, <1>3
    <3>4. ASSUME NEW p \in 0 .. Done(l)' - 1, p <= AUDIO_STALE_AHEAD PROVE p \in 0 .. Done(l) - 1
      BY <3>1, <3>4, <1>3
    <3> QED
      BY <3>1, <3>2, <3>3, <3>4, <1>15
  <2>3. CASE pending'[l] = Done(l) /\ Refused
    BY <2>3, <1>1, <1>3, <1>13, <1>15
  <2> QED
    BY <2>1, <2>2, <2>3, <1>6
<1> HIDE DEF Accepted, Refused
<1>17. Sent'
  <2> SUFFICES ASSUME NEW k \in Lanes
               PROVE  /\ max_fed'[k] <= Done(k)'
                      /\ \A i, j \in 1 .. Len(fed'[k]) : i < j => fed'[k][i] < fed'[k][j]
                      /\ \A i \in 1 .. Len(fed'[k]) : fed'[k][i] < Done(k)'
                      /\ \A p \in 0 .. Done(k)' - 1 : k = "v" \/ p <= AUDIO_STALE_AHEAD =>
                             \E i \in 1 .. Len(fed'[k]) : fed'[k][i] = p
    BY DEF Sent
  <2>1. CASE k # l
    <3>1. fed'[k] = fed[k] /\ max_fed'[k] = max_fed[k] /\ Done(k)' = Done(k)
      BY <2>1, <1>7, <1>12
    <3>2. /\ max_fed[k] <= Done(k)
          /\ \A i, j \in 1 .. Len(fed[k]) : i < j => fed[k][i] < fed[k][j]
          /\ \A i \in 1 .. Len(fed[k]) : fed[k][i] < Done(k)
          /\ \A p \in 0 .. Done(k) - 1 : k = "v" \/ p <= AUDIO_STALE_AHEAD =>
                 \E i \in 1 .. Len(fed[k]) : fed[k][i] = p
      BY DEF Sent
    <3> QED
      BY <3>1, <3>2
  <2>2. CASE k = l
    BY <2>2, <1>16
  <2> QED
    BY <2>1, <2>2
<1> QED
  BY <1>8, <1>10, <1>11, <1>14, <1>17

\* Aborting a lane wakes the demuxer parked on it, and nothing else.
LEMMA AbortHolds ==
    ASSUME IInv, NEW l \in Lanes, aq_abort(l), teardown' \in {"video", "joining"},
           UNCHANGED <<file, q, eof, cur, hint, pushed, failed, pending, fed, max_fed, start,
                       rebase_pending, prime_play, pres>>
    PROVE  IInv'
<1> USE DEF IInv
<1>1. /\ abort' \in [Lanes -> BOOLEAN] /\ \A k \in Lanes : k # l => abort'[k] = abort[k]
      /\ pc' \in Demuxer /\ (pc' = "wait" => pc = "wait" /\ cur # l)
  BY DEF aq_abort, Woken, TypeOK, Demuxer
<1>2. TypeOK'
  BY <1>1 DEF TypeOK
<1>3. LanesAreBounded' /\ SleepsOnlyOnAFullLane'
  BY <1>1 DEF LanesAreBounded, SleepsOnlyOnAFullLane, OverCap, TypeOK
<1>4. Flow' /\ Sent'
  BY DEF Flow, Sent, Done, InHand
<1> QED
  BY <1>2, <1>3, <1>4

\* Every step of either thread keeps the lanes bounded, in order and awake.
LEMMA StepHolds == IInv /\ [Next]_vars => IInv'
<1> SUFFICES ASSUME IInv, [Next]_vars PROVE IInv'
  OBVIOUS
<1>1. "v" \in Lanes /\ "a" \in Lanes
  BY DEF Lanes
<1>2. CASE Demux
  BY <1>2, DemuxHolds
<1>3. CASE FeedVideo
  <2>1. prime_play' \in BOOLEAN
    BY <1>3 DEF FeedVideo
  <2>2. rebase_pending' \in BOOLEAN /\ Feed("v")
    BY <1>3 DEF FeedVideo
  <2> QED
    BY <2>1, <2>2, <1>1, FeedHolds
<1>4. CASE FeedAudio
  <2>1. Feed("a") /\ rebase_pending' \in BOOLEAN /\ prime_play' \in BOOLEAN
    BY <1>4 DEF FeedAudio, IInv, TypeOK
  <2> QED
    BY <2>1, <1>1, FeedHolds
<1>5. CASE TryPrime \/ Present \/ UNCHANGED vars
  <2>1. /\ UNCHANGED <<file, q, eof, abort, pc, cur, hint, pushed, failed, pending, fed, max_fed,
                       start, rebase_pending, teardown>>
        /\ prime_play' \in BOOLEAN
    BY <1>5 DEF TryPrime, Present, demuxer, vars, IInv, TypeOK
  <2>2. pres' \in Nat \cup {NoPts}
    BY <1>5 DEF TryPrime, Present, demuxer, vars, IInv, TypeOK, NoPts
  <2>3. TypeOK'
    BY <2>1, <2>2 DEF IInv, TypeOK
  <2>4. LanesAreBounded' /\ SleepsOnlyOnAFullLane' /\ Flow' /\ Sent'
    BY <2>1 DEF IInv, LanesAreBounded, SleepsOnlyOnAFullLane, OverCap, Flow, Sent, Done, InHand
  <2> QED
    BY <2>3, <2>4 DEF IInv
<1>6. CASE AbortVideo
  BY <1>1, <1>6, AbortHolds DEF AbortVideo
<1>7. CASE AbortAudio
  BY <1>1, <1>7, AbortHolds DEF AbortAudio
<1> QED
  BY <1>2, <1>3, <1>4, <1>5, <1>6, <1>7 DEF Next

\* The inductive invariant holds in every reachable state.
LEMMA Invariant == Spec => []IInv
  BY InitHolds, StepHolds, PTL DEF Spec

-----------------------------------------------------------------------------
\* However parks, admissions and pops interleave, the lanes stay within their caps and the
\* demuxer never sleeps on a lane that nobody will pop or abort (aq_push_park, PushGate).
THEOREM LanesAreSafe == Spec => []AuQueueSafe
<1>1. IInv => AuQueueSafe
  BY DEF IInv, AuQueueSafe
<1> QED
  BY <1>1, Invariant, PTL

\* Between the demuxer and the pipeline no unit is repeated or overtaken, no picture is lost, and
\* no sound but one that lies beyond AUDIO_STALE_AHEAD (aq_pop, feed_stream, feed_audio_lane).
THEOREM LanesLoseOnlyTheStale == Spec => []LostOnlyWhenStale
<1>1. IInv => LostOnlyWhenStale
  BY FlowIsAccount DEF IInv
<1> QED
  BY <1>1, Invariant, PTL

=============================================================================
