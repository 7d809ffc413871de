------------------------------- MODULE MCSeek -------------------------------
(* A file of Last + 1 ticks with a keyframe every Gop and audio every AudioGap. *)
EXTENDS Seek

CONSTANTS Last, Gop, AudioGap

Video(p) == << [lane |-> "v", pts |-> p, key |-> p % Gop = 0] >>

Audio(p) == IF p % AudioGap = 0 THEN << [lane |-> "a", pts |-> p, key |-> FALSE] >> ELSE << >>

Packets[p \in 0 .. Last] ==
    (IF p = 0 THEN << >> ELSE Packets[p - 1]) \o Video(p) \o Audio(p)

Ticks == Packets[Last]

ASSUME TicksAreDense == KeyframesAreDense
=============================================================================
