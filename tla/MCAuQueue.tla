----------------------------- MODULE MCAuQueue ------------------------------
(* All interleavings of a given length. *)
EXTENDS AuQueue

CONSTANT FileLen

CONSTANTS VideoCap, AudioCap, VideoPipe, AudioPipe

Interleavings == [1 .. FileLen -> Lanes]

Caps == [l \in Lanes |-> IF l = "v" THEN VideoCap ELSE AudioCap]

Pipes == [l \in Lanes |-> IF l = "v" THEN VideoPipe ELSE AudioPipe]
=============================================================================
