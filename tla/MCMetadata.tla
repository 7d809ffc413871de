----------------------------- MODULE MCMetadata -----------------------------
(* Two shows with the same seasons over a landing of two slots: both slots *)
(* can be held by cancelled workers while a third request arrives.         *)
EXTENDS Metadata

CONSTANTS i1, i2
=============================================================================
