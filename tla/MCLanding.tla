----------------------------- MODULE MCLanding -----------------------------
(* Three requests of one addressee over two slots: a cancelled request can *)
(* answer while another one is open and a third is refused.                *)
EXTENDS Landing

CONSTANTS m1, q1, q2, q3
=============================================================================
