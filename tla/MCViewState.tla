---------------------------- MODULE MCViewState -----------------------------
(* One item with a pair of opposite writes and a second toggle, or two     *)
(* items with the pair.                                                    *)
EXTENDS ViewState

CONSTANTS i1, i2
=============================================================================
