--------------------------- MODULE MCAppStateView ---------------------------
(* AppStateView on a small instance.                                       *)
EXTENDS AppStateView
=============================================================================
