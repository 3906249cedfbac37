---------------------------- MODULE MCClientPool ----------------------------
(* ClientPool on a small instance.                                         *)
EXTENDS ClientPool
=============================================================================
