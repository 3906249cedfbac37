-------------------------- MODULE MCPadroneServer --------------------------
(* PadroneServer on small instances.                                       *)
EXTENDS PadroneServer, TLC

Symmetry == Permutations(SessionId) \cup Permutations(Caller)
=============================================================================
