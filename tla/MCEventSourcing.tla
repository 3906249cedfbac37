-------------------------- MODULE MCEventSourcing --------------------------
(* EventSourcing on a small instance.                                      *)
EXTENDS EventSourcing

Symmetry == Permutations(SessionId) \cup Permutations(Player \ Admin)
              \cup Permutations(Endpoint)
=============================================================================
