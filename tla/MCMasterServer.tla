--------------------------- MODULE MCMasterServer ---------------------------
(* MasterServer and the lists of hosts made of it, on a small instance.    *)
(* The administrator has another version of the game.  One peer is where   *)
(* e1 is, and far from e2; the other is where e2 is, and e1 is anywhere.   *)
EXTENDS HostList, TLC

Symmetry == Permutations(SessionId) \cup Permutations(Player \ Admin)

MCVersion == [x \in Player |-> IF x \in Admin THEN "v2" ELSE "v1"]

MCDistance ==
  [x \in Peer |-> [e \in Endpoint |-> IF x = e THEN 0 ELSE IF x = "e1" THEN 7 ELSE Unknown]]
=============================================================================
