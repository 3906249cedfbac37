---------------------------- MODULE MCLoginCache ----------------------------
(* LoginCache with one credential known to two services, an administrator, *)
(* and headers that are no tokens.                                         *)
EXTENDS LoginCache, TLC

MCHeader ==
  {<<"steam", "x">>, <<"itch", "x", "y">>, <<"admin", "z">>, <<"gog", "x">>, <<"steam">>, <<>>}

Symmetry == Permutations(Request)
=============================================================================
