--------------------------- MODULE MCGeoDbReload ---------------------------
(* GeoDbReload on a small instance.                                        *)
EXTENDS GeoDbReload, TLC

Symmetry == Permutations(Reader) \cup Permutations(Request)
=============================================================================
