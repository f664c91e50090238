--------------------------- MODULE MCStateStores ----------------------------
(* StateStores for TLC: two callers and two positions.                       *)
EXTENDS StateStores
=============================================================================
