-------------------------- MODULE MCGatewayRouting --------------------------
(* Instances of GatewayRouting: models with an old and a new app each.       *)
EXTENDS GatewayRouting

CONSTANTS x, y, z, g1, g2

\* x and y serve the same model, z another.
TwoModels == [a \in Apps |-> IF a = z THEN 2 ELSE 1]
Replacement == {{x}, {y}}
ReplaceAndAdd == {{x}, {y, z}}
AllVersions == Replacement \cup ReplaceAndAdd
FromX == {{x}}

\* One replica with every kind of fault, through a switch and a switch back; two
\* replicas, through a switch.
Bounds ==
  {[replicas |-> {g1}, versions |-> ReplaceAndAdd, seqs |-> 3,
    kinds |-> FaultKinds, faults |-> 1],
   [replicas |-> {g1, g2}, versions |-> Replacement, seqs |-> 2,
    kinds |-> {"restart", "unlisted"}, faults |-> 1]}
=============================================================================
