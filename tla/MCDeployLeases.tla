--------------------------- MODULE MCDeployLeases ---------------------------
(* Instances of DeployLeases: replicas on two nodes.                         *)
EXTENDS DeployLeases

CONSTANTS r1, r2, r3, n1, n2

TwoNodes == [r \in Replicas |-> IF r = r3 THEN n2 ELSE n1]

Counts(total) ==
  {f \in [FaultKinds -> 0..total] :
     f["restart"] + f["store"] + f["call"] + f["replica"] <= total}

\* Any two faults; a lost call alone, or with a death.
TwoFaults == {f \in Counts(2) : f["call"] > 0 => f["store"] = 0 /\ f["restart"] = 0}
=============================================================================
