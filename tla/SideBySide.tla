----------------------------- MODULE SideBySide -----------------------------
(***************************************************************************)
(* Three parts that share no state: the plan of a deploy (DeployPlan), the   *)
(* sizing of models (Preflight) and the answering of a request (HttpGateway, *)
(* ChatStream).  A behaviour is a behaviour of one of them, with the others  *)
(* at rest in one of their initial states.                                   *)
(***************************************************************************)
EXTENDS DeployPlan, Preflight, HttpGateway

VARIABLE part    \* the one that moves

vars == <<part, planVars, preflightVars, gatewayVars>>

PlanRests ==
  /\ request = CHOOSE r \in Request : TRUE
  /\ committed = NoVersion
  /\ apps = [a \in App |-> [status |-> "absent", scaling |-> CHOOSE s \in Scalings : TRUE]]
  /\ PlanInit
PreflightRests == node = (CHOOSE n \in Nodes : TRUE) /\ fleet = (CHOOSE f \in Fleets : TRUE) /\ PreflightInit
GatewayRests == ask = (CHOOSE a \in Asks : TRUE) /\ GatewayInit

Init ==
  \/ part = "plan" /\ PreflightRests /\ GatewayRests /\ PlanInit
  \/ part = "preflight" /\ PlanRests /\ GatewayRests /\ PreflightInit
  \/ part = "gateway" /\ PlanRests /\ PreflightRests /\ GatewayInit

Plan == part = "plan" /\ PlanNext /\ UNCHANGED <<preflightVars, gatewayVars>>
Size == part = "preflight" /\ PreflightNext /\ UNCHANGED <<planVars, gatewayVars>>
Serve == part = "gateway" /\ GatewayNext /\ UNCHANGED <<planVars, preflightVars>>

Next == (Plan \/ Size \/ Serve) /\ UNCHANGED part

Spec == Init /\ [][Next]_vars
=============================================================================
