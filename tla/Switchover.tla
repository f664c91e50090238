----------------------------- MODULE Switchover -----------------------------
(***************************************************************************)
(* What a deploy may rely on when it moves a gateway from one routing to     *)
(* the next: every replica that a confirmed switch was waiting for routes    *)
(* by that switch's seq, or by nothing, until the next switch.  Deploy and   *)
(* the worker delete the replaced apps on the strength of this promise;      *)
(* GatewayRouting implements it.                                             *)
(***************************************************************************)
EXTENDS Naturals

CONSTANT Replicas

VARIABLES
  seq,        \* the latest routing
  holds,      \* the routing each replica's table came from, 0 when it routes nothing
  confirmed   \* the replicas the switch to seq was confirmed for

vars == <<seq, holds, confirmed>>

Init == seq = 1 /\ holds = [g \in Replicas |-> 0] /\ confirmed = {}

Switch == seq' = seq + 1 /\ confirmed' = {} /\ UNCHANGED holds

\* Forward only, and to nothing at any time.
Follow(g) ==
  /\ \E s \in {0} \cup IF g \in confirmed THEN {seq} ELSE holds[g]..seq :
       holds' = [holds EXCEPT ![g] = s]
  /\ UNCHANGED <<seq, confirmed>>

Confirm ==
  /\ \E S \in SUBSET Replicas : (\A g \in S : holds[g] \in {0, seq}) /\ confirmed' = S
  /\ UNCHANGED <<seq, holds>>

Next == Switch \/ Confirm \/ \E g \in Replicas : Follow(g)

Spec == Init /\ [][Next]_vars
=============================================================================
