------------------------------ MODULE Replica ------------------------------
(***************************************************************************)
(* A model replica with its backend and its requests: BringUp's replica      *)
(* First, whose requests are Inference's.  Requests begin once its           *)
(* constructor is done and are lost when its process exits.                  *)
(***************************************************************************)
EXTENDS Inference, BringUp

vars == <<inferenceVars, bringUpVars>>

\* The loaders with an engine are the ones with a backend process.
Init == InferenceInit /\ BringUpInit /\ (separate <=> loader = "engine")

Serving == rep[First] = "serving"
\* Gateways route to an app once the deploy that adds it has brought it up.  Bound: a behaviour serves
\* requests or has a second deploy, which would leave the requests of running replicas alone.
Routed == wk = "up" /\ requests = 1
Unused == gone = {} /\ faults = 0 /\ \A r \in Requests : phase[r] = "queued"
Alive == separate => child[First] = "up"

\* The process ends: its requests, tasks and threads are gone; what is queued waits for the next one.
RequestsLost ==
  /\ phase' = [r \in Requests |-> IF phase[r] \in Active THEN "lost" ELSE phase[r]]
  /\ work' = [r \in Requests |-> IF work[r] = "none" THEN "none" ELSE "over"]
  /\ thread' = [r \in Requests |-> IF thread[r] = "none" THEN "none" ELSE "over"]
  /\ holder' = None /\ waiting' = <<>>
  /\ stop' = {} /\ items' = [r \in Requests |-> 0]
  /\ watched' = {} /\ fired' = {} /\ pump' = "none" /\ asked' = {}
  /\ UNCHANGED <<loader, clientVars>>

\* A step that ends First's service takes its requests along.
CarriesRequests == IF Serving /\ rep'[First] # "serving" THEN RequestsLost ELSE UNCHANGED inferenceVars
Steps(p) == Replica(p) /\ CarriesRequests

\* A request, which gets nothing from a dead backend but an error.
IsServed == Serving /\ Routed /\ (Alive \/ items' = items) /\ UNCHANGED bringUpVars
Serves(r) == Handles(r) /\ IsServed

Decides == Worker /\ (requests' > 1 => Unused) /\ UNCHANGED inferenceVars
\* What clients and the registry do while the replica is down is not seen before it is up again.
Surrounds == Serving /\ Routed /\ Around /\ UNCHANGED bringUpVars

\* At most MaxFaults faults of either kind in a behaviour.
Next ==
  /\ \/ Decides \/ Surrounds
     \/ \E p \in Replicas : Steps(p)
     \/ \E r \in Requests : Serves(r)
  /\ faults' + losses' <= MaxFaults

Spec == Init /\ [][Next]_vars

-----------------------------------------------------------------------------
(* Fairness: the event loop and the pool's threads run, the worker polls and *)
(* its backoffs end, Serve starts, pulls from and stops what it is asked to. *)
(* Nothing is assumed of engines, clients, backends and faults.              *)

Fairness ==
  /\ WF_vars((PumpHears \/ PumpWakes \/ (PollFails /\ NoFault)) /\ UNCHANGED bringUpVars)
  /\ \A r \in Requests :
       WF_vars(/\ \/ Answers(r) \/ SeesDisconnect(r) \/ Pulls(r) \/ Unwinds(r) \/ Ends(r)
                  \/ Acquires(r) \/ ThreadEnds(r)
               /\ IsServed)
  /\ WF_vars((ReadsStatus \/ Judges \/ RollsBack) /\ UNCHANGED inferenceVars)
  /\ SF_vars(Resubmits /\ UNCHANGED inferenceVars)
  /\ \A p \in Replicas :
       WF_vars(/\ \/ StartsReplica(p) \/ Launches(p) \/ Healthy(p) \/ WarmsUp(p) \/ StopsReplica(p)
                  \/ ((Raises(p) /\ child[p] = "dead") \/ SeesDeath(p)) /\ NoLoss
                  \/ Flags(p) \/ Terminates(p) \/ Reports(p)
               /\ CarriesRequests)

FairSpec == Spec /\ Fairness

-----------------------------------------------------------------------------
TypeOK == InferenceTypeOK /\ BringUpTypeOK

=============================================================================
