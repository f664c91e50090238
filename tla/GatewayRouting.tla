--------------------------- MODULE GatewayRouting ---------------------------
(***************************************************************************)
(* How one gateway's replicas follow its routing: the gateway coordinator's  *)
(* compute passes, generations and reports (deploy/gateway_coordinator.py,   *)
(* deploy/routing.py), the replicas' watch loops (openai/api.py), and the    *)
(* worker that switches the gateway to new apps and then deletes the old     *)
(* ones (deploy/worker.py; its other steps are in Deploy).                   *)
(*                                                                           *)
(* A pass reads Serve, asks the deploy coordinator for the routing version   *)
(* and publishes a table, with an await before each: three actions.  A       *)
(* routing version is known by its seq, an index of vers.                    *)
(***************************************************************************)
EXTENDS Naturals, FiniteSets, Sequences

CONSTANTS
  Apps, ModelOf,  \* apps, and the model each one serves
  Versions,       \* the versions requests may ask for: sets of apps, one per model
  First,          \* the versions a gateway may start with
  Replicas,       \* gateway replica ids; an id is used once
  Scopes          \* the bounds a behaviour may have: the replicas that start, the versions
                  \* its requests ask for, the number of routing seqs, and the kinds and
                  \* the number of its faults

FaultKinds ==
  {"restart",      \* the gateway coordinator's process dies and restarts
   "unreachable",  \* a pass gets no version from the deploy coordinator
   "unlisted",     \* a pass does not find the gateway's own app in Serve
   "serve",        \* an app loses its last running replica
   "lag"}          \* Serve cannot yet resolve the handle of an app that is there

ASSUME RoutingAssumption ==
  /\ First \subseteq Versions /\ Versions \subseteq SUBSET Apps
  /\ \A v \in Versions : \A a, b \in v : ModelOf[a] = ModelOf[b] => a = b
  /\ Scopes \subseteq
       [replicas : SUBSET Replicas, versions : SUBSET Versions, seqs : Nat,
        kinds : SUBSET FaultKinds, faults : Nat]

VARIABLES
  (* Serve *)
  status,    \* its apps: absent, starting or up (can_serve)
  (* the deploy coordinator and the worker *)
  vers,      \* the routings so far; the last one is current
  base,      \* the committed version
  target,    \* the version the worker brings up
  step,      \* the worker's step
  doomed,    \* apps the worker deletes next
  (* the gateway coordinator *)
  pass,      \* where the compute pass is
  seen,      \* what it read from Serve
  version,   \* _versions: the seq it last fetched, 0 for none
  table,     \* _routing: the published apps
  tseq,      \* _seqs: the seq they came from, 0 when nothing is published
  gen,       \* _generation
  clock,     \* the highest generation of any incarnation
  computed,  \* _computed
  members,   \* _replicas
  reports,   \* _reports: the seq each replica last reported, 0 for none
  (* gateway replicas *)
  phase,     \* where the replica's start or watch loop is
  rgen,      \* _gen
  rseq,      \* _routing_seq, 0 for None
  routes,    \* the apps it routes to
  snap,      \* the snapshot it is about to apply
  (* history *)
  from,      \* the seq of the snapshot a replica last applied, wholly or in part
  waited,    \* the replicas the last confirmed switch waited for
  hurried,   \* a switch back was given up on
  scope      \* what the behaviour may still have

serveVars  == <<status>>
deployVars == <<vers, base, target, step, doomed, waited, hurried>>
coordVars  == <<pass, seen, version, table, tseq, gen, clock, computed, members, reports>>
replicaVars == <<phase, rgen, rseq, routes, snap, from>>
vars == <<serveVars, deployVars, coordVars, replicaVars, scope>>

Fault(kind) ==
  kind \in scope.kinds /\ scope.faults > 0 /\ scope' = [scope EXCEPT !.faults = @ - 1]
NoFault == UNCHANGED scope

Up == {a \in Apps : status[a] = "up"}
seq == Len(vers)
Watching == {"poll", "waiting", "apply"}
\* A replica is RUNNING once its first health check has called _ensure_watching.
Running == {g \in Replicas : phase[g] \in Watching}

NoSnapshot == [models |-> {}, generation |-> 0, routing |-> 0]
NothingSeen == [up |-> {}, running |-> {}, listed |-> FALSE]

Init ==
  /\ scope \in Scopes
  /\ base \in First /\ vers = <<base>> /\ target = base /\ step = "idle" /\ doomed = {}
  /\ status = [a \in Apps |-> IF a \in base THEN "up" ELSE "absent"]
  /\ pass = "idle" /\ seen = NothingSeen /\ version = 0
  /\ table = {} /\ tseq = 0 /\ gen = 1 /\ clock = 1 /\ computed = FALSE
  /\ members = {} /\ reports = [g \in Replicas |-> 0]
  /\ phase = [g \in Replicas |-> IF g \in scope.replicas THEN "new" ELSE "gone"]
  /\ rgen = [g \in Replicas |-> 0] /\ rseq = [g \in Replicas |-> 0]
  /\ routes = [g \in Replicas |-> {}]
  /\ snap = [g \in Replicas |-> NoSnapshot] /\ from = [g \in Replicas |-> 0]
  /\ waited = {} /\ hurried = FALSE

-----------------------------------------------------------------------------
(* The gateway coordinator.                                                  *)

\* _read_serve; a read that raises changes nothing and the next pass tries again.
ReadServe ==
  /\ pass = "idle" /\ pass' = "read"
  /\ \/ NoFault /\ seen' = [up |-> Up, running |-> Running, listed |-> TRUE]
     \/ Fault("unlisted") /\ seen' = [up |-> Up, running |-> {}, listed |-> FALSE]
  /\ UNCHANGED <<serveVars, deployVars, version, table, tseq, gen, clock, computed, members,
                 reports, replicaVars>>

\* On failure the last version stays.
FetchVersions ==
  /\ pass = "read" /\ pass' = "fetched"
  /\ \/ NoFault /\ version' = seq
     \/ Fault("unreachable") /\ UNCHANGED version
  /\ UNCHANGED <<serveVars, deployVars, seen, table, tseq, gen, clock, computed, members,
                 reports, replicaVars>>

compute_routing(targets, up) == targets \cap up

\* The rest of _compute, with _publish and _bump.
Publish ==
  /\ pass = "fetched" /\ pass' = "idle" /\ computed' = TRUE /\ seen' = NothingSeen
  /\ IF version # 0 /\ seen.listed
     THEN /\ table' = compute_routing(vers[version], seen.up)
          /\ tseq' = version /\ members' = seen.running
          /\ gen' = IF table' # table \/ tseq' # tseq THEN gen + 1 ELSE gen
          /\ clock' = gen'
     ELSE UNCHANGED <<table, tseq, members, gen, clock>>
  /\ UNCHANGED <<serveVars, deployVars, version, reports, replicaVars, scope>>

\* Mutant: it waits for no replica in particular, only for the reports it has.
mut_Switched(s) ==
  computed /\ tseq = s /\ \A g \in members : reports[g] \in {0, s}

Switched(s) == computed /\ tseq = s /\ \A g \in members : reports[g] = s

\* _fresh_reports drops a report of a replica that stopped polling.
ExpireReport(g) ==
  /\ reports[g] # 0 /\ phase[g] = "gone"
  /\ reports' = [reports EXCEPT ![g] = 0]
  /\ UNCHANGED <<serveVars, deployVars, pass, seen, version, table, tseq, gen, clock, computed,
                 members, replicaVars, scope>>

\* Mutant: generations start over with the process.
mut_FirstGeneration == 1

\* A millisecond clock: later than any generation before the restart.
FirstGeneration == clock + 1

\* Nothing is stored; calls in progress raise and the replicas poll again.
CoordinatorRestarts ==
  /\ Fault("restart")
  /\ pass' = "idle" /\ seen' = NothingSeen /\ version' = 0 /\ table' = {} /\ tseq' = 0
  /\ gen' = FirstGeneration /\ clock' = FirstGeneration /\ computed' = FALSE
  /\ members' = {} /\ reports' = [g \in Replicas |-> 0]
  /\ phase' = [g \in Replicas |-> IF phase[g] = "waiting" THEN "poll" ELSE phase[g]]
  /\ UNCHANGED <<serveVars, deployVars, rgen, rseq, routes, snap, from>>

-----------------------------------------------------------------------------
(* A gateway replica.                                                        *)

get_routing == [models |-> table, generation |-> gen, routing |-> tseq]

\* A replica starts: _ensure_watching makes one sync, given up on when no table is
\* computed in time.
FirstSync(g) ==
  /\ phase[g] = "new"
  /\ \/ /\ computed /\ snap' = [snap EXCEPT ![g] = get_routing]
        /\ phase' = [phase EXCEPT ![g] = "sync"]
     \/ ~computed /\ phase' = [phase EXCEPT ![g] = "poll"] /\ UNCHANGED snap
  /\ UNCHANGED <<serveVars, deployVars, coordVars, rgen, rseq, routes, from, scope>>

\* wait_for_change records what the replica holds.
Polls(g) ==
  /\ phase[g] = "poll" /\ phase' = [phase EXCEPT ![g] = "waiting"]
  /\ reports' = IF rseq[g] # 0 THEN [reports EXCEPT ![g] = rseq[g]] ELSE reports
  /\ UNCHANGED <<serveVars, deployVars, pass, seen, version, table, tseq, gen, clock, computed,
                 members, rgen, rseq, routes, snap, from, scope>>

\* It answers once the generation differs, and the watch loop pulls the snapshot: one
\* step, for a generation never comes back and get_routing reads what is there when it
\* runs.  A poll that times out is made again with the same report and changes nothing.
PollReturns(g) ==
  /\ phase[g] = "waiting" /\ computed /\ gen # rgen[g]
  /\ phase' = [phase EXCEPT ![g] = "apply"] /\ snap' = [snap EXCEPT ![g] = get_routing]
  /\ UNCHANGED <<serveVars, deployVars, coordVars, rgen, rseq, routes, from, scope>>

\* _apply_routing with the apps it could not register.
AppliedRoutes(g, failed) == snap[g].models \ failed

\* Mutant: the generation advances although an app could not be registered.
mut_Advances(failed) == TRUE

\* _apply_snapshot stops at the error _apply_routing raises.
Advances(failed) == failed = {}

ApplySnapshot(g, failed) ==
  /\ routes' = [routes EXCEPT ![g] = AppliedRoutes(g, failed)]
  /\ from' = [from EXCEPT ![g] = snap[g].routing]
  /\ IF Advances(failed)
     THEN /\ rgen' = [rgen EXCEPT ![g] = snap[g].generation]
          /\ rseq' = [rseq EXCEPT ![g] = snap[g].routing]
     ELSE UNCHANGED <<rgen, rseq>>
  /\ phase' = [phase EXCEPT ![g] = "poll"] /\ snap' = [snap EXCEPT ![g] = NoSnapshot]

Applies(g) ==
  /\ phase[g] \in {"apply", "sync"}
  /\ LET new == snap[g].models \ routes[g]
         absent == {a \in new : status[a] = "absent"}
     IN \/ NoFault /\ ApplySnapshot(g, absent)
        \/ \E a \in new \ absent : Fault("lag") /\ ApplySnapshot(g, absent \cup {a})
  /\ UNCHANGED <<serveVars, deployVars, coordVars>>

Stops(g) ==
  /\ phase[g] \in Watching /\ phase' = [phase EXCEPT ![g] = "gone"]
  /\ routes' = [routes EXCEPT ![g] = {}] /\ snap' = [snap EXCEPT ![g] = NoSnapshot]
  /\ UNCHANGED <<serveVars, deployVars, coordVars, rgen, rseq, from, scope>>

-----------------------------------------------------------------------------
(* The worker of a blue_green request, as far as the gateway is concerned.   *)

BringsUp(v) ==
  /\ step = "idle" /\ seq < scope.seqs /\ v # base
  /\ target' = v /\ step' = "up"
  /\ status' = [a \in Apps |-> IF a \in v \ base THEN "starting" ELSE status[a]]
  /\ UNCHANGED <<vers, base, doomed, waited, hurried, coordVars, replicaVars, scope>>

\* Every new app is RUNNING: switch.
Switches ==
  /\ step = "up" /\ target \ base \subseteq Up
  /\ vers' = Append(vers, target) /\ step' = "wait" /\ waited' = {}
  /\ UNCHANGED <<serveVars, base, target, doomed, hurried, coordVars, replicaVars, scope>>

Confirmed ==
  /\ Switched(seq) /\ waited' = members
  /\ \/ step = "wait" /\ base' = target /\ doomed' = base \ target
     \/ step = "back" /\ doomed' = target \ base /\ UNCHANGED base
  /\ step' = "drop"
  /\ UNCHANGED <<serveVars, vers, target, hurried, coordVars, replicaVars, scope>>

\* A switch that times out is rolled back; a switch back goes on regardless.
TimesOut ==
  /\ ~Switched(seq)
  /\ \/ /\ step = "wait" /\ seq < scope.seqs
        /\ vers' = Append(vers, base) /\ step' = "back" /\ waited' = {}
        /\ UNCHANGED <<doomed, hurried>>
     \/ /\ step = "back" /\ step' = "drop" /\ doomed' = target \ base /\ hurried' = TRUE
        /\ UNCHANGED <<vers, waited>>
  /\ UNCHANGED <<serveVars, base, target, coordVars, replicaVars, scope>>

\* delete_apps
Deletes ==
  /\ step = "drop" /\ step' = "idle" /\ doomed' = {} /\ target' = base
  /\ status' = [a \in Apps |-> IF a \in doomed THEN "absent" ELSE status[a]]
  /\ UNCHANGED <<vers, base, waited, hurried, coordVars, replicaVars, scope>>

-----------------------------------------------------------------------------
(* Serve.                                                                    *)

AppStarts(a) ==
  /\ status[a] = "starting" /\ status' = [status EXCEPT ![a] = "up"]
  /\ UNCHANGED <<deployVars, coordVars, replicaVars, scope>>

AppSickens(a) ==
  /\ status[a] = "up" /\ Fault("serve") /\ status' = [status EXCEPT ![a] = "starting"]
  /\ UNCHANGED <<deployVars, coordVars, replicaVars>>

-----------------------------------------------------------------------------
Coordinator == ReadServe \/ FetchVersions \/ Publish
Replica(g) ==
  \/ FirstSync(g) \/ Polls(g) \/ PollReturns(g) \/ Applies(g)
Worker == (\E v \in scope.versions : BringsUp(v)) \/ Switches \/ Confirmed \/ TimesOut \/ Deletes
Trouble ==
  \/ CoordinatorRestarts
  \/ \E g \in Replicas : Stops(g) \/ ExpireReport(g)
  \/ \E a \in Apps : AppSickens(a)

Next ==
  \/ Coordinator \/ Worker \/ Trouble
  \/ \E g \in Replicas : Replica(g)
  \/ \E a \in Apps : AppStarts(a)

Spec == Init /\ [][Next]_vars

(* The compute loop and every live replica's watch loop keep running, and     *)
(* Serve finishes what it starts.  Nothing is assumed of the worker.          *)
Fairness ==
  /\ WF_vars(Coordinator)
  /\ \A g \in Replicas : WF_vars(phase[g] # "new" /\ Replica(g))
  /\ \A a \in Apps : WF_vars(AppStarts(a))

FairSpec == Spec /\ Fairness

-----------------------------------------------------------------------------
OneAppPerModel ==
  \A g \in Replicas : \A a, b \in routes[g] : ModelOf[a] = ModelOf[b] => a = b

(* A generation stands for one table, across restarts of the gateway          *)
(* coordinator: a replica that has the coordinator's generation has its table *)
(* and its seq, so that a long poll that sees no change misses nothing.  And  *)
(* the table maps each model to one app, on every replica, also after a       *)
(* snapshot that could only be applied in part: _get_handle takes whichever   *)
(* handle comes last (api.py:400).                                            *)
GenerationTellsTable ==
  /\ \A g \in Running : rgen[g] = gen => routes[g] = table /\ rseq[g] = tseq
  /\ OneAppPerModel

Promise == INSTANCE Switchover WITH seq <- seq, holds <- from, confirmed <- waited

(* The gateway coordinator and the watch loops implement the promise a deploy *)
(* relies on (Switchover), and it is the one the worker needs: when it deletes *)
(* the replaced apps, no replica the switch waited for routes to them,        *)
(* whatever became of the gateway coordinator in the meantime.                *)
KeepsPromise ==
  /\ Promise!Spec
  /\ [][\A a \in Apps : Deletes /\ a \in doomed /\ ~hurried =>
          \A g \in waited : a \notin routes[g]]_vars

(* Once requests and faults stop, every running replica ends up routing to    *)
(* exactly the apps of the current version that can serve.                    *)
Converges == <>[](\A g \in Running : routes[g] = vers[seq] \cap Up)
=============================================================================
