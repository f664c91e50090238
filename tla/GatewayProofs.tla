---------------------------- MODULE GatewayProofs ----------------------------
(***************************************************************************)
(* What is proved of the gateway, for any constants.                         *)
(*                                                                           *)
(* First the generations and switches of its replicas (GatewayRouting), for  *)
(* any apps, versions, replicas, requests and faults: a generation stands    *)
(* for one table, and the routing implements Switchover's promise.           *)
(*                                                                           *)
(* Then its tool loop (McpResponse), for any tools, requests, turns, chunks  *)
(* and faults: a guarded tool runs only on an approval its client has sent,  *)
(* no call runs twice, and the output a client builds from the stream is the *)
(* one the loop keeps.                                                       *)
(***************************************************************************)
EXTENDS GatewayRouting, McpResponse, TLAPS, SequenceTheorems, FiniteSetTheorems, WellFoundedInduction

-----------------------------------------------------------------------------
(* The routing.                                                              *)

Scope ==
  [replicas : SUBSET Replicas, versions : SUBSET Versions, seqs : Nat,
   kinds : SUBSET FaultKinds, faults : Nat]
Snapshot == [models : SUBSET Apps, generation : Nat, routing : Nat]
Sight == [up : SUBSET Apps, running : SUBSET Replicas, listed : BOOLEAN]
Phases == {"new", "sync", "gone"} \cup Watching

\* The apps of a routing; those of none when there is no routing.
AppsOf(s) == IF s = 0 THEN {} ELSE vers[s]

Types ==
  /\ scope \in Scope /\ vers \in Seq(Versions) /\ vers # <<>> /\ base \in Versions
  /\ target \in Versions /\ seen \in Sight /\ table \subseteq Apps
  /\ version \in Nat /\ tseq \in Nat /\ gen \in Nat \ {0} /\ clock = gen /\ members \subseteq Replicas
  /\ reports \in [Replicas -> Nat] /\ phase \in [Replicas -> Phases] /\ rgen \in [Replicas -> Nat]
  /\ rseq \in [Replicas -> Nat] /\ snap \in [Replicas -> Snapshot] /\ from \in [Replicas -> Nat]
  /\ routes \in [Replicas -> SUBSET Apps] /\ waited \subseteq Replicas

\* No generation is ahead of the coordinator's, and one that is the coordinator's has its table.
Generations ==
  \A g \in Replicas :
    /\ rgen[g] <= gen /\ snap[g].generation <= gen
    /\ rgen[g] = gen /\ phase[g] # "gone" => routes[g] = table /\ rseq[g] = tseq
    /\ snap[g].generation = gen => snap[g].models = table /\ snap[g].routing = tseq
    /\ phase[g] \in {"apply", "sync"} => rgen[g] < snap[g].generation
    /\ phase[g] = "new" => rgen[g] = 0

\* A table has apps of the routing it came from.
TablesOfSeqs ==
  /\ table \subseteq AppsOf(tseq)
  /\ \A g \in Replicas : routes[g] \subseteq AppsOf(from[g])
                         /\ snap[g].models \subseteq AppsOf(snap[g].routing)

\* Whatever a replica knows of is not later than s.
Within(g, s) == from[g] <= s /\ snap[g].routing <= s /\ rseq[g] <= s /\ reports[g] <= s

\* A seq is not later than the one it was taken from.
SeqsInOrder ==
  /\ tseq <= version /\ version <= seq
  /\ \A g \in Replicas :
       /\ Within(g, seq) /\ (version # 0 => Within(g, version)) /\ (tseq # 0 => Within(g, tseq))
       /\ snap[g].routing # 0 =>
            from[g] <= snap[g].routing /\ rseq[g] <= snap[g].routing /\ reports[g] <= snap[g].routing
       /\ from[g] # 0 => rseq[g] <= from[g] /\ reports[g] <= from[g]

\* The replicas of a confirmed switch, and the coordinator, have its seq or none.
WaitedFollow ==
  /\ waited # {} => tseq \in {0, seq} /\ version \in {0, seq}
  /\ \A g \in waited : from[g] \in {0, seq} /\ snap[g].routing \in {0, seq}

\* Where the worker is, and what it deletes.
WorkerKnows ==
  /\ step = "wait" => vers[seq] = target
  /\ step = "back" => vers[seq] = base
  /\ step = "drop" /\ ~hurried => doomed \cap vers[seq] = {}

RoutingInv == Types /\ Generations /\ TablesOfSeqs /\ SeqsInOrder /\ WaitedFollow /\ WorkerKnows

\* What the second part of KeepsPromise allows of a step.
SpareOnly ==
  \A a \in Apps : Deletes /\ a \in doomed /\ ~hurried => \A g \in waited : a \notin routes[g]

-----------------------------------------------------------------------------
\* The first version is up, and no replica has heard of it.
LEMMA InitInv == Init => RoutingInv /\ Promise!Init
<1> SUFFICES ASSUME Init PROVE RoutingInv /\ Promise!Init
  OBVIOUS
<1> USE RoutingAssumption
<1>1. base \in Versions /\ vers = <<base>> /\ seq = 1 /\ vers \in Seq(Versions) /\ vers # <<>>
  BY DEF Init, seq
<1>2. Types
  <2>1. NoSnapshot \in Snapshot /\ NothingSeen \in Sight
    BY DEF NoSnapshot, NothingSeen, Snapshot, Sight
  <2>2. phase \in [Replicas -> Phases]
    BY DEF Init, Phases
  <2> QED
    BY <1>1, <2>1, <2>2 DEF Init, Types, Scope
<1>3. Generations /\ TablesOfSeqs /\ SeqsInOrder /\ WaitedFollow /\ WorkerKnows
  <2>1. NoSnapshot.models = {} /\ NoSnapshot.generation = 0 /\ NoSnapshot.routing = 0
    BY DEF NoSnapshot
  <2> QED
    BY <1>1, <2>1 DEF Init, Generations, TablesOfSeqs, SeqsInOrder, Within, WaitedFollow,
                      WorkerKnows, AppsOf
<1>4. Promise!Init
  BY <1>1 DEF Init, Promise!Init
<1> QED
  BY <1>2, <1>3, <1>4 DEF RoutingInv

\* The invariant implies what the run checks.
LEMMA InvImplies == RoutingInv => GenerationTellsTable
<1> SUFFICES ASSUME RoutingInv PROVE GenerationTellsTable
  OBVIOUS
<1>1. \A g \in Running : rgen[g] = gen => routes[g] = table /\ rseq[g] = tseq
  BY DEF RoutingInv, Generations, Running, Watching
<1>2. OneAppPerModel
  <2> SUFFICES ASSUME NEW g \in Replicas, NEW a \in routes[g], NEW b \in routes[g],
                      ModelOf[a] = ModelOf[b]
               PROVE  a = b
    BY DEF OneAppPerModel
  <2>1. from[g] # 0 /\ a \in vers[from[g]] /\ b \in vers[from[g]]
    BY DEF RoutingInv, TablesOfSeqs, AppsOf
  <2>2. from[g] \in 1..Len(vers)
    BY <2>1 DEF RoutingInv, Types, SeqsInOrder, Within, seq
  <2>3. vers[from[g]] \in Versions
    BY <2>2 DEF RoutingInv, Types
  <2> QED
    BY <2>1, <2>3, RoutingAssumption
<1> QED
  BY <1>1, <1>2 DEF GenerationTellsTable

\* A fault uses up one of the scope's, and nothing else of it.
LEMMA ScopeStays ==
  ASSUME scope \in Scope, NoFault \/ \E kind \in FaultKinds : Fault(kind)
  PROVE  scope' \in Scope
BY DEF Scope, NoFault, Fault
\* A routing is added at the end, and the earlier ones stay.
LEMMA NewSeq ==
  ASSUME Types, NEW v \in Versions, vers' = Append(vers, v)
  PROVE  /\ seq \in Nat \ {0} /\ seq' = seq + 1 /\ vers' \in Seq(Versions) /\ vers' # <<>>
         /\ vers'[seq'] = v /\ \A i \in 1..seq : vers'[i] = vers[i]
<1>1. vers \in Seq(Versions) /\ vers # <<>>
  BY DEF Types
<1>2. Len(vers) \in Nat \ {0}
  BY <1>1, EmptySeq, LenProperties
<1>3. /\ vers' \in Seq(Versions) /\ vers' # <<>> /\ Len(vers') = Len(vers) + 1
      /\ \A i \in 1..Len(vers) : vers'[i] = vers[i]
      /\ vers'[Len(vers) + 1] = v
  BY <1>1, AppendProperties
<1> QED
  BY <1>2, <1>3 DEF seq

\* There is a current routing, and the earlier seqs have theirs.
LEMMA SeqType ==
  ASSUME Types
  PROVE  seq \in Nat \ {0} /\ \A i \in 1..seq : vers[i] \in Versions
BY DEF Types, seq

\* What only the worker's and Serve's variables leave alone.
LEMMA OthersStay ==
  ASSUME RoutingInv, UNCHANGED <<vers, coordVars, replicaVars>>
  PROVE  Generations' /\ TablesOfSeqs' /\ SeqsInOrder'
<1> USE DEF coordVars, replicaVars, RoutingInv
<1>1. Generations'
  BY DEF Generations
<1>2. TablesOfSeqs'
  BY DEF TablesOfSeqs, AppsOf
<1>3. SeqsInOrder'
  BY DEF SeqsInOrder, Within, seq
<1> QED
  BY <1>1, <1>2, <1>3

\* A new routing: nobody has it yet, and nobody is waited for.
LEMMA SwitchInv ==
  ASSUME RoutingInv, NEW v \in Versions, vers' = Append(vers, v), waited' = {}, NoFault,
         UNCHANGED <<coordVars, replicaVars>>
  PROVE  Generations' /\ TablesOfSeqs' /\ SeqsInOrder' /\ WaitedFollow' /\ vers'[seq'] = v
<1> USE DEF coordVars, replicaVars, RoutingInv
<1>1. seq \in Nat \ {0} /\ seq' = seq + 1 /\ vers'[seq'] = v /\ \A i \in 1..seq : vers'[i] = vers[i]
  BY NewSeq
<1>2. \A i \in 0..seq : AppsOf(i)' = AppsOf(i)
  <2> TAKE i \in 0..seq
  <2>1. CASE i = 0
    BY <2>1 DEF AppsOf
  <2>2. CASE i \in 1..seq
    BY <1>1, <2>2 DEF AppsOf
  <2> QED
    BY <1>1, <2>1, <2>2
<1>3. Generations'
  BY DEF Generations
<1>4. SeqsInOrder'
  BY <1>1 DEF Types, Snapshot, SeqsInOrder, Within
<1>5. TablesOfSeqs'
  <2>1. tseq \in 0..seq /\ \A g \in Replicas : from[g] \in 0..seq /\ snap[g].routing \in 0..seq
    BY <1>1 DEF Types, Snapshot, SeqsInOrder, Within
  <2> QED
    BY <1>2, <2>1 DEF TablesOfSeqs, AppsOf
<1> QED
  BY <1>1, <1>3, <1>4, <1>5 DEF WaitedFollow

\* The worker's steps.
LEMMA WorkerStep == RoutingInv /\ Worker => RoutingInv'
<1> SUFFICES ASSUME RoutingInv, Worker PROVE RoutingInv'
  OBVIOUS
<1>1. ASSUME NEW v \in scope.versions, BringsUp(v) PROVE RoutingInv'
  <2>1. v \in Versions
    BY DEF RoutingInv, Types, Scope
  <2>2. Generations' /\ TablesOfSeqs' /\ SeqsInOrder'
    BY <1>1, OthersStay DEF BringsUp
  <2>3. Types'
    BY <1>1, <2>1 DEF BringsUp, coordVars, replicaVars, RoutingInv, Types
  <2>4. WaitedFollow' /\ WorkerKnows'
    BY <1>1 DEF BringsUp, coordVars, replicaVars, RoutingInv, WaitedFollow, WorkerKnows, seq
  <2> QED
    BY <2>2, <2>3, <2>4 DEF RoutingInv
<1>2. ASSUME Switches PROVE RoutingInv'
  <2>1. target \in Versions /\ vers' = Append(vers, target) /\ waited' = {} /\ target' = target
    BY <1>2 DEF Switches, RoutingInv, Types
  <2>2. Generations' /\ TablesOfSeqs' /\ SeqsInOrder' /\ WaitedFollow' /\ vers'[seq'] = target
    BY <1>2, <2>1, SwitchInv DEF Switches, NoFault
  <2>3. Types'
    BY <1>2, <2>1, NewSeq DEF Switches, coordVars, replicaVars, RoutingInv, Types
  <2>4. WorkerKnows'
    BY <1>2, <2>1, <2>2 DEF Switches, WorkerKnows
  <2> QED
    BY <2>2, <2>3, <2>4 DEF RoutingInv
<1>3. ASSUME Confirmed PROVE RoutingInv'
  <2>1. Generations' /\ TablesOfSeqs' /\ SeqsInOrder'
    BY <1>3, OthersStay DEF Confirmed
  <2>2. Types'
    BY <1>3 DEF Confirmed, coordVars, replicaVars, RoutingInv, Types
  <2>3. WaitedFollow'
    <3>1. tseq = seq /\ seq # 0 /\ seq \in Nat /\ version = seq
      BY <1>3, SeqType DEF Confirmed, Switched, RoutingInv, Types, SeqsInOrder
    <3>2. \A g \in members : g \in Replicas /\ from[g] \in {0, seq} /\ snap[g].routing \in {0, seq}
      BY <1>3, <3>1 DEF Confirmed, Switched, RoutingInv, Types, Snapshot, SeqsInOrder, Within
    <3>3. waited' = members /\ seq' = seq
      BY <1>3 DEF Confirmed, seq
    <3> QED
      BY <1>3, <3>1, <3>2, <3>3 DEF Confirmed, coordVars, replicaVars, WaitedFollow
  <2>4. WorkerKnows'
    BY <1>3 DEF Confirmed, RoutingInv, WorkerKnows, seq
  <2> QED
    BY <2>1, <2>2, <2>3, <2>4 DEF RoutingInv
<1>4. ASSUME TimesOut PROVE RoutingInv'
  <2>1. CASE step = "wait" /\ vers' = Append(vers, base) /\ step' = "back" /\ waited' = {}
    <3>1. base \in Versions /\ base' = base
      BY <1>4 DEF TimesOut, RoutingInv, Types
    <3>2. Generations' /\ TablesOfSeqs' /\ SeqsInOrder' /\ WaitedFollow' /\ vers'[seq'] = base
      BY <1>4, <2>1, <3>1, SwitchInv DEF TimesOut, NoFault
    <3>3. Types'
      BY <1>4, <2>1, <3>1, NewSeq DEF TimesOut, coordVars, replicaVars, RoutingInv, Types
    <3>4. WorkerKnows'
      BY <2>1, <3>1, <3>2 DEF WorkerKnows
    <3> QED
      BY <3>2, <3>3, <3>4 DEF RoutingInv
  <2>2. CASE step' = "drop" /\ hurried' = TRUE /\ UNCHANGED <<vers, waited>>
    <3>1. Generations' /\ TablesOfSeqs' /\ SeqsInOrder'
      BY <1>4, <2>2, OthersStay DEF TimesOut
    <3>2. Types' /\ WaitedFollow' /\ WorkerKnows'
      BY <1>4, <2>2 DEF TimesOut, coordVars, replicaVars, RoutingInv, Types, WaitedFollow,
                        WorkerKnows, seq
    <3> QED
      BY <3>1, <3>2 DEF RoutingInv
  <2> QED
    BY <1>4, <2>1, <2>2 DEF TimesOut
<1>5. ASSUME Deletes PROVE RoutingInv'
  <2>1. Generations' /\ TablesOfSeqs' /\ SeqsInOrder'
    BY <1>5, OthersStay DEF Deletes
  <2>2. Types' /\ WaitedFollow' /\ WorkerKnows'
    BY <1>5 DEF Deletes, coordVars, replicaVars, RoutingInv, Types, WaitedFollow, WorkerKnows, seq
  <2> QED
    BY <2>1, <2>2 DEF RoutingInv
<1> QED
  BY <1>1, <1>2, <1>3, <1>4, <1>5 DEF Worker

\* The coordinator's steps: a table that changes has a new generation, and a restarted coordinator
\* publishes nothing older than what its replicas have.
LEMMA CoordinatorStep == RoutingInv /\ (Coordinator \/ CoordinatorRestarts) => RoutingInv'
<1> SUFFICES ASSUME RoutingInv, Coordinator \/ CoordinatorRestarts PROVE RoutingInv'
  OBVIOUS
<1> USE DEF RoutingInv
<1>1. ASSUME ReadServe PROVE RoutingInv'
  <2>1. scope' \in Scope
    BY <1>1, ScopeStays DEF ReadServe, Types, FaultKinds
  <2>2. seen' \in Sight
    <3>1. Up \subseteq Apps /\ Running \subseteq Replicas
      BY DEF Up, Running
    <3>2. /\ [up |-> Up, running |-> Running, listed |-> TRUE] \in Sight
          /\ [up |-> Up, running |-> {}, listed |-> FALSE] \in Sight
      BY <3>1 DEF Sight
    <3> QED
      BY <1>1, <3>2 DEF ReadServe
  <2>3. Types'
    BY <1>1, <2>1, <2>2 DEF ReadServe, deployVars, replicaVars, Types
  <2>4. Generations' /\ TablesOfSeqs' /\ SeqsInOrder' /\ WaitedFollow' /\ WorkerKnows'
    BY <1>1 DEF ReadServe, deployVars, replicaVars, Generations, TablesOfSeqs, AppsOf, SeqsInOrder,
                Within, WaitedFollow, WorkerKnows, seq
  <2> QED
    BY <2>3, <2>4
<1>2. ASSUME FetchVersions PROVE RoutingInv'
  <2>1. scope' \in Scope
    BY <1>2, ScopeStays DEF FetchVersions, Types, FaultKinds
  <2>2. version' \in {version, seq} /\ seq \in Nat /\ seq' = seq
    BY <1>2, SeqType DEF FetchVersions, deployVars, seq
  <2>3. Types'
    BY <1>2, <2>1, <2>2 DEF FetchVersions, deployVars, replicaVars, Types
  <2>4. Generations' /\ TablesOfSeqs' /\ WorkerKnows'
    BY <1>2 DEF FetchVersions, deployVars, replicaVars, Generations, TablesOfSeqs, AppsOf,
                WorkerKnows, seq
  <2>5. SeqsInOrder' /\ WaitedFollow'
    BY <1>2, <2>2 DEF FetchVersions, deployVars, replicaVars, Types, SeqsInOrder, Within,
                      WaitedFollow
  <2> QED
    BY <2>3, <2>4, <2>5
<1>3. ASSUME Publish PROVE RoutingInv'
  <2>1. CASE ~(version # 0 /\ seen.listed)
    <3>1. NothingSeen \in Sight
      BY DEF NothingSeen, Sight
    <3>2. Types'
      BY <1>3, <2>1, <3>1 DEF Publish, deployVars, replicaVars, Types
    <3>3. Generations' /\ TablesOfSeqs' /\ SeqsInOrder' /\ WaitedFollow' /\ WorkerKnows'
      BY <1>3, <2>1 DEF Publish, deployVars, replicaVars, Generations, TablesOfSeqs, AppsOf,
                        SeqsInOrder, Within, WaitedFollow, WorkerKnows, seq
    <3> QED
      BY <3>2, <3>3
  <2>2. CASE version # 0 /\ seen.listed
    <3>1. /\ table' = vers[version] \cap seen.up /\ tseq' = version /\ members' = seen.running
          /\ gen' = (IF table' # table \/ tseq' # tseq THEN gen + 1 ELSE gen) /\ clock' = gen'
      BY <1>3, <2>2 DEF Publish, compute_routing
    <3>2. NothingSeen \in Sight /\ seen.up \subseteq Apps /\ seen.running \subseteq Replicas
      BY DEF NothingSeen, Sight, Types
    <3>3. UNCHANGED <<deployVars, version, reports, replicaVars, scope>> /\ seen' = NothingSeen
      BY <1>3 DEF Publish
    <3>4. Types'
      BY <3>1, <3>2, <3>3 DEF deployVars, replicaVars, Types
    <3>5. Generations'
      BY <3>1, <3>3 DEF replicaVars, Types, Snapshot, Generations
    <3>6. TablesOfSeqs'
      BY <2>2, <3>1, <3>3 DEF deployVars, replicaVars, TablesOfSeqs, AppsOf
    <3>7. SeqsInOrder'
      BY <2>2, <3>1, <3>3 DEF deployVars, replicaVars, Types, SeqsInOrder, Within, seq
    <3>8. WaitedFollow' /\ WorkerKnows'
      BY <2>2, <3>1, <3>3 DEF deployVars, replicaVars, WaitedFollow, WorkerKnows, seq
    <3> QED
      BY <3>4, <3>5, <3>6, <3>7, <3>8
  <2> QED
    BY <2>1, <2>2
<1>4. ASSUME CoordinatorRestarts PROVE RoutingInv'
  <2>1. scope' \in Scope
    BY <1>4, ScopeStays DEF CoordinatorRestarts, Types, FaultKinds
  <2>2. gen' = gen + 1 /\ clock' = gen' /\ version' = 0 /\ tseq' = 0 /\ table' = {}
    BY <1>4 DEF CoordinatorRestarts, FirstGeneration, Types
  <2>3. NothingSeen \in Sight
    BY DEF NothingSeen, Sight
  <2>4. phase' \in [Replicas -> Phases]
        /\ \A g \in Replicas : phase'[g] # phase[g] => phase'[g] = "poll"
    BY <1>4 DEF CoordinatorRestarts, Types, Phases, Watching
  <2>5. Types'
    BY <1>4, <2>1, <2>2, <2>3, <2>4 DEF CoordinatorRestarts, deployVars, Types
  <2>6. Generations'
    BY <1>4, <2>2, <2>4 DEF CoordinatorRestarts, Types, Snapshot, Generations
  <2>7. TablesOfSeqs' /\ WaitedFollow' /\ WorkerKnows'
    BY <1>4, <2>2 DEF CoordinatorRestarts, deployVars, TablesOfSeqs, AppsOf, WaitedFollow,
                      WorkerKnows, seq
  <2>8. SeqsInOrder'
    BY <1>4, <2>2, SeqType DEF CoordinatorRestarts, deployVars, Types, Snapshot, SeqsInOrder, Within,
                               seq
  <2> QED
    BY <2>5, <2>6, <2>7, <2>8
<1> QED
  BY <1>1, <1>2, <1>3, <1>4 DEF Coordinator
\* Facts about the snapshots a replica may hold.
LEMMA Snapshots ==
  /\ NoSnapshot \in Snapshot /\ NoSnapshot.models = {} /\ NoSnapshot.generation = 0
  /\ NoSnapshot.routing = 0
  /\ Types => get_routing \in Snapshot
  /\ get_routing.models = table /\ get_routing.generation = gen /\ get_routing.routing = tseq
BY DEF NoSnapshot, Snapshot, get_routing, Types

\* A replica takes the coordinator's table as it is.
LEMMA PullStep ==
  ASSUME NEW g \in Replicas, RoutingInv, FirstSync(g) \/ PollReturns(g)
  PROVE  RoutingInv'
<1> USE DEF RoutingInv
<1>1. UNCHANGED <<deployVars, coordVars, rgen, rseq, routes, from, scope>>
  BY DEF FirstSync, PollReturns
<1>2. phase' = [phase EXCEPT ![g] = phase'[g]] /\ phase'[g] \in {"sync", "poll", "apply"}
  BY DEF FirstSync, PollReturns, Types
<1>3. (snap'[g] = snap[g] /\ phase'[g] = "poll") \/ (snap'[g] = get_routing /\ rgen[g] < gen)
  BY DEF FirstSync, PollReturns, Types, Generations
<1>4. snap' \in [Replicas -> Snapshot] /\ \A q \in Replicas \ {g} : snap'[q] = snap[q]
  BY Snapshots DEF FirstSync, PollReturns, Types
<1>5. Types'
  BY <1>1, <1>2, <1>4 DEF deployVars, coordVars, Types, Phases, Watching
<1>6. Generations'
  <2> SUFFICES ASSUME NEW q \in Replicas
               PROVE  /\ rgen[q] <= gen /\ snap'[q].generation <= gen
                      /\ rgen[q] = gen /\ phase'[q] # "gone" => routes[q] = table /\ rseq[q] = tseq
                      /\ snap'[q].generation = gen => snap'[q].models = table /\ snap'[q].routing = tseq
                      /\ phase'[q] \in {"apply", "sync"} => rgen[q] < snap'[q].generation
                      /\ phase'[q] = "new" => rgen[q] = 0
    BY <1>1 DEF coordVars, Generations
  <2>1. CASE q # g
    BY <1>2, <1>4, <2>1 DEF Types, Generations
  <2>2. CASE q = g /\ snap'[g] = snap[g] /\ phase'[g] = "poll"
    BY <2>2 DEF FirstSync, PollReturns, Generations
  <2>3. CASE q = g /\ snap'[g] = get_routing /\ rgen[g] < gen
    BY <1>2, <2>3, Snapshots DEF Types, Generations
  <2> QED
    BY <1>3, <2>1, <2>2, <2>3
<1>7. TablesOfSeqs' /\ WaitedFollow' /\ WorkerKnows'
  <2>1. \A q \in Replicas :
          \/ snap'[q] = snap[q]
          \/ snap'[q].models = table /\ snap'[q].routing = tseq
    BY <1>3, <1>4, Snapshots
  <2>2. TablesOfSeqs'
    BY <1>1, <2>1 DEF deployVars, coordVars, TablesOfSeqs, AppsOf
  <2>3. WaitedFollow'
    BY <1>1, <2>1 DEF deployVars, coordVars, Types, WaitedFollow, seq
  <2>4. WorkerKnows'
    BY <1>1 DEF deployVars, WorkerKnows, seq
  <2> QED
    BY <2>2, <2>3, <2>4
<1>8. SeqsInOrder'
  <2>1. UNCHANGED <<seq, version, tseq, from, rseq, reports>>
    BY <1>1 DEF deployVars, coordVars, seq
  <2> SUFFICES ASSUME NEW q \in Replicas
               PROVE  /\ Within(q, seq)' /\ (version # 0 => Within(q, version)')
                      /\ tseq # 0 => Within(q, tseq)'
                      /\ snap'[q].routing # 0 => /\ from'[q] <= snap'[q].routing
                                                /\ rseq'[q] <= snap'[q].routing
                                                /\ reports'[q] <= snap'[q].routing
                      /\ from'[q] # 0 => rseq'[q] <= from'[q] /\ reports'[q] <= from'[q]
    BY <2>1 DEF SeqsInOrder
  <2>2. CASE snap'[q] = snap[q]
    BY <2>1, <2>2 DEF SeqsInOrder, Within
  <2>3. CASE snap'[q].routing = tseq
    <3>1. seq \in Nat /\ tseq \in Nat /\ version \in Nat /\ tseq <= version /\ version <= seq
      BY SeqType DEF Types, SeqsInOrder
    <3> QED
      BY <2>1, <2>3, <3>1 DEF SeqsInOrder, Within
  <2> QED
    BY <1>3, <1>4, <2>2, <2>3, Snapshots
<1> QED
  BY <1>5, <1>6, <1>7, <1>8

\* A replica applies its snapshot, wholly or in part.
LEMMA ApplyStep ==
  ASSUME NEW g \in Replicas, RoutingInv, Applies(g)
  PROVE  RoutingInv'
<1> USE DEF RoutingInv
<1>1. PICK failed : ApplySnapshot(g, failed)
  BY DEF Applies
<1>2. UNCHANGED <<deployVars, coordVars>> /\ scope' \in Scope /\ phase[g] \in {"apply", "sync"}
  BY ScopeStays DEF Applies, Types, FaultKinds
<1>3. /\ routes' = [routes EXCEPT ![g] = snap[g].models \ failed]
      /\ from' = [from EXCEPT ![g] = snap[g].routing]
      /\ phase' = [phase EXCEPT ![g] = "poll"] /\ snap' = [snap EXCEPT ![g] = NoSnapshot]
  BY <1>1 DEF ApplySnapshot, AppliedRoutes
<1>4. \/ /\ failed = {} /\ rgen' = [rgen EXCEPT ![g] = snap[g].generation]
         /\ rseq' = [rseq EXCEPT ![g] = snap[g].routing]
      \/ UNCHANGED <<rgen, rseq>>
  BY <1>1 DEF ApplySnapshot, Advances
<1>5. snap[g].models \subseteq Apps /\ snap[g].generation \in Nat /\ snap[g].routing \in Nat
  BY DEF Types, Snapshot
<1>6. rgen[g] < snap[g].generation /\ snap[g].generation <= gen
  BY <1>2 DEF Generations
<1>7. Types'
  BY <1>2, <1>3, <1>4, <1>5, Snapshots DEF deployVars, coordVars, Types, Phases, Watching
<1>8. Generations'
  <2> SUFFICES ASSUME NEW q \in Replicas
               PROVE  /\ rgen'[q] <= gen /\ snap'[q].generation <= gen
                      /\ rgen'[q] = gen /\ phase'[q] # "gone" => routes'[q] = table /\ rseq'[q] = tseq
                      /\ snap'[q].generation = gen => snap'[q].models = table /\ snap'[q].routing = tseq
                      /\ phase'[q] \in {"apply", "sync"} => rgen'[q] < snap'[q].generation
                      /\ phase'[q] = "new" => rgen'[q] = 0
    BY <1>2 DEF coordVars, Generations
  <2>1. CASE q # g
    BY <1>3, <1>4, <2>1 DEF Types, Generations
  <2>2. CASE q = g
    BY <1>3, <1>4, <1>5, <1>6, <2>2, Snapshots DEF Types, Generations
  <2> QED
    BY <2>1, <2>2
<1>9. TablesOfSeqs' /\ WaitedFollow' /\ WorkerKnows'
  BY <1>2, <1>3, <1>5, Snapshots DEF deployVars, coordVars, Types, TablesOfSeqs, AppsOf,
                                     WaitedFollow, WorkerKnows, seq
<1>10. SeqsInOrder'
  <2>1. UNCHANGED <<seq, version, tseq, reports>>
    BY <1>2 DEF deployVars, coordVars, seq
  <2> SUFFICES ASSUME NEW q \in Replicas
               PROVE  /\ Within(q, seq)' /\ (version # 0 => Within(q, version)')
                      /\ tseq # 0 => Within(q, tseq)'
                      /\ snap'[q].routing # 0 => /\ from'[q] <= snap'[q].routing
                                                /\ rseq'[q] <= snap'[q].routing
                                                /\ reports'[q] <= snap'[q].routing
                      /\ from'[q] # 0 => rseq'[q] <= from'[q] /\ reports'[q] <= from'[q]
    BY <2>1 DEF SeqsInOrder
  <2>2. CASE q # g
    BY <1>3, <1>4, <2>1, <2>2 DEF SeqsInOrder, Within, Types
  <2>3. CASE q = g
    <3>1. from'[q] = snap[q].routing /\ snap'[q].routing = 0 /\ rseq'[q] \in {rseq[q], snap[q].routing}
      BY <1>3, <1>4, <2>3, Snapshots DEF Types
    <3>2. seq \in Nat /\ version \in Nat /\ tseq \in Nat
      BY SeqType DEF Types
    <3> QED
      BY <1>5, <2>1, <2>3, <3>1, <3>2 DEF SeqsInOrder, Within
  <2> QED
    BY <2>2, <2>3
<1> QED
  BY <1>7, <1>8, <1>9, <1>10

\* A replica polls or stops, or its report expires.
LEMMA PollStep ==
  ASSUME NEW g \in Replicas, RoutingInv, Polls(g) \/ Stops(g) \/ ExpireReport(g)
  PROVE  RoutingInv'
<1> USE DEF RoutingInv
<1>1. CASE Polls(g)
  <2>1. Types'
    BY <1>1 DEF Polls, deployVars, Types, Phases, Watching
  <2>2. Generations' /\ TablesOfSeqs' /\ WaitedFollow' /\ WorkerKnows'
    BY <1>1 DEF Polls, deployVars, Types, Generations, TablesOfSeqs, AppsOf, WaitedFollow,
                WorkerKnows, seq
  <2>3. SeqsInOrder'
    BY <1>1 DEF Polls, deployVars, Types, SeqsInOrder, Within, seq
  <2> QED
    BY <2>1, <2>2, <2>3
<1>2. CASE Stops(g)
  <2>1. Types'
    BY <1>2, Snapshots DEF Stops, deployVars, coordVars, Types, Phases
  <2>2. Generations' /\ TablesOfSeqs' /\ WaitedFollow' /\ WorkerKnows'
    <3>1. UNCHANGED <<vers, seq, target, base, step, hurried, doomed, waited, gen, table, tseq, version>>
          /\ UNCHANGED <<rgen, rseq, from>>
      BY <1>2 DEF Stops, deployVars, coordVars, seq
    <3>2. ASSUME NEW q \in Replicas
          PROVE  \/ phase'[q] = "gone" /\ routes'[q] = {} /\ snap'[q] = NoSnapshot
                 \/ phase'[q] = phase[q] /\ routes'[q] = routes[q] /\ snap'[q] = snap[q]
      BY <1>2 DEF Stops, Types
    <3>3. Generations'
      <4>1. gen \in Nat /\ gen # 0
        BY DEF Types
      <4> QED
        BY <3>1, <3>2, <4>1, Snapshots DEF Generations
    <3>4. TablesOfSeqs'
      BY <3>1, <3>2, Snapshots DEF TablesOfSeqs, AppsOf
    <3>5. WaitedFollow' /\ WorkerKnows'
      <4>1. waited \subseteq Replicas
        BY DEF Types
      <4> QED
        BY <3>1, <3>2, <4>1, Snapshots DEF WaitedFollow, WorkerKnows
    <3> QED
      BY <3>3, <3>4, <3>5
  <2>3. SeqsInOrder'
    <3>1. UNCHANGED <<tseq, version, vers, seq, from, rseq, reports>>
      BY <1>2 DEF Stops, deployVars, coordVars, seq
    <3>2. ASSUME NEW q \in Replicas PROVE snap'[q].routing \in {0, snap[q].routing}
      BY <1>2, Snapshots DEF Stops, Types
    <3>3. seq \in Nat /\ tseq \in Nat /\ version \in Nat
      BY SeqType DEF Types
    <3> QED
      BY <3>1, <3>2, <3>3 DEF SeqsInOrder, Within
  <2> QED
    BY <2>1, <2>2, <2>3
<1>3. CASE ExpireReport(g)
  <2>1. Types'
    BY <1>3 DEF ExpireReport, deployVars, replicaVars, Types
  <2>2. Generations' /\ TablesOfSeqs' /\ WaitedFollow' /\ WorkerKnows'
    BY <1>3 DEF ExpireReport, deployVars, replicaVars, Generations, TablesOfSeqs, AppsOf,
                WaitedFollow, WorkerKnows, seq
  <2>3. SeqsInOrder'
    <3>1. UNCHANGED <<tseq, version, seq, from, rseq, snap>>
      BY <1>3 DEF ExpireReport, deployVars, replicaVars, seq
    <3>2. ASSUME NEW q \in Replicas
          PROVE  reports'[q] \in {0, reports[q]} /\ snap[q].routing \in Nat /\ from[q] \in Nat
      BY <1>3 DEF ExpireReport, Types, Snapshot
    <3>3. seq \in Nat /\ tseq \in Nat /\ version \in Nat
      BY SeqType DEF Types
    <3> QED
      BY <3>1, <3>2, <3>3 DEF SeqsInOrder, Within
  <2> QED
    BY <2>1, <2>2, <2>3
<1> QED
  BY <1>1, <1>2, <1>3

\* No step of Next breaks the invariant.
LEMMA InvStep == RoutingInv /\ [Next]_vars => RoutingInv'
<1> SUFFICES ASSUME RoutingInv, [Next]_vars PROVE RoutingInv'
  OBVIOUS
<1>1. CASE UNCHANGED <<deployVars, coordVars, replicaVars>> /\ scope' \in Scope
  <2>1. Generations' /\ TablesOfSeqs' /\ SeqsInOrder'
    BY <1>1, OthersStay DEF deployVars
  <2>2. Types' /\ WaitedFollow' /\ WorkerKnows'
    BY <1>1 DEF deployVars, coordVars, replicaVars, RoutingInv, Types, WaitedFollow, WorkerKnows,
                seq
  <2> QED
    BY <2>1, <2>2 DEF RoutingInv
<1>2. CASE UNCHANGED vars
  BY <1>1, <1>2 DEF vars, RoutingInv, Types
<1>3. CASE Worker
  BY <1>3, WorkerStep
<1>4. CASE Coordinator \/ CoordinatorRestarts
  BY <1>4, CoordinatorStep
<1>5. ASSUME NEW a \in Apps, AppStarts(a) \/ AppSickens(a) PROVE RoutingInv'
  <2>1. scope' \in Scope
    BY <1>5, ScopeStays DEF AppStarts, AppSickens, NoFault, FaultKinds, RoutingInv, Types
  <2> QED
    BY <1>1, <1>5, <2>1 DEF AppStarts, AppSickens
<1>6. ASSUME NEW g \in Replicas, Replica(g) \/ Stops(g) \/ ExpireReport(g) PROVE RoutingInv'
  BY <1>6, PullStep, ApplyStep, PollStep DEF Replica
<1> QED
  BY <1>2, <1>3, <1>4, <1>5, <1>6 DEF Next, Trouble

-----------------------------------------------------------------------------
\* A generation of the gateway coordinator stands for one table and one seq, across its restarts, so a
\* long poll that sees no change misses nothing (_publish, _bump, _apply_snapshot); and no replica has
\* two apps of a model, also after a snapshot it could apply only in part.
THEOREM GenerationsTell == Spec => []GenerationTellsTable
<1>1. Init => RoutingInv
  BY InitInv
<1>2. RoutingInv /\ [Next]_vars => RoutingInv'
  BY InvStep
<1>3. RoutingInv => GenerationTellsTable
  BY InvImplies
<1> QED
  BY <1>1, <1>2, <1>3, PTL DEF Spec

\* A step of the gateway is a step of the promise: a routing more, a confirmation, a replica that goes
\* forward or to nothing, or none of them.
LEMMA PromiseStep == RoutingInv /\ [Next]_vars => [Promise!Next]_(Promise!vars)
<1> SUFFICES ASSUME RoutingInv, [Next]_vars PROVE [Promise!Next]_(Promise!vars)
  OBVIOUS
<1>1. CASE UNCHANGED <<vers, from, waited>>
  BY <1>1 DEF Promise!vars, seq
<1>2. ASSUME NEW v \in Versions, vers' = Append(vers, v), waited' = {}, from' = from
      PROVE  Promise!Next
  <2>1. seq' = seq + 1
    BY <1>2, NewSeq DEF RoutingInv
  <2> QED
    BY <1>2, <2>1 DEF Promise!Next, Promise!Switch
<1>3. CASE Switches
  BY <1>2, <1>3 DEF Switches, replicaVars, RoutingInv, Types
<1>4. CASE TimesOut
  BY <1>1, <1>2, <1>4 DEF TimesOut, replicaVars, RoutingInv, Types
<1>5. CASE Confirmed
  <2>1. waited' = members /\ members \subseteq Replicas /\ seq' = seq /\ from' = from
    BY <1>5 DEF Confirmed, replicaVars, RoutingInv, Types, seq
  <2>2. \A g \in members : from[g] \in {0, seq}
    BY <1>5, <2>1, SeqType DEF Confirmed, Switched, RoutingInv, Types, SeqsInOrder, Within
  <2> QED
    BY <2>1, <2>2 DEF Promise!Next, Promise!Confirm
<1>6. ASSUME NEW g \in Replicas, Applies(g) PROVE Promise!Next
  <2>1. from' = [from EXCEPT ![g] = snap[g].routing] /\ seq' = seq /\ waited' = waited
    BY <1>6 DEF Applies, ApplySnapshot, deployVars, seq
  <2>2. seq \in Nat /\ from[g] \in Nat /\ snap[g].routing \in Nat /\ snap[g].routing <= seq
    BY SeqType DEF RoutingInv, Types, Snapshot, SeqsInOrder, Within
  <2>3. g \in waited => snap[g].routing \in {0, seq}
    BY DEF RoutingInv, WaitedFollow
  <2>4. snap[g].routing # 0 => snap[g].routing \in from[g]..seq
    BY <2>2 DEF RoutingInv, SeqsInOrder
  <2>5. Promise!Follow(g)
    BY <2>1, <2>3, <2>4 DEF Promise!Follow
  <2> QED
    BY <2>5 DEF Promise!Next
<1>7. CASE (\E v \in scope.versions : BringsUp(v)) \/ Deletes
  BY <1>1, <1>7 DEF BringsUp, Deletes, replicaVars
<1>8. CASE Coordinator \/ CoordinatorRestarts
  BY <1>1, <1>8 DEF Coordinator, ReadServe, FetchVersions, Publish, CoordinatorRestarts, deployVars,
                    replicaVars
<1>9. ASSUME NEW g \in Replicas,
             FirstSync(g) \/ Polls(g) \/ PollReturns(g) \/ Stops(g) \/ ExpireReport(g)
      PROVE  UNCHANGED <<vers, from, waited>>
  BY <1>9 DEF FirstSync, Polls, PollReturns, Stops, ExpireReport, deployVars, replicaVars
<1>10. ASSUME NEW a \in Apps, AppStarts(a) \/ AppSickens(a) PROVE UNCHANGED <<vers, from, waited>>
  BY <1>10 DEF AppStarts, AppSickens, deployVars, replicaVars
<1>11. CASE UNCHANGED vars
  BY <1>1, <1>11 DEF vars, deployVars, replicaVars
<1> QED
  BY <1>1, <1>3, <1>4, <1>5, <1>6, <1>7, <1>8, <1>9, <1>10, <1>11 DEF Next, Worker, Trouble, Replica

\* What is deleted is in no table of a replica the switch waited for.
LEMMA SpareStep == RoutingInv => SpareOnly
<1> SUFFICES ASSUME RoutingInv, NEW a \in Apps, Deletes, a \in doomed, ~hurried, NEW g \in waited
             PROVE  a \notin routes[g]
  BY DEF SpareOnly
<1>1. g \in Replicas /\ routes[g] \subseteq AppsOf(from[g]) /\ from[g] \in {0, seq}
  BY DEF RoutingInv, Types, TablesOfSeqs, WaitedFollow
<1>2. doomed \cap vers[seq] = {}
  BY DEF Deletes, RoutingInv, WorkerKnows
<1> QED
  BY <1>1, <1>2 DEF AppsOf

\* The gateway coordinator, its replicas' watch loops and the worker implement Switchover's promise, and
\* the worker deletes (delete_apps) only apps that no replica the switch waited for routes to.
THEOREM PromiseKept == Spec => KeepsPromise
<1>1. Init => RoutingInv /\ Promise!Init
  BY InitInv
<1>2. RoutingInv /\ [Next]_vars => RoutingInv'
  BY InvStep
<1>3. RoutingInv /\ [Next]_vars => [Promise!Next]_(Promise!vars)
  BY PromiseStep
<1>4. RoutingInv => SpareOnly
  BY SpareStep
<1>5. Spec => Promise!Spec
  BY <1>1, <1>2, <1>3, PTL DEF Spec, Promise!Spec
<1>6. Spec => [][SpareOnly]_vars
  BY <1>1, <1>2, <1>4, PTL DEF Spec
<1> QED
  BY <1>5, <1>6 DEF KeepsPromise, SpareOnly

-----------------------------------------------------------------------------
(* The tool loop.  Its invariant says where everything is.  TurnInv: the       *)
(* translator, the events between it and the loop, the buffers and the pending *)
(* calls of a turn agree on which channels have been opened, heard of and      *)
(* closed.  RanInv: what has run is behind the loop's place.  GrantInv: an     *)
(* approval in the history is one a client has sent.  NumberInv: the stream is *)
(* numbered.  OutputInv: while the loader has kept to the order of the output, *)
(* a client knows the first items of the accumulator and, of the turn, the     *)
(* channels that have been shown, each at the place the turn's output has it.  *)

\* What the loader, the stitcher and the conversation are made of.
Channels == {Reasoning, Message} \cup {Tool(k) : k \in Nat}
Names == {chunk.name : chunk \in Chunks} \cup {NoName}
Marks == {"list", "resume", "input", "nobody", "reasoning", "message", "tool"}
Ids == Nat \X Nat \X (Marks \X Nat)
ItemTypes == {"added", "part_added", "delta", "args_delta", "text_done", "part_done", "args_done", "done"}
ItemEvents == [type : ItemTypes, seq : Nat, ch : Channels, oi : Nat, name : Names]
EndEvents == [type : {"completed", "failed"}, seq : Nat, output : Seq(Channels)]
SentTypes ==
  ItemTypes \cup Terminal
    \cup {"created", "in_progress", "list_started", "list_ended", "call_started", "call_ended"}
Sent == [type : SentTypes, seq : Nat] \cup [type : SentTypes, seq : Nat, oi : Nat, id : Ids]
Buffers == [class : {"unknown", "client", "mcp", "mcp_approval"}, oi : Nat, raw : Seq(ItemEvents)]
PlainItems == [kind : {"input", "reasoning", "message", "function", "list_failed"}, id : Ids]
Items ==
  PlainItems \cup {Hole}
    \cup [kind : {"list"}, id : Ids, tools : SUBSET UNION Listings, allowed : Allowed]
    \cup [kind : {"call"}, id : Ids, name : Names, of : Ids \cup {NoApproval}, ok : BOOLEAN]
    \cup [kind : {"approval"}, id : Ids, name : Names]
    \cup [kind : {"answer"}, of : Ids, approve : BOOLEAN]
Translators == [open : Seq(Channels), named : Seq(Names), seq : Nat]
Stitchers ==
  [seq : Nat, offset : Nat, buf : Seq(Buffers), pending : Seq(Channels), client : BOOLEAN,
   placed : SUBSET [oi : Nat, item : PlainItems], sent : Seq(Sent)]
Requests ==
  [allowed : Allowed \cup {{}}, max : Limits \cup {NoLimit}, items : Seq(Items)]

Executions == [item : Ids, of : Ids \cup {NoApproval}, name : Names]

RequestType ==
  /\ past \in Seq(Items) /\ made \in Nat /\ req \in Requests /\ out \in Seq(Items)
  /\ tools \subseteq req.allowed
LoopType ==
  /\ pc \in {"idle", "discover", "listing", "resume", "resuming", "turn", "refused", "streaming", "calls",
             "calling"}
  /\ pc # "idle" => req.allowed \in Allowed
  /\ turn \in Nat /\ at \in Nat \ {0}
StitchType == st \in Stitchers /\ tr \in Translators /\ inbox \in Seq(ItemEvents \cup EndEvents)
HistoryType ==
  /\ ran \in Seq(Executions) /\ grants \in Seq(Ids)
  /\ mixed \in BOOLEAN
McpTypes == RequestType /\ LoopType /\ StitchType /\ HistoryType

\* A turn is under way, or its calls are.
InTurn == pc \in {"streaming", "calls", "calling"}

\* The loader has ended its turn.
Closing == inbox # <<>> /\ inbox[Len(inbox)].type \in Terminal

\* An event still to be absorbed announces, or closes, the item of a channel.
AddedWaits(ch) == inbox # <<>> /\ inbox[1].type = "added" /\ inbox[1].ch = ch
DoneWaits(ch) == \E i \in DOMAIN inbox : inbox[i].type = "done" /\ inbox[i].ch = ch
Heard(ch) == Opened(tr, ch) /\ ~AddedWaits(ch)
Closed(ch) == Opened(tr, ch) /\ ~DoneWaits(ch) /\ (Closing \/ pc # "streaming")

\* The translator: channels open once, tools by index.
OpensOnce(t) == \A i, j \in DOMAIN t.open : t.open[i] = t.open[j] => i = j
ToolsByIndex(t) == \A k \in Nat : Opened(t, Tool(k)) <=> k < Len(t.named)
ChannelsOpen == OpensOnce(tr) /\ ToolsByIndex(tr)

\* An event tells of a channel what the translator knows of it.
EventOf(e, t, ch) ==
  /\ e \in ItemEvents /\ e.ch = ch /\ Opened(t, ch)
  /\ e.oi + 1 \in DOMAIN t.open /\ t.open[e.oi + 1] = ch
  /\ IsTool(ch) => e.name = t.named[ch[2] + 1]
EventFits(i) ==
  LET e == inbox[i]
  IN IF e.type \in Terminal THEN i = Len(inbox) /\ e.output = CollectOutput(tr)
     ELSE /\ EventOf(e, tr, e.ch)
          /\ e.type = "added" => i = 1 /\ ~Closing
          /\ e.type = "done" => Closing
DoneOnce(q) ==
  \A i, j \in DOMAIN q : q[i].type = "done" /\ q[j].type = "done" /\ q[i].ch = q[j].ch => i = j
InboxFits ==
  /\ pc = "streaming" => DoneOnce(inbox) /\ \A i \in DOMAIN inbox : EventFits(i)
  /\ pc \in {"calls", "calling"} => inbox = <<>>

\* What is held back of a call whose class is unknown: its first event and no last one.
RawFits(b, oi) ==
  b.class = "unknown" =>
    /\ b.raw # <<>> /\ b.raw[1].type = "added" /\ b.raw[1].oi = oi
    /\ \A i \in DOMAIN b.raw : b.raw[i].type # "done"

\* The calls held back, by index.
BufferOf(k) == st.buf[k + 1]
HeldFits(k) ==
  LET b == BufferOf(k)
  IN /\ b.class = "mcp" => tr.named[k + 1] # NoName /\ tr.named[k + 1] \notin Guarded
     /\ b.class = "unknown" =>
          /\ ~Closed(Tool(k))
          /\ \E p \in DOMAIN tr.open : tr.open[p] = Tool(k) /\ RawFits(b, p - 1)
HeldBack == \A k \in Nat : (k < Len(st.buf) <=> Heard(Tool(k))) /\ (k < Len(st.buf) => HeldFits(k))
Pended ==
  /\ \A i, j \in DOMAIN st.pending : st.pending[i] = st.pending[j] => i = j
  /\ \A i \in DOMAIN st.pending : IsTool(st.pending[i]) /\ Closed(st.pending[i])
  /\ \A ch \in Range(tr.open) :
       Closed(ch) /\ IsTool(ch) => (ch \in Range(st.pending) <=> BufferOf(ch[2]).class # "client")
TurnInv == InTurn => ChannelsOpen /\ InboxFits /\ HeldBack /\ Pended

\* The calls that have run.
RanBefore(item) ==
  /\ item[1] <= made
  /\ item[1] = made =>
       CASE pc \in {"discover", "listing"} -> FALSE
         [] pc \in {"resume", "resuming"} -> item[2] = 0 /\ item[3][2] < at
         [] pc = "turn" -> item[2] <= turn
         [] pc \in {"refused", "streaming"} -> item[2] < turn
         [] pc \in {"calls", "calling"} ->
              item[2] < turn \/ (item[2] = turn /\ \E k \in 1..(at - 1) : st.pending[k] = item[3])
         [] OTHER -> TRUE
RanInv ==
  /\ \A i \in DOMAIN ran : RanBefore(ran[i].item)
  /\ pc \in {"discover", "listing", "resume", "resuming"} => turn = 0
  /\ InTurn => turn > 0
  /\ pc = "streaming" => at = 1
  /\ pc \in {"resume", "resuming"} => Answers \subseteq Nat
  /\ pc = "resuming" => Answers # {} /\ Runs
  /\ pc = "calling" => More /\ Buffered(st, NextCall).class = "mcp"
  /\ pc \in {"calls", "calling"} => at \in 1..(Len(st.pending) + 1)
GrantInv ==
  /\ \A i \in DOMAIN past : past[i].kind = "answer" /\ past[i].approve => past[i].of \in Range(grants)
  /\ pc # "idle" => \A i \in DOMAIN req.items :
       req.items[i].kind = "answer" /\ req.items[i].approve => req.items[i].of \in Range(grants)
  /\ \A i \in DOMAIN out : out[i].kind # "answer"

\* The numbers of the stream.
NumberInv ==
  /\ st.seq = Len(st.sent)
  /\ \A i \in DOMAIN st.sent : st.sent[i].seq = i - 1
  /\ \A i \in DOMAIN st.sent : st.sent[i].type \in Terminal => i = Len(st.sent) /\ pc = "idle"

\* The output, as a client builds it: the items of the accumulator, and those of the turn.
KeptOf(o, n) == {<<i - 1, o[i].id>> : i \in 1..n}
SlotsOf(open, m, t, lo, S) ==
  {<<lo + p - 1, <<m, t, open[p]>>>> : p \in {q \in DOMAIN open : open[q] \in S}}
ToldBy(s, type) ==
  {<<s.sent[i].oi, s.sent[i].id>> : i \in {j \in DOMAIN s.sent : s.sent[j].type = type}}

\* The channels of the turn that have been announced, and closed, to the client.
Announced(ch) ==
  Heard(ch) /\ (IsTool(ch) => BufferOf(ch[2]).class \in {"client", "mcp"})
Ended(ch) == Closed(ch) /\ (IsTool(ch) => BufferOf(ch[2]).class = "client")
Answered(ch) == \E k \in 1..(at - 1) : st.pending[k] = ch
ShownNow == {ch \in Range(tr.open) : Announced(ch) \/ Answered(ch)}
DoneNow == {ch \in Range(tr.open) : Ended(ch) \/ Answered(ch)}

\* Between turns the client knows the accumulator.
Even ==
  /\ Len(out) = st.offset
  /\ ToldBy(st, "added") = KeptOf(out, Len(out)) /\ ToldBy(st, "done") = KeptOf(out, Len(out))

\* Within one it also knows the channels that have been shown, at their places from lo on.
TurnTold(lo) ==
  /\ ToldBy(st, "added") = KeptOf(out, lo) \cup SlotsOf(tr.open, made, turn, lo, ShownNow)
  /\ ToldBy(st, "done") = KeptOf(out, lo) \cup SlotsOf(tr.open, made, turn, lo, DoneNow)
CallsPlaced(lo) ==
  \A p \in DOMAIN tr.open, ch \in Range(tr.open) :
    tr.open[p] = ch /\ IsTool(ch) /\ Heard(ch) /\ BufferOf(ch[2]).class # "unknown" =>
      BufferOf(ch[2]).oi = lo + p - 1
TurnKeeps(lo) ==
  \A p \in DOMAIN tr.open, ch \in Range(tr.open) :
    tr.open[p] = ch /\ ch \in DoneNow => out[lo + p].id = Id(turn, ch)

Base == st.offset - Len(tr.open)
OutInv ==
  /\ InTurn => tr.open = CollectOutput(tr)
  /\ pc \in {"discover", "resume", "turn"} => Even
  /\ pc = "discover" => out = <<>>
  /\ pc = "listing" =>
       /\ out = <<>> /\ st.offset = 1
       /\ ToldBy(st, "added") = {<<0, ListId>>} /\ ToldBy(st, "done") = {}
  /\ pc = "resuming" =>
       /\ st.offset = Len(out) + 1
       /\ ToldBy(st, "added") = KeptOf(out, Len(out)) \cup {<<Len(out), ResumeId>>}
       /\ ToldBy(st, "done") = KeptOf(out, Len(out))
  /\ pc = "streaming" => Len(out) = st.offset /\ TurnTold(st.offset) /\ CallsPlaced(st.offset)
  /\ pc \in {"calls", "calling"} =>
       /\ Len(out) = st.offset /\ Base \in Nat
       /\ TurnTold(Base) /\ CallsPlaced(Base) /\ TurnKeeps(Base)
OutputInv == ~mixed => OutInv

-----------------------------------------------------------------------------
(* The stitcher's operations.                                                *)

NumberedBy(s) == s.seq = Len(s.sent) /\ \A i \in DOMAIN s.sent : s.sent[i].seq = i - 1
Quiet(s) == \A i \in DOMAIN s.sent : s.sent[i].type \notin Terminal
SameButSent(s, r) ==
  /\ r \in Stitchers /\ r.offset = s.offset /\ r.buf = s.buf /\ r.pending = s.pending
  /\ r.client = s.client /\ r.placed = s.placed
Sends(s, r, T, oi, id) ==
  /\ NumberedBy(s) => NumberedBy(r)
  /\ Quiet(s) /\ T \cap Terminal = {} => Quiet(r)
  /\ \A type : ToldBy(r, type) = ToldBy(s, type) \cup (IF type \in T THEN {<<oi, id>>} ELSE {})

\* c is b after a.
Join(a, b, c) ==
  /\ Len(c) = Len(a) + Len(b) /\ Len(a) \in Nat /\ Len(b) \in Nat
  /\ DOMAIN a = 1..Len(a) /\ DOMAIN b = 1..Len(b) /\ DOMAIN c = 1..(Len(a) + Len(b))
  /\ \A i \in DOMAIN a : i \in DOMAIN c /\ c[i] = a[i]
  /\ \A j \in DOMAIN b : Len(a) + j \in DOMAIN c /\ c[Len(a) + j] = b[j]
  /\ \A i \in DOMAIN c : i \in DOMAIN a \/ \E j \in DOMAIN b : i = Len(a) + j

\* Concatenation, by places.
LEMMA Joined ==
  ASSUME NEW S, NEW a \in Seq(S), NEW b \in Seq(S)
  PROVE  a \o b \in Seq(S) /\ Join(a, b, a \o b)
<1>1. /\ a \o b \in Seq(S) /\ Len(a \o b) = Len(a) + Len(b) /\ Len(a) \in Nat /\ Len(b) \in Nat
      /\ DOMAIN a = 1..Len(a) /\ DOMAIN b = 1..Len(b) /\ DOMAIN (a \o b) = 1..(Len(a) + Len(b))
      /\ \A i \in 1..(Len(a) + Len(b)) : (a \o b)[i] = IF i <= Len(a) THEN a[i] ELSE b[i - Len(a)]
  OBVIOUS
<1>2. ASSUME NEW j \in DOMAIN b
      PROVE  Len(a) + j \in 1..(Len(a) + Len(b)) /\ ~(Len(a) + j <= Len(a)) /\ (Len(a) + j) - Len(a) = j
  BY <1>1
<1>3. ASSUME NEW i \in DOMAIN (a \o b), i \notin DOMAIN a
      PROVE  \E j \in DOMAIN b : i = Len(a) + j
  <2>1. i - Len(a) \in DOMAIN b /\ i = Len(a) + (i - Len(a))
    BY <1>1, <1>3
  <2> QED
    BY <2>1
<1>4. \A i \in DOMAIN a : i \in DOMAIN (a \o b) /\ (a \o b)[i] = a[i]
  BY <1>1
<1>5. \A j \in DOMAIN b : Len(a) + j \in DOMAIN (a \o b) /\ (a \o b)[Len(a) + j] = b[j]
  BY <1>1, <1>2
<1> QED
  BY <1>1, <1>3, <1>4, <1>5 DEF Join

\* A stitcher that has sent something.
Stamps(s, r, n, q) == r = [s EXCEPT !.seq = n, !.sent = q]

\* A stitcher that has only sent something.
LEMMA Restamped ==
  ASSUME NEW s \in Stitchers, NEW n \in Nat, NEW q \in Seq(Sent), NEW r,
         Stamps(s, r, n, q)
  PROVE  r.seq = n /\ r.sent = q /\ SameButSent(s, r)
<1>0. /\ s.seq \in Nat /\ s.offset \in Nat /\ s.buf \in Seq(Buffers) /\ s.pending \in Seq(Channels)
      /\ s.client \in BOOLEAN /\ s.placed \in SUBSET [oi : Nat, item : PlainItems] /\ s.sent \in Seq(Sent)
  BY DEF Stitchers
<1>1. s = [seq |-> s.seq, offset |-> s.offset, buf |-> s.buf, pending |-> s.pending,
           client |-> s.client, placed |-> s.placed, sent |-> s.sent]
  BY DEF Stitchers
<1>2. r = [seq |-> n, offset |-> s.offset, buf |-> s.buf, pending |-> s.pending,
           client |-> s.client, placed |-> s.placed, sent |-> q]
  BY <1>1 DEF Stamps
<1>3. r \in Stitchers
  BY <1>0, <1>2 DEF Stitchers
<1> QED
  BY <1>2, <1>3 DEF SameButSent

\* Send tells what it is given, at one place and under one id, numbers it and changes nothing else.
LEMMA SendSends ==
  ASSUME NEW s \in Stitchers, NEW types \in Seq(SentTypes), NEW oi \in Nat, NEW id \in Ids
  PROVE  SameButSent(s, Send(s, types, oi, id)) /\ Sends(s, Send(s, types, oi, id), Range(types), oi, id)
<1> DEFINE r == Send(s, types, oi, id)
           new == [i \in DOMAIN types |-> [type |-> types[i], seq |-> s.seq + i - 1, oi |-> oi, id |-> id]]
<1>s. s.sent \in Seq(Sent) /\ s.seq \in Nat
  BY DEF Stitchers
<1>t. Len(types) \in Nat /\ DOMAIN types = 1..Len(types) /\ \A i \in DOMAIN types : types[i] \in SentTypes
  OBVIOUS
<1>n. /\ new \in Seq(Sent) /\ Len(new) = Len(types)
      /\ \A i \in 1..Len(types) : new[i] = [type |-> types[i], seq |-> s.seq + i - 1, oi |-> oi, id |-> id]
  <2>1. \A i \in 1..Len(types) : [type |-> types[i], seq |-> s.seq + i - 1, oi |-> oi, id |-> id] \in Sent
    BY <1>s, <1>t DEF Sent
  <2>2. new = [i \in 1..Len(types) |-> [type |-> types[i], seq |-> s.seq + i - 1, oi |-> oi, id |-> id]]
    BY <1>t
  <2> HIDE DEF new
  <2> QED
    BY <2>1, <2>2, <1>t
<1>r. Stamps(s, r, s.seq + Len(types), s.sent \o new)
  BY DEF Send, Stamps
<1> HIDE DEF r, new
<1>c. s.sent \o new \in Seq(Sent) /\ Join(s.sent, new, s.sent \o new)
  BY <1>s, <1>n, Joined
<1>f. r \in Stitchers /\ r.seq = s.seq + Len(types) /\ r.sent = s.sent \o new /\ SameButSent(s, r)
  <2>1. s.seq + Len(types) \in Nat
    BY <1>s, <1>t
  <2>2. r.seq = s.seq + Len(types) /\ r.sent = s.sent \o new /\ SameButSent(s, r)
    BY <2>1, <1>r, <1>c, Restamped
  <2> QED
    BY <2>2 DEF SameButSent
<1> DEFINE all == r.sent
<1>j. Join(s.sent, new, all)
  BY <1>c, <1>f
<1>a. /\ DOMAIN all = 1..(Len(s.sent) + Len(types)) /\ Len(all) = Len(s.sent) + Len(types)
      /\ Len(s.sent) \in Nat /\ DOMAIN s.sent = 1..Len(s.sent)
      /\ \A i \in DOMAIN s.sent : all[i] = s.sent[i]
      /\ \A i \in 1..Len(types) : all[Len(s.sent) + i] = new[i]
  BY <1>j, <1>n DEF Join
<1>g. \A i \in 1..Len(types) :
        /\ all[Len(s.sent) + i].type = types[i] /\ all[Len(s.sent) + i].seq = s.seq + i - 1
        /\ all[Len(s.sent) + i].oi = oi /\ all[Len(s.sent) + i].id = id
  <2> SUFFICES ASSUME NEW i \in 1..Len(types)
               PROVE  LET x == all[Len(s.sent) + i] IN
                      x.type = types[i] /\ x.seq = s.seq + i - 1 /\ x.oi = oi /\ x.id = id
    OBVIOUS
  <2>1. all[Len(s.sent) + i] = [type |-> types[i], seq |-> s.seq + i - 1, oi |-> oi, id |-> id]
    BY <1>a, <1>n
  <2> QED
    BY <2>1
<1>b. \A i \in DOMAIN all : i \in DOMAIN s.sent \/ \E j \in 1..Len(types) : i = Len(s.sent) + j
  <2>1. DOMAIN new = 1..Len(types)
    BY <1>j, <1>n DEF Join
  <2> QED
    BY <2>1, <1>j DEF Join
<1>d. \A j \in 1..Len(types) : Len(s.sent) + j \in DOMAIN all
  BY <1>a, <1>t
<1>e. \A i \in DOMAIN s.sent : i \in DOMAIN all
  BY <1>a, <1>t
<1> HIDE DEF all
<1>1. NumberedBy(s) => NumberedBy(r)
  <2> SUFFICES ASSUME NumberedBy(s) PROVE NumberedBy(r)
    OBVIOUS
  <2>1. \A i \in DOMAIN all : all[i].seq = i - 1
    <3> SUFFICES ASSUME NEW i \in DOMAIN all PROVE all[i].seq = i - 1
      OBVIOUS
    <3>1. CASE i \in DOMAIN s.sent
      BY <3>1, <1>a DEF NumberedBy
    <3>2. CASE \E j \in 1..Len(types) : i = Len(s.sent) + j
      <4> PICK j \in 1..Len(types) : i = Len(s.sent) + j
        BY <3>2
      <4>1. all[i].seq = s.seq + j - 1 /\ s.seq = Len(s.sent) /\ j \in Nat
        BY <1>g, <1>t DEF NumberedBy
      <4> QED
        BY <4>1, <1>s
    <3> QED
      BY <3>1, <3>2, <1>b
  <2> QED
    BY <2>1, <1>a, <1>f DEF NumberedBy, all
<1>2. Quiet(s) /\ Range(types) \cap Terminal = {} => Quiet(r)
  <2> SUFFICES ASSUME Quiet(s), Range(types) \cap Terminal = {}, NEW i \in DOMAIN all
               PROVE  all[i].type \notin Terminal
    BY DEF Quiet, all
  <2>1. CASE i \in DOMAIN s.sent
    BY <2>1, <1>a DEF Quiet
  <2>2. CASE \E j \in 1..Len(types) : i = Len(s.sent) + j
    BY <2>2, <1>g, <1>t DEF Range
  <2> QED
    BY <2>1, <2>2, <1>b
<1>3. ASSUME NEW type
      PROVE  ToldBy(r, type) = ToldBy(s, type) \cup (IF type \in Range(types) THEN {<<oi, id>>} ELSE {})
  <2>1. ASSUME NEW x \in ToldBy(r, type)
        PROVE  x \in ToldBy(s, type) \cup (IF type \in Range(types) THEN {<<oi, id>>} ELSE {})
    <3> PICK i \in DOMAIN all : all[i].type = type /\ x = <<all[i].oi, all[i].id>>
      BY <2>1 DEF ToldBy, all
    <3>1. CASE i \in DOMAIN s.sent
      BY <3>1, <1>a DEF ToldBy
    <3>2. CASE \E j \in 1..Len(types) : i = Len(s.sent) + j
      BY <3>2, <1>g, <1>t DEF Range
    <3> QED
      BY <3>1, <3>2, <1>b
  <2>2. ASSUME NEW x \in ToldBy(s, type) PROVE x \in ToldBy(r, type)
    <3> PICK i \in DOMAIN s.sent : s.sent[i].type = type /\ x = <<s.sent[i].oi, s.sent[i].id>>
      BY <2>2 DEF ToldBy
    <3> QED
      BY <1>a, <1>e DEF ToldBy, all
  <2>3. ASSUME type \in Range(types) PROVE <<oi, id>> \in ToldBy(r, type)
    <3> PICK j \in 1..Len(types) : types[j] = type
      BY <2>3, <1>t DEF Range
    <3>1. all[Len(s.sent) + j].type = type /\ all[Len(s.sent) + j].oi = oi /\ all[Len(s.sent) + j].id = id
      BY <1>g
    <3> QED
      BY <3>1, <1>d DEF ToldBy, all
  <2> QED
    BY <2>1, <2>2, <2>3
<1> QED
  BY <1>1, <1>2, <1>3, <1>f DEF SameButSent, Sends, r

\* An envelope tells of no item; a terminal one is the last.
LEMMA EnvelopeSends ==
  ASSUME NEW s \in Stitchers, NEW type \in SentTypes \ {"added", "done"}
  PROVE  LET r == Envelope(s, type) IN
         /\ SameButSent(s, r)
         /\ NumberedBy(s) => NumberedBy(r)
         /\ Quiet(s) /\ type \notin Terminal => Quiet(r)
         /\ Quiet(s) => \A i \in DOMAIN r.sent : r.sent[i].type \in Terminal => i = Len(r.sent)
         /\ ToldBy(r, "added") = ToldBy(s, "added") /\ ToldBy(r, "done") = ToldBy(s, "done")
<1> DEFINE e == [type |-> type, seq |-> s.seq]
           r == Envelope(s, type)
<1>s. s.sent \in Seq(Sent) /\ s.seq \in Nat
  BY DEF Stitchers
<1>e. e \in Sent /\ e.type = type /\ e.seq = s.seq
  BY <1>s DEF Sent
<1>r. Stamps(s, r, s.seq + 1, Append(s.sent, e))
  BY DEF Envelope, Stamps
<1> HIDE DEF e, r
<1>c. /\ Append(s.sent, e) \in Seq(Sent) /\ Len(Append(s.sent, e)) = Len(s.sent) + 1 /\ Len(s.sent) \in Nat
      /\ \A i \in 1..Len(s.sent) : Append(s.sent, e)[i] = s.sent[i]
      /\ Append(s.sent, e)[Len(s.sent) + 1] = e
      /\ DOMAIN s.sent = 1..Len(s.sent) /\ DOMAIN Append(s.sent, e) = 1..(Len(s.sent) + 1)
  BY <1>s, <1>e
<1>f. r.seq = s.seq + 1 /\ r.sent = Append(s.sent, e) /\ SameButSent(s, r)
  <2>1. s.seq + 1 \in Nat
    BY <1>s
  <2> QED
    BY <2>1, <1>r, <1>c, Restamped
<1>a. /\ DOMAIN r.sent = 1..(Len(s.sent) + 1) /\ Len(r.sent) = Len(s.sent) + 1
      /\ \A i \in 1..Len(s.sent) : r.sent[i] = s.sent[i]
      /\ r.sent[Len(s.sent) + 1].type = type /\ r.sent[Len(s.sent) + 1].seq = s.seq
  BY <1>c, <1>f, <1>e
<1>b. \A i \in DOMAIN r.sent : i \in DOMAIN s.sent \/ i = Len(s.sent) + 1
  BY <1>a, <1>c
<1>d. \A i \in DOMAIN s.sent : i \in DOMAIN r.sent /\ r.sent[i] = s.sent[i]
  BY <1>a, <1>c
<1>1. NumberedBy(s) => NumberedBy(r)
  BY <1>a, <1>b, <1>c, <1>d, <1>f DEF NumberedBy
<1>2. Quiet(s) => \A i \in DOMAIN r.sent : r.sent[i].type \in Terminal => i = Len(r.sent)
  BY <1>a, <1>b, <1>d DEF Quiet
<1>3. Quiet(s) /\ type \notin Terminal => Quiet(r)
  BY <1>a, <1>b, <1>d DEF Quiet
<1>4. ASSUME NEW t \in {"added", "done"} PROVE ToldBy(r, t) = ToldBy(s, t)
  <2>1. {j \in DOMAIN r.sent : r.sent[j].type = t} = {j \in DOMAIN s.sent : s.sent[j].type = t}
    BY <1>a, <1>b, <1>d
  <2> QED
    BY <2>1, <1>d DEF ToldBy
<1> QED
  BY <1>1, <1>2, <1>3, <1>4, <1>f DEF SameButSent, r

\* A sequence with one more element.
Extends(a, x, c, S) ==
  /\ c \in Seq(S) /\ c # <<>> /\ Len(a) \in Nat /\ DOMAIN a = 1..Len(a)
  /\ Len(c) = Len(a) + 1 /\ DOMAIN c = 1..(Len(a) + 1)
  /\ \A i \in DOMAIN a : i \in DOMAIN c /\ c[i] = a[i]
  /\ c[Len(a) + 1] = x /\ Len(a) + 1 \in DOMAIN c
  /\ Len(a) + 1 \notin DOMAIN a
  /\ \A i \in DOMAIN c : i \in DOMAIN a \/ i = Len(a) + 1
  /\ a # <<>> => 1 \in DOMAIN a

\* Append, by places.
LEMMA Appended ==
  ASSUME NEW S, NEW a \in Seq(S), NEW x \in S
  PROVE  Extends(a, x, Append(a, x), S)
<1> DEFINE c == Append(a, x)
<1>1. /\ c \in Seq(S) /\ Len(c) = Len(a) + 1 /\ c[Len(a) + 1] = x
      /\ \A i \in 1..Len(a) : c[i] = a[i]
  BY AppendProperties
<1>2. Len(a) \in Nat /\ DOMAIN a = 1..Len(a) /\ (a # <<>> => Len(a) # 0)
  OBVIOUS
<1> HIDE DEF c
<1>3. DOMAIN c = 1..(Len(a) + 1) /\ c # <<>>
  BY <1>1, <1>2
<1>4. \A n \in Nat :
        /\ n + 1 \in 1..(n + 1) /\ n + 1 \notin 1..n
        /\ \A i \in 1..(n + 1) : i \in 1..n \/ i = n + 1
        /\ \A i \in 1..n : i \in 1..(n + 1)
        /\ n # 0 => 1 \in 1..n
  OBVIOUS
<1>5. c \in Seq(S) /\ c # <<>> /\ Len(a) \in Nat /\ DOMAIN a = 1..Len(a) /\ Len(c) = Len(a) + 1
  BY <1>1, <1>2, <1>3
<1>6. /\ \A i \in DOMAIN a : i \in DOMAIN c /\ c[i] = a[i]
      /\ c[Len(a) + 1] = x /\ Len(a) + 1 \in DOMAIN c /\ Len(a) + 1 \notin DOMAIN a
      /\ \A i \in DOMAIN c : i \in DOMAIN a \/ i = Len(a) + 1
      /\ a # <<>> => 1 \in DOMAIN a
  BY <1>1, <1>2, <1>3, <1>4, Zenon
<1> QED
  BY <1>3, <1>5, <1>6 DEF c, Extends

ReplacesLast(a, x, d) == [Append(a, x) EXCEPT ![Len(a) + 1] = d] = Append(a, d)

\* What was appended can be replaced.
LEMMA Replaced ==
  ASSUME NEW S, NEW a \in Seq(S), NEW x \in S, NEW d \in S
  PROVE  ReplacesLast(a, x, d)
<1> DEFINE c == Append(a, x)
           e == Append(a, d)
           n == Len(a) + 1
<1>1. /\ c \in Seq(S) /\ e \in Seq(S) /\ DOMAIN c = 1..n /\ DOMAIN e = 1..n /\ n \in 1..n
      /\ \A i \in 1..n : i # n => c[i] = e[i]
      /\ e[n] = d
  <2>1. /\ c \in Seq(S) /\ DOMAIN c = 1..n /\ n \in DOMAIN c
        /\ \A i \in DOMAIN a : c[i] = a[i]
        /\ \A i \in DOMAIN c : i \in DOMAIN a \/ i = n
    BY Appended DEF Extends
  <2>2. e \in Seq(S) /\ DOMAIN e = 1..n /\ e[n] = d /\ \A i \in DOMAIN a : e[i] = a[i]
    BY Appended DEF Extends
  <2> HIDE DEF c, e, n
  <2> QED
    BY <2>1, <2>2
<1> HIDE DEF c, e, n
<1>2. e \in [1..n -> S] /\ c \in [1..n -> S]
  BY <1>1
<1>3. [c EXCEPT ![n] = d] = e
  BY <1>1, <1>2
<1> QED
  BY <1>3 DEF c, e, n, ReplacesLast

\* Only what was sent counts for what was told.
LEMMA SendsNothing ==
  ASSUME NEW s, NEW r, r.seq = s.seq, r.sent = s.sent, NEW oi, NEW id
  PROVE  Sends(s, r, {}, oi, id) /\ (\A t : ToldBy(r, t) = ToldBy(s, t))
         /\ (NumberedBy(s) => NumberedBy(r)) /\ (Quiet(s) => Quiet(r))
<1>1. /\ \A t : ToldBy(r, t) = ToldBy(s, t)
      /\ NumberedBy(s) => NumberedBy(r)
      /\ Quiet(s) => Quiet(r)
  BY DEF ToldBy, NumberedBy, Quiet
<1> QED
  BY <1>1 DEF Sends

\* Two groups of events about one item are one group.
LEMMA SendsTwice ==
  ASSUME NEW s, NEW m, NEW r, NEW S, NEW T, NEW oi, NEW id,
         Sends(s, m, S, oi, id), Sends(m, r, T, oi, id)
  PROVE  Sends(s, r, S \cup T, oi, id)
<1>1. \A t : ToldBy(r, t) = ToldBy(s, t) \cup (IF t \in S \cup T THEN {<<oi, id>>} ELSE {})
  BY DEF Sends
<1>2. (S \cup T) \cap Terminal = {} => S \cap Terminal = {} /\ T \cap Terminal = {}
  OBVIOUS
<1> QED
  BY <1>1, <1>2 DEF Sends

\* A stitcher with other calls held back, or pending.
Rebuffers(s, r, q) == r = [s EXCEPT !.buf = q]
Pends(s, r, q) == r = [s EXCEPT !.pending = q]

\* A stitcher that has only held something back.
LEMMA Rebuffered ==
  ASSUME NEW s \in Stitchers, NEW q \in Seq(Buffers), NEW r, Rebuffers(s, r, q)
  PROVE  /\ r \in Stitchers /\ r.buf = q /\ r.seq = s.seq /\ r.sent = s.sent
         /\ r.offset = s.offset /\ r.pending = s.pending /\ r.client = s.client /\ r.placed = s.placed
<1>0. /\ s.seq \in Nat /\ s.offset \in Nat /\ s.buf \in Seq(Buffers) /\ s.pending \in Seq(Channels)
      /\ s.client \in BOOLEAN /\ s.placed \in SUBSET [oi : Nat, item : PlainItems] /\ s.sent \in Seq(Sent)
  BY DEF Stitchers
<1>1. s = [seq |-> s.seq, offset |-> s.offset, buf |-> s.buf, pending |-> s.pending,
           client |-> s.client, placed |-> s.placed, sent |-> s.sent]
  BY DEF Stitchers
<1>2. r = [seq |-> s.seq, offset |-> s.offset, buf |-> q, pending |-> s.pending,
           client |-> s.client, placed |-> s.placed, sent |-> s.sent]
  BY <1>1 DEF Rebuffers
<1>3. r \in Stitchers
  BY <1>0, <1>2 DEF Stitchers
<1> QED
  BY <1>2, <1>3

PendsOnly(s, r, q) ==
  /\ r \in Stitchers /\ r.buf = s.buf /\ r.seq = s.seq /\ r.sent = s.sent
  /\ r.offset = s.offset /\ r.pending = q /\ r.client = s.client /\ r.placed = s.placed

\* A stitcher that has only put off a call.
LEMMA PendedOne ==
  ASSUME NEW s \in Stitchers, NEW q \in Seq(Channels), NEW r, Pends(s, r, q)
  PROVE  PendsOnly(s, r, q)
<1>0. /\ s.seq \in Nat /\ s.offset \in Nat /\ s.buf \in Seq(Buffers) /\ s.pending \in Seq(Channels)
      /\ s.client \in BOOLEAN /\ s.placed \in SUBSET [oi : Nat, item : PlainItems] /\ s.sent \in Seq(Sent)
  BY DEF Stitchers
<1>1. s = [seq |-> s.seq, offset |-> s.offset, buf |-> s.buf, pending |-> s.pending,
           client |-> s.client, placed |-> s.placed, sent |-> s.sent]
  BY DEF Stitchers
<1>2. r = [seq |-> s.seq, offset |-> s.offset, buf |-> s.buf, pending |-> q,
           client |-> s.client, placed |-> s.placed, sent |-> s.sent]
  BY <1>1 DEF Pends
<1>3. r \in Stitchers
  BY <1>0, <1>2 DEF Stitchers
<1> QED
  BY <1>2, <1>3 DEF PendsOnly

Holds(o, b, raw) == b = [o EXCEPT !.raw = raw]

\* A buffer with another list of events.
LEMMA RawReplaced ==
  ASSUME NEW o \in Buffers, NEW raw, NEW b, Holds(o, b, raw)
  PROVE  b = [class |-> o.class, oi |-> o.oi, raw |-> raw]
BY DEF Buffers, Holds

\* _classify: a call of the loop is one of a tool it knows.
LEMMA ClassIs ==
  ASSUME NEW name
  PROVE  /\ Class(name) \in {"client", "mcp", "mcp_approval"}
         /\ Class(name) = "mcp" => name \in tools /\ name \notin Guarded
         /\ Class(name) # "client" => name \in tools
BY DEF Class

\* An id of an item of the turn.
LEMMA IdType ==
  ASSUME made \in Nat, NEW t \in Nat, NEW a \in Marks, NEW n \in Nat
  PROVE  Id(t, <<a, n>>) \in Ids
BY DEF Id, Ids

\* The types of events.
LEMMA EventTypes ==
  ASSUME NEW raw \in Seq(ItemEvents)
  PROVE  /\ \A i \in DOMAIN raw : raw[i] \in ItemEvents /\ raw[i].type \in ItemTypes
         /\ [i \in DOMAIN raw |-> raw[i].type] \in Seq(SentTypes)
<1>1. DOMAIN raw = 1..Len(raw) /\ Len(raw) \in Nat /\ \A i \in DOMAIN raw : raw[i] \in ItemEvents
  OBVIOUS
<1>2. \A e \in ItemEvents : e.type \in ItemTypes
  BY DEF ItemEvents
<1>3. \A t \in ItemTypes : t \in SentTypes
  BY DEF SentTypes
<1> DEFINE f == [i \in DOMAIN raw |-> raw[i].type]
<1>4. f \in [1..Len(raw) -> SentTypes]
  BY <1>1, <1>2, <1>3
<1>5. f \in Seq(SentTypes)
  <2> HIDE DEF f
  <2> QED
    BY <1>1, <1>4
<1> QED
  BY <1>1, <1>2, <1>5

FlushTypes(b, name) == IF Class(name) = "mcp_approval" THEN {} ELSE {b.raw[i].type : i \in DOMAIN b.raw}
Flushed(b, name, oi) == [class |-> Class(name), oi |-> oi, raw |-> <<>>]

Flushes(s, r, ch, name, oi) ==
  LET old == s.buf[ch[2] + 1]
      b == Flushed(old, name, oi + s.offset)
  IN /\ r \in Stitchers /\ b \in Buffers /\ r.buf = [s.buf EXCEPT ![ch[2] + 1] = b]
     /\ r.offset = s.offset /\ r.pending = s.pending /\ r.client = s.client /\ r.placed = s.placed
     /\ Sends(s, r, FlushTypes(old, name), oi + s.offset, Id(turn, ch))
     /\ FlushTypes(old, name) \subseteq ItemTypes \ {"done"}
     /\ "added" \in FlushTypes(old, name) <=> Class(name) # "mcp_approval"

\* _flush: what was held back is sent at the place of its first event, or dropped.
LEMMA FlushIs ==
  ASSUME NEW s \in Stitchers, NEW ch, NEW name, ch[2] + 1 \in DOMAIN s.buf, NEW oi \in Nat,
         s.buf[ch[2] + 1].class = "unknown", RawFits(s.buf[ch[2] + 1], oi), Id(turn, ch) \in Ids
  PROVE  Flushes(s, Flush(s, ch, name), ch, name, oi)
<1> DEFINE k == ch[2] + 1
           old == s.buf[k]
           raw == old.raw
           at2 == oi + s.offset
           b == Flushed(old, name, at2)
           q == [s.buf EXCEPT ![k] = b]
           told == [s EXCEPT !.buf = q]
           types == [i \in DOMAIN raw |-> raw[i].type]
           r == Flush(s, ch, name)
<1>0. s.buf \in Seq(Buffers) /\ s.offset \in Nat /\ old \in Buffers
  BY DEF Stitchers
<1>1. /\ raw \in Seq(ItemEvents) /\ raw # <<>> /\ raw[1].oi = oi /\ raw[1].type = "added"
      /\ \A i \in DOMAIN raw : raw[i].type # "done"
  BY <1>0 DEF Buffers, RawFits
<1>2. b \in Buffers /\ at2 \in Nat
  BY <1>0, ClassIs DEF Buffers, Flushed
<1>3. q \in Seq(Buffers)
  BY <1>0, <1>2
<1>4. Rebuffers(s, told, q)
  BY DEF Rebuffers
<1>5. \A i \in DOMAIN raw : raw[i] \in ItemEvents /\ raw[i].type \in ItemTypes
  BY <1>1, EventTypes
<1>6. types \in Seq(SentTypes) /\ Range(types) = {raw[i].type : i \in DOMAIN raw}
  <2>1. types \in Seq(SentTypes)
    BY <1>1, EventTypes
  <2> QED
    BY <2>1 DEF Range
<1>7. 1 \in DOMAIN raw
  BY <1>1
<1>8. /\ r = IF Class(name) = "mcp_approval" THEN told ELSE Send(told, types, at2, Id(turn, ch))
  BY <1>1 DEF Flush, Buffered, Flushed
<1> DEFINE T == FlushTypes(old, name)
<1>9. /\ T = IF Class(name) = "mcp_approval" THEN {} ELSE Range(types)
      /\ T \subseteq ItemTypes \ {"done"}
      /\ "added" \in T <=> Class(name) # "mcp_approval"
  BY <1>1, <1>5, <1>6, <1>7 DEF FlushTypes
<1> HIDE DEF told, types, b, q, r, T, old, raw
<1>10. /\ told \in Stitchers /\ told.buf = q /\ told.seq = s.seq /\ told.sent = s.sent
       /\ told.offset = s.offset /\ told.pending = s.pending /\ told.client = s.client
       /\ told.placed = s.placed
  BY <1>3, <1>4, Rebuffered
<1>11. Sends(s, told, {}, at2, Id(turn, ch))
  BY <1>10, SendsNothing
<1>12. CASE Class(name) = "mcp_approval"
  BY <1>12, <1>2, <1>8, <1>9, <1>10, <1>11 DEF b, q, r, T, old, k, Flushes
<1>13. CASE Class(name) # "mcp_approval"
  <2>1. r = Send(told, types, at2, Id(turn, ch))
    BY <1>13, <1>8
  <2>2. SameButSent(told, r) /\ Sends(told, r, Range(types), at2, Id(turn, ch))
    BY <2>1, <1>2, <1>6, <1>10, SendSends
  <2>3. Sends(s, r, {} \cup Range(types), at2, Id(turn, ch))
    BY <2>2, <1>11, SendsTwice
  <2>4. {} \cup Range(types) = T
    BY <1>9, <1>13
  <2>5. Sends(s, r, T, at2, Id(turn, ch))
    BY <2>3, <2>4
  <2> QED
    BY <2>2, <2>5, <1>2, <1>9, <1>10 DEF b, q, r, T, old, k, SameButSent, Flushes
<1> QED
  BY <1>12, <1>13

\* What an event of a call does to the stitcher: b is what is held back of the call from now on,
\* T the types of the events that are sent.
OldClass(s, e) == IF e.type = "added" THEN "unknown" ELSE s.buf[e.ch[2] + 1].class
AbsorbsTool(s, r, e, b, T) ==
  /\ r \in Stitchers /\ r.offset = s.offset /\ r.client = s.client /\ r.placed = s.placed
  /\ b \in Buffers
  /\ r.buf = IF e.type = "added" THEN Append(s.buf, b) ELSE [s.buf EXCEPT ![e.ch[2] + 1] = b]
  /\ b.class = IF OldClass(s, e) = "unknown" /\ (e.type = "done" \/ (e.type = "added" /\ e.name # NoName))
               THEN Class(e.name) ELSE OldClass(s, e)
  /\ OldClass(s, e) = "unknown" /\ b.class # "unknown" => b.oi = e.oi + s.offset
  /\ OldClass(s, e) # "unknown" => b = s.buf[e.ch[2] + 1]
  /\ RawFits(b, e.oi)
  /\ r.pending = IF e.type = "done" /\ b.class # "client" THEN Append(s.pending, e.ch) ELSE s.pending
  /\ Sends(s, r, T, e.oi + s.offset, Id(turn, e.ch)) /\ T \subseteq ItemTypes
  /\ "added" \in T <=> OldClass(s, e) = "unknown" /\ b.class \in {"client", "mcp"}
  /\ "done" \in T <=> e.type = "done" /\ b.class = "client"

\* An event that passes through.
LEMMA ForwardIs ==
  ASSUME NEW s \in Stitchers, NEW e \in ItemEvents, Id(turn, e.ch) \in Ids
  PROVE  /\ SameButSent(s, Forward(s, e))
         /\ Sends(s, Forward(s, e), {e.type}, e.oi + s.offset, Id(turn, e.ch))
<1>1. e.type \in ItemTypes /\ e.oi \in Nat /\ s.offset \in Nat /\ e.type \in SentTypes
  BY DEF ItemEvents, Stitchers, SentTypes
<1>2. <<e.type>> \in Seq(SentTypes) /\ Range(<<e.type>>) = {e.type} /\ e.oi + s.offset \in Nat
  BY <1>1 DEF Range
<1> QED
  BY <1>2, SendSends DEF Forward

\* The first event of a call.
LEMMA ToolOpened ==
  ASSUME NEW s \in Stitchers, NEW e \in ItemEvents, IsTool(e.ch), e.ch[2] = Len(s.buf),
         Id(turn, e.ch) \in Ids, e.type = "added"
  PROVE  \E b, T : AbsorbsTool(s, OnToolEvent(s, e), e, b, T)
<1> DEFINE k == e.ch[2] + 1
           c == [class |-> "unknown", oi |-> 0, raw |-> <<e>>]
           q == Append(s.buf, c)
           opened == [s EXCEPT !.buf = q]
           r == OnToolEvent(s, e)
<1>0. s.buf \in Seq(Buffers) /\ s.offset \in Nat /\ e.oi \in Nat /\ s.pending \in Seq(Channels)
  BY DEF Stitchers, ItemEvents
<1>1. c \in Buffers /\ c.class = "unknown" /\ RawFits(c, e.oi)
  BY DEF Buffers, RawFits
<1>2. r = IF e.name = NoName THEN opened ELSE Flush(opened, e.ch, e.name)
  BY DEF OnToolEvent
<1>3. Rebuffers(s, opened, q)
  BY DEF Rebuffers
<1>4. q \in Seq(Buffers) /\ k \in DOMAIN q /\ q[k] = c
  <2>1. Extends(s.buf, c, q, Buffers)
    BY <1>0, <1>1, Appended
  <2> QED
    BY <2>1 DEF Extends
<1>9. \A d \in Buffers : [q EXCEPT ![k] = d] = Append(s.buf, d)
  <2>1. k = Len(s.buf) + 1 /\ c \in Buffers /\ s.buf \in Seq(Buffers)
    BY <1>0, <1>1
  <2> HIDE DEF k, c
  <2>2. ASSUME NEW d \in Buffers PROVE ReplacesLast(s.buf, c, d)
    BY <2>1, Replaced
  <2> QED
    BY <2>1, <2>2 DEF ReplacesLast
<1> HIDE DEF c, q, opened, r
<1>5. /\ opened \in Stitchers /\ opened.buf = q /\ opened.seq = s.seq /\ opened.sent = s.sent
      /\ opened.offset = s.offset /\ opened.pending = s.pending /\ opened.client = s.client
      /\ opened.placed = s.placed
  BY <1>3, <1>4, Rebuffered
<1>6. Sends(s, opened, {}, e.oi + s.offset, Id(turn, e.ch))
  BY <1>5, SendsNothing
<1>7. CASE e.name = NoName
  <2>1. AbsorbsTool(s, opened, e, c, {})
    <3>1. r = opened /\ OldClass(s, e) = "unknown"
      BY <1>7, <1>2 DEF OldClass
    <3> QED
      BY <3>1, <1>1, <1>5, <1>6, <1>7 DEF AbsorbsTool, q
  <2> QED
    BY <2>1, <1>7, <1>2 DEF r
<1>8. CASE e.name # NoName
  <2> DEFINE b == Flushed(q[k], e.name, e.oi + s.offset)
             T == FlushTypes(q[k], e.name)
  <2>1. r = Flush(opened, e.ch, e.name)
    BY <1>8, <1>2
  <2>2. /\ r \in Stitchers /\ b \in Buffers
        /\ r.buf = [q EXCEPT ![k] = b]
        /\ r.offset = s.offset /\ r.pending = s.pending /\ r.client = s.client /\ r.placed = s.placed
        /\ Sends(opened, r, T, e.oi + s.offset, Id(turn, e.ch))
        /\ T \subseteq ItemTypes \ {"done"}
        /\ "added" \in T <=> Class(e.name) # "mcp_approval"
    <3>1. opened.buf[e.ch[2] + 1].class = "unknown" /\ RawFits(opened.buf[e.ch[2] + 1], e.oi)
          /\ e.ch[2] + 1 \in DOMAIN opened.buf
      BY <1>1, <1>4, <1>5
    <3>2. Flushes(opened, r, e.ch, e.name, e.oi)
      BY <2>1, <3>1, <1>0, <1>5, FlushIs
    <3> QED
      BY <3>2, <1>5 DEF Flushes
  <2>3. b.class = Class(e.name) /\ b.oi = e.oi + s.offset /\ b.class \in {"client", "mcp", "mcp_approval"}
    BY ClassIs DEF Flushed
  <2> HIDE DEF b, T
  <2>4. Sends(s, r, {} \cup T, e.oi + s.offset, Id(turn, e.ch))
    BY <2>2, <1>6, SendsTwice
  <2>5. {} \cup T = T
    OBVIOUS
  <2>6. OldClass(s, e) = "unknown" /\ RawFits(b, e.oi)
    BY <2>3 DEF OldClass, RawFits
  <2>7. Sends(s, r, T, e.oi + s.offset, Id(turn, e.ch))
    BY <2>4, <2>5
  <2>8. r.buf = Append(s.buf, b)
    BY <2>2, <1>9
  <2>9. AbsorbsTool(s, r, e, b, T)
    BY <2>2, <2>3, <2>6, <2>7, <2>8, <1>8 DEF AbsorbsTool
  <2> QED
    BY <2>9 DEF r
<1> QED
  BY <1>7, <1>8

\* A later event of a call.
LEMMA ToolHeld ==
  ASSUME NEW s \in Stitchers, NEW e \in ItemEvents, IsTool(e.ch), e.ch[2] + 1 \in DOMAIN s.buf,
         Id(turn, e.ch) \in Ids, e.type \notin {"added", "done"}, RawFits(s.buf[e.ch[2] + 1], e.oi)
  PROVE  \E b, T : AbsorbsTool(s, OnToolEvent(s, e), e, b, T)
<1> DEFINE k == e.ch[2] + 1
           old == s.buf[k]
           r == OnToolEvent(s, e)
<1>0. /\ s.buf \in Seq(Buffers) /\ s.offset \in Nat /\ e.oi \in Nat /\ s.pending \in Seq(Channels)
      /\ old \in Buffers /\ e.type \in ItemTypes /\ k \in Nat
  BY DEF Stitchers, ItemEvents
<1>o. OldClass(s, e) = old.class
  BY DEF OldClass
<1>e. [s.buf EXCEPT ![k] = old] = s.buf
  BY <1>0
<1>1. CASE old.class = "unknown"
  <2> DEFINE b == [old EXCEPT !.raw = Append(old.raw, e)]
             q == [s.buf EXCEPT ![k] = b]
             held == [s EXCEPT !.buf = q]
  <2>1. r = held
    BY <1>1 DEF OnToolEvent, Buffered
  <2>2. old.raw \in Seq(ItemEvents) /\ old = [class |-> old.class, oi |-> old.oi, raw |-> old.raw] /\ old.oi \in Nat
    BY <1>0 DEF Buffers
  <2>3. /\ Append(old.raw, e) \in Seq(ItemEvents) /\ Append(old.raw, e) # <<>>
        /\ Append(old.raw, e)[1] = old.raw[1]
        /\ \A i \in DOMAIN Append(old.raw, e) : Append(old.raw, e)[i].type # "done"
    <3>1. old.raw # <<>> /\ \A i \in DOMAIN old.raw : old.raw[i].type # "done"
      BY <1>1 DEF RawFits
    <3>2. /\ Append(old.raw, e) \in Seq(ItemEvents) /\ Append(old.raw, e) # <<>>
          /\ old.raw # <<>> => 1 \in DOMAIN old.raw
          /\ \A i \in DOMAIN old.raw : Append(old.raw, e)[i] = old.raw[i]
          /\ Append(old.raw, e)[Len(old.raw) + 1] = e
          /\ \A i \in DOMAIN Append(old.raw, e) : i \in DOMAIN old.raw \/ i = Len(old.raw) + 1
      <4>1. Extends(old.raw, e, Append(old.raw, e), ItemEvents)
        BY <2>2, Appended
      <4> QED
        BY <4>1 DEF Extends
    <3> HIDE DEF old
    <3> QED
      BY <3>1, <3>2
  <2>4. b = [class |-> "unknown", oi |-> old.oi, raw |-> Append(old.raw, e)]
    <3>1. Holds(old, b, Append(old.raw, e))
      BY DEF Holds
    <3>2. b = [class |-> old.class, oi |-> old.oi, raw |-> Append(old.raw, e)]
      BY <1>0, <3>1, RawReplaced
    <3> QED
      BY <3>2, <1>1
  <2>5. b \in Buffers /\ RawFits(b, e.oi) /\ b.class = "unknown"
    <3>1. b.raw = Append(old.raw, e) /\ b.class = "unknown"
      BY <2>4
    <3>2. b \in Buffers
      BY <2>2, <2>3, <2>4 DEF Buffers
    <3> QED
      BY <3>1, <3>2, <2>3, <1>1 DEF RawFits
  <2>6. q \in Seq(Buffers)
    BY <2>5, <1>0
  <2>7. Rebuffers(s, held, q)
    BY DEF Rebuffers
  <2> HIDE DEF b, q, held, r
  <2>8. /\ held \in Stitchers /\ held.buf = q /\ held.seq = s.seq /\ held.sent = s.sent
        /\ held.offset = s.offset /\ held.pending = s.pending /\ held.client = s.client
        /\ held.placed = s.placed
    BY <2>6, <2>7, Rebuffered
  <2>9. Sends(s, held, {}, e.oi + s.offset, Id(turn, e.ch))
    BY <2>8, SendsNothing
  <2>10. AbsorbsTool(s, held, e, b, {})
    BY <2>5, <2>8, <2>9, <1>o, <1>1 DEF AbsorbsTool, q, old, k
  <2> QED
    BY <2>1, <2>10 DEF r
<1>2. CASE old.class = "mcp_approval"
  <2>1. r = s
    BY <1>2 DEF OnToolEvent, Buffered
  <2>2. Sends(s, s, {}, e.oi + s.offset, Id(turn, e.ch))
    BY SendsNothing
  <2>3. AbsorbsTool(s, s, e, old, {})
    BY <2>2, <1>0, <1>e, <1>o, <1>2 DEF AbsorbsTool
  <2> QED
    BY <2>1, <2>3
<1>3. CASE old.class \in {"client", "mcp"}
  <2>1. r = Forward(s, e)
    BY <1>3 DEF OnToolEvent, Buffered
  <2>2. SameButSent(s, r) /\ Sends(s, r, {e.type}, e.oi + s.offset, Id(turn, e.ch))
    BY <2>1, ForwardIs
  <2> HIDE DEF r
  <2>3. AbsorbsTool(s, r, e, old, {e.type})
    BY <2>2, <1>0, <1>e, <1>o, <1>3 DEF AbsorbsTool, SameButSent
  <2> QED
    BY <2>3 DEF r
<1>4. old.class \in {"unknown", "client", "mcp", "mcp_approval"}
  BY <1>0 DEF Buffers
<1> QED
  BY <1>1, <1>2, <1>3, <1>4

\* The last event of a call.
LEMMA ToolClosed ==
  ASSUME NEW s \in Stitchers, NEW e \in ItemEvents, IsTool(e.ch), e.ch[2] + 1 \in DOMAIN s.buf,
         Id(turn, e.ch) \in Ids, e.type = "done", RawFits(s.buf[e.ch[2] + 1], e.oi)
  PROVE  \E b, T : AbsorbsTool(s, OnToolEvent(s, e), e, b, T)
<1> DEFINE k == e.ch[2] + 1
           old == s.buf[k]
           r == OnToolEvent(s, e)
           m == IF old.class = "unknown" THEN Flush(s, e.ch, e.name) ELSE s
           b == IF old.class = "unknown" THEN Flushed(old, e.name, e.oi + s.offset) ELSE old
           T == IF old.class = "unknown" THEN FlushTypes(old, e.name) ELSE {}
           pended == [m EXCEPT !.pending = Append(m.pending, e.ch)]
           x == e.oi + s.offset
<1>0. /\ s.buf \in Seq(Buffers) /\ s.offset \in Nat /\ e.oi \in Nat /\ s.pending \in Seq(Channels)
      /\ old \in Buffers /\ e.ch \in Channels /\ k \in Nat
  BY DEF Stitchers, ItemEvents
<1>o. OldClass(s, e) = old.class
  BY DEF OldClass
<1>e. [s.buf EXCEPT ![k] = old] = s.buf
  BY <1>0
<1>r. r = IF m.buf[k].class = "client" THEN Forward(m, e) ELSE pended
  BY DEF OnToolEvent, Buffered
<1>1. /\ m \in Stitchers /\ b \in Buffers /\ m.buf = [s.buf EXCEPT ![k] = b]
      /\ m.offset = s.offset /\ m.pending = s.pending /\ m.client = s.client /\ m.placed = s.placed
      /\ Sends(s, m, T, x, Id(turn, e.ch))
      /\ T \subseteq ItemTypes \ {"done"}
      /\ "added" \in T <=> old.class = "unknown" /\ Class(e.name) # "mcp_approval"
  <2>1. CASE old.class = "unknown"
    <3> DEFINE f == Flush(s, e.ch, e.name)
    <3>1. LET g == Flushed(old, e.name, x) IN
          /\ f \in Stitchers /\ g \in Buffers
          /\ f.buf = [s.buf EXCEPT ![k] = g]
          /\ f.offset = s.offset /\ f.pending = s.pending /\ f.client = s.client /\ f.placed = s.placed
          /\ Sends(s, f, FlushTypes(old, e.name), x, Id(turn, e.ch))
          /\ FlushTypes(old, e.name) \subseteq ItemTypes \ {"done"}
          /\ "added" \in FlushTypes(old, e.name) <=> Class(e.name) # "mcp_approval"
      <4>1. Flushes(s, f, e.ch, e.name, e.oi)
        BY <2>1, <1>0, FlushIs
      <4> QED
        BY <4>1 DEF Flushes
    <3> QED
      BY <2>1, <3>1
  <2>2. CASE old.class # "unknown"
    <3>1. Sends(s, s, {}, x, Id(turn, e.ch))
      BY SendsNothing
    <3> QED
      BY <2>2, <3>1, <1>0, <1>e
  <2> QED
    BY <2>1, <2>2
<1>2. /\ b.class = IF old.class = "unknown" THEN Class(e.name) ELSE old.class
      /\ b.class \in {"client", "mcp", "mcp_approval"} /\ RawFits(b, e.oi)
      /\ old.class = "unknown" => b.oi = x
      /\ old.class # "unknown" => b = old
  BY <1>0, ClassIs DEF Flushed, RawFits, Buffers
<1>3. m.buf[k] = b
  BY <1>0, <1>1
<1> HIDE DEF m, b, T, r, pended
<1>4. CASE b.class = "client"
  <2>1. r = Forward(m, e)
    BY <1>3, <1>4, <1>r
  <2>2. SameButSent(m, r) /\ Sends(m, r, {"done"}, x, Id(turn, e.ch))
    BY <2>1, <1>1, ForwardIs
  <2>3. Sends(s, r, T \cup {"done"}, x, Id(turn, e.ch))
    BY <2>2, <1>1, SendsTwice
  <2>4. T \cup {"done"} \subseteq ItemTypes /\ ("added" \in T \cup {"done"} <=> old.class = "unknown")
    BY <1>1, <1>2, <1>4 DEF ItemTypes
  <2>5. AbsorbsTool(s, r, e, b, T \cup {"done"})
    <3>1. r \in Stitchers /\ r.offset = s.offset /\ r.client = s.client /\ r.placed = s.placed
          /\ r.buf = [s.buf EXCEPT ![k] = b] /\ r.pending = s.pending
      BY <2>2, <1>1 DEF SameButSent
    <3> QED
      BY <3>1, <2>3, <2>4, <1>1, <1>2, <1>4, <1>o DEF AbsorbsTool, k, old
  <2> QED
    BY <2>5 DEF r
<1>5. CASE b.class # "client"
  <2>1. r = pended
    BY <1>3, <1>5, <1>r
  <2>2. Append(m.pending, e.ch) \in Seq(Channels) /\ Pends(m, pended, Append(m.pending, e.ch))
    BY <1>0, <1>1 DEF pended, Pends
  <2>3. /\ r \in Stitchers /\ r.buf = m.buf /\ r.seq = m.seq /\ r.sent = m.sent
        /\ r.offset = m.offset /\ r.pending = Append(m.pending, e.ch) /\ r.client = m.client
        /\ r.placed = m.placed
    <3>1. Pends(m, r, Append(m.pending, e.ch))
      BY <2>1, <2>2
    <3>2. m \in Stitchers
      BY <1>1
    <3>3. Append(m.pending, e.ch) \in Seq(Channels)
      BY <2>2
    <3> QED
      <4>1. PendsOnly(m, r, Append(m.pending, e.ch))
        BY <3>1, <3>2, <3>3, PendedOne
      <4> QED
        BY <4>1 DEF PendsOnly
  <2>4. Sends(m, r, {}, x, Id(turn, e.ch))
    BY <2>3, SendsNothing
  <2>5. Sends(s, r, T \cup {}, x, Id(turn, e.ch))
    BY <2>4, <1>1, SendsTwice
  <2>6. T \cup {} = T
    OBVIOUS
  <2>7. Sends(s, r, T, x, Id(turn, e.ch))
    BY <2>5, <2>6
  <2>8. "added" \in T <=> old.class = "unknown" /\ b.class \in {"client", "mcp"}
    BY <1>1, <1>2
  <2>9. AbsorbsTool(s, r, e, b, T)
    BY <2>3, <2>7, <2>8, <1>1, <1>2, <1>5, <1>o DEF AbsorbsTool, k, old
  <2> QED
    BY <2>9 DEF r
<1> QED
  BY <1>4, <1>5

-----------------------------------------------------------------------------
(* The translator.                                                           *)

\* A channel is a text channel, or a tool's with its index.
LEMMA ChannelIs ==
  ASSUME NEW ch \in Channels
  PROVE  /\ ch = <<ch[1], ch[2]>> /\ ch[1] \in Marks /\ ch[2] \in Nat /\ IsChannel(ch)
         /\ IsTool(ch) <=> ch = Tool(ch[2])
         /\ ~IsTool(ch) <=> ch \in {Reasoning, Message}
BY DEF Channels, Reasoning, Message, Tool, IsTool, Marks, IsChannel

\* The channels are told apart.
LEMMA ToolIs ==
  /\ Reasoning # Message /\ Reasoning \in Channels /\ Message \in Channels
  /\ ~IsTool(Reasoning) /\ ~IsTool(Message)
  /\ \A k : IsTool(Tool(k)) /\ Tool(k)[2] = k /\ Tool(k) # Reasoning /\ Tool(k) # Message
  /\ \A k \in Nat : Tool(k) \in Channels
BY DEF Channels, Reasoning, Message, Tool, IsTool

\* What a chunk is about.
LEMMA ChunkIs ==
  ASSUME NEW chunk \in Chunks
  PROVE  chunk.ch \in Channels /\ chunk.name \in Names /\ chunk.arguments \in BOOLEAN
BY McpAssumption DEF IsChannel, Channels, Names

\* A translator that differs in its fields.
Retells(t, u, open, named) ==
  u \in Translators /\ u.open = open /\ u.named = named

\* An event of the translator tells of its channel.
LEMMA EventIs ==
  ASSUME NEW t \in Translators, NEW ch \in Channels, Opened(t, ch), NEW type \in ItemTypes,
         IsTool(ch) => ch[2] + 1 \in DOMAIN t.named
  PROVE  EventOf(Event(t, type, ch), t, ch) /\ Event(t, type, ch).type = type
<1> DEFINE i == CHOOSE j \in DOMAIN t.open : t.open[j] = ch
           e == Event(t, type, ch)
           name == IF IsTool(ch) THEN t.named[ch[2] + 1] ELSE NoName
<1>0. t.open \in Seq(Channels) /\ t.named \in Seq(Names) /\ t.seq \in Nat
  BY DEF Translators
<1>1. i \in DOMAIN t.open /\ t.open[i] = ch
  BY DEF Opened, Range
<1>2. i \in Nat /\ i - 1 \in Nat /\ (i - 1) + 1 = i
  BY <1>0, <1>1
<1>3. name \in Names
  BY <1>0 DEF Names
<1>4. e = [type |-> type, seq |-> 0, ch |-> ch, oi |-> i - 1, name |-> name]
  BY DEF Event, IndexOf
<1> HIDE DEF i, e, name
<1>5. e \in ItemEvents /\ e.ch = ch /\ e.oi = i - 1 /\ e.name = name /\ e.type = type
  BY <1>2, <1>3, <1>4 DEF ItemEvents
<1>6. e.oi + 1 = i
  BY <1>5, <1>2
<1> QED
  BY <1>1, <1>5, <1>6 DEF EventOf, e, name

Renumbers(e, f, n) == f = [e EXCEPT !.seq = n]

\* An event with another number.
LEMMA Renumbered ==
  ASSUME NEW e \in ItemEvents, NEW n \in Nat, NEW f, Renumbers(e, f, n)
  PROVE  f \in ItemEvents /\ f.type = e.type /\ f.ch = e.ch /\ f.oi = e.oi /\ f.name = e.name
<1>1. e = [type |-> e.type, seq |-> e.seq, ch |-> e.ch, oi |-> e.oi, name |-> e.name]
  BY DEF ItemEvents
<1>2. f = [type |-> e.type, seq |-> n, ch |-> e.ch, oi |-> e.oi, name |-> e.name]
  BY <1>1 DEF Renumbers
<1> QED
  BY <1>2 DEF ItemEvents

\* The terminal event with another number.
LEMMA EndRenumbered ==
  ASSUME NEW e \in EndEvents, NEW n \in Nat, NEW f, Renumbers(e, f, n)
  PROVE  f \in EndEvents /\ f.type = e.type /\ f.output = e.output
<1>1. e = [type |-> e.type, seq |-> e.seq, output |-> e.output]
  BY DEF EndEvents
<1>2. f = [type |-> e.type, seq |-> n, output |-> e.output]
  BY <1>1 DEF Renumbers
<1> QED
  BY <1>2 DEF EndEvents

Counts(t, u, n) == u = [t EXCEPT !.seq = n]

\* A translator that has only counted on.
LEMMA Counted ==
  ASSUME NEW t \in Translators, NEW n \in Nat, NEW u, Counts(t, u, n)
  PROVE  Retells(t, u, t.open, t.named) /\ u.seq = n
<1>1. t = [open |-> t.open, named |-> t.named, seq |-> t.seq]
  BY DEF Translators
<1>2. u = [open |-> t.open, named |-> t.named, seq |-> n]
  BY <1>1 DEF Counts
<1> QED
  BY <1>2 DEF Translators, Retells

\* What a translator makes of a list of events: the same ones, numbered.
NumbersAll(t, events, n) ==
  /\ n.tr \in Translators /\ n.tr.open = t.open /\ n.tr.named = t.named
  /\ n.events \in Seq(ItemEvents \cup EndEvents) /\ Len(n.events) = Len(events)
  /\ DOMAIN n.events = DOMAIN events
  /\ \A i \in DOMAIN events :
       /\ n.events[i].type = events[i].type
       /\ events[i] \in ItemEvents =>
            /\ n.events[i] \in ItemEvents /\ n.events[i].ch = events[i].ch
            /\ n.events[i].oi = events[i].oi /\ n.events[i].name = events[i].name
       /\ events[i] \in EndEvents =>
            n.events[i] \in EndEvents /\ n.events[i].output = events[i].output

\* Numbering changes nothing but the numbers.
LEMMA NumberedIs ==
  ASSUME NEW t \in Translators, NEW events \in Seq(ItemEvents \cup EndEvents)
  PROVE  NumbersAll(t, events, Numbered(t, events))
<1> DEFINE E == ItemEvents \cup EndEvents
           q == [i \in DOMAIN events |-> [events[i] EXCEPT !.seq = t.seq + i - 1]]
           u == [t EXCEPT !.seq = t.seq + Len(events)]
           n == Numbered(t, events)
<1>0. /\ t.seq \in Nat /\ Len(events) \in Nat /\ DOMAIN events = 1..Len(events)
      /\ \A i \in DOMAIN events : events[i] \in E
  BY DEF Translators
<1>1. n = [tr |-> u, events |-> q]
  BY DEF Numbered, Made
<1>2. \A i \in DOMAIN events : Renumbers(events[i], q[i], t.seq + i - 1) /\ t.seq + i - 1 \in Nat
  BY <1>0 DEF Renumbers
<1>3. Counts(t, u, t.seq + Len(events)) /\ t.seq + Len(events) \in Nat
  BY <1>0 DEF Counts
<1>4. DOMAIN q = 1..Len(events)
  BY <1>0
<1>5. q = [i \in 1..Len(events) |-> q[i]]
  BY <1>0
<1> HIDE DEF u, q, n, E
<1>6. \A i \in DOMAIN events :
       /\ q[i].type = events[i].type /\ q[i] \in E
       /\ events[i] \in ItemEvents =>
            /\ q[i] \in ItemEvents /\ q[i].ch = events[i].ch
            /\ q[i].oi = events[i].oi /\ q[i].name = events[i].name
       /\ events[i] \in EndEvents => q[i] \in EndEvents /\ q[i].output = events[i].output
  BY <1>0, <1>2, Renumbered, EndRenumbered DEF E
<1>7. q \in [1..Len(events) -> E]
  BY <1>5, <1>6, <1>0, <1>4
<1>8. q \in Seq(E) /\ Len(q) = Len(events)
  BY <1>7, <1>0
<1>9. Retells(t, u, t.open, t.named)
  BY <1>3, Counted
<1> QED
  BY <1>0, <1>1, <1>4, <1>6, <1>8, <1>9 DEF NumbersAll, Retells, E, n

\* Events of one channel, numbered.
LEMMA EventsNumbered ==
  ASSUME NEW t \in Translators, NEW ch \in Channels, Opened(t, ch), NEW types \in Seq(ItemTypes),
         IsTool(ch) => ch[2] + 1 \in DOMAIN t.named
  PROVE  LET n == Numbered(t, Events(t, types, ch)) IN
         /\ Retells(t, n.tr, t.open, t.named)
         /\ n.events \in Seq(ItemEvents) /\ Len(n.events) = Len(types) /\ DOMAIN n.events = DOMAIN types
         /\ \A i \in DOMAIN types : EventOf(n.events[i], n.tr, ch) /\ n.events[i].type = types[i]
<1> DEFINE q == Events(t, types, ch)
           n == Numbered(t, q)
<1>0. Len(types) \in Nat /\ DOMAIN types = 1..Len(types) /\ \A i \in DOMAIN types : types[i] \in ItemTypes
  OBVIOUS
<1>1. \A i \in DOMAIN types : EventOf(q[i], t, ch) /\ q[i].type = types[i]
  BY <1>0, EventIs DEF Events
<1>2. DOMAIN q = 1..Len(types) /\ q = [i \in 1..Len(types) |-> q[i]]
  BY <1>0 DEF Events
<1> HIDE DEF q
<1>3. q \in [1..Len(types) -> ItemEvents]
  BY <1>0, <1>1, <1>2 DEF EventOf
<1>4. q \in Seq(ItemEvents \cup EndEvents) /\ Len(q) = Len(types)
  BY <1>0, <1>3
<1>5. NumbersAll(t, q, n)
  BY <1>4, NumberedIs
<1> HIDE DEF n
<1>6. /\ Retells(t, n.tr, t.open, t.named) /\ Len(n.events) = Len(types) /\ DOMAIN n.events = DOMAIN types
      /\ n.events \in Seq(ItemEvents \cup EndEvents)
  BY <1>0, <1>2, <1>4, <1>5 DEF NumbersAll, Retells
<1>7. \A i \in DOMAIN types :
        /\ n.events[i].type = q[i].type /\ n.events[i] \in ItemEvents /\ n.events[i].ch = q[i].ch
        /\ n.events[i].oi = q[i].oi /\ n.events[i].name = q[i].name
  BY <1>0, <1>1, <1>2, <1>5 DEF NumbersAll, EventOf
<1>8. \A i \in DOMAIN types : EventOf(n.events[i], n.tr, ch) /\ n.events[i].type = types[i]
  BY <1>1, <1>6, <1>7 DEF EventOf, Retells, Opened
<1>9. n.events \in Seq(ItemEvents)
  <2>1. n.events \in [1..Len(types) -> ItemEvents]
    BY <1>0, <1>6, <1>7
  <2> QED
    BY <2>1, <1>0
<1> QED
  BY <1>6, <1>8, <1>9 DEF n, q

\* A channel that opens, and the names a translator has heard.
Renames(t, u, named) == u = [t EXCEPT !.named = named]

\* A translator that has only learnt a name.
LEMMA Renamed ==
  ASSUME NEW t \in Translators, NEW named \in Seq(Names), NEW u, Renames(t, u, named)
  PROVE  Retells(t, u, t.open, named)
<1>1. t = [open |-> t.open, named |-> t.named, seq |-> t.seq]
  BY DEF Translators
<1>2. u = [open |-> t.open, named |-> named, seq |-> t.seq]
  BY <1>1 DEF Renames
<1> QED
  BY <1>2 DEF Translators, Retells

\* Opening a channel puts it last.
LEMMA OpensIs ==
  ASSUME NEW t \in Translators, NEW ch \in Channels
  PROVE  /\ Retells(t, Opens(t, ch), Append(t.open, ch), t.named)
         /\ Opened(Opens(t, ch), ch)
         /\ \A c : Opened(Opens(t, ch), c) <=> Opened(t, c) \/ c = ch
<1> DEFINE u == Opens(t, ch)
<1>0. t.open \in Seq(Channels) /\ t.named \in Seq(Names) /\ t.seq \in Nat
  BY DEF Translators
<1>1. t = [open |-> t.open, named |-> t.named, seq |-> t.seq]
  BY DEF Translators
<1>2. u = [open |-> Append(t.open, ch), named |-> t.named, seq |-> t.seq]
  BY <1>1 DEF Opens
<1>3. Extends(t.open, ch, Append(t.open, ch), Channels)
  BY <1>0, Appended
<1> HIDE DEF u
<1>4. Append(t.open, ch) \in Seq(Channels)
  BY <1>0
<1>5. Retells(t, u, Append(t.open, ch), t.named)
  BY <1>0, <1>2, <1>4 DEF Retells, Translators
<1>6. u.open = Append(t.open, ch)
  BY <1>2
<1>7. \A c : Opened(u, c) <=> Opened(t, c) \/ c = ch
  BY <1>3, <1>6 DEF Extends, Opened, Range
<1> QED
  BY <1>5, <1>7 DEF u

\* What a chunk makes of a translator, and which events it makes.
NamedBy(t, chunk) ==
  IF ~IsTool(chunk.ch) THEN t.named
  ELSE IF ~Opened(t, chunk.ch) THEN Append(t.named, chunk.name)
  ELSE [t.named EXCEPT ![chunk.ch[2] + 1] = IF @ = NoName THEN chunk.name ELSE @]
Processes(t, chunk, n) ==
  LET ch == chunk.ch
  IN /\ Retells(t, n.tr, IF Opened(t, ch) THEN t.open ELSE Append(t.open, ch), NamedBy(t, chunk))
     /\ n.events \in Seq(ItemEvents)
     /\ ~Opened(t, ch) => 1 \in DOMAIN n.events
     /\ \A i \in DOMAIN n.events :
          /\ EventOf(n.events[i], n.tr, ch) /\ n.events[i].type # "done"
          /\ n.events[i].type = "added" <=> i = 1 /\ ~Opened(t, ch)

MayTell(t, ch) == IsTool(ch) => Opened(t, ch) \/ ch[2] = Len(t.named)

\* A chunk of text.
LEMMA TextProcessed ==
  ASSUME NEW t \in Translators, NEW chunk \in Chunks, ~IsTool(chunk.ch)
  PROVE  Processes(t, chunk, Process(t, chunk))
<1> DEFINE ch == chunk.ch
           n == Process(t, chunk)
<1>0. ch \in Channels
  BY ChunkIs
<1>1. CASE Opened(t, ch)
  <2>1. <<"delta">> \in Seq(ItemTypes) /\ DOMAIN <<"delta">> = {1} /\ <<"delta">>[1] = "delta"
    BY DEF ItemTypes
  <2>2. n = Numbered(t, Events(t, <<"delta">>, ch))
    BY <1>1 DEF Process, OnText
  <2> HIDE DEF n, ch
  <2>3. /\ Retells(t, n.tr, t.open, t.named)
        /\ n.events \in Seq(ItemEvents) /\ DOMAIN n.events = {1}
        /\ EventOf(n.events[1], n.tr, ch) /\ n.events[1].type = "delta"
    <3> DEFINE T == <<"delta">>
    <3> HIDE DEF T
    <3>1. T \in Seq(ItemTypes) /\ DOMAIN T = {1} /\ T[1] = "delta"
      BY <2>1 DEF T
    <3>2. n = Numbered(t, Events(t, T, ch))
      BY <2>2 DEF T
    <3> QED
      BY <3>1, <3>2, <1>0, <1>1, EventsNumbered DEF ch
  <2> QED
    BY <2>3, <1>1 DEF Processes, NamedBy, n, ch
<1>2. CASE ~Opened(t, ch)
  <2> DEFINE T == <<"added", "part_added", "delta">>
             u == Opens(t, ch)
  <2>1. /\ T \in Seq(ItemTypes) /\ DOMAIN T = 1..3
        /\ \A i \in 1..3 : T[i] # "done" /\ (T[i] = "added" <=> i = 1)
    BY DEF ItemTypes
  <2>2. n = Numbered(u, Events(u, T, ch))
    BY <1>2 DEF Process, OnText
  <2> HIDE DEF n, ch, T, u
  <2>3. Retells(t, u, Append(t.open, ch), t.named) /\ Opened(u, ch)
    BY <1>0, OpensIs DEF u
  <2>4. /\ Retells(u, n.tr, u.open, u.named)
        /\ n.events \in Seq(ItemEvents) /\ DOMAIN n.events = 1..3
        /\ \A i \in 1..3 : EventOf(n.events[i], n.tr, ch) /\ n.events[i].type = T[i]
    <3>1. ~IsTool(ch)
      BY DEF ch
    <3> QED
      BY <3>1, <2>1, <2>2, <2>3, <1>0, EventsNumbered, SMTT(30) DEF Retells
  <2>5. Retells(t, n.tr, Append(t.open, ch), t.named)
    BY <2>3, <2>4 DEF Retells
  <2>6. \A i \in DOMAIN n.events :
          /\ EventOf(n.events[i], n.tr, ch) /\ n.events[i].type # "done"
          /\ n.events[i].type = "added" <=> i = 1 /\ ~Opened(t, ch)
    BY <2>1, <2>4, <1>2
  <2> QED
    BY <2>4, <2>5, <2>6, <1>2 DEF Processes, NamedBy, n, ch
<1> QED
  BY <1>1, <1>2

\* A chunk of a tool call.
LEMMA ToolProcessed ==
  ASSUME NEW t \in Translators, NEW chunk \in Chunks, IsTool(chunk.ch), ToolsByIndex(t),
         MayTell(t, chunk.ch)
  PROVE  Processes(t, chunk, Process(t, chunk))
<1> DEFINE ch == chunk.ch
           n == Process(t, chunk)
           new == ~Opened(t, ch)
           named == NamedBy(t, chunk)
           opened == IF new THEN Opens(t, ch) ELSE t
           u == [opened EXCEPT !.named = named]
           T == (IF new THEN <<"added">> ELSE <<>>) \o (IF chunk.arguments THEN <<"args_delta">> ELSE <<>>)
<1>0. ch \in Channels /\ chunk.name \in Names /\ chunk.arguments \in BOOLEAN
  BY ChunkIs
<1>c. ch[2] \in Nat /\ ch = Tool(ch[2])
  BY <1>0, ChannelIs
<1>t. t.open \in Seq(Channels) /\ t.named \in Seq(Names) /\ Len(t.named) \in Nat
  BY DEF Translators
<1>1. n = Numbered(u, Events(u, T, ch))
  BY DEF Process, OnToolCall, NamedBy
<1>2. named \in Seq(Names) /\ ch[2] + 1 \in DOMAIN named
  <2>1. CASE new
    <3>1. named = Append(t.named, chunk.name) /\ ch[2] = Len(t.named)
      BY <2>1 DEF NamedBy, MayTell
    <3>2. Extends(t.named, chunk.name, Append(t.named, chunk.name), Names)
      BY <1>0, <1>t, Appended
    <3> QED
      BY <3>1, <3>2 DEF Extends
  <2>2. CASE ~new
    <3>1. ch[2] < Len(t.named)
      BY <2>2, <1>c DEF ToolsByIndex
    <3>2. ch[2] + 1 \in DOMAIN t.named
      BY <3>1, <1>c, <1>t
    <3>3. named = [t.named EXCEPT ![ch[2] + 1] = IF t.named[ch[2] + 1] = NoName THEN chunk.name ELSE t.named[ch[2] + 1]]
      BY <2>2 DEF NamedBy
    <3> HIDE DEF named, ch
    <3>4. t.named[ch[2] + 1] \in Names
      BY <3>2, <1>t
    <3> QED
      BY <3>2, <3>3, <3>4, <1>0, <1>t
  <2> QED
    BY <2>1, <2>2
<1>3. /\ T \in Seq(ItemTypes) /\ \A i \in DOMAIN T : T[i] # "done" /\ (T[i] = "added" <=> i = 1 /\ new)
      /\ new => 1 \in DOMAIN T
  <2>1. CASE new /\ chunk.arguments
    <3> DEFINE A == <<"added">>
               B == <<"args_delta">>
    <3>1. /\ A \in Seq(ItemTypes) /\ B \in Seq(ItemTypes) /\ Len(A) = 1 /\ Len(B) = 1
          /\ A[1] = "added" /\ B[1] = "args_delta"
      BY DEF ItemTypes
    <3>2. T = A \o B
      BY <2>1
    <3> HIDE DEF A, B, T
    <3>3. T \in Seq(ItemTypes) /\ Join(A, B, T)
      BY <3>1, <3>2, Joined
    <3>4. DOMAIN T = 1..2 /\ T[1] = "added" /\ T[2] = "args_delta"
      BY <3>1, <3>3 DEF Join
    <3> QED
      BY <3>3, <3>4, <2>1
  <2>2. CASE new /\ ~chunk.arguments
    <3>1. T = <<"added">>
      BY <2>2
    <3> QED
      BY <3>1, <2>2 DEF ItemTypes
  <2>3. CASE ~new /\ chunk.arguments
    <3>1. T = <<"args_delta">>
      BY <2>3
    <3> QED
      BY <3>1, <2>3 DEF ItemTypes
  <2>4. CASE ~new /\ ~chunk.arguments
    <3>1. T = <<>>
      BY <2>4
    <3> QED
      BY <3>1, <2>4 DEF ItemTypes
  <2> QED
    BY <2>1, <2>2, <2>3, <2>4, <1>0
<1> DEFINE open == IF Opened(t, ch) THEN t.open ELSE Append(t.open, ch)
<1>4. Renames(opened, u, named)
  BY DEF Renames
<1> HIDE DEF n, ch, T, u, named
<1>5. opened \in Translators /\ opened.open = open /\ Opened(opened, ch)
  BY <1>0, OpensIs DEF Retells
<1> HIDE DEF opened, open
<1>6. Retells(opened, u, open, named)
  BY <1>2, <1>4, <1>5, Renamed
<1>7. u \in Translators /\ u.open = open /\ u.named = named /\ Opened(u, ch)
  BY <1>5, <1>6 DEF Retells, Opened
<1>8. /\ Retells(u, n.tr, u.open, u.named)
      /\ n.events \in Seq(ItemEvents) /\ DOMAIN n.events = DOMAIN T
      /\ \A i \in DOMAIN T : EventOf(n.events[i], n.tr, ch) /\ n.events[i].type = T[i]
  BY <1>0, <1>1, <1>2, <1>3, <1>7, EventsNumbered
<1>9. Retells(t, n.tr, open, named)
  BY <1>7, <1>8 DEF Retells
<1>10. /\ new => 1 \in DOMAIN n.events
       /\ \A i \in DOMAIN n.events :
            /\ EventOf(n.events[i], n.tr, ch) /\ n.events[i].type # "done"
            /\ n.events[i].type = "added" <=> i = 1 /\ ~Opened(t, ch)
  BY <1>3, <1>8
<1> QED
  BY <1>8, <1>9, <1>10 DEF Processes, n, ch, named, open

\* Any chunk.
LEMMA ProcessIs ==
  ASSUME NEW t \in Translators, NEW chunk \in Chunks, ToolsByIndex(t), MayTell(t, chunk.ch)
  PROVE  Processes(t, chunk, Process(t, chunk))
BY TextProcessed, ToolProcessed

\* A list of events that closes the items of S, each once.
CloseTypes == {"text_done", "part_done", "args_done", "done"}
Closes(t, q, S) ==
  /\ q \in Seq(ItemEvents)
  /\ \A i \in DOMAIN q : EventOf(q[i], t, q[i].ch) /\ q[i].ch \in S /\ q[i].type \in CloseTypes
  /\ DoneOnce(q)
  /\ \A ch \in S : \E i \in DOMAIN q : q[i].type = "done" /\ q[i].ch = ch

\* Two lists of closing events, of different channels.
LEMMA ClosesBoth ==
  ASSUME NEW t, NEW a, NEW b, NEW S, NEW T, Closes(t, a, S), Closes(t, b, T), S \cap T = {}
  PROVE  Closes(t, a \o b, S \cup T)
<1> DEFINE c == a \o b
<1>1. c \in Seq(ItemEvents) /\ Join(a, b, c)
  BY Joined DEF Closes
<1> HIDE DEF c
<1>2. \A i \in DOMAIN c :
        \/ i \in DOMAIN a /\ c[i] = a[i]
        \/ \E j \in DOMAIN b : i = Len(a) + j /\ c[i] = b[j]
  BY <1>1 DEF Join
<1>3. \A i \in DOMAIN c : EventOf(c[i], t, c[i].ch) /\ c[i].ch \in S \cup T /\ c[i].type \in CloseTypes
  BY <1>2 DEF Closes
<1>4. DoneOnce(c)
  <2> SUFFICES ASSUME NEW i \in DOMAIN c, NEW j \in DOMAIN c,
                      c[i].type = "done", c[j].type = "done", c[i].ch = c[j].ch
               PROVE  i = j
    BY DEF DoneOnce
  <2>1. CASE i \in DOMAIN a /\ c[i] = a[i]
    <3>1. j \in DOMAIN a /\ c[j] = a[j]
      BY <2>1, <1>2 DEF Closes
    <3> QED
      BY <2>1, <3>1 DEF Closes, DoneOnce
  <2>2. CASE \E k \in DOMAIN b : i = Len(a) + k /\ c[i] = b[k]
    <3>1. PICK k \in DOMAIN b : i = Len(a) + k /\ c[i] = b[k]
      BY <2>2
    <3>2. PICK l \in DOMAIN b : j = Len(a) + l /\ c[j] = b[l]
      BY <3>1, <1>2 DEF Closes
    <3> QED
      BY <3>1, <3>2 DEF Closes, DoneOnce
  <2> QED
    BY <2>1, <2>2, <1>2
<1>5. ASSUME NEW ch \in S PROVE \E i \in DOMAIN c : c[i].type = "done" /\ c[i].ch = ch
  <2>1. PICK i \in DOMAIN a : a[i].type = "done" /\ a[i].ch = ch
    BY DEF Closes
  <2> QED
    BY <2>1, <1>1 DEF Join
<1>6. ASSUME NEW ch \in T PROVE \E i \in DOMAIN c : c[i].type = "done" /\ c[i].ch = ch
  <2>1. PICK i \in DOMAIN b : b[i].type = "done" /\ b[i].ch = ch
    BY DEF Closes
  <2>2. Len(a) + i \in DOMAIN c /\ c[Len(a) + i] = b[i]
    BY <1>1 DEF Join
  <2> QED
    BY <2>1, <2>2
<1> QED
  BY <1>1, <1>3, <1>4, <1>5, <1>6 DEF Closes, c

\* A function on 1..n is a sequence.
LEMMA ListIs ==
  ASSUME NEW S, NEW n \in Nat, NEW q \in [1..n -> S]
  PROVE  q \in Seq(S) /\ Len(q) = n
OBVIOUS

TextEnds(t, ch) ==
  IF Opened(t, ch) THEN Events(t, <<"text_done", "part_done", "done">>, ch) ELSE <<>>
CallEnds(t) ==
  [i \in 1..(2 * Len(t.named)) |->
     Event(t, IF i % 2 = 1 THEN "args_done" ELSE "done", Tool((i - 1) \div 2))]

\* The closing events of a text channel.
LEMMA ClosesText ==
  ASSUME NEW t \in Translators, NEW ch \in Channels, ~IsTool(ch)
  PROVE  Closes(t, TextEnds(t, ch), IF Opened(t, ch) THEN {ch} ELSE {})
<1>1. CASE Opened(t, ch)
  <2> DEFINE T == <<"text_done", "part_done", "done">>
             q == Events(t, T, ch)
  <2>1. /\ DOMAIN T = 1..3 /\ \A i \in 1..3 : T[i] \in ItemTypes /\ T[i] \in CloseTypes
        /\ \A i \in 1..3 : T[i] = "done" <=> i = 3
    BY DEF ItemTypes, CloseTypes
  <2>2. DOMAIN q = 1..3 /\ q = [i \in 1..3 |-> q[i]] /\ \A i \in 1..3 : q[i] = Event(t, T[i], ch)
    BY <2>1 DEF Events
  <2>3. \A i \in 1..3 : EventOf(Event(t, T[i], ch), t, ch) /\ Event(t, T[i], ch).type = T[i]
    BY <1>1, <2>1, EventIs
  <2>4. TextEnds(t, ch) = q
    BY <1>1 DEF TextEnds
  <2> HIDE DEF q, T
  <2>5. \A i \in 1..3 : EventOf(q[i], t, ch) /\ q[i].type = T[i]
    BY <2>2, <2>3
  <2>6. q \in [1..3 -> ItemEvents]
    BY <2>2, <2>5 DEF EventOf
  <2>7. q \in Seq(ItemEvents)
    <3>1. 3 \in Nat
      OBVIOUS
    <3> QED
      BY <3>1, <2>6, ListIs
  <2> QED
    BY <2>1, <2>2, <2>4, <2>5, <2>7, <1>1 DEF Closes, DoneOnce, EventOf
<1>2. CASE ~Opened(t, ch)
  <2>1. TextEnds(t, ch) = <<>> /\ <<>> \in Seq(ItemEvents) /\ DOMAIN <<>> = {}
    BY <1>2 DEF TextEnds
  <2> QED
    BY <2>1, <1>2 DEF Closes, DoneOnce
<1> QED
  BY <1>1, <1>2

ToolsOf(t) == {Tool(k) : k \in 0..(Len(t.named) - 1)}

\* The closing events of the calls.
LEMMA ClosesTools ==
  ASSUME NEW t \in Translators, ToolsByIndex(t)
  PROVE  Closes(t, CallEnds(t), ToolsOf(t))
<1> DEFINE m == Len(t.named)
           q == CallEnds(t)
           Type(i) == IF i % 2 = 1 THEN "args_done" ELSE "done"
           K(i) == (i - 1) \div 2
<1>0. t.named \in Seq(Names) /\ m \in Nat /\ DOMAIN t.named = 1..m
  BY DEF Translators
<1>1. \A n \in Nat : \A i \in 1..(2 * n) : K(i) \in 0..(n - 1) /\ K(i) + 1 \in 1..n /\ K(i) \in Nat
  OBVIOUS
<1>2. DOMAIN q = 1..(2 * m) /\ q = [i \in 1..(2 * m) |-> q[i]]
      /\ \A i \in 1..(2 * m) : q[i] = Event(t, Type(i), Tool(K(i)))
  BY DEF CallEnds
<1>3. \A i : Type(i) \in ItemTypes /\ Type(i) \in CloseTypes
  BY DEF ItemTypes, CloseTypes
<1>4. \A n \in Nat : \A i, j \in 1..(2 * n) : Type(i) = "done" /\ Type(j) = "done" /\ K(i) = K(j) => i = j
  <2>1. \A i : Type(i) = "done" => i % 2 # 1
    OBVIOUS
  <2> HIDE DEF Type
  <2> QED
    BY <2>1
<1>5. \A n \in Nat : \A k \in 0..(n - 1) : 2 * (k + 1) \in 1..(2 * n) /\ Type(2 * (k + 1)) = "done" /\ K(2 * (k + 1)) = k
  <2>1. \A n \in Nat : \A k \in 0..(n - 1) : 2 * (k + 1) \in 1..(2 * n) /\ (2 * (k + 1)) % 2 # 1 /\ K(2 * (k + 1)) = k
    OBVIOUS
  <2> QED
    BY <2>1
<1> HIDE DEF Type, K, m, q
<1>6. \A i \in 1..(2 * m) : K(i) \in 0..(m - 1) /\ K(i) + 1 \in 1..m /\ K(i) \in Nat
  BY <1>0, <1>1
<1>7. ASSUME NEW i \in 1..(2 * m)
      PROVE  /\ EventOf(q[i], t, Tool(K(i))) /\ q[i].type = Type(i) /\ q[i].ch = Tool(K(i))
             /\ Tool(K(i)) \in ToolsOf(t)
  <2>1. K(i) \in Nat /\ K(i) + 1 \in DOMAIN t.named /\ K(i) < m /\ K(i) \in 0..(m - 1)
    BY <1>0, <1>6
  <2>2. Opened(t, Tool(K(i))) /\ Tool(K(i)) \in Channels /\ Tool(K(i))[2] = K(i)
    BY <2>1, ToolIs DEF ToolsByIndex, m
  <2>3. EventOf(Event(t, Type(i), Tool(K(i))), t, Tool(K(i))) /\ Event(t, Type(i), Tool(K(i))).type = Type(i)
    BY <2>1, <2>2, <1>3, EventIs
  <2>4. Tool(K(i)) \in ToolsOf(t)
    BY <2>1 DEF ToolsOf, m
  <2> QED
    BY <2>3, <2>4, <1>2 DEF EventOf
<1>8. q \in [1..(2 * m) -> ItemEvents]
  BY <1>2, <1>7 DEF EventOf
<1>9. q \in Seq(ItemEvents)
  <2>1. 2 * m \in Nat
    BY <1>0
  <2> QED
    BY <2>1, <1>8
<1>10. DoneOnce(q)
  <2> SUFFICES ASSUME NEW i \in DOMAIN q, NEW j \in DOMAIN q,
                      q[i].type = "done", q[j].type = "done", q[i].ch = q[j].ch
               PROVE  i = j
    BY DEF DoneOnce
  <2>1. Type(i) = "done" /\ Type(j) = "done" /\ Tool(K(i)) = Tool(K(j))
    BY <1>2, <1>7
  <2>2. K(i) = K(j)
    BY <2>1, ToolIs
  <2> QED
    BY <2>1, <2>2, <1>0, <1>2, <1>4
<1>11. ASSUME NEW ch \in ToolsOf(t) PROVE \E i \in DOMAIN q : q[i].type = "done" /\ q[i].ch = ch
  <2>1. PICK k \in 0..(m - 1) : ch = Tool(k)
    BY DEF ToolsOf, m
  <2> DEFINE i == 2 * (k + 1)
  <2>2. i \in 1..(2 * m) /\ Type(i) = "done" /\ K(i) = k
    BY <1>0, <1>5
  <2> HIDE DEF i
  <2> QED
    BY <2>1, <2>2, <1>2, <1>7
<1> QED
  BY <1>2, <1>3, <1>7, <1>9, <1>10, <1>11 DEF Closes, q

\* The channels of a turn are its text channels and its calls.
LEMMA ChannelsAre ==
  ASSUME NEW t \in Translators, ToolsByIndex(t)
  PROVE  Range(t.open) = ((IF Opened(t, Reasoning) THEN {Reasoning} ELSE {})
                            \cup (IF Opened(t, Message) THEN {Message} ELSE {})) \cup ToolsOf(t)
<1>1. \A ch \in Range(t.open) : ch \in Channels
  BY DEF Translators, Range
<1>2. ASSUME NEW ch \in Range(t.open), IsTool(ch) PROVE ch \in ToolsOf(t)
  <2>1. ch[2] \in Nat /\ ch = Tool(ch[2])
    BY <1>1, <1>2, ChannelIs
  <2>2. ch[2] < Len(t.named) /\ Len(t.named) \in Nat
    BY <2>1 DEF ToolsByIndex, Opened, Translators
  <2>3. ch[2] \in 0..(Len(t.named) - 1)
    BY <2>1, <2>2
  <2> QED
    BY <2>1, <2>3 DEF ToolsOf
<1>3. ASSUME NEW ch \in ToolsOf(t) PROVE ch \in Range(t.open)
  <2>1. PICK k \in 0..(Len(t.named) - 1) : ch = Tool(k)
    BY DEF ToolsOf
  <2>2. k \in Nat /\ k < Len(t.named)
    BY DEF Translators
  <2> QED
    BY <2>1, <2>2 DEF ToolsByIndex, Opened
<1>4. \A ch \in Range(t.open) : IsTool(ch) \/ ch \in {Reasoning, Message}
  BY <1>1, ChannelIs
<1> QED
  BY <1>2, <1>3, <1>4 DEF Opened

\* The end of a turn closes each of its channels, once.
LEMMA CloseAllIs ==
  ASSUME NEW t \in Translators, ToolsByIndex(t)
  PROVE  Closes(t, CloseAll(t), Range(t.open))
<1> DEFINE R == IF Opened(t, Reasoning) THEN {Reasoning} ELSE {}
           M == IF Opened(t, Message) THEN {Message} ELSE {}
           a == TextEnds(t, Reasoning)
           b == TextEnds(t, Message)
           c == CallEnds(t)
<1>1. Closes(t, a, R) /\ Closes(t, b, M) /\ Closes(t, c, ToolsOf(t))
  BY ClosesText, ClosesTools, ToolIs
<1>2. CloseAll(t) = (a \o b) \o c
  BY DEF CloseAll, TextEnds, CallEnds
<1>3. R \cap M = {} /\ (R \cup M) \cap ToolsOf(t) = {}
  BY ToolIs DEF ToolsOf
<1>4. Range(t.open) = (R \cup M) \cup ToolsOf(t)
  BY ChannelsAre
<1> HIDE DEF R, M, a, b, c
<1>5. Closes(t, a \o b, R \cup M)
  BY <1>1, <1>3, ClosesBoth
<1>6. Closes(t, (a \o b) \o c, (R \cup M) \cup ToolsOf(t))
  BY <1>1, <1>3, <1>5, ClosesBoth
<1> QED
  BY <1>2, <1>4, <1>6

\* The output of a turn is a list of channels.
LEMMA OutputType ==
  ASSUME NEW t \in Translators
  PROVE  CollectOutput(t) \in Seq(Channels)
<1> DEFINE a == IF Opened(t, Reasoning) THEN <<Reasoning>> ELSE <<>>
           b == IF Opened(t, Message) THEN <<Message>> ELSE <<>>
           c == [i \in DOMAIN t.named |-> Tool(i - 1)]
<1>1. a \in Seq(Channels) /\ b \in Seq(Channels)
  BY ToolIs
<1>2. t.named \in Seq(Names) /\ Len(t.named) \in Nat /\ DOMAIN t.named = 1..Len(t.named)
  BY DEF Translators
<1>3. \A i \in 1..Len(t.named) : Tool(i - 1) \in Channels
  BY <1>2, ToolIs
<1>4. c \in [1..Len(t.named) -> Channels]
  BY <1>2, <1>3
<1>5. c \in Seq(Channels)
  BY <1>2, <1>4
<1>6. CollectOutput(t) = (a \o b) \o c
  BY DEF CollectOutput
<1> HIDE DEF a, b, c
<1> QED
  BY <1>1, <1>5, <1>6

\* The end of a turn: the items are closed, each once, and the last event has the output.
EndsTurn(t, type, n) ==
  /\ Retells(t, n.tr, t.open, t.named)
  /\ n.events \in Seq(ItemEvents \cup EndEvents) /\ Len(n.events) \in DOMAIN n.events
  /\ LET z == n.events[Len(n.events)]
     IN z \in EndEvents /\ z.type = type /\ z.output = CollectOutput(t)
  /\ \A i \in DOMAIN n.events : i # Len(n.events) =>
       /\ EventOf(n.events[i], n.tr, n.events[i].ch)
       /\ n.events[i].type \in CloseTypes
  /\ DoneOnce(n.events)
  /\ \A ch \in Range(t.open) : \E i \in DOMAIN n.events : n.events[i].type = "done" /\ n.events[i].ch = ch

\* finish and fail: the channels are closed, then the turn is.
LEMMA EndsIs ==
  ASSUME NEW t \in Translators, ToolsByIndex(t), NEW type \in {"completed", "failed"}
  PROVE  EndsTurn(t, type, Ends(t, type))
<1> DEFINE E == ItemEvents \cup EndEvents
           q == CloseAll(t)
           e == [type |-> type, seq |-> 0, output |-> CollectOutput(t)]
           all == Append(q, e)
           n == Ends(t, type)
<1>1. Closes(t, q, Range(t.open))
  BY CloseAllIs
<1>2. e \in EndEvents /\ e.type = type /\ e.output = CollectOutput(t)
  BY OutputType DEF EndEvents
<1>3. n = Numbered(t, all)
  BY DEF Ends
<1> HIDE DEF q, e
<1>4. q \in Seq(E) /\ e \in E
  BY <1>1, <1>2 DEF Closes
<1>5. Extends(q, e, all, E)
  BY <1>4, Appended
<1> HIDE DEF all, n
<1>6. NumbersAll(t, all, n)
  <2>1. all \in Seq(E)
    BY <1>5 DEF Extends
  <2> QED
    BY <2>1, <1>3, NumberedIs
<1> DEFINE z == Len(q) + 1
<1>7. /\ Len(n.events) = z /\ z \in DOMAIN n.events /\ z \notin DOMAIN q
      /\ all[z] = e
      /\ \A i \in DOMAIN q : i \in DOMAIN n.events /\ all[i] = q[i]
      /\ \A i \in DOMAIN n.events : i \in DOMAIN q \/ i = z
      /\ n.events \in Seq(E)
  BY <1>5, <1>6 DEF Extends, NumbersAll
<1>8. Retells(t, n.tr, t.open, t.named)
  BY <1>6 DEF NumbersAll, Retells
<1> HIDE DEF z
<1>9. n.events[z] \in EndEvents /\ n.events[z].type = type /\ n.events[z].output = CollectOutput(t)
  BY <1>2, <1>6, <1>7 DEF NumbersAll
<1>10. \A i \in DOMAIN q :
         /\ EventOf(n.events[i], n.tr, q[i].ch) /\ n.events[i].type = q[i].type
         /\ n.events[i].type \in CloseTypes /\ n.events[i].ch = q[i].ch
  <2> SUFFICES ASSUME NEW i \in DOMAIN q
               PROVE  /\ EventOf(n.events[i], n.tr, q[i].ch) /\ n.events[i].type = q[i].type
                      /\ n.events[i].type \in CloseTypes /\ n.events[i].ch = q[i].ch
    OBVIOUS
  <2>1. EventOf(q[i], t, q[i].ch) /\ q[i].type \in CloseTypes /\ q[i] \in ItemEvents
    BY <1>1 DEF Closes, EventOf
  <2>2. /\ n.events[i].type = q[i].type /\ n.events[i] \in ItemEvents /\ n.events[i].ch = q[i].ch
        /\ n.events[i].oi = q[i].oi /\ n.events[i].name = q[i].name
    BY <2>1, <1>6, <1>7 DEF NumbersAll
  <2> QED
    BY <2>1, <2>2, <1>8 DEF EventOf, Retells, Opened
<1>11. DoneOnce(n.events)
  <2> SUFFICES ASSUME NEW i \in DOMAIN n.events, NEW j \in DOMAIN n.events,
                      n.events[i].type = "done", n.events[j].type = "done",
                      n.events[i].ch = n.events[j].ch
               PROVE  i = j
    BY DEF DoneOnce
  <2>1. i \in DOMAIN q /\ j \in DOMAIN q
    BY <1>7, <1>9
  <2>2. q[i].type = "done" /\ q[j].type = "done" /\ q[i].ch = q[j].ch
    BY <2>1, <1>10
  <2> QED
    BY <2>1, <2>2, <1>1 DEF Closes, DoneOnce
<1>12. ASSUME NEW ch \in Range(t.open)
       PROVE  \E i \in DOMAIN n.events : n.events[i].type = "done" /\ n.events[i].ch = ch
  <2>1. PICK i \in DOMAIN q : q[i].type = "done" /\ q[i].ch = ch
    BY <1>1 DEF Closes
  <2> QED
    BY <2>1, <1>7, <1>10
<1>13. \A i \in DOMAIN n.events : i # Len(n.events) =>
         EventOf(n.events[i], n.tr, n.events[i].ch) /\ n.events[i].type \in CloseTypes
  BY <1>7, <1>10
<1> QED
  BY <1>7, <1>8, <1>9, <1>11, <1>12, <1>13 DEF EndsTurn, n, E

-----------------------------------------------------------------------------
(* What the steps do to the stitcher.                                        *)

\* The id of an item of a turn.
LEMMA IdOf ==
  ASSUME made \in Nat, NEW t \in Nat, NEW ch \in Channels
  PROVE  Id(t, ch) \in Ids
<1>1. ch = <<ch[1], ch[2]>> /\ ch[1] \in Marks /\ ch[2] \in Nat
  BY ChannelIs
<1> QED
  BY <1>1, IdType

\* The head and the tail of the inbox.
LEMMA InboxIs ==
  ASSUME StitchType, inbox # <<>>
  PROVE  /\ 1 \in DOMAIN inbox /\ Len(inbox) \in DOMAIN inbox /\ Head(inbox) = inbox[1]
         /\ DOMAIN inbox = 1..Len(inbox) /\ Len(inbox) \in Nat
         /\ \A i \in DOMAIN inbox : inbox[i] \in ItemEvents \cup EndEvents
         /\ Tail(inbox) \in Seq(ItemEvents \cup EndEvents) /\ Len(Tail(inbox)) = Len(inbox) - 1
         /\ DOMAIN Tail(inbox) = 1..(Len(inbox) - 1)
         /\ \A i \in DOMAIN Tail(inbox) : i + 1 \in DOMAIN inbox /\ Tail(inbox)[i] = inbox[i + 1]
<1> DEFINE E == ItemEvents \cup EndEvents
<1>0. inbox \in Seq(E)
  BY DEF StitchType
<1> HIDE DEF E
<1> QED
  BY <1>0 DEF E

\* The next event is about an open channel and, for a call, about its buffer, or the next one.
LEMMA HeadFits ==
  ASSUME RequestType, LoopType, StitchType, TurnInv, pc = "streaming", inbox # <<>>,
         Head(inbox).type \notin Terminal
  PROVE  LET e == Head(inbox) IN
         /\ EventOf(e, tr, e.ch) /\ Id(turn, e.ch) \in Ids /\ e.ch \in Channels
         /\ IsTool(e.ch) /\ e.type = "added" => e.ch[2] = Len(st.buf)
         /\ IsTool(e.ch) /\ e.type # "added" =>
              e.ch[2] + 1 \in DOMAIN st.buf /\ RawFits(st.buf[e.ch[2] + 1], e.oi)
<1> DEFINE e == Head(inbox)
<1>1. e = inbox[1] /\ 1 \in DOMAIN inbox
  BY InboxIs
<1>2. ChannelsOpen /\ InboxFits /\ HeldBack
  BY DEF TurnInv, InTurn
<1>3. EventOf(e, tr, e.ch)
  BY <1>1, <1>2 DEF InboxFits, EventFits
<1>4. e.ch \in Channels /\ e.oi \in Nat
  BY <1>3 DEF EventOf, ItemEvents
<1>5. Id(turn, e.ch) \in Ids
  BY <1>4, IdOf DEF RequestType, LoopType
<1>6. tr \in Translators /\ st.buf \in Seq(Buffers) /\ Len(st.buf) \in Nat /\ Len(tr.named) \in Nat
      /\ DOMAIN st.buf = 1..Len(st.buf) /\ tr.open \in Seq(Channels)
  BY DEF StitchType, Stitchers, Translators
<1>7. ASSUME IsTool(e.ch) PROVE e.ch[2] \in Nat /\ e.ch = Tool(e.ch[2]) /\ e.ch[2] < Len(tr.named)
  <2>1. e.ch[2] \in Nat /\ e.ch = Tool(e.ch[2])
    BY <1>4, <1>7, ChannelIs
  <2> QED
    BY <2>1, <1>2, <1>3 DEF ChannelsOpen, ToolsByIndex, EventOf
<1>8. ASSUME IsTool(e.ch), e.type = "added" PROVE e.ch[2] = Len(st.buf)
  <2> DEFINE k == e.ch[2]
             m == Len(st.buf)
  <2>1. k \in Nat /\ e.ch = Tool(k) /\ k < Len(tr.named)
    BY <1>7, <1>8
  <2>2. ~(k < m)
    <3>1. ~Heard(Tool(k))
      BY <2>1, <1>1, <1>8 DEF Heard, AddedWaits
    <3> QED
      BY <3>1, <2>1, <1>2 DEF HeldBack
  <2>3. CASE m < k
    <3>1. m < Len(tr.named) /\ m # k
      BY <2>3, <2>1, <1>6
    <3>2. Opened(tr, Tool(m))
      BY <3>1, <1>2, <1>6 DEF ChannelsOpen, ToolsByIndex
    <3>3. Tool(m) # Tool(k)
      BY <3>1, ToolIs
    <3>4. Heard(Tool(m))
      BY <3>2, <3>3, <2>1, <1>1 DEF Heard, AddedWaits
    <3>5. m < m
      BY <3>4, <1>2, <1>6 DEF HeldBack
    <3> QED
      BY <3>5, <1>6
  <2> QED
    BY <2>1, <2>2, <2>3, <1>6
<1>9. ASSUME IsTool(e.ch), e.type # "added"
      PROVE  e.ch[2] + 1 \in DOMAIN st.buf /\ RawFits(st.buf[e.ch[2] + 1], e.oi)
  <2> DEFINE k == e.ch[2]
  <2>1. k \in Nat /\ e.ch = Tool(k) /\ k < Len(tr.named)
    BY <1>7, <1>9
  <2>2. Heard(Tool(k))
    BY <2>1, <1>1, <1>3, <1>9 DEF Heard, AddedWaits, EventOf
  <2>3. k < Len(st.buf) /\ HeldFits(k)
    BY <2>1, <2>2, <1>2 DEF HeldBack
  <2>4. k + 1 \in DOMAIN st.buf
    BY <2>1, <2>3, <1>6
  <2>5. RawFits(st.buf[k + 1], e.oi)
    <3>1. CASE st.buf[k + 1].class = "unknown"
      <4>1. PICK p \in DOMAIN tr.open : tr.open[p] = Tool(k) /\ RawFits(st.buf[k + 1], p - 1)
        BY <3>1, <2>3 DEF HeldFits, BufferOf
      <4>2. p = e.oi + 1
        BY <4>1, <2>1, <1>2, <1>3 DEF ChannelsOpen, OpensOnce, EventOf
      <4>3. p - 1 = e.oi
        BY <4>2, <1>4
      <4> QED
        BY <4>1, <4>3
    <3>2. CASE st.buf[k + 1].class # "unknown"
      BY <3>2 DEF RawFits
    <3> QED
      BY <3>1, <3>2
  <2> QED
    BY <2>4, <2>5
<1> QED
  BY <1>3, <1>4, <1>5, <1>8, <1>9

\* An event of an item, absorbed.
AbsorbsText(s, r, e) == SameButSent(s, r) /\ Sends(s, r, {e.type}, e.oi + s.offset, Id(turn, e.ch))

\* run_turn on the next event.
LEMMA AbsorbIs ==
  ASSUME RequestType, LoopType, StitchType, TurnInv, pc = "streaming", inbox # <<>>,
         Head(inbox).type \notin Terminal
  PROVE  LET e == Head(inbox) IN
         /\ Absorb(st, e) \in Stitchers
         /\ ~IsTool(e.ch) => AbsorbsText(st, Absorb(st, e), e)
         /\ IsTool(e.ch) => \E b, T : AbsorbsTool(st, Absorb(st, e), e, b, T)
<1> DEFINE e == Head(inbox)
           r == Absorb(st, e)
<1>0. st \in Stitchers
  BY DEF StitchType
<1>1. /\ EventOf(e, tr, e.ch) /\ Id(turn, e.ch) \in Ids
      /\ IsTool(e.ch) /\ e.type = "added" => e.ch[2] = Len(st.buf)
      /\ IsTool(e.ch) /\ e.type # "added" =>
           e.ch[2] + 1 \in DOMAIN st.buf /\ RawFits(st.buf[e.ch[2] + 1], e.oi)
  BY HeadFits
<1>2. e \in ItemEvents
  BY <1>1 DEF EventOf
<1> HIDE DEF e
<1>3. CASE ~IsTool(e.ch)
  <2>1. r = Forward(st, e)
    BY <1>3 DEF Absorb
  <2> HIDE DEF r
  <2>2. AbsorbsText(st, r, e)
    BY <2>1, <1>0, <1>1, <1>2, ForwardIs DEF AbsorbsText
  <2> QED
    BY <2>2, <1>3 DEF AbsorbsText, SameButSent, r, e
<1>4. CASE IsTool(e.ch)
  <2>1. r = OnToolEvent(st, e)
    BY <1>4 DEF Absorb
  <2> HIDE DEF r
  <2>2. \E b, T : AbsorbsTool(st, r, e, b, T)
    <3>1. CASE e.type = "added"
      BY <3>1, <2>1, <1>0, <1>1, <1>2, <1>4, ToolOpened
    <3>2. CASE e.type = "done"
      BY <3>2, <2>1, <1>0, <1>1, <1>2, <1>4, ToolClosed
    <3>3. CASE e.type \notin {"added", "done"}
      BY <3>3, <2>1, <1>0, <1>1, <1>2, <1>4, ToolHeld
    <3> QED
      BY <3>1, <3>2, <3>3
  <2>3. r \in Stitchers
    BY <2>2 DEF AbsorbsTool
  <2> QED
    BY <2>2, <2>3, <1>4 DEF r, e
<1> QED
  BY <1>3, <1>4

\* A slot is claimed, and told of.
Claims(s, r, T, id) ==
  /\ r \in Stitchers /\ r.offset = s.offset + 1 /\ r.buf = s.buf /\ r.pending = s.pending
  /\ r.client = s.client /\ r.placed = s.placed
  /\ Sends(s, r, T, s.offset, id)
Shifts(s, r, n) == r = [s EXCEPT !.offset = n]

\* A stitcher that has only claimed a slot.
LEMMA Shifted ==
  ASSUME NEW s \in Stitchers, NEW n \in Nat, NEW r, Shifts(s, r, n)
  PROVE  /\ r \in Stitchers /\ r.offset = n /\ r.seq = s.seq /\ r.sent = s.sent
         /\ r.buf = s.buf /\ r.pending = s.pending /\ r.client = s.client /\ r.placed = s.placed
<1>0. /\ s.seq \in Nat /\ s.offset \in Nat /\ s.buf \in Seq(Buffers) /\ s.pending \in Seq(Channels)
      /\ s.client \in BOOLEAN /\ s.placed \in SUBSET [oi : Nat, item : PlainItems] /\ s.sent \in Seq(Sent)
  BY DEF Stitchers
<1>1. s = [seq |-> s.seq, offset |-> s.offset, buf |-> s.buf, pending |-> s.pending,
           client |-> s.client, placed |-> s.placed, sent |-> s.sent]
  BY DEF Stitchers
<1>2. r = [seq |-> s.seq, offset |-> n, buf |-> s.buf, pending |-> s.pending,
           client |-> s.client, placed |-> s.placed, sent |-> s.sent]
  BY <1>1 DEF Shifts
<1>3. r \in Stitchers
  BY <1>0, <1>2 DEF Stitchers
<1> QED
  BY <1>2, <1>3

\* claim_slot and the first events of the item.
LEMMA ClaimIs ==
  ASSUME NEW s \in Stitchers, NEW types \in Seq(SentTypes), NEW id \in Ids
  PROVE  Claims(s, Claim(s, types, id), Range(types), id)
<1> DEFINE m == [s EXCEPT !.offset = s.offset + 1]
           r == Claim(s, types, id)
<1>0. s.offset \in Nat /\ s.offset + 1 \in Nat
  BY DEF Stitchers
<1>1. r = Send(m, types, s.offset, id)
  BY DEF Claim
<1>2. Shifts(s, m, s.offset + 1)
  BY DEF Shifts
<1> HIDE DEF m, r
<1>3. /\ m \in Stitchers /\ m.offset = s.offset + 1 /\ m.seq = s.seq /\ m.sent = s.sent
      /\ m.buf = s.buf /\ m.pending = s.pending /\ m.client = s.client /\ m.placed = s.placed
  BY <1>0, <1>2, Shifted
<1>4. SameButSent(m, r) /\ Sends(m, r, Range(types), s.offset, id)
  BY <1>0, <1>1, <1>3, SendSends
<1>5. Sends(s, m, {}, s.offset, id)
  BY <1>3, SendsNothing
<1>6. Sends(s, r, {} \cup Range(types), s.offset, id) /\ {} \cup Range(types) = Range(types)
  BY <1>4, <1>5, SendsTwice
<1> QED
  BY <1>3, <1>4, <1>6 DEF Claims, SameButSent, r

\* The stitcher of a new turn.
Resets(s, r) == r = [s EXCEPT !.buf = <<>>, !.pending = <<>>, !.client = FALSE, !.placed = {}]

\* A stitcher at the start of a turn.
LEMMA ResetIs ==
  ASSUME NEW s \in Stitchers, NEW r, Resets(s, r)
  PROVE  /\ r \in Stitchers /\ r.seq = s.seq /\ r.sent = s.sent /\ r.offset = s.offset
         /\ r.buf = <<>> /\ r.pending = <<>>
<1>0. /\ s.seq \in Nat /\ s.offset \in Nat /\ s.buf \in Seq(Buffers) /\ s.pending \in Seq(Channels)
      /\ s.client \in BOOLEAN /\ s.placed \in SUBSET [oi : Nat, item : PlainItems] /\ s.sent \in Seq(Sent)
  BY DEF Stitchers
<1>1. s = [seq |-> s.seq, offset |-> s.offset, buf |-> s.buf, pending |-> s.pending,
           client |-> s.client, placed |-> s.placed, sent |-> s.sent]
  BY DEF Stitchers
<1>2. r = [seq |-> s.seq, offset |-> s.offset, buf |-> <<>>, pending |-> <<>>,
           client |-> FALSE, placed |-> {}, sent |-> s.sent]
  BY <1>1 DEF Resets
<1>3. r \in Stitchers
  BY <1>0, <1>2 DEF Stitchers
<1> QED
  BY <1>2, <1>3

\* The stitcher after the completed event of a turn.
Places(s, r, output) ==
  /\ r \in Stitchers /\ r.seq = s.seq /\ r.sent = s.sent /\ r.buf = s.buf /\ r.pending = s.pending
  /\ r.offset = s.offset + Len(output) /\ r.placed = TurnOutput(s, output)

Settles(s, r, p, c, n) == r = [s EXCEPT !.placed = p, !.client = c, !.offset = n]

\* A stitcher whose turn has been placed, field by field.
LEMMA Settled ==
  ASSUME NEW s \in Stitchers, NEW p, NEW c, NEW n, NEW r, Settles(s, r, p, c, n)
  PROVE  r = [seq |-> s.seq, offset |-> n, buf |-> s.buf, pending |-> s.pending,
              client |-> c, placed |-> p, sent |-> s.sent]
BY DEF Stitchers, Settles

\* The stitcher after a turn.
LEMMA PlacedIs ==
  ASSUME NEW s \in Stitchers, NEW output \in Seq(Channels), made \in Nat, turn \in Nat
  PROVE  Places(s, Placed(s, output), output)
<1> DEFINE r == Placed(s, output)
           p == TurnOutput(s, output)
           c == \E i \in DOMAIN output : IsTool(output[i]) /\ ~Ours(s, output[i])
<1>0. /\ s.seq \in Nat /\ s.offset \in Nat /\ s.buf \in Seq(Buffers) /\ s.pending \in Seq(Channels)
      /\ s.client \in BOOLEAN /\ s.placed \in SUBSET [oi : Nat, item : PlainItems] /\ s.sent \in Seq(Sent)
      /\ Len(output) \in Nat
  BY DEF Stitchers
<1>1. s = [seq |-> s.seq, offset |-> s.offset, buf |-> s.buf, pending |-> s.pending,
           client |-> s.client, placed |-> s.placed, sent |-> s.sent]
  BY DEF Stitchers
<1>2. r = [seq |-> s.seq, offset |-> s.offset + Len(output), buf |-> s.buf, pending |-> s.pending,
           client |-> c, placed |-> p, sent |-> s.sent]
  <2>1. Settles(s, r, p, c, s.offset + Len(output))
    BY DEF Placed, Settles
  <2> HIDE DEF r, p, c
  <2> QED
    BY <2>1, Settled
<1>3. p \in SUBSET [oi : Nat, item : PlainItems]
  <2> SUFFICES ASSUME NEW x \in p PROVE x \in [oi : Nat, item : PlainItems]
    OBVIOUS
  <2> DEFINE Kind(i) == IF IsTool(output[i]) THEN "function" ELSE output[i][1]
  <2>1. PICK i \in DOMAIN output :
          x = [oi |-> s.offset + i - 1, item |-> Plain(Kind(i), Id(turn, output[i]))]
    BY DEF TurnOutput
  <2>2. output[i] \in Channels /\ i \in Nat /\ i >= 1
    BY <1>0
  <2>3. Id(turn, output[i]) \in Ids
    BY <2>2, IdOf
  <2>4. Kind(i) \in {"reasoning", "message", "function"}
    <3>1. ~IsTool(output[i]) => output[i] \in {Reasoning, Message}
      BY <2>2, ChannelIs
    <3> QED
      BY <3>1 DEF Reasoning, Message
  <2> HIDE DEF Kind
  <2>5. Plain(Kind(i), Id(turn, output[i])) \in PlainItems
    BY <2>3, <2>4 DEF Plain, PlainItems
  <2>6. s.offset + i - 1 \in Nat
    BY <2>2, <1>0
  <2> QED
    BY <2>1, <2>5, <2>6
<1>4. c \in BOOLEAN
  OBVIOUS
<1>5. s.offset + Len(output) \in Nat
  BY <1>0
<1> HIDE DEF p, c, r
<1>6. r \in Stitchers
  BY <1>0, <1>2, <1>3, <1>4, <1>5 DEF Stitchers
<1> QED
  BY <1>2, <1>6 DEF Places, p, r

\* A finite list has finitely many items.
LEMMA PlacedFinite ==
  ASSUME NEW s, NEW output \in Seq(Channels)
  PROVE  IsFiniteSet(TurnOutput(s, output)) /\ Cardinality(TurnOutput(s, output)) \in Nat
<1> DEFINE S == {j \in DOMAIN output : ~Ours(s, output[j])}
           f == [i \in S |-> [oi |-> s.offset + i - 1,
                   item |-> Plain(IF IsTool(output[i]) THEN "function" ELSE output[i][1], Id(turn, output[i]))]]
<1>1. IsFiniteSet(DOMAIN output)
  <2>1. DOMAIN output = 1..Len(output) /\ Len(output) \in Nat /\ 1 \in Int /\ Len(output) \in Int
    OBVIOUS
  <2> QED
    BY <2>1, FS_Interval
<1>2. IsFiniteSet(S)
  BY <1>1, FS_Subset
<1>3. TurnOutput(s, output) = {f[i] : i \in S}
  BY DEF TurnOutput
<1> HIDE DEF S, f
<1>4. IsFiniteSet({f[i] : i \in S})
  <2> DEFINE T == {f[i] : i \in S}
  <2>1. DOMAIN f = S
    BY DEF f
  <2>2. f = [i \in S |-> f[i]]
    BY DEF f
  <2>3. f \in [S -> T]
    BY <2>2
  <2>4. f \in Surjection(S, T)
    BY <2>3 DEF Surjection
  <2> QED
    BY <2>4, <1>2, FS_Surjection
<1> QED
  BY <1>3, <1>4, FS_CardinalityType

-----------------------------------------------------------------------------
(* Types, and the numbers of the stream.                                     *)

\* A set of numbers has a least one.
LEMMA Least ==
  ASSUME NEW T, T \subseteq Nat, T # {}
  PROVE  \E x \in T : \A y \in T : x <= y
<1>1. IsWellFoundedOn({ss \in Nat \X Nat : ss[1] < ss[2]}, Nat)
  BY NatLessThanWellFounded DEF OpToRel
<1>2. PICK x \in T : \A y \in T : ~(<<y, x>> \in {ss \in Nat \X Nat : ss[1] < ss[2]})
  BY <1>1, WFMin
<1>3. \A y \in T : ~(y < x)
  BY <1>2
<1> QED
  BY <1>3

\* Min is the least one.
LEMMA MinIs ==
  ASSUME NEW T, T \subseteq Nat, T # {}
  PROVE  Min(T) \in T /\ \A y \in T : Min(T) <= y
BY Least DEF Min

\* The input of a request is the history and its own items.
LEMMA InputIs ==
  ASSUME RequestType
  PROVE  Input \in Seq(Items) /\ Join(past, req.items, Input) /\ Len(Input) \in Nat
<1>1. past \in Seq(Items) /\ req.items \in Seq(Items)
  BY DEF RequestType, Requests
<1>2. Input \in Seq(Items) /\ Join(past, req.items, Input)
  BY <1>1, Joined DEF Input
<1> QED
  BY <1>2

\* The next answer in the input.
LEMMA AnswerIs ==
  ASSUME RequestType, LoopType, Answers # {}
  PROVE  /\ Min(Answers) \in Nat /\ at <= Min(Answers) /\ Min(Answers) \in DOMAIN Input
         /\ This.kind = "answer" /\ <<"resume", Min(Answers)>> \in Marks \X Nat
<1>1. Len(Input) \in Nat /\ at \in Nat \ {0} /\ DOMAIN Input = 1..Len(Input)
  BY InputIs DEF LoopType
<1>2. Answers \subseteq Nat
  BY <1>1 DEF Answers
<1>3. Min(Answers) \in Answers
  BY <1>2, MinIs
<1>4. Min(Answers) \in at..Len(Input) /\ Input[Min(Answers)].kind = "answer"
  BY <1>3 DEF Answers
<1>5. Min(Answers) \in Nat /\ at <= Min(Answers) /\ Min(Answers) \in 1..Len(Input)
  BY <1>1, <1>4
<1> QED
  BY <1>1, <1>4, <1>5 DEF This, Marks

\* The ids of the items the loop makes itself.
LEMMA LoopIds ==
  ASSUME RequestType, LoopType
  PROVE  ListId \in Ids /\ (Answers # {} => ResumeId \in Ids)
<1>1. 0 \in Nat /\ "list" \in Marks /\ "resume" \in Marks /\ made \in Nat
  BY DEF Marks, RequestType
<1>2. ListId \in Ids
  BY <1>1, IdType DEF ListId
<1>3. Answers # {} => ResumeId \in Ids
  BY <1>1, IdType, AnswerIs DEF ResumeId
<1> QED
  BY <1>2, <1>3

\* A call of the turn that has been put off to its end.
LEMMA PendingIs ==
  ASSUME McpTypes, TurnInv, pc \in {"calls", "calling"}, NEW i \in DOMAIN st.pending
  PROVE  LET ch == st.pending[i] IN
         /\ ch \in Channels /\ ch[2] \in Nat /\ ch = Tool(ch[2]) /\ Opened(tr, ch)
         /\ ch[2] + 1 \in DOMAIN st.buf /\ Buffered(st, ch) = BufferOf(ch[2]) /\ Buffered(st, ch) \in Buffers
         /\ ch[2] + 1 \in DOMAIN tr.named /\ tr.named[ch[2] + 1] \in Names
         /\ HeldFits(ch[2]) /\ Id(turn, ch) \in Ids
<1> DEFINE ch == st.pending[i]
<1>0. /\ st.pending \in Seq(Channels) /\ st.buf \in Seq(Buffers) /\ tr.named \in Seq(Names)
      /\ Len(tr.named) \in Nat /\ Len(st.buf) \in Nat
      /\ DOMAIN st.buf = 1..Len(st.buf) /\ DOMAIN tr.named = 1..Len(tr.named)
  BY DEF McpTypes, StitchType, Stitchers, Translators
<1>1. ChannelsOpen /\ HeldBack /\ Pended /\ inbox = <<>>
  BY DEF TurnInv, InTurn, InboxFits
<1>2. ch \in Channels /\ IsTool(ch) /\ Closed(ch)
  BY <1>0, <1>1 DEF Pended
<1> HIDE DEF ch
<1>3. ch[2] \in Nat /\ ch = Tool(ch[2]) /\ Opened(tr, ch)
  BY <1>2, ChannelIs DEF Closed
<1>4. Heard(ch)
  BY <1>1, <1>3 DEF Heard, AddedWaits
<1>5. ch[2] < Len(st.buf) /\ HeldFits(ch[2]) /\ ch[2] < Len(tr.named)
  BY <1>1, <1>3, <1>4 DEF HeldBack, ChannelsOpen, ToolsByIndex
<1>6. ch[2] + 1 \in DOMAIN st.buf /\ ch[2] + 1 \in DOMAIN tr.named
  BY <1>0, <1>3, <1>5
<1>7. st.buf[ch[2] + 1] \in Buffers /\ tr.named[ch[2] + 1] \in Names
  BY <1>0, <1>6
<1>8. Id(turn, ch) \in Ids
  BY <1>2, IdOf DEF McpTypes, RequestType, LoopType
<1> QED
  BY <1>2, <1>3, <1>5, <1>6, <1>7, <1>8 DEF ch, Buffered, BufferOf

\* The call in hand: its id, its slot and its tool.
LEMMA CurrentIs ==
  ASSUME McpTypes, TurnInv, RanInv, AtServer
  PROVE  /\ Current.id \in Ids /\ Current.oi \in Nat
         /\ pc = "resuming" => Current.id = ResumeId /\ Current.oi = Len(out) /\ Answers # {}
         /\ pc = "calling" =>
              /\ at \in DOMAIN st.pending
              /\ Current.id = Id(turn, NextCall) /\ Current.oi = Buffered(st, NextCall).oi
              /\ Current.name = tr.named[NextCall[2] + 1] /\ Current.of = NoApproval
<1>1. CASE pc = "resuming"
  <2>1. Answers # {} /\ Len(out) \in Nat
    BY <1>1 DEF RanInv, McpTypes, RequestType
  <2>2. ResumeId \in Ids
    BY <2>1, LoopIds DEF McpTypes
  <2>3. Current.id = ResumeId /\ Current.oi = Len(out)
    BY <1>1 DEF Current
  <2> QED
    BY <1>1, <2>1, <2>2, <2>3
<1>2. CASE pc = "calling"
  <2>1. at <= Len(st.pending) /\ at \in Nat \ {0} /\ Len(st.pending) \in Nat /\ DOMAIN st.pending = 1..Len(st.pending)
    BY <1>2 DEF RanInv, More, McpTypes, LoopType, StitchType, Stitchers
  <2>2. at \in DOMAIN st.pending
    BY <2>1
  <2>3. Buffered(st, NextCall) \in Buffers /\ Id(turn, NextCall) \in Ids
    BY <2>2, <1>2, PendingIs DEF NextCall
  <2>4. /\ Current.id = Id(turn, NextCall) /\ Current.oi = Buffered(st, NextCall).oi
        /\ Current.name = tr.named[NextCall[2] + 1] /\ Current.of = NoApproval
    BY <1>2 DEF Current
  <2>5. Current.oi \in Nat
    BY <2>3, <2>4 DEF Buffers
  <2> QED
    BY <1>2, <2>2, <2>3, <2>4, <2>5
<1> QED
  BY <1>1, <1>2 DEF AtServer

\* The lists of events that the loop sends for its own items.
ListOpening == <<"added", "list_started">>
ListEnding == <<"list_ended", "done">>
CallOpening == <<"added", "args_delta", "args_done">>
CallRefusing == <<"added", "call_started", "call_ended", "done">>
ApprovalAsking == <<"added", "done">>
CallEnding == <<"call_started", "call_ended", "done">>

\* The groups of events that the loop sends.
LEMMA ToldLists ==
  /\ ListOpening \in Seq(SentTypes)
  /\ Range(ListOpening) = {"added", "list_started"}
  /\ ListEnding \in Seq(SentTypes)
  /\ Range(ListEnding) = {"list_ended", "done"}
  /\ CallOpening \in Seq(SentTypes)
  /\ Range(CallOpening) = {"added", "args_delta", "args_done"}
  /\ CallRefusing \in Seq(SentTypes)
  /\ Range(CallRefusing) = {"added", "call_started", "call_ended", "done"}
  /\ ApprovalAsking \in Seq(SentTypes)
  /\ Range(ApprovalAsking) = {"added", "done"}
  /\ CallEnding \in Seq(SentTypes)
  /\ Range(CallEnding) = {"call_started", "call_ended", "done"}
<1>1. {"added", "list_started", "list_ended", "done", "args_delta", "args_done", "call_started", "call_ended"}
        \subseteq SentTypes
  BY DEF SentTypes, ItemTypes
<1>2. \A a, b \in SentTypes : <<a, b>> \in Seq(SentTypes) /\ Range(<<a, b>>) = {a, b}
  BY DEF Range
<1>3. \A a, b, c \in SentTypes : <<a, b, c>> \in Seq(SentTypes) /\ Range(<<a, b, c>>) = {a, b, c}
  BY DEF Range
<1>4. \A a, b, c, d \in SentTypes :
        <<a, b, c, d>> \in Seq(SentTypes) /\ Range(<<a, b, c, d>>) = {a, b, c, d}
  BY DEF Range
<1> QED
  BY <1>1, <1>2, <1>3, <1>4 DEF ListOpening, ListEnding, CallOpening, CallRefusing, ApprovalAsking,
     CallEnding

\* What was sent is numbered on, and a terminal event is the last of a response that is over.
Numbers(s, r, over) ==
  /\ r \in Stitchers
  /\ NumberedBy(s) => NumberedBy(r)
  /\ Quiet(s) => \A i \in DOMAIN r.sent : r.sent[i].type \in Terminal => i = Len(r.sent) /\ over

\* A step without a terminal event keeps the numbers.
LEMMA QuietNumbers ==
  ASSUME NEW s, NEW r \in Stitchers, NumberedBy(s) => NumberedBy(r), Quiet(s) => Quiet(r), NEW over
  PROVE  Numbers(s, r, over)
BY DEF Numbers, Quiet

\* So does one that sends a group of events.
LEMMA SendNumbers ==
  ASSUME NEW s, NEW r \in Stitchers, NEW T, T \cap Terminal = {}, NEW oi, NEW id,
         Sends(s, r, T, oi, id), NEW over
  PROVE  Numbers(s, r, over)
BY QuietNumbers DEF Sends

\* A terminal envelope is the last event.
LEMMA EnvelopeNumbers ==
  ASSUME NEW s, NEW m \in Stitchers, NumberedBy(s) => NumberedBy(m), Quiet(s) => Quiet(m),
         NEW type \in Terminal
  PROVE  Numbers(s, Envelope(m, type), TRUE) /\ SameButSent(m, Envelope(m, type))
<1>1. type \in SentTypes \ {"added", "done"}
  BY DEF SentTypes, Terminal
<1> DEFINE r == Envelope(m, type)
<1>2. /\ SameButSent(m, r) /\ (NumberedBy(m) => NumberedBy(r))
      /\ Quiet(m) => \A i \in DOMAIN r.sent : r.sent[i].type \in Terminal => i = Len(r.sent)
  BY <1>1, EnvelopeSends
<1> HIDE DEF r
<1>3. Numbers(s, r, TRUE)
  BY <1>2 DEF Numbers, SameButSent
<1> QED
  BY <1>2, <1>3 DEF r

\* The stitcher of a response that has begun.
LEMMA NewStitcherIs ==
  /\ NewStitcher \in Stitchers /\ NumberedBy(NewStitcher) /\ Quiet(NewStitcher)
  /\ \A type : ToldBy(NewStitcher, type) = {}
<1> DEFINE s == NewStitcher
<1>1. /\ s.seq = 0 /\ s.offset = 0 /\ s.buf = <<>> /\ s.pending = <<>> /\ s.client = FALSE
      /\ s.placed = {} /\ s.sent = <<>>
  BY DEF NewStitcher
<1>2. s \in Stitchers
  BY DEF NewStitcher, Stitchers
<1>3. Len(s.sent) = 0 /\ DOMAIN s.sent = {}
  BY <1>1
<1> QED
  BY <1>1, <1>2, <1>3 DEF NumberedBy, Quiet, ToldBy

Begun(s) ==
  /\ s \in Stitchers /\ NumberedBy(s) /\ Quiet(s) /\ s.offset = 0
  /\ ToldBy(s, "added") = {} /\ ToldBy(s, "done") = {}

\* The first two envelopes of a response.
LEMMA BegunIs == Begun(Envelope(Envelope(NewStitcher, "created"), "in_progress"))
<1> DEFINE s == NewStitcher
           m == Envelope(s, "created")
           r == Envelope(m, "in_progress")
<1>1. {"created", "in_progress"} \subseteq SentTypes \ {"added", "done"}
      /\ {"created", "in_progress"} \cap Terminal = {}
  BY DEF SentTypes, ItemTypes, Terminal
<1>2. /\ s \in Stitchers /\ NumberedBy(s) /\ Quiet(s) /\ s.offset = 0
      /\ ToldBy(s, "added") = {} /\ ToldBy(s, "done") = {}
  BY NewStitcherIs DEF NewStitcher
<1> HIDE DEF s
<1>3. /\ SameButSent(s, m) /\ NumberedBy(m) /\ Quiet(m)
      /\ ToldBy(m, "added") = {} /\ ToldBy(m, "done") = {}
  BY <1>1, <1>2, EnvelopeSends
<1> HIDE DEF m
<1>4. m \in Stitchers /\ m.offset = 0
  BY <1>2, <1>3 DEF SameButSent
<1>5. /\ SameButSent(m, r) /\ NumberedBy(r) /\ Quiet(r)
      /\ ToldBy(r, "added") = {} /\ ToldBy(r, "done") = {}
  BY <1>1, <1>3, <1>4, EnvelopeSends
<1> HIDE DEF r
<1> QED
  BY <1>4, <1>5 DEF Begun, SameButSent, r, m, s

\* What each action does to the stitcher.
ListToldBy(s, r) == SameButSent(s, r) /\ Sends(s, r, {"list_ended", "done"}, 0, ListId)

\* The end of a listing.
LEMMA ListIsTold ==
  ASSUME McpTypes
  PROVE  LET told == Send(st, ListEnding, 0, ListId) IN
         /\ ListToldBy(st, told) /\ told \in Stitchers
         /\ NumberedBy(st) => NumberedBy(told)
         /\ Quiet(st) => Quiet(told)
<1> DEFINE told == Send(st, ListEnding, 0, ListId)
<1>1. st \in Stitchers /\ ListId \in Ids /\ 0 \in Nat
  BY LoopIds DEF McpTypes, StitchType
<1>2. ListToldBy(st, told)
  <2>1. ListEnding \in Seq(SentTypes) /\ Range(ListEnding) = {"list_ended", "done"}
    BY ToldLists
  <2>2. SameButSent(st, told) /\ Sends(st, told, Range(ListEnding), 0, ListId)
    BY <1>1, <2>1, SendSends
  <2> QED
    BY <2>1, <2>2 DEF ListToldBy
<1>3. {"list_ended", "done"} \cap Terminal = {}
  BY DEF Terminal
<1> HIDE DEF told
<1> QED
  BY <1>2, <1>3 DEF ListToldBy, SameButSent, Sends, told

\* A request that starts, or is refused.
LEMMA StartEffect ==
  ASSUME Starts
  PROVE  IF pc' = "idle" THEN Numbers(NewStitcher, st', TRUE) ELSE pc' = "discover" /\ Begun(st')
<1>1. \/ pc' = "idle" /\ st' = Envelope(NewStitcher, "error")
      \/ pc' = "discover" /\ st' = Envelope(Envelope(NewStitcher, "created"), "in_progress")
  BY DEF Starts
<1>2. Numbers(NewStitcher, Envelope(NewStitcher, "error"), TRUE)
  BY NewStitcherIs, EnvelopeNumbers DEF Terminal
<1> QED
  BY <1>1, <1>2, BegunIs

\* What the steps of a listing send.
LEMMA ListEffects ==
  ASSUME McpTypes
  PROVE  /\ Lists => Claims(st, st', {"added", "list_started"}, ListId)
         /\ ListReturns => IF pc' = "idle" THEN Numbers(st, st', TRUE)
                           ELSE pc' = "resume" /\ ListToldBy(st, st')
         /\ ListFails => Numbers(st, st', TRUE)
<1> DEFINE told == Send(st, ListEnding, 0, ListId)
<1>0. st \in Stitchers /\ ListId \in Ids
  BY LoopIds DEF McpTypes, StitchType
<1>1. Lists => Claims(st, st', {"added", "list_started"}, ListId)
  <2>1. Lists => st' = Claim(st, ListOpening, ListId)
    BY DEF Lists, ListOpening
  <2>2. Claims(st, Claim(st, ListOpening, ListId), {"added", "list_started"}, ListId)
    <3>1. ListOpening \in Seq(SentTypes) /\ Range(ListOpening) = {"added", "list_started"}
      BY ToldLists
    <3>2. Claims(st, Claim(st, ListOpening, ListId), Range(ListOpening), ListId)
      BY <1>0, <3>1, ClaimIs
    <3> QED
      BY <3>1, <3>2
  <2> QED
    BY <2>1, <2>2
<1>2. Numbers(st, Envelope(told, "failed"), TRUE)
  BY ListIsTold, EnvelopeNumbers DEF Terminal
<1>3. ListReturns => \/ pc' = "resume" /\ st' = told
                     \/ pc' = "idle" /\ st' = Envelope(told, "failed")
  BY DEF ListReturns, ListEnding
<1>4. ListFails => st' = Envelope(told, "failed")
  BY DEF ListFails, ListEnding
<1>5. ListToldBy(st, told)
  BY ListIsTold
<1> HIDE DEF told
<1> QED
  BY <1>1, <1>2, <1>3, <1>4, <1>5

\* What the answers to approvals send.
LEMMA ResumeEffects ==
  ASSUME McpTypes
  PROVE  /\ ResumesUnknown => Numbers(st, st', TRUE)
         /\ ResumesCall => Claims(st, st', {"added", "args_delta", "args_done"}, ResumeId)
         /\ ResumesRefused => Claims(st, st', {"added", "call_started", "call_ended", "done"}, ResumeId)
<1>0. st \in Stitchers /\ (Answers # {} => ResumeId \in Ids)
  BY LoopIds DEF McpTypes, StitchType
<1>1. ResumesUnknown => Numbers(st, st', TRUE)
  <2>1. ResumesUnknown => st' = Envelope(st, "error")
    BY DEF ResumesUnknown
  <2>2. Numbers(st, Envelope(st, "error"), TRUE)
    BY <1>0, EnvelopeNumbers DEF Terminal
  <2> QED
    BY <2>1, <2>2
<1>2. ASSUME ResumesCall PROVE Claims(st, st', {"added", "args_delta", "args_done"}, ResumeId)
  <2>1. st' = Claim(st, CallOpening, ResumeId) /\ ResumeId \in Ids
    BY <1>0, <1>2 DEF ResumesCall, CallOpening
  <2>2. CallOpening \in Seq(SentTypes) /\ Range(CallOpening) = {"added", "args_delta", "args_done"}
    BY ToldLists
  <2>3. Claims(st, st', Range(CallOpening), ResumeId)
    BY <2>1, <2>2, <1>0, ClaimIs
  <2> QED
    BY <2>2, <2>3
<1>3. ASSUME ResumesRefused
      PROVE  Claims(st, st', {"added", "call_started", "call_ended", "done"}, ResumeId)
  <2>1. st' = Claim(st, CallRefusing, ResumeId) /\ ResumeId \in Ids
    BY <1>0, <1>3 DEF ResumesRefused, CallRefusing
  <2>2. /\ CallRefusing \in Seq(SentTypes)
        /\ Range(CallRefusing) = {"added", "call_started", "call_ended", "done"}
    BY ToldLists
  <2>3. Claims(st, st', Range(CallRefusing), ResumeId)
    BY <2>1, <2>2, <1>0, ClaimIs
  <2> QED
    BY <2>2, <2>3
<1> QED
  BY <1>1, <1>2, <1>3

\* What the ends of a response send.
LEMMA EndEffects ==
  ASSUME McpTypes, TurnFails \/ TurnRefused \/ Completes \/ Breaks
  PROVE  pc' = "idle" /\ Numbers(st, st', TRUE)
<1>1. PICK type \in Terminal : st' = Envelope(st, type)
  <2>1. CASE TurnFails
    BY <2>1 DEF TurnFails, Terminal
  <2>2. CASE TurnRefused
    BY <2>2 DEF TurnRefused, Terminal
  <2>3. CASE Completes
    BY <2>3 DEF Completes, FinalStatus, Terminal
  <2>4. CASE Breaks
    BY <2>4 DEF Breaks, Terminal
  <2> QED
    BY <2>1, <2>2, <2>3, <2>4
<1>2. pc' = "idle"
  BY DEF TurnFails, TurnRefused, Completes, Breaks
<1>3. st \in Stitchers
  BY DEF McpTypes, StitchType
<1> QED
  BY <1>1, <1>2, <1>3, EnvelopeNumbers

AbsorbsOne(e) ==
  /\ ~IsTool(e.ch) => AbsorbsText(st, st', e)
  /\ IsTool(e.ch) => \E b, T : AbsorbsTool(st, st', e, b, T)

\* What the steps of a turn do to the stitcher.
LEMMA TurnEffects ==
  ASSUME McpTypes, TurnInv
  PROVE  /\ StartsTurn => /\ st' \in Stitchers /\ st'.seq = st.seq /\ st'.sent = st.sent /\ st'.offset = st.offset
                          /\ st'.buf = <<>> /\ st'.pending = <<>>
         /\ Absorbs => st' \in Stitchers /\ AbsorbsOne(Head(inbox))
         /\ TurnEnds => Places(st, st', Head(inbox).output) /\ Head(inbox).output = CollectOutput(tr)
<1>0. st \in Stitchers /\ tr \in Translators /\ made \in Nat /\ turn \in Nat
  BY DEF McpTypes, StitchType, RequestType, LoopType
<1>1. ASSUME StartsTurn
      PROVE  /\ st' \in Stitchers /\ st'.seq = st.seq /\ st'.sent = st.sent /\ st'.offset = st.offset
             /\ st'.buf = <<>> /\ st'.pending = <<>>
  <2>1. Resets(st, st')
    BY <1>1 DEF StartsTurn, Resets
  <2> QED
    BY <2>1, <1>0, ResetIs
<1>2. ASSUME Absorbs PROVE st' \in Stitchers /\ AbsorbsOne(Head(inbox))
  <2>1. st' = Absorb(st, Head(inbox)) /\ pc = "streaming" /\ inbox # <<>> /\ Head(inbox).type \notin Terminal
    BY <1>2 DEF Absorbs
  <2> QED
    BY <2>1, AbsorbIs DEF McpTypes, AbsorbsOne
<1>3. ASSUME TurnEnds PROVE Places(st, st', Head(inbox).output) /\ Head(inbox).output = CollectOutput(tr)
  <2>1. st' = Placed(st, Head(inbox).output) /\ pc = "streaming" /\ inbox # <<>> /\ Head(inbox).type = "completed"
    BY <1>3 DEF TurnEnds
  <2>2. Head(inbox) = inbox[1] /\ 1 \in DOMAIN inbox
    BY <2>1, InboxIs DEF McpTypes
  <2>3. Head(inbox).output = CollectOutput(tr)
    BY <2>1, <2>2 DEF TurnInv, InTurn, InboxFits, EventFits, Terminal
  <2>4. CollectOutput(tr) \in Seq(Channels)
    BY <1>0, OutputType
  <2> QED
    BY <2>1, <2>3, <2>4, <1>0, PlacedIs
<1> QED
  BY <1>1, <1>2, <1>3

\* What the calls send.
LEMMA CallEffects ==
  ASSUME McpTypes, TurnInv, RanInv
  PROVE  /\ AsksApproval => /\ at \in DOMAIN st.pending /\ SameButSent(st, st')
                            /\ Sends(st, st', {"added", "done"}, Buffered(st, NextCall).oi, Id(turn, NextCall))
         /\ CallReturns \/ CallFails =>
              /\ SameButSent(st, st')
              /\ Sends(st, st', {"call_started", "call_ended", "done"}, Current.oi, Current.id)
<1>0. st \in Stitchers
  BY DEF McpTypes, StitchType
<1>1. ASSUME AsksApproval
      PROVE  /\ at \in DOMAIN st.pending /\ SameButSent(st, st')
             /\ Sends(st, st', {"added", "done"}, Buffered(st, NextCall).oi, Id(turn, NextCall))
  <2>1. /\ pc = "calls" /\ at <= Len(st.pending)
        /\ st' = Send(st, ApprovalAsking, Buffered(st, NextCall).oi, Id(turn, NextCall))
    BY <1>1 DEF AsksApproval, More, ApprovalAsking
  <2>2. at \in Nat \ {0} /\ Len(st.pending) \in Nat /\ DOMAIN st.pending = 1..Len(st.pending)
    BY DEF McpTypes, LoopType, StitchType, Stitchers
  <2>3. at \in DOMAIN st.pending
    BY <2>1, <2>2
  <2>4. Buffered(st, NextCall) \in Buffers /\ Id(turn, NextCall) \in Ids
    BY <2>1, <2>3, PendingIs DEF NextCall
  <2>5. Buffered(st, NextCall).oi \in Nat
    BY <2>4 DEF Buffers
  <2>6. ApprovalAsking \in Seq(SentTypes) /\ Range(ApprovalAsking) = {"added", "done"}
    BY ToldLists
  <2>7. /\ SameButSent(st, st')
        /\ Sends(st, st', Range(ApprovalAsking), Buffered(st, NextCall).oi, Id(turn, NextCall))
    BY <2>1, <2>4, <2>5, <2>6, <1>0, SendSends
  <2> QED
    BY <2>3, <2>6, <2>7
<1>2. ASSUME CallReturns \/ CallFails
      PROVE  /\ SameButSent(st, st')
             /\ Sends(st, st', {"call_started", "call_ended", "done"}, Current.oi, Current.id)
  <2>1. AtServer /\ st' = Send(st, CallEnding, Current.oi, Current.id)
    BY <1>2 DEF CallReturns, CallFails, Reported, CallEnding
  <2>2. Current.id \in Ids /\ Current.oi \in Nat
    BY <2>1, CurrentIs
  <2>3. CallEnding \in Seq(SentTypes) /\ Range(CallEnding) = {"call_started", "call_ended", "done"}
    BY ToldLists
  <2>4. SameButSent(st, st') /\ Sends(st, st', Range(CallEnding), Current.oi, Current.id)
    BY <2>1, <2>2, <2>3, <1>0, SendSends
  <2> QED
    BY <2>3, <2>4
<1> QED
  BY <1>1, <1>2

\* A step that sends nothing.
LEMMA SameNumbers ==
  ASSUME NEW s, NEW r \in Stitchers, r.seq = s.seq, r.sent = s.sent, NEW over
  PROVE  Numbers(s, r, over)
<1>1. (NumberedBy(s) => NumberedBy(r)) /\ (Quiet(s) => Quiet(r))
  BY DEF NumberedBy, Quiet
<1> QED
  BY <1>1, QuietNumbers

\* Every step keeps the numbers of the stream.
LEMMA StitchStep ==
  ASSUME McpTypes, TurnInv, RanInv, LoopStep \/ Disconnects
  PROVE  Numbers(st, st', pc' = "idle")
<1>0. st \in Stitchers
  BY DEF McpTypes, StitchType
<1>t. {"added", "list_started"} \cap Terminal = {} /\ {"list_ended", "done"} \cap Terminal = {}
      /\ {"added", "args_delta", "args_done"} \cap Terminal = {}
      /\ {"added", "call_started", "call_ended", "done"} \cap Terminal = {}
      /\ {"added", "done"} \cap Terminal = {} /\ {"call_started", "call_ended", "done"} \cap Terminal = {}
      /\ ItemTypes \cap Terminal = {}
  BY DEF Terminal, ItemTypes
<1>1. ASSUME st' = st PROVE Numbers(st, st', pc' = "idle")
  BY <1>1, <1>0, SameNumbers
<1>2. CASE Lists
  <2>1. Claims(st, st', {"added", "list_started"}, ListId)
    BY <1>2, ListEffects
  <2> QED
    BY <2>1, <1>t, SendNumbers DEF Claims
<1>3. CASE ListReturns
  <2>1. IF pc' = "idle" THEN Numbers(st, st', TRUE) ELSE pc' = "resume" /\ ListToldBy(st, st')
    BY <1>3, ListEffects
  <2>2. CASE pc' = "idle"
    BY <2>1, <2>2
  <2>3. CASE pc' # "idle"
    BY <2>1, <2>3, <1>t, SendNumbers DEF ListToldBy, SameButSent
  <2> QED
    BY <2>2, <2>3
<1>4. CASE ListFails \/ ResumesUnknown
  <2>1. Numbers(st, st', TRUE)
    BY <1>4, ListEffects, ResumeEffects
  <2>2. pc' = "idle"
    BY <1>4 DEF ListFails, ResumesUnknown
  <2> QED
    BY <2>1, <2>2
<1>5. CASE ResumesCall
  <2>1. Claims(st, st', {"added", "args_delta", "args_done"}, ResumeId)
    BY <1>5, ResumeEffects
  <2> QED
    BY <2>1, <1>t, SendNumbers DEF Claims
<1>6. CASE ResumesRefused
  <2>1. Claims(st, st', {"added", "call_started", "call_ended", "done"}, ResumeId)
    BY <1>6, ResumeEffects
  <2> QED
    BY <2>1, <1>t, SendNumbers DEF Claims
<1>7. CASE StartsTurn
  BY <1>7, TurnEffects, SameNumbers
<1>8. CASE Absorbs
  <2> DEFINE e == Head(inbox)
  <2>1. st' \in Stitchers /\ AbsorbsOne(e) /\ pc = "streaming" /\ inbox # <<>> /\ e.type \notin Terminal
    BY <1>8, TurnEffects DEF Absorbs
  <2> HIDE DEF e
  <2>2. CASE IsTool(e.ch)
    <3>1. PICK b, T : AbsorbsTool(st, st', e, b, T)
      BY <2>1, <2>2 DEF AbsorbsOne
    <3>2. Sends(st, st', T, e.oi + st.offset, Id(turn, e.ch)) /\ T \cap Terminal = {}
      BY <3>1, <1>t DEF AbsorbsTool
    <3> QED
      BY <3>2, <2>1, SendNumbers
  <2>3. CASE ~IsTool(e.ch)
    <3>1. Sends(st, st', {e.type}, e.oi + st.offset, Id(turn, e.ch)) /\ {e.type} \cap Terminal = {}
      BY <2>1, <2>3 DEF AbsorbsOne, AbsorbsText
    <3> QED
      BY <3>1, <2>1, SendNumbers
  <2> QED
    BY <2>2, <2>3
<1>9. CASE TurnEnds
  <2>1. st' \in Stitchers /\ st'.seq = st.seq /\ st'.sent = st.sent
    BY <1>9, TurnEffects DEF Places
  <2> QED
    BY <2>1, SameNumbers
<1>10. CASE TurnFails \/ TurnRefused \/ Completes \/ Breaks
  <2>1. pc' = "idle" /\ Numbers(st, st', TRUE)
    BY <1>10, EndEffects
  <2> QED
    BY <2>1
<1>11. CASE AsksApproval
  <2>1. /\ SameButSent(st, st')
        /\ Sends(st, st', {"added", "done"}, Buffered(st, NextCall).oi, Id(turn, NextCall))
    BY <1>11, CallEffects
  <2> QED
    BY <2>1, <1>t, SendNumbers DEF SameButSent
<1>12. CASE CallReturns \/ CallFails
  <2>1. /\ SameButSent(st, st')
        /\ Sends(st, st', {"call_started", "call_ended", "done"}, Current.oi, Current.id)
    BY <1>12, CallEffects
  <2> QED
    BY <2>1, <1>t, SendNumbers DEF SameButSent
<1>13. CASE Reuses \/ ResumesNone \/ Streams \/ StreamEnds \/ Executes \/ Expires \/ Continues \/ Disconnects
  <2>1. st' = st
    BY <1>13 DEF Reuses, ResumesNone, Streams, StreamEnds, Executes, Expires, Continues, Disconnects
  <2> QED
    BY <2>1, <1>1
<1> QED
  BY <1>2, <1>3, <1>4, <1>5, <1>6, <1>7, <1>8, <1>9, <1>10, <1>11, <1>12, <1>13 DEF LoopStep

\* The numbers are inductive.
LEMMA NumberStep ==
  ASSUME McpTypes, TurnInv, RanInv, NumberInv, [McpNext]_mcpVars
  PROVE  st' \in Stitchers /\ NumberInv'
<1>n. NumberInv <=> NumberedBy(st) /\ \A i \in DOMAIN st.sent : st.sent[i].type \in Terminal => i = Len(st.sent) /\ pc = "idle"
  BY DEF NumberInv, NumberedBy
<1>m. NumberInv' <=> NumberedBy(st') /\ \A i \in DOMAIN st'.sent : st'.sent[i].type \in Terminal => i = Len(st'.sent) /\ pc' = "idle"
  BY DEF NumberInv, NumberedBy
<1>1. CASE Starts
  <2>1. IF pc' = "idle" THEN Numbers(NewStitcher, st', TRUE) ELSE pc' = "discover" /\ Begun(st')
    BY <1>1, StartEffect
  <2>2. CASE pc' = "idle"
    BY <2>1, <2>2, <1>m, NewStitcherIs DEF Numbers
  <2>3. CASE pc' # "idle"
    BY <2>1, <2>3, <1>m DEF Begun, Quiet
  <2> QED
    BY <2>2, <2>3
<1>2. CASE LoopStep \/ Disconnects
  <2>1. Numbers(st, st', pc' = "idle")
    BY <1>2, StitchStep
  <2>2. pc # "idle"
    BY <1>2 DEF LoopStep, Disconnects, Reuses, Lists, ListReturns, ListFails, ResumesNone, ResumesUnknown,
       ResumesCall, ResumesRefused, StartsTurn, Streams, StreamEnds, Absorbs, TurnEnds, TurnFails, TurnRefused,
       AsksApproval, Executes, CallReturns, CallFails, Expires, Continues, Completes, Breaks, AtServer
  <2>3. Quiet(st) /\ NumberedBy(st)
    BY <2>2, <1>n DEF Quiet
  <2> QED
    BY <2>1, <2>3, <1>m DEF Numbers
<1>3. CASE UNCHANGED mcpVars
  BY <1>3 DEF mcpVars, NumberInv, McpTypes, StitchType
<1> QED
  BY <1>1, <1>2, <1>3 DEF McpNext

\* Items.
LEMMA ItemIs ==
  ASSUME NEW x \in Items
  PROVE  /\ x.kind = "approval" => x.id \in Ids /\ x.name \in Names
         /\ x.kind = "answer" => x.of \in Ids /\ x.approve \in BOOLEAN
<1>1. CASE x \in PlainItems
  BY <1>1 DEF PlainItems
<1>2. CASE x = Hole
  BY <1>2 DEF Hole, Plain
<1>3. CASE x \in [kind : {"list"}, id : Ids, tools : SUBSET UNION Listings, allowed : Allowed]
  BY <1>3
<1>4. CASE x \in [kind : {"call"}, id : Ids, name : Names, of : Ids \cup {NoApproval}, ok : BOOLEAN]
  BY <1>4
<1>5. CASE x \in [kind : {"approval"}, id : Ids, name : Names]
  BY <1>5
<1>6. CASE x \in [kind : {"answer"}, of : Ids, approve : BOOLEAN]
  BY <1>6
<1> QED
  BY <1>1, <1>2, <1>3, <1>4, <1>5, <1>6 DEF Items

\* The items that the loop makes.
LEMMA ItemsAre ==
  /\ \A k \in {"input", "reasoning", "message", "function", "list_failed"}, id \in Ids : Plain(k, id) \in Items
  /\ \A x \in PlainItems : x \in Items
  /\ Hole \in Items
  /\ \A id \in Ids, name \in Names, of \in Ids \cup {NoApproval}, ok \in BOOLEAN : Call(id, name, of, ok) \in Items
  /\ \A id \in Ids, name \in Names : Approval(id, name) \in Items
  /\ \A id \in Ids, yes \in BOOLEAN : Answer(id, yes) \in Items
<1>1. \A k \in {"input", "reasoning", "message", "function", "list_failed"}, id \in Ids : Plain(k, id) \in PlainItems
  BY DEF Plain, PlainItems
<1>2. \A id \in Ids, name \in Names, of \in Ids \cup {NoApproval}, ok \in BOOLEAN :
        Call(id, name, of, ok) \in [kind : {"call"}, id : Ids, name : Names, of : Ids \cup {NoApproval}, ok : BOOLEAN]
  BY DEF Call
<1>3. \A id \in Ids, name \in Names : Approval(id, name) \in [kind : {"approval"}, id : Ids, name : Names]
  BY DEF Approval
<1>4. \A id \in Ids, yes \in BOOLEAN : Answer(id, yes) \in [kind : {"answer"}, of : Ids, approve : BOOLEAN]
  BY DEF Answer
<1>5. \A x \in PlainItems : x \in Items
  BY DEF Items
<1>6. \A x \in [kind : {"call"}, id : Ids, name : Names, of : Ids \cup {NoApproval}, ok : BOOLEAN] : x \in Items
  BY Zenon DEF Items
<1>7. \A x \in [kind : {"approval"}, id : Ids, name : Names] : x \in Items
  BY Zenon DEF Items
<1>8. \A x \in [kind : {"answer"}, of : Ids, approve : BOOLEAN] : x \in Items
  BY Zenon DEF Items
<1>9. Hole \in Items
  BY Zenon DEF Items
<1> QED
  BY <1>1, <1>2, <1>3, <1>4, <1>5, <1>6, <1>7, <1>8, <1>9, Zenon

\* The item of the call in hand.
LEMMA CallItem ==
  ASSUME McpTypes, TurnInv, RanInv, AtServer
  PROVE  /\ Current.name \in Names /\ Current.of \in Ids \cup {NoApproval}
         /\ \A ok \in BOOLEAN : Call(Current.id, Current.name, Current.of, ok) \in Items
<1>1. Current.id \in Ids
  BY CurrentIs
<1>2. Current.name \in Names /\ Current.of \in Ids \cup {NoApproval}
  <2>1. CASE pc = "resuming"
    <3>1. Answers # {} /\ Known
      BY <2>1 DEF RanInv, Runs
    <3>2. Input \in Seq(Items) /\ Min(Answers) \in DOMAIN Input /\ This.kind = "answer"
      BY <3>1, InputIs, AnswerIs DEF McpTypes
    <3>3. This \in Items
      BY <3>2 DEF This
    <3>4. (CHOOSE i \in Requested : TRUE) \in Requested
      BY <3>1 DEF Known
    <3>5. Subject \in Items /\ Subject.kind = "approval"
      BY <3>2, <3>4 DEF Subject, Requested
    <3>6. Subject.name \in Names /\ This.of \in Ids
      BY <3>2, <3>3, <3>5, ItemIs
    <3>7. Current.name = Subject.name /\ Current.of = This.of
      BY <2>1 DEF Current
    <3> QED
      BY <3>6, <3>7
  <2>2. CASE pc = "calling"
    <3>1. at \in DOMAIN st.pending /\ Current.name = tr.named[NextCall[2] + 1] /\ Current.of = NoApproval
      BY <2>2, CurrentIs
    <3>2. tr.named[NextCall[2] + 1] \in Names
      BY <2>2, <3>1, PendingIs DEF NextCall
    <3> QED
      BY <3>1, <3>2
  <2> QED
    BY <2>1, <2>2 DEF AtServer
<1> QED
  BY <1>1, <1>2, ItemsAre

\* A request.
LEMMA AskIs ==
  ASSUME McpTypes, NEW items \in MayAsk
  PROVE  \E x \in Items : items = <<x>>
<1> DEFINE id0 == <<made + 1, 0, <<"input", 0>>>>
           x0 == Plain("input", id0)
           y0 == Answer(Nobodys, TRUE)
<1>0. past \in Seq(Items) /\ made \in Nat
  BY DEF McpTypes, RequestType
<1>1. id0 \in Ids /\ Nobodys \in Ids
  <2>1. made + 1 \in Nat
    BY <1>0
  <2> QED
    BY <2>1 DEF Ids, Marks, Nobodys
<1>a. \/ items = <<x0>> \/ items = <<y0>>
      \/ \E id \in Unanswered, yes \in BOOLEAN : items = <<Answer(id, yes)>>
  BY DEF MayAsk
<1> HIDE DEF id0
<1>2. x0 \in Items
  BY <1>1, ItemsAre
<1>3. y0 \in Items
  <2>1. TRUE \in BOOLEAN
    OBVIOUS
  <2> QED
    BY <2>1, <1>1, ItemsAre, Zenon
<1>4. ASSUME NEW id \in Unanswered, NEW yes \in BOOLEAN PROVE Answer(id, yes) \in Items
  <2>1. PICK i \in DOMAIN past : past[i].kind = "approval" /\ id = past[i].id
    BY <1>4 DEF Unanswered
  <2>2. id \in Ids
    BY <2>1, <1>0, ItemIs
  <2> QED
    BY <2>2, ItemsAre
<1> HIDE DEF x0, y0
<1> QED
  BY <1>a, <1>2, <1>3, <1>4

\* A request has one item, and an approval in it is a grant.
LEMMA StartItems ==
  ASSUME McpTypes, Starts
  PROVE  /\ req' \in Requests /\ req'.allowed \in Allowed /\ made' = made + 1
         /\ \E x \in Items : /\ req'.items = <<x>>
                             /\ grants' = IF x.kind = "answer" /\ x.approve THEN Append(grants, x.of) ELSE grants
<1>1. PICK allowed \in Allowed, max \in Limits, items \in MayAsk :
        /\ req' = [allowed |-> allowed, max |-> max, items |-> items]
        /\ grants' = IF items[1].kind = "answer" /\ items[1].approve
                     THEN Append(grants, items[1].of) ELSE grants
  BY DEF Starts
<1>3. PICK x \in Items : items = <<x>>
  BY AskIs
<1>4. items \in Seq(Items) /\ items[1] = x
  BY <1>3
<1>5. req' \in Requests /\ req'.allowed \in Allowed /\ req'.items = <<x>>
  BY <1>1, <1>3, <1>4 DEF Requests
<1>6. made' = made + 1
  BY DEF Starts
<1>7. grants' = IF x.kind = "answer" /\ x.approve THEN Append(grants, x.of) ELSE grants
  BY <1>1, <1>4
<1> QED
  BY <1>5, <1>6, <1>7

\* The types hold at first.
LEMMA InitTypes == McpInit => McpTypes
<1> SUFFICES ASSUME McpInit PROVE McpTypes
  OBVIOUS
<1>1. RequestType
  BY DEF McpInit, RequestType, Requests
<1>2. LoopType
  BY DEF McpInit, LoopType
<1>3. StitchType
  <2>1. tr \in Translators
    BY DEF McpInit, NewTranslator, Translators
  <2>2. st \in Stitchers
    BY NewStitcherIs DEF McpInit
  <2>3. inbox \in Seq(ItemEvents \cup EndEvents)
    BY DEF McpInit
  <2> QED
    BY <2>1, <2>2, <2>3 DEF StitchType
<1>4. HistoryType
  <2>1. ran = <<>> /\ grants = <<>> /\ mixed = FALSE
    BY DEF McpInit
  <2>2. \A S : <<>> \in Seq(S)
    OBVIOUS
  <2> QED
    BY <2>1, <2>2 DEF HistoryType
<1> QED
  BY <1>1, <1>2, <1>3, <1>4 DEF McpTypes

\* A list with another element in one of its places.
Reslots(o, r, n, x) == r = [o EXCEPT ![n] = x]

\* One place of a list is replaced.
LEMMA Reslotted ==
  ASSUME NEW S, NEW o \in Seq(S), NEW x \in S, NEW n, NEW r, Reslots(o, r, n, x)
  PROVE  /\ r \in Seq(S) /\ Len(r) = Len(o) /\ DOMAIN r = DOMAIN o
         /\ \A i \in DOMAIN o : r[i] = IF i = n THEN x ELSE o[i]
<1>1. o \in [1..Len(o) -> S] /\ Len(o) \in Nat /\ DOMAIN o = 1..Len(o)
  OBVIOUS
<1> DEFINE k == Len(o)
<1> HIDE DEF k
<1>2. r \in [1..k -> S] /\ \A i \in 1..k : r[i] = IF i = n THEN x ELSE o[i]
  BY <1>1 DEF Reslots, k
<1>3. r \in Seq(S) /\ Len(r) = k
  BY <1>1, <1>2, ListIs DEF k
<1> QED
  BY <1>1, <1>2, <1>3 DEF k

\* The output, with a slot for every item of a turn.
LEMMA ExtendedIs ==
  ASSUME NEW o \in Seq(Items), NEW s \in Stitchers, Cardinality(s.placed) \in Nat
  PROVE  LET r == Extended(o, s)
             n == Len(o) + Cardinality(s.placed) + Len(s.pending) IN
         /\ r \in Seq(Items) /\ Len(r) = n /\ n \in Nat
         /\ \A i \in 1..n :
              r[i] = IF \E p \in s.placed : p.oi + 1 = i THEN (CHOOSE p \in s.placed : p.oi + 1 = i).item
                     ELSE IF i <= Len(o) THEN o[i] ELSE Hole
<1> DEFINE r == Extended(o, s)
           n == Len(o) + Cardinality(s.placed) + Len(s.pending)
           V(i) == IF \E p \in s.placed : p.oi + 1 = i THEN (CHOOSE p \in s.placed : p.oi + 1 = i).item
                   ELSE IF i <= Len(o) THEN o[i] ELSE Hole
<1>0. /\ Len(o) \in Nat /\ s.pending \in Seq(Channels) /\ Len(s.pending) \in Nat /\ DOMAIN o = 1..Len(o)
      /\ s.placed \subseteq [oi : Nat, item : PlainItems]
  BY DEF Stitchers
<1>1. n \in Nat
  BY <1>0
<1>2. r = [i \in 1..n |-> V(i)]
  BY DEF Extended
<1>3. ASSUME NEW i \in 1..n PROVE V(i) \in Items
  <2>1. CASE \E p \in s.placed : p.oi + 1 = i
    <3> DEFINE p == CHOOSE x \in s.placed : x.oi + 1 = i
    <3>1. p \in s.placed
      BY <2>1
    <3>2. p.item \in PlainItems
      BY <3>1, <1>0
    <3>3. V(i) = p.item
      BY <2>1
    <3> QED
      BY <3>2, <3>3, ItemsAre
  <2>2. CASE (~\E p \in s.placed : p.oi + 1 = i) /\ i <= Len(o)
    <3>1. V(i) = o[i] /\ i \in DOMAIN o
      BY <2>2, <1>0
    <3> QED
      BY <3>1
  <2>3. CASE (~\E p \in s.placed : p.oi + 1 = i) /\ ~(i <= Len(o))
    BY <2>3, ItemsAre
  <2> QED
    BY <2>1, <2>2, <2>3
<1> HIDE DEF V, r, n
<1>4. r \in [1..n -> Items]
  BY <1>2, <1>3
<1>5. r \in Seq(Items) /\ Len(r) = n
  BY <1>1, <1>4, ListIs
<1>6. \A i \in 1..n : r[i] = V(i)
  BY <1>2
<1> QED
  BY <1>1, <1>5, <1>6 DEF r, n, V

\* The accumulator after a turn is a list of items.
LEMMA TurnEndOut ==
  ASSUME McpTypes, TurnInv, TurnEnds
  PROVE  /\ out' = Extended(out, st') /\ st' \in Stitchers /\ Cardinality(st'.placed) \in Nat
         /\ out' \in Seq(Items)
<1>1. Places(st, st', Head(inbox).output) /\ Head(inbox).output = CollectOutput(tr)
  BY TurnEffects
<1>2. CollectOutput(tr) \in Seq(Channels)
  BY OutputType DEF McpTypes, StitchType
<1>3. Cardinality(st'.placed) \in Nat
  BY <1>1, <1>2, PlacedFinite DEF Places
<1>4. out' = Extended(out, st')
  BY DEF TurnEnds
<1>5. st' \in Stitchers
  BY <1>1 DEF Places
<1>6. out \in Seq(Items)
  BY DEF McpTypes, RequestType
<1> QED
  BY <1>3, <1>4, <1>5, <1>6, ExtendedIs

\* The steps that leave the request and the output alone.
Aside ==
  \/ Lists \/ ResumesNone \/ ResumesUnknown \/ ResumesCall \/ StartsTurn \/ Streams \/ StreamEnds \/ Absorbs
  \/ TurnFails \/ TurnRefused \/ Executes \/ Expires \/ Continues \/ Breaks \/ Disconnects

\* The steps that leave the request and the accumulator alone.
LEMMA AsideKeeps == Aside => UNCHANGED <<past, made, req, out, tools>>
BY DEF Aside, Lists, ResumesNone, ResumesUnknown, ResumesCall, StartsTurn, Streams, StreamEnds, Absorbs,
   TurnFails, TurnRefused, Executes, Expires, Continues, Breaks, Disconnects, requestVars

\* The types of the request and the accumulator are kept.
LEMMA RequestTypeStep ==
  ASSUME McpTypes, TurnInv, RanInv, [McpNext]_mcpVars
  PROVE  RequestType'
<1>0. /\ past \in Seq(Items) /\ made \in Nat /\ req \in Requests /\ out \in Seq(Items)
      /\ tools \subseteq req.allowed
  BY DEF McpTypes, RequestType
<1>1. CASE Aside \/ UNCHANGED mcpVars
  <2>1. UNCHANGED <<past, made, req, out, tools>>
    BY <1>1, AsideKeeps DEF mcpVars
  <2> QED
    BY <2>1, <1>0 DEF RequestType
<1>2. CASE Starts
  <2>1. req' \in Requests /\ made' = made + 1
    BY <1>2, StartItems
  <2>2. past' = past /\ out' = <<>> /\ tools' = {}
    BY <1>2 DEF Starts
  <2> QED
    BY <2>1, <2>2, <1>0 DEF RequestType
<1>3. CASE Reuses
  <2>1. UNCHANGED <<past, made, req, out>> /\ tools' \subseteq req.allowed
    BY <1>3 DEF Reuses, requestVars
  <2> QED
    BY <2>1, <1>0 DEF RequestType
<1>4. CASE ListReturns
  <2>1. PICK listing \in Listings :
          /\ tools' = listing \cap req.allowed
          /\ out' = Append(out, [kind |-> "list", id |-> ListId, tools |-> listing \cap req.allowed,
                                 allowed |-> req.allowed])
    BY <1>4 DEF ListReturns
  <2>2. UNCHANGED <<past, made, req>> /\ pc = "listing"
    BY <1>4 DEF ListReturns, requestVars
  <2> DEFINE x == [kind |-> "list", id |-> ListId, tools |-> listing \cap req.allowed, allowed |-> req.allowed]
  <2>3. x \in Items
    <3>1. ListId \in Ids /\ req.allowed \in Allowed
      BY <2>2, LoopIds DEF McpTypes, LoopType
    <3>2. listing \cap req.allowed \in SUBSET UNION Listings
      OBVIOUS
    <3>3. x \in [kind : {"list"}, id : Ids, tools : SUBSET UNION Listings, allowed : Allowed]
      BY <3>1, <3>2
    <3> HIDE DEF x
    <3> QED
      BY <3>3, Zenon DEF Items
  <2>4. Append(out, x) \in Seq(Items)
    <3> HIDE DEF x
    <3> QED
      BY <2>3, <1>0
  <2>5. tools' \subseteq req'.allowed /\ out' \in Seq(Items)
    BY <2>1, <2>2, <2>4
  <2> QED
    BY <2>2, <2>5, <1>0 DEF RequestType
<1>5. CASE ListFails
  <2>1. UNCHANGED <<past, made, req, tools>> /\ out' = Append(out, Plain("list_failed", ListId))
    BY <1>5 DEF ListFails, requestVars
  <2>2. Plain("list_failed", ListId) \in Items
    BY LoopIds, ItemsAre DEF McpTypes
  <2>3. out' \in Seq(Items)
    BY <2>1, <2>2, <1>0
  <2> QED
    BY <2>1, <2>3, <1>0 DEF RequestType
<1>6. CASE ResumesRefused
  <2>1. UNCHANGED <<past, made, req, tools>> /\ out' = Append(out, Call(ResumeId, Subject.name, This.of, FALSE))
        /\ Answers # {} /\ Known
    BY <1>6 DEF ResumesRefused, requestVars
  <2>2. Input \in Seq(Items) /\ Min(Answers) \in DOMAIN Input /\ This.kind = "answer"
    BY <2>1, InputIs, AnswerIs DEF McpTypes
  <2>3. (CHOOSE i \in Requested : TRUE) \in Requested /\ This \in Items
    BY <2>1, <2>2 DEF Known, This
  <2>4. Subject \in Items /\ Subject.kind = "approval"
    BY <2>2, <2>3 DEF Subject, Requested
  <2>5. Subject.name \in Names /\ This.of \in Ids /\ ResumeId \in Ids /\ FALSE \in BOOLEAN
    BY <2>1, <2>2, <2>3, <2>4, ItemIs, LoopIds DEF McpTypes
  <2>6. Call(ResumeId, Subject.name, This.of, FALSE) \in Items
    BY <2>5, ItemsAre
  <2>7. out' \in Seq(Items)
    <3> DEFINE x == Call(ResumeId, Subject.name, This.of, FALSE)
    <3>1. x \in Items /\ out' = Append(out, x)
      BY <2>1, <2>6
    <3> HIDE DEF x
    <3> QED
      BY <3>1, <1>0
  <2> QED
    BY <2>1, <2>7, <1>0 DEF RequestType
<1>7. CASE TurnEnds
  <2>1. UNCHANGED <<past, made, req, tools>>
    BY <1>7 DEF TurnEnds, requestVars
  <2>2. out' \in Seq(Items)
    BY <1>7, TurnEndOut
  <2> QED
    BY <2>1, <2>2, <1>0 DEF RequestType
<1>8. CASE AsksApproval
  <2>1. /\ UNCHANGED <<past, made, req, tools>> /\ pc = "calls"
        /\ out' = [out EXCEPT ![Buffered(st, NextCall).oi + 1] =
                                Approval(Id(turn, NextCall), tr.named[NextCall[2] + 1])]
    BY <1>8 DEF AsksApproval, requestVars
  <2>2. at \in DOMAIN st.pending
    BY <1>8, CallEffects
  <2>3. Id(turn, NextCall) \in Ids /\ tr.named[NextCall[2] + 1] \in Names
    BY <2>1, <2>2, PendingIs DEF NextCall
  <2>4. Approval(Id(turn, NextCall), tr.named[NextCall[2] + 1]) \in Items
    BY <2>3, ItemsAre
  <2>5. out' \in Seq(Items)
    <3> DEFINE x == Approval(Id(turn, NextCall), tr.named[NextCall[2] + 1])
    <3>1. x \in Items /\ Reslots(out, out', Buffered(st, NextCall).oi + 1, x)
      BY <2>1, <2>4 DEF Reslots
    <3> HIDE DEF x
    <3> QED
      BY <3>1, <1>0, Reslotted
  <2> QED
    BY <2>1, <2>5, <1>0 DEF RequestType
<1>9. CASE CallReturns \/ CallFails
  <2>1. PICK ok \in BOOLEAN : Reported(ok)
    BY <1>9 DEF CallReturns, CallFails
  <2>2. AtServer
    BY <1>9 DEF CallReturns, CallFails
  <2> DEFINE x == Call(Current.id, Current.name, Current.of, ok)
  <2>3. x \in Items
    BY <2>2, CallItem
  <2>4. /\ UNCHANGED <<past, made, req, tools>>
        /\ out' = Append(out, x) \/ out' = [out EXCEPT ![Current.oi + 1] = x]
    BY <2>1 DEF Reported, requestVars
  <2> HIDE DEF x
  <2>5. out' \in Seq(Items)
    <3>1. CASE out' = Append(out, x)
      BY <3>1, <2>3, <1>0
    <3>2. CASE out' = [out EXCEPT ![Current.oi + 1] = x]
      <4>1. Reslots(out, out', Current.oi + 1, x)
        BY <3>2 DEF Reslots
      <4> QED
        BY <4>1, <2>3, <1>0, Reslotted
    <3> QED
      BY <3>1, <3>2, <2>4
  <2> QED
    BY <2>4, <2>5, <1>0 DEF RequestType
<1>10. CASE Completes
  <2>1. UNCHANGED <<made, req, tools, out>> /\ past' \in {past, Input \o out}
    BY <1>10 DEF Completes
  <2>2. Input \o out \in Seq(Items)
    BY <1>0, InputIs DEF McpTypes
  <2> QED
    BY <2>1, <2>2, <1>0 DEF RequestType
<1> QED
  BY <1>1, <1>2, <1>3, <1>4, <1>5, <1>6, <1>7, <1>8, <1>9, <1>10 DEF McpNext, LoopStep, Aside

\* The types of the loop are kept.
LEMMA LoopTypeStep ==
  ASSUME McpTypes, TurnInv, RanInv, [McpNext]_mcpVars
  PROVE  LoopType'
<1> DEFINE Places1 == {"idle", "discover", "listing", "resume", "resuming", "turn", "refused", "streaming", "calls",
                       "calling"}
<1>0. pc \in Places1 /\ turn \in Nat /\ at \in Nat \ {0} /\ (pc # "idle" => req.allowed \in Allowed)
  BY DEF McpTypes, LoopType
<1>1. CASE Starts
  <2>1. pc' \in {"idle", "discover"} /\ turn' = 0 /\ at' = 1
    BY <1>1 DEF Starts
  <2>2. req'.allowed \in Allowed
    BY <1>1, StartItems
  <2> QED
    BY <2>1, <2>2 DEF LoopType
<1>2. CASE UNCHANGED mcpVars
  BY <1>2, <1>0 DEF mcpVars, LoopType
<1>3. CASE Disconnects \/ LoopStep
  <2>1. req' = req /\ pc # "idle"
    BY <1>3 DEF LoopStep, Disconnects, Reuses, Lists, ListReturns, ListFails, ResumesNone, ResumesUnknown,
       ResumesCall, ResumesRefused, StartsTurn, Streams, StreamEnds, Absorbs, TurnEnds, TurnFails, TurnRefused,
       AsksApproval, Executes, CallReturns, CallFails, Expires, Continues, Completes, Breaks, AtServer, Reported,
       requestVars
  <2>2. pc' \in Places1
    BY <1>3, <1>0 DEF LoopStep, Disconnects, Reuses, Lists, ListReturns, ListFails, ResumesNone, ResumesUnknown,
       ResumesCall, ResumesRefused, StartsTurn, Streams, StreamEnds, Absorbs, TurnEnds, TurnFails, TurnRefused,
       AsksApproval, Executes, CallReturns, CallFails, Expires, Continues, Completes, Breaks, AtServer, Reported
  <2>3. turn' \in {turn, turn + 1}
    BY <1>3 DEF LoopStep, Disconnects, Reuses, Lists, ListReturns, ListFails, ResumesNone, ResumesUnknown,
       ResumesCall, ResumesRefused, StartsTurn, Streams, StreamEnds, Absorbs, TurnEnds, TurnFails, TurnRefused,
       AsksApproval, Executes, CallReturns, CallFails, Expires, Continues, Completes, Breaks, Reported, loopVars
  <2>4. at' \in {at, at + 1, 1} \/ (Answers # {} /\ at' = Min(Answers) + 1)
    <3>1. CASE CallReturns \/ CallFails
      <4>1. AtServer /\ at' \in {at + 1, Min(Answers) + 1} /\ (at' = at + 1 \/ pc = "resuming")
        BY <3>1 DEF CallReturns, CallFails, Reported
      <4> QED
        BY <4>1 DEF RanInv
    <3>2. CASE ~(CallReturns \/ CallFails)
      BY <3>2, <1>3 DEF LoopStep, Disconnects, Reuses, Lists, ListReturns, ListFails, ResumesNone, ResumesUnknown,
       ResumesCall, ResumesRefused, StartsTurn, Streams, StreamEnds, Absorbs, TurnEnds, TurnFails, TurnRefused,
       AsksApproval, Executes, Expires, Continues, Completes, Breaks, loopVars
    <3> QED
      BY <3>1, <3>2
  <2>5. Answers # {} => Min(Answers) \in Nat
    BY AnswerIs DEF McpTypes
  <2>6. at' \in Nat \ {0} /\ turn' \in Nat
    BY <2>3, <2>4, <2>5, <1>0
  <2> QED
    BY <2>1, <2>2, <2>6, <1>0 DEF LoopType
<1> QED
  BY <1>1, <1>2, <1>3 DEF McpNext

\* A chunk that opens a call opens the next one.
LEMMA MayTellIs ==
  ASSUME McpTypes, TurnInv, pc = "streaming", NEW chunk \in Chunks, Opened(tr, chunk.ch) \/ MayOpen(chunk.ch)
  PROVE  MayTell(tr, chunk.ch)
<1> DEFINE ch == chunk.ch
<1> SUFFICES ASSUME IsTool(ch), ~Opened(tr, ch) PROVE ch[2] = Len(tr.named)
  BY DEF MayTell
<1>1. ToolsByIndex(tr) /\ Len(tr.named) \in Nat
  BY DEF TurnInv, InTurn, ChannelsOpen, McpTypes, StitchType, Translators
<1>2. ch \in Channels
  BY ChunkIs
<1>3. ch[2] \in Nat /\ ch = Tool(ch[2])
  BY <1>2, ChannelIs
<1>4. ch[2] > 0 => Opened(tr, Tool(ch[2] - 1))
  BY DEF MayOpen
<1> HIDE DEF ch
<1>5. ~(ch[2] < Len(tr.named))
  BY <1>1, <1>3 DEF ToolsByIndex
<1>6. ch[2] > 0 => ch[2] - 1 < Len(tr.named)
  <2>1. ch[2] > 0 => ch[2] - 1 \in Nat
    BY <1>3
  <2> QED
    BY <2>1, <1>1, <1>4 DEF ToolsByIndex
<1>7. ch[2] = Len(tr.named)
  BY <1>1, <1>3, <1>5, <1>6
<1> QED
  BY <1>7 DEF ch

\* A chunk is processed.
LEMMA StreamEffect ==
  ASSUME McpTypes, TurnInv, Streams
  PROVE  /\ pc = "streaming" /\ pc' = pc /\ st' = st /\ inbox = <<>>
         /\ \E chunk \in Chunks : \E n : /\ Processes(tr, chunk, n) /\ MayTell(tr, chunk.ch) /\ tr' = n.tr
                                     /\ inbox' = n.events /\ mixed' = (mixed \/ OutOfOrder(n.tr))
<1>1. /\ pc = "streaming" /\ pc' = pc /\ st' = st /\ inbox = <<>>
      /\ \E chunk \in Chunks : /\ Opened(tr, chunk.ch) \/ MayOpen(chunk.ch)
                               /\ tr' = Process(tr, chunk).tr /\ inbox' = Process(tr, chunk).events
                               /\ mixed' = (mixed \/ OutOfOrder(Process(tr, chunk).tr))
  BY DEF Streams
<1>2. PICK chunk \in Chunks : /\ Opened(tr, chunk.ch) \/ MayOpen(chunk.ch)
                              /\ tr' = Process(tr, chunk).tr /\ inbox' = Process(tr, chunk).events
                              /\ mixed' = (mixed \/ OutOfOrder(Process(tr, chunk).tr))
  BY <1>1
<1>3. MayTell(tr, chunk.ch)
  BY <1>1, <1>2, MayTellIs
<1>4. ToolsByIndex(tr) /\ tr \in Translators
  BY <1>1 DEF TurnInv, InTurn, ChannelsOpen, McpTypes, StitchType
<1>5. Processes(tr, chunk, Process(tr, chunk))
  BY <1>3, <1>4, ProcessIs
<1> QED
  BY <1>1, <1>2, <1>3, <1>5

\* The loader's stream ends.
LEMMA StreamEndEffect ==
  ASSUME McpTypes, TurnInv, StreamEnds
  PROVE  /\ pc = "streaming" /\ pc' = pc /\ st' = st /\ inbox = <<>> /\ mixed' = mixed
         /\ \E type \in {"completed", "failed"} : \E n : EndsTurn(tr, type, n) /\ tr' = n.tr /\ inbox' = n.events
<1>1. /\ pc = "streaming" /\ pc' = pc /\ st' = st /\ inbox = <<>> /\ mixed' = mixed
      /\ \E type \in {"completed", "failed"} : tr' = Ends(tr, type).tr /\ inbox' = Ends(tr, type).events
  BY DEF StreamEnds, inputVars
<1>2. PICK type \in {"completed", "failed"} : tr' = Ends(tr, type).tr /\ inbox' = Ends(tr, type).events
  BY <1>1
<1>3. ToolsByIndex(tr) /\ tr \in Translators
  BY <1>1 DEF TurnInv, InTurn, ChannelsOpen, McpTypes, StitchType
<1>4. EndsTurn(tr, type, Ends(tr, type))
  BY <1>3, EndsIs
<1> QED
  BY <1>1, <1>2, <1>4

\* The types of the stitcher, the translator and the inbox are kept.
LEMMA StitchTypeStep ==
  ASSUME McpTypes, TurnInv, RanInv, NumberInv, [McpNext]_mcpVars
  PROVE  StitchType'
<1> DEFINE E == ItemEvents \cup EndEvents
<1>0. tr \in Translators /\ inbox \in Seq(E)
  BY DEF McpTypes, StitchType
<1>1. st' \in Stitchers
  BY NumberStep
<1>2. tr' \in Translators /\ inbox' \in Seq(E)
  <2>1. CASE UNCHANGED loaderVars
    BY <2>1, <1>0 DEF loaderVars
  <2>2. CASE Starts
    <3>1. tr' = NewTranslator /\ inbox' = <<>>
      BY <2>2 DEF Starts
    <3> QED
      BY <3>1 DEF NewTranslator, Translators
  <2>3. CASE StartsTurn
    <3>1. tr' = Started /\ inbox' = <<>>
      BY <2>3 DEF StartsTurn
    <3>2. Started = [open |-> <<>>, named |-> <<>>, seq |-> 2]
      BY DEF Started, NewTranslator
    <3> QED
      BY <3>1, <3>2 DEF Translators
  <2>4. CASE Streams
    <3>0. PICK chunk \in Chunks : \E n : Processes(tr, chunk, n) /\ tr' = n.tr /\ inbox' = n.events
      BY <2>4, StreamEffect
    <3>1. PICK n : Processes(tr, chunk, n) /\ tr' = n.tr /\ inbox' = n.events
      BY <3>0
    <3>2. n.tr \in Translators /\ n.events \in Seq(ItemEvents)
      BY <3>1 DEF Processes, Retells
    <3> QED
      BY <3>1, <3>2
  <2>5. CASE StreamEnds
    <3>0. PICK type \in {"completed", "failed"} :
            \E n : EndsTurn(tr, type, n) /\ tr' = n.tr /\ inbox' = n.events
      BY <2>5, StreamEndEffect
    <3>1. PICK n : EndsTurn(tr, type, n) /\ tr' = n.tr /\ inbox' = n.events
      BY <3>0
    <3> QED
      BY <3>1 DEF EndsTurn, Retells
  <2>6. CASE Absorbs
    <3>1. tr' = tr /\ inbox' = Tail(inbox) /\ inbox # <<>>
      BY <2>6 DEF Absorbs
    <3> QED
      BY <3>1, <1>0, InboxIs DEF McpTypes
  <2>7. CASE TurnEnds \/ TurnFails
    <3>1. tr' = tr /\ inbox' = <<>>
      BY <2>7 DEF TurnEnds, TurnFails
    <3> QED
      BY <3>1, <1>0
  <2>8. [McpNext]_mcpVars /\ ~(Starts \/ StartsTurn \/ Streams \/ StreamEnds \/ Absorbs \/ TurnEnds \/ TurnFails)
          => UNCHANGED loaderVars
    BY DEF McpNext, mcpVars, LoopStep, Disconnects, Reuses, Lists, ListReturns, ListFails, ResumesNone, ResumesUnknown,
       ResumesCall, ResumesRefused, TurnRefused, AsksApproval, Executes, CallReturns, CallFails, Expires, Continues,
       Completes, Breaks, Reported, loaderVars
  <2> QED
    BY <2>1, <2>2, <2>3, <2>4, <2>5, <2>6, <2>7, <2>8
<1> QED
  BY <1>1, <1>2 DEF StitchType

RanStep == ran' = ran \/ (AtServer /\ ran' = Ran)

\* A tool runs only in the answer, the failure or the abandonment of a call.
LEMMA RanEffect ==
  ASSUME [McpNext]_mcpVars
  PROVE  /\ RanStep
         /\ ran' # ran => CallReturns \/ CallFails \/ Disconnects
<1>1. CASE CallReturns \/ CallFails \/ Disconnects
  BY <1>1 DEF CallReturns, CallFails, Disconnects, RanStep
<1>2. CASE ~(CallReturns \/ CallFails \/ Disconnects)
  BY <1>2 DEF McpNext, mcpVars, LoopStep, Starts, Reuses, Lists, ListReturns, ListFails, ResumesNone, ResumesUnknown,
       ResumesCall, ResumesRefused, StartsTurn, Streams, StreamEnds, Absorbs, TurnEnds, TurnFails, TurnRefused,
       AsksApproval, Executes, Expires, Continues, Completes, Breaks, serverVars, RanStep
<1> QED
  BY <1>1, <1>2

\* Only a request brings grants, and only a chunk an order.
LEMMA InputEffect ==
  ASSUME [McpNext]_mcpVars
  PROVE  /\ Starts \/ grants' = grants
         /\ Starts \/ Streams \/ mixed' = mixed
BY DEF McpNext, mcpVars, LoopStep, Disconnects, Reuses, Lists, ListReturns, ListFails, ResumesNone, ResumesUnknown,
   ResumesCall, ResumesRefused, StartsTurn, Streams, StreamEnds, Absorbs, TurnEnds, TurnFails, TurnRefused,
   AsksApproval, Executes, CallReturns, CallFails, Expires, Continues, Completes, Breaks, Reported, inputVars

\* The types of the history are kept.
LEMMA HistoryTypeStep ==
  ASSUME McpTypes, TurnInv, RanInv, [McpNext]_mcpVars
  PROVE  HistoryType'
<1>0. ran \in Seq(Executions) /\ grants \in Seq(Ids) /\ mixed \in BOOLEAN
  BY DEF McpTypes, HistoryType
<1>1. ran' \in Seq(Executions)
  <2>1. CASE ran' = ran
    BY <2>1, <1>0
  <2>2. CASE AtServer /\ ran' = Ran
    <3> DEFINE x == [item |-> Current.id, of |-> Current.of, name |-> Current.name]
    <3>1. x \in Executions
      BY <2>2, CurrentIs, CallItem DEF Executions
    <3>2. ran' = Append(ran, x)
      BY <2>2 DEF Ran
    <3> HIDE DEF x
    <3> QED
      BY <3>1, <3>2, <1>0
  <2> QED
    BY <2>1, <2>2, RanEffect DEF RanStep
<1>2. grants' \in Seq(Ids)
  <2>1. CASE grants' = grants
    BY <2>1, <1>0
  <2>2. CASE Starts
    <3>1. PICK x \in Items : grants' = IF x.kind = "answer" /\ x.approve THEN Append(grants, x.of) ELSE grants
      BY <2>2, StartItems
    <3>2. x.kind = "answer" => x.of \in Ids
      BY ItemIs
    <3> QED
      BY <3>1, <3>2, <1>0
  <2> QED
    BY <2>1, <2>2, InputEffect
<1>3. mixed' \in BOOLEAN
  <2>1. CASE Starts
    BY <2>1 DEF Starts
  <2>2. CASE Streams
    BY <2>2 DEF Streams
  <2> QED
    BY <2>1, <2>2, <1>0, InputEffect
<1> QED
  BY <1>1, <1>2, <1>3 DEF HistoryType

\* All types are kept.
LEMMA McpTypesStep ==
  ASSUME McpTypes, TurnInv, RanInv, NumberInv, [McpNext]_mcpVars
  PROVE  McpTypes'
BY RequestTypeStep, LoopTypeStep, StitchTypeStep, HistoryTypeStep DEF McpTypes

-----------------------------------------------------------------------------
(* The turn.                                                                 *)

\* A step that leaves the turn alone.
LEMMA TurnKept ==
  ASSUME TurnInv, pc \in {"calls", "calling"}, pc' \in {"calls", "calling"}, tr' = tr, inbox' = inbox,
         st'.buf = st.buf, st'.pending = st.pending
  PROVE  TurnInv'
<1>1. ChannelsOpen /\ InboxFits /\ HeldBack /\ Pended
  BY DEF TurnInv, InTurn
<1>2. ChannelsOpen' /\ InboxFits'
  BY <1>1 DEF ChannelsOpen, InboxFits
<1>3. \A c : /\ Heard(c)' <=> Heard(c)
             /\ Closed(c)' <=> Closed(c)
  BY DEF Heard, Closed, AddedWaits, DoneWaits
<1>4. HeldBack'
  BY <1>1, <1>3 DEF HeldBack, HeldFits, BufferOf
<1>5. Pended'
  BY <1>1, <1>3 DEF Pended, BufferOf
<1> QED
  BY <1>2, <1>4, <1>5 DEF TurnInv

\* A turn begins with nothing open.
LEMMA TurnStarts ==
  ASSUME McpTypes, TurnInv, StartsTurn, pc' = "streaming"
  PROVE  TurnInv'
<1>1. tr' = Started /\ inbox' = <<>>
  BY DEF StartsTurn
<1>2. tr'.open = <<>> /\ tr'.named = <<>>
  BY <1>1 DEF Started, NewTranslator
<1>3. st'.buf = <<>> /\ st'.pending = <<>>
  BY TurnEffects
<1>4. \A c : ~Opened(tr', c)
  BY <1>2 DEF Opened, Range
<1>5. ChannelsOpen'
  BY <1>2, <1>4 DEF ChannelsOpen, OpensOnce, ToolsByIndex
<1>6. InboxFits'
  BY <1>1 DEF InboxFits, DoneOnce
<1>7. HeldBack'
  BY <1>3, <1>4 DEF HeldBack, Heard
<1>8. Pended'
  BY <1>3, <1>4 DEF Pended, Closed, Opened
<1> QED
  BY <1>5, <1>6, <1>7, <1>8 DEF TurnInv

\* The channels of a translator that has processed a chunk.
LEMMA ChannelsStep ==
  ASSUME NEW t \in Translators, OpensOnce(t), ToolsByIndex(t), NEW chunk \in Chunks, MayTell(t, chunk.ch),
         NEW n, Processes(t, chunk, n)
  PROVE  /\ OpensOnce(n.tr) /\ ToolsByIndex(n.tr)
         /\ \A c : Opened(n.tr, c) <=> Opened(t, c) \/ c = chunk.ch
         /\ \A p \in DOMAIN t.open : p \in DOMAIN n.tr.open /\ n.tr.open[p] = t.open[p]
         /\ \A k \in Nat : k < Len(t.named) /\ t.named[k + 1] # NoName => n.tr.named[k + 1] = t.named[k + 1]
<1> DEFINE ch == chunk.ch
           u == n.tr
<1>0. /\ t.open \in Seq(Channels) /\ t.named \in Seq(Names) /\ Len(t.named) \in Nat
      /\ DOMAIN t.named = 1..Len(t.named)
  BY DEF Translators
<1>c. ch \in Channels /\ chunk.name \in Names
  BY ChunkIs
<1>d. ch[2] \in Nat /\ (IsTool(ch) <=> ch = Tool(ch[2]))
  BY <1>c, ChannelIs
<1>1. Retells(t, u, IF Opened(t, ch) THEN t.open ELSE Append(t.open, ch), NamedBy(t, chunk))
  BY DEF Processes
<1> HIDE DEF u
<1>2. \A c : Opened(u, c) <=> Opened(t, c) \/ c = ch
  <2>1. CASE Opened(t, ch)
    BY <2>1, <1>1 DEF Retells, Opened
  <2>2. CASE ~Opened(t, ch)
    <3>1. u.open = Append(t.open, ch) /\ Extends(t.open, ch, Append(t.open, ch), Channels)
      BY <2>2, <1>0, <1>1, <1>c, Appended DEF Retells
    <3> QED
      BY <3>1 DEF Extends, Opened, Range
  <2> QED
    BY <2>1, <2>2
<1>3. /\ \A p \in DOMAIN t.open : p \in DOMAIN u.open /\ u.open[p] = t.open[p]
      /\ OpensOnce(u)
  <2>1. CASE Opened(t, ch)
    BY <2>1, <1>1 DEF Retells, OpensOnce
  <2>2. CASE ~Opened(t, ch)
    <3>1. u.open = Append(t.open, ch) /\ Extends(t.open, ch, Append(t.open, ch), Channels)
      BY <2>2, <1>0, <1>1, <1>c, Appended DEF Retells
    <3>2. \A p \in DOMAIN t.open : t.open[p] # ch
      BY <2>2 DEF Opened, Range
    <3> QED
      BY <3>1, <3>2 DEF Extends, OpensOnce
  <2> QED
    BY <2>1, <2>2
<1>4. /\ Len(u.named) = IF IsTool(ch) /\ ~Opened(t, ch) THEN Len(t.named) + 1 ELSE Len(t.named)
      /\ \A k \in Nat : k < Len(t.named) /\ t.named[k + 1] # NoName => u.named[k + 1] = t.named[k + 1]
  <2>1. CASE ~IsTool(ch)
    BY <2>1, <1>1 DEF Retells, NamedBy
  <2>2. CASE IsTool(ch) /\ ~Opened(t, ch)
    <3>1. u.named = Append(t.named, chunk.name) /\ Extends(t.named, chunk.name, Append(t.named, chunk.name), Names)
      BY <2>2, <1>0, <1>1, <1>c, Appended DEF Retells, NamedBy
    <3>2. \A k \in Nat : k < Len(t.named) => k + 1 \in DOMAIN t.named
      BY <1>0
    <3> QED
      BY <3>1, <3>2, <2>2 DEF Extends
  <2>3. CASE IsTool(ch) /\ Opened(t, ch)
    <3> DEFINE x == IF t.named[ch[2] + 1] = NoName THEN chunk.name ELSE t.named[ch[2] + 1]
    <3>1. Reslots(t.named, u.named, ch[2] + 1, x)
      BY <2>3, <1>1 DEF Retells, NamedBy, Reslots
    <3>2. ch[2] < Len(t.named)
      BY <2>3, <1>d DEF ToolsByIndex
    <3>3. ch[2] + 1 \in DOMAIN t.named
      BY <3>2, <1>0, <1>d
    <3>4. x \in Names
      BY <3>3, <1>0, <1>c
    <3> HIDE DEF x, ch
    <3>5. Len(u.named) = Len(t.named) /\ \A i \in DOMAIN t.named : u.named[i] = IF i = ch[2] + 1 THEN x ELSE t.named[i]
      BY <3>1, <3>4, <1>0, Reslotted
    <3>6. \A k \in Nat : k < Len(t.named) => k + 1 \in DOMAIN t.named
      BY <1>0
    <3> QED
      BY <3>5, <3>6, <2>3 DEF x
  <2> QED
    BY <2>1, <2>2, <2>3
<1>5. ToolsByIndex(u)
  <2> SUFFICES ASSUME NEW k \in Nat PROVE Opened(u, Tool(k)) <=> k < Len(u.named)
    BY DEF ToolsByIndex
  <2>1. Opened(t, Tool(k)) <=> k < Len(t.named)
    BY DEF ToolsByIndex
  <2>2. CASE IsTool(ch) /\ ~Opened(t, ch)
    <3>1. ch = Tool(Len(t.named)) /\ Len(u.named) = Len(t.named) + 1
      BY <2>2, <1>4, <1>d DEF MayTell
    <3>2. Tool(k) = ch <=> k = Len(t.named)
      BY <3>1, ToolIs
    <3> QED
      BY <3>1, <3>2, <2>1, <1>0, <1>2
  <2>3. CASE ~(IsTool(ch) /\ ~Opened(t, ch))
    <3>1. Opened(u, Tool(k)) <=> Opened(t, Tool(k))
      BY <2>3, <1>2, ToolIs
    <3> QED
      BY <3>1, <2>1, <2>3, <1>4
  <2> QED
    BY <2>2, <2>3
<1> QED
  BY <1>2, <1>3, <1>4, <1>5 DEF u

\* A chunk keeps the turn in order; what it opens is still to be heard of.
LEMMA TurnStreams ==
  ASSUME McpTypes, TurnInv, Streams
  PROVE  /\ TurnInv'
         /\ \A c : (Heard(c)' <=> Heard(c)) /\ ~Closed(c)' /\ ~Closed(c)
<1>1. pc = "streaming" /\ pc' = "streaming" /\ st' = st /\ inbox = <<>>
  BY StreamEffect
<1>2. PICK chunk \in Chunks : \E n : /\ Processes(tr, chunk, n) /\ MayTell(tr, chunk.ch) /\ tr' = n.tr
                                     /\ inbox' = n.events
  BY StreamEffect
<1>3. PICK n : Processes(tr, chunk, n) /\ MayTell(tr, chunk.ch) /\ tr' = n.tr /\ inbox' = n.events
  BY <1>2
<1>4. ChannelsOpen /\ InboxFits /\ HeldBack /\ Pended
  BY <1>1 DEF TurnInv, InTurn
<1> DEFINE ch == chunk.ch
<1>5. /\ OpensOnce(tr') /\ ToolsByIndex(tr')
      /\ \A c : Opened(tr', c) <=> Opened(tr, c) \/ c = ch
      /\ \A p \in DOMAIN tr.open : p \in DOMAIN tr'.open /\ tr'.open[p] = tr.open[p]
      /\ \A k \in Nat : k < Len(tr.named) /\ tr.named[k + 1] # NoName => tr'.named[k + 1] = tr.named[k + 1]
  BY <1>3, <1>4, ChannelsStep DEF ChannelsOpen, McpTypes, StitchType
<1>6. /\ inbox' \in Seq(ItemEvents)
      /\ ~Opened(tr, ch) => 1 \in DOMAIN inbox'
      /\ \A i \in DOMAIN inbox' :
           /\ EventOf(inbox'[i], tr', ch) /\ inbox'[i].type # "done"
           /\ inbox'[i].type = "added" <=> i = 1 /\ ~Opened(tr, ch)
  BY <1>3 DEF Processes
<1> HIDE DEF ch
<1>7. \A i \in DOMAIN inbox' : inbox'[i].type \notin Terminal /\ inbox'[i].ch = ch
  BY <1>6 DEF EventOf, ItemEvents, ItemTypes, Terminal
<1>8. ~Closing'
  <2>1. inbox' # <<>> => Len(inbox') \in DOMAIN inbox'
    BY <1>6
  <2> QED
    BY <2>1, <1>7 DEF Closing
<1>9. InboxFits'
  BY <1>1, <1>6, <1>7, <1>8 DEF InboxFits, EventFits, DoneOnce
<1>10. \A c : ~Closed(c)' /\ ~Closed(c)
  BY <1>1, <1>8 DEF Closed, Closing
<1>11. \A c : Heard(c)' <=> Heard(c)
  <2> SUFFICES ASSUME NEW c PROVE Heard(c)' <=> Heard(c)
    OBVIOUS
  <2>1. Heard(c) <=> Opened(tr, c)
    BY <1>1 DEF Heard, AddedWaits
  <2>2. AddedWaits(c)' <=> ~Opened(tr, ch) /\ c = ch
    <3>1. ~Opened(tr, ch) => inbox' # <<>>
      BY <1>6
    <3>2. inbox' # <<>> => 1 \in DOMAIN inbox'
      BY <1>6
    <3> QED
      BY <3>1, <3>2, <1>6, <1>7 DEF AddedWaits
  <2> QED
    BY <2>1, <2>2, <1>5 DEF Heard
<1>12. HeldBack'
  <2> SUFFICES ASSUME NEW k \in Nat
               PROVE  (k < Len(st'.buf) <=> Heard(Tool(k))') /\ (k < Len(st'.buf) => HeldFits(k)')
    BY DEF HeldBack
  <2>1. k < Len(st'.buf) <=> Heard(Tool(k))'
    BY <1>1, <1>4, <1>11 DEF HeldBack
  <2>2. ASSUME k < Len(st.buf) PROVE HeldFits(k)'
    <3>1. HeldFits(k) /\ Opened(tr, Tool(k))
      BY <2>2, <1>4 DEF HeldBack, Heard
    <3>2. k < Len(tr.named)
      BY <3>1, <1>4 DEF ChannelsOpen, ToolsByIndex
    <3> QED
      BY <3>1, <3>2, <1>1, <1>5, <1>10 DEF HeldFits, BufferOf
  <2> QED
    BY <2>1, <2>2, <1>1
<1>13. Pended'
  BY <1>1, <1>4, <1>10 DEF Pended
<1> QED
  BY <1>5, <1>9, <1>10, <1>11, <1>12, <1>13 DEF TurnInv, ChannelsOpen

\* The end of the stream closes channels that nobody has heard the end of yet.
LEMMA TurnStreamEnds ==
  ASSUME McpTypes, TurnInv, StreamEnds
  PROVE  /\ TurnInv' /\ tr'.open = tr.open /\ tr'.named = tr.named
         /\ \A c : (Heard(c)' <=> Heard(c)) /\ ~Closed(c)' /\ ~Closed(c)
<1>1. pc = "streaming" /\ pc' = "streaming" /\ st' = st /\ inbox = <<>>
  BY StreamEndEffect
<1>2. PICK type \in {"completed", "failed"} : \E n : EndsTurn(tr, type, n) /\ tr' = n.tr /\ inbox' = n.events
  BY StreamEndEffect
<1>3. PICK n : EndsTurn(tr, type, n) /\ tr' = n.tr /\ inbox' = n.events
  BY <1>2
<1>4. ChannelsOpen /\ InboxFits /\ HeldBack /\ Pended
  BY <1>1 DEF TurnInv, InTurn
<1>5. tr'.open = tr.open /\ tr'.named = tr.named
  BY <1>3 DEF EndsTurn, Retells
<1>6. /\ inbox' \in Seq(ItemEvents \cup EndEvents) /\ Len(inbox') \in DOMAIN inbox'
      /\ inbox'[Len(inbox')].type \in Terminal /\ inbox'[Len(inbox')].output = CollectOutput(tr)
      /\ \A i \in DOMAIN inbox' : i # Len(inbox') =>
           EventOf(inbox'[i], tr', inbox'[i].ch) /\ inbox'[i].type \in CloseTypes
      /\ DoneOnce(inbox')
      /\ \A c \in Range(tr.open) : \E i \in DOMAIN inbox' : inbox'[i].type = "done" /\ inbox'[i].ch = c
  BY <1>3 DEF EndsTurn, Terminal
<1>7. Closing' /\ inbox' # <<>>
  <2>1. inbox' # <<>>
    BY <1>6
  <2> QED
    BY <2>1, <1>6 DEF Closing
<1>8. CollectOutput(tr)' = CollectOutput(tr)
  BY <1>5 DEF CollectOutput, Opened
<1>9. \A i \in DOMAIN inbox' : inbox'[i].type # "added"
  <2>1. "added" \notin Terminal /\ "added" \notin CloseTypes
    BY DEF Terminal, CloseTypes
  <2> QED
    BY <2>1, <1>6
<1>10. InboxFits'
  <2>1. ASSUME NEW i \in DOMAIN inbox' PROVE EventFits(i)'
    <3>1. CASE i = Len(inbox')
      BY <3>1, <1>6, <1>8 DEF EventFits
    <3>2. CASE i # Len(inbox')
      <4>1. inbox'[i].type \notin Terminal
        BY <3>2, <1>6 DEF CloseTypes, Terminal
      <4> QED
        BY <4>1, <3>2, <1>6, <1>7, <1>9 DEF EventFits
    <3> QED
      BY <3>1, <3>2
  <2> QED
    BY <2>1, <1>1, <1>6 DEF InboxFits
<1>11. \A c : (Opened(tr', c) <=> Opened(tr, c)) /\ ~Closed(c)' /\ ~Closed(c)
  BY <1>1, <1>5, <1>6 DEF Closed, Closing, DoneWaits, Opened
<1>12. \A c : Heard(c)' <=> Heard(c)
  <2>1. 1 \in DOMAIN inbox'
    BY <1>6, <1>7
  <2> QED
    BY <2>1, <1>1, <1>9, <1>11 DEF Heard, AddedWaits
<1>13. HeldBack'
  BY <1>1, <1>4, <1>5, <1>11, <1>12 DEF HeldBack, HeldFits, BufferOf
<1>14. Pended'
  BY <1>1, <1>4, <1>11 DEF Pended
<1>15. ChannelsOpen'
  BY <1>4, <1>5, <1>11 DEF ChannelsOpen, OpensOnce, ToolsByIndex
<1> QED
  BY <1>5, <1>10, <1>11, <1>12, <1>13, <1>14, <1>15 DEF TurnInv

\* The terminal event is the last: every channel has been heard of and closed.
LEMMA TurnIsOver ==
  ASSUME McpTypes, TurnInv, TurnEnds
  PROVE  /\ TurnInv' /\ inbox' = <<>> /\ tr' = tr /\ pc' = "calls"
         /\ \A c : (Opened(tr, c) <=> Heard(c)) /\ (Opened(tr, c) <=> Closed(c))
<1>1. pc = "streaming" /\ pc' = "calls" /\ tr' = tr /\ inbox' = <<>> /\ inbox # <<>> /\ Head(inbox).type = "completed"
  BY DEF TurnEnds
<1>2. st'.buf = st.buf /\ st'.pending = st.pending
  BY TurnEffects DEF Places
<1>3. ChannelsOpen /\ InboxFits /\ HeldBack /\ Pended
  BY <1>1 DEF TurnInv, InTurn
<1>4. Head(inbox) = inbox[1] /\ 1 \in DOMAIN inbox /\ DOMAIN inbox = 1..Len(inbox)
  BY <1>1, InboxIs DEF McpTypes
<1>5. Len(inbox) = 1 /\ Closing
  BY <1>1, <1>3, <1>4 DEF InboxFits, EventFits, Terminal, Closing
<1>6. \A c : /\ (Heard(c) <=> Opened(tr, c)) /\ (Heard(c)' <=> Opened(tr, c))
             /\ (Closed(c) <=> Opened(tr, c)) /\ (Closed(c)' <=> Opened(tr, c))
  <2>1. \A c : ~AddedWaits(c) /\ ~AddedWaits(c)' /\ ~DoneWaits(c) /\ ~DoneWaits(c)'
    BY <1>1, <1>4, <1>5 DEF AddedWaits, DoneWaits
  <2> QED
    BY <2>1, <1>1, <1>5 DEF Heard, Closed
<1>7. HeldBack'
  BY <1>1, <1>2, <1>3, <1>6 DEF HeldBack, HeldFits, BufferOf
<1>8. Pended'
  BY <1>1, <1>2, <1>3, <1>6 DEF Pended, BufferOf
<1>9. ChannelsOpen' /\ InboxFits'
  BY <1>1, <1>3 DEF ChannelsOpen, InboxFits
<1> QED
  BY <1>1, <1>6, <1>7, <1>8, <1>9 DEF TurnInv

\* What an absorbed event leaves of the turn's events, and of what they tell.
LEMMA InboxAbsorbed ==
  ASSUME McpTypes, TurnInv, Absorbs
  PROVE  LET e == Head(inbox) IN
         /\ InboxFits' /\ ChannelsOpen' /\ tr' = tr /\ pc' = pc
         /\ \A c : Heard(c)' <=> Opened(tr, c)
         /\ \A c : Heard(c) <=> Opened(tr, c) /\ ~(e.type = "added" /\ c = e.ch)
         /\ \A c : Closed(c)' <=> Closed(c) \/ (e.type = "done" /\ c = e.ch)
         /\ e.type = "done" => ~Closed(e.ch)
         /\ e.type = "added" => \A c : ~Closed(c)
         /\ EventOf(e, tr, e.ch)
<1> DEFINE e == Head(inbox)
<1>1. /\ pc = "streaming" /\ pc' = pc /\ tr' = tr /\ inbox # <<>> /\ inbox' = Tail(inbox)
      /\ e.type \notin Terminal
  BY DEF Absorbs
<1>2. ChannelsOpen /\ InboxFits
  BY <1>1 DEF TurnInv, InTurn
<1>3. /\ 1 \in DOMAIN inbox /\ Len(inbox) \in DOMAIN inbox /\ e = inbox[1]
      /\ DOMAIN inbox = 1..Len(inbox) /\ Len(inbox) \in Nat
      /\ Len(inbox') = Len(inbox) - 1 /\ DOMAIN inbox' = 1..(Len(inbox) - 1)
      /\ \A i \in DOMAIN inbox' : i + 1 \in DOMAIN inbox /\ inbox'[i] = inbox[i + 1]
  BY <1>1, InboxIs DEF McpTypes
<1>4. DoneOnce(inbox) /\ \A i \in DOMAIN inbox : EventFits(i)
  BY <1>1, <1>2 DEF InboxFits
<1> HIDE DEF e
<1>5. Closing' <=> Closing
  <2>1. CASE Len(inbox) = 1
    <3>1. inbox' = <<>> /\ inbox[Len(inbox)].type \notin Terminal
      BY <2>1, <1>1, <1>3 DEF e
    <3> QED
      BY <3>1 DEF Closing
  <2>2. CASE Len(inbox) # 1
    <3>1. Len(inbox') \in DOMAIN inbox' /\ Len(inbox') + 1 = Len(inbox)
      BY <2>2, <1>3
    <3>2. inbox'[Len(inbox')] = inbox[Len(inbox)]
      BY <3>1, <1>3
    <3>3. inbox' # <<>>
      BY <3>1
    <3> QED
      BY <3>2, <3>3, <1>1 DEF Closing
  <2> QED
    BY <2>1, <2>2
<1>6. EventOf(e, tr, e.ch) /\ (e.type = "added" => ~Closing) /\ (e.type = "done" => Closing)
  BY <1>1, <1>3, <1>4 DEF EventFits
<1>7. \A i \in DOMAIN inbox' : inbox'[i].type # "added"
  <2>1. ASSUME NEW i \in DOMAIN inbox' PROVE inbox'[i].type # "added"
    <3>1. EventFits(i + 1) /\ i + 1 # 1 /\ inbox'[i] = inbox[i + 1]
      BY <1>3, <1>4
    <3> QED
      BY <3>1 DEF EventFits, Terminal
  <2> QED
    BY <2>1
<1>8. InboxFits'
  <2>1. DoneOnce(inbox')
    <3> SUFFICES ASSUME NEW i \in DOMAIN inbox', NEW j \in DOMAIN inbox',
                        inbox'[i].type = "done", inbox'[j].type = "done", inbox'[i].ch = inbox'[j].ch
                 PROVE  i = j
      BY DEF DoneOnce
    <3>1. i + 1 \in DOMAIN inbox /\ j + 1 \in DOMAIN inbox /\ inbox'[i] = inbox[i + 1] /\ inbox'[j] = inbox[j + 1]
      BY <1>3
    <3>2. i + 1 = j + 1
      BY <3>1, <1>4 DEF DoneOnce
    <3> QED
      BY <3>2, <1>3
  <2>2. ASSUME NEW i \in DOMAIN inbox' PROVE EventFits(i)'
    <3>1. EventFits(i + 1) /\ inbox'[i] = inbox[i + 1] /\ i \in 1..(Len(inbox) - 1)
      BY <1>3, <1>4
    <3>2. CASE inbox'[i].type \in Terminal
      <4>1. i + 1 = Len(inbox) /\ inbox'[i].output = CollectOutput(tr)
        BY <3>1, <3>2 DEF EventFits
      <4>2. i = Len(inbox')
        BY <4>1, <3>1, <1>3
      <4> QED
        BY <4>1, <4>2, <3>2, <1>1 DEF EventFits
    <3>3. CASE inbox'[i].type \notin Terminal
      <4>1. EventOf(inbox'[i], tr, inbox'[i].ch) /\ (inbox'[i].type = "done" => Closing)
        BY <3>1, <3>3 DEF EventFits
      <4> QED
        BY <4>1, <3>3, <1>1, <1>5, <1>7 DEF EventFits
    <3> QED
      BY <3>2, <3>3
  <2> QED
    BY <2>1, <2>2, <1>1 DEF InboxFits
<1>9. \A c : Heard(c)' <=> Opened(tr, c)
  <2>1. \A c : ~AddedWaits(c)'
    <3>1. inbox' # <<>> => 1 \in DOMAIN inbox'
      BY <1>3, <1>1, InboxIs DEF McpTypes
    <3> QED
      BY <3>1, <1>7 DEF AddedWaits
  <2> QED
    BY <2>1, <1>1 DEF Heard
<1>10. \A c : Heard(c) <=> Opened(tr, c) /\ ~(e.type = "added" /\ c = e.ch)
  BY <1>1, <1>3 DEF Heard, AddedWaits
<1>11. \A c : DoneWaits(c) <=> DoneWaits(c)' \/ (e.type = "done" /\ c = e.ch)
  <2> SUFFICES ASSUME NEW c PROVE DoneWaits(c) <=> DoneWaits(c)' \/ (e.type = "done" /\ c = e.ch)
    OBVIOUS
  <2>1. ASSUME DoneWaits(c)' PROVE DoneWaits(c)
    BY <2>1, <1>3 DEF DoneWaits
  <2>2. ASSUME e.type = "done", c = e.ch PROVE DoneWaits(c)
    BY <2>2, <1>3 DEF DoneWaits
  <2>3. ASSUME DoneWaits(c) PROVE DoneWaits(c)' \/ (e.type = "done" /\ c = e.ch)
    <3>1. PICK i \in DOMAIN inbox : inbox[i].type = "done" /\ inbox[i].ch = c
      BY <2>3 DEF DoneWaits
    <3>2. CASE i = 1
      BY <3>1, <3>2, <1>3
    <3>3. CASE i # 1
      <4>1. i - 1 \in DOMAIN inbox' /\ (i - 1) + 1 = i
        BY <3>3, <1>3
      <4>2. inbox'[i - 1] = inbox[i]
        BY <4>1, <1>3
      <4> QED
        BY <4>1, <4>2, <3>1 DEF DoneWaits
    <3> QED
      BY <3>2, <3>3
  <2> QED
    BY <2>1, <2>2, <2>3
<1>12. \A c : e.type = "done" /\ c = e.ch => ~DoneWaits(c)'
  <2> SUFFICES ASSUME e.type = "done", NEW i \in DOMAIN inbox', inbox'[i].type = "done", inbox'[i].ch = e.ch
               PROVE  FALSE
    BY DEF DoneWaits
  <2>1. i + 1 \in DOMAIN inbox /\ inbox[i + 1].type = "done" /\ inbox[i + 1].ch = e.ch /\ i + 1 # 1
    BY <1>3
  <2> QED
    BY <2>1, <1>3, <1>4 DEF DoneOnce
<1>13. \A c : Closed(c)' <=> Closed(c) \/ (e.type = "done" /\ c = e.ch)
  BY <1>1, <1>5, <1>6, <1>11, <1>12 DEF Closed, EventOf
<1>14. e.type = "done" => ~Closed(e.ch)
  BY <1>11 DEF Closed
<1>15. e.type = "added" => \A c : ~Closed(c)
  BY <1>1, <1>6 DEF Closed
<1>16. ChannelsOpen'
  BY <1>1, <1>2 DEF ChannelsOpen
<1> QED
  BY <1>1, <1>6, <1>8, <1>9, <1>10, <1>13, <1>14, <1>15, <1>16 DEF e

\* A class that the stitcher has found for a call.
LEMMA ClassFits ==
  ASSUME RequestType, LoopType, pc = "streaming", NEW name, Class(name) = "mcp"
  PROVE  name # NoName /\ name \notin Guarded
<1>1. name \in tools /\ name \notin Guarded
  BY ClassIs
<1>2. tools \subseteq req.allowed /\ req.allowed \in Allowed
  BY DEF RequestType, LoopType
<1> QED
  BY <1>1, <1>2, McpAssumption

\* An event keeps the turn in order: buffers by index, pending calls once, and none of the client's.
LEMMA TurnAbsorbs ==
  ASSUME McpTypes, TurnInv, Absorbs
  PROVE  TurnInv'
<1>0. PICK e : e = Head(inbox)
  OBVIOUS
<1>1. /\ pc = "streaming" /\ inbox # <<>> /\ e.type \notin Terminal
  BY <1>0 DEF Absorbs
<1>2. ChannelsOpen /\ InboxFits /\ HeldBack /\ Pended
  BY <1>1 DEF TurnInv, InTurn
<1>3. /\ InboxFits' /\ ChannelsOpen' /\ tr' = tr /\ pc' = pc
      /\ \A c : Heard(c)' <=> Opened(tr, c)
      /\ \A c : Heard(c) <=> Opened(tr, c) /\ ~(e.type = "added" /\ c = e.ch)
      /\ \A c : Closed(c)' <=> Closed(c) \/ (e.type = "done" /\ c = e.ch)
      /\ e.type = "done" => ~Closed(e.ch)
      /\ e.type = "added" => \A c : ~Closed(c)
      /\ EventOf(e, tr, e.ch)
  BY <1>0, InboxAbsorbed
<1>4. st' \in Stitchers /\ AbsorbsOne(e) /\ st \in Stitchers
  BY <1>0, TurnEffects DEF McpTypes, StitchType
<1>5. /\ e.ch \in Channels
      /\ IsTool(e.ch) /\ e.type = "added" => e.ch[2] = Len(st.buf)
      /\ IsTool(e.ch) /\ e.type # "added" => e.ch[2] + 1 \in DOMAIN st.buf
  BY <1>0, <1>1, HeadFits DEF McpTypes
<1>6. /\ st.buf \in Seq(Buffers) /\ st.pending \in Seq(Channels) /\ Len(st.buf) \in Nat
      /\ DOMAIN st.buf = 1..Len(st.buf)
  BY <1>4 DEF Stitchers
<1>7. CASE ~IsTool(e.ch)
  <2>1. st'.buf = st.buf /\ st'.pending = st.pending
    BY <1>4, <1>7 DEF AbsorbsOne, AbsorbsText, SameButSent
  <2>2. \A c : IsTool(c) => (Heard(c)' <=> Heard(c)) /\ (Closed(c)' <=> Closed(c))
    BY <1>3, <1>7
  <2>3. \A k \in Nat : IsTool(Tool(k))
    BY ToolIs
  <2>4. HeldBack'
    BY <2>1, <2>2, <2>3, <1>2, <1>3 DEF HeldBack, HeldFits, BufferOf
  <2>5. Pended'
    BY <2>1, <2>2, <1>2, <1>3 DEF Pended, BufferOf
  <2> QED
    BY <2>4, <2>5, <1>3 DEF TurnInv
<1>8. CASE IsTool(e.ch)
  <2>1. PICK k \in Nat : k = e.ch[2] /\ e.ch = Tool(k) /\ Opened(tr, e.ch)
    BY <1>3, <1>5, <1>8, ChannelIs DEF EventOf
  <2>2. PICK b, T : AbsorbsTool(st, st', e, b, T)
    BY <1>4, <1>8 DEF AbsorbsOne
  <2>3. /\ b \in Buffers
        /\ st'.buf = IF e.type = "added" THEN Append(st.buf, b) ELSE [st.buf EXCEPT ![k + 1] = b]
        /\ b.class = IF OldClass(st, e) = "unknown" /\ (e.type = "done" \/ (e.type = "added" /\ e.name # NoName))
                     THEN Class(e.name) ELSE OldClass(st, e)
        /\ OldClass(st, e) # "unknown" => b = st.buf[k + 1]
        /\ RawFits(b, e.oi)
        /\ st'.pending = IF e.type = "done" /\ b.class # "client" THEN Append(st.pending, e.ch) ELSE st.pending
    BY <2>1, <2>2 DEF AbsorbsTool
  <2>4. /\ e.oi + 1 \in DOMAIN tr.open /\ tr.open[e.oi + 1] = e.ch /\ e.name = tr.named[k + 1] /\ e.oi \in Nat
        /\ (e.oi + 1) - 1 = e.oi
    BY <2>1, <1>3, <1>8 DEF EventOf, ItemEvents
  <2>5. Class(e.name) = "mcp" => tr.named[k + 1] # NoName /\ tr.named[k + 1] \notin Guarded
    BY <2>4, <1>1, ClassFits DEF McpTypes
  <2>6. \A j \in Nat : Tool(j) = e.ch <=> j = k
    BY <2>1, ToolIs
  <2>7. CASE e.type = "added"
    <3>1. Extends(st.buf, b, st'.buf, Buffers) /\ k = Len(st.buf)
      BY <2>1, <2>3, <2>7, <1>5, <1>6, <1>8, Appended
    <3>2. \A c : ~Closed(c)' /\ ~Closed(c)
      BY <2>7, <1>3
    <3>3. HeldBack'
      <4> SUFFICES ASSUME NEW j \in Nat
                   PROVE  (j < Len(st'.buf) <=> Heard(Tool(j))') /\ (j < Len(st'.buf) => HeldFits(j)')
        BY DEF HeldBack
      <4>1. j < Len(st'.buf) <=> j < Len(st.buf) \/ j = k
        BY <3>1 DEF Extends
      <4>2. Heard(Tool(j))' <=> Heard(Tool(j)) \/ j = k
        BY <2>1, <2>6, <2>7, <1>3
      <4>3. j < Len(st.buf) <=> Heard(Tool(j))
        BY <1>2 DEF HeldBack
      <4>4. CASE j < Len(st.buf)
        <5>1. HeldFits(j)
          BY <4>4, <1>2 DEF HeldBack
        <5>2. j + 1 \in DOMAIN st.buf
          BY <4>4, <1>6
        <5>3. st'.buf[j + 1] = st.buf[j + 1]
          BY <5>2, <3>1 DEF Extends
        <5>4. HeldFits(j)'
          BY <5>1, <5>3, <3>2, <1>3 DEF HeldFits, BufferOf
        <5> QED
          BY <5>4, <4>1, <4>2, <4>3
      <4>5. CASE j = k
        <5>1. st'.buf[j + 1] = b
          BY <4>5, <3>1 DEF Extends
        <5>2. b.class = "mcp" => tr.named[j + 1] # NoName /\ tr.named[j + 1] \notin Guarded
          BY <4>5, <2>3, <2>5, <2>7 DEF OldClass
        <5>3. HeldFits(j)'
          BY <4>5, <5>1, <5>2, <3>2, <2>1, <2>3, <2>4, <1>3 DEF HeldFits, BufferOf
        <5> QED
          BY <5>3, <4>1, <4>2, <4>3
      <4> QED
        BY <4>1, <4>2, <4>3, <4>4, <4>5
    <3>4. Pended'
      BY <3>2, <2>3, <2>7, <1>2 DEF Pended
    <3> QED
      BY <3>3, <3>4, <1>3 DEF TurnInv
  <2>8. CASE e.type # "added"
    <3>1. Reslots(st.buf, st'.buf, k + 1, b) /\ k + 1 \in DOMAIN st.buf
      BY <2>1, <2>3, <2>8, <1>5, <1>8 DEF Reslots
    <3>2. /\ Len(st'.buf) = Len(st.buf) /\ DOMAIN st'.buf = DOMAIN st.buf
          /\ \A i \in DOMAIN st.buf : st'.buf[i] = IF i = k + 1 THEN b ELSE st.buf[i]
      <4>1. b \in Buffers /\ st.buf \in Seq(Buffers)
        BY <2>3, <1>6
      <4> QED
        BY <4>1, <3>1, Reslotted
    <3>3. \A c : Heard(c)' <=> Heard(c)
      BY <2>8, <1>3
    <3>4. \A j \in Nat : j < Len(st.buf) => BufferOf(j)' = IF j = k THEN b ELSE BufferOf(j)
      <4> SUFFICES ASSUME NEW j \in Nat, j < Len(st.buf) PROVE st'.buf[j + 1] = IF j = k THEN b ELSE st.buf[j + 1]
        BY DEF BufferOf
      <4>1. j + 1 \in DOMAIN st.buf /\ (j + 1 = k + 1 <=> j = k)
        BY <1>6, <2>1
      <4> QED
        BY <4>1, <3>2
    <3>5. k < Len(st.buf) /\ HeldFits(k)
      <4>1. k < Len(st.buf)
        BY <3>1, <2>1, <1>6
      <4> QED
        BY <4>1, <2>1, <1>2 DEF HeldBack
    <3>6. OldClass(st, e) = BufferOf(k).class /\ (OldClass(st, e) # "unknown" => b = BufferOf(k))
      BY <2>1, <2>3, <2>8 DEF OldClass, BufferOf
    <3>7. b.class = "unknown" => e.type # "done" /\ BufferOf(k).class = "unknown"
      BY <2>3, <2>8, <3>6, ClassIs
    <3>8. b.class = "mcp" => tr.named[k + 1] # NoName /\ tr.named[k + 1] \notin Guarded
      <4>1. CASE OldClass(st, e) = "unknown"
        BY <4>1, <2>3, <2>5
      <4>2. CASE OldClass(st, e) # "unknown"
        BY <4>2, <3>5, <3>6 DEF HeldFits
      <4> QED
        BY <4>1, <4>2
    <3>9. Closed(e.ch) => b = BufferOf(k)
      BY <3>5, <3>6, <2>1 DEF HeldFits
    <3>10. HeldBack'
      <4> SUFFICES ASSUME NEW j \in Nat
                   PROVE  (j < Len(st'.buf) <=> Heard(Tool(j))') /\ (j < Len(st'.buf) => HeldFits(j)')
        BY DEF HeldBack
      <4>1. j < Len(st'.buf) <=> Heard(Tool(j))'
        BY <3>2, <3>3, <1>2 DEF HeldBack
      <4>2. ASSUME j < Len(st.buf), j # k PROVE HeldFits(j)'
        <5>1. HeldFits(j) /\ BufferOf(j)' = BufferOf(j)
          BY <4>2, <3>4, <1>2 DEF HeldBack
        <5>2. Closed(Tool(j))' <=> Closed(Tool(j))
          BY <4>2, <2>6, <1>3
        <5> QED
          BY <5>1, <5>2, <1>3 DEF HeldFits
      <4>3. HeldFits(k)'
        <5>1. BufferOf(k)' = b
          BY <3>4, <3>5, <2>1
        <5>2. b.class = "unknown" => ~Closed(Tool(k))'
          BY <3>5, <3>7, <2>1, <1>3 DEF HeldFits
        <5> QED
          BY <5>1, <5>2, <3>8, <2>1, <2>3, <2>4, <1>3 DEF HeldFits
      <4> QED
        BY <4>1, <4>2, <4>3, <3>2
    <3>11. \A c \in Range(tr.open) : IsTool(c) =>
             c[2] \in Nat /\ c[2] < Len(st.buf) /\ (c[2] = k <=> c = e.ch)
      <4> SUFFICES ASSUME NEW c \in Range(tr.open), IsTool(c)
                   PROVE  c[2] \in Nat /\ c[2] < Len(st.buf) /\ (c[2] = k <=> c = e.ch)
        OBVIOUS
      <4>1. c \in Channels
        <5>1. tr.open \in Seq(Channels)
          BY DEF McpTypes, StitchType, Translators
        <5> QED
          BY <5>1 DEF Range
      <4>2. c[2] \in Nat /\ c = Tool(c[2])
        BY <4>1, ChannelIs
      <4>3. Heard(c)
        BY <2>8, <1>3 DEF Opened
      <4> QED
        BY <4>2, <4>3, <2>6, <1>2 DEF HeldBack
    <3>12. \A c \in Range(st.pending) : IsTool(c) /\ Closed(c) /\ Closed(c)'
      BY <1>2, <1>3 DEF Pended, Range
    <3>13. CASE e.type = "done" /\ b.class # "client"
      <4>1. Extends(st.pending, e.ch, st'.pending, Channels)
        BY <3>13, <2>3, <1>5, <1>6, Appended
      <4>2. \A i \in DOMAIN st.pending : st.pending[i] # e.ch
        BY <3>12, <3>13, <1>3 DEF Range
      <4>3. \A i, j \in DOMAIN st'.pending : st'.pending[i] = st'.pending[j] => i = j
        BY <4>1, <4>2, <1>2 DEF Extends, Pended
      <4>5. \A c : c \in Range(st'.pending) <=> c \in Range(st.pending) \/ c = e.ch
        BY <4>1 DEF Extends, Range
      <4>4. \A c \in Range(st'.pending) : IsTool(c) /\ Closed(c)'
        BY <4>5, <3>12, <3>13, <1>3, <1>8
      <4>6. ASSUME NEW c \in Range(tr.open), Closed(c)', IsTool(c)
            PROVE  c \in Range(st'.pending) <=> BufferOf(c[2])'.class # "client"
        BY <4>5, <4>6, <3>4, <3>11, <3>13, <1>2, <1>3 DEF Pended
      <4>7. Pended'
        BY <4>3, <4>4, <4>6, <1>3 DEF Pended, Range
      <4> QED
        BY <4>7, <3>10, <1>3 DEF TurnInv
    <3>14. CASE ~(e.type = "done" /\ b.class # "client")
      <4>1. st'.pending = st.pending
        BY <3>14, <2>3
      <4>2. ASSUME NEW c \in Range(tr.open), Closed(c)', IsTool(c)
            PROVE  c \in Range(st.pending) <=> BufferOf(c[2])'.class # "client"
        <5>1. CASE c # e.ch
          BY <5>1, <4>2, <3>4, <3>11, <1>2, <1>3 DEF Pended
        <5>2. CASE c = e.ch /\ Closed(c)
          BY <5>2, <4>2, <3>4, <3>9, <3>11, <1>2, <1>3 DEF Pended
        <5>3. CASE c = e.ch /\ ~Closed(c)
          <6>1. e.type = "done" /\ b.class = "client"
            BY <5>3, <4>2, <3>14, <1>3
          <6>2. c \notin Range(st.pending)
            BY <5>3, <3>12
          <6> QED
            BY <6>1, <6>2, <5>3, <4>2, <3>4, <3>11
        <5> QED
          BY <5>1, <5>2, <5>3
      <4>3. Pended'
        <5>1. \A i \in DOMAIN st.pending : st.pending[i] \in Range(st.pending)
          BY DEF Range
        <5> QED
          BY <5>1, <4>1, <4>2, <3>12, <1>2, <1>3 DEF Pended
      <4> QED
        BY <4>3, <3>10, <1>3 DEF TurnInv
    <3> QED
      BY <3>13, <3>14
  <2> QED
    BY <2>7, <2>8
<1> QED
  BY <1>7, <1>8

\* The order of a turn is inductive.
LEMMA TurnInvStep ==
  ASSUME McpTypes, TurnInv, RanInv, [McpNext]_mcpVars
  PROVE  TurnInv'
<1>1. ASSUME pc' \notin {"streaming", "calls", "calling"} PROVE TurnInv'
  BY <1>1 DEF TurnInv, InTurn
<1>2. CASE StartsTurn
  <2>1. pc' = "streaming" \/ pc' = "refused"
    BY <1>2 DEF StartsTurn
  <2> QED
    BY <2>1, <1>1, <1>2, TurnStarts
<1>3. CASE Streams
  BY <1>3, TurnStreams
<1>4. CASE StreamEnds
  BY <1>4, TurnStreamEnds
<1>5. CASE Absorbs
  BY <1>5, TurnAbsorbs
<1>6. CASE TurnEnds
  BY <1>6, TurnIsOver
<1>7. CASE AsksApproval \/ Executes \/ ((CallReturns \/ CallFails \/ Expires) /\ pc = "calling")
  <2>1. /\ pc \in {"calls", "calling"} /\ pc' \in {"calls", "calling"} /\ tr' = tr /\ inbox' = inbox
    BY <1>7 DEF AsksApproval, Executes, CallReturns, CallFails, Expires, Reported, loaderVars
  <2>2. st'.buf = st.buf /\ st'.pending = st.pending
    <3>1. CASE AsksApproval \/ CallReturns \/ CallFails
      BY <3>1, CallEffects DEF SameButSent
    <3>2. CASE Executes \/ Expires
      BY <3>2 DEF Executes, Expires
    <3> QED
      BY <3>1, <3>2, <1>7
  <2> QED
    BY <2>1, <2>2, TurnKept
<1>8. CASE (CallReturns \/ CallFails \/ Expires) /\ pc # "calling"
  <2>1. pc' \in {"resume", "resuming", "listing"}
    BY <1>8 DEF CallReturns, CallFails, Expires, Reported, AtServer
  <2> QED
    BY <2>1, <1>1
<1>9. CASE \/ Starts \/ Disconnects \/ Reuses \/ Lists \/ ListReturns \/ ListFails \/ ResumesNone \/ ResumesUnknown
           \/ ResumesCall \/ ResumesRefused \/ TurnFails \/ TurnRefused \/ Continues \/ Completes \/ Breaks
  <2>1. pc' \in {"idle", "discover", "resume", "listing", "turn", "resuming"}
    BY <1>9 DEF Starts, Disconnects, Reuses, Lists, ListReturns, ListFails, ResumesNone, ResumesUnknown,
           ResumesCall, ResumesRefused, TurnFails, TurnRefused, Continues, Completes, Breaks
  <2> QED
    BY <2>1, <1>1
<1>10. CASE UNCHANGED mcpVars
  <2>1. pc' = pc /\ tr' = tr /\ inbox' = inbox /\ st' = st
    BY <1>10 DEF mcpVars
  <2>2. \A c : (Heard(c)' <=> Heard(c)) /\ (Closed(c)' <=> Closed(c))
    BY <2>1 DEF Heard, Closed, AddedWaits, DoneWaits, Closing
  <2>3. InTurn' <=> InTurn
    BY <2>1 DEF InTurn
  <2>4. ChannelsOpen' <=> ChannelsOpen
    BY <2>1 DEF ChannelsOpen
  <2>5. InboxFits' <=> InboxFits
    BY <2>1 DEF InboxFits, EventFits, Closing, CollectOutput
  <2>6. (HeldBack' <=> HeldBack) /\ (Pended' <=> Pended)
    BY <2>1, <2>2 DEF HeldBack, HeldFits, BufferOf, Pended
  <2> QED
    BY <2>3, <2>4, <2>5, <2>6 DEF TurnInv
<1> QED
  BY <1>2, <1>3, <1>4, <1>5, <1>6, <1>7, <1>8, <1>9, <1>10 DEF McpNext, LoopStep

-----------------------------------------------------------------------------
(* The calls that run.                                                       *)

\* Where the loop goes, and what it counts on its way.
Moves ==
  \/ made' = made + 1 /\ pc' \in {"idle", "discover"} /\ turn' = 0
  \/ made' = made /\ pc' = "idle"
  \/ made' = made /\ pc \in {"discover", "listing"} /\ pc' \in {"listing", "resume"} /\ turn' = turn
  \/ made' = made /\ pc = "resume" /\ pc' = "turn" /\ turn' = turn
  \/ made' = made /\ pc = "resume" /\ pc' = "resuming" /\ turn' = turn /\ at' = at
  \/ /\ made' = made /\ pc \in {"resume", "resuming"} /\ pc' = "resume" /\ turn' = turn
     /\ Answers # {} /\ at' = Min(Answers) + 1
  \/ made' = made /\ pc = "turn" /\ pc' \in {"refused", "streaming"} /\ turn' = turn + 1 /\ at' = 1
  \/ made' = made /\ pc = "streaming" /\ pc' \in {"streaming", "calls"} /\ turn' = turn /\ at' = at
  \/ /\ made' = made /\ pc \in {"calls", "calling"} /\ pc' \in {"calls", "calling"} /\ turn' = turn
     /\ st'.pending = st.pending /\ at' \in {at, at + 1}
  \/ made' = made /\ pc = "calls" /\ pc' = "turn" /\ turn' = turn
  \/ UNCHANGED <<made, pc, turn, at, st>>

\* Where the loop goes, and what its place counts.
LEMMA LoopMoves ==
  ASSUME McpTypes, TurnInv, RanInv, [McpNext]_mcpVars
  PROVE  Moves
<1>1. CASE Starts
  BY <1>1 DEF Moves, Starts
<1>2. CASE \/ Disconnects \/ ListFails \/ ResumesUnknown \/ TurnFails \/ TurnRefused \/ Completes \/ Breaks
  BY <1>2 DEF Moves, Disconnects, ListFails, ResumesUnknown, TurnFails, TurnRefused, Completes, Breaks, requestVars
<1>3. CASE Reuses \/ Lists \/ ListReturns
  BY <1>3 DEF Moves, Reuses, Lists, ListReturns, requestVars, loopVars
<1>4. CASE ResumesNone \/ ResumesCall
  BY <1>4 DEF Moves, ResumesNone, ResumesCall, requestVars, loopVars
<1>5. CASE ResumesRefused
  BY <1>5 DEF Moves, ResumesRefused, requestVars
<1>6. CASE StartsTurn
  BY <1>6 DEF Moves, StartsTurn, requestVars
<1>7. CASE Streams \/ StreamEnds \/ Absorbs \/ TurnEnds
  BY <1>7 DEF Moves, Streams, StreamEnds, Absorbs, TurnEnds, requestVars, loopVars
<1>8. CASE AsksApproval
  <2>1. st'.pending = st.pending
    BY <1>8, CallEffects DEF SameButSent
  <2> QED
    BY <1>8, <2>1 DEF Moves, AsksApproval, requestVars
<1>9. CASE Executes
  BY <1>9 DEF Moves, Executes, requestVars, loopVars
<1>10. CASE CallReturns \/ CallFails
  <2>1. st'.pending = st.pending
    BY <1>10, CallEffects DEF SameButSent
  <2>2. made' = made /\ turn' = turn
    BY <1>10 DEF CallReturns, CallFails, Reported, requestVars
  <2>3. CASE pc = "resuming"
    <3>1. Answers # {}
      BY <2>3 DEF RanInv
    <3>2. pc' = "resume" /\ at' = Min(Answers) + 1
      BY <2>3, <1>10 DEF CallReturns, CallFails, Reported
    <3> QED
      BY <2>2, <2>3, <3>1, <3>2 DEF Moves
  <2>4. CASE pc # "resuming"
    <3>1. pc = "calling" /\ pc' = "calls" /\ at' = at + 1
      BY <2>4, <1>10 DEF CallReturns, CallFails, Reported, AtServer
    <3> QED
      BY <2>1, <2>2, <3>1 DEF Moves
  <2> QED
    BY <2>3, <2>4
<1>11. CASE Expires \/ UNCHANGED mcpVars
  BY <1>11 DEF Moves, Expires, mcpVars, requestVars, loopVars
<1>12. CASE Continues
  BY <1>12 DEF Moves, Continues, requestVars, loopVars
<1> QED
  BY <1>1, <1>2, <1>3, <1>4, <1>5, <1>6, <1>7, <1>8, <1>9, <1>10, <1>11, <1>12 DEF McpNext, LoopStep

\* The parts of an id.
LEMMA IdIs ==
  ASSUME NEW id \in Ids
  PROVE  id[1] \in Nat /\ id[2] \in Nat /\ id[3][2] \in Nat
BY DEF Ids

\* What has run is still done with after a step.
LEMMA RanKept ==
  ASSUME McpTypes, TurnInv, RanInv, [McpNext]_mcpVars, NEW id \in Ids, RanBefore(id)
  PROVE  RanBefore(id)'
<1>1. id[1] \in Nat /\ id[2] \in Nat /\ id[3][2] \in Nat
  BY IdIs
<1>2. made \in Nat /\ turn \in Nat /\ at \in Nat \ {0}
  BY DEF McpTypes, RequestType, LoopType
<1>3. Answers # {} => Min(Answers) \in Nat /\ at <= Min(Answers)
  BY AnswerIs DEF McpTypes
<1>4. id[1] <= made
  BY DEF RanBefore
<1>5. CASE made' = made + 1
  BY <1>1, <1>2, <1>4, <1>5 DEF RanBefore
<1>6. CASE made' = made /\ pc' = "idle"
  BY <1>4, <1>6 DEF RanBefore
<1>7. CASE id[1] # made /\ made' = made
  BY <1>4, <1>7 DEF RanBefore
<1>8. CASE id[1] = made /\ made' = made /\ pc' # "idle"
  <2>1. /\ pc \in {"discover", "listing"} => FALSE
        /\ pc \in {"resume", "resuming"} => id[2] = 0 /\ id[3][2] < at
        /\ pc = "turn" => id[2] <= turn
        /\ pc \in {"refused", "streaming"} => id[2] < turn
        /\ pc \in {"calls", "calling"} =>
              id[2] < turn \/ (id[2] = turn /\ \E k \in 1..(at - 1) : st.pending[k] = id[3])
    BY <1>8 DEF RanBefore
  <2>2. Moves
    BY LoopMoves
  <2>3. CASE pc = "resume" /\ pc' = "turn" /\ turn' = turn
    BY <2>1, <2>3, <1>1, <1>2, <1>8 DEF RanBefore
  <2>4. CASE pc = "resume" /\ pc' = "resuming" /\ at' = at
    BY <2>1, <2>4, <1>8 DEF RanBefore
  <2>5. CASE pc \in {"resume", "resuming"} /\ pc' = "resume" /\ Answers # {} /\ at' = Min(Answers) + 1
    BY <2>1, <2>5, <1>1, <1>2, <1>3, <1>8 DEF RanBefore
  <2>6. CASE pc = "turn" /\ pc' \in {"refused", "streaming"} /\ turn' = turn + 1
    BY <2>1, <2>6, <1>1, <1>2, <1>8 DEF RanBefore
  <2>7. CASE pc = "streaming" /\ pc' \in {"streaming", "calls"} /\ turn' = turn
    BY <2>1, <2>7, <1>8 DEF RanBefore
  <2>8. CASE /\ pc \in {"calls", "calling"} /\ pc' \in {"calls", "calling"} /\ turn' = turn
             /\ st'.pending = st.pending /\ at' \in {at, at + 1}
    <3>1. \A k \in 1..(at - 1) : k \in 1..(at' - 1)
      <4>1. at' = at \/ at' = at + 1
        BY <2>8
      <4> QED
        BY <4>1, <1>2
    <3>2. id[2] < turn \/ (id[2] = turn /\ \E k \in 1..(at' - 1) : st.pending[k] = id[3])
      BY <2>1, <2>8, <3>1
    <3> QED
      BY <3>2, <2>8, <1>8 DEF RanBefore
  <2>9. CASE pc = "calls" /\ pc' = "turn" /\ turn' = turn
    BY <2>1, <2>9, <1>1, <1>2, <1>8 DEF RanBefore
  <2>10. CASE UNCHANGED <<made, pc, turn, at, st>>
    BY <2>10 DEF RanBefore
  <2> QED
    BY <2>1, <2>2, <2>3, <2>4, <2>5, <2>6, <2>7, <2>8, <2>9, <2>10, <1>2, <1>8 DEF Moves
<1> QED
  BY <1>5, <1>6, <1>7, <1>8, LoopMoves DEF Moves

\* The call in hand has not run before, and is done with once it has run.
LEMMA RanNow ==
  ASSUME McpTypes, TurnInv, RanInv, AtServer, NEW id, id = Current.id
  PROVE  /\ id \in Ids /\ ~RanBefore(id)
         /\ CallReturns \/ CallFails \/ Disconnects => RanBefore(id)'
<1>1. id \in Ids
  BY CurrentIs
<1>2. made \in Nat /\ turn \in Nat /\ at \in Nat \ {0}
  BY DEF McpTypes, RequestType, LoopType
<1>3. CASE pc = "resuming"
  <2>1. id = ResumeId /\ Answers # {} /\ turn = 0
    BY <1>3, CurrentIs DEF RanInv
  <2>2. id[1] = made /\ id[2] = 0 /\ id[3][2] = Min(Answers)
    BY <2>1 DEF ResumeId, Id
  <2>3. Min(Answers) \in Nat /\ at <= Min(Answers)
    BY <2>1, AnswerIs DEF McpTypes
  <2>4. ~RanBefore(id)
    BY <2>2, <2>3, <1>2, <1>3 DEF RanBefore
  <2>5. CASE CallReturns \/ CallFails
    <3>1. pc' = "resume" /\ at' = Min(Answers) + 1 /\ made' = made
      BY <1>3, <2>5 DEF CallReturns, CallFails, Reported, requestVars
    <3> QED
      BY <1>1, <2>2, <2>3, <2>4, <3>1, <1>2 DEF RanBefore
  <2>6. CASE Disconnects
    <3>1. pc' = "idle" /\ made' = made
      BY <2>6 DEF Disconnects, requestVars
    <3> QED
      BY <1>1, <2>2, <2>4, <3>1, <1>2 DEF RanBefore
  <2> QED
    BY <1>1, <2>4, <2>5, <2>6
<1>4. CASE pc = "calling"
  <2>1. id = Id(turn, NextCall) /\ at \in DOMAIN st.pending
    BY <1>4, CurrentIs
  <2>2. id[1] = made /\ id[2] = turn /\ id[3] = st.pending[at]
    BY <2>1 DEF Id, NextCall
  <2>3. Pended /\ DOMAIN st.pending = 1..Len(st.pending) /\ Len(st.pending) \in Nat
    BY <1>4 DEF TurnInv, InTurn, McpTypes, StitchType, Stitchers
  <2>4. \A k \in 1..(at - 1) : k \in DOMAIN st.pending /\ k # at
    BY <2>1, <2>3, <1>2
  <2>5. ~\E k \in 1..(at - 1) : st.pending[k] = id[3]
    BY <2>1, <2>2, <2>3, <2>4 DEF Pended
  <2>6. ~RanBefore(id)
    BY <2>2, <2>5, <1>2, <1>4 DEF RanBefore
  <2>7. CASE CallReturns \/ CallFails
    <3>1. pc' = "calls" /\ at' = at + 1 /\ made' = made /\ turn' = turn
      BY <1>4, <2>7 DEF CallReturns, CallFails, Reported, requestVars
    <3>2. st'.pending = st.pending
      BY <2>7, CallEffects DEF SameButSent
    <3>3. at \in 1..(at' - 1) /\ st'.pending[at] = id[3]
      BY <3>1, <3>2, <2>2, <1>2
    <3> QED
      BY <1>1, <2>2, <2>6, <3>1, <3>3, <1>2 DEF RanBefore
  <2>8. CASE Disconnects
    <3>1. pc' = "idle" /\ made' = made
      BY <2>8 DEF Disconnects, requestVars
    <3> QED
      BY <1>1, <2>2, <2>6, <3>1, <1>2 DEF RanBefore
  <2> QED
    BY <1>1, <2>6, <2>7, <2>8
<1> QED
  BY <1>3, <1>4 DEF AtServer

\* The execution of the call in hand, in the history.
LEMMA RanIs ==
  ASSUME McpTypes, TurnInv, RanInv, AtServer, ran' = Ran
  PROVE  LET x == [item |-> Current.id, of |-> Current.of, name |-> Current.name] IN
         ran \in Seq(Executions) /\ Extends(ran, x, ran', Executions)
<1> DEFINE x == [item |-> Current.id, of |-> Current.of, name |-> Current.name]
<1>1. x \in Executions
  BY CurrentIs, CallItem DEF Executions
<1>2. ran' = Append(ran, x) /\ ran \in Seq(Executions)
  BY DEF Ran, McpTypes, HistoryType
<1> HIDE DEF x
<1> QED
  BY <1>1, <1>2, Appended DEF x

\* A step that leaves the input alone leaves its answers.
LEMMA AnswersKept ==
  ASSUME UNCHANGED <<past, req, at, tools>>
  PROVE  Answers' = Answers /\ (Runs' <=> Runs)
BY DEF Runs, Known, Requested, This, Subject, Input, Answers

\* What has run is behind the loop's place.
LEMMA RanInvStep ==
  ASSUME McpTypes, TurnInv, RanInv, [McpNext]_mcpVars, McpTypes'
  PROVE  RanInv'
<1>0. /\ made \in Nat /\ turn \in Nat /\ at \in Nat \ {0} /\ Len(st.pending) \in Nat /\ ran \in Seq(Executions)
      /\ turn' \in Nat /\ at' \in Nat \ {0} /\ Len(st'.pending) \in Nat
      /\ DOMAIN st.pending = 1..Len(st.pending)
  <2>1. /\ made \in Nat /\ turn \in Nat /\ at \in Nat \ {0} /\ ran \in Seq(Executions)
        /\ turn' \in Nat /\ at' \in Nat \ {0} /\ st \in Stitchers /\ st' \in Stitchers
    BY DEF McpTypes, RequestType, LoopType, StitchType, HistoryType
  <2>2. \A s \in Stitchers : Len(s.pending) \in Nat /\ DOMAIN s.pending = 1..Len(s.pending)
    BY DEF Stitchers
  <2> QED
    BY <2>1, <2>2
<1>1. \A i \in DOMAIN ran' : RanBefore(ran[i].item)'
  <2>1. ASSUME NEW i \in DOMAIN ran PROVE \E id \in Ids : id = ran[i].item /\ RanBefore(id)'
    <3>1. PICK id : id = ran[i].item
      OBVIOUS
    <3>2. id \in Ids
      <4>1. ran[i] \in Executions
        BY <1>0
      <4> QED
        BY <3>1, <4>1 DEF Executions
    <3>3. RanBefore(id)
      BY <3>1 DEF RanInv
    <3> QED
      BY <3>1, <3>2, <3>3, RanKept
  <2>2. CASE ran' = ran
    BY <2>1, <2>2
  <2>3. CASE AtServer /\ ran' = Ran /\ ran' # ran
    <3>1. PICK id : id = Current.id
      OBVIOUS
    <3>2. RanBefore(id)'
      BY <2>3, <3>1, RanNow, RanEffect
    <3>3. PICK x : x.item = id /\ Extends(ran, x, ran', Executions)
      BY <2>3, <3>1, RanIs
    <3> QED
      BY <2>1, <3>2, <3>3 DEF Extends
  <2> QED
    BY <2>2, <2>3, RanEffect DEF RanStep
<1>2. /\ pc' \in {"discover", "listing", "resume", "resuming"} => turn' = 0
      /\ InTurn' => turn' > 0
      /\ pc' = "streaming" => at' = 1
  <2>1. /\ pc \in {"discover", "listing", "resume", "resuming"} => turn = 0
        /\ pc \in {"streaming", "calls", "calling"} => turn > 0
        /\ pc = "streaming" => at = 1
    BY DEF RanInv, InTurn
  <2> QED
    BY <2>1, <1>0, LoopMoves DEF Moves, InTurn
<1>3. Answers' \subseteq Nat
  <2>1. Len(Input)' \in Nat /\ at' \in Nat
    BY <1>0, InputIs DEF McpTypes, RequestType, Requests, Input
  <2> QED
    BY <2>1 DEF Answers
<1>4. pc' = "resuming" => Answers' # {} /\ Runs'
  <2> SUFFICES ASSUME pc' = "resuming" PROVE Answers' # {} /\ Runs'
    OBVIOUS
  <2>1. CASE ResumesCall
    BY <2>1, AnswersKept DEF ResumesCall, requestVars, loopVars
  <2>2. CASE pc = "resuming" /\ UNCHANGED <<past, req, at, tools>>
    BY <2>2, AnswersKept DEF RanInv
  <2>3. ResumesCall \/ Expires \/ UNCHANGED mcpVars
    BY DEF McpNext, LoopStep, Starts, Disconnects, Reuses, Lists, ListReturns, ListFails, ResumesNone, ResumesUnknown,
       ResumesRefused, StartsTurn, Streams, StreamEnds, Absorbs, TurnEnds, TurnFails, TurnRefused,
       AsksApproval, Executes, CallReturns, CallFails, Continues, Completes, Breaks, Reported
  <2>4. Expires \/ UNCHANGED mcpVars => pc' = pc /\ UNCHANGED <<past, req, at, tools>>
    BY DEF Expires, mcpVars, requestVars, loopVars
  <2> QED
    BY <2>1, <2>2, <2>3, <2>4
<1>5. pc' = "calling" => More' /\ Buffered(st', NextCall').class = "mcp"
  <2> SUFFICES ASSUME pc' = "calling" PROVE More' /\ Buffered(st', NextCall').class = "mcp"
    OBVIOUS
  <2>1. Executes \/ Expires \/ UNCHANGED mcpVars
    BY DEF McpNext, LoopStep, Starts, Disconnects, Reuses, Lists, ListReturns, ListFails, ResumesNone, ResumesUnknown,
       ResumesCall, ResumesRefused, StartsTurn, Streams, StreamEnds, Absorbs, TurnEnds, TurnFails, TurnRefused,
       AsksApproval, CallReturns, CallFails, Continues, Completes, Breaks, Reported
  <2>2. st' = st /\ at' = at
    BY <2>1 DEF Executes, Expires, mcpVars, loopVars
  <2>3. More /\ Buffered(st, NextCall).class = "mcp"
    BY <2>1 DEF Executes, Expires, mcpVars, RanInv
  <2> QED
    BY <2>2, <2>3 DEF More, NextCall
<1>6. pc' \in {"calls", "calling"} => at' \in 1..(Len(st'.pending) + 1)
  <2> SUFFICES ASSUME pc' \in {"calls", "calling"} PROVE at' \in 1..(Len(st'.pending) + 1)
    OBVIOUS
  <2>1. CASE TurnEnds
    <3>1. at' = 1
      BY <2>1 DEF TurnEnds, loopVars, RanInv
    <3> QED
      BY <3>1, <1>0
  <2>2. CASE AsksApproval \/ CallReturns \/ CallFails
    <3>1. st'.pending = st.pending
      BY <2>2, CallEffects DEF SameButSent
    <3>2. More /\ at' = at + 1
      BY <2>2 DEF AsksApproval, CallReturns, CallFails, Reported, RanInv, AtServer
    <3> QED
      BY <3>1, <3>2, <1>0 DEF More
  <2>3. CASE Executes \/ Expires \/ UNCHANGED mcpVars
    <3>1. st' = st /\ at' = at /\ pc \in {"calls", "calling"}
      BY <2>3 DEF Executes, Expires, mcpVars, loopVars
    <3> QED
      BY <3>1 DEF RanInv
  <2> QED
    BY <2>1, <2>2, <2>3 DEF McpNext, LoopStep, Starts, Disconnects, Reuses, Lists, ListReturns, ListFails,
       ResumesNone, ResumesUnknown, ResumesCall, ResumesRefused, StartsTurn, Streams, StreamEnds, Absorbs, TurnFails,
       TurnRefused, Continues, Completes, Breaks
<1> QED
  BY <1>1, <1>2, <1>3, <1>4, <1>5, <1>6 DEF RanInv

-----------------------------------------------------------------------------
(* Approvals.                                                                *)

\* The accumulator holds no answer of a client.
NoAnswers(q) == \A i \in DOMAIN q : q[i].kind # "answer"

\* The loop adds no answers of its own to the accumulator.
LEMMA NoAnswerAdded ==
  ASSUME out \in Seq(Items), NoAnswers(out), NEW x \in Items, x.kind # "answer",
         out' = Append(out, x)
  PROVE  NoAnswers(out')
<1>1. Extends(out, x, out', Items)
  BY Appended
<1> QED
  BY <1>1 DEF Extends, NoAnswers

\* Nor does it put one in a slot.
LEMMA NoAnswerPlaced ==
  ASSUME out \in Seq(Items), NoAnswers(out), NEW x \in Items, x.kind # "answer", NEW n,
         Reslots(out, out', n, x)
  PROVE  NoAnswers(out')
<1>1. DOMAIN out' = DOMAIN out /\ \A i \in DOMAIN out : out'[i] = IF i = n THEN x ELSE out[i]
  BY Reslotted
<1> QED
  BY <1>1 DEF NoAnswers

\* Nor does a turn.
LEMMA NoAnswerExtended ==
  ASSUME McpTypes, TurnInv, TurnEnds, NoAnswers(out)
  PROVE  NoAnswers(out')
<1> DEFINE n == Len(out) + Cardinality(st'.placed) + Len(st'.pending)
<1>1. out' = Extended(out, st') /\ st' \in Stitchers /\ Cardinality(st'.placed) \in Nat /\ out \in Seq(Items)
  BY TurnEndOut DEF McpTypes, RequestType
<1>2. /\ out' \in Seq(Items) /\ Len(out') = n /\ n \in Nat
      /\ \A i \in 1..n :
           out'[i] = IF \E p \in st'.placed : p.oi + 1 = i THEN (CHOOSE p \in st'.placed : p.oi + 1 = i).item
                     ELSE IF i <= Len(out) THEN out[i] ELSE Hole
  BY <1>1, ExtendedIs
<1>3. \A p \in st'.placed : p.item \in PlainItems
  BY <1>1 DEF Stitchers
<1>4. \A x \in PlainItems : x.kind # "answer"
  BY DEF PlainItems
<1>5. Hole.kind # "answer"
  BY DEF Hole, Plain
<1>6. DOMAIN out' = 1..n /\ Len(out) \in Nat /\ DOMAIN out = 1..Len(out)
  BY <1>1, <1>2
<1> HIDE DEF n
<1> SUFFICES ASSUME NEW i \in 1..n PROVE out'[i].kind # "answer"
  BY <1>6 DEF NoAnswers
<1>7. CASE \E p \in st'.placed : p.oi + 1 = i
  <2>1. out'[i] = (CHOOSE p \in st'.placed : p.oi + 1 = i).item
    BY <1>2, <1>7
  <2>2. (CHOOSE p \in st'.placed : p.oi + 1 = i) \in st'.placed
    BY <1>7
  <2> QED
    BY <2>1, <2>2, <1>3, <1>4
<1>8. CASE ~(\E p \in st'.placed : p.oi + 1 = i) /\ i <= Len(out)
  BY <1>2, <1>6, <1>8 DEF NoAnswers
<1>9. CASE ~(\E p \in st'.placed : p.oi + 1 = i) /\ ~(i <= Len(out))
  BY <1>2, <1>5, <1>9
<1> QED
  BY <1>7, <1>8, <1>9

\* The accumulator has no answers.
LEMMA NoAnswersStep ==
  ASSUME McpTypes, TurnInv, RanInv, [McpNext]_mcpVars, NoAnswers(out)
  PROVE  NoAnswers(out')
<1>0. out \in Seq(Items)
  BY DEF McpTypes, RequestType
<1>c. \A id, name, of, ok : Call(id, name, of, ok).kind # "answer" /\ Approval(id, name).kind # "answer"
  BY DEF Call, Approval
<1>1. CASE Aside \/ UNCHANGED mcpVars
  <2>1. out' = out
    BY <1>1, AsideKeeps DEF mcpVars
  <2> QED
    BY <2>1
<1>2. CASE Reuses \/ Completes
  BY <1>2 DEF Reuses, Completes
<1>3. CASE Starts
  BY <1>3 DEF Starts, NoAnswers
<1>4. CASE ListReturns \/ ListFails
  <2>1. PICK x : x.kind # "answer" /\ out' = Append(out, x)
    BY <1>4 DEF ListReturns, ListFails, Plain
  <2>2. out' \in Seq(Items)
    BY RequestTypeStep DEF RequestType
  <2>3. /\ DOMAIN out' = 1..(Len(out) + 1) /\ DOMAIN out = 1..Len(out) /\ Len(out) \in Nat
        /\ \A i \in 1..Len(out) : out'[i] = out[i]
        /\ out'[Len(out) + 1] = x
    BY <2>1, <1>0
  <2> QED
    BY <2>1, <2>3 DEF NoAnswers
<1>5. CASE ResumesRefused
  <2>1. PICK x : x.kind # "answer" /\ out' = Append(out, x)
    BY <1>5, <1>c DEF ResumesRefused
  <2>3. /\ DOMAIN out' = 1..(Len(out) + 1) /\ DOMAIN out = 1..Len(out) /\ Len(out) \in Nat
        /\ \A i \in 1..Len(out) : out'[i] = out[i]
        /\ out'[Len(out) + 1] = x
    BY <2>1, <1>0
  <2> QED
    BY <2>1, <2>3 DEF NoAnswers
<1>6. CASE CallReturns \/ CallFails
  <2>1. PICK ok \in BOOLEAN : Reported(ok) /\ AtServer
    BY <1>6 DEF CallReturns, CallFails
  <2> DEFINE x == Call(Current.id, Current.name, Current.of, ok)
  <2>2. x \in Items /\ x.kind # "answer"
    BY <2>1, <1>c, CallItem
  <2>3. CASE pc = "resuming"
    <3>1. out' = Append(out, x)
      BY <2>1, <2>3 DEF Reported
    <3> HIDE DEF x
    <3> QED
      BY <3>1, <2>2, <1>0, NoAnswerAdded
  <2>4. CASE pc # "resuming"
    <3>1. Reslots(out, out', Current.oi + 1, x)
      BY <2>1, <2>4 DEF Reported, Reslots
    <3> HIDE DEF x
    <3> QED
      BY <3>1, <2>2, <1>0, NoAnswerPlaced
  <2> QED
    BY <2>3, <2>4
<1>7. CASE AsksApproval
  <2> DEFINE x == Approval(Id(turn, NextCall), tr.named[NextCall[2] + 1])
  <2>1. Reslots(out, out', Buffered(st, NextCall).oi + 1, x)
    BY <1>7 DEF AsksApproval, Reslots
  <2>2. at \in DOMAIN st.pending /\ pc = "calls"
    BY <1>7, CallEffects DEF AsksApproval
  <2>3. tr.named[NextCall[2] + 1] \in Names /\ Id(turn, NextCall) \in Ids
    BY <2>2, PendingIs DEF NextCall
  <2>4. x \in Items /\ x.kind # "answer"
    BY <2>3, <1>c, ItemsAre
  <2> HIDE DEF x
  <2> QED
    BY <2>1, <2>4, <1>0, NoAnswerPlaced
<1>8. CASE TurnEnds
  BY <1>8, NoAnswerExtended
<1> QED
  BY <1>1, <1>2, <1>3, <1>4, <1>5, <1>6, <1>7, <1>8 DEF McpNext, LoopStep, Aside

\* Every approval in a list of items is one that a client has sent.
Granted(q) == \A i \in DOMAIN q : q[i].kind = "answer" /\ q[i].approve => q[i].of \in Range(grants)

\* The invariant of the grants, part by part.
LEMMA GrantParts ==
  GrantInv <=> Granted(past) /\ (pc # "idle" => Granted(req.items)) /\ NoAnswers(out)
BY DEF GrantInv, Granted, NoAnswers

\* Two lists whose approvals are granted.
LEMMA GrantedJoin ==
  ASSUME NEW a, NEW b, NEW c, Join(a, b, c), Granted(a), Granted(b)
  PROVE  Granted(c)
<1> SUFFICES ASSUME NEW i \in DOMAIN c, c[i].kind = "answer", c[i].approve PROVE c[i].of \in Range(grants)
  BY DEF Granted
<1>1. CASE i \in DOMAIN a
  <2>1. c[i] = a[i]
    BY <1>1 DEF Join
  <2> QED
    BY <1>1, <2>1 DEF Granted
<1>2. CASE i \notin DOMAIN a
  <2>1. PICK j \in DOMAIN b : i = Len(a) + j
    BY <1>2 DEF Join
  <2>2. c[i] = b[j]
    BY <2>1 DEF Join
  <2> QED
    BY <2>2 DEF Granted
<1> QED
  BY <1>1, <1>2

\* Every approval in the history is one a client has sent.
LEMMA GrantInvStep ==
  ASSUME McpTypes, TurnInv, RanInv, GrantInv, [McpNext]_mcpVars
  PROVE  GrantInv'
<1>0. Granted(past) /\ (pc # "idle" => Granted(req.items)) /\ NoAnswers(out)
  BY GrantParts
<1>1. NoAnswers(out)'
  <2>1. NoAnswers(out')
    BY <1>0, NoAnswersStep
  <2> QED
    BY <2>1 DEF NoAnswers
<1>g. grants \in Seq(Ids)
  BY DEF McpTypes, HistoryType
<1>2. CASE Starts
  <2>1. PICK x \in Items : /\ req'.items = <<x>>
                           /\ grants' = IF x.kind = "answer" /\ x.approve THEN Append(grants, x.of) ELSE grants
    BY <1>2, StartItems
  <2>2. past' = past
    BY <1>2 DEF Starts
  <2>3. /\ \A g \in Range(grants) : g \in Range(grants')
        /\ x.kind = "answer" /\ x.approve => x.of \in Range(grants')
    <3>1. CASE x.kind = "answer" /\ x.approve
      <4>1. x.of \in Ids
        BY <3>1, ItemIs
      <4>2. Extends(grants, x.of, grants', Ids)
        BY <3>1, <4>1, <2>1, <1>g, Appended
      <4> QED
        BY <4>2 DEF Extends, Range
    <3>2. CASE ~(x.kind = "answer" /\ x.approve)
      BY <3>2, <2>1
    <3> QED
      BY <3>1, <3>2
  <2>4. Granted(past)'
    BY <2>2, <2>3, <1>0 DEF Granted
  <2>5. Granted(req.items)'
    <3>1. DOMAIN req'.items = {1} /\ req'.items[1] = x
      BY <2>1
    <3> QED
      BY <3>1, <2>3 DEF Granted
  <2> QED
    BY <2>4, <2>5, <1>1 DEF GrantInv, Granted, NoAnswers
<1>3. CASE Completes /\ past' # past
  <2>1. past' = Input \o out /\ grants' = grants /\ pc' = "idle" /\ pc # "idle"
    BY <1>3 DEF Completes, inputVars
  <2>2. /\ Input \in Seq(Items) /\ Join(past, req.items, Input) /\ out \in Seq(Items)
    BY InputIs DEF McpTypes, RequestType
  <2>3. Join(Input, out, past')
    BY <2>1, <2>2, Joined
  <2>4. Granted(Input)
    BY <2>1, <2>2, <1>0, GrantedJoin
  <2>5. Granted(past')
    BY <2>3, <2>4, <1>0 DEF Join, Granted, NoAnswers
  <2>6. Granted(past)'
    BY <2>1, <2>5 DEF Granted
  <2> QED
    BY <2>1, <2>6, <1>1 DEF GrantInv, Granted, NoAnswers
<1>4. CASE ~Starts /\ past' = past
  <2>1. grants' = grants
    BY <1>4, InputEffect
  <2>2. Granted(past)'
    BY <2>1, <1>0, <1>4 DEF Granted
  <2>3. req' = req /\ (pc' # "idle" => pc # "idle")
    BY <1>4 DEF McpNext, LoopStep, mcpVars, Disconnects, Reuses, Lists, ListReturns, ListFails,
       ResumesNone, ResumesUnknown, ResumesCall, ResumesRefused, StartsTurn, Streams, StreamEnds, Absorbs, TurnEnds,
       TurnFails, TurnRefused, AsksApproval, Executes, CallReturns, CallFails, Expires, Continues, Completes, Breaks,
       Reported, AtServer, requestVars
  <2>4. pc' # "idle" => Granted(req.items)'
    BY <2>1, <2>3, <1>0 DEF Granted
  <2> QED
    BY <2>2, <2>4, <1>1 DEF GrantInv, Granted, NoAnswers
<1>5. past' = past \/ Completes
  BY DEF McpNext, LoopStep, mcpVars, Starts, Disconnects, Reuses, Lists, ListReturns, ListFails,
     ResumesNone, ResumesUnknown, ResumesCall, ResumesRefused, StartsTurn, Streams, StreamEnds, Absorbs, TurnEnds,
     TurnFails, TurnRefused, AsksApproval, Executes, CallReturns, CallFails, Expires, Continues, Breaks,
     Reported, requestVars
<1> QED
  BY <1>2, <1>3, <1>4, <1>5

\* A call that requires approval runs on one that a client has sent.
LEMMA CallIsGranted ==
  ASSUME McpTypes, TurnInv, RanInv, GrantInv, AtServer, Current.name \in Guarded
  PROVE  \E g \in DOMAIN grants : grants[g] = Current.of
<1>1. CASE pc = "resuming"
  <2>1. Answers # {} /\ Runs
    BY <1>1 DEF RanInv
  <2>2. /\ Input \in Seq(Items) /\ Join(past, req.items, Input) /\ Min(Answers) \in DOMAIN Input
        /\ This.kind = "answer" /\ This.approve
    BY <2>1, InputIs, AnswerIs DEF McpTypes, Runs
  <2>3. Granted(past) /\ Granted(req.items)
    BY <1>1, GrantParts
  <2>4. Granted(Input)
    BY <2>2, <2>3, GrantedJoin
  <2>5. This.of \in Range(grants)
    BY <2>2, <2>4 DEF Granted, This
  <2>6. Current.of = This.of
    BY <1>1 DEF Current
  <2> QED
    BY <2>5, <2>6 DEF Range
<1>2. CASE pc = "calling"
  <2>1. at \in DOMAIN st.pending /\ Current.name = tr.named[NextCall[2] + 1]
    BY <1>2, CurrentIs
  <2>2. HeldFits(NextCall[2]) /\ Buffered(st, NextCall) = BufferOf(NextCall[2])
    BY <2>1, <1>2, PendingIs DEF NextCall
  <2>3. Buffered(st, NextCall).class = "mcp"
    BY <1>2 DEF RanInv
  <2> QED
    BY <2>1, <2>2, <2>3 DEF HeldFits
<1> QED
  BY <1>1, <1>2 DEF AtServer

\* A call that runs is granted, and has not run before.
LEMMA GrantedOnceStep ==
  ASSUME McpTypes, TurnInv, RanInv, GrantInv, CallsGrantedOnce, [McpNext]_mcpVars
  PROVE  CallsGrantedOnce'
<1>1. \A g \in DOMAIN grants : g \in DOMAIN grants' /\ grants'[g] = grants[g]
  <2>0. grants \in Seq(Ids)
    BY DEF McpTypes, HistoryType
  <2>1. CASE grants' = grants
    BY <2>1
  <2>2. CASE Starts
    <3>1. PICK x \in Items : grants' = IF x.kind = "answer" /\ x.approve THEN Append(grants, x.of) ELSE grants
      BY <2>2, StartItems
    <3>2. CASE x.kind = "answer" /\ x.approve
      <4>1. x.of \in Ids
        BY <3>2, ItemIs
      <4>2. Extends(grants, x.of, grants', Ids)
        BY <3>1, <3>2, <4>1, <2>0, Appended
      <4> QED
        BY <4>2 DEF Extends
    <3> QED
      BY <3>1, <3>2
  <2> QED
    BY <2>1, <2>2, InputEffect
<1>2. CASE ran' = ran
  BY <1>1, <1>2 DEF CallsGrantedOnce
<1>3. CASE AtServer /\ ran' = Ran
  <2>1. PICK x : x = [item |-> Current.id, of |-> Current.of, name |-> Current.name]
    OBVIOUS
  <2>2. Extends(ran, x, ran', Executions)
    BY <2>1, <1>3, RanIs
  <2>3. \A i \in DOMAIN ran : ran[i].item # x.item
    <3>1. ~RanBefore(x.item)
      BY <2>1, <1>3, RanNow
    <3> QED
      BY <3>1 DEF RanInv
  <2>4. x.name \in Guarded => \E g \in DOMAIN grants : grants[g] = x.of
    BY <2>1, <1>3, CallIsGranted
  <2>5. \A i \in DOMAIN ran' : ran'[i].name \in Guarded => \E g \in DOMAIN grants' : grants'[g] = ran'[i].of
    BY <2>2, <2>4, <1>1 DEF Extends, CallsGrantedOnce
  <2>6. \A i, j \in DOMAIN ran' : ran'[i].item = ran'[j].item => i = j
    BY <2>2, <2>3 DEF Extends, CallsGrantedOnce
  <2> QED
    BY <2>5, <2>6 DEF CallsGrantedOnce
<1> QED
  BY <1>2, <1>3, RanEffect DEF RanStep

-----------------------------------------------------------------------------
(* The theorems.                                                             *)

McpSafe == McpTypes /\ TurnInv /\ RanInv /\ GrantInv /\ NumberInv /\ CallsGrantedOnce

\* The invariant holds at first.
LEMMA McpSafeInit == McpInit => McpSafe
<1> SUFFICES ASSUME McpInit PROVE McpSafe
  OBVIOUS
<1>1. McpTypes
  BY InitTypes
<1>2. TurnInv /\ RanInv /\ GrantInv /\ CallsGrantedOnce
  BY DEF McpInit, TurnInv, InTurn, RanInv, GrantInv, CallsGrantedOnce
<1>3. NumberInv
  BY NewStitcherIs DEF McpInit, NumberInv, NumberedBy, Quiet
<1> QED
  BY <1>1, <1>2, <1>3 DEF McpSafe

\* The invariant is inductive.
LEMMA McpSafeStep == McpSafe /\ [McpNext]_mcpVars => McpSafe'
<1> SUFFICES ASSUME McpSafe, [McpNext]_mcpVars PROVE McpSafe'
  OBVIOUS
<1>1. McpTypes /\ TurnInv /\ RanInv /\ GrantInv /\ NumberInv /\ CallsGrantedOnce
  BY DEF McpSafe
<1>2. McpTypes'
  BY <1>1, McpTypesStep
<1>3. TurnInv' /\ RanInv' /\ GrantInv' /\ CallsGrantedOnce'
  BY <1>1, <1>2, TurnInvStep, RanInvStep, GrantInvStep, GrantedOnceStep
<1>4. NumberInv'
  BY <1>1, NumberStep
<1> QED
  BY <1>2, <1>3, <1>4 DEF McpSafe

\* The invariant of the loop.
LEMMA McpIsSafe == McpSpec => []McpSafe
<1>1. McpInit => McpSafe
  BY McpSafeInit
<1>2. McpSafe /\ [McpNext]_mcpVars => McpSafe'
  BY McpSafeStep
<1> QED
  BY <1>1, <1>2, PTL DEF McpSpec

\* A tool that requires approval runs only on an approval that a client has sent, and no call
\* runs twice, whatever the server, the loader and the client do (loop.py, client.py).
THEOREM CallsAreGranted == McpSpec => []CallsGrantedOnce
<1>1. McpSafe => CallsGrantedOnce
  BY DEF McpSafe
<1> QED
  BY <1>1, McpIsSafe, PTL

\* The events of a response are numbered 0, 1, 2, ... over all turns, and a terminal one is last
\* (the stitcher's sequence numbers, loop.py).
THEOREM StreamIsNumbered == McpSpec => []NumberedStream
<1>1. McpSafe => NumberedStream
  BY DEF McpSafe, NumberInv, NumberedStream
<1> QED
  BY <1>1, McpIsSafe, PTL

-----------------------------------------------------------------------------
(* What a client knows of the output.                                        *)

\* One more channel is shown, the same ones are, or some of a longer list.
LEMMA SlotsAdd ==
  ASSUME NEW open, NEW m, NEW t, NEW lo, NEW p \in DOMAIN open, NEW c, c = open[p],
         \A q \in DOMAIN open : open[q] = c => q = p,
         NEW S, NEW T, \A x \in Range(open) : x \in T <=> x \in S \/ x = c
  PROVE  SlotsOf(open, m, t, lo, T) = SlotsOf(open, m, t, lo, S) \cup {<<lo + p - 1, <<m, t, c>>>>}
<1> DEFINE V(q) == <<lo + q - 1, <<m, t, open[q]>>>>
<1>0. \A q \in DOMAIN open : open[q] \in Range(open)
  BY DEF Range
<1>1. {q \in DOMAIN open : open[q] \in T} = {q \in DOMAIN open : open[q] \in S} \cup {p}
  BY <1>0
<1>2. V(p) = <<lo + p - 1, <<m, t, c>>>>
  OBVIOUS
<1>3. /\ SlotsOf(open, m, t, lo, T) = {V(q) : q \in {q \in DOMAIN open : open[q] \in T}}
      /\ SlotsOf(open, m, t, lo, S) = {V(q) : q \in {q \in DOMAIN open : open[q] \in S}}
  BY DEF SlotsOf
<1> HIDE DEF V
<1> QED
  BY <1>1, <1>2, <1>3

\* The same channels are shown.
LEMMA SlotsSame ==
  ASSUME NEW open, NEW m, NEW t, NEW lo, NEW S, NEW T, \A x \in Range(open) : x \in T <=> x \in S
  PROVE  SlotsOf(open, m, t, lo, T) = SlotsOf(open, m, t, lo, S)
<1>0. \A q \in DOMAIN open : open[q] \in Range(open)
  BY DEF Range
<1>1. {q \in DOMAIN open : open[q] \in T} = {q \in DOMAIN open : open[q] \in S}
  BY <1>0
<1> QED
  BY <1>1 DEF SlotsOf

\* Channels nobody has heard of take no slot.
LEMMA SlotsLonger ==
  ASSUME NEW open, NEW longer, NEW m, NEW t, NEW lo, NEW S,
         \A q \in DOMAIN open : q \in DOMAIN longer /\ longer[q] = open[q],
         \A q \in DOMAIN longer : longer[q] \in S => q \in DOMAIN open
  PROVE  SlotsOf(longer, m, t, lo, S) = SlotsOf(open, m, t, lo, S)
<1> DEFINE V(f, q) == <<lo + q - 1, <<m, t, f[q]>>>>
           D == {q \in DOMAIN open : open[q] \in S}
<1>1. {q \in DOMAIN longer : longer[q] \in S} = D
  OBVIOUS
<1>2. \A q \in D : V(longer, q) = V(open, q)
  OBVIOUS
<1>3. /\ SlotsOf(longer, m, t, lo, S) = {V(longer, q) : q \in D}
      /\ SlotsOf(open, m, t, lo, S) = {V(open, q) : q \in D}
  BY <1>1 DEF SlotsOf
<1> HIDE DEF V, D
<1> QED
  BY <1>2, <1>3

\* A turn without channels has no slots.
LEMMA SlotsNone ==
  ASSUME NEW m, NEW t, NEW lo, NEW S
  PROVE  SlotsOf(<<>>, m, t, lo, S) = {}
BY DEF SlotsOf

\* The accumulator grows by an item, keeps its first items, or has the turn's items behind them.
LEMMA KeptAdd ==
  ASSUME NEW o, NEW x, NEW r, NEW S, Extends(o, x, r, S)
  PROVE  KeptOf(r, Len(o) + 1) = KeptOf(o, Len(o)) \cup {<<Len(o), x.id>>}
<1> DEFINE V(f, i) == <<i - 1, f[i].id>>
           n == Len(o)
<1>1. n \in Nat /\ (\A i \in 1..n : r[i] = o[i]) /\ r[n + 1] = x
  BY DEF Extends
<1>2. 1..(n + 1) = 1..n \cup {n + 1}
  BY <1>1
<1>3. (\A i \in 1..n : V(r, i) = V(o, i)) /\ V(r, n + 1) = <<n, x.id>>
  BY <1>1
<1>4. KeptOf(r, n + 1) = {V(r, i) : i \in 1..(n + 1)} /\ KeptOf(o, n) = {V(o, i) : i \in 1..n}
  BY DEF KeptOf
<1> HIDE DEF V, n
<1>5. {V(r, i) : i \in 1..(n + 1)} = {V(r, i) : i \in 1..n} \cup {V(r, n + 1)}
  BY <1>2
<1>6. {V(r, i) : i \in 1..n} = {V(o, i) : i \in 1..n}
  BY <1>3
<1> QED
  BY <1>3, <1>4, <1>5, <1>6 DEF n

\* The accumulator keeps its first items.
LEMMA KeptSame ==
  ASSUME NEW o, NEW r, NEW n, \A i \in 1..n : r[i] = o[i]
  PROVE  KeptOf(r, n) = KeptOf(o, n)
<1> DEFINE V(f, i) == <<i - 1, f[i].id>>
<1>1. \A i \in 1..n : V(r, i) = V(o, i)
  OBVIOUS
<1>2. KeptOf(r, n) = {V(r, i) : i \in 1..n} /\ KeptOf(o, n) = {V(o, i) : i \in 1..n}
  BY DEF KeptOf
<1> HIDE DEF V
<1> QED
  BY <1>1, <1>2

\* An empty accumulator.
LEMMA KeptNone ==
  ASSUME NEW o
  PROVE  KeptOf(o, 0) = {}
<1>1. 1..0 = {}
  OBVIOUS
<1> QED
  BY <1>1 DEF KeptOf

\* The turn's items are in the accumulator, from lo on.
Fills(o, open, m, t, lo) == \A p \in DOMAIN open : o[lo + p].id = <<m, t, open[p]>>

\* The accumulator has all the channels of the turn behind its first items.
LEMMA KeptAll ==
  ASSUME NEW o, NEW open \in Seq(Channels), NEW m, NEW t, NEW lo \in Nat, NEW S, Range(open) \subseteq S,
         Fills(o, open, m, t, lo)
  PROVE  KeptOf(o, lo + Len(open)) = KeptOf(o, lo) \cup SlotsOf(open, m, t, lo, S)
<1> DEFINE V(i) == <<i - 1, o[i].id>>
           W(p) == <<lo + p - 1, <<m, t, open[p]>>>>
           n == Len(open)
<1>0. n \in Nat /\ DOMAIN open = 1..n
  OBVIOUS
<1>1. \A p \in 1..n : W(p) = V(lo + p) /\ lo + p \in 1..(lo + n)
  BY <1>0 DEF Fills
<1>2. \A i \in 1..(lo + n) : i \in 1..lo \/ (i - lo \in 1..n /\ lo + (i - lo) = i)
  BY <1>0
<1>3. \A i \in 1..lo : i \in 1..(lo + n)
  BY <1>0
<1>4. KeptOf(o, lo + n) = {V(i) : i \in 1..(lo + n)} /\ KeptOf(o, lo) = {V(i) : i \in 1..lo}
  BY DEF KeptOf
<1>5. SlotsOf(open, m, t, lo, S) = {W(p) : p \in 1..n}
  <2>1. {q \in DOMAIN open : open[q] \in S} = 1..n
    BY <1>0 DEF Range
  <2> QED
    BY <2>1 DEF SlotsOf
<1> HIDE DEF V, W, n
<1>6. ASSUME NEW x \in KeptOf(o, lo + n) PROVE x \in KeptOf(o, lo) \cup SlotsOf(open, m, t, lo, S)
  <2>1. PICK i \in 1..(lo + n) : x = V(i)
    BY <1>4, <1>6
  <2>2. CASE i \in 1..lo
    BY <2>1, <2>2, <1>4
  <2>3. CASE i - lo \in 1..n /\ lo + (i - lo) = i
    <3>1. PICK p \in 1..n : lo + p = i
      BY <2>3
    <3>2. x = W(p)
      BY <3>1, <2>1, <1>1
    <3> QED
      BY <3>2, <1>5
  <2> QED
    BY <2>2, <2>3, <1>2
<1>7. ASSUME NEW x \in KeptOf(o, lo) PROVE x \in KeptOf(o, lo + n)
  BY <1>3, <1>4, <1>7
<1>8. ASSUME NEW x \in SlotsOf(open, m, t, lo, S) PROVE x \in KeptOf(o, lo + n)
  <2>1. PICK p \in 1..n : x = W(p)
    BY <1>5, <1>8
  <2> QED
    BY <2>1, <1>1, <1>4
<1> QED
  BY <1>6, <1>7, <1>8 DEF n

-----------------------------------------------------------------------------
(* The order of a turn's output.                                             *)

TextOf(t) ==
  (IF Opened(t, Reasoning) THEN <<Reasoning>> ELSE <<>>) \o (IF Opened(t, Message) THEN <<Message>> ELSE <<>>)
ToolList(n) == [i \in 1..n |-> Tool(i - 1)]

\* The calls by index, one more.
LEMMA ToolListIs ==
  ASSUME NEW n \in Nat
  PROVE  /\ ToolList(n) \in Seq(Channels) /\ ToolList(0) = <<>>
         /\ ToolList(n + 1) = Append(ToolList(n), Tool(n))
<1>1. \A k \in Nat : ToolList(k) \in Seq(Channels) /\ Len(ToolList(k)) = k
  <2> SUFFICES ASSUME NEW k \in Nat PROVE ToolList(k) \in Seq(Channels) /\ Len(ToolList(k)) = k
    OBVIOUS
  <2>1. \A i \in 1..k : Tool(i - 1) \in Channels
    BY ToolIs
  <2>2. ToolList(k) \in [1..k -> Channels]
    BY <2>1 DEF ToolList
  <2> QED
    BY <2>2, ListIs
<1>2. \A k \in Nat : \A i \in 1..k : ToolList(k)[i] = Tool(i - 1)
  BY DEF ToolList
<1>3. ToolList(0) = <<>>
  BY <1>1
<1>4. Tool(n) \in Channels /\ n + 1 \in Nat
  BY ToolIs
<1> DEFINE q == ToolList(n)
           c == ToolList(n + 1)
           d == Append(q, Tool(n))
<1>5. q \in Seq(Channels) /\ c \in Seq(Channels) /\ Len(q) = n /\ Len(c) = n + 1
  BY <1>1, <1>4
<1>6. \A i \in 1..n : c[i] = q[i]
  BY <1>2, <1>4
<1>7. c[n + 1] = Tool(n)
  BY <1>2, <1>4
<1> HIDE DEF q, c
<1>8. d \in Seq(Channels) /\ Len(d) = n + 1 /\ (\A i \in 1..n : d[i] = q[i]) /\ d[n + 1] = Tool(n)
  BY <1>4, <1>5
<1>9. \A i \in 1..Len(c) : c[i] = d[i]
  BY <1>5, <1>6, <1>7, <1>8
<1> HIDE DEF d
<1>10. c = d
  BY <1>5, <1>8, <1>9, SeqEqual
<1> QED
  BY <1>1, <1>3, <1>10 DEF q, c, d

\* The output of a turn: its text channels, then its calls.
LEMMA OutputIs ==
  ASSUME NEW t \in Translators
  PROVE  CollectOutput(t) = TextOf(t) \o ToolList(Len(t.named)) /\ TextOf(t) \in Seq(Channels)
<1>1. DOMAIN t.named = 1..Len(t.named)
  BY DEF Translators
<1>2. CollectOutput(t) = TextOf(t) \o ToolList(Len(t.named))
  BY <1>1 DEF CollectOutput, TextOf, ToolList
<1>3. <<Reasoning>> \in Seq(Channels) /\ <<Message>> \in Seq(Channels) /\ <<>> \in Seq(Channels)
  BY ToolIs
<1> QED
  BY <1>2, <1>3, ConcatProperties DEF TextOf

\* A channel that is opened in its order comes last in the output.
LEMMA OrderKept ==
  ASSUME NEW t \in Translators, OpensOnce(t), ToolsByIndex(t), t.open = CollectOutput(t),
         NEW chunk \in Chunks, MayTell(t, chunk.ch), NEW n, Processes(t, chunk, n), ~OutOfOrder(n.tr)
  PROVE  n.tr.open = CollectOutput(n.tr)
<1> DEFINE ch == chunk.ch
           u == n.tr
<1>0. t.open \in Seq(Channels) /\ Len(t.named) \in Nat /\ t.named \in Seq(Names) /\ Len(t.open) \in Nat
  BY DEF Translators
<1>1. /\ u \in Translators /\ u.open = (IF Opened(t, ch) THEN t.open ELSE Append(t.open, ch))
      /\ u.named = NamedBy(t, chunk)
  BY DEF Processes, Retells
<1>2. ch \in Channels /\ chunk.name \in Names
  BY ChunkIs
<1>3. \A c : Opened(u, c) <=> Opened(t, c) \/ c = ch
  BY ChannelsStep
<1>4. ch[2] \in Nat /\ (IsTool(ch) <=> ch = Tool(ch[2])) /\ (~IsTool(ch) <=> ch \in {Reasoning, Message})
  BY <1>2, ChannelIs
<1>5. /\ CollectOutput(t) = TextOf(t) \o ToolList(Len(t.named)) /\ TextOf(t) \in Seq(Channels)
      /\ CollectOutput(u) = TextOf(u) \o ToolList(Len(u.named)) /\ TextOf(u) \in Seq(Channels)
  BY <1>1, OutputIs
<1>6. CASE Opened(t, ch)
  <2>1. u.open = t.open /\ TextOf(u) = TextOf(t)
    BY <1>1, <1>6 DEF TextOf, Opened
  <2>2. DOMAIN u.named = DOMAIN t.named
    BY <1>1, <1>6 DEF NamedBy
  <2>3. DOMAIN u.named = 1..Len(u.named) /\ DOMAIN t.named = 1..Len(t.named)
    BY <1>1 DEF Translators
  <2>4. CollectOutput(u) = CollectOutput(t)
    BY <2>1, <2>2 DEF CollectOutput, Opened
  <2> QED
    BY <2>1, <2>4 DEF u
<1>7. CASE ~Opened(t, ch)
  <2>1. u.open = Append(t.open, ch) /\ Extends(t.open, ch, u.open, Channels)
    BY <1>0, <1>1, <1>2, <1>7, Appended
  <2>2. \A i \in DOMAIN t.open : Rank(t.open[i]) <= Rank(ch)
    <3> SUFFICES ASSUME NEW i \in DOMAIN t.open PROVE Rank(t.open[i]) <= Rank(ch)
      OBVIOUS
    <3>1. i \in DOMAIN u.open /\ Len(t.open) + 1 \in DOMAIN u.open /\ u.open[i] = t.open[i]
          /\ u.open[Len(t.open) + 1] = ch
      BY <2>1 DEF Extends
    <3>2. i < Len(t.open) + 1
      BY <1>0
    <3>3. ~(Rank(t.open[i]) > Rank(ch))
      BY <3>1, <3>2 DEF OutOfOrder
    <3>4. \A c \in Channels : Rank(c) \in Nat
      BY ChannelIs DEF Rank
    <3>5. Rank(t.open[i]) \in Nat /\ Rank(ch) \in Nat
      BY <3>4, <1>0, <1>2
    <3> QED
      BY <3>3, <3>5
  <2>3. CASE IsTool(ch)
    <3>1. ch = Tool(Len(t.named)) /\ u.named = Append(t.named, chunk.name)
      BY <2>3, <1>1, <1>4, <1>7 DEF MayTell, NamedBy
    <3>2. Len(u.named) = Len(t.named) + 1
      BY <3>1, <1>0, <1>2
    <3>3. TextOf(u) = TextOf(t)
      BY <2>3, <1>3, <1>4, ToolIs DEF TextOf
    <3>4. /\ ToolList(Len(u.named)) = Append(ToolList(Len(t.named)), ch)
          /\ ToolList(Len(t.named)) \in Seq(Channels)
      BY <3>1, <3>2, <1>0, ToolListIs
    <3> DEFINE a == TextOf(t)
               b == ToolList(Len(t.named))
    <3>5. a \in Seq(Channels) /\ b \in Seq(Channels) /\ <<ch>> \in Seq(Channels)
      BY <3>4, <1>2, <1>5
    <3>6. CollectOutput(u) = a \o Append(b, ch) /\ t.open = a \o b
      BY <3>3, <3>4, <1>5
    <3> HIDE DEF a, b, ch, u
    <3>7. Append(b, ch) = b \o <<ch>> /\ Append(t.open, ch) = t.open \o <<ch>>
      BY <3>5, <1>0, <1>2, AppendIsConcat
    <3>8. (a \o b) \o <<ch>> = a \o (b \o <<ch>>)
      BY <3>5, ConcatAssociative
    <3>9. u.open = CollectOutput(u)
      BY <3>6, <3>7, <3>8, <2>1
    <3> QED
      BY <3>9 DEF u
  <2>4. CASE ~IsTool(ch)
    <3>0. u.named = t.named
      BY <2>4, <1>1 DEF NamedBy
    <3>1. Len(t.named) = 0
      <4> SUFFICES ASSUME 0 < Len(t.named) PROVE FALSE
        BY <1>0
      <4>1. Opened(t, Tool(0))
        BY DEF ToolsByIndex
      <4>2. PICK i \in DOMAIN t.open : t.open[i] = Tool(0)
        BY <4>1 DEF Opened, Range
      <4>3. Rank(Tool(0)) = 2 /\ Rank(ch) \in {0, 1}
        BY <2>4, <1>4, ToolIs DEF Rank
      <4> QED
        BY <4>2, <4>3, <2>2
    <3>2. ToolList(Len(t.named)) = <<>> /\ ToolList(Len(u.named)) = <<>>
      BY <3>0, <3>1, ToolListIs
    <3>3. CollectOutput(u) = TextOf(u) /\ t.open = TextOf(t)
      BY <3>2, <1>5, ConcatEmptySeq
    <3>4. Append(t.open, ch) = t.open \o <<ch>>
      BY <1>0, <1>2, AppendIsConcat
    <3>5. \A s \in Seq(Channels) : s \o <<>> = s /\ <<>> \o s = s
      BY ConcatEmptySeq
    <3>6. CASE ch = Message
      <4>1. ~Opened(t, Message) /\ Opened(u, Message) /\ (Opened(u, Reasoning) <=> Opened(t, Reasoning))
        BY <3>6, <1>3, <1>7, ToolIs
      <4> DEFINE a == IF Opened(t, Reasoning) THEN <<Reasoning>> ELSE <<>>
      <4>2. a \in Seq(Channels)
        BY ToolIs
      <4>3. TextOf(t) = a \o <<>> /\ TextOf(u) = a \o <<Message>>
        BY <4>1 DEF TextOf
      <4> QED
        BY <4>2, <4>3, <3>3, <3>4, <3>5, <3>6, <2>1
    <3>7. CASE ch = Reasoning
      <4>1. ~Opened(t, Message)
        <5> SUFFICES ASSUME Opened(t, Message) PROVE FALSE
          OBVIOUS
        <5>1. PICK i \in DOMAIN t.open : t.open[i] = Message
          BY DEF Opened, Range
        <5>2. Rank(Message) = 1 /\ Rank(ch) = 0
          BY <3>7, ToolIs DEF Rank
        <5> QED
          BY <5>1, <5>2, <2>2
      <4>2. ~Opened(t, Reasoning) /\ Opened(u, Reasoning) /\ ~Opened(u, Message)
        BY <4>1, <3>7, <1>3, <1>7, ToolIs
      <4>3. TextOf(t) = <<>> \o <<>> /\ TextOf(u) = <<Reasoning>> \o <<>>
        BY <4>1, <4>2 DEF TextOf
      <4>4. <<>> \in Seq(Channels) /\ <<Reasoning>> \in Seq(Channels)
        BY ToolIs
      <4>5. TextOf(t) = <<>> /\ TextOf(u) = <<Reasoning>>
        BY <4>3, <4>4, <3>5
      <4>6. u.open = <<>> \o <<Reasoning>>
        BY <4>5, <3>3, <3>4, <3>7, <2>1
      <4> QED
        BY <4>4, <4>5, <4>6, <3>3, <3>5
    <3> QED
      BY <3>6, <3>7, <2>4, <1>4
  <2> QED
    BY <2>3, <2>4
<1> QED
  BY <1>6, <1>7

-----------------------------------------------------------------------------
(* The slots of a turn.                                                      *)

\* How many numbers there are up to n.
LEMMA CountedTo ==
  ASSUME NEW n \in Nat
  PROVE  IsFiniteSet(1..n) /\ Cardinality(1..n) = n
<1>1. 1 \in Int /\ n \in Int
  OBVIOUS
<1>2. IsFiniteSet(1..n) /\ Cardinality(1..n) = IF 1 > n THEN 0 ELSE n - 1 + 1
  BY <1>1, FS_Interval
<1> QED
  BY <1>2

\* Every item of the turn has a slot: the items placed at its end, and the calls put off.
LEMMA SlotsCounted ==
  ASSUME NEW s \in Stitchers, NEW open \in Seq(Channels),
         \A i, j \in DOMAIN open : open[i] = open[j] => i = j,
         \A i, j \in DOMAIN s.pending : s.pending[i] = s.pending[j] => i = j,
         \A c \in Range(open) : Ours(s, c) <=> c \in Range(s.pending),
         \A i \in DOMAIN s.pending : s.pending[i] \in Range(open)
  PROVE  Cardinality(TurnOutput(s, open)) + Len(s.pending) = Len(open)
<1> DEFINE n == Len(open)
           m == Len(s.pending)
           O == {j \in 1..n : Ours(s, open[j])}
           N == {j \in 1..n : ~Ours(s, open[j])}
           V(i) == [oi |-> s.offset + i - 1,
                    item |-> Plain(IF IsTool(open[i]) THEN "function" ELSE open[i][1], Id(turn, open[i]))]
           X == TurnOutput(s, open)
           f == [k \in 1..m |-> CHOOSE j \in 1..n : open[j] = s.pending[k]]
           g == [i \in N |-> V(i)]
<1>0. /\ n \in Nat /\ m \in Nat /\ DOMAIN open = 1..n /\ DOMAIN s.pending = 1..m /\ s.offset \in Nat
  BY DEF Stitchers
<1>1. \A k \in 1..m : f[k] \in O /\ open[f[k]] = s.pending[k]
  <2> SUFFICES ASSUME NEW k \in 1..m PROVE f[k] \in O /\ open[f[k]] = s.pending[k]
    OBVIOUS
  <2>1. s.pending[k] \in Range(open) /\ s.pending[k] \in Range(s.pending)
    BY <1>0 DEF Range
  <2>2. \E j \in 1..n : open[j] = s.pending[k]
    BY <2>1, <1>0 DEF Range
  <2>3. f[k] \in 1..n /\ open[f[k]] = s.pending[k]
    BY <2>2
  <2>4. Ours(s, open[f[k]])
    BY <2>1, <2>3
  <2> QED
    BY <2>3, <2>4
<1>2. \A j \in O : \E k \in 1..m : s.pending[k] = open[j]
  <2> SUFFICES ASSUME NEW j \in O PROVE \E k \in 1..m : s.pending[k] = open[j]
    OBVIOUS
  <2>1. open[j] \in Range(open) /\ Ours(s, open[j])
    BY <1>0 DEF Range
  <2>2. open[j] \in Range(s.pending)
    BY <2>1
  <2> QED
    BY <2>2, <1>0 DEF Range
<1>3. X = {V(i) : i \in N}
  BY <1>0 DEF TurnOutput
<1>4. \A i \in N : g[i] = V(i) /\ g[i].oi = s.offset + i - 1 /\ i \in Nat
  BY <1>0
<1>5. O \subseteq 1..n /\ N = (1..n) \ O /\ (1..n) \cap O = O
  OBVIOUS
<1>d. DOMAIN f = 1..m /\ DOMAIN g = N /\ f = [k \in 1..m |-> f[k]] /\ g = [i \in N |-> g[i]]
  OBVIOUS
<1> HIDE DEF f, g, V, X, O, N, n, m
<1>6. f \in Bijection(1..m, O)
  <2>1. f \in [1..m -> O]
    BY <1>1, <1>d
  <2>2. \A a, b \in 1..m : f[a] = f[b] => a = b
    BY <1>0, <1>1
  <2>3. \A j \in O : \E k \in 1..m : f[k] = j
    <3> SUFFICES ASSUME NEW j \in O PROVE \E k \in 1..m : f[k] = j
      OBVIOUS
    <3>1. PICK k \in 1..m : s.pending[k] = open[j]
      BY <1>2
    <3>2. f[k] \in O /\ open[f[k]] = open[j]
      BY <3>1, <1>1
    <3>3. f[k] \in DOMAIN open /\ j \in DOMAIN open
      BY <3>2, <1>0, <1>5
    <3> QED
      BY <3>2, <3>3
  <2> QED
    BY <2>1, <2>2, <2>3, <1>d DEF Bijection, Injection, Surjection, IsInjective
<1>7. g \in Bijection(N, X)
  <2>1. g \in [N -> X]
    BY <1>3, <1>4, <1>d
  <2>2. \A a, b \in N : g[a] = g[b] => a = b
    <3> SUFFICES ASSUME NEW a \in N, NEW b \in N, g[a] = g[b] PROVE a = b
      OBVIOUS
    <3>1. s.offset + a - 1 = s.offset + b - 1 /\ a \in Nat /\ b \in Nat
      BY <1>4
    <3> QED
      BY <3>1, <1>0
  <2>3. \A x \in X : \E i \in N : g[i] = x
    BY <1>3, <1>4
  <2> QED
    BY <2>1, <2>2, <2>3, <1>d DEF Bijection, Injection, Surjection, IsInjective
<1>8. IsFiniteSet(O) /\ Cardinality(O) = m
  <2>1. ExistsBijection(1..m, O)
    BY <1>6 DEF ExistsBijection
  <2>2. IsFiniteSet(1..m) /\ Cardinality(1..m) = m
    BY <1>0, CountedTo
  <2>3. IsFiniteSet(O) /\ Cardinality(O) = Cardinality(1..m)
    BY <2>1, <2>2, FS_Bijection
  <2> QED
    BY <2>2, <2>3
<1>9. IsFiniteSet(N) /\ Cardinality(N) = n - m
  <2>1. IsFiniteSet(1..n) /\ Cardinality(1..n) = n
    BY <1>0, CountedTo
  <2>2. IsFiniteSet((1..n) \ O) /\ Cardinality((1..n) \ O) = Cardinality(1..n) - Cardinality((1..n) \cap O)
    BY <2>1, FS_Difference
  <2> QED
    BY <2>1, <2>2, <1>5, <1>8
<1>10. Cardinality(X) = n - m
  <2>1. ExistsBijection(N, X)
    BY <1>7 DEF ExistsBijection
  <2>2. Cardinality(X) = Cardinality(N)
    BY <2>1, <1>9, FS_Bijection
  <2> QED
    BY <2>2, <1>9
<1> QED
  BY <1>0, <1>10 DEF X, n, m

\* What the accumulator holds after a turn: what it held, and the items the turn has placed.
LEMMA TurnIsPlaced ==
  ASSUME McpTypes, TurnInv, TurnEnds, Len(out) = st.offset, tr.open = CollectOutput(tr)
  PROVE  /\ Places(st, st', tr.open)
         /\ Len(out') = Len(out) + Len(tr.open) /\ Len(out) \in Nat /\ Len(tr.open) \in Nat
         /\ \A i \in 1..Len(out) : out'[i] = out[i]
         /\ \A p \in DOMAIN tr.open : ~Ours(st, tr.open[p]) => out'[Len(out) + p].id = Id(turn, tr.open[p])
<1>1. Places(st, st', tr.open)
  BY TurnEffects
<1>2. /\ out' = Extended(out, st') /\ st' \in Stitchers /\ Cardinality(st'.placed) \in Nat
      /\ out \in Seq(Items) /\ st \in Stitchers /\ tr \in Translators
  BY TurnEndOut DEF McpTypes, RequestType, StitchType
<1>3. tr.open \in Seq(Channels) /\ Len(tr.open) \in Nat /\ DOMAIN tr.open = 1..Len(tr.open) /\ Len(out) \in Nat
  BY <1>2 DEF Translators
<1> DEFINE n == Len(out) + Cardinality(st'.placed) + Len(st'.pending)
<1>4. /\ Len(out') = n
      /\ \A i \in 1..n :
           out'[i] = IF \E p \in st'.placed : p.oi + 1 = i THEN (CHOOSE p \in st'.placed : p.oi + 1 = i).item
                     ELSE IF i <= Len(out) THEN out[i] ELSE Hole
  BY <1>2, ExtendedIs
<1>5. st'.placed = TurnOutput(st, tr.open) /\ st'.pending = st.pending
  BY <1>1 DEF Places
<1>6. Cardinality(TurnOutput(st, tr.open)) + Len(st.pending) = Len(tr.open)
  <2>1. ChannelsOpen /\ Pended /\ \A c : (Opened(tr, c) <=> Heard(c)) /\ (Opened(tr, c) <=> Closed(c))
    BY TurnIsOver DEF TurnInv, InTurn, TurnEnds
  <2>2. \A c \in Range(tr.open) : Ours(st, c) <=> c \in Range(st.pending)
    <3> SUFFICES ASSUME NEW c \in Range(tr.open) PROVE Ours(st, c) <=> c \in Range(st.pending)
      OBVIOUS
    <3>1. Closed(c)
      BY <2>1 DEF Opened
    <3>2. CASE IsTool(c)
      BY <3>1, <3>2, <2>1 DEF Pended, Ours, Buffered, BufferOf
    <3>3. CASE ~IsTool(c)
      BY <3>3, <2>1 DEF Pended, Ours, Range
    <3> QED
      BY <3>2, <3>3
  <2>3. \A i \in DOMAIN st.pending : st.pending[i] \in Range(tr.open)
    BY <2>1 DEF Pended, Opened
  <2>4. \A i, j \in DOMAIN st.pending : st.pending[i] = st.pending[j] => i = j
    BY <2>1 DEF Pended
  <2>5. \A i, j \in DOMAIN tr.open : tr.open[i] = tr.open[j] => i = j
    BY <2>1 DEF ChannelsOpen, OpensOnce
  <2> QED
    BY <2>2, <2>3, <2>4, <2>5, <1>2, <1>3, SlotsCounted
<1>7. n = Len(out) + Len(tr.open)
  <2>1. Len(st.pending) \in Nat /\ Cardinality(TurnOutput(st, tr.open)) \in Nat
    BY <1>2, <1>5 DEF Stitchers
  <2> QED
    BY <2>1, <1>3, <1>5, <1>6
<1> HIDE DEF n
<1> DEFINE Kind(i) == IF IsTool(tr.open[i]) THEN "function" ELSE tr.open[i][1]
           V(i) == [oi |-> st.offset + i - 1, item |-> Plain(Kind(i), Id(turn, tr.open[i]))]
<1>8. \A p \in st'.placed : \E i \in DOMAIN tr.open : p = V(i)
  BY <1>5 DEF TurnOutput
<1>9. \A i \in DOMAIN tr.open : ~Ours(st, tr.open[i]) => V(i) \in st'.placed
  BY <1>5 DEF TurnOutput
<1>10. \A i \in DOMAIN tr.open : V(i).oi = Len(out) + i - 1 /\ V(i).item.id = Id(turn, tr.open[i])
  BY DEF Plain
<1> HIDE DEF V
<1>11. ASSUME NEW i \in 1..Len(out) PROVE out'[i] = out[i]
  <2>1. ~\E p \in st'.placed : p.oi + 1 = i
    <3> SUFFICES ASSUME NEW p \in st'.placed, p.oi + 1 = i PROVE FALSE
      OBVIOUS
    <3>1. PICK j \in DOMAIN tr.open : p = V(j)
      BY <1>8
    <3>2. p.oi = Len(out) + j - 1 /\ j \in 1..Len(tr.open)
      BY <3>1, <1>3, <1>10
    <3> QED
      BY <3>2, <1>3
  <2>2. i \in 1..n /\ i <= Len(out)
    BY <1>3, <1>7
  <2> QED
    BY <2>1, <2>2, <1>4
<1>12. ASSUME NEW j \in DOMAIN tr.open, ~Ours(st, tr.open[j]) PROVE out'[Len(out) + j].id = Id(turn, tr.open[j])
  <2>1. V(j) \in st'.placed /\ V(j).oi + 1 = Len(out) + j
    BY <1>3, <1>9, <1>10, <1>12
  <2>2. Len(out) + j \in 1..n
    BY <1>3, <1>7
  <2> DEFINE p == CHOOSE p \in st'.placed : p.oi + 1 = Len(out) + j
  <2>3. p \in st'.placed /\ p.oi + 1 = Len(out) + j
    BY <2>1
  <2>4. out'[Len(out) + j] = p.item
    BY <2>1, <2>2, <1>4
  <2> HIDE DEF p
  <2>5. PICK i \in DOMAIN tr.open : p = V(i)
    BY <2>3, <1>8
  <2>6. Len(out) + i - 1 + 1 = Len(out) + j /\ i \in 1..Len(tr.open) /\ j \in 1..Len(tr.open)
    BY <2>3, <2>5, <1>3, <1>10
  <2>7. i = j
    BY <2>6, <1>3
  <2> QED
    BY <2>4, <2>5, <2>7, <1>10
<1>13. Len(out') = Len(out) + Len(tr.open)
  BY <1>4, <1>7
<1> QED
  BY <1>1, <1>3, <1>11, <1>12, <1>13

-----------------------------------------------------------------------------
(* What the steps do to the output.                                          *)

\* What a group of events adds to what a client knows.
LEMMA SendsTold ==
  ASSUME NEW s, NEW r, NEW T, NEW oi, NEW id, Sends(s, r, T, oi, id)
  PROVE  /\ "added" \in T => ToldBy(r, "added") = ToldBy(s, "added") \cup {<<oi, id>>}
         /\ "added" \notin T => ToldBy(r, "added") = ToldBy(s, "added")
         /\ "done" \in T => ToldBy(r, "done") = ToldBy(s, "done") \cup {<<oi, id>>}
         /\ "done" \notin T => ToldBy(r, "done") = ToldBy(s, "done")
<1>1. \A type : ToldBy(r, type) = ToldBy(s, type) \cup (IF type \in T THEN {<<oi, id>>} ELSE {})
  BY DEF Sends
<1> QED
  BY <1>1

\* A response starts with nothing told and nothing kept.
LEMMA OutStarts ==
  ASSUME Starts
  PROVE  OutInv'
<1>1. CASE pc' = "idle"
  BY <1>1 DEF OutInv, InTurn
<1>2. CASE pc' # "idle"
  <2>1. pc' = "discover" /\ Begun(st') /\ out' = <<>>
    BY <1>2, StartEffect DEF Starts
  <2>2. Len(out') = 0 /\ st'.offset = 0 /\ ToldBy(st', "added") = {} /\ ToldBy(st', "done") = {}
    BY <2>1 DEF Begun
  <2>3. KeptOf(out', 0) = {}
    BY KeptNone
  <2>4. Even'
    BY <2>2, <2>3 DEF Even
  <2> QED
    BY <2>1, <2>4 DEF OutInv, InTurn
<1> QED
  BY <1>1, <1>2

\* The discovery of the tools.
LEMMA OutLists ==
  ASSUME McpTypes, OutInv, Reuses \/ Lists \/ ListReturns \/ (Expires /\ pc = "listing")
  PROVE  OutInv'
<1>1. CASE Reuses
  <2>1. pc = "discover" /\ pc' = "resume" /\ out' = out /\ st' = st
    BY <1>1 DEF Reuses
  <2> QED
    BY <2>1 DEF OutInv, InTurn, Even
<1>2. CASE Lists
  <2>1. pc = "discover" /\ pc' = "listing" /\ out' = out /\ made' = made
    BY <1>2 DEF Lists, requestVars
  <2>2. Claims(st, st', {"added", "list_started"}, ListId)
    BY <1>2, ListEffects
  <2>3. st'.offset = st.offset + 1 /\ Sends(st, st', {"added", "list_started"}, st.offset, ListId)
    BY <2>2 DEF Claims
  <2>4. Even /\ out = <<>>
    BY <2>1 DEF OutInv
  <2>5. st.offset = 0 /\ ToldBy(st, "added") = {} /\ ToldBy(st, "done") = {}
    <3>1. KeptOf(out, 0) = {} /\ Len(out) = 0
      BY <2>4, KeptNone
    <3> QED
      BY <3>1, <2>4 DEF Even
  <2>6. ToldBy(st', "added") = {<<0, ListId>>} /\ ToldBy(st', "done") = {}
    BY <2>3, <2>5, SendsTold
  <2>7. ListId' = ListId
    BY <2>1 DEF ListId, Id
  <2> QED
    BY <2>1, <2>3, <2>4, <2>5, <2>6, <2>7 DEF OutInv, InTurn
<1>3. CASE ListReturns
  <2>1. IF pc' = "idle" THEN TRUE ELSE pc' = "resume" /\ ListToldBy(st, st')
    BY <1>3, ListEffects
  <2>2. CASE pc' = "idle"
    BY <2>2 DEF OutInv, InTurn
  <2>3. CASE pc' # "idle"
    <3>1. pc' = "resume" /\ SameButSent(st, st') /\ Sends(st, st', {"list_ended", "done"}, 0, ListId) /\ pc = "listing"
      BY <1>3, <2>1, <2>3 DEF ListToldBy, ListReturns
    <3>2. out = <<>> /\ st.offset = 1 /\ ToldBy(st, "added") = {<<0, ListId>>} /\ ToldBy(st, "done") = {}
      BY <3>1 DEF OutInv
    <3>3. PICK x : x.id = ListId /\ out' = Append(out, x)
      BY <1>3 DEF ListReturns
    <3>4. out' = <<x>>
      BY <3>2, <3>3
    <3>5. KeptOf(out', 1) = {<<0, ListId>>} /\ Len(out') = 1
      <4>1. 1..1 = {1} /\ out'[1] = x
        BY <3>4
      <4>2. KeptOf(out', 1) = {<<i - 1, out'[i].id>> : i \in {1}}
        BY <4>1 DEF KeptOf
      <4>3. {<<i - 1, out'[i].id>> : i \in {1}} = {<<0, x.id>>}
        BY <4>1
      <4> QED
        BY <4>2, <4>3, <3>3, <3>4
    <3>6. ToldBy(st', "added") = {<<0, ListId>>} /\ ToldBy(st', "done") = {<<0, ListId>>}
      BY <3>1, <3>2, SendsTold
    <3>7. Even'
      BY <3>1, <3>2, <3>5, <3>6 DEF Even, SameButSent
    <3> QED
      BY <3>1, <3>7 DEF OutInv, InTurn
  <2> QED
    BY <2>2, <2>3
<1>4. CASE Expires /\ pc = "listing"
  <2>1. pc' = pc /\ pc = "listing" /\ out' = out /\ st' = st /\ made' = made
    BY <1>4 DEF Expires, requestVars
  <2>2. ListId' = ListId
    BY <2>1 DEF ListId, Id
  <2> QED
    BY <2>1, <2>2 DEF OutInv, InTurn
<1> QED
  BY <1>1, <1>2, <1>3, <1>4

\* The id of the answer in hand.
LEMMA AnswerKept ==
  ASSUME UNCHANGED <<past, req, at, made>>
  PROVE  ResumeId' = ResumeId
<1>1. Answers' = Answers
  BY DEF Answers, Input
<1> QED
  BY <1>1 DEF ResumeId, Id

\* The answers to approvals.
LEMMA OutResumes ==
  ASSUME McpTypes, TurnInv, RanInv, OutInv, McpTypes',
         ResumesNone \/ ResumesCall \/ ResumesRefused \/ ((CallReturns \/ CallFails \/ Expires) /\ pc = "resuming")
  PROVE  OutInv'
<1>0. out \in Seq(Items) /\ out' \in Seq(Items)
  BY DEF McpTypes, RequestType
<1>1. CASE ResumesNone
  <2>1. pc = "resume" /\ pc' = "turn" /\ out' = out /\ st' = st
    BY <1>1 DEF ResumesNone
  <2> QED
    BY <2>1 DEF OutInv, InTurn, Even
<1>2. CASE ResumesCall
  <2>1. pc = "resume" /\ pc' = "resuming" /\ out' = out /\ UNCHANGED <<past, req, at, made>>
    BY <1>2 DEF ResumesCall, requestVars, loopVars
  <2>2. Claims(st, st', {"added", "args_delta", "args_done"}, ResumeId)
    BY <1>2, ResumeEffects
  <2>3. st'.offset = st.offset + 1 /\ Sends(st, st', {"added", "args_delta", "args_done"}, st.offset, ResumeId)
    BY <2>2 DEF Claims
  <2>4. Even
    BY <2>1 DEF OutInv
  <2>5. ToldBy(st', "added") = ToldBy(st, "added") \cup {<<st.offset, ResumeId>>} /\ ToldBy(st', "done") = ToldBy(st, "done")
    BY <2>3, SendsTold
  <2>6. ResumeId' = ResumeId
    BY <2>1, AnswerKept
  <2> QED
    BY <2>1, <2>3, <2>4, <2>5, <2>6 DEF OutInv, InTurn, Even
<1>3. CASE ResumesRefused
  <2> DEFINE x == Call(ResumeId, Subject.name, This.of, FALSE)
  <2>1. pc = "resume" /\ pc' = "resume" /\ out' = Append(out, x)
    BY <1>3 DEF ResumesRefused
  <2>2. Claims(st, st', {"added", "call_started", "call_ended", "done"}, ResumeId)
    BY <1>3, ResumeEffects
  <2>3. st'.offset = st.offset + 1 /\ Sends(st, st', {"added", "call_started", "call_ended", "done"}, st.offset, ResumeId)
    BY <2>2 DEF Claims
  <2>4. Even
    BY <2>1 DEF OutInv
  <2>5. ToldBy(st', "added") = ToldBy(st, "added") \cup {<<st.offset, ResumeId>>}
        /\ ToldBy(st', "done") = ToldBy(st, "done") \cup {<<st.offset, ResumeId>>}
    BY <2>3, SendsTold
  <2>6. x.id = ResumeId
    BY DEF Call
  <2> HIDE DEF x
  <2>7. Len(out') = Len(out) + 1 /\ KeptOf(out', Len(out) + 1) = KeptOf(out, Len(out)) \cup {<<Len(out), x.id>>}
    <3>1. out'[Len(out) + 1] = x /\ Len(out) + 1 \in DOMAIN out'
      BY <2>1, <1>0
    <3>2. x \in Items
      BY <3>1, <1>0
    <3>3. Extends(out, x, out', Items)
      BY <3>2, <2>1, <1>0, Appended
    <3> QED
      BY <3>3, KeptAdd DEF Extends
  <2> QED
    BY <2>1, <2>3, <2>4, <2>5, <2>6, <2>7 DEF OutInv, InTurn, Even
<1>4. CASE (CallReturns \/ CallFails) /\ pc = "resuming"
  <2>1. PICK ok \in BOOLEAN : Reported(ok) /\ AtServer
    BY <1>4 DEF CallReturns, CallFails
  <2> DEFINE x == Call(Current.id, Current.name, Current.of, ok)
  <2>2. pc' = "resume" /\ out' = Append(out, x)
    BY <1>4, <2>1 DEF Reported
  <2>3. x.id = ResumeId /\ Current.id = ResumeId /\ Current.oi = Len(out)
    BY <1>4, <2>1, CurrentIs DEF Call
  <2>4. x \in Items
    BY <2>1, CallItem
  <2> HIDE DEF x
  <2>5. Extends(out, x, out', Items)
    BY <2>2, <2>4, <1>0, Appended
  <2>6. Len(out') = Len(out) + 1 /\ KeptOf(out', Len(out) + 1) = KeptOf(out, Len(out)) \cup {<<Len(out), x.id>>}
    BY <2>5, KeptAdd DEF Extends
  <2>7. SameButSent(st, st') /\ Sends(st, st', {"call_started", "call_ended", "done"}, Len(out), ResumeId)
    BY <1>4, <2>3, CallEffects
  <2>8. ToldBy(st', "added") = ToldBy(st, "added") /\ ToldBy(st', "done") = ToldBy(st, "done") \cup {<<Len(out), ResumeId>>}
    BY <2>7, SendsTold
  <2>9. /\ st.offset = Len(out) + 1
        /\ ToldBy(st, "added") = KeptOf(out, Len(out)) \cup {<<Len(out), ResumeId>>}
        /\ ToldBy(st, "done") = KeptOf(out, Len(out))
    BY <1>4 DEF OutInv
  <2>10. Even'
    BY <2>3, <2>6, <2>7, <2>8, <2>9 DEF Even, SameButSent
  <2> QED
    BY <2>2, <2>10 DEF OutInv, InTurn
<1>5. CASE Expires /\ pc = "resuming"
  <2>1. pc = "resuming" /\ pc' = pc /\ out' = out /\ st' = st /\ UNCHANGED <<past, req, at, made>>
    BY <1>5 DEF Expires, requestVars, loopVars
  <2>2. ResumeId' = ResumeId
    BY <2>1, AnswerKept
  <2> QED
    BY <2>1, <2>2 DEF OutInv, InTurn
<1> QED
  BY <1>1, <1>2, <1>3, <1>4, <1>5

\* The begin of a turn.
LEMMA OutTurnStarts ==
  ASSUME McpTypes, TurnInv, OutInv, McpTypes', StartsTurn
  PROVE  OutInv'
<1>1. pc = "turn" /\ pc' \in {"refused", "streaming"} /\ out' = out /\ tr' = Started /\ made' = made
  BY DEF StartsTurn, requestVars
<1>2. st'.sent = st.sent /\ st'.offset = st.offset
  BY TurnEffects
<1>3. tr'.open = <<>> /\ tr'.named = <<>>
  BY <1>1 DEF Started, NewTranslator
<1>4. Even
  BY <1>1 DEF OutInv
<1>5. \A c : ~Opened(tr', c)
  BY <1>3 DEF Opened, Range
<1>6. tr'.open = CollectOutput(tr')
  <2>1. TextOf(tr') = <<>> \o <<>>
    BY <1>5 DEF TextOf
  <2>2. tr' \in Translators
    BY DEF McpTypes, StitchType
  <2>3. CollectOutput(tr') = TextOf(tr') \o ToolList(0)
    BY <2>2, <1>3, OutputIs
  <2>4. ToolList(0) = <<>>
    BY ToolListIs
  <2>5. <<>> \o <<>> = <<>>
    OBVIOUS
  <2> QED
    BY <2>1, <2>3, <2>4, <2>5, <1>3
<1>7. CollectOutput(tr)' = CollectOutput(tr')
  BY DEF CollectOutput, Opened
<1>8. TurnTold(st.offset)'
  <2>1. /\ ToldBy(st', "added") = ToldBy(st, "added")
        /\ ToldBy(st', "done") = ToldBy(st, "done")
    BY <1>2 DEF ToldBy
  <2>2. \A m, t, lo, S : SlotsOf(tr'.open, m, t, lo, S) = {}
    BY <1>3, SlotsNone
  <2> QED
    BY <2>1, <2>2, <1>1, <1>2, <1>4 DEF TurnTold, Even
<1>9. CallsPlaced(st.offset)'
  BY <1>3 DEF CallsPlaced
<1>10. CASE pc' = "streaming"
  BY <1>1, <1>2, <1>4, <1>6, <1>7, <1>8, <1>9, <1>10 DEF OutInv, Even
<1>11. CASE pc' = "refused"
  BY <1>11 DEF OutInv, InTurn
<1> QED
  BY <1>1, <1>10, <1>11

\* What a client has been told of a turn when nothing is closed and nothing answered.
LEMMA OutStreams ==
  ASSUME McpTypes, TurnInv, RanInv, OutInv, Streams, ~mixed'
  PROVE  OutInv'
<1>1. /\ pc = "streaming" /\ pc' = "streaming" /\ st' = st
      /\ out' = out /\ made' = made /\ turn' = turn /\ at' = at
  BY StreamEffect DEF Streams, requestVars, loopVars
<1>2. PICK chunk \in Chunks : \E n : /\ Processes(tr, chunk, n) /\ MayTell(tr, chunk.ch) /\ tr' = n.tr
                                     /\ inbox' = n.events /\ mixed' = (mixed \/ OutOfOrder(n.tr))
  BY StreamEffect
<1>3. PICK n : /\ Processes(tr, chunk, n) /\ MayTell(tr, chunk.ch) /\ tr' = n.tr
               /\ mixed' = (mixed \/ OutOfOrder(n.tr))
  BY <1>2
<1>4. /\ tr \in Translators /\ OpensOnce(tr) /\ ToolsByIndex(tr) /\ tr.open = CollectOutput(tr)
      /\ Len(out) = st.offset /\ TurnTold(st.offset) /\ CallsPlaced(st.offset)
  BY <1>1 DEF TurnInv, InTurn, ChannelsOpen, McpTypes, StitchType, OutInv
<1>5. OpensOnce(tr') /\ \A p \in DOMAIN tr.open : p \in DOMAIN tr'.open /\ tr'.open[p] = tr.open[p]
  BY <1>3, <1>4, ChannelsStep
<1>6. \A c : (Heard(c)' <=> Heard(c)) /\ ~Closed(c)' /\ ~Closed(c)
  BY TurnStreams
<1>7. tr'.open = CollectOutput(tr')
  <2>1. ~OutOfOrder(n.tr)
    BY <1>3
  <2> QED
    BY <2>1, <1>3, <1>4, OrderKept
<1>8. \A c : ~Answered(c)' /\ ~Answered(c)
  <2>1. at = 1
    BY <1>1 DEF RanInv
  <2> QED
    BY <2>1, <1>1 DEF Answered
<1>9. \A c : (Announced(c)' <=> Announced(c)) /\ (Announced(c) => Heard(c))
  BY <1>1, <1>6 DEF Announced, BufferOf
<1>10. \A q \in DOMAIN tr'.open : Heard(tr'.open[q]) => q \in DOMAIN tr.open /\ tr.open[q] = tr'.open[q]
  <2> SUFFICES ASSUME NEW q \in DOMAIN tr'.open, Heard(tr'.open[q])
               PROVE  q \in DOMAIN tr.open /\ tr.open[q] = tr'.open[q]
    OBVIOUS
  <2>1. PICK c : c = tr'.open[q]
    OBVIOUS
  <2>2. PICK p \in DOMAIN tr.open : tr.open[p] = c
    BY <2>1 DEF Heard, Opened, Range
  <2>3. p = q
    BY <2>1, <2>2, <1>5 DEF OpensOnce
  <2> QED
    BY <2>1, <2>2, <2>3
<1>11. PICK shown : shown = ShownNow'
  OBVIOUS
<1>12. PICK done : done = DoneNow'
  OBVIOUS
<1>13. /\ \A c : c \in shown <=> c \in Range(tr'.open) /\ Announced(c)
       /\ done = {} /\ DoneNow = {}
       /\ \A c : c \in ShownNow <=> c \in Range(tr.open) /\ Announced(c)
  BY <1>6, <1>8, <1>9, <1>11, <1>12 DEF ShownNow, DoneNow, Ended
<1>14. \A c \in Range(tr.open) : c \in Range(tr'.open)
  BY <1>5 DEF Range
<1>15. \A m, t, lo :
         /\ SlotsOf(tr'.open, m, t, lo, shown) = SlotsOf(tr.open, m, t, lo, ShownNow)
         /\ SlotsOf(tr'.open, m, t, lo, done) = SlotsOf(tr.open, m, t, lo, DoneNow)
  <2> SUFFICES ASSUME NEW m, NEW t, NEW lo
               PROVE  /\ SlotsOf(tr'.open, m, t, lo, shown) = SlotsOf(tr.open, m, t, lo, ShownNow)
                      /\ SlotsOf(tr'.open, m, t, lo, done) = SlotsOf(tr.open, m, t, lo, DoneNow)
    OBVIOUS
  <2>1. \A q \in DOMAIN tr'.open : tr'.open[q] \in shown => q \in DOMAIN tr.open
    BY <1>9, <1>10, <1>13
  <2>2. SlotsOf(tr'.open, m, t, lo, shown) = SlotsOf(tr.open, m, t, lo, shown)
    BY <2>1, <1>5, SlotsLonger
  <2>3. SlotsOf(tr.open, m, t, lo, shown) = SlotsOf(tr.open, m, t, lo, ShownNow)
    BY <1>13, <1>14, SlotsSame
  <2>4. SlotsOf(tr'.open, m, t, lo, done) = {} /\ SlotsOf(tr.open, m, t, lo, DoneNow) = {}
    BY <1>13 DEF SlotsOf
  <2> QED
    BY <2>2, <2>3, <2>4
<1>16. TurnTold(st.offset)'
  BY <1>1, <1>4, <1>11, <1>12, <1>15 DEF TurnTold
<1>17. CallsPlaced(st.offset)'
  <2> SUFFICES ASSUME NEW p \in DOMAIN tr'.open, NEW c \in Range(tr'.open), tr'.open[p] = c, IsTool(c),
                      Heard(c)', BufferOf(c[2])'.class # "unknown"
               PROVE  BufferOf(c[2])'.oi = st.offset + p - 1
    BY <1>1 DEF CallsPlaced
  <2>1. BufferOf(c[2])' = BufferOf(c[2])
    BY <1>1 DEF BufferOf
  <2>2. Heard(c)
    BY <1>6
  <2>3. p \in DOMAIN tr.open /\ tr.open[p] = c
    BY <2>2, <1>10
  <2>4. c \in Range(tr.open)
    BY <2>3 DEF Range
  <2> QED
    BY <2>1, <2>2, <2>3, <2>4, <1>4 DEF CallsPlaced
<1>18. CollectOutput(tr)' = CollectOutput(tr')
  BY DEF CollectOutput, Opened
<1> QED
  BY <1>1, <1>4, <1>7, <1>16, <1>17, <1>18 DEF OutInv

\* The end of the loader's stream tells nothing yet.
LEMMA OutStreamEnds ==
  ASSUME McpTypes, TurnInv, RanInv, OutInv, StreamEnds
  PROVE  OutInv'
<1>1. /\ pc = "streaming" /\ pc' = "streaming" /\ st' = st
      /\ out' = out /\ made' = made /\ turn' = turn /\ at' = at
  BY StreamEndEffect DEF StreamEnds, requestVars, loopVars
<1>2. /\ tr.open = CollectOutput(tr)
      /\ Len(out) = st.offset /\ TurnTold(st.offset) /\ CallsPlaced(st.offset)
  BY <1>1 DEF InTurn, OutInv
<1>3. tr'.open = tr.open /\ tr'.named = tr.named /\ \A c : (Heard(c)' <=> Heard(c)) /\ ~Closed(c)' /\ ~Closed(c)
  BY TurnStreamEnds
<1>4. CollectOutput(tr)' = CollectOutput(tr)
  BY <1>3 DEF CollectOutput, Opened
<1>5. ShownNow' = ShownNow /\ DoneNow' = DoneNow
  <2>1. \A c : (Announced(c)' <=> Announced(c)) /\ (Answered(c)' <=> Answered(c)) /\ (Ended(c)' <=> Ended(c))
    BY <1>1, <1>3 DEF Announced, Ended, Answered, BufferOf
  <2> QED
    BY <2>1, <1>3 DEF ShownNow, DoneNow
<1>6. TurnTold(st.offset)'
  BY <1>1, <1>2, <1>3, <1>5 DEF TurnTold
<1>7. CallsPlaced(st.offset)'
  BY <1>1, <1>2, <1>3 DEF CallsPlaced, BufferOf
<1> QED
  BY <1>1, <1>2, <1>3, <1>4, <1>6, <1>7 DEF OutInv

\* One channel of the turn is told of, at its place: c is shown or closed now, if T has it.
LEMMA ToldGrows ==
  ASSUME NEW lo, NEW p \in DOMAIN tr.open, NEW c, c = tr.open[p], OpensOnce(tr),
         tr' = tr, made' = made, turn' = turn, TurnTold(lo), NEW T,
         Sends(st, st', T, lo + p - 1, <<made, turn, c>>), KeptOf(out', lo) = KeptOf(out, lo),
         \A x \in Range(tr.open) : x \in ShownNow' <=> x \in ShownNow \/ (x = c /\ "added" \in T),
         \A x \in Range(tr.open) : x \in DoneNow' <=> x \in DoneNow \/ (x = c /\ "done" \in T)
  PROVE  TurnTold(lo)'
<1> DEFINE slot == <<lo + p - 1, <<made, turn, c>>>>
<1>0. \A q \in DOMAIN tr.open : tr.open[q] = c => q = p
  BY DEF OpensOnce
<1>1. /\ ToldBy(st, "added") = KeptOf(out, lo) \cup SlotsOf(tr.open, made, turn, lo, ShownNow)
      /\ ToldBy(st, "done") = KeptOf(out, lo) \cup SlotsOf(tr.open, made, turn, lo, DoneNow)
  BY DEF TurnTold
<1>2. PICK shown : shown = ShownNow'
  OBVIOUS
<1>3. PICK done : done = DoneNow'
  OBVIOUS
<1>4. ToldBy(st', "added") = KeptOf(out, lo) \cup SlotsOf(tr.open, made, turn, lo, shown)
  <2>1. CASE "added" \in T
    <3>1. SlotsOf(tr.open, made, turn, lo, shown) = SlotsOf(tr.open, made, turn, lo, ShownNow) \cup {slot}
      <4>1. \A x \in Range(tr.open) : x \in shown <=> x \in ShownNow \/ x = c
        BY <2>1, <1>2
      <4> QED
        BY <4>1, <1>0, SlotsAdd
    <3>2. ToldBy(st', "added") = ToldBy(st, "added") \cup {slot}
      BY <2>1, SendsTold
    <3> QED
      BY <3>1, <3>2, <1>1
  <2>2. CASE "added" \notin T
    <3>1. SlotsOf(tr.open, made, turn, lo, shown) = SlotsOf(tr.open, made, turn, lo, ShownNow)
      <4>1. \A x \in Range(tr.open) : x \in shown <=> x \in ShownNow
        BY <2>2, <1>2
      <4> QED
        BY <4>1, SlotsSame
    <3>2. ToldBy(st', "added") = ToldBy(st, "added")
      BY <2>2, SendsTold
    <3> QED
      BY <3>1, <3>2, <1>1
  <2> QED
    BY <2>1, <2>2
<1>5. ToldBy(st', "done") = KeptOf(out, lo) \cup SlotsOf(tr.open, made, turn, lo, done)
  <2>1. CASE "done" \in T
    <3>1. SlotsOf(tr.open, made, turn, lo, done) = SlotsOf(tr.open, made, turn, lo, DoneNow) \cup {slot}
      <4>1. \A x \in Range(tr.open) : x \in done <=> x \in DoneNow \/ x = c
        BY <2>1, <1>3
      <4> QED
        BY <4>1, <1>0, SlotsAdd
    <3>2. ToldBy(st', "done") = ToldBy(st, "done") \cup {slot}
      BY <2>1, SendsTold
    <3> QED
      BY <3>1, <3>2, <1>1
  <2>2. CASE "done" \notin T
    <3>1. SlotsOf(tr.open, made, turn, lo, done) = SlotsOf(tr.open, made, turn, lo, DoneNow)
      <4>1. \A x \in Range(tr.open) : x \in done <=> x \in DoneNow
        BY <2>2, <1>3
      <4> QED
        BY <4>1, SlotsSame
    <3>2. ToldBy(st', "done") = ToldBy(st, "done")
      BY <2>2, SendsTold
    <3> QED
      BY <3>1, <3>2, <1>1
  <2> QED
    BY <2>1, <2>2
<1> QED
  BY <1>2, <1>3, <1>4, <1>5 DEF TurnTold

\* A channel of the turn, and what is held back of a call that has been heard of.
LEMMA OpenIs ==
  ASSUME McpTypes, NEW c \in Range(tr.open)
  PROVE  /\ c \in Channels /\ c[2] \in Nat /\ Opened(tr, c)
         /\ IsTool(c) => c = Tool(c[2])
<1>1. tr.open \in Seq(Channels)
  BY DEF McpTypes, StitchType, Translators
<1>2. c \in Channels
  BY <1>1 DEF Range
<1> QED
  BY <1>2, ChannelIs DEF Opened

\* An event of a call changes the buffer of that call only.
LEMMA CallAbsorbed ==
  ASSUME McpTypes, TurnInv, Absorbs, NEW e, e = Head(inbox), IsTool(e.ch), NEW b, NEW T,
         AbsorbsTool(st, st', e, b, T), NEW c \in Range(tr.open), IsTool(c)
  PROVE  /\ c = e.ch => BufferOf(c[2])' = b
         /\ c # e.ch /\ Heard(c) => BufferOf(c[2])' = BufferOf(c[2])
<1>1. /\ pc = "streaming" /\ inbox # <<>> /\ e.type \notin Terminal
  BY DEF Absorbs
<1>2. HeldBack
  BY <1>1 DEF TurnInv, InTurn
<1>3. st \in Stitchers
  BY DEF McpTypes, StitchType
<1>4. /\ e.ch \in Channels
      /\ IsTool(e.ch) /\ e.type = "added" => e.ch[2] = Len(st.buf)
      /\ IsTool(e.ch) /\ e.type # "added" => e.ch[2] + 1 \in DOMAIN st.buf
  BY <1>1, HeadFits DEF McpTypes
<1>5. /\ st.buf \in Seq(Buffers) /\ Len(st.buf) \in Nat /\ DOMAIN st.buf = 1..Len(st.buf)
  BY <1>3 DEF Stitchers
<1>6. PICK k \in Nat : k = e.ch[2] /\ e.ch = Tool(k)
  BY <1>4, ChannelIs
<1>7. PICK j \in Nat : j = c[2] /\ c = Tool(j)
  BY OpenIs
<1>8. (j = k <=> c = e.ch) /\ (Heard(c) => j < Len(st.buf))
  BY <1>2, <1>6, <1>7, ToolIs DEF HeldBack
<1>9. b \in Buffers /\ st'.buf = IF e.type = "added" THEN Append(st.buf, b) ELSE [st.buf EXCEPT ![k + 1] = b]
  BY <1>6 DEF AbsorbsTool
<1>10. /\ j = k => st'.buf[j + 1] = b
       /\ j # k /\ j < Len(st.buf) => st'.buf[j + 1] = st.buf[j + 1]
  <2>1. j < Len(st.buf) => j + 1 \in DOMAIN st.buf
    BY <1>5
  <2>2. CASE e.type = "added"
    <3>1. Extends(st.buf, b, st'.buf, Buffers) /\ k = Len(st.buf)
      BY <2>2, <1>4, <1>5, <1>6, <1>9, Appended
    <3> QED
      BY <3>1, <2>1 DEF Extends
  <2>3. CASE e.type # "added"
    <3>1. Reslots(st.buf, st'.buf, k + 1, b) /\ k + 1 \in DOMAIN st.buf
      BY <2>3, <1>4, <1>6, <1>9 DEF Reslots
    <3>2. \A i \in DOMAIN st.buf : st'.buf[i] = IF i = k + 1 THEN b ELSE st.buf[i]
      <4>1. b \in Buffers /\ st.buf \in Seq(Buffers)
        BY <1>5, <1>9
      <4> QED
        BY <4>1, <3>1, Reslotted
    <3>3. j # k => j + 1 # k + 1
      OBVIOUS
    <3> QED
      BY <3>1, <3>2, <3>3, <2>1
  <2> QED
    BY <2>2, <2>3
<1> QED
  BY <1>7, <1>8, <1>10 DEF BufferOf

\* An event tells of its channel at the place the turn's output will have it.
LEMMA OutAbsorbs ==
  ASSUME McpTypes, TurnInv, RanInv, OutInv, Absorbs
  PROVE  OutInv'
<1>0. PICK e : e = Head(inbox)
  OBVIOUS
<1>1. /\ pc = "streaming" /\ pc' = "streaming"
      /\ out' = out /\ made' = made /\ turn' = turn /\ at' = at
  BY DEF Absorbs, requestVars, loopVars
<1>2. OpensOnce(tr) /\ HeldBack
  BY <1>1 DEF TurnInv, InTurn, ChannelsOpen
<1>3. /\ tr' = tr
      /\ \A c : Heard(c)' <=> Opened(tr, c)
      /\ \A c : Heard(c) <=> Opened(tr, c) /\ ~(e.type = "added" /\ c = e.ch)
      /\ \A c : Closed(c)' <=> Closed(c) \/ (e.type = "done" /\ c = e.ch)
      /\ e.type = "done" => ~Closed(e.ch)
      /\ e.type = "added" => \A c : ~Closed(c)
      /\ EventOf(e, tr, e.ch)
  BY <1>0, InboxAbsorbed
<1>4. st' \in Stitchers /\ AbsorbsOne(e) /\ st \in Stitchers
  BY <1>0, TurnEffects DEF McpTypes, StitchType
<1>5. \A c : ~Answered(c)' /\ ~Answered(c)
  <2>1. at = 1
    BY <1>1 DEF RanInv
  <2> QED
    BY <2>1, <1>1 DEF Answered
<1>6. /\ tr.open = CollectOutput(tr)
      /\ Len(out) = st.offset /\ TurnTold(st.offset) /\ CallsPlaced(st.offset)
  BY <1>1 DEF InTurn, OutInv
<1>7. PICK lo \in Nat : lo = st.offset
  BY <1>4 DEF Stitchers
<1>8. PICK p \in DOMAIN tr.open : p = e.oi + 1 /\ tr.open[p] = e.ch /\ e.oi \in Nat /\ e.oi = p - 1
  BY <1>3 DEF EventOf, ItemEvents
<1>9. \A q \in DOMAIN tr.open : tr.open[q] = e.ch => q = p
  BY <1>2, <1>8 DEF OpensOnce
<1>10. \E T : /\ Sends(st, st', T, lo + p - 1, <<made, turn, e.ch>>) /\ st'.offset = lo
              /\ \A x \in Range(tr.open) : Announced(x)' <=> Announced(x) \/ (x = e.ch /\ "added" \in T)
              /\ \A x \in Range(tr.open) : Ended(x)' <=> Ended(x) \/ (x = e.ch /\ "done" \in T)
              /\ CallsPlaced(lo)'
  <2>0. e.oi + st.offset = lo + p - 1 /\ Id(turn, e.ch) = <<made, turn, e.ch>>
    BY <1>7, <1>8 DEF Id
  <2>1. CASE ~IsTool(e.ch)
    <3>1. /\ st'.buf = st.buf /\ st'.offset = lo
          /\ Sends(st, st', {e.type}, lo + p - 1, <<made, turn, e.ch>>)
      BY <2>0, <2>1, <1>4, <1>7 DEF AbsorbsOne, AbsorbsText, SameButSent
    <3>2. \A x : BufferOf(x)' = BufferOf(x)
      BY <3>1 DEF BufferOf
    <3>3. ASSUME NEW x \in Range(tr.open)
          PROVE  /\ Announced(x)' <=> Announced(x) \/ (x = e.ch /\ "added" \in {e.type})
                 /\ Ended(x)' <=> Ended(x) \/ (x = e.ch /\ "done" \in {e.type})
      <4>1. Opened(tr, x)
        BY DEF Opened
      <4> QED
        BY <4>1, <3>2, <2>1, <1>3 DEF Announced, Ended
    <3>4. CallsPlaced(lo)'
      BY <3>2, <2>1, <1>3, <1>6, <1>7 DEF CallsPlaced
    <3> QED
      BY <3>1, <3>3, <3>4
  <2>2. CASE IsTool(e.ch)
    <3>1. PICK b, T : AbsorbsTool(st, st', e, b, T)
      BY <2>2, <1>4 DEF AbsorbsOne
    <3>2. /\ st'.offset = lo /\ Sends(st, st', T, lo + p - 1, <<made, turn, e.ch>>)
          /\ b.class = IF OldClass(st, e) = "unknown" /\ (e.type = "done" \/ (e.type = "added" /\ e.name # NoName))
                       THEN Class(e.name) ELSE OldClass(st, e)
          /\ OldClass(st, e) = "unknown" /\ b.class # "unknown" => b.oi = lo + p - 1
          /\ OldClass(st, e) # "unknown" => b = BufferOf(e.ch[2])
          /\ "added" \in T <=> OldClass(st, e) = "unknown" /\ b.class \in {"client", "mcp"}
          /\ "done" \in T <=> e.type = "done" /\ b.class = "client"
      BY <3>1, <2>0, <1>7 DEF AbsorbsTool, BufferOf
    <3>3. e.type = "added" => OldClass(st, e) = "unknown"
      BY DEF OldClass
    <3>4. e.type # "added" => OldClass(st, e) = BufferOf(e.ch[2]).class
      BY DEF OldClass, BufferOf
    <3>5. Closed(e.ch) => OldClass(st, e) # "unknown"
      <4> SUFFICES ASSUME Closed(e.ch) PROVE OldClass(st, e) # "unknown"
        OBVIOUS
      <4>1. e.type # "added" /\ Opened(tr, e.ch)
        BY <1>3 DEF EventOf
      <4>2. Heard(e.ch)
        BY <4>1, <1>3
      <4>3. PICK k \in Nat : k = e.ch[2] /\ e.ch = Tool(k)
        BY <4>1, <2>2, OpenIs DEF Opened
      <4>4. HeldFits(k)
        BY <4>2, <4>3, <1>2 DEF HeldBack
      <4> QED
        BY <4>1, <4>3, <4>4, <3>4 DEF HeldFits
    <3>6. \A x \in Range(tr.open) : IsTool(x) =>
            /\ x = e.ch => BufferOf(x[2])' = b
            /\ x # e.ch /\ Heard(x) => BufferOf(x[2])' = BufferOf(x[2])
      BY <3>1, <2>2, <1>0, CallAbsorbed
    <3>7. ASSUME NEW x \in Range(tr.open)
          PROVE  /\ Announced(x)' <=> Announced(x) \/ (x = e.ch /\ "added" \in T)
                 /\ Ended(x)' <=> Ended(x) \/ (x = e.ch /\ "done" \in T)
      <4>1. Opened(tr, x)
        BY DEF Opened
      <4>2. CASE ~IsTool(x)
        BY <4>1, <4>2, <2>2, <1>3 DEF Announced, Ended
      <4>3. CASE IsTool(x) /\ x # e.ch
        <5>1. Heard(x) /\ Heard(x)' /\ BufferOf(x[2])' = BufferOf(x[2]) /\ (Closed(x)' <=> Closed(x))
          BY <4>1, <4>3, <3>6, <1>3
        <5> QED
          BY <5>1, <4>3 DEF Announced, Ended
      <4>4. CASE IsTool(x) /\ x = e.ch
        <5>1. Heard(x)' /\ BufferOf(x[2])' = b /\ (Heard(x) <=> e.type # "added")
          BY <4>1, <4>4, <3>6, <1>3
        <5>2. Announced(x)' <=> b.class \in {"client", "mcp"}
          BY <5>1, <4>4 DEF Announced
        <5>3. Announced(x) <=> e.type # "added" /\ BufferOf(x[2]).class \in {"client", "mcp"}
          BY <5>1, <4>4 DEF Announced
        <5>4. Announced(x)' <=> Announced(x) \/ (x = e.ch /\ "added" \in T)
          BY <5>2, <5>3, <4>4, <3>2, <3>3, <3>4
        <5>5. Ended(x)' <=> (Closed(x) \/ e.type = "done") /\ b.class = "client"
          BY <5>1, <4>4, <1>3 DEF Ended
        <5>6. Ended(x) <=> Closed(x) /\ BufferOf(x[2]).class = "client"
          BY <4>4 DEF Ended
        <5>7. Closed(x) => b = BufferOf(x[2])
          BY <4>4, <3>2, <3>5
        <5> QED
          BY <5>4, <5>5, <5>6, <5>7, <4>4, <3>2
      <4> QED
        BY <4>2, <4>3, <4>4
    <3>8. CallsPlaced(lo)'
      <4> SUFFICES ASSUME NEW q \in DOMAIN tr.open, NEW x \in Range(tr.open), tr.open[q] = x, IsTool(x),
                          Heard(x)', BufferOf(x[2])'.class # "unknown"
                   PROVE  BufferOf(x[2])'.oi = lo + q - 1
        BY <1>3 DEF CallsPlaced
      <4>1. Opened(tr, x)
        BY DEF Opened
      <4>2. CASE x # e.ch
        <5>1. Heard(x) /\ BufferOf(x[2])' = BufferOf(x[2])
          BY <4>1, <4>2, <3>6, <1>3
        <5> QED
          BY <5>1, <1>6, <1>7 DEF CallsPlaced
      <4>3. CASE x = e.ch
        <5>1. BufferOf(x[2])' = b /\ q = p
          BY <4>3, <3>6, <1>9
        <5>2. CASE OldClass(st, e) = "unknown"
          BY <5>1, <5>2, <3>2
        <5>3. CASE OldClass(st, e) # "unknown"
          <6>1. b = BufferOf(x[2]) /\ e.type # "added"
            BY <5>3, <4>3, <3>2, <3>3
          <6>2. Heard(x)
            BY <6>1, <4>1, <1>3
          <6> QED
            BY <5>1, <6>1, <6>2, <1>6, <1>7 DEF CallsPlaced
        <5> QED
          BY <5>2, <5>3
      <4> QED
        BY <4>2, <4>3
    <3> QED
      BY <3>2, <3>7, <3>8
  <2> QED
    BY <2>1, <2>2
<1>11. PICK T : /\ Sends(st, st', T, lo + p - 1, <<made, turn, e.ch>>) /\ st'.offset = lo
                /\ \A x \in Range(tr.open) : Announced(x)' <=> Announced(x) \/ (x = e.ch /\ "added" \in T)
                /\ \A x \in Range(tr.open) : Ended(x)' <=> Ended(x) \/ (x = e.ch /\ "done" \in T)
                /\ CallsPlaced(lo)'
  BY <1>10
<1>12. /\ \A x \in Range(tr.open) : x \in ShownNow' <=> x \in ShownNow \/ (x = e.ch /\ "added" \in T)
       /\ \A x \in Range(tr.open) : x \in DoneNow' <=> x \in DoneNow \/ (x = e.ch /\ "done" \in T)
  BY <1>3, <1>5, <1>11 DEF ShownNow, DoneNow
<1>13. KeptOf(out', lo) = KeptOf(out, lo) /\ TurnTold(lo)
  BY <1>1, <1>6, <1>7
<1>14. TurnTold(lo)'
  BY <1>1, <1>2, <1>3, <1>8, <1>11, <1>12, <1>13, ToldGrows
<1>15. CollectOutput(tr)' = CollectOutput(tr)
  BY <1>3 DEF CollectOutput, Opened
<1> QED
  BY <1>1, <1>3, <1>6, <1>7, <1>11, <1>14, <1>15 DEF OutInv

\* With its inbox taken, a turn has been heard of and closed.
LEMMA AllClosed ==
  ASSUME McpTypes, TurnInv, pc \in {"calls", "calling"}
  PROVE  \A c : (Heard(c) <=> Opened(tr, c)) /\ (Closed(c) <=> Opened(tr, c))
<1>1. inbox = <<>> /\ pc # "streaming"
  BY DEF TurnInv, InTurn, InboxFits
<1> QED
  BY <1>1 DEF Heard, Closed, AddedWaits, DoneWaits

\* The end of a turn: the items that are not calls of the loop take their slots.
LEMMA OutTurnEnds ==
  ASSUME McpTypes, TurnInv, RanInv, OutInv, TurnEnds
  PROVE  OutInv'
<1>1. /\ pc = "streaming" /\ pc' = "calls" /\ inbox' = <<>>
      /\ made' = made /\ turn' = turn /\ at' = at
  BY DEF TurnEnds, requestVars, loopVars
<1>2. /\ tr.open = CollectOutput(tr)
      /\ Len(out) = st.offset /\ TurnTold(st.offset) /\ CallsPlaced(st.offset)
  BY <1>1 DEF InTurn, OutInv
<1>3. /\ Places(st, st', tr.open)
      /\ Len(out') = Len(out) + Len(tr.open) /\ Len(out) \in Nat /\ Len(tr.open) \in Nat
      /\ \A i \in 1..Len(out) : out'[i] = out[i]
      /\ \A p \in DOMAIN tr.open : ~Ours(st, tr.open[p]) => out'[Len(out) + p].id = Id(turn, tr.open[p])
  BY <1>2, TurnIsPlaced
<1>4. tr' = tr /\ \A c : (Opened(tr, c) <=> Heard(c)) /\ (Opened(tr, c) <=> Closed(c))
  BY TurnIsOver
<1>5. \A c : (Heard(c)' <=> Heard(c)) /\ (Closed(c)' <=> Closed(c))
  <2>1. \A c : ~AddedWaits(c)' /\ ~DoneWaits(c)'
    BY <1>1 DEF AddedWaits, DoneWaits
  <2> QED
    BY <2>1, <1>1, <1>4 DEF Heard, Closed
<1>6. /\ st'.sent = st.sent /\ st'.buf = st.buf /\ st'.pending = st.pending
      /\ st'.offset = st.offset + Len(tr.open)
  BY <1>3 DEF Places
<1>7. PICK lo \in Nat : lo = st.offset /\ lo = Len(out)
  BY <1>2, <1>3
<1>8. Base' = lo /\ Len(out') = st'.offset
  <2>1. st'.offset = lo + Len(tr.open) /\ tr' = tr /\ Len(out') = lo + Len(tr.open)
    BY <1>3, <1>4, <1>6, <1>7
  <2> QED
    BY <2>1, <1>3 DEF Base
<1>9. \A c : ~Answered(c)' /\ ~Answered(c)
  <2>1. at = 1
    BY <1>1 DEF RanInv
  <2> QED
    BY <2>1, <1>1 DEF Answered
<1>10. ShownNow' = ShownNow /\ DoneNow' = DoneNow
  <2>1. \A c : (Announced(c)' <=> Announced(c)) /\ (Ended(c)' <=> Ended(c))
    BY <1>5, <1>6 DEF Announced, Ended, BufferOf
  <2> QED
    BY <2>1, <1>4, <1>9 DEF ShownNow, DoneNow
<1>11. TurnTold(lo)'
  <2>1. ToldBy(st', "added") = ToldBy(st, "added") /\ ToldBy(st', "done") = ToldBy(st, "done")
    BY <1>6 DEF ToldBy
  <2>2. KeptOf(out', lo) = KeptOf(out, lo)
    BY <1>3, <1>7, KeptSame
  <2> QED
    BY <2>1, <2>2, <1>1, <1>2, <1>4, <1>7, <1>10 DEF TurnTold
<1>12. CallsPlaced(lo)'
  BY <1>2, <1>4, <1>5, <1>6, <1>7 DEF CallsPlaced, BufferOf
<1>13. TurnKeeps(lo)'
  <2> SUFFICES ASSUME NEW p \in DOMAIN tr.open, NEW c \in Range(tr.open), tr.open[p] = c, c \in DoneNow
               PROVE  out'[lo + p].id = Id(turn, c)'
    BY <1>4, <1>10 DEF TurnKeeps
  <2>1. Ended(c)
    BY <1>9 DEF DoneNow
  <2>2. ~Ours(st, c)
    BY <2>1 DEF Ended, Ours, Buffered, BufferOf
  <2>3. Id(turn, c)' = Id(turn, c)
    BY <1>1 DEF Id
  <2> QED
    BY <2>2, <2>3, <1>3, <1>7
<1>14. CollectOutput(tr)' = CollectOutput(tr)
  BY <1>4 DEF CollectOutput, Opened
<1> QED
  BY <1>1, <1>2, <1>4, <1>8, <1>11, <1>12, <1>13, <1>14 DEF OutInv

\* A call of the turn has been answered: its item takes its slot.
LEMMA OutAnswered ==
  ASSUME McpTypes, TurnInv, OutInv, pc \in {"calls", "calling"}, pc' = "calls", at \in DOMAIN st.pending,
         at' = at + 1, SameButSent(st, st'), tr' = tr, inbox' = inbox, made' = made, turn' = turn,
         NEW c, c = NextCall, NEW T, "done" \in T, "added" \in T \/ Buffered(st, c).class = "mcp",
         Sends(st, st', T, Buffered(st, c).oi, Id(turn, c)),
         NEW x \in Items, x.id = Id(turn, c), Reslots(out, out', Buffered(st, c).oi + 1, x)
  PROVE  OutInv'
<1>1. /\ c \in Channels /\ c[2] \in Nat /\ c = Tool(c[2]) /\ Opened(tr, c)
      /\ Buffered(st, c) = BufferOf(c[2]) /\ HeldFits(c[2]) /\ IsTool(c)
  BY PendingIs, ToolIs DEF NextCall
<1>2. /\ out \in Seq(Items) /\ at \in Nat \ {0} /\ st \in Stitchers /\ tr \in Translators
  BY DEF McpTypes, RequestType, LoopType, StitchType
<1>3. /\ tr.open \in Seq(Channels) /\ Len(tr.open) \in Nat /\ DOMAIN tr.open = 1..Len(tr.open)
      /\ Len(out) \in Nat /\ DOMAIN out = 1..Len(out) /\ st.offset \in Nat
  BY <1>2 DEF Translators, Stitchers
<1>4. /\ tr.open = CollectOutput(tr) /\ Len(out) = st.offset /\ Base \in Nat
      /\ TurnTold(Base) /\ CallsPlaced(Base) /\ TurnKeeps(Base)
  BY DEF OutInv, InTurn
<1>5. OpensOnce(tr)
  BY DEF TurnInv, InTurn, ChannelsOpen
<1>6. \A d : (Heard(d) <=> Opened(tr, d)) /\ (Closed(d) <=> Opened(tr, d))
  BY AllClosed
<1>7. PICK p \in DOMAIN tr.open : tr.open[p] = c
  BY <1>1 DEF Opened, Range
<1>8. c \in Range(tr.open) /\ \A q \in DOMAIN tr.open : tr.open[q] = c => q = p
  BY <1>1, <1>5, <1>7 DEF Opened, OpensOnce
<1>9. PICK lo \in Nat : lo = Base
  BY <1>4
<1>10. Len(out) = lo + Len(tr.open) /\ Base' = lo
  BY <1>3, <1>4, <1>9 DEF Base, SameButSent
<1>11. BufferOf(c[2]).oi = lo + p - 1
  <2>1. BufferOf(c[2]).class # "unknown"
    BY <1>1, <1>6 DEF HeldFits
  <2> QED
    BY <2>1, <1>1, <1>4, <1>6, <1>7, <1>8, <1>9 DEF CallsPlaced
<1>12. Buffered(st, c).oi + 1 = lo + p /\ p \in 1..Len(tr.open)
  BY <1>1, <1>3, <1>11
<1>13. \A i \in DOMAIN out : out'[i] = IF i = lo + p THEN x ELSE out[i]
  BY <1>2, <1>12, Reslotted
<1>14. Len(out') = Len(out)
  BY <1>2, Reslotted
<1>15. st'.buf = st.buf /\ st'.pending = st.pending /\ st'.offset = st.offset
  BY DEF SameButSent
<1>16. \A d : (Heard(d)' <=> Heard(d)) /\ (Closed(d)' <=> Closed(d))
  BY DEF Heard, Closed, AddedWaits, DoneWaits, Closing
<1>17. \A d : Answered(d)' <=> Answered(d) \/ d = c
  <2>1. 1..(at' - 1) = 1..(at - 1) \cup {at}
    BY <1>2
  <2> QED
    BY <2>1, <1>15 DEF Answered, NextCall
<1>18. \A d : (Announced(d)' <=> Announced(d)) /\ (Ended(d)' <=> Ended(d))
  BY <1>15, <1>16 DEF Announced, Ended, BufferOf
<1>19. "added" \notin T => Announced(c)
  BY <1>1, <1>6 DEF Announced
<1>20. /\ \A d \in Range(tr.open) : d \in ShownNow' <=> d \in ShownNow \/ (d = c /\ "added" \in T)
       /\ \A d \in Range(tr.open) : d \in DoneNow' <=> d \in DoneNow \/ (d = c /\ "done" \in T)
  BY <1>17, <1>18, <1>19 DEF ShownNow, DoneNow
<1>21. KeptOf(out', lo) = KeptOf(out, lo)
  <2>1. \A i \in 1..lo : out'[i] = out[i]
    BY <1>3, <1>10, <1>12, <1>13
  <2> QED
    BY <2>1, KeptSame
<1>22. TurnTold(lo)'
  <2>1. Sends(st, st', T, lo + p - 1, <<made, turn, c>>) /\ TurnTold(lo)
    BY <1>1, <1>4, <1>9, <1>11 DEF Id
  <2> QED
    BY <2>1, <1>5, <1>7, <1>20, <1>21, ToldGrows
<1>23. CallsPlaced(lo)'
  BY <1>4, <1>9, <1>15, <1>16 DEF CallsPlaced, BufferOf
<1>24. TurnKeeps(lo)'
  <2> SUFFICES ASSUME NEW q \in DOMAIN tr.open, NEW d \in Range(tr.open), tr.open[q] = d, d \in DoneNow'
               PROVE  out'[lo + q].id = Id(turn, d)'
    BY DEF TurnKeeps
  <2>1. Id(turn, d)' = Id(turn, d)
    BY DEF Id
  <2>2. lo + q \in DOMAIN out /\ (lo + q = lo + p <=> q = p)
    BY <1>3, <1>10, <1>12
  <2>3. CASE d = c
    BY <2>1, <2>2, <2>3, <1>8, <1>13
  <2>4. CASE d # c
    <3>1. q # p /\ d \in DoneNow
      BY <2>4, <1>7, <1>20
    <3>2. out[lo + q].id = Id(turn, d)
      BY <3>1, <1>4, <1>9 DEF TurnKeeps
    <3> QED
      BY <3>1, <3>2, <2>1, <2>2, <1>13
  <2> QED
    BY <2>3, <2>4
<1>25. CollectOutput(tr)' = CollectOutput(tr)
  BY DEF CollectOutput, Opened
<1> QED
  BY <1>4, <1>10, <1>14, <1>15, <1>22, <1>23, <1>24, <1>25 DEF OutInv

\* The calls of a turn: one is handed over, sent to the server, answered or sent again.
LEMMA OutCalls ==
  ASSUME McpTypes, TurnInv, RanInv, OutInv,
         AsksApproval \/ Executes \/ ((CallReturns \/ CallFails \/ Expires) /\ pc = "calling")
  PROVE  OutInv'
<1>0. PICK c : c = NextCall
  OBVIOUS
<1>1. CASE AsksApproval
  <2> DEFINE x == Approval(Id(turn, NextCall), tr.named[NextCall[2] + 1])
  <2>1. /\ pc = "calls" /\ pc' = "calls" /\ at' = at + 1 /\ made' = made /\ turn' = turn /\ tr' = tr /\ inbox' = inbox
        /\ Reslots(out, out', Buffered(st, NextCall).oi + 1, x)
    BY <1>1 DEF AsksApproval, Reslots, requestVars, loaderVars
  <2>2. /\ at \in DOMAIN st.pending /\ SameButSent(st, st')
        /\ Sends(st, st', {"added", "done"}, Buffered(st, NextCall).oi, Id(turn, NextCall))
    BY <1>1, CallEffects
  <2>3. Id(turn, NextCall) \in Ids /\ tr.named[NextCall[2] + 1] \in Names
    BY <2>1, <2>2, PendingIs DEF NextCall
  <2>4. x \in Items /\ x.id = Id(turn, NextCall)
    BY <2>3, ItemsAre DEF Approval
  <2> HIDE DEF x
  <2> QED
    BY <2>1, <2>2, <2>4, <1>0, OutAnswered
<1>2. CASE (CallReturns \/ CallFails) /\ pc = "calling"
  <2>1. PICK ok \in BOOLEAN : Reported(ok) /\ AtServer
    BY <1>2 DEF CallReturns, CallFails
  <2> DEFINE x == Call(Current.id, Current.name, Current.of, ok)
  <2>2. /\ pc' = "calls" /\ at' = at + 1 /\ made' = made /\ turn' = turn /\ tr' = tr /\ inbox' = inbox
        /\ Reslots(out, out', Current.oi + 1, x)
    BY <1>2, <2>1 DEF Reported, Reslots, requestVars, loaderVars
  <2>3. /\ at \in DOMAIN st.pending
        /\ Current.id = Id(turn, NextCall) /\ Current.oi = Buffered(st, NextCall).oi
    BY <1>2, <2>1, CurrentIs
  <2>4. SameButSent(st, st') /\ Sends(st, st', {"call_started", "call_ended", "done"}, Current.oi, Current.id)
    BY <1>2, CallEffects
  <2>5. x \in Items /\ x.id = Current.id
    BY <2>1, CallItem DEF Call
  <2>6. Buffered(st, NextCall).class = "mcp"
    BY <1>2 DEF RanInv
  <2> HIDE DEF x
  <2> QED
    BY <1>2, <2>2, <2>3, <2>4, <2>5, <2>6, <1>0, OutAnswered
<1>3. CASE Executes \/ (Expires /\ pc = "calling")
  <2>1. /\ pc \in {"calls", "calling"} /\ pc' = "calling"
        /\ UNCHANGED <<out, st, tr, inbox, made, turn, at>>
    BY <1>3 DEF Executes, Expires, requestVars, loaderVars, loopVars
  <2>2. /\ tr.open = CollectOutput(tr) /\ Len(out) = st.offset /\ Base \in Nat
        /\ TurnTold(Base) /\ CallsPlaced(Base) /\ TurnKeeps(Base)
    BY <2>1 DEF OutInv, InTurn
  <2>3. \A d : (Heard(d)' <=> Heard(d)) /\ (Closed(d)' <=> Closed(d)) /\ (Answered(d)' <=> Answered(d))
    BY <2>1 DEF Heard, Closed, AddedWaits, DoneWaits, Closing, Answered
  <2>4. ShownNow' = ShownNow /\ DoneNow' = DoneNow
    BY <2>1, <2>3 DEF ShownNow, DoneNow, Announced, Ended, BufferOf
  <2>5. PICK lo \in Nat : lo = Base
    BY <2>2
  <2>6. Base' = lo /\ CollectOutput(tr)' = CollectOutput(tr)
    BY <2>1, <2>5 DEF Base, CollectOutput, Opened
  <2>7. TurnTold(lo)'
    BY <2>1, <2>2, <2>4, <2>5 DEF TurnTold
  <2>8. CallsPlaced(lo)'
    BY <2>1, <2>2, <2>3, <2>5 DEF CallsPlaced, BufferOf
  <2>9. TurnKeeps(lo)'
    BY <2>1, <2>2, <2>4, <2>5 DEF TurnKeeps, Id
  <2> QED
    BY <2>1, <2>2, <2>6, <2>7, <2>8, <2>9 DEF OutInv
<1> QED
  BY <1>1, <1>2, <1>3

\* When no call is left, the client knows the accumulator, with the turn.
LEMMA TurnIsTold ==
  ASSUME McpTypes, TurnInv, RanInv, OutInv, pc = "calls", ~More
  PROVE  Even
<1>1. /\ Len(out) = st.offset /\ Base \in Nat /\ TurnTold(Base) /\ TurnKeeps(Base)
  BY DEF OutInv
<1>2. tr.open \in Seq(Channels) /\ Len(tr.open) \in Nat /\ st.offset \in Nat /\ made \in Nat /\ turn \in Nat
      /\ st.pending \in Seq(Channels)
  BY DEF McpTypes, RequestType, LoopType, StitchType, Translators, Stitchers
<1>3. at - 1 = Len(st.pending) /\ DOMAIN st.pending = 1..Len(st.pending)
  <2>1. at \in 1..(Len(st.pending) + 1) /\ Len(st.pending) \in Nat
    BY <1>2 DEF RanInv
  <2> QED
    BY <2>1, <1>2 DEF More
<1>4. \A c \in Range(tr.open) : c \in ShownNow /\ c \in DoneNow
  <2> SUFFICES ASSUME NEW c \in Range(tr.open) PROVE c \in ShownNow /\ c \in DoneNow
    OBVIOUS
  <2>1. Heard(c) /\ Closed(c)
    BY AllClosed DEF Opened
  <2>2. IsTool(c) /\ BufferOf(c[2]).class # "client" => c \in Range(st.pending)
    BY <2>1 DEF TurnInv, InTurn, Pended
  <2>3. c \in Range(st.pending) => Answered(c)
    BY <1>3 DEF Answered, Range
  <2>4. CASE IsTool(c) /\ BufferOf(c[2]).class # "client"
    BY <2>2, <2>3, <2>4 DEF ShownNow, DoneNow
  <2>5. CASE ~(IsTool(c) /\ BufferOf(c[2]).class # "client")
    BY <2>1, <2>5 DEF ShownNow, DoneNow, Announced, Ended
  <2> QED
    BY <2>4, <2>5
<1>5. \A p \in DOMAIN tr.open : out[Base + p].id = <<made, turn, tr.open[p]>>
  <2> SUFFICES ASSUME NEW p \in DOMAIN tr.open PROVE out[Base + p].id = <<made, turn, tr.open[p]>>
    OBVIOUS
  <2>1. tr.open[p] \in Range(tr.open)
    BY DEF Range
  <2> QED
    BY <2>1, <1>1, <1>4 DEF TurnKeeps, Id
<1>6. PICK lo \in Nat : lo = Base
  BY <1>1
<1>7. lo + Len(tr.open) = Len(out)
  BY <1>1, <1>2, <1>6 DEF Base
<1>8. /\ KeptOf(out, lo + Len(tr.open)) = KeptOf(out, lo) \cup SlotsOf(tr.open, made, turn, lo, ShownNow)
      /\ KeptOf(out, lo + Len(tr.open)) = KeptOf(out, lo) \cup SlotsOf(tr.open, made, turn, lo, DoneNow)
  <2>1. Range(tr.open) \subseteq ShownNow /\ Range(tr.open) \subseteq DoneNow
    BY <1>4
  <2>2. Fills(out, tr.open, made, turn, lo)
    BY <1>5, <1>6 DEF Fills
  <2>3. lo \in Nat /\ tr.open \in Seq(Channels)
    BY <1>2, <1>6
  <2>4. ASSUME NEW S, Range(tr.open) \subseteq S
        PROVE  KeptOf(out, lo + Len(tr.open)) = KeptOf(out, lo) \cup SlotsOf(tr.open, made, turn, lo, S)
    BY <2>2, <2>3, <2>4, KeptAll, SMT
  <2> QED
    BY <2>1, <2>4
<1> QED
  BY <1>1, <1>6, <1>7, <1>8 DEF TurnTold, Even

\* Nothing is said of the output once a response is over.
LEMMA OutEnds ==
  ASSUME pc' \in {"idle", "refused"}
  PROVE  OutInv'
BY DEF OutInv, InTurn

\* The agreement is inductive, until a turn mixes its channels.
LEMMA OutputInvStep ==
  ASSUME McpTypes, TurnInv, RanInv, OutputInv, [McpNext]_mcpVars, McpTypes'
  PROVE  OutputInv'
<1> SUFFICES ASSUME ~mixed' PROVE OutInv'
  BY DEF OutputInv
<1>1. CASE Starts
  BY <1>1, OutStarts
<1>2. CASE ~Starts
  <2>1. OutInv
    <3>1. ~mixed
      <4>1. Streams => ~mixed
        <5> SUFFICES ASSUME Streams PROVE ~mixed
          OBVIOUS
        <5>1. PICK n : mixed' = (mixed \/ OutOfOrder(n.tr))
          BY StreamEffect
        <5> QED
          BY <5>1
      <4> QED
        BY <4>1, <1>2, InputEffect
    <3> QED
      BY <3>1 DEF OutputInv
  <2>2. CASE \/ Reuses \/ Lists \/ ListReturns \/ (Expires /\ pc = "listing")
    BY <2>1, <2>2, OutLists
  <2>3. CASE \/ ResumesNone \/ ResumesCall \/ ResumesRefused
             \/ ((CallReturns \/ CallFails \/ Expires) /\ pc = "resuming")
    BY <2>1, <2>3, OutResumes
  <2>4. CASE StartsTurn
    BY <2>1, <2>4, OutTurnStarts
  <2>5. CASE Streams
    BY <2>1, <2>5, OutStreams
  <2>6. CASE StreamEnds
    BY <2>1, <2>6, OutStreamEnds
  <2>7. CASE Absorbs
    BY <2>1, <2>7, OutAbsorbs
  <2>8. CASE TurnEnds
    BY <2>1, <2>8, OutTurnEnds
  <2>9. CASE AsksApproval \/ Executes \/ ((CallReturns \/ CallFails \/ Expires) /\ pc = "calling")
    BY <2>1, <2>9, OutCalls
  <2>10. CASE ListFails \/ ResumesUnknown \/ TurnFails \/ TurnRefused \/ Completes \/ Breaks \/ Disconnects
    <3>1. pc' = "idle"
      BY <2>10 DEF ListFails, ResumesUnknown, TurnFails, TurnRefused, Completes, Breaks, Disconnects
    <3> QED
      BY <3>1, OutEnds
  <2>11. CASE Continues
    <3>1. pc = "calls" /\ ~More /\ pc' = "turn" /\ out' = out /\ st' = st
      BY <2>11 DEF Continues
    <3>2. Even
      BY <3>1, <2>1, TurnIsTold
    <3> QED
      BY <3>1, <3>2 DEF OutInv, InTurn, Even
  <2>12. CASE UNCHANGED mcpVars
    <3>1. /\ UNCHANGED <<past, made, req, pc, out, st, tr, inbox, turn, at>>
      BY <2>12 DEF mcpVars
    <3>2. OutInv' <=> OutInv
      BY <3>1 DEF OutInv, InTurn, Even, TurnTold, CallsPlaced, TurnKeeps, Base, ShownNow, DoneNow, Announced,
           Ended, Answered, Heard, Closed, AddedWaits, DoneWaits, Closing, BufferOf, ListId, ResumeId, Answers,
           Input, Id
    <3> QED
      BY <3>2, <2>1
  <2>13. CASE (CallReturns \/ CallFails \/ Expires) /\ pc \notin {"resuming", "calling", "listing"}
    BY <2>13 DEF CallReturns, CallFails, Expires, AtServer
  <2>14. CASE (CallReturns \/ CallFails) /\ pc = "listing"
    BY <2>14 DEF CallReturns, CallFails, AtServer
  <2> QED
    BY <1>2, <2>2, <2>3, <2>4, <2>5, <2>6, <2>7, <2>8, <2>9, <2>10, <2>11, <2>12, <2>13, <2>14
       DEF McpNext, LoopStep
<1> QED
  BY <1>1, <1>2

\* The agreement holds at first.
LEMMA OutputInvInit == McpInit => OutputInv
<1> SUFFICES ASSUME McpInit PROVE OutInv
  BY DEF OutputInv
<1> QED
  BY DEF McpInit, OutInv, InTurn

\* After a turn, and its calls, the agreement is OutputMatchesStream.
LEMMA OutputAgrees ==
  ASSUME McpTypes, TurnInv, RanInv, NumberInv, OutputInv
  PROVE  OutputMatchesStream
<1>1. NumberedStream
  BY DEF NumberInv, NumberedStream
<1>2. ASSUME pc = "calls", ~More, ~mixed
      PROVE  Told("added") = {<<i - 1, out[i].id>> : i \in DOMAIN out} /\ Told("done") = Told("added")
  <2>1. Even
    BY <1>2, TurnIsTold DEF OutputInv
  <2>2. Told("added") = ToldBy(st, "added") /\ Told("done") = ToldBy(st, "done")
    BY DEF Told, ToldBy
  <2>3. DOMAIN out = 1..Len(out)
    BY DEF McpTypes, RequestType
  <2>4. KeptOf(out, Len(out)) = {<<i - 1, out[i].id>> : i \in DOMAIN out}
    BY <2>3 DEF KeptOf
  <2> QED
    BY <2>1, <2>2, <2>4 DEF Even
<1> QED
  BY <1>1, <1>2 DEF OutputMatchesStream

\* The output a client builds is the one the loop keeps: on the gateway's side of the stream
\* the invariant above is inductive, and after a turn it says what OutputMatchesStream says.
THEOREM OutputIsTold == McpSpec => []OutputMatchesStream
<1>1. McpInit => OutputInv
  BY OutputInvInit
<1>2. McpSafe /\ McpSafe' /\ OutputInv /\ [McpNext]_mcpVars => OutputInv'
  BY OutputInvStep DEF McpSafe
<1>3. McpSafe /\ OutputInv => OutputMatchesStream
  BY OutputAgrees DEF McpSafe
<1>4. McpSpec => []McpSafe
  BY McpIsSafe
<1> QED
  BY <1>1, <1>2, <1>3, <1>4, PTL DEF McpSpec
=============================================================================
