---------------------------- MODULE DeployProofs ----------------------------
(***************************************************************************)
(* Theorems about module Deploy, for any number of requests, models, apps,   *)
(* replicas and faults.                                                      *)
(***************************************************************************)
EXTENDS Deploy, TLAPS

-----------------------------------------------------------------------------
(* Types of the operators of DeployDiff.                                     *)

\* A model a version has, has a config in it.
LEMMA HasType ==
  ASSUME NEW v \in Version, NEW m \in Has(v)
  PROVE  m \in Models /\ v[m] \in Config /\ AppOf(v, m) \in App
BY DEF Version, Has, AppOf, App, Config

\* The empty version that stands in for a missing one is a version.
LEMMA OrEmptyType ==
  ASSUME NEW v \in Version \cup {NoVersion}
  PROVE  OrEmpty(v) \in Version
BY DEF OrEmpty, Version, NoModels

\* merge (ledger.py) makes a version of two.
LEMMA MergeType ==
  ASSUME NEW v \in Version, NEW w \in Version, NEW mode
  PROVE  merge(v, w, mode) \in Version
BY DEF merge, Version

\* What build_diff (diff.py) returns for any request, version and apps.
LEMMA BuildDiffType ==
  ASSUME NEW request \in Request, NEW version \in Version \cup {NoVersion},
         NEW serve \in [App -> ServeApp]
  PROVE  build_diff(request, version, serve) \in Diff
<1> DEFINE current  == OrEmpty(version)
           wanted   == IF request.mode = "bare" THEN current ELSE request.models
           proposed == merge(current, request.models, request.mode)
           commits  == /\ request.mode # "bare"
                       /\ version = NoVersion \/ proposed # version
           both     == Has(wanted) \cap Has(current)
           added    == Has(wanted) \ Has(current)
           replaced == {m \in both : AppOf(wanted, m) # AppOf(current, m)}
           held     == [m \in both |-> serve[AppOf(wanted, m)]]
           redeploy == {m \in both \ replaced : held[m].status \in NotLive \cup {"absent"}}
           rescaled == {m \in both \ (replaced \cup redeploy) :
                          held[m].scaling # wanted[m].scaling}
           rising   == {m \in rescaled : Rises(held[m].scaling, wanted[m].scaling)}
           removed  == IF request.mode = "reconcile" THEN Has(current) \ Has(wanted) ELSE {}
           shrunk   == {m \in replaced :
                          /\ request.strategy = "blue_green"
                          /\ Shrinks(serve[AppOf(current, m)], wanted[m].scaling)}
           change(v, S) == {Rescale(AppOf(v, m), wanted[m].scaling) : m \in S}
           R == [app : App, scaling : Scalings]
<1>1. current \in Version /\ wanted \in Version /\ proposed \in Version
  <2>1. current \in Version
    BY OrEmptyType
  <2>2. request.models \in Version
    BY DEF Request
  <2> QED
    BY <2>1, <2>2, MergeType
<1> HIDE DEF current, wanted, proposed
<1>2. \A v \in Version : \A S : S \subseteq Has(v) \cap Has(wanted) => change(v, S) \in SUBSET R
  <2> SUFFICES ASSUME NEW v \in Version, NEW S, S \subseteq Has(v) \cap Has(wanted),
                      NEW m \in S
               PROVE  Rescale(AppOf(v, m), wanted[m].scaling) \in R
    OBVIOUS
  <2>1. AppOf(v, m) \in App
    BY HasType
  <2>2. wanted[m].scaling \in Scalings
    BY <1>1, HasType DEF Config
  <2> QED
    BY <2>1, <2>2 DEF Rescale
<1>3. /\ rescaled \ rising \subseteq Has(wanted) /\ rising \subseteq Has(wanted)
      /\ added \cup replaced \cup redeploy \subseteq Has(wanted)
      /\ shrunk \subseteq Has(current) \cap Has(wanted)
      /\ replaced \cup removed \subseteq Has(current)
  OBVIOUS
<1> HIDE DEF rescaled, rising, added, replaced, redeploy, shrunk, removed
<1>4. /\ change(wanted, rescaled \ rising) \in SUBSET R
      /\ change(wanted, rising) \in SUBSET R
      /\ change(wanted, added \cup replaced \cup redeploy) \in SUBSET R
      /\ change(current, shrunk) \in SUBSET R
  BY <1>1, <1>2, <1>3
<1>5. {AppOf(current, m) : m \in replaced \cup removed} \in SUBSET App
  BY <1>1, <1>3, HasType
<1>6. {a \in App : serve[a].status # "absent"} \ Named(version) \in SUBSET App
  OBVIOUS
<1>7. (IF commits THEN proposed ELSE version) \in Version \cup {NoVersion}
  BY <1>1
<1>8. commits \in BOOLEAN
  OBVIOUS
<1> HIDE DEF commits
<1>9. build_diff(request, version, serve) =
      [leftovers   |-> {a \in App : serve[a].status # "absent"} \ Named(version),
       scale_downs |-> change(wanted, rescaled \ rising) \cup change(current, shrunk),
       deploys     |-> change(wanted, added \cup replaced \cup redeploy),
       scale_ups   |-> change(wanted, rising),
       retired     |-> {AppOf(current, m) : m \in replaced \cup removed},
       models      |-> IF commits THEN proposed ELSE version,
       commits     |-> commits]
  BY DEF build_diff, current, wanted, proposed, commits, both, added, replaced, held, redeploy,
         rescaled, rising, removed, shrunk
<1>10. change(wanted, rescaled \ rising) \cup change(current, shrunk) \in SUBSET R
  BY <1>4
<1> HIDE DEF change, R
<1>11. \A l, t \in SUBSET App, d, n, u \in SUBSET R, v \in Version \cup {NoVersion}, b \in BOOLEAN :
         [leftovers |-> l, scale_downs |-> d, deploys |-> n, scale_ups |-> u,
          retired |-> t, models |-> v, commits |-> b] \in Diff
  BY DEF Diff, R
<1>12. change(wanted, rising) \in SUBSET R
  BY <1>4
<1>13. change(wanted, added \cup replaced \cup redeploy) \in SUBSET R
  BY <1>4
<1> DEFINE l == {a \in App : serve[a].status # "absent"} \ Named(version)
           d == change(wanted, rescaled \ rising) \cup change(current, shrunk)
           n == change(wanted, added \cup replaced \cup redeploy)
           u == change(wanted, rising)
           t == {AppOf(current, m) : m \in replaced \cup removed}
           v == IF commits THEN proposed ELSE version
<1> HIDE DEF l, d, n, u, t, v
<1>14. [leftovers |-> l, scale_downs |-> d, deploys |-> n, scale_ups |-> u,
        retired |-> t, models |-> v, commits |-> commits] \in Diff
  <2>1. l \in SUBSET App /\ t \in SUBSET App
    BY <1>5, <1>6 DEF l, t
  <2>2. d \in SUBSET R /\ n \in SUBSET R /\ u \in SUBSET R
    BY <1>10, <1>12, <1>13 DEF d, n, u
  <2>3. v \in Version \cup {NoVersion}
    BY <1>7 DEF v
  <2> QED
    BY <1>8, <1>11, <2>1, <2>2, <2>3
<1> QED
  BY <1>9, <1>14 DEF l, d, n, u, t, v

-----------------------------------------------------------------------------
(* Type correctness.                                                         *)

\* The plan of a worker that has none yet.
LEMMA NoPlanType == NoPlan \in Diff
BY DEF NoPlan, Diff

\* What a rollback asks for is a request.
LEMMA BareRequestType == BareRequest \in Request
BY DEF BareRequest, Request, Modes, Strategies, Version, NoModels

\* Serve's apps when a cluster starts from a version.
LEMMA InitAppsType ==
  ASSUME NEW v \in Version \cup {NoVersion}
  PROVE  InitApps(v) \in [App -> ServeApp]
<1>1. (CHOOSE s \in Scalings : TRUE) \in Scalings
  BY ScalingAssumption
<1>2. ASSUME NEW a \in App, a \in Named(v)
      PROVE  v[a[1]].scaling \in Scalings
  <2>1. v \in Version
    BY <1>2 DEF Named
  <2>2. PICK m \in Has(v) : a = AppOf(v, m)
    BY <1>2, <2>1, SentinelAssumption DEF Named, Version
  <2>3. a[1] = m
    BY <2>2 DEF AppOf
  <2> QED
    BY <2>1, <2>3, HasType DEF Config
<1> QED
  BY <1>1, <1>2 DEF InitApps, ServeApp, Status

\* The queue without one of its requests.
LEMMA WithoutType ==
  ASSUME NEW q \in Seq(Requests), NEW i \in 1..Len(q)
  PROVE  Without(q, i) \in Seq(Requests)
<1>1. \A j \in 1..(Len(q) - 1) : (IF j < i THEN q[j] ELSE q[j + 1]) \in Requests
  OBVIOUS
<1>2. Len(q) - 1 \in Nat
  OBVIOUS
<1> QED
  BY <1>1, <1>2 DEF Without

\* Serve's apps after a worker re-submits some.
LEMMA ResubmittedType ==
  ASSUME apps \in [App -> ServeApp], NEW R \in SUBSET [app : App, scaling : Scalings]
  PROVE  Resubmitted(R) \in [App -> ServeApp]
<1>1. ASSUME NEW a \in AppsOf(R)
      PROVE  (CHOOSE r \in R : r.app = a).scaling \in Scalings
  <2>1. \E r \in R : r.app = a
    BY DEF AppsOf
  <2> QED
    BY <2>1
<1> QED
  BY <1>1 DEF Resubmitted, ServeApp, Status

\* A new routing is the last of the routings.
LEMMA RouteType ==
  ASSUME GatewayType, NEW models \in Version \cup {NoVersion}, Route(models), holds' = holds
  PROVE  GatewayType'
<1>1. routes' \in Seq(Version \cup {NoVersion}) /\ Len(routes') = Len(routes) + 1
  BY DEF GatewayType, Route
<1> QED
  BY <1>1 DEF GatewayType, Route

\* A call of the live worker has the type of a call.
LEMMA InFlightType ==
  ASSUME TypeOK, wkind = "run" => running \in Requests
  PROVE  InFlight \subseteq CallType
BY DEF TypeOK, CoordinatorType, WorkerType, InFlight, Call, CallType, Diff

\* TypeOK is inductive once a run or a rollback is known to have a request.
TypeInv == TypeOK /\ (wkind \in {"run", "rollback"} => running \in Requests)

\* Every step of the deploy path keeps every variable in its type.
LEMMA TypeStep == TypeInv /\ [Next]_vars => TypeInv'
<1> SUFFICES ASSUME TypeInv, [Next]_vars
             PROVE  TypeInv'
  OBVIOUS
<1> USE DEF TypeInv
<1>1. InFlight \subseteq CallType
  BY InFlightType
<1>2. ASSUME NEW r \in Requests, NEW request \in Inputs, Submit(r, request)
      PROVE  TypeInv'
  BY <1>2, BoundAssumption DEF TypeOK, EntryType, CoordinatorType, ServeType, WorkerType,
     GatewayType, HistoryType, Submit, entryVars, coordVars, workerVars, gatewayVars, historyVars,
     Steps, States, Outcomes
<1>3. ASSUME NEW r \in Requests, CancelQueued(r)
      PROVE  TypeInv'
  BY <1>3, WithoutType DEF TypeOK, EntryType, CoordinatorType, ServeType, WorkerType, GatewayType,
     HistoryType, CancelQueued, entryVars, coordVars, workerVars, gatewayVars, historyVars, Steps,
     States, Outcomes
<1>4. ASSUME NEW r \in Requests, CancelRunning(r)
      PROVE  TypeInv'
  BY <1>4 DEF TypeOK, EntryType, CoordinatorType, ServeType, WorkerType, GatewayType, HistoryType,
     CancelRunning, entryVars, coordVars, workerVars, gatewayVars, historyVars, Steps, States,
     Outcomes
<1>5. CASE Pick
  <2>1. EntryType'
    BY <1>5 DEF TypeOK, EntryType, Pick, NewWorker, States, Outcomes
  <2>2. CoordinatorType'
    BY <1>5 DEF TypeOK, CoordinatorType, Pick, NewWorker
  <2>3. WorkerType'
    BY <1>5 DEF TypeOK, WorkerType, Pick, NewWorker, Steps, Outcomes
  <2>4. (wkind \in {"run", "rollback"} => running \in Requests)'
    BY <1>5 DEF TypeOK, CoordinatorType, WorkerType, Pick, NewWorker, coordVars, workerVars
  <2>5. ServeType' /\ GatewayType' /\ HistoryType'
    BY <1>5 DEF TypeOK, ServeType, GatewayType, HistoryType, Pick, NewWorker, gatewayVars,
       coordVars, historyVars
  <2> QED
    BY <2>1, <2>2, <2>3, <2>4, <2>5 DEF TypeOK
<1>6. CASE DrainEnds
  BY <1>6 DEF TypeOK, EntryType, CoordinatorType, ServeType, WorkerType, GatewayType, HistoryType,
     DrainEnds, entryVars, coordVars, workerVars, gatewayVars, historyVars, Steps, States, Outcomes
<1>7. CASE RunEnds
  <2>1. EntryType'
    BY <1>7 DEF TypeOK, EntryType, WorkerType, RunEnds, Ends, Outcomes
  <2>2. CoordinatorType'
    BY <1>7 DEF TypeOK, CoordinatorType, RunEnds, Ends, NoWorker
  <2>3. WorkerType'
    <3>1. NoWorker /\ late' = late
      BY <1>7 DEF RunEnds, Ends
    <3> QED
      BY <3>1, NoPlanType DEF TypeOK, WorkerType, NoWorker, Steps, Outcomes
  <2>4. HistoryType'
    BY <1>7 DEF TypeOK, HistoryType, RunEnds, Ends, NoWorker
  <2>5. (wkind \in {"run", "rollback"} => running \in Requests)'
    BY <1>7 DEF TypeOK, CoordinatorType, WorkerType, RunEnds, Ends, NoWorker, coordVars, workerVars
  <2>6. ServeType' /\ GatewayType'
    BY <1>7 DEF TypeOK, ServeType, GatewayType, RunEnds, Ends, NoWorker, gatewayVars, coordVars
  <2> QED
    BY <2>1, <2>2, <2>3, <2>4, <2>5, <2>6 DEF TypeOK
<1>8. CASE DeathSeen
  BY <1>8 DEF TypeOK, EntryType, CoordinatorType, ServeType, WorkerType, GatewayType, HistoryType,
     DeathSeen, NewWorker, entryVars, coordVars, workerVars, gatewayVars, historyVars, Steps, States,
     Outcomes
<1>9. CASE RollbackEnds
  BY <1>9, NoPlanType DEF TypeOK, EntryType, CoordinatorType, ServeType, WorkerType, GatewayType,
     HistoryType, RollbackEnds, Ends, NoWorker, entryVars, coordVars, workerVars, gatewayVars,
     historyVars, Steps, States, Outcomes
<1>10. CASE StartRecovery
  BY <1>10 DEF TypeOK, EntryType, CoordinatorType, ServeType, WorkerType, GatewayType,
     HistoryType, StartRecovery, entryVars, coordVars, workerVars, gatewayVars, historyVars, Steps,
     States, Outcomes
<1>11. CASE ReadVersion
  BY <1>11 DEF TypeOK, EntryType, CoordinatorType, ServeType, WorkerType, GatewayType,
     HistoryType, ReadVersion, entryVars, coordVars, workerVars, gatewayVars, historyVars, Steps,
     States, Outcomes
<1>12. CASE UseVersion
  <2>1. CoordinatorType'
    BY <1>12 DEF TypeOK, CoordinatorType, UseVersion
  <2>2. GatewayType'
    <3>1. rv[1] \in Version \cup {NoVersion}
      BY <1>12 DEF UseVersion, TypeOK, CoordinatorType
    <3> QED
      BY <1>12, <3>1, RouteType DEF TypeOK, GatewayType, UseVersion
  <2>3. /\ EntryType' /\ ServeType' /\ WorkerType' /\ HistoryType'
        /\ (wkind \in {"run", "rollback"} => running \in Requests)'
    BY <1>12 DEF TypeOK, EntryType, ServeType, WorkerType, HistoryType, UseVersion, entryVars,
       workerVars, historyVars, coordVars
  <2> QED
    BY <2>1, <2>2, <2>3 DEF TypeOK
<1>13. CASE Recover
  <2>1. CoordinatorType'
    BY <1>13 DEF TypeOK, CoordinatorType, Recover, NewWorker, Fault, NoFault
  <2>2. WorkerType'
    <3>1. \/ NewWorker("recovery", "rb_reset", TRUE)
          \/ UNCHANGED <<wkind, wk, wswitching, left, wseq, wresult, tries>>
      BY <1>13 DEF Recover
    <3>2. plan' = plan /\ late' = late
      BY <1>13 DEF Recover
    <3>3. CASE NewWorker("recovery", "rb_reset", TRUE)
      BY <3>2, <3>3 DEF TypeOK, WorkerType, NewWorker, Steps, Outcomes
    <3> QED
      BY <3>1, <3>2, <3>3 DEF TypeOK, WorkerType
  <2>3. HistoryType'
    <3>1. abandoned' \in {abandoned, TRUE} /\ faults' \in {faults, faults + 1}
      BY <1>13 DEF Recover, Fault, NoFault
    <3>2. landed' = landed /\ hurried' \in {hurried, TRUE}
      BY <1>13 DEF Recover
    <3>3. faults' \in Nat
      BY <3>1 DEF TypeOK, HistoryType
    <3>4. abandoned' \in BOOLEAN /\ hurried' \in BOOLEAN
      BY <3>1, <3>2, Zenon DEF TypeOK, HistoryType
    <3> QED
      BY <3>2, <3>3, <3>4, Zenon DEF TypeOK, HistoryType
  <2>4. /\ EntryType' /\ ServeType' /\ GatewayType'
        /\ (wkind \in {"run", "rollback"} => running \in Requests)'
    BY <1>13 DEF TypeOK, EntryType, ServeType, GatewayType, Recover, NewWorker, Fault, NoFault,
       entryVars, gatewayVars, coordVars, workerVars
  <2> QED
    BY <2>1, <2>2, <2>3, <2>4 DEF TypeOK
<1>14. CASE RecoveryEnds
  BY <1>14, NoPlanType DEF TypeOK, EntryType, CoordinatorType, ServeType, WorkerType, GatewayType,
     HistoryType, RecoveryEnds, NoWorker, entryVars, coordVars, workerVars, gatewayVars, historyVars,
     Steps, States, Outcomes
<1>15. ASSUME NEW c \in InFlight, Switch(c)
      PROVE  TypeInv'
  <2>1. EntryType'
    BY <1>15, <1>1 DEF TypeOK, EntryType, Switch, Route, Answer, States, Outcomes
  <2>2. WorkerType'
    <3>1. wk' \in {wk, "confirm"} /\ late' \in {late, late \ {c}}
      BY <1>15 DEF Switch, Answer
    <3>2. wseq' \in {wseq, Len(routes) + 1} /\ wswitching' \in {wswitching, TRUE}
      BY <1>15 DEF Switch
    <3>3. Len(routes) + 1 \in Nat
      BY DEF TypeOK, GatewayType
    <3> QED
      BY <1>15, <3>1, <3>2, <3>3 DEF TypeOK, WorkerType, Switch, Steps
  <2>3. GatewayType'
    <3>1. c.models \in Version \cup {NoVersion}
      BY <1>1, <1>15 DEF CallType
    <3> QED
      BY <1>15, <3>1, RouteType DEF TypeOK, Switch
  <2>4. /\ CoordinatorType' /\ ServeType' /\ HistoryType'
        /\ (wkind \in {"run", "rollback"} => running \in Requests)'
    BY <1>15 DEF TypeOK, CoordinatorType, ServeType, HistoryType, Switch, Route, Answer,
       coordVars, historyVars, workerVars
  <2> QED
    BY <2>1, <2>2, <2>3, <2>4 DEF TypeOK
<1>16. ASSUME NEW c \in InFlight, CommitCancelled(c)
      PROVE  TypeInv'
  BY <1>16, <1>1 DEF TypeOK, EntryType, CoordinatorType, ServeType, WorkerType, GatewayType,
     HistoryType, CommitCancelled, Answer, entryVars, coordVars, workerVars, gatewayVars,
     historyVars, Steps, States, Outcomes
<1>17. ASSUME NEW c \in InFlight, CommitStarts(c)
      PROVE  TypeInv'
  BY <1>17, <1>1 DEF TypeOK, EntryType, CoordinatorType, ServeType, WorkerType, GatewayType,
     HistoryType, CommitStarts, Answer, CallType, entryVars, coordVars, workerVars, gatewayVars,
     historyVars, Steps, States, Outcomes
<1>18. ASSUME NEW c \in InFlight, RollingBack(c)
      PROVE  TypeInv'
  <2>1. EntryType'
    BY <1>18 DEF TypeOK, EntryType, RollingBack, Answer, States, Outcomes
  <2>2. WorkerType'
    BY <1>18 DEF TypeOK, WorkerType, RollingBack, Answer, Steps, Outcomes
  <2>3. /\ CoordinatorType' /\ ServeType' /\ GatewayType' /\ HistoryType'
        /\ (wkind \in {"run", "rollback"} => running \in Requests)'
    BY <1>18 DEF TypeOK, CoordinatorType, ServeType, GatewayType, HistoryType, RollingBack,
       Answer, coordVars, gatewayVars, historyVars, workerVars
  <2> QED
    BY <2>1, <2>2, <2>3 DEF TypeOK
<1>19. ASSUME NEW c \in InFlight, Refuse(c)
      PROVE  TypeInv'
  BY <1>19 DEF TypeOK, EntryType, CoordinatorType, ServeType, WorkerType, GatewayType,
     HistoryType, Refuse, entryVars, coordVars, workerVars, gatewayVars, historyVars, Steps, States,
     Outcomes
<1>20. CASE CommitLands
  <2>1. EntryType'
    BY <1>20 DEF TypeOK, EntryType, CommitLands, States, Outcomes
  <2>2. CoordinatorType'
    BY <1>20 DEF TypeOK, CoordinatorType, CommitLands
  <2>3. WorkerType'
    <3>1. Retired \subseteq App
      BY DEF TypeOK, WorkerType, Diff, Retired
    <3> QED
      BY <1>20, <3>1 DEF TypeOK, WorkerType, CommitLands, Steps
  <2>4. HistoryType'
    BY <1>20 DEF TypeOK, CoordinatorType, HistoryType, CommitLands
  <2>5. /\ ServeType' /\ GatewayType'
        /\ (wkind \in {"run", "rollback"} => running \in Requests)'
    BY <1>20 DEF TypeOK, ServeType, GatewayType, CommitLands, gatewayVars, coordVars, workerVars
  <2> QED
    BY <2>1, <2>2, <2>3, <2>4, <2>5 DEF TypeOK
<1>21. CASE ResetRouting
  <2>1. WorkerType'
    <3>1. wseq' \in {wseq, routing, Len(routes) + 1} /\ wk' \in {"rb_confirm", "rb_diff", "raised"}
      BY <1>21 DEF ResetRouting
    <3>2. routing \in Nat /\ Len(routes) + 1 \in Nat
      BY DEF TypeOK, GatewayType
    <3> QED
      BY <1>21, <3>1, <3>2 DEF TypeOK, WorkerType, ResetRouting, Steps
  <2>2. GatewayType'
    <3>1. (Route(committed) \/ UNCHANGED <<routes, routing>>) /\ holds' = holds
      BY <1>21 DEF ResetRouting
    <3>2. committed \in Version \cup {NoVersion}
      BY DEF TypeOK, CoordinatorType
    <3> QED
      BY <3>1, <3>2, RouteType DEF TypeOK, GatewayType
  <2>3. HistoryType'
    BY <1>21 DEF TypeOK, HistoryType, ResetRouting, Route, Fault, NoFault
  <2>4. /\ EntryType' /\ CoordinatorType' /\ ServeType'
        /\ (wkind \in {"run", "rollback"} => running \in Requests)'
    BY <1>21 DEF TypeOK, EntryType, CoordinatorType, ServeType, ResetRouting, Route, Fault,
       NoFault, entryVars, coordVars, workerVars
  <2> QED
    BY <2>1, <2>2, <2>3, <2>4 DEF TypeOK
<1>22. ASSUME NEW r \in Requests, KillUnlessSeen(r)
      PROVE  TypeInv'
  BY <1>22, <1>1 DEF TypeOK, EntryType, CoordinatorType, ServeType, WorkerType, GatewayType,
     HistoryType, KillUnlessSeen, Die, entryVars, coordVars, workerVars, gatewayVars, historyVars,
     Steps, States, Outcomes
<1>23. CASE ComputeDiff
  <2>1. WorkerType'
    <3>1. input[running] \in Request
      BY <1>23 DEF ComputeDiff, TypeOK, EntryType
    <3>2. build_diff(input[running], committed, apps) \in Diff
      BY <3>1, BuildDiffType DEF TypeOK, CoordinatorType, ServeType
    <3> QED
      BY <1>23, <3>2 DEF TypeOK, WorkerType, ComputeDiff, WorkerOnly, Steps
  <2>2. /\ EntryType' /\ CoordinatorType' /\ ServeType' /\ GatewayType' /\ HistoryType'
        /\ (wkind \in {"run", "rollback"} => running \in Requests)'
    BY <1>23 DEF TypeOK, EntryType, CoordinatorType, ServeType, GatewayType, HistoryType,
       ComputeDiff, WorkerOnly, entryVars, coordVars, gatewayVars, historyVars, workerVars
  <2> QED
    BY <2>1, <2>2 DEF TypeOK
<1>24. CASE SourcesResolved
  BY <1>24 DEF TypeOK, EntryType, CoordinatorType, ServeType, WorkerType, GatewayType,
     HistoryType, SourcesResolved, WorkerOnly, Diff, entryVars, coordVars, workerVars, gatewayVars,
     historyVars, Steps, States, Outcomes
<1>25. CASE DeletePoll
  <2>1. ServeType'
    <3>1. \/ apps' = apps
          \/ \E S : apps' = [a \in App |-> IF a \in S THEN [apps[a] EXCEPT !.status = "deleting"]
                                         ELSE apps[a]]
      BY <1>25 DEF DeletePoll
    <3> QED
      BY <3>1 DEF TypeOK, ServeType, ServeApp, Status
  <2>2. WorkerType'
    BY <1>25 DEF TypeOK, WorkerType, DeletePoll, WorkerOnly, AfterDelete, Present, Steps, Outcomes
  <2>3. /\ EntryType' /\ CoordinatorType' /\ GatewayType' /\ HistoryType'
        /\ (wkind \in {"run", "rollback"} => running \in Requests)'
    BY <1>25 DEF TypeOK, EntryType, CoordinatorType, GatewayType, HistoryType, DeletePoll,
       WorkerOnly, AfterDelete, Present, entryVars, coordVars, gatewayVars, historyVars, workerVars
  <2> QED
    BY <2>1, <2>2, <2>3 DEF TypeOK
<1>26. CASE SubmitRescales
  <2>1. ServeType'
    <3>1. PICK R \in SUBSET Rescales(wk) : apps' = Resubmitted(R)
      BY <1>26 DEF SubmitRescales
    <3>2. R \in SUBSET [app : App, scaling : Scalings]
      BY <3>1 DEF TypeOK, WorkerType, Rescales, Diff
    <3> QED
      BY <3>1, <3>2, ResubmittedType DEF TypeOK, ServeType
  <2>2. WorkerType'
    BY <1>26 DEF TypeOK, WorkerType, SubmitRescales, WorkerOnly, AfterSubmit, Rescales, AppsOf,
       Diff, Steps, Outcomes
  <2>3. /\ EntryType' /\ CoordinatorType' /\ GatewayType' /\ HistoryType'
        /\ (wkind \in {"run", "rollback"} => running \in Requests)'
    BY <1>26 DEF TypeOK, EntryType, CoordinatorType, GatewayType, HistoryType, SubmitRescales,
       WorkerOnly, AfterSubmit, Rescales, AppsOf, Diff, entryVars, coordVars, gatewayVars,
       historyVars, workerVars
  <2> QED
    BY <2>1, <2>2, <2>3 DEF TypeOK
<1>27. CASE SubmitDeploys
  BY <1>27, ResubmittedType, SMTT(30) DEF TypeOK, EntryType, CoordinatorType, ServeType, WorkerType,
     GatewayType, HistoryType, SubmitDeploys, WorkerOnly, AppsOf, Diff, entryVars, coordVars,
     workerVars, gatewayVars, historyVars, Steps, States, Outcomes
<1>28. CASE Up
  BY <1>28, SMTT(30) DEF TypeOK, EntryType, CoordinatorType, ServeType, WorkerType, GatewayType,
     HistoryType, Up, WorkerOnly, AfterWait, Stopped, Retired, Diff, entryVars, coordVars,
     workerVars, gatewayVars, historyVars, Steps, States, Outcomes
<1>29. ASSUME NEW a \in App, Retry(a)
      PROVE  TypeInv'
  <2>1. ServeType'
    BY <1>29 DEF TypeOK, ServeType, Retry, WorkerOnly, ServeApp, Status
  <2>2. WorkerType'
    BY <1>29 DEF TypeOK, WorkerType, Retry, WorkerOnly, Steps, Outcomes
  <2>3. /\ EntryType' /\ CoordinatorType' /\ GatewayType' /\ HistoryType'
        /\ (wkind \in {"run", "rollback"} => running \in Requests)'
    BY <1>29 DEF TypeOK, EntryType, CoordinatorType, GatewayType, HistoryType, Retry, WorkerOnly,
       entryVars, coordVars, gatewayVars, historyVars, workerVars
  <2> QED
    BY <2>1, <2>2, <2>3 DEF TypeOK
<1>30. CASE Confirmed
  <2>1. HistoryType'
    <3>1. hurried' = FALSE /\ UNCHANGED <<abandoned, landed, faults>>
      BY <1>30 DEF Confirmed, WorkerOnly
    <3> QED
      BY <3>1, Zenon DEF TypeOK, HistoryType
  <2>2. /\ EntryType' /\ CoordinatorType' /\ ServeType' /\ WorkerType' /\ GatewayType'
        /\ (wkind \in {"run", "rollback"} => running \in Requests)'
    BY <1>30 DEF TypeOK, EntryType, CoordinatorType, ServeType, WorkerType, GatewayType, Confirmed,
       WorkerOnly, entryVars, coordVars, workerVars, gatewayVars, Steps, States, Outcomes
  <2> QED
    BY <2>1, <2>2 DEF TypeOK
<1>31. CASE SeesCancel
  <2>1. EntryType'
    BY <1>31 DEF TypeOK, EntryType, SeesCancel, States, Outcomes
  <2>2. WorkerType'
    BY <1>31 DEF TypeOK, WorkerType, SeesCancel, Steps, Outcomes
  <2>3. /\ CoordinatorType' /\ ServeType' /\ GatewayType' /\ HistoryType'
        /\ (wkind \in {"run", "rollback"} => running \in Requests)'
    BY <1>31 DEF TypeOK, CoordinatorType, ServeType, GatewayType, HistoryType, SeesCancel,
       coordVars, gatewayVars, historyVars, workerVars
  <2> QED
    BY <2>1, <2>2, <2>3 DEF TypeOK
<1>32. CASE RollbackDiff
  <2>1. WorkerType'
    <3>1. build_diff(BareRequest, committed, apps) \in Diff
      BY BuildDiffType, BareRequestType DEF TypeOK, CoordinatorType, ServeType
    <3>2. plan' \in Diff
      BY <1>32, <3>1 DEF RollbackDiff, TypeOK, WorkerType
    <3>3. left' \in {left, plan'.leftovers} /\ wk' \in {"rb_delete", "raised"}
      BY <1>32 DEF RollbackDiff
    <3>4. left' \subseteq App
      BY <3>2, <3>3 DEF TypeOK, WorkerType, Diff
    <3> QED
      BY <1>32, <3>2, <3>3, <3>4 DEF TypeOK, WorkerType, RollbackDiff, Steps
  <2>2. HistoryType'
    BY <1>32 DEF TypeOK, HistoryType, RollbackDiff, Fault, NoFault
  <2>3. /\ EntryType' /\ CoordinatorType' /\ ServeType' /\ GatewayType'
        /\ (wkind \in {"run", "rollback"} => running \in Requests)'
    BY <1>32 DEF TypeOK, EntryType, CoordinatorType, ServeType, GatewayType, RollbackDiff, Fault,
       NoFault, entryVars, coordVars, gatewayVars, workerVars
  <2> QED
    BY <2>1, <2>2, <2>3 DEF TypeOK
<1>33. CASE RestoreScaling
  <2>1. ServeType'
    <3>1. \E R \in SUBSET (plan.scale_downs \cup plan.scale_ups) : apps' = Resubmitted(R)
      BY <1>33 DEF RestoreScaling
    <3>2. plan.scale_downs \cup plan.scale_ups \subseteq [app : App, scaling : Scalings]
      BY DEF TypeOK, WorkerType, Diff
    <3> QED
      BY <3>1, <3>2, ResubmittedType DEF TypeOK, ServeType
  <2>2. WorkerType'
    BY <1>33 DEF TypeOK, WorkerType, RestoreScaling, Steps, Outcomes
  <2>3. HistoryType'
    <3>1. faults' \in {faults, faults + 1}
      BY <1>33 DEF RestoreScaling, Fault, NoFault
    <3>2. faults' \in Nat
      BY <3>1 DEF TypeOK, HistoryType
    <3>3. UNCHANGED <<landed, hurried>> /\ abandoned' \in BOOLEAN
      BY <1>33, Zenon DEF RestoreScaling
    <3> QED
      BY <3>2, <3>3, Zenon DEF TypeOK, HistoryType
  <2>4. /\ EntryType' /\ CoordinatorType' /\ GatewayType'
        /\ (wkind \in {"run", "rollback"} => running \in Requests)'
    BY <1>33 DEF TypeOK, EntryType, CoordinatorType, GatewayType, RestoreScaling, entryVars,
       coordVars, gatewayVars, workerVars
  <2> QED
    BY <2>1, <2>2, <2>3, <2>4 DEF TypeOK
<1>34. CASE ConfirmTimesOut
  <2>1. WorkerType'
    BY <1>34 DEF TypeOK, WorkerType, ConfirmTimesOut, WorkerOnly, Steps, Outcomes
  <2>2. HistoryType'
    BY <1>34 DEF TypeOK, HistoryType, ConfirmTimesOut, WorkerOnly
  <2>3. /\ EntryType' /\ CoordinatorType' /\ ServeType' /\ GatewayType'
        /\ (wkind \in {"run", "rollback"} => running \in Requests)'
    BY <1>34 DEF TypeOK, EntryType, CoordinatorType, ServeType, GatewayType, ConfirmTimesOut,
       WorkerOnly, entryVars, coordVars, gatewayVars, workerVars
  <2> QED
    BY <2>1, <2>2, <2>3 DEF TypeOK
<1>35. CASE Fails
  BY <1>35 DEF TypeOK, EntryType, CoordinatorType, ServeType, WorkerType, GatewayType,
     HistoryType, Fails, WorkerOnly, entryVars, coordVars, workerVars, gatewayVars, historyVars,
     Steps, States, Outcomes
<1>36. CASE CommitFails
  BY <1>36 DEF TypeOK, EntryType, CoordinatorType, ServeType, WorkerType, GatewayType,
     HistoryType, CommitFails, Fault, entryVars, coordVars, workerVars, gatewayVars, historyVars,
     Steps, States, Outcomes
<1>37. CASE WorkerDies
  BY <1>37, <1>1 DEF TypeOK, EntryType, CoordinatorType, ServeType, WorkerType, GatewayType,
     HistoryType, WorkerDies, Die, Fault, entryVars, coordVars, workerVars, gatewayVars, historyVars,
     Steps, States, Outcomes
<1>38. CASE CoordinatorDies
  <2>1. EntryType'
    BY <1>38, NoPlanType DEF TypeOK, EntryType, CoordinatorDies, Fault, NoWorker, States, Outcomes
  <2>2. CoordinatorType'
    BY <1>38, NoPlanType DEF TypeOK, CoordinatorType, CoordinatorDies, Fault, NoWorker
  <2>3. ServeType'
    BY <1>38, NoPlanType DEF TypeOK, ServeType, CoordinatorDies, Fault, NoWorker, ServeApp, Status
  <2>4. WorkerType'
    BY <1>38, NoPlanType DEF TypeOK, WorkerType, CoordinatorDies, Fault, NoWorker, Steps, Outcomes
  <2>5. GatewayType'
    BY <1>38 DEF TypeOK, GatewayType, gatewayVars, CoordinatorDies
  <2>6. HistoryType'
    BY <1>38 DEF TypeOK, CoordinatorType, HistoryType, CoordinatorDies, Fault
  <2>7. (wkind \in {"run", "rollback"} => running \in Requests)'
    BY <1>38, NoPlanType DEF TypeOK, CoordinatorType, WorkerType, CoordinatorDies, Fault,
       NoWorker, coordVars, workerVars
  <2> QED
    BY <2>1, <2>2, <2>3, <2>4, <2>5, <2>6, <2>7 DEF TypeOK
<1>39. ASSUME NEW a \in App, AppStarts(a)
      PROVE  TypeInv'
  <2>1. ServeType'
    BY <1>39 DEF TypeOK, ServeType, AppStarts, Becomes, NoFault, ServeApp, Status
  <2>2. HistoryType'
    BY <1>39 DEF TypeOK, HistoryType, AppStarts, Becomes, NoFault
  <2>3. /\ EntryType' /\ CoordinatorType' /\ WorkerType' /\ GatewayType'
        /\ (wkind \in {"run", "rollback"} => running \in Requests)'
    BY <1>39 DEF TypeOK, EntryType, CoordinatorType, WorkerType, GatewayType, AppStarts, Becomes,
       NoFault, entryVars, coordVars, workerVars, gatewayVars
  <2> QED
    BY <2>1, <2>2, <2>3 DEF TypeOK
<1>40. ASSUME NEW a \in App, AppGone(a)
      PROVE  TypeInv'
  <2>1. ServeType'
    BY <1>40 DEF TypeOK, ServeType, AppGone, Becomes, NoFault, ServeApp, Status
  <2>2. HistoryType'
    BY <1>40 DEF TypeOK, HistoryType, AppGone, Becomes, NoFault
  <2>3. /\ EntryType' /\ CoordinatorType' /\ WorkerType' /\ GatewayType'
        /\ (wkind \in {"run", "rollback"} => running \in Requests)'
    BY <1>40 DEF TypeOK, EntryType, CoordinatorType, WorkerType, GatewayType, AppGone, Becomes,
       NoFault, entryVars, coordVars, workerVars, gatewayVars
  <2> QED
    BY <2>1, <2>2, <2>3 DEF TypeOK
<1>41. ASSUME NEW a \in App, AppFails(a)
      PROVE  TypeInv'
  <2>1. ServeType'
    BY <1>41 DEF TypeOK, ServeType, AppFails, Becomes, NoFault, ServeApp, Status
  <2>2. HistoryType'
    BY <1>41 DEF TypeOK, HistoryType, AppFails, Becomes, NoFault
  <2>3. /\ EntryType' /\ CoordinatorType' /\ WorkerType' /\ GatewayType'
        /\ (wkind \in {"run", "rollback"} => running \in Requests)'
    BY <1>41 DEF TypeOK, EntryType, CoordinatorType, WorkerType, GatewayType, AppFails, Becomes,
       NoFault, entryVars, coordVars, workerVars, gatewayVars
  <2> QED
    BY <2>1, <2>2, <2>3 DEF TypeOK
<1>42. ASSUME NEW a \in App, AppSickens(a)
      PROVE  TypeInv'
  <2>1. ServeType'
    BY <1>42 DEF TypeOK, ServeType, AppSickens, Becomes, Fault, ServeApp, Status
  <2>2. HistoryType'
    BY <1>42 DEF TypeOK, HistoryType, AppSickens, Becomes, Fault
  <2>3. /\ EntryType' /\ CoordinatorType' /\ WorkerType' /\ GatewayType'
        /\ (wkind \in {"run", "rollback"} => running \in Requests)'
    BY <1>42 DEF TypeOK, EntryType, CoordinatorType, WorkerType, GatewayType, AppSickens, Becomes,
       Fault, entryVars, coordVars, workerVars, gatewayVars
  <2> QED
    BY <2>1, <2>2, <2>3 DEF TypeOK
<1>43. ASSUME NEW g \in Replicas, ReplicaFollows(g)
      PROVE  TypeInv'
  BY <1>43 DEF TypeOK, EntryType, CoordinatorType, ServeType, WorkerType, GatewayType,
     HistoryType, ReplicaFollows, entryVars, coordVars, workerVars, gatewayVars, historyVars, Steps,
     States, Outcomes
<1>44. CASE UNCHANGED vars
  BY <1>44 DEF TypeOK, EntryType, CoordinatorType, ServeType, WorkerType, GatewayType,
     HistoryType, vars, entryVars, coordVars, workerVars, gatewayVars, historyVars
<1> QED
  BY <1>2, <1>3, <1>4, <1>5, <1>6, <1>7, <1>8, <1>9, <1>10, <1>11, <1>12, <1>13,
     <1>14, <1>15, <1>16, <1>17, <1>18, <1>19, <1>20, <1>21, <1>22, <1>23, <1>24,
     <1>25, <1>26, <1>27, <1>28, <1>29, <1>30, <1>31, <1>32, <1>33, <1>34, <1>35,
     <1>36, <1>37, <1>38, <1>39, <1>40, <1>41, <1>42, <1>43, <1>44
  DEF Next, Users, Coordinator, Worker, Trouble, Serve, Gateway

-----------------------------------------------------------------------------
(* The inductive invariant behind CancelExcludesCommit.                      *)

\* The request's version has landed, or its write is in flight.
Writes(r) == r \in landed \/ lock = r

Started == {"applying", "switching", "committing", "retiring", "rolling_back", "lost"}
BeforeSwitch ==
  {"diff", "sources", "leftovers", "downs", "downs_wait", "stop", "deploy", "deploy_wait",
   "ups", "ups_wait", "switch"}

\* A request that writes was not cancelled, and can no longer be.
WriterPastCancel ==
  \A r \in Requests : Writes(r) =>
    ~cancelled[r] /\ rstate[r] \in {"committing", "retiring", "rolling_back", "lost"}

\* A worker, alive or dead, that has yet to switch has written nothing.
SwitchBeforeWrite ==
  /\ \A c \in late : c.op = "switch" => ~Writes(c.r)
  /\ wkind = "run" /\ wk \in BeforeSwitch => ~Writes(running)

\* A worker makes one call at a time, and a call is late only once it is dead.
OneCall ==
  /\ \A c, d \in late : c.r = d.r => c = d
  /\ \A c \in late : wkind = "run" /\ running = c.r => wk = "dead"

\* Calls and workers belong to requests that were taken off the queue.
OnlyStarted ==
  /\ \A c \in late : rstate[c.r] \in Started
  /\ wkind \in {"run", "rollback"} => running \in Requests /\ rstate[running] \in Started

\* A queued request is in the queue once, and undecided, as a new one is.
QueueOnce ==
  /\ \A r \in Requests : rstate[r] = "new" => outcome[r] = "none"
  /\ \A i \in 1..Len(queue) : rstate[queue[i]] = "queued" /\ outcome[queue[i]] = "none"
  /\ \A i, j \in 1..Len(queue) : queue[i] = queue[j] => i = j

\* What ends as cancelled was cancelled while it ran, or never ran.
CancelledHow ==
  /\ wkind = "run" /\ wresult = "cancelled" => cancelled[running]
  /\ \A r \in Requests : outcome[r] = "cancelled" => cancelled[r] \/ rstate[r] = "queued"

CommitInv ==
  /\ WriterPastCancel /\ SwitchBeforeWrite /\ OneCall
  /\ OnlyStarted /\ QueueOnce /\ CancelledHow

\* CommitInv does not see a step that leaves requests, queue, calls and lock alone and
\* takes no worker back to before its switch.
LEMMA QuietStep ==
  ASSUME CommitInv,
         UNCHANGED <<rstate, cancelled, outcome, queue, running, lock, wkind, late, landed>>,
         wk' \in BeforeSwitch => wk \in BeforeSwitch,
         wk = "dead" => wk' = "dead",
         wresult' = "cancelled" => wresult = "cancelled"
  PROVE  CommitInv'
BY DEF CommitInv, WriterPastCancel, SwitchBeforeWrite, OneCall, OnlyStarted, QueueOnce,
       CancelledHow, Writes

\* What a call in flight says about its request, whoever waits for the answer.
LEMMA CallFacts ==
  ASSUME TypeInv, CommitInv, NEW c \in InFlight
  PROVE  /\ c \in CallType /\ rstate[c.r] \in Started
         /\ c.op = "switch" => ~Writes(c.r)
         /\ c \notin late => wkind = "run" /\ c.r = running /\ wk = c.op
         /\ \A d \in late : d.r = c.r => d = c
<1>1. c \in CallType
  BY InFlightType DEF TypeInv
<1>2. CASE c \in late
  BY <1>1, <1>2 DEF CommitInv, SwitchBeforeWrite, OneCall, OnlyStarted
<1>3. CASE c \notin late
  <2>1. wkind = "run" /\ wk \in {"switch", "commit", "rb_mark"} /\ c.r = running /\ wk = c.op
    BY <1>3 DEF InFlight, Call
  <2> QED
    BY <1>1, <1>3, <2>1
       DEF CommitInv, SwitchBeforeWrite, OneCall, OnlyStarted, BeforeSwitch
<1> QED
  BY <1>2, <1>3

\* A queue without its i-th request holds the others, in other places.
LEMMA WithoutFacts ==
  ASSUME NEW q \in Seq(Requests), NEW i \in 1..Len(q)
  PROVE  /\ Len(Without(q, i)) = Len(q) - 1
         /\ \A j \in 1..Len(Without(q, i)) :
              \E k \in 1..Len(q) : /\ k = (IF j < i THEN j ELSE j + 1)
                                   /\ Without(q, i)[j] = q[k] /\ k # i
<1>1. Len(Without(q, i)) = Len(q) - 1
  BY DEF Without
<1>2. ASSUME NEW j \in 1..Len(Without(q, i))
      PROVE  Without(q, i)[j] = (IF j < i THEN q[j] ELSE q[j + 1])
  BY <1>1 DEF Without
<1> QED
  BY <1>1, <1>2

\* Every step keeps the invariant.
LEMMA CommitStep == TypeInv /\ CommitInv /\ [Next]_vars => CommitInv'
<1> SUFFICES ASSUME TypeInv, CommitInv, [Next]_vars
             PROVE  CommitInv'
  OBVIOUS
<1>1. None \notin Requests
  BY BoundAssumption DEF None, Requests
<1>2. CASE DrainEnds
  BY <1>2, QuietStep DEF DrainEnds, workerVars, historyVars, BeforeSwitch, entryVars, coordVars
<1>3. CASE StartRecovery
  BY <1>3, QuietStep DEF StartRecovery, workerVars, historyVars, BeforeSwitch, entryVars,
     coordVars
<1>4. CASE ReadVersion
  BY <1>4, QuietStep DEF ReadVersion, workerVars, historyVars, BeforeSwitch, entryVars, coordVars
<1>5. CASE UseVersion
  BY <1>5, QuietStep DEF UseVersion, workerVars, historyVars, BeforeSwitch, entryVars, coordVars
<1>6. CASE ComputeDiff
  BY <1>6, QuietStep DEF ComputeDiff, WorkerOnly, BeforeSwitch, entryVars, coordVars, historyVars
<1>7. CASE SourcesResolved
  BY <1>7, QuietStep DEF SourcesResolved, WorkerOnly, BeforeSwitch, entryVars, coordVars,
     historyVars
<1>8. CASE DeletePoll
  BY <1>8, QuietStep DEF DeletePoll, WorkerOnly, AfterDelete, BeforeSwitch, entryVars,
     coordVars, historyVars
<1>9. CASE SubmitRescales
  BY <1>9, QuietStep DEF SubmitRescales, WorkerOnly, AfterSubmit, BeforeSwitch, entryVars,
     coordVars, historyVars
<1>10. CASE SubmitDeploys
  BY <1>10, QuietStep DEF SubmitDeploys, WorkerOnly, BeforeSwitch, entryVars, coordVars,
     historyVars
<1>11. CASE Up
  BY <1>11, QuietStep DEF Up, WorkerOnly, AfterWait, BeforeSwitch, entryVars, coordVars,
     historyVars
<1>12. ASSUME NEW a \in App, Retry(a)
      PROVE  CommitInv'
  BY <1>12, QuietStep DEF Retry, WorkerOnly, BeforeSwitch, entryVars, coordVars, historyVars
<1>13. CASE Confirmed
  BY <1>13, QuietStep DEF Confirmed, WorkerOnly, BeforeSwitch, entryVars, coordVars, historyVars
<1>14. CASE ConfirmTimesOut
  BY <1>14, QuietStep DEF ConfirmTimesOut, WorkerOnly, BeforeSwitch, entryVars, coordVars,
     historyVars
<1>15. CASE Fails
  BY <1>15, QuietStep DEF Fails, WorkerOnly, Polling, Polls, BeforeSwitch, entryVars,
     coordVars, historyVars
<1>16. CASE RollbackDiff
  BY <1>16, QuietStep DEF RollbackDiff, BeforeSwitch, entryVars, coordVars, historyVars
<1>17. CASE RestoreScaling
  BY <1>17, QuietStep DEF RestoreScaling, BeforeSwitch, entryVars, coordVars, historyVars
<1>18. CASE ResetRouting
  BY <1>18, QuietStep DEF ResetRouting, BeforeSwitch, entryVars, coordVars, historyVars
<1>19. ASSUME NEW a \in App, AppStarts(a)
      PROVE  CommitInv'
  BY <1>19, QuietStep DEF AppStarts, Becomes, workerVars, BeforeSwitch, entryVars, coordVars,
     historyVars
<1>20. ASSUME NEW a \in App, AppGone(a)
      PROVE  CommitInv'
  BY <1>20, QuietStep DEF AppGone, Becomes, workerVars, BeforeSwitch, entryVars, coordVars,
     historyVars
<1>21. ASSUME NEW a \in App, AppFails(a)
      PROVE  CommitInv'
  BY <1>21, QuietStep DEF AppFails, Becomes, workerVars, BeforeSwitch, entryVars, coordVars,
     historyVars
<1>22. ASSUME NEW a \in App, AppSickens(a)
      PROVE  CommitInv'
  BY <1>22, QuietStep DEF AppSickens, Becomes, workerVars, BeforeSwitch, entryVars, coordVars,
     historyVars
<1>23. ASSUME NEW g \in Replicas, ReplicaFollows(g)
      PROVE  CommitInv'
  BY <1>23, QuietStep DEF ReplicaFollows, workerVars, historyVars, BeforeSwitch, entryVars,
     coordVars
<1>24. ASSUME NEW r \in Requests, NEW request \in Inputs, Submit(r, request)
      PROVE  CommitInv'
  BY <1>1, <1>24 DEF CommitInv, WriterPastCancel, SwitchBeforeWrite, OneCall, OnlyStarted,
     QueueOnce, CancelledHow, Writes, Submit, entryVars, coordVars, workerVars, historyVars,
     Started, BeforeSwitch, TypeInv, TypeOK, EntryType, CoordinatorType, WorkerType, CallType,
     InFlight, Call
<1>25. ASSUME NEW r \in Requests, CancelQueued(r)
      PROVE  CommitInv'
  <2>1. PICK i \in 1..Len(queue) : queue[i] = r /\ queue' = Without(queue, i)
    BY <1>25 DEF CancelQueued
  <2>2. Len(queue') = Len(queue) - 1 /\
        \A j \in 1..Len(queue') :
          \E k \in 1..Len(queue) : k = (IF j < i THEN j ELSE j + 1) /\ queue'[j] = queue[k] /\ k # i
    <3>1. queue \in Seq(Requests)
      BY DEF TypeInv, TypeOK, CoordinatorType
    <3> QED
      BY <2>1, <3>1, WithoutFacts
  <2>3. QueueOnce'
    <3>1. \A j \in 1..Len(queue') : queue'[j] \in Requests /\ queue'[j] # r
      BY <2>1, <2>2, SMTT(30) DEF CommitInv, QueueOnce, TypeInv, TypeOK, CoordinatorType
    <3>2. \A j \in 1..Len(queue') : rstate'[queue'[j]] = "queued" /\ outcome'[queue'[j]] = "none"
      BY <1>25, <2>2, <3>1 DEF CancelQueued, CommitInv, QueueOnce, TypeInv, TypeOK, EntryType
    <3>3. \A j, k \in 1..Len(queue') : queue'[j] = queue'[k] => j = k
      BY <2>1, <2>2, SMTT(30) DEF CommitInv, QueueOnce, TypeInv, TypeOK, CoordinatorType
    <3>4. \A q \in Requests : rstate'[q] = "new" => outcome'[q] = "none"
      BY <1>25 DEF CancelQueued, CommitInv, QueueOnce, TypeInv, TypeOK, EntryType
    <3> QED
      BY <3>2, <3>3, <3>4 DEF QueueOnce
  <2> QED
    BY <1>25, <2>3
       DEF CancelQueued, CommitInv, WriterPastCancel, SwitchBeforeWrite, OneCall, OnlyStarted,
           CancelledHow, Writes, workerVars, historyVars, TypeInv, TypeOK, EntryType
<1>26. ASSUME NEW r \in Requests, CancelRunning(r)
      PROVE  CommitInv'
  BY <1>1, <1>26 DEF CommitInv, WriterPastCancel, SwitchBeforeWrite, OneCall, OnlyStarted,
     QueueOnce, CancelledHow, Writes, CancelRunning, entryVars, coordVars, workerVars,
     historyVars, Started, BeforeSwitch, TypeInv, TypeOK, EntryType, CoordinatorType, WorkerType,
     CallType, InFlight, Call
<1>27. CASE Pick
  <2> DEFINE r == Head(queue)
  <2>1. /\ r = queue[1] /\ 1 \in 1..Len(queue) /\ r \in Requests
        /\ Len(queue') = Len(queue) - 1
        /\ \A i \in 1..Len(queue') : queue'[i] = queue[i + 1] /\ i + 1 \in 1..Len(queue)
    BY <1>27 DEF Pick, TypeInv, TypeOK, CoordinatorType
  <2>2. rstate[r] = "queued" /\ outcome[r] = "none"
    BY <2>1 DEF CommitInv, QueueOnce
  <2>3. ~Writes(r) /\ \A c \in late : c.r # r
    BY <2>1, <2>2 DEF CommitInv, WriterPastCancel, OnlyStarted, Started
  <2> HIDE DEF r
  <2>4. /\ running' = r /\ wkind' = "run" /\ wk' = "diff" /\ wresult' = "none"
        /\ rstate' = [rstate EXCEPT ![r] = "applying"]
        /\ UNCHANGED <<cancelled, outcome, lock, late, landed>>
    BY <1>27 DEF Pick, NewWorker, historyVars, r
  <2>5. ASSUME NEW i \in 1..Len(queue')
        PROVE  queue'[i] \in Requests /\ queue'[i] # r
    <3>1. i \in Nat /\ i + 1 # 1 /\ i + 1 \in 1..Len(queue) /\ queue'[i] = queue[i + 1]
      BY <2>1, <2>5
    <3>2. queue[i + 1] # queue[1]
      BY <2>1, <3>1 DEF CommitInv, QueueOnce
    <3> QED
      BY <2>1, <3>1, <3>2 DEF TypeInv, TypeOK, CoordinatorType
  <2>6. QueueOnce'
    <3>1. \A i, j \in 1..Len(queue') : queue'[i] = queue'[j] => i = j
      <4> SUFFICES ASSUME NEW i \in 1..Len(queue'), NEW j \in 1..Len(queue'),
                          queue'[i] = queue'[j]
                   PROVE  i = j
        OBVIOUS
      <4>1. queue[i + 1] = queue[j + 1] /\ i + 1 \in 1..Len(queue) /\ j + 1 \in 1..Len(queue)
        BY <2>1
      <4>2. i + 1 = j + 1
        BY <4>1 DEF CommitInv, QueueOnce
      <4>3. i \in Nat /\ j \in Nat
        BY <2>1 DEF TypeInv, TypeOK, CoordinatorType
      <4> QED
        BY <4>2, <4>3
    <3>2. \A i \in 1..Len(queue') : rstate'[queue'[i]] = "queued" /\ outcome'[queue'[i]] = "none"
      BY <2>1, <2>4, <2>5 DEF CommitInv, QueueOnce, TypeInv, TypeOK, EntryType
    <3>3. \A q \in Requests : rstate'[q] = "new" => outcome'[q] = "none"
      BY <2>1, <2>4 DEF CommitInv, QueueOnce, TypeInv, TypeOK, EntryType
    <3> QED
      BY <3>1, <3>2, <3>3 DEF QueueOnce
  <2>7. WriterPastCancel' /\ SwitchBeforeWrite'
    BY <2>1, <2>3, <2>4
       DEF CommitInv, WriterPastCancel, SwitchBeforeWrite, Writes, TypeInv, TypeOK, EntryType,
           WorkerType, CallType
  <2>8. OneCall' /\ OnlyStarted' /\ CancelledHow'
    BY <2>1, <2>2, <2>3, <2>4
       DEF CommitInv, OneCall, OnlyStarted, CancelledHow, Started, TypeInv, TypeOK, EntryType,
           WorkerType, CallType
  <2> QED
    BY <2>6, <2>7, <2>8 DEF CommitInv
<1>28. CASE RunEnds
  BY <1>1, <1>28 DEF CommitInv, WriterPastCancel, SwitchBeforeWrite, OneCall, OnlyStarted,
     QueueOnce, CancelledHow, Writes, RunEnds, Ends, NoWorker, entryVars, coordVars, workerVars,
     historyVars, Started, BeforeSwitch, TypeInv, TypeOK, EntryType, CoordinatorType, WorkerType,
     CallType, InFlight, Call
<1>29. CASE DeathSeen
  BY <1>1, <1>29 DEF CommitInv, WriterPastCancel, SwitchBeforeWrite, OneCall, OnlyStarted,
     QueueOnce, CancelledHow, Writes, DeathSeen, NewWorker, entryVars, coordVars, workerVars,
     historyVars, Started, BeforeSwitch, TypeInv, TypeOK, EntryType, CoordinatorType, WorkerType,
     CallType, InFlight, Call
<1>30. CASE RollbackEnds
  BY <1>1, <1>30 DEF CommitInv, WriterPastCancel, SwitchBeforeWrite, OneCall, OnlyStarted,
     QueueOnce, CancelledHow, Writes, RollbackEnds, Ends, NoWorker, entryVars, coordVars,
     workerVars, historyVars, Started, BeforeSwitch, TypeInv, TypeOK, EntryType, CoordinatorType,
     WorkerType, CallType, InFlight, Call
<1>31. CASE Recover
  BY <1>1, <1>31 DEF CommitInv, WriterPastCancel, SwitchBeforeWrite, OneCall, OnlyStarted,
     QueueOnce, CancelledHow, Writes, Recover, NewWorker, entryVars, coordVars, workerVars,
     historyVars, Started, BeforeSwitch, TypeInv, TypeOK, EntryType, CoordinatorType, WorkerType,
     CallType, InFlight, Call
<1>32. CASE RecoveryEnds
  BY <1>1, <1>32 DEF CommitInv, WriterPastCancel, SwitchBeforeWrite, OneCall, OnlyStarted,
     QueueOnce, CancelledHow, Writes, RecoveryEnds, NoWorker, entryVars, coordVars, workerVars,
     historyVars, Started, BeforeSwitch, TypeInv, TypeOK, EntryType, CoordinatorType, WorkerType,
     CallType, InFlight, Call
<1>33. ASSUME NEW c \in InFlight, Switch(c)
      PROVE  CommitInv'
  BY <1>1, <1>33, CallFacts DEF CommitInv, WriterPastCancel, SwitchBeforeWrite, OneCall,
     OnlyStarted, QueueOnce, CancelledHow, Writes, Switch, Answer, Accepts, entryVars, coordVars,
     workerVars, historyVars, Started, BeforeSwitch, TypeInv, TypeOK, EntryType, CoordinatorType,
     WorkerType, CallType, InFlight, Call
<1>34. ASSUME NEW c \in InFlight, CommitCancelled(c)
      PROVE  CommitInv'
  BY <1>1, <1>34, CallFacts DEF CommitInv, WriterPastCancel, SwitchBeforeWrite, OneCall,
     OnlyStarted, QueueOnce, CancelledHow, Writes, CommitCancelled, Answer, Accepts, entryVars,
     coordVars, workerVars, historyVars, Started, BeforeSwitch, TypeInv, TypeOK, EntryType,
     CoordinatorType, WorkerType, CallType, InFlight, Call
<1>35. ASSUME NEW c \in InFlight, CommitStarts(c)
      PROVE  CommitInv'
  BY <1>1, <1>35, CallFacts DEF CommitInv, WriterPastCancel, SwitchBeforeWrite, OneCall,
     OnlyStarted, QueueOnce, CancelledHow, Writes, CommitStarts, Answer, Accepts, entryVars,
     coordVars, workerVars, historyVars, Started, BeforeSwitch, TypeInv, TypeOK, EntryType,
     CoordinatorType, WorkerType, CallType, InFlight, Call
<1>36. ASSUME NEW c \in InFlight, RollingBack(c)
      PROVE  CommitInv'
  <2>1. c.r \in Requests /\ rstate[c.r] \in Started
    BY <1>36, CallFacts DEF CallType
  <2>2. rstate' \in {rstate, [rstate EXCEPT ![c.r] = "rolling_back"]}
    BY <1>36 DEF RollingBack
  <2>3. UNCHANGED <<cancelled, outcome, queue, running, lock, wkind, wresult, landed>>
    BY <1>36 DEF RollingBack, coordVars, historyVars
  <2>4. QueueOnce'
    <3>1. \A i \in 1..Len(queue) : queue[i] \in Requests /\ queue[i] # c.r
      BY <2>1 DEF CommitInv, QueueOnce, Started, TypeInv, TypeOK, CoordinatorType
    <3> QED
      BY <2>1, <2>2, <2>3, <3>1
         DEF CommitInv, QueueOnce, Started, TypeInv, TypeOK, EntryType
  <2>5. WriterPastCancel' /\ CancelledHow'
    BY <2>1, <2>2, <2>3
       DEF CommitInv, WriterPastCancel, CancelledHow, Writes, Started, TypeInv, TypeOK, EntryType
  <2>6. \/ wk' = wk /\ late' = late \ {c}
        \/ wk' = "rb_reset" /\ late' = late /\ c \notin late
    BY <1>36 DEF RollingBack, Answer
  <2>7. OneCall' /\ SwitchBeforeWrite'
    BY <1>36, <2>3, <2>6, CallFacts DEF CommitInv, OneCall, SwitchBeforeWrite, Writes,
       BeforeSwitch
  <2>8. OnlyStarted'
    BY <2>1, <2>2, <2>3, <2>6
       DEF CommitInv, OnlyStarted, Started, TypeInv, TypeOK, EntryType, WorkerType, CallType
  <2> QED
    BY <2>4, <2>5, <2>7, <2>8 DEF CommitInv
<1>37. ASSUME NEW c \in InFlight, Refuse(c)
      PROVE  CommitInv'
  BY <1>1, <1>37, CallFacts DEF CommitInv, WriterPastCancel, SwitchBeforeWrite, OneCall,
     OnlyStarted, QueueOnce, CancelledHow, Writes, Refuse, entryVars, coordVars, workerVars,
     historyVars, Started, BeforeSwitch, TypeInv, TypeOK, EntryType, CoordinatorType, WorkerType,
     CallType, InFlight, Call
<1>38. CASE CommitLands
  BY <1>1, <1>38 DEF CommitInv, WriterPastCancel, SwitchBeforeWrite, OneCall, OnlyStarted,
     QueueOnce, CancelledHow, Writes, CommitLands, entryVars, coordVars, workerVars, historyVars,
     Started, BeforeSwitch, TypeInv, TypeOK, EntryType, CoordinatorType, WorkerType, CallType,
     InFlight, Call
<1>39. CASE CommitFails
  BY <1>1, <1>39 DEF CommitInv, WriterPastCancel, SwitchBeforeWrite, OneCall, OnlyStarted,
     QueueOnce, CancelledHow, Writes, CommitFails, entryVars, coordVars, workerVars, historyVars,
     Started, BeforeSwitch, TypeInv, TypeOK, EntryType, CoordinatorType, WorkerType, CallType,
     InFlight, Call
<1>40. CASE SeesCancel
  BY <1>1, <1>40 DEF CommitInv, WriterPastCancel, SwitchBeforeWrite, OneCall, OnlyStarted,
     QueueOnce, CancelledHow, Writes, SeesCancel, Polling, Polls, entryVars, coordVars,
     workerVars, historyVars, Started, BeforeSwitch, TypeInv, TypeOK, EntryType, CoordinatorType,
     WorkerType, CallType, InFlight, Call
<1>41. ASSUME NEW r \in Requests, KillUnlessSeen(r)
      PROVE  CommitInv'
  BY <1>1, <1>41 DEF CommitInv, WriterPastCancel, SwitchBeforeWrite, OneCall, OnlyStarted,
     QueueOnce, CancelledHow, Writes, KillUnlessSeen, Die, entryVars, coordVars, workerVars,
     historyVars, Started, BeforeSwitch, TypeInv, TypeOK, EntryType, CoordinatorType, WorkerType,
     CallType, InFlight, Call
<1>42. CASE WorkerDies
  BY <1>1, <1>42 DEF CommitInv, WriterPastCancel, SwitchBeforeWrite, OneCall, OnlyStarted,
     QueueOnce, CancelledHow, Writes, WorkerDies, Die, entryVars, coordVars, workerVars,
     historyVars, Started, BeforeSwitch, TypeInv, TypeOK, EntryType, CoordinatorType, WorkerType,
     CallType, InFlight, Call
<1>43. CASE CoordinatorDies
  BY <1>1, <1>43 DEF CommitInv, WriterPastCancel, SwitchBeforeWrite, OneCall, OnlyStarted,
     QueueOnce, CancelledHow, Writes, CoordinatorDies, NoWorker, entryVars, coordVars, workerVars,
     historyVars, Started, BeforeSwitch, TypeInv, TypeOK, EntryType, CoordinatorType, WorkerType,
     CallType, InFlight, Call
<1>44. CASE UNCHANGED vars
  BY <1>44, QuietStep DEF vars, entryVars, coordVars, workerVars, historyVars
<1> QED
  BY <1>2, <1>3, <1>4, <1>5, <1>6, <1>7, <1>8, <1>9, <1>10, <1>11, <1>12, <1>13,
     <1>14, <1>15, <1>16, <1>17, <1>18, <1>19, <1>20, <1>21, <1>22, <1>23, <1>24,
     <1>25, <1>26, <1>27, <1>28, <1>29, <1>30, <1>31, <1>32, <1>33, <1>34, <1>35,
     <1>36, <1>37, <1>38, <1>39, <1>40, <1>41, <1>42, <1>43, <1>44
  DEF Next, Users, Coordinator, Worker, Trouble, Serve, Gateway

-----------------------------------------------------------------------------
\* The first state has its types.
LEMMA InitType == Init => TypeInv
<1> SUFFICES ASSUME Init
             PROVE  TypeInv
  OBVIOUS
<1>1. committed \in Version \cup {NoVersion}
  BY BoundAssumption DEF Init
<1>2. apps \in [App -> ServeApp]
  BY <1>1, InitAppsType DEF Init
<1>3. EntryType
  BY BareRequestType DEF Init, EntryType, States, Outcomes
<1>4. CoordinatorType
  BY <1>1 DEF Init, CoordinatorType
<1>5. WorkerType
  BY NoPlanType DEF Init, WorkerType, Steps, Outcomes
<1>6. GatewayType
  BY DEF Init, GatewayType
<1>7. HistoryType
  BY DEF Init, HistoryType
<1> QED
  BY <1>2, <1>3, <1>4, <1>5, <1>6, <1>7 DEF Init, TypeInv, TypeOK, ServeType

(* Every variable of the deploy path keeps its type, in particular the        *)
(* worker's diff, whatever it was computed from, and every call a dead worker *)
(* leaves behind names a request.                                             *)
THEOREM TypeCorrect == Spec => []TypeOK
<1>1. Init => TypeInv
  BY InitType
<1>2. TypeInv /\ [Next]_vars => TypeInv'
  BY TypeStep
<1>3. TypeInv => TypeOK
  BY DEF TypeInv
<1> QED
  BY <1>1, <1>2, <1>3, PTL DEF Spec

\* The first state has it.
LEMMA InitCommit == Init => CommitInv
BY BoundAssumption
   DEF Init, CommitInv, WriterPastCancel, SwitchBeforeWrite, OneCall, OnlyStarted,
       QueueOnce, CancelledHow, Writes, None, Requests

(* A cancel that cancel() accepted and a commit exclude each other, for any   *)
(* number of requests, whatever dies and whenever a dead worker's switch,     *)
(* commit or rolling_back call arrives.                                       *)
THEOREM CancelSafe == Spec => []CancelExcludesCommit
<1>1. Init => CommitInv
  BY InitCommit
<1>2. TypeInv /\ CommitInv /\ [Next]_vars => CommitInv'
  BY CommitStep
<1>3. CommitInv => CancelExcludesCommit
  BY DEF CommitInv, WriterPastCancel, CancelledHow, Writes, CancelExcludesCommit
<1>4. Spec => []TypeInv
  <2>1. TypeInv /\ [Next]_vars => TypeInv'
    BY TypeStep
  <2> QED
    BY InitType, <2>1, PTL DEF Spec
<1> QED
  BY <1>1, <1>2, <1>3, <1>4, PTL DEF Spec

-----------------------------------------------------------------------------
(* The inductive invariant behind QuietIsCommitted: first the workers, the calls and the lock.         *)

PreCommit == BeforeSwitch \cup {"confirm", "commit"}
Rolling == {"rb_confirm", "rb_diff", "rb_delete", "rb_scale"}
RollbackWork == {"rb_reset", "report", "raised", "dead"} \cup Rolling

\* Who has a worker, and what it was created for.
WorkerKinds ==
  /\ wk = "none" <=> wkind = "none"
  /\ wkind = "run" => recovery = "done" /\ drain = "run"
  /\ wkind = "rollback" => recovery = "done" /\ drain = "rollback" /\ wk \in RollbackWork
  /\ wkind = "recovery" => recovery = "rolling" /\ running = None /\ wk \in RollbackWork
  /\ running # None => wkind \in {"run", "rollback"}

\* A switch or a commit that can still arrive comes before its request's write, and is accepted only
\* from the worker that made it, or that died over it.
CallsFresh ==
  /\ \A c \in late : c.op \in {"switch", "commit"} =>
       /\ ~Writes(c.r)
       /\ Accepts(c) => /\ wkind = "run" /\ wk = "dead" /\ lock = None
                        /\ rstate[c.r] \notin {"committing", "retiring"}
  /\ wkind = "run" /\ wk \in PreCommit =>
       ~Writes(running) /\ rstate[running] \notin {"committing", "retiring"}

\* While a write is in flight a worker waits for it: the committing one, or one that rolls back or that
\* diffs the next request after the rollback died.
LockHeld ==
  /\ lock # None =>
       /\ recovery = "done"
       /\ wk \in {"none", "diff", "rb_mark", "rb_reset", "dead", "committing"}
       /\ wk \in {"none", "diff"} => abandoned
  /\ wk = "committing" => wkind = "run" /\ lock = running /\ writing = plan.models

ControlInv == WorkerKinds /\ CallsFresh /\ LockHeld


\* A worker that dies leaves its call behind.
LEMMA DeathKeeps ==
  ASSUME TypeInv, CommitInv, ControlInv,
         (wk' = wk /\ late' = late) \/ (wk' = "dead" /\ late' = InFlight /\ wk # "none"),
         UNCHANGED <<rstate, running, drain, recovery, lock, writing, wkind, landed, plan, abandoned>>
  PROVE  ControlInv'
<1>1. CASE wk' = wk /\ late' = late
  BY <1>1 DEF ControlInv, WorkerKinds, CallsFresh, LockHeld, Writes, Accepts
<1>2. CASE wk' = "dead" /\ late' = InFlight /\ wk # "none"
  <2>1. ASSUME NEW c \in InFlight, c.op \in {"switch", "commit"}
        PROVE  /\ ~Writes(c.r)
               /\ Accepts(c) => /\ wkind = "run" /\ lock = None
                                /\ rstate[c.r] \notin {"committing", "retiring"}
    BY <2>1 DEF InFlight, Call, ControlInv, CallsFresh, LockHeld, PreCommit, BeforeSwitch
  <2>2. CallsFresh'
    BY <1>2, <2>1 DEF CallsFresh, Accepts, Writes, PreCommit, BeforeSwitch
  <2> QED
    BY <1>2, <2>2 DEF ControlInv, WorkerKinds, LockHeld, RollbackWork
<1> QED
  BY <1>1, <1>2

\* Every step keeps it.
LEMMA ControlStep ==
  ASSUME TypeInv, CommitInv, ControlInv, [Next]_vars
  PROVE  ControlInv'
<1>1. /\ rstate \in [Requests -> States] /\ running \in Requests \cup {None} /\ None \notin Requests
      /\ late \subseteq CallType /\ wk \in Steps /\ lock \in Requests \cup {None}
      /\ wkind \in {"none", "run", "rollback", "recovery"}
      /\ wkind \in {"run", "rollback"} => running \in Requests
  BY BoundAssumption DEF TypeInv, TypeOK, EntryType, CoordinatorType, WorkerType, None, Requests
<1>2. CASE DrainEnds
  BY <1>2, <1>1 DEF DrainEnds, entryVars, coordVars, workerVars, gatewayVars, historyVars,
     ControlInv, WorkerKinds, CallsFresh, LockHeld, Writes, Accepts, PreCommit, BeforeSwitch,
     Rolling, RollbackWork, None
<1>3. CASE StartRecovery
  BY <1>3, <1>1 DEF StartRecovery, entryVars, coordVars, workerVars, gatewayVars, historyVars,
     ControlInv, WorkerKinds, CallsFresh, LockHeld, Writes, Accepts, PreCommit, BeforeSwitch,
     Rolling, RollbackWork, None
<1>4. CASE ReadVersion
  BY <1>4, <1>1 DEF ReadVersion, entryVars, coordVars, workerVars, gatewayVars, historyVars,
     ControlInv, WorkerKinds, CallsFresh, LockHeld, Writes, Accepts, PreCommit, BeforeSwitch,
     Rolling, RollbackWork, None
<1>5. CASE UseVersion
  BY <1>5, <1>1 DEF UseVersion, Route, entryVars, coordVars, workerVars, gatewayVars, historyVars,
     ControlInv, WorkerKinds, CallsFresh, LockHeld, Writes, Accepts, PreCommit, BeforeSwitch,
     Rolling, RollbackWork, None
<1>6. CASE ComputeDiff
  BY <1>6, <1>1 DEF ComputeDiff, WorkerOnly, Unwarned, Polling, Polls, entryVars, coordVars,
     workerVars, gatewayVars, historyVars, ControlInv, WorkerKinds, CallsFresh, LockHeld, Writes,
     Accepts, PreCommit, BeforeSwitch, Rolling, RollbackWork, None
<1>7. CASE SourcesResolved
  BY <1>7, <1>1 DEF SourcesResolved, WorkerOnly, entryVars, coordVars, workerVars, gatewayVars,
     historyVars, ControlInv, WorkerKinds, CallsFresh, LockHeld, Writes, Accepts, PreCommit,
     BeforeSwitch, Rolling, RollbackWork, None
<1>8. CASE DeletePoll
  BY <1>8, <1>1 DEF DeletePoll, WorkerOnly, AfterDelete, entryVars, coordVars, workerVars,
     gatewayVars, historyVars, ControlInv, WorkerKinds, CallsFresh, LockHeld, Writes, Accepts,
     PreCommit, BeforeSwitch, Rolling, RollbackWork, None
<1>9. CASE SubmitRescales
  BY <1>9, <1>1 DEF SubmitRescales, WorkerOnly, AfterSubmit, entryVars, coordVars, workerVars,
     gatewayVars, historyVars, ControlInv, WorkerKinds, CallsFresh, LockHeld, Writes, Accepts,
     PreCommit, BeforeSwitch, Rolling, RollbackWork, None
<1>10. CASE SubmitDeploys
  BY <1>10, <1>1 DEF SubmitDeploys, WorkerOnly, entryVars, coordVars, workerVars, gatewayVars,
     historyVars, ControlInv, WorkerKinds, CallsFresh, LockHeld, Writes, Accepts, PreCommit,
     BeforeSwitch, Rolling, RollbackWork, None
<1>11. CASE Up
  BY <1>11, <1>1 DEF Up, WorkerOnly, AfterWait, entryVars, coordVars, workerVars, gatewayVars,
     historyVars, ControlInv, WorkerKinds, CallsFresh, LockHeld, Writes, Accepts, PreCommit,
     BeforeSwitch, Rolling, RollbackWork, None
<1>12. ASSUME NEW a \in App, Retry(a)
      PROVE  ControlInv'
  BY <1>12, <1>1 DEF Retry, WorkerOnly, entryVars, coordVars, workerVars, gatewayVars, historyVars,
     ControlInv, WorkerKinds, CallsFresh, LockHeld, Writes, Accepts, PreCommit, BeforeSwitch,
     Rolling, RollbackWork, None
<1>13. CASE Confirmed
  BY <1>13, <1>1 DEF Confirmed, WorkerOnly, entryVars, coordVars, workerVars, gatewayVars,
     historyVars, ControlInv, WorkerKinds, CallsFresh, LockHeld, Writes, Accepts, PreCommit,
     BeforeSwitch, Rolling, RollbackWork, None
<1>14. CASE ConfirmTimesOut
  BY <1>14, <1>1 DEF ConfirmTimesOut, WorkerOnly, entryVars, coordVars, workerVars, gatewayVars,
     historyVars, ControlInv, WorkerKinds, CallsFresh, LockHeld, Writes, Accepts, PreCommit,
     BeforeSwitch, Rolling, RollbackWork, None
<1>15. CASE Fails
  BY <1>15, <1>1 DEF Fails, WorkerOnly, Polling, Polls, entryVars, coordVars, workerVars,
     gatewayVars, historyVars, ControlInv, WorkerKinds, CallsFresh, LockHeld, Writes, Accepts,
     PreCommit, BeforeSwitch, Rolling, RollbackWork, None
<1>16. CASE RollbackDiff
  BY <1>16, <1>1 DEF RollbackDiff, entryVars, coordVars, workerVars, gatewayVars, historyVars,
     ControlInv, WorkerKinds, CallsFresh, LockHeld, Writes, Accepts, PreCommit, BeforeSwitch,
     Rolling, RollbackWork, None
<1>17. CASE RestoreScaling
  BY <1>17, <1>1 DEF RestoreScaling, Fault, NoFault, entryVars, coordVars, workerVars, gatewayVars,
     historyVars, ControlInv, WorkerKinds, CallsFresh, LockHeld, Writes, Accepts, PreCommit,
     BeforeSwitch, Rolling, RollbackWork, None
<1>18. CASE ResetRouting
  BY <1>18, <1>1 DEF ResetRouting, Route, entryVars, coordVars, workerVars, gatewayVars,
     historyVars, ControlInv, WorkerKinds, CallsFresh, LockHeld, Writes, Accepts, PreCommit,
     BeforeSwitch, Rolling, RollbackWork, None
<1>19. ASSUME NEW a \in App, AppStarts(a)
      PROVE  ControlInv'
  BY <1>19, <1>1 DEF AppStarts, Becomes, entryVars, coordVars, workerVars, gatewayVars, historyVars,
     ControlInv, WorkerKinds, CallsFresh, LockHeld, Writes, Accepts, PreCommit, BeforeSwitch,
     Rolling, RollbackWork, None
<1>20. ASSUME NEW a \in App, AppGone(a)
      PROVE  ControlInv'
  BY <1>20, <1>1 DEF AppGone, Becomes, entryVars, coordVars, workerVars, gatewayVars, historyVars,
     ControlInv, WorkerKinds, CallsFresh, LockHeld, Writes, Accepts, PreCommit, BeforeSwitch,
     Rolling, RollbackWork, None
<1>21. ASSUME NEW a \in App, AppFails(a)
      PROVE  ControlInv'
  BY <1>21, <1>1 DEF AppFails, Becomes, entryVars, coordVars, workerVars, gatewayVars, historyVars,
     ControlInv, WorkerKinds, CallsFresh, LockHeld, Writes, Accepts, PreCommit, BeforeSwitch,
     Rolling, RollbackWork, None
<1>22. ASSUME NEW a \in App, AppSickens(a)
      PROVE  ControlInv'
  BY <1>22, <1>1 DEF AppSickens, Becomes, entryVars, coordVars, workerVars, gatewayVars,
     historyVars, ControlInv, WorkerKinds, CallsFresh, LockHeld, Writes, Accepts, PreCommit,
     BeforeSwitch, Rolling, RollbackWork, None
<1>23. ASSUME NEW g \in Replicas, ReplicaFollows(g)
      PROVE  ControlInv'
  BY <1>23, <1>1 DEF ReplicaFollows, entryVars, coordVars, workerVars, gatewayVars, historyVars,
     ControlInv, WorkerKinds, CallsFresh, LockHeld, Writes, Accepts, PreCommit, BeforeSwitch,
     Rolling, RollbackWork, None
<1>24. ASSUME NEW r \in Requests, CancelRunning(r)
      PROVE  ControlInv'
  BY <1>24, <1>1 DEF CancelRunning, entryVars, coordVars, workerVars, gatewayVars, historyVars,
     ControlInv, WorkerKinds, CallsFresh, LockHeld, Writes, Accepts, PreCommit, BeforeSwitch,
     Rolling, RollbackWork, None
<1>25. CASE SeesCancel
  BY <1>25, <1>1 DEF SeesCancel, Polling, Polls, entryVars, coordVars, workerVars, gatewayVars,
     historyVars, ControlInv, WorkerKinds, CallsFresh, LockHeld, Writes, Accepts, PreCommit,
     BeforeSwitch, Rolling, RollbackWork, None
<1>26. CASE UNCHANGED vars
  BY <1>26, <1>1 DEF vars, entryVars, coordVars, workerVars, gatewayVars, historyVars, ControlInv,
     WorkerKinds, CallsFresh, LockHeld, Writes, Accepts, PreCommit, BeforeSwitch, Rolling,
     RollbackWork, None
<1>27. ASSUME NEW r \in Requests, CancelQueued(r)
      PROVE  ControlInv'
  BY <1>27, <1>1 DEF CancelQueued, entryVars, coordVars, workerVars, gatewayVars, historyVars,
     ControlInv, WorkerKinds, CallsFresh, LockHeld, Writes, Accepts, PreCommit, BeforeSwitch,
     Rolling, RollbackWork, None
<1>28. CASE RunEnds
  BY <1>28, <1>1 DEF RunEnds, Ends, NoWorker, entryVars, coordVars, workerVars, gatewayVars,
     historyVars, ControlInv, WorkerKinds, CallsFresh, LockHeld, Writes, Accepts, PreCommit,
     BeforeSwitch, Rolling, RollbackWork, None
<1>29. CASE DeathSeen
  BY <1>29, <1>1 DEF DeathSeen, NewWorker, entryVars, coordVars, workerVars, gatewayVars,
     historyVars, ControlInv, WorkerKinds, CallsFresh, LockHeld, Writes, Accepts, PreCommit,
     BeforeSwitch, Rolling, RollbackWork, None
<1>30. CASE RollbackEnds
  <2>1. /\ wkind = "rollback" /\ wk \in {"report", "raised", "dead"} /\ running' = None
        /\ abandoned' = (abandoned \/ wk # "report") /\ drain' = "loop" /\ wkind' = "none" /\ wk' = "none"
        /\ UNCHANGED <<recovery, lock, writing, late, landed, rstate>>
    BY <1>30 DEF RollbackEnds, Ends, NoWorker
  <2>2. LockHeld'
    BY <2>1 DEF ControlInv, LockHeld
  <2>3. CallsFresh'
    BY <1>1, <2>1 DEF ControlInv, CallsFresh, Accepts, Writes, CallType
  <2> QED
    BY <2>1, <2>2, <2>3 DEF ControlInv, WorkerKinds
<1>31. CASE Recover
  BY <1>31, <1>1 DEF Recover, NewWorker, entryVars, coordVars, workerVars, gatewayVars, historyVars,
     ControlInv, WorkerKinds, CallsFresh, LockHeld, Writes, Accepts, PreCommit, BeforeSwitch,
     Rolling, RollbackWork, None
<1>32. CASE RecoveryEnds
  BY <1>32, <1>1 DEF RecoveryEnds, NoWorker, entryVars, coordVars, workerVars, gatewayVars,
     historyVars, ControlInv, WorkerKinds, CallsFresh, LockHeld, Writes, Accepts, PreCommit,
     BeforeSwitch, Rolling, RollbackWork, None
<1>33. CASE CommitLands
  <2>1. /\ lock # None /\ lock \in Requests /\ landed' = landed \cup {lock} /\ lock' = None
        /\ rstate' = [rstate EXCEPT ![lock] = "retiring"]
        /\ UNCHANGED <<running, drain, recovery, wkind, late, abandoned, plan>>
        /\ wk' = wk \/ (wk = "committing" /\ wk' = "retire")
        /\ wk' # "committing"
    BY <1>1, <1>33 DEF CommitLands
  <2>2. \A r \in Requests : Writes(r)' <=> Writes(r)
    BY <1>1, <2>1 DEF Writes
  <2>3. \A r \in Requests : ~Writes(r) => rstate'[r] = rstate[r]
    BY <1>1, <2>1 DEF Writes
  <2>4. CallsFresh'
    <3>1. ASSUME NEW c \in late, c.op \in {"switch", "commit"}
          PROVE  /\ ~Writes(c.r)'
                 /\ Accepts(c)' =>
                      wkind = "run" /\ wk = "dead" /\ wk' = wk /\ rstate'[c.r] \notin {"committing", "retiring"}
      BY <1>1, <2>1, <2>2, <2>3, <3>1 DEF ControlInv, CallsFresh, Accepts, CallType
    <3>2. wkind = "run" /\ wk' \in PreCommit => wk \in PreCommit /\ running \in Requests
      BY <1>1, <2>1 DEF PreCommit, BeforeSwitch
    <3> QED
      BY <2>1, <2>2, <2>3, <3>1, <3>2 DEF ControlInv, CallsFresh
  <2> QED
    BY <2>1, <2>4 DEF ControlInv, WorkerKinds, LockHeld, RollbackWork, Rolling
<1>34. CASE CommitFails
  <2>1. /\ lock # None /\ lock \in Requests /\ landed' \subseteq landed \cup {lock} /\ lock' = None
        /\ UNCHANGED <<running, drain, recovery, wkind, late, abandoned, plan, rstate>>
        /\ wk' = wk \/ (wk = "committing" /\ wk' = "rb_mark")
        /\ wk' # "committing"
    BY <1>1, <1>34 DEF CommitFails, entryVars
  <2>2. \A r \in Requests : Writes(r)' => Writes(r)
    BY <1>1, <2>1 DEF Writes
  <2>3. CallsFresh'
    <3>1. \A c \in late : c.r \in Requests
      BY <1>1 DEF CallType
    <3>2. wkind = "run" /\ wk' \in PreCommit => wk \in PreCommit /\ running \in Requests
      BY <1>1, <2>1 DEF PreCommit, BeforeSwitch
    <3> QED
      BY <2>1, <2>2, <3>1, <3>2 DEF ControlInv, CallsFresh, Accepts
  <2> QED
    BY <2>1, <2>3 DEF ControlInv, WorkerKinds, LockHeld, RollbackWork, Rolling
<1>35. CASE CoordinatorDies
  BY <1>35, <1>1 DEF CoordinatorDies, NoWorker, entryVars, coordVars, workerVars, gatewayVars,
     historyVars, ControlInv, WorkerKinds, CallsFresh, LockHeld, Writes, Accepts, PreCommit,
     BeforeSwitch, Rolling, RollbackWork, None
<1>36. ASSUME NEW r \in Requests, NEW request \in Inputs, Submit(r, request)
      PROVE  ControlInv'
  BY <1>36, <1>1 DEF Submit, entryVars, coordVars, workerVars, gatewayVars, historyVars, ControlInv,
     WorkerKinds, CallsFresh, LockHeld, Writes, Accepts, PreCommit, BeforeSwitch, Rolling,
     RollbackWork, None
<1>37. CASE Pick
  <2>0. PICK q : q = Head(queue)
    OBVIOUS
  <2>1. q = queue[1] /\ 1 \in 1..Len(queue) /\ q \in Requests
    BY <1>37, <2>0 DEF Pick, TypeInv, TypeOK, CoordinatorType
  <2>2. rstate[q] = "queued" /\ ~Writes(q) /\ \A c \in late : c.r # q
    BY <2>1 DEF CommitInv, QueueOnce, OnlyStarted, Started, WriterPastCancel
  <2>3. /\ running' = q /\ wk' = "diff" /\ wkind' = "run" /\ drain = "loop" /\ drain' = "run"
        /\ rstate' = [rstate EXCEPT ![q] = "applying"] /\ recovery = "done"
        /\ UNCHANGED <<recovery, lock, writing, late, landed, abandoned, plan>>
    BY <1>37, <2>0 DEF Pick, NewWorker, historyVars
  <2>4. wk = "none" /\ wkind = "none"
    BY <1>1, <2>3 DEF ControlInv, WorkerKinds
  <2>5. ~Writes(q)' /\ \A r : Writes(r)' <=> Writes(r)
    BY <2>2, <2>3 DEF Writes
  <2>6. CallsFresh'
    BY <1>1, <2>1, <2>2, <2>3, <2>5 DEF ControlInv, CallsFresh, Accepts
  <2> QED
    BY <1>1, <2>1, <2>3, <2>4, <2>6 DEF ControlInv, WorkerKinds, LockHeld
<1>38. ASSUME NEW c \in InFlight, Switch(c)
      PROVE  ControlInv'
  <2>1. /\ c \in CallType /\ c.r \in Requests
        /\ c \notin late => wkind = "run" /\ c.r = running /\ wk = c.op
        /\ \A d \in late : d.r = c.r => d = c
    BY CallFacts DEF CallType
  <2>2. /\ c.op = "switch" /\ running = c.r /\ rstate[c.r] # "rolling_back"
        /\ rstate' = [rstate EXCEPT ![c.r] = "switching"]
        /\ \/ c \in late /\ late' = late \ {c} /\ wk' = wk
           \/ (c \notin late /\ late' = late /\ wk' = "confirm")
        /\ UNCHANGED <<running, drain, recovery, lock, writing, wkind, landed, plan, abandoned>>
    BY <1>38 DEF Switch, Accepts, Answer, historyVars
  <2>3. wkind = "run" /\ (wk = "dead" \/ (wk = "switch" /\ wk' = "confirm")) /\ ~Writes(c.r)
    BY <2>1, <2>2, CallFacts DEF ControlInv, CallsFresh, Accepts
  <2>4. CallsFresh'
    BY <1>1, <2>1, <2>2, <2>3 DEF ControlInv, CallsFresh, Accepts, Writes, CallType, PreCommit, BeforeSwitch
  <2> QED
    BY <1>1, <2>1, <2>2, <2>3, <2>4 DEF ControlInv, WorkerKinds, LockHeld
<1>39. ASSUME NEW c \in InFlight, CommitCancelled(c)
      PROVE  ControlInv'
  <2>1. /\ c \in CallType /\ c.r \in Requests
        /\ c \notin late => wkind = "run" /\ c.r = running /\ wk = c.op
        /\ \A d \in late : d.r = c.r => d = c
    BY CallFacts DEF CallType
  <2>2. /\ c.op = "commit"
        /\ \/ c \in late /\ late' = late \ {c} /\ wk' = wk
           \/ (c \notin late /\ late' = late /\ wk' = "rb_mark")
        /\ UNCHANGED <<rstate, running, drain, recovery, lock, writing, wkind, landed, plan, abandoned>>
    BY <1>39 DEF CommitCancelled, Accepts, Answer, historyVars, entryVars, coordVars
  <2>4. CallsFresh'
    BY <1>1, <2>1, <2>2 DEF ControlInv, CallsFresh, Accepts, Writes, CallType, PreCommit, BeforeSwitch
  <2> QED
    BY <1>1, <2>1, <2>2, <2>4 DEF ControlInv, WorkerKinds, LockHeld
<1>40. ASSUME NEW c \in InFlight, CommitStarts(c)
      PROVE  ControlInv'
  <2>1. /\ c \in CallType /\ c.r \in Requests
        /\ c \notin late => wkind = "run" /\ c.r = running /\ wk = c.op
        /\ \A d \in late : d.r = c.r => d = c
    BY CallFacts DEF CallType
  <2>2. /\ c.op = "commit" /\ running = c.r /\ rstate[c.r] # "rolling_back"
        /\ rstate' = [rstate EXCEPT ![c.r] = "committing"] /\ lock' = c.r /\ writing' = c.models
        /\ \/ c \in late /\ late' = late \ {c} /\ wk' = wk
           \/ (c \notin late /\ late' = late /\ wk' = "committing")
        /\ UNCHANGED <<running, drain, recovery, wkind, landed, plan, abandoned>>
    BY <1>40 DEF CommitStarts, Accepts, Answer, historyVars
  <2>3. wkind = "run" /\ (wk' = "dead" \/ (wk' = "committing" /\ c.models = plan.models))
    BY <2>1, <2>2 DEF ControlInv, CallsFresh, Accepts, InFlight, Call
  <2>4. \A d \in late' : d \in late /\ d.r # c.r /\ (Writes(d.r)' => Writes(d.r)) /\ rstate'[d.r] = rstate[d.r]
    BY <1>1, <2>1, <2>2 DEF Writes, CallType
  <2>5. CallsFresh'
    BY <2>2, <2>3, <2>4 DEF ControlInv, CallsFresh, Accepts, PreCommit, BeforeSwitch
  <2> QED
    BY <1>1, <2>1, <2>2, <2>3, <2>5 DEF ControlInv, WorkerKinds, LockHeld
<1>41. ASSUME NEW c \in InFlight, RollingBack(c)
      PROVE  ControlInv'
  <2>1. /\ c \in CallType /\ c.r \in Requests
        /\ c \notin late => wkind = "run" /\ c.r = running /\ wk = c.op
        /\ \A d \in late : d.r = c.r => d = c
    BY CallFacts DEF CallType
  <2>2. /\ c.op = "rb_mark"
        /\ rstate' = IF running = c.r THEN [rstate EXCEPT ![c.r] = "rolling_back"] ELSE rstate
        /\ \/ c \in late /\ late' = late \ {c} /\ wk' = wk
           \/ (c \notin late /\ late' = late /\ wk' = "rb_reset")
        /\ UNCHANGED <<running, drain, recovery, lock, writing, wkind, landed, plan, abandoned>>
    BY <1>41 DEF RollingBack, Answer, historyVars, coordVars
  <2>3. \A r \in Requests : rstate'[r] = rstate[r] \/ (r = running /\ rstate'[r] = "rolling_back")
    BY <1>1, <2>1, <2>2
  <2>4. CallsFresh'
    BY <1>1, <2>1, <2>2, <2>3 DEF ControlInv, CallsFresh, Accepts, Writes, CallType, PreCommit, BeforeSwitch
  <2> QED
    BY <1>1, <2>1, <2>2, <2>4 DEF ControlInv, WorkerKinds, LockHeld
<1>42. ASSUME NEW c \in InFlight, Refuse(c)
      PROVE  ControlInv'
  BY <1>42, <1>1 DEF Refuse, entryVars, coordVars, workerVars, gatewayVars, historyVars, ControlInv,
     WorkerKinds, CallsFresh, LockHeld, Writes, Accepts, PreCommit, BeforeSwitch, Rolling,
     RollbackWork, None
<1>43. ASSUME NEW r \in Requests, KillUnlessSeen(r)
      PROVE  ControlInv'
  <2>1. /\ (wk' = wk /\ late' = late) \/ (wk' = "dead" /\ late' = InFlight /\ wk # "none" /\ wkind = "run")
        /\ UNCHANGED <<rstate, running, drain, recovery, lock, writing, wkind, landed, plan, abandoned>>
    BY <1>43 DEF KillUnlessSeen, Die, entryVars, historyVars, ControlInv, WorkerKinds
  <2> QED
    BY <1>1, <2>1, DeathKeeps
<1>44. CASE WorkerDies
  <2>1. /\ wk' = "dead" /\ late' = InFlight /\ wk # "none"
        /\ UNCHANGED <<rstate, running, drain, recovery, lock, writing, wkind, landed, plan, abandoned>>
    BY <1>44 DEF WorkerDies, Die, entryVars, coordVars
  <2> QED
    BY <1>1, <2>1, DeathKeeps
<1> QED
  BY <1>2, <1>3, <1>4, <1>5, <1>6, <1>7, <1>8, <1>9, <1>10, <1>11, <1>12, <1>13, <1>14, <1>15,
     <1>16, <1>17, <1>18, <1>19, <1>20, <1>21, <1>22, <1>23, <1>24, <1>25, <1>26, <1>27, <1>28,
     <1>29, <1>30, <1>31, <1>32, <1>33, <1>34, <1>35, <1>36, <1>37, <1>38, <1>39, <1>40, <1>41,
     <1>42, <1>43, <1>44 DEF Next, Users, Coordinator, Worker, Trouble, Serve, Gateway

\* A switch or a commit in flight comes before the write it may lead to, and is accepted only from the
\* running request's worker, while no write is in flight.
LEMMA ControlCall ==
  ASSUME TypeInv, CommitInv, ControlInv, NEW c \in InFlight, c.op \in {"switch", "commit"}
  PROVE  /\ ~Writes(c.r)
         /\ Accepts(c) => wkind = "run" /\ wk \in {c.op, "dead"} /\ lock = None
<1>1. CASE c \in late
  BY <1>1 DEF ControlInv, CallsFresh
<1>2. CASE c \notin late
  <2>1. wkind = "run" /\ c.r = running /\ wk = c.op
    BY <1>2, CallFacts
  <2> QED
    BY <2>1 DEF ControlInv, CallsFresh, LockHeld, PreCommit, BeforeSwitch
<1> QED
  BY <1>1, <1>2

\* The first state has it.
LEMMA InitControl == Init => ControlInv
BY DEF Init, ControlInv, WorkerKinds, CallsFresh, LockHeld, PreCommit, BeforeSwitch

-----------------------------------------------------------------------------
(* The inductive invariant behind OutcomeMatchesLedger.                      *)

PreWrite == PreCommit \cup {"rb_mark", "rb_reset", "rb_confirm", "rb_diff", "rb_delete", "rb_scale", "raised"}

\* The running request is undecided and has a worker.
RunningUndecided ==
  running # None =>
    /\ recovery = "done" /\ drain \in {"run", "rollback"} /\ outcome[running] = "none"
    /\ rstate[running] # "lost" /\ wkind \in {"run", "rollback"}

\* Only the running request writes, and its worker, or the rollback after it, waits for the write.
WriteAwaited ==
  lock # None =>
    /\ lock = running /\ rstate[lock] = "committing"
    /\ wkind = "run" => wk \in {"committing", "dead"}
    /\ wkind = "rollback" => wk = "rb_reset"

\* A request is retiring once its version has landed, until it is lost.
RetiringLanded ==
  \A r \in Requests :
    /\ r \in landed => rstate[r] \in {"retiring", "lost"}
    /\ rstate[r] = "retiring" => r \in landed

\* A worker, alive or dead, that has yet to commit has written nothing, nor has one that rolls back.
CommitBeforeWrite ==
  /\ \A c \in late :
       /\ ~Writes(c.r)
       /\ c.op \in {"switch", "commit"} => rstate[c.r] \notin {"committing", "retiring"}
  /\ wkind = "run" =>
       /\ wk \in PreWrite \/ (wk = "report" /\ wresult # "succeeded") => ~Writes(running)
       /\ wk \in PreCommit => rstate[running] \notin {"committing", "retiring"}
  /\ wkind = "rollback" => rstate[running] \in {"rolling_back", "committing", "retiring"}

\* What succeeds has committed, or never switched the gateway.
SuccessEarned ==
  /\ \A r \in Requests : rstate[r] \in {"new", "queued"} => ~switched[r]
  /\ wkind = "run" =>
       /\ wk \in BeforeSwitch => ~switched[running]
       /\ wk = "retire" \/ (wk = "report" /\ wresult = "succeeded")
            => running \in landed \/ ~switched[running]
       /\ wresult = "succeeded" => wk \in {"report", "dead"}

LedgerInv ==
  /\ RunningUndecided /\ WriteAwaited /\ RetiringLanded /\ CommitBeforeWrite
  /\ SuccessEarned /\ OutcomeMatchesLedger

(* Hypotheses.  A version write that raises has not landed; and the worker that rolls back after a dead *)
(* one does not die in turn while the write it waits for is in flight.  Without either, a request may be *)
(* told failed and its version land (deploy_coordinator.py:471).                                        *)
WritesAnswered == "lost_reply" \notin Faults
RollbackOutlives == wkind = "rollback" /\ lock # None => wk' # "dead"

\* LedgerInv does not see a step that leaves requests, calls and lock alone and moves a worker only
\* along its way, and none that waits for a write.
LEMMA LedgerQuiet ==
  ASSUME LedgerInv,
         UNCHANGED <<rstate, switched, outcome, running, lock, wkind, late, landed>>,
         running # None => recovery' = recovery /\ drain' = drain,
         lock # None => wk' = wk,
         wkind = "run" =>
           /\ wk' \in BeforeSwitch => wk \in BeforeSwitch
           /\ wk' \in PreCommit => wk \in PreCommit
           /\ wk' \in PreWrite => wk \in PreWrite
           /\ wk' = "retire" => wk \in BeforeSwitch \cup {"retire"}
           /\ wk' = "report" /\ wresult' # "succeeded" =>
                wk \in PreWrite \/ (wk = "report" /\ wresult # "succeeded")
           /\ wresult' = "succeeded" =>
                (wresult = "succeeded" /\ wk' = wk) \/ (wk = "retire" /\ wk' = "report")
  PROVE  LedgerInv'
BY DEF LedgerInv, RunningUndecided, WriteAwaited, RetiringLanded, CommitBeforeWrite, SuccessEarned,
       OutcomeMatchesLedger, Writes

\* A call in flight is made before the write it may lead to, and accepted only from the request's worker.
LEMMA LedgerCall ==
  ASSUME TypeInv, CommitInv, LedgerInv, NEW c \in InFlight
  PROVE  /\ ~Writes(c.r)
         /\ c.op \in {"switch", "commit"} => rstate[c.r] \notin {"committing", "retiring"}
         /\ c.op \in {"switch", "commit"} /\ Accepts(c) => wkind = "run" /\ wk \in {c.op, "dead"}
<1>1. c \in CallType
  BY InFlightType DEF TypeInv
<1>2. c \in late \/ (wkind = "run" /\ wk \in PreWrite /\ c.r = running /\ wk = c.op)
  BY DEF InFlight, Call, PreWrite, PreCommit, BeforeSwitch
<1>3. ~Writes(c.r)
  BY <1>2 DEF LedgerInv, CommitBeforeWrite
<1>4. c.op \in {"switch", "commit"} => rstate[c.r] \notin {"committing", "retiring"}
  BY <1>2 DEF LedgerInv, CommitBeforeWrite, PreCommit, BeforeSwitch
<1>5. c.op \in {"switch", "commit"} /\ Accepts(c) => wkind = "run" /\ wk \in {c.op, "dead"}
  <2> SUFFICES ASSUME c.op \in {"switch", "commit"}, Accepts(c), c \in late
               PROVE  wkind = "run" /\ wk = "dead"
    BY <1>2
  <2>1. running = c.r /\ rstate[c.r] # "rolling_back" /\ running # None
    BY <1>1, BoundAssumption DEF Accepts, CallType, Requests, None
  <2> QED
    BY <1>4, <2>1 DEF LedgerInv, RunningUndecided, CommitBeforeWrite, CommitInv, OneCall
<1> QED
  BY <1>3, <1>4, <1>5

\* Every step keeps the invariant.
LEMMA LedgerStep ==
  ASSUME WritesAnswered, TypeInv, CommitInv, LedgerInv, [Next]_vars, RollbackOutlives
  PROVE  LedgerInv'
<1>1. None \notin Requests
  BY BoundAssumption DEF None, Requests
<1>0. /\ running # None => recovery = "done" /\ drain \in {"run", "rollback"}
      /\ lock # None => \/ wkind = "run" /\ wk \in {"committing", "dead"}
                        \/ wkind = "rollback" /\ wk = "rb_reset"
      /\ wkind = "run" /\ wresult = "succeeded" => wk \in {"report", "dead"}
  BY DEF LedgerInv, RunningUndecided, WriteAwaited, SuccessEarned
<1>2. CASE DrainEnds
  BY <1>0, <1>2, LedgerQuiet DEF DrainEnds, workerVars, historyVars, PreCommit, PreWrite,
     BeforeSwitch, Started, entryVars, coordVars, historyVars
<1>3. CASE StartRecovery
  BY <1>0, <1>3, LedgerQuiet DEF StartRecovery, workerVars, historyVars, PreCommit, PreWrite,
     BeforeSwitch, Started, entryVars, coordVars, historyVars
<1>4. CASE ReadVersion
  BY <1>0, <1>4, LedgerQuiet DEF ReadVersion, workerVars, historyVars, PreCommit, PreWrite,
     BeforeSwitch, Started, entryVars, coordVars, historyVars
<1>5. CASE UseVersion
  BY <1>0, <1>5, LedgerQuiet DEF UseVersion, workerVars, historyVars, PreCommit, PreWrite,
     BeforeSwitch, Started, entryVars, coordVars, historyVars
<1>6. CASE ComputeDiff
  BY <1>0, <1>6, LedgerQuiet DEF ComputeDiff, WorkerOnly, PreCommit, PreWrite, BeforeSwitch,
     Started, entryVars, coordVars, historyVars
<1>7. CASE SourcesResolved
  BY <1>0, <1>7, LedgerQuiet DEF SourcesResolved, WorkerOnly, PreCommit, PreWrite, BeforeSwitch,
     Started, entryVars, coordVars, historyVars
<1>8. CASE DeletePoll
  BY <1>0, <1>8, LedgerQuiet DEF DeletePoll, WorkerOnly, AfterDelete, PreCommit, PreWrite,
     BeforeSwitch, Started, entryVars, coordVars, historyVars
<1>9. CASE SubmitRescales
  BY <1>0, <1>9, LedgerQuiet DEF SubmitRescales, WorkerOnly, AfterSubmit, PreCommit, PreWrite,
     BeforeSwitch, Started, entryVars, coordVars, historyVars
<1>10. CASE SubmitDeploys
  BY <1>0, <1>10, LedgerQuiet DEF SubmitDeploys, WorkerOnly, PreCommit, PreWrite, BeforeSwitch,
     Started, entryVars, coordVars, historyVars
<1>11. CASE Up
  BY <1>0, <1>11, LedgerQuiet DEF Up, WorkerOnly, AfterWait, PreCommit, PreWrite, BeforeSwitch,
     Started, entryVars, coordVars, historyVars
<1>12. ASSUME NEW a \in App, Retry(a)
      PROVE  LedgerInv'
  BY <1>0, <1>12, LedgerQuiet DEF Retry, WorkerOnly, PreCommit, PreWrite, BeforeSwitch, Started,
     entryVars, coordVars, historyVars
<1>13. CASE Confirmed
  BY <1>0, <1>13, LedgerQuiet DEF Confirmed, WorkerOnly, PreCommit, PreWrite, BeforeSwitch,
     Started, entryVars, coordVars, historyVars
<1>14. CASE ConfirmTimesOut
  BY <1>0, <1>14, LedgerQuiet DEF ConfirmTimesOut, WorkerOnly, PreCommit, PreWrite, BeforeSwitch,
     Started, entryVars, coordVars, historyVars
<1>15. CASE Fails
  BY <1>0, <1>15, LedgerQuiet DEF Fails, WorkerOnly, Polling, Polls, PreCommit, PreWrite,
     BeforeSwitch, Started, entryVars, coordVars, historyVars
<1>16. CASE RollbackDiff
  BY <1>0, <1>16, LedgerQuiet DEF RollbackDiff, PreCommit, PreWrite, BeforeSwitch, Started,
     entryVars, coordVars, historyVars
<1>17. CASE RestoreScaling
  BY <1>0, <1>17, LedgerQuiet DEF RestoreScaling, PreCommit, PreWrite, BeforeSwitch, Started,
     entryVars, coordVars, historyVars
<1>18. CASE ResetRouting
  BY <1>0, <1>18, LedgerQuiet DEF ResetRouting, PreCommit, PreWrite, BeforeSwitch, Started,
     entryVars, coordVars, historyVars
<1>19. ASSUME NEW a \in App, AppStarts(a)
      PROVE  LedgerInv'
  BY <1>0, <1>19, LedgerQuiet DEF AppStarts, Becomes, workerVars, PreCommit, PreWrite,
     BeforeSwitch, Started, entryVars, coordVars, historyVars
<1>20. ASSUME NEW a \in App, AppGone(a)
      PROVE  LedgerInv'
  BY <1>0, <1>20, LedgerQuiet DEF AppGone, Becomes, workerVars, PreCommit, PreWrite, BeforeSwitch,
     Started, entryVars, coordVars, historyVars
<1>21. ASSUME NEW a \in App, AppFails(a)
      PROVE  LedgerInv'
  BY <1>0, <1>21, LedgerQuiet DEF AppFails, Becomes, workerVars, PreCommit, PreWrite,
     BeforeSwitch, Started, entryVars, coordVars, historyVars
<1>22. ASSUME NEW a \in App, AppSickens(a)
      PROVE  LedgerInv'
  BY <1>0, <1>22, LedgerQuiet DEF AppSickens, Becomes, workerVars, PreCommit, PreWrite,
     BeforeSwitch, Started, entryVars, coordVars, historyVars
<1>23. ASSUME NEW g \in Replicas, ReplicaFollows(g)
      PROVE  LedgerInv'
  BY <1>0, <1>23, LedgerQuiet DEF ReplicaFollows, workerVars, PreCommit, PreWrite, BeforeSwitch,
     Started, entryVars, coordVars, historyVars
<1>24. ASSUME NEW r \in Requests, CancelRunning(r)
      PROVE  LedgerInv'
  BY <1>0, <1>24, LedgerQuiet DEF CancelRunning, workerVars, PreCommit, PreWrite, BeforeSwitch,
     Started, entryVars, coordVars, historyVars
<1>25. CASE SeesCancel
  BY <1>0, <1>25, LedgerQuiet DEF SeesCancel, Polling, Polls, PreCommit, PreWrite, BeforeSwitch,
     Started, entryVars, coordVars, historyVars
<1>26. CASE UNCHANGED vars
  BY <1>0, <1>26, LedgerQuiet DEF vars, workerVars, PreCommit, PreWrite, BeforeSwitch, Started,
     entryVars, coordVars, historyVars
<1>27. ASSUME NEW r \in Requests, NEW request \in Inputs, Submit(r, request)
      PROVE  LedgerInv'
  BY <1>1, <1>27 DEF Submit, LedgerInv, RunningUndecided, WriteAwaited, RetiringLanded,
     CommitBeforeWrite, SuccessEarned, OutcomeMatchesLedger, Writes, CommitInv, WriterPastCancel,
     OneCall, OnlyStarted, QueueOnce, PreCommit, PreWrite, BeforeSwitch, Started, entryVars,
     coordVars, workerVars, historyVars, TypeInv, TypeOK, EntryType, CoordinatorType, WorkerType,
     CallType, InFlight, Call
<1>28. ASSUME NEW r \in Requests, CancelQueued(r)
      PROVE  LedgerInv'
  BY <1>1, <1>28 DEF CancelQueued, LedgerInv, RunningUndecided, WriteAwaited, RetiringLanded,
     CommitBeforeWrite, SuccessEarned, OutcomeMatchesLedger, Writes, CommitInv, WriterPastCancel,
     OneCall, OnlyStarted, QueueOnce, PreCommit, PreWrite, BeforeSwitch, Started, entryVars,
     coordVars, workerVars, historyVars, TypeInv, TypeOK, EntryType, CoordinatorType, WorkerType,
     CallType, InFlight, Call
<1>29. CASE Pick
  <2> DEFINE r == Head(queue)
  <2>1. r = queue[1] /\ 1 \in 1..Len(queue) /\ r \in Requests
    BY <1>29 DEF Pick, TypeInv, TypeOK, CoordinatorType
  <2>2. rstate[r] = "queued" /\ outcome[r] = "none"
    BY <2>1 DEF CommitInv, QueueOnce
  <2>3. ~Writes(r) /\ ~switched[r] /\ r # None /\ \A c \in late : c.r # r
    BY <1>1, <2>1, <2>2
       DEF CommitInv, WriterPastCancel, OnlyStarted, Started, LedgerInv, SuccessEarned
  <2> HIDE DEF r
  <2>4. /\ running' = r /\ wkind' = "run" /\ wk' = "diff" /\ wresult' = "none"
        /\ rstate' = [rstate EXCEPT ![r] = "applying"]
        /\ drain' = "run" /\ recovery' = "done" /\ drain = "loop"
        /\ UNCHANGED <<switched, outcome, lock, late, landed>>
    BY <1>29 DEF Pick, NewWorker, historyVars, r
  <2>5. lock = None
    BY <2>4 DEF LedgerInv, RunningUndecided, WriteAwaited
  <2> QED
    BY <1>1, <2>1, <2>2, <2>3, <2>4, <2>5
       DEF LedgerInv, RunningUndecided, WriteAwaited, RetiringLanded, CommitBeforeWrite, SuccessEarned,
           OutcomeMatchesLedger, Writes, BeforeSwitch, TypeInv, TypeOK, EntryType, WorkerType, CallType
<1>30. CASE RunEnds
  BY <1>1, <1>30 DEF RunEnds, Ends, NoWorker, LedgerInv, RunningUndecided, WriteAwaited,
     RetiringLanded, CommitBeforeWrite, SuccessEarned, OutcomeMatchesLedger, Writes, CommitInv,
     WriterPastCancel, OneCall, OnlyStarted, QueueOnce, PreCommit, PreWrite, BeforeSwitch, Started,
     entryVars, coordVars, workerVars, historyVars, TypeInv, TypeOK, EntryType, CoordinatorType,
     WorkerType, CallType, InFlight, Call
<1>31. CASE DeathSeen
  <2> DEFINE s == IF rstate[running] \in {"committing", "retiring"} THEN rstate[running]
                  ELSE "rolling_back"
  <2>1. running \in Requests /\ wkind = "run" /\ wk = "dead"
    BY <1>31 DEF DeathSeen, TypeInv
  <2>2. /\ running' = running /\ wkind' = "rollback" /\ wk' = "rb_reset" /\ wresult' = "none"
        /\ rstate' = [rstate EXCEPT ![running] = s] /\ drain' = "rollback"
        /\ UNCHANGED <<switched, outcome, recovery, lock, late, landed>>
    BY <1>31 DEF DeathSeen, NewWorker, historyVars
  <2>3. rstate[running] \in Started
    BY <2>1 DEF CommitInv, OnlyStarted
  <2>4. s \in {"committing", "retiring", "rolling_back"}
    OBVIOUS
  <2>5. s \in {"committing", "retiring"} => s = rstate[running]
    OBVIOUS
  <2>6. running \in landed => rstate[running] = "retiring"
    <3>1. rstate[running] # "lost"
      BY <1>1, <2>1 DEF LedgerInv, RunningUndecided
    <3> QED
      BY <2>1, <3>1 DEF LedgerInv, RetiringLanded
  <2> QED
    BY <1>1, <2>1, <2>2, <2>3, <2>4, <2>5, <2>6
       DEF LedgerInv, RunningUndecided, WriteAwaited, RetiringLanded, CommitBeforeWrite, SuccessEarned,
           OutcomeMatchesLedger, Writes, Started, TypeInv, TypeOK, EntryType, WorkerType, CallType
<1>32. CASE RollbackEnds
  BY <1>1, <1>32 DEF RollbackEnds, Ends, NoWorker, LedgerInv, RunningUndecided, WriteAwaited,
     RetiringLanded, CommitBeforeWrite, SuccessEarned, OutcomeMatchesLedger, Writes, CommitInv,
     WriterPastCancel, OneCall, OnlyStarted, QueueOnce, PreCommit, PreWrite, BeforeSwitch, Started,
     entryVars, coordVars, workerVars, historyVars, TypeInv, TypeOK, EntryType, CoordinatorType,
     WorkerType, CallType, InFlight, Call
<1>33. CASE Recover
  BY <1>1, <1>33 DEF Recover, NewWorker, LedgerInv, RunningUndecided, WriteAwaited,
     RetiringLanded, CommitBeforeWrite, SuccessEarned, OutcomeMatchesLedger, Writes, CommitInv,
     WriterPastCancel, OneCall, OnlyStarted, QueueOnce, PreCommit, PreWrite, BeforeSwitch, Started,
     entryVars, coordVars, workerVars, historyVars, TypeInv, TypeOK, EntryType, CoordinatorType,
     WorkerType, CallType, InFlight, Call
<1>34. CASE RecoveryEnds
  BY <1>1, <1>34 DEF RecoveryEnds, NoWorker, LedgerInv, RunningUndecided, WriteAwaited,
     RetiringLanded, CommitBeforeWrite, SuccessEarned, OutcomeMatchesLedger, Writes, CommitInv,
     WriterPastCancel, OneCall, OnlyStarted, QueueOnce, PreCommit, PreWrite, BeforeSwitch, Started,
     entryVars, coordVars, workerVars, historyVars, TypeInv, TypeOK, EntryType, CoordinatorType,
     WorkerType, CallType, InFlight, Call
<1>35. ASSUME NEW c \in InFlight, Switch(c)
      PROVE  LedgerInv'
  BY <1>1, <1>35, CallFacts, LedgerCall DEF Switch, Answer, Accepts, LedgerInv, RunningUndecided,
     WriteAwaited, RetiringLanded, CommitBeforeWrite, SuccessEarned, OutcomeMatchesLedger, Writes,
     CommitInv, WriterPastCancel, OneCall, OnlyStarted, QueueOnce, PreCommit, PreWrite, BeforeSwitch,
     Started, entryVars, coordVars, workerVars, historyVars, TypeInv, TypeOK, EntryType,
     CoordinatorType, WorkerType, CallType, InFlight, Call
<1>36. ASSUME NEW c \in InFlight, CommitCancelled(c)
      PROVE  LedgerInv'
  BY <1>1, <1>36, CallFacts, LedgerCall DEF CommitCancelled, Answer, Accepts, LedgerInv,
     RunningUndecided, WriteAwaited, RetiringLanded, CommitBeforeWrite, SuccessEarned,
     OutcomeMatchesLedger, Writes, CommitInv, WriterPastCancel, OneCall, OnlyStarted, QueueOnce,
     PreCommit, PreWrite, BeforeSwitch, Started, entryVars, coordVars, workerVars, historyVars,
     TypeInv, TypeOK, EntryType, CoordinatorType, WorkerType, CallType, InFlight, Call
<1>37. ASSUME NEW c \in InFlight, CommitStarts(c)
      PROVE  LedgerInv'
  BY <1>1, <1>37, CallFacts, LedgerCall DEF CommitStarts, Answer, Accepts, LedgerInv,
     RunningUndecided, WriteAwaited, RetiringLanded, CommitBeforeWrite, SuccessEarned,
     OutcomeMatchesLedger, Writes, CommitInv, WriterPastCancel, OneCall, OnlyStarted, QueueOnce,
     PreCommit, PreWrite, BeforeSwitch, Started, entryVars, coordVars, workerVars, historyVars,
     TypeInv, TypeOK, EntryType, CoordinatorType, WorkerType, CallType, InFlight, Call
<1>38. ASSUME NEW c \in InFlight, RollingBack(c)
      PROVE  LedgerInv'
  BY <1>1, <1>38, CallFacts, LedgerCall DEF RollingBack, Answer, LedgerInv, RunningUndecided,
     WriteAwaited, RetiringLanded, CommitBeforeWrite, SuccessEarned, OutcomeMatchesLedger, Writes,
     CommitInv, WriterPastCancel, OneCall, OnlyStarted, QueueOnce, PreCommit, PreWrite, BeforeSwitch,
     Started, entryVars, coordVars, workerVars, historyVars, TypeInv, TypeOK, EntryType,
     CoordinatorType, WorkerType, CallType, InFlight, Call
<1>39. ASSUME NEW c \in InFlight, Refuse(c)
      PROVE  LedgerInv'
  BY <1>1, <1>39, CallFacts, LedgerCall DEF Refuse, LedgerInv, RunningUndecided, WriteAwaited,
     RetiringLanded, CommitBeforeWrite, SuccessEarned, OutcomeMatchesLedger, Writes, CommitInv,
     WriterPastCancel, OneCall, OnlyStarted, QueueOnce, PreCommit, PreWrite, BeforeSwitch, Started,
     entryVars, coordVars, workerVars, historyVars, TypeInv, TypeOK, EntryType, CoordinatorType,
     WorkerType, CallType, InFlight, Call
<1>40. CASE CommitLands
  BY <1>1, <1>40 DEF CommitLands, LedgerInv, RunningUndecided, WriteAwaited, RetiringLanded,
     CommitBeforeWrite, SuccessEarned, OutcomeMatchesLedger, Writes, CommitInv, WriterPastCancel,
     OneCall, OnlyStarted, QueueOnce, PreCommit, PreWrite, BeforeSwitch, Started, entryVars,
     coordVars, workerVars, historyVars, TypeInv, TypeOK, EntryType, CoordinatorType, WorkerType,
     CallType, InFlight, Call
<1>41. CASE CommitFails
  BY <1>1, <1>41 DEF CommitFails, Fault, WritesAnswered, LedgerInv, RunningUndecided,
     WriteAwaited, RetiringLanded, CommitBeforeWrite, SuccessEarned, OutcomeMatchesLedger, Writes,
     CommitInv, WriterPastCancel, OneCall, OnlyStarted, QueueOnce, PreCommit, PreWrite, BeforeSwitch,
     Started, entryVars, coordVars, workerVars, historyVars, TypeInv, TypeOK, EntryType,
     CoordinatorType, WorkerType, CallType, InFlight, Call
<1>42. ASSUME NEW r \in Requests, KillUnlessSeen(r)
      PROVE  LedgerInv'
  BY <1>1, <1>42 DEF KillUnlessSeen, Die, LedgerInv, RunningUndecided, WriteAwaited,
     RetiringLanded, CommitBeforeWrite, SuccessEarned, OutcomeMatchesLedger, Writes, CommitInv,
     WriterPastCancel, OneCall, OnlyStarted, QueueOnce, PreCommit, PreWrite, BeforeSwitch, Started,
     entryVars, coordVars, workerVars, historyVars, TypeInv, TypeOK, EntryType, CoordinatorType,
     WorkerType, CallType, InFlight, Call
<1>43. CASE WorkerDies
  BY <1>1, <1>43 DEF WorkerDies, Die, RollbackOutlives, LedgerInv, RunningUndecided, WriteAwaited,
     RetiringLanded, CommitBeforeWrite, SuccessEarned, OutcomeMatchesLedger, Writes, CommitInv,
     WriterPastCancel, OneCall, OnlyStarted, QueueOnce, PreCommit, PreWrite, BeforeSwitch, Started,
     entryVars, coordVars, workerVars, historyVars, TypeInv, TypeOK, EntryType, CoordinatorType,
     WorkerType, CallType, InFlight, Call
<1>44. CASE CoordinatorDies
  BY <1>1, <1>44 DEF CoordinatorDies, NoWorker, LedgerInv, RunningUndecided, WriteAwaited,
     RetiringLanded, CommitBeforeWrite, SuccessEarned, OutcomeMatchesLedger, Writes, CommitInv,
     WriterPastCancel, OneCall, OnlyStarted, QueueOnce, PreCommit, PreWrite, BeforeSwitch, Started,
     entryVars, coordVars, workerVars, historyVars, TypeInv, TypeOK, EntryType, CoordinatorType,
     WorkerType, CallType, InFlight, Call
<1> QED
  BY <1>2, <1>3, <1>4, <1>5, <1>6, <1>7, <1>8, <1>9, <1>10, <1>11, <1>12, <1>13, <1>14, <1>15,
     <1>16, <1>17, <1>18, <1>19, <1>20, <1>21, <1>22, <1>23, <1>24, <1>25, <1>26, <1>27, <1>28,
     <1>29, <1>30, <1>31, <1>32, <1>33, <1>34, <1>35, <1>36, <1>37, <1>38, <1>39, <1>40, <1>41,
     <1>42, <1>43, <1>44 DEF Next, Users, Coordinator, Worker, Trouble, Serve, Gateway

-----------------------------------------------------------------------------
(* The inductive invariant behind the order of the commits.                  *)

RollbackSteps == {"rb_mark", "rb_reset", "rb_confirm", "rb_diff", "rb_delete", "rb_scale", "report"}

\* The queue is in the order of submission, after the running request.
QueueRises ==
  /\ \A i, j \in 1..Len(queue) : i < j => queue[i] < queue[j]
  /\ \A i \in 1..Len(queue) : running # None => running < queue[i]

\* Ids are given in that order.
SentInOrder ==
  \A p, q \in Requests : rstate[p] = "new" /\ q > p => rstate[q] = "new"

\* An undecided request is running or waits in the queue.
UndecidedHeld ==
  \A q \in Requests :
    rstate[q] # "new" /\ outcome[q] = "none" => q = running \/ \E i \in 1..Len(queue) : queue[i] = q

\* A worker rolls back, or reports, with an outcome to report.
RollbackHasResult == wkind = "run" /\ wk \in RollbackSteps => wresult # "none"

OrderInv == QueueRises /\ SentInOrder /\ UndecidedHeld /\ RollbackHasResult

\* OrderInv does not see a step that leaves requests and queue alone.
LEMMA OrderQuiet ==
  ASSUME OrderInv, UNCHANGED <<outcome, queue, running>>,
         \A q \in Requests : rstate'[q] = "new" <=> rstate[q] = "new",
         wkind' = "run" /\ wk' \in RollbackSteps =>
           wresult' # "none" \/ (wresult' = wresult /\ wkind = "run" /\ wk \in RollbackSteps)
  PROVE  OrderInv'
BY DEF OrderInv, QueueRises, SentInOrder, UndecidedHeld, RollbackHasResult

\* Every step keeps the order.
LEMMA OrderStep ==
  ASSUME TypeInv, CommitInv, LedgerInv, OrderInv, [Next]_vars
  PROVE  OrderInv'
<1>1. None \notin Requests
  BY BoundAssumption DEF None, Requests
<1>2. CASE DrainEnds
  BY <1>2, OrderQuiet DEF DrainEnds, workerVars, historyVars, RollbackSteps, entryVars, coordVars,
     gatewayVars
<1>3. CASE StartRecovery
  BY <1>3, OrderQuiet DEF StartRecovery, workerVars, historyVars, RollbackSteps, entryVars,
     coordVars, gatewayVars
<1>4. CASE ReadVersion
  BY <1>4, OrderQuiet DEF ReadVersion, workerVars, historyVars, RollbackSteps, entryVars,
     coordVars, gatewayVars
<1>5. CASE UseVersion
  BY <1>5, OrderQuiet DEF UseVersion, workerVars, historyVars, RollbackSteps, entryVars,
     coordVars, gatewayVars
<1>6. CASE ComputeDiff
  BY <1>6, OrderQuiet DEF ComputeDiff, WorkerOnly, RollbackSteps, entryVars, coordVars,
     gatewayVars, historyVars
<1>7. CASE SourcesResolved
  BY <1>7, OrderQuiet DEF SourcesResolved, WorkerOnly, RollbackSteps, entryVars, coordVars,
     gatewayVars, historyVars
<1>8. CASE DeletePoll
  BY <1>8, OrderQuiet DEF DeletePoll, WorkerOnly, AfterDelete, RollbackSteps, entryVars,
     coordVars, gatewayVars, historyVars
<1>9. CASE SubmitRescales
  BY <1>9, OrderQuiet DEF SubmitRescales, WorkerOnly, AfterSubmit, RollbackSteps, entryVars,
     coordVars, gatewayVars, historyVars
<1>10. CASE SubmitDeploys
  BY <1>10, OrderQuiet DEF SubmitDeploys, WorkerOnly, RollbackSteps, entryVars, coordVars,
     gatewayVars, historyVars
<1>11. CASE Up
  BY <1>11, OrderQuiet DEF Up, WorkerOnly, AfterWait, RollbackSteps, entryVars, coordVars,
     gatewayVars, historyVars
<1>12. ASSUME NEW a \in App, Retry(a)
      PROVE  OrderInv'
  BY <1>12, OrderQuiet DEF Retry, WorkerOnly, RollbackSteps, entryVars, coordVars, gatewayVars,
     historyVars
<1>13. CASE Confirmed
  BY <1>13, OrderQuiet DEF Confirmed, WorkerOnly, RollbackSteps, entryVars, coordVars,
     gatewayVars, historyVars
<1>14. CASE ConfirmTimesOut
  BY <1>14, OrderQuiet DEF ConfirmTimesOut, WorkerOnly, RollbackSteps, entryVars, coordVars,
     gatewayVars, historyVars
<1>15. CASE Fails
  BY <1>15, OrderQuiet DEF Fails, WorkerOnly, Polling, Polls, RollbackSteps, entryVars, coordVars,
     gatewayVars, historyVars
<1>16. CASE RollbackDiff
  BY <1>16, OrderQuiet DEF RollbackDiff, RollbackSteps, entryVars, coordVars, gatewayVars,
     historyVars
<1>17. CASE RestoreScaling
  BY <1>17, OrderQuiet DEF RestoreScaling, RollbackSteps, entryVars, coordVars, gatewayVars,
     historyVars
<1>18. CASE ResetRouting
  BY <1>18, OrderQuiet DEF ResetRouting, RollbackSteps, entryVars, coordVars, gatewayVars,
     historyVars
<1>19. ASSUME NEW a \in App, AppStarts(a)
      PROVE  OrderInv'
  BY <1>19, OrderQuiet DEF AppStarts, Becomes, workerVars, RollbackSteps, entryVars, coordVars,
     gatewayVars, historyVars
<1>20. ASSUME NEW a \in App, AppGone(a)
      PROVE  OrderInv'
  BY <1>20, OrderQuiet DEF AppGone, Becomes, workerVars, RollbackSteps, entryVars, coordVars,
     gatewayVars, historyVars
<1>21. ASSUME NEW a \in App, AppFails(a)
      PROVE  OrderInv'
  BY <1>21, OrderQuiet DEF AppFails, Becomes, workerVars, RollbackSteps, entryVars, coordVars,
     gatewayVars, historyVars
<1>22. ASSUME NEW a \in App, AppSickens(a)
      PROVE  OrderInv'
  BY <1>22, OrderQuiet DEF AppSickens, Becomes, workerVars, RollbackSteps, entryVars, coordVars,
     gatewayVars, historyVars
<1>23. ASSUME NEW g \in Replicas, ReplicaFollows(g)
      PROVE  OrderInv'
  BY <1>23, OrderQuiet DEF ReplicaFollows, workerVars, RollbackSteps, entryVars, coordVars,
     gatewayVars, historyVars
<1>24. ASSUME NEW r \in Requests, CancelRunning(r)
      PROVE  OrderInv'
  BY <1>24, OrderQuiet DEF CancelRunning, workerVars, RollbackSteps, entryVars, coordVars,
     gatewayVars, historyVars
<1>25. CASE SeesCancel
  BY <1>25, OrderQuiet DEF SeesCancel, Polling, Polls, RollbackSteps, entryVars, coordVars,
     gatewayVars, historyVars
<1>26. CASE UNCHANGED vars
  BY <1>26, OrderQuiet DEF vars, workerVars, RollbackSteps, entryVars, coordVars, gatewayVars,
     historyVars
<1>27. ASSUME NEW r \in Requests, NEW request \in Inputs, Submit(r, request)
      PROVE  OrderInv'
  <2>1. /\ rstate[r] = "new" /\ \A q \in 1..(r - 1) : rstate[q] # "new"
        /\ rstate' = [rstate EXCEPT ![r] = "queued"] /\ queue' = Append(queue, r)
        /\ UNCHANGED <<outcome, running, wkind, wk, wresult>>
    BY <1>27 DEF Submit, workerVars
  <2>2. /\ queue \in Seq(Requests) /\ rstate \in [Requests -> States] /\ Requests \subseteq Nat
        /\ running \in Requests \cup {None} /\ None = 0
    BY DEF TypeInv, TypeOK, CoordinatorType, EntryType, Requests, None
  <2>3. /\ Len(queue') = Len(queue) + 1 /\ queue'[Len(queue) + 1] = r
        /\ \A i \in 1..Len(queue) : queue'[i] = queue[i] /\ i \in 1..Len(queue')
        /\ Len(queue) + 1 \in 1..Len(queue')
        /\ \A i \in 1..Len(queue') : i \in 1..Len(queue) \/ i = Len(queue) + 1
    BY <2>1, <2>2
  <2>4. \A q \in Requests : rstate[q] # "new" => q < r
    <3> SUFFICES ASSUME NEW q \in Requests, rstate[q] # "new" PROVE q < r
      OBVIOUS
    <3>1. ~(q > r) /\ q # r
      BY <2>1 DEF OrderInv, SentInOrder
    <3> QED
      BY <2>2, <3>1
  <2>5. \A i \in 1..Len(queue) : queue[i] \in Requests /\ queue[i] < r
    <3>1. \A i \in 1..Len(queue) : queue[i] \in Requests
      BY <2>2
    <3>2. \A i \in 1..Len(queue) : rstate[queue[i]] # "new"
      BY DEF CommitInv, QueueOnce
    <3> QED
      BY <2>4, <3>1, <3>2
  <2>6. running # None => running \in Requests /\ running < r
    <3> SUFFICES ASSUME running # None PROVE running \in Requests /\ running < r
      OBVIOUS
    <3>1. wkind \in {"run", "rollback"}
      BY DEF LedgerInv, RunningUndecided
    <3>2. running \in Requests /\ rstate[running] \in Started
      BY <2>2, <3>1 DEF CommitInv, OnlyStarted
    <3> QED
      BY <2>4, <3>2 DEF Started
  <2>7. QueueRises'
    <3>1. \A i, j \in 1..Len(queue') : i < j => queue'[i] < queue'[j]
      <4> SUFFICES ASSUME NEW i \in 1..Len(queue'), NEW j \in 1..Len(queue'), i < j
                   PROVE  queue'[i] < queue'[j]
        OBVIOUS
      <4>1. i \in 1..Len(queue)
        BY <2>2, <2>3
      <4>2. CASE j \in 1..Len(queue)
        BY <2>3, <4>1, <4>2 DEF OrderInv, QueueRises
      <4>3. CASE j = Len(queue) + 1
        BY <2>3, <2>5, <4>1, <4>3
      <4> QED
        BY <2>3, <4>2, <4>3
    <3>2. \A i \in 1..Len(queue') : running' # None => running' < queue'[i]
      BY <2>1, <2>3, <2>6 DEF OrderInv, QueueRises
    <3> QED
      BY <3>1, <3>2 DEF QueueRises
  <2>8. SentInOrder'
    <3> SUFFICES ASSUME NEW p \in Requests, NEW q \in Requests, rstate'[p] = "new", q > p
                 PROVE  rstate'[q] = "new"
      BY DEF SentInOrder
    <3>1. p # r /\ rstate[p] = "new"
      BY <2>1, <2>2
    <3>2. rstate[q] = "new"
      BY <3>1 DEF OrderInv, SentInOrder
    <3>3. q # r
      <4> SUFFICES ASSUME q = r PROVE FALSE
        OBVIOUS
      <4>1. p \in 1..(r - 1)
        BY <2>2 DEF Requests
      <4> QED
        BY <2>1, <3>1, <4>1
    <3> QED
      BY <2>1, <2>2, <3>2, <3>3
  <2>9. UndecidedHeld'
    <3> SUFFICES ASSUME NEW q \in Requests, rstate'[q] # "new", outcome'[q] = "none"
                 PROVE  q = running' \/ \E i \in 1..Len(queue') : queue'[i] = q
      BY DEF UndecidedHeld
    <3>1. CASE q = r
      BY <2>3, <3>1
    <3>2. CASE q # r
      BY <2>1, <2>2, <2>3, <3>2 DEF OrderInv, UndecidedHeld
    <3> QED
      BY <3>1, <3>2
  <2> QED
    BY <2>1, <2>7, <2>8, <2>9 DEF OrderInv, RollbackHasResult
<1>28. ASSUME NEW r \in Requests, CancelQueued(r)
      PROVE  OrderInv'
  <2>1. PICK i \in 1..Len(queue) : queue[i] = r /\ queue' = Without(queue, i)
    BY <1>28 DEF CancelQueued
  <2>2. /\ outcome' = [outcome EXCEPT ![r] = "cancelled"]
        /\ UNCHANGED <<rstate, running, wkind, wk, wresult>>
    BY <1>28 DEF CancelQueued, workerVars
  <2>3. queue \in Seq(Requests) /\ outcome \in [Requests -> Outcomes]
    BY DEF TypeInv, TypeOK, CoordinatorType, EntryType
  <2>4. /\ Len(queue') = Len(queue) - 1
        /\ \A j \in 1..Len(queue') : queue'[j] = IF j < i THEN queue[j] ELSE queue[j + 1]
    BY <2>1, <2>3 DEF Without
  <2>5. QueueRises'
    <3>1. \A j, k \in 1..Len(queue') : j < k => queue'[j] < queue'[k]
      <4> SUFFICES ASSUME NEW j \in 1..Len(queue'), NEW k \in 1..Len(queue'), j < k
                   PROVE  queue'[j] < queue'[k]
        OBVIOUS
      <4>1. PICK u \in 1..Len(queue) : u = (IF j < i THEN j ELSE j + 1) /\ queue'[j] = queue[u]
        BY <2>3, <2>4
      <4>2. PICK v \in 1..Len(queue) : v = (IF k < i THEN k ELSE k + 1) /\ queue'[k] = queue[v]
        BY <2>3, <2>4
      <4>3. u < v
        BY <2>3, <4>1, <4>2
      <4> QED
        BY <4>1, <4>2, <4>3 DEF OrderInv, QueueRises
    <3>2. \A j \in 1..Len(queue') : running' # None => running' < queue'[j]
      <4> SUFFICES ASSUME NEW j \in 1..Len(queue'), running # None
                   PROVE  running < queue'[j]
        BY <2>2
      <4>1. PICK u \in 1..Len(queue) : queue'[j] = queue[u]
        BY <2>3, <2>4
      <4> QED
        BY <4>1 DEF OrderInv, QueueRises
    <3> QED
      BY <3>1, <3>2 DEF QueueRises
  <2>6. UndecidedHeld'
    <3> SUFFICES ASSUME NEW q \in Requests, rstate'[q] # "new", outcome'[q] = "none"
                 PROVE  q = running' \/ \E j \in 1..Len(queue') : queue'[j] = q
      BY DEF UndecidedHeld
    <3>1. q # r /\ rstate[q] # "new" /\ outcome[q] = "none"
      BY <2>2, <2>3
    <3>2. CASE q = running
      BY <2>2, <3>2
    <3>3. CASE \E k \in 1..Len(queue) : queue[k] = q
      <4>1. PICK k \in 1..Len(queue) : queue[k] = q
        BY <3>3
      <4>2. k # i
        BY <2>1, <3>1, <4>1
      <4>3. CASE k < i
        <5>1. k \in 1..Len(queue') /\ queue'[k] = queue[k]
          BY <2>3, <2>4, <4>3
        <5> QED
          BY <4>1, <5>1
      <4>4. CASE k > i
        <5>1. k - 1 \in 1..Len(queue') /\ queue'[k - 1] = queue[k]
          BY <2>3, <2>4, <4>4
        <5> QED
          BY <4>1, <5>1
      <4> QED
        BY <2>3, <4>2, <4>3, <4>4
    <3> QED
      BY <3>1, <3>2, <3>3 DEF OrderInv, UndecidedHeld
  <2> QED
    BY <2>2, <2>5, <2>6 DEF OrderInv, SentInOrder, RollbackHasResult
<1>29. CASE Pick
  <2> DEFINE r == Head(queue)
  <2>1. /\ r = queue[1] /\ 1 \in 1..Len(queue) /\ r \in Requests /\ queue \in Seq(Requests)
        /\ Len(queue') = Len(queue) - 1
        /\ \A i \in 1..Len(queue') : queue'[i] = queue[i + 1] /\ i + 1 \in 1..Len(queue)
    BY <1>29 DEF Pick, TypeInv, TypeOK, CoordinatorType
  <2> HIDE DEF r
  <2>2. /\ running' = r /\ wk' = "diff" /\ rstate' = [rstate EXCEPT ![r] = "applying"]
        /\ outcome' = outcome /\ drain = "loop"
    BY <1>29 DEF Pick, NewWorker, r
  <2>3. rstate[r] = "queued" /\ rstate \in [Requests -> States] /\ running = None
    BY <2>1, <2>2
       DEF CommitInv, QueueOnce, TypeInv, TypeOK, EntryType, LedgerInv, RunningUndecided
  <2>4. QueueRises'
    <3>1. \A i, j \in 1..Len(queue') : i < j => queue'[i] < queue'[j]
      <4> SUFFICES ASSUME NEW i \in 1..Len(queue'), NEW j \in 1..Len(queue'), i < j
                   PROVE  queue'[i] < queue'[j]
        OBVIOUS
      <4>1. i + 1 < j + 1 /\ i + 1 \in 1..Len(queue) /\ j + 1 \in 1..Len(queue)
        BY <2>1
      <4> QED
        BY <2>1, <4>1 DEF OrderInv, QueueRises
    <3>2. \A i \in 1..Len(queue') : running' < queue'[i]
      <4> SUFFICES ASSUME NEW i \in 1..Len(queue') PROVE queue[1] < queue[i + 1]
        BY <2>1, <2>2
      <4>1. 1 < i + 1 /\ i + 1 \in 1..Len(queue)
        BY <2>1
      <4> QED
        BY <2>1, <4>1 DEF OrderInv, QueueRises
    <3> QED
      BY <3>1, <3>2 DEF QueueRises
  <2>5. UndecidedHeld'
    <3> SUFFICES ASSUME NEW q \in Requests, rstate'[q] # "new", outcome'[q] = "none", q # r
                 PROVE  \E i \in 1..Len(queue') : queue'[i] = q
      BY <2>2 DEF UndecidedHeld
    <3>1. rstate[q] # "new" /\ outcome[q] = "none" /\ q # running
      BY <1>1, <2>2, <2>3
    <3>2. PICK i \in 1..Len(queue) : queue[i] = q
      BY <3>1 DEF OrderInv, UndecidedHeld
    <3>3. i - 1 \in 1..Len(queue') /\ i = (i - 1) + 1
      BY <2>1, <3>2
    <3>4. queue'[i - 1] = queue[i]
      BY <2>1, <3>3
    <3> QED
      BY <3>2, <3>3, <3>4
  <2>6. SentInOrder' /\ RollbackHasResult'
    BY <2>1, <2>2, <2>3 DEF OrderInv, SentInOrder, RollbackHasResult, RollbackSteps
  <2> QED
    BY <2>4, <2>5, <2>6 DEF OrderInv
<1>30. CASE RunEnds
  <2>1. PICK result \in {wresult, "failed"} :
          /\ outcome' = [outcome EXCEPT ![running] = result] /\ result # "none"
    BY <1>30 DEF RunEnds, Ends, OrderInv, RollbackHasResult, RollbackSteps
  <2>2. /\ running \in Requests /\ running' = None /\ queue' = queue /\ rstate' = rstate
        /\ wk' = "none" /\ outcome \in [Requests -> Outcomes]
    BY <1>30 DEF RunEnds, Ends, NoWorker, TypeInv, TypeOK, EntryType
  <2> QED
    BY <1>1, <2>1, <2>2
       DEF OrderInv, QueueRises, SentInOrder, UndecidedHeld, RollbackHasResult, RollbackSteps
<1>31. CASE DeathSeen
  BY <1>1, <1>31 DEF DeathSeen, NewWorker, OrderInv, QueueRises, SentInOrder, UndecidedHeld,
     RollbackHasResult, RollbackSteps, LedgerInv, RunningUndecided, CommitInv, OnlyStarted, Started,
     entryVars, coordVars, workerVars, gatewayVars, historyVars, TypeInv, TypeOK, EntryType,
     CoordinatorType, WorkerType, GatewayType, CallType, InFlight, Call
<1>32. CASE RollbackEnds
  BY <1>1, <1>32 DEF RollbackEnds, Ends, NoWorker, OrderInv, QueueRises, SentInOrder,
     UndecidedHeld, RollbackHasResult, RollbackSteps, LedgerInv, RunningUndecided, CommitInv,
     OnlyStarted, Started, entryVars, coordVars, workerVars, gatewayVars, historyVars, TypeInv,
     TypeOK, EntryType, CoordinatorType, WorkerType, GatewayType, CallType, InFlight, Call
<1>33. CASE Recover
  BY <1>1, <1>33 DEF Recover, NewWorker, OrderInv, QueueRises, SentInOrder, UndecidedHeld,
     RollbackHasResult, RollbackSteps, LedgerInv, RunningUndecided, CommitInv, OnlyStarted, Started,
     entryVars, coordVars, workerVars, gatewayVars, historyVars, TypeInv, TypeOK, EntryType,
     CoordinatorType, WorkerType, GatewayType, CallType, InFlight, Call
<1>34. CASE RecoveryEnds
  BY <1>1, <1>34 DEF RecoveryEnds, NoWorker, OrderInv, QueueRises, SentInOrder, UndecidedHeld,
     RollbackHasResult, RollbackSteps, LedgerInv, RunningUndecided, CommitInv, OnlyStarted, Started,
     entryVars, coordVars, workerVars, gatewayVars, historyVars, TypeInv, TypeOK, EntryType,
     CoordinatorType, WorkerType, GatewayType, CallType, InFlight, Call
<1>35. ASSUME NEW c \in InFlight, Switch(c)
      PROVE  OrderInv'
  BY <1>1, <1>35, CallFacts, LedgerCall, SMTT(30) DEF Switch, Answer, Accepts, OrderInv, QueueRises,
     SentInOrder, UndecidedHeld, RollbackHasResult, RollbackSteps, LedgerInv, RunningUndecided,
     CommitInv, OnlyStarted, Started, entryVars, coordVars, workerVars, gatewayVars, historyVars,
     TypeInv, TypeOK, EntryType, CoordinatorType, WorkerType, GatewayType, CallType, InFlight, Call
<1>36. ASSUME NEW c \in InFlight, CommitCancelled(c)
      PROVE  OrderInv'
  BY <1>1, <1>36, CallFacts, LedgerCall DEF CommitCancelled, Answer, Accepts, OrderInv,
     QueueRises, SentInOrder, UndecidedHeld, RollbackHasResult, RollbackSteps, LedgerInv,
     RunningUndecided, CommitInv, OnlyStarted, Started, entryVars, coordVars, workerVars,
     gatewayVars, historyVars, TypeInv, TypeOK, EntryType, CoordinatorType, WorkerType, GatewayType,
     CallType, InFlight, Call
<1>37. ASSUME NEW c \in InFlight, CommitStarts(c)
      PROVE  OrderInv'
  BY <1>1, <1>37, CallFacts, LedgerCall, SMTT(30) DEF CommitStarts, Answer, Accepts, OrderInv, QueueRises,
     SentInOrder, UndecidedHeld, RollbackHasResult, RollbackSteps, LedgerInv, RunningUndecided,
     CommitInv, OnlyStarted, Started, entryVars, coordVars, workerVars, gatewayVars, historyVars,
     TypeInv, TypeOK, EntryType, CoordinatorType, WorkerType, GatewayType, CallType, InFlight, Call
<1>38. ASSUME NEW c \in InFlight, RollingBack(c)
      PROVE  OrderInv'
  BY <1>1, <1>38, CallFacts, LedgerCall DEF RollingBack, Answer, OrderInv, QueueRises,
     SentInOrder, UndecidedHeld, RollbackHasResult, RollbackSteps, LedgerInv, RunningUndecided,
     CommitInv, OnlyStarted, Started, entryVars, coordVars, workerVars, gatewayVars, historyVars,
     TypeInv, TypeOK, EntryType, CoordinatorType, WorkerType, GatewayType, CallType, InFlight, Call
<1>39. ASSUME NEW c \in InFlight, Refuse(c)
      PROVE  OrderInv'
  BY <1>1, <1>39, CallFacts, LedgerCall DEF Refuse, OrderInv, QueueRises, SentInOrder,
     UndecidedHeld, RollbackHasResult, RollbackSteps, LedgerInv, RunningUndecided, CommitInv,
     OnlyStarted, Started, entryVars, coordVars, workerVars, gatewayVars, historyVars, TypeInv,
     TypeOK, EntryType, CoordinatorType, WorkerType, GatewayType, CallType, InFlight, Call
<1>40. CASE CommitLands
  <2>1. /\ lock \in Requests /\ rstate[lock] = "committing"
        /\ rstate' = [rstate EXCEPT ![lock] = "retiring"] /\ rstate \in [Requests -> States]
    BY <1>40 DEF CommitLands, LedgerInv, WriteAwaited, TypeInv, TypeOK, EntryType, CoordinatorType
  <2>2. \A q \in Requests : rstate'[q] = "new" <=> rstate[q] = "new"
    BY <2>1
  <2>3. /\ UNCHANGED <<outcome, queue, running, wkind, wresult>>
        /\ wk' \in RollbackSteps => wk' = wk
    BY <1>40 DEF CommitLands, RollbackSteps
  <2> QED
    BY <2>2, <2>3, OrderQuiet
<1>41. CASE CommitFails
  BY <1>1, <1>41 DEF CommitFails, Fault, WritesAnswered, OrderInv, QueueRises, SentInOrder,
     UndecidedHeld, RollbackHasResult, RollbackSteps, LedgerInv, RunningUndecided, CommitInv,
     OnlyStarted, Started, entryVars, coordVars, workerVars, gatewayVars, historyVars, TypeInv,
     TypeOK, EntryType, CoordinatorType, WorkerType, GatewayType, CallType, InFlight, Call
<1>42. ASSUME NEW r \in Requests, KillUnlessSeen(r)
      PROVE  OrderInv'
  BY <1>1, <1>42 DEF KillUnlessSeen, Die, OrderInv, QueueRises, SentInOrder, UndecidedHeld,
     RollbackHasResult, RollbackSteps, LedgerInv, RunningUndecided, CommitInv, OnlyStarted, Started,
     entryVars, coordVars, workerVars, gatewayVars, historyVars, TypeInv, TypeOK, EntryType,
     CoordinatorType, WorkerType, GatewayType, CallType, InFlight, Call
<1>43. CASE WorkerDies
  BY <1>1, <1>43 DEF WorkerDies, Die, RollbackOutlives, OrderInv, QueueRises, SentInOrder,
     UndecidedHeld, RollbackHasResult, RollbackSteps, LedgerInv, RunningUndecided, CommitInv,
     OnlyStarted, Started, entryVars, coordVars, workerVars, gatewayVars, historyVars, TypeInv,
     TypeOK, EntryType, CoordinatorType, WorkerType, GatewayType, CallType, InFlight, Call
<1>44. CASE CoordinatorDies
  BY <1>1, <1>44 DEF CoordinatorDies, NoWorker, OrderInv, QueueRises, SentInOrder, UndecidedHeld,
     RollbackHasResult, RollbackSteps, LedgerInv, RunningUndecided, CommitInv, OnlyStarted, Started,
     entryVars, coordVars, workerVars, gatewayVars, historyVars, TypeInv, TypeOK, EntryType,
     CoordinatorType, WorkerType, GatewayType, CallType, InFlight, Call
<1> QED
  BY <1>2, <1>3, <1>4, <1>5, <1>6, <1>7, <1>8, <1>9, <1>10, <1>11, <1>12, <1>13, <1>14, <1>15,
     <1>16, <1>17, <1>18, <1>19, <1>20, <1>21, <1>22, <1>23, <1>24, <1>25, <1>26, <1>27, <1>28,
     <1>29, <1>30, <1>31, <1>32, <1>33, <1>34, <1>35, <1>36, <1>37, <1>38, <1>39, <1>40, <1>41,
     <1>42, <1>43, <1>44 DEF Next, Users, Coordinator, Worker, Trouble, Serve, Gateway

-----------------------------------------------------------------------------
(* The inductive invariant behind the switch that a commit waits for.        *)

\* The last routing is of these models, and every replica routes by it.
Told(models) ==
  /\ routing # 0 /\ routes # <<>> /\ routes[Len(routes)] = models
  /\ \A g \in Replicas : holds[g] = Len(routes)

\* The coordinator routes by the last routing, which no replica is ahead of.
RoutingLast ==
  /\ routing # 0 => routing = Len(routes)
  /\ \A g \in Replicas : holds[g] <= Len(routes)

\* A worker that waits for a switch waits for its own models' routing, the last one.
SwitchAwaited ==
  wkind = "run" /\ wk = "confirm" =>
    /\ routing # 0 /\ routes # <<>> /\ wseq = Len(routes) /\ routes[wseq] = plan.models

\* From a confirmed switch to the write, alive or dead, nobody routes by anything else.
SwitchLasts ==
  /\ wkind = "run" /\ wk = "commit" => Told(plan.models)
  /\ \A c \in late : c.op = "commit" /\ Accepts(c) => Told(c.models)
  /\ lock # None => Told(writing)

ConfirmInv == RoutingLast /\ SwitchAwaited /\ SwitchLasts

\* ConfirmInv does not see a step that leaves routings, replicas and calls alone and takes no worker
\* to its wait or its commit.
LEMMA ConfirmQuiet ==
  ASSUME ConfirmInv, UNCHANGED <<routes, routing, holds>>,
         late' \subseteq late,
         \A c \in late' : Accepts(c)' => Accepts(c),
         wkind' = "run" /\ wk' \in {"confirm", "commit"} =>
           UNCHANGED <<wkind, wk, wseq, plan>>,
         lock' # None => UNCHANGED <<lock, writing>>
  PROVE  ConfirmInv'
BY DEF ConfirmInv, RoutingLast, SwitchAwaited, SwitchLasts, Told

\* While a switch is awaited, or confirmed for a commit to come, nobody routes anew.
LEMMA NoNewRouting ==
  ASSUME TypeInv, CommitInv, ControlInv, ConfirmInv, UseVersion \/ ResetRouting
  PROVE  \/ UNCHANGED <<routes, routing>>
         \/ /\ ~(wkind = "run" /\ wk \in {"confirm", "commit"}) /\ lock = None
            /\ \A c \in late : c.op = "commit" => ~Accepts(c)
<1>1. CASE UseVersion
  <2> SUFFICES ASSUME routing = 0
               PROVE  /\ ~(wkind = "run" /\ wk \in {"confirm", "commit"}) /\ lock = None
                      /\ \A c \in late : c.op = "commit" => ~Accepts(c)
    BY <1>1 DEF UseVersion
  <2> QED
    BY DEF ConfirmInv, SwitchAwaited, SwitchLasts, Told
<1>2. CASE ResetRouting
  <2>1. wk = "rb_reset" /\ (lock = None \/ UNCHANGED <<routes, routing>>)
    BY <1>2 DEF ResetRouting
  <2>2. \A c \in late : c.op = "commit" => ~Accepts(c)
    <3> SUFFICES ASSUME NEW c \in late, c.op = "commit", Accepts(c) PROVE FALSE
      OBVIOUS
    <3>1. c \in InFlight
      BY DEF InFlight
    <3> QED
      BY <2>1, <3>1, ControlCall
  <2> QED
    BY <2>1, <2>2
<1> QED
  BY <1>1, <1>2

\* A new routing is the last.
LEMMA RouteLast ==
  ASSUME TypeInv, RoutingLast, NEW models, models \in Version \cup {NoVersion}, Route(models),
         holds' = holds
  PROVE  /\ RoutingLast' /\ routing' # 0 /\ routes' # <<>> /\ Len(routes') = Len(routes) + 1
         /\ routes'[Len(routes')] = models /\ routing' = Len(routes) + 1
<1>1. routes \in Seq(Version \cup {NoVersion}) /\ holds \in [Replicas -> Nat]
  BY DEF TypeInv, TypeOK, GatewayType
<1>2. /\ Len(routes') = Len(routes) + 1 /\ routes' # <<>> /\ routing' = Len(routes) + 1
      /\ routes'[Len(routes')] = models /\ routing' # 0
  BY <1>1 DEF Route
<1>3. \A g \in Replicas : holds'[g] <= Len(routes')
  BY <1>1, <1>2 DEF RoutingLast
<1> QED
  BY <1>2, <1>3 DEF RoutingLast

\* Every step keeps the invariant.
LEMMA ConfirmStep ==
  ASSUME TypeInv, CommitInv, ControlInv, ConfirmInv, [Next]_vars
  PROVE  ConfirmInv'
<1>1. None \notin Requests
  BY BoundAssumption DEF None, Requests
<1>2. CASE DrainEnds
  BY <1>2, ConfirmQuiet DEF DrainEnds, workerVars, historyVars, Accepts, entryVars, coordVars,
     gatewayVars
<1>3. CASE StartRecovery
  BY <1>3, ConfirmQuiet DEF StartRecovery, workerVars, historyVars, Accepts, entryVars, coordVars,
     gatewayVars
<1>4. CASE ReadVersion
  BY <1>4, ConfirmQuiet DEF ReadVersion, workerVars, historyVars, Accepts, entryVars, coordVars,
     gatewayVars
<1>5. CASE ComputeDiff
  BY <1>5, ConfirmQuiet DEF ComputeDiff, WorkerOnly, workerVars, Accepts, entryVars, coordVars,
     gatewayVars, historyVars
<1>6. CASE SourcesResolved
  BY <1>6, ConfirmQuiet DEF SourcesResolved, WorkerOnly, workerVars, Accepts, entryVars,
     coordVars, gatewayVars, historyVars
<1>7. CASE DeletePoll
  BY <1>7, ConfirmQuiet DEF DeletePoll, WorkerOnly, AfterDelete, workerVars, Accepts, entryVars,
     coordVars, gatewayVars, historyVars
<1>8. CASE SubmitRescales
  BY <1>8, ConfirmQuiet DEF SubmitRescales, WorkerOnly, AfterSubmit, workerVars, Accepts,
     entryVars, coordVars, gatewayVars, historyVars
<1>9. CASE SubmitDeploys
  BY <1>9, ConfirmQuiet DEF SubmitDeploys, WorkerOnly, workerVars, Accepts, entryVars, coordVars,
     gatewayVars, historyVars
<1>10. CASE Up
  BY <1>10, ConfirmQuiet DEF Up, WorkerOnly, AfterWait, workerVars, Accepts, entryVars, coordVars,
     gatewayVars, historyVars
<1>11. ASSUME NEW a \in App, Retry(a)
      PROVE  ConfirmInv'
  BY <1>11, ConfirmQuiet DEF Retry, WorkerOnly, workerVars, Accepts, entryVars, coordVars,
     gatewayVars, historyVars
<1>12. CASE ConfirmTimesOut
  BY <1>12, ConfirmQuiet DEF ConfirmTimesOut, WorkerOnly, workerVars, Accepts, entryVars,
     coordVars, gatewayVars, historyVars
<1>13. CASE Fails
  BY <1>13, ConfirmQuiet DEF Fails, WorkerOnly, Polling, Polls, workerVars, Accepts, entryVars,
     coordVars, gatewayVars, historyVars
<1>14. CASE RollbackDiff
  BY <1>14, ConfirmQuiet DEF RollbackDiff, workerVars, Accepts, entryVars, coordVars, gatewayVars,
     historyVars
<1>15. CASE RestoreScaling
  BY <1>15, ConfirmQuiet DEF RestoreScaling, workerVars, Accepts, entryVars, coordVars,
     gatewayVars, historyVars
<1>16. ASSUME NEW a \in App, AppStarts(a)
      PROVE  ConfirmInv'
  BY <1>16, ConfirmQuiet DEF AppStarts, Becomes, workerVars, Accepts, entryVars, coordVars,
     gatewayVars, historyVars
<1>17. ASSUME NEW a \in App, AppGone(a)
      PROVE  ConfirmInv'
  BY <1>17, ConfirmQuiet DEF AppGone, Becomes, workerVars, Accepts, entryVars, coordVars,
     gatewayVars, historyVars
<1>18. ASSUME NEW a \in App, AppFails(a)
      PROVE  ConfirmInv'
  BY <1>18, ConfirmQuiet DEF AppFails, Becomes, workerVars, Accepts, entryVars, coordVars,
     gatewayVars, historyVars
<1>19. ASSUME NEW a \in App, AppSickens(a)
      PROVE  ConfirmInv'
  BY <1>19, ConfirmQuiet DEF AppSickens, Becomes, workerVars, Accepts, entryVars, coordVars,
     gatewayVars, historyVars
<1>20. ASSUME NEW r \in Requests, CancelRunning(r)
      PROVE  ConfirmInv'
  BY <1>20, ConfirmQuiet DEF CancelRunning, workerVars, Accepts, entryVars, coordVars,
     gatewayVars, historyVars
<1>21. CASE SeesCancel
  BY <1>21, ConfirmQuiet DEF SeesCancel, Polling, Polls, workerVars, Accepts, entryVars,
     coordVars, gatewayVars, historyVars
<1>22. CASE UNCHANGED vars
  BY <1>22, ConfirmQuiet DEF vars, workerVars, Accepts, entryVars, coordVars, gatewayVars,
     historyVars
<1>23. CASE UseVersion
  <2>1. holds' = holds /\ UNCHANGED <<late, running, rstate, lock, writing, wkind, plan>>
    BY <1>23 DEF UseVersion, ResetRouting, entryVars, workerVars
  <2>2. CASE UNCHANGED <<routes, routing>>
    BY <1>23, <2>1, <2>2, ConfirmQuiet DEF UseVersion, ResetRouting, workerVars, Accepts
  <2>3. CASE ~UNCHANGED <<routes, routing>>
    <3>1. /\ ~(wkind = "run" /\ wk \in {"confirm", "commit"}) /\ lock = None
          /\ \A c \in late : c.op = "commit" => ~Accepts(c)
      BY <1>23, <2>3, NoNewRouting
    <3>2. PICK models \in Version \cup {NoVersion} : Route(models)
      BY <1>23, <2>3 DEF UseVersion, ResetRouting, TypeInv, TypeOK, CoordinatorType
    <3>3. RoutingLast'
      BY <2>1, <3>2, RouteLast DEF ConfirmInv
    <3>4. wk' \notin {"confirm", "commit"} \/ wk' = wk
      BY <1>23 DEF UseVersion, ResetRouting, workerVars
    <3> QED
      BY <2>1, <3>1, <3>3, <3>4 DEF ConfirmInv, SwitchAwaited, SwitchLasts, Accepts
  <2> QED
    BY <2>2, <2>3
<1>24. CASE ResetRouting
  <2>1. holds' = holds /\ UNCHANGED <<late, running, rstate, lock, writing, wkind, plan>>
    BY <1>24 DEF UseVersion, ResetRouting, entryVars, workerVars
  <2>2. CASE UNCHANGED <<routes, routing>>
    BY <1>24, <2>1, <2>2, ConfirmQuiet DEF UseVersion, ResetRouting, workerVars, Accepts
  <2>3. CASE ~UNCHANGED <<routes, routing>>
    <3>1. /\ ~(wkind = "run" /\ wk \in {"confirm", "commit"}) /\ lock = None
          /\ \A c \in late : c.op = "commit" => ~Accepts(c)
      BY <1>24, <2>3, NoNewRouting
    <3>2. PICK models \in Version \cup {NoVersion} : Route(models)
      BY <1>24, <2>3 DEF UseVersion, ResetRouting, TypeInv, TypeOK, CoordinatorType
    <3>3. RoutingLast'
      BY <2>1, <3>2, RouteLast DEF ConfirmInv
    <3>4. wk' \notin {"confirm", "commit"} \/ wk' = wk
      BY <1>24 DEF UseVersion, ResetRouting, workerVars
    <3> QED
      BY <2>1, <3>1, <3>3, <3>4 DEF ConfirmInv, SwitchAwaited, SwitchLasts, Accepts
  <2> QED
    BY <2>2, <2>3
<1>25. CASE Confirmed
  <2>1. /\ UNCHANGED <<routes, routing, holds, late, running, rstate, lock, writing, wkind, plan, wseq>>
        /\ wk' \in {"commit", "rb_diff"} /\ AllHold(wseq)
        /\ wk' = "commit" => wk = "confirm"
    BY <1>25 DEF Confirmed, WorkerOnly, entryVars, coordVars, gatewayVars
  <2>2. wkind = "run" /\ wk' = "commit" => Told(plan.models)
    BY <1>25, <2>1 DEF Confirmed, ConfirmInv, SwitchAwaited, Told, AllHold
  <2> QED
    BY <2>1, <2>2 DEF ConfirmInv, RoutingLast, SwitchAwaited, SwitchLasts, Told, Accepts
<1>26. ASSUME NEW g \in Replicas, ReplicaFollows(g)
      PROVE  ConfirmInv'
  <2>1. PICK seq \in (holds[g] + 1)..Len(routes) : holds' = [holds EXCEPT ![g] = seq]
    BY <1>26 DEF ReplicaFollows
  <2>2. /\ holds \in [Replicas -> Nat] /\ routes \in Seq(Version \cup {NoVersion})
        /\ UNCHANGED <<routes, routing, late, running, rstate, lock, writing, wkind, wk, wseq, plan>>
    BY <1>26 DEF ReplicaFollows, entryVars, coordVars, workerVars, TypeInv, TypeOK, GatewayType
  <2>3. holds[g] # Len(routes)
    BY <2>1, <2>2
  <2>4. RoutingLast'
    BY <2>1, <2>2 DEF ConfirmInv, RoutingLast
  <2>5. SwitchAwaited'
    BY <2>2 DEF ConfirmInv, SwitchAwaited
  <2>6. SwitchLasts'
    BY <2>2, <2>3 DEF ConfirmInv, SwitchLasts, Told, Accepts
  <2> QED
    BY <2>4, <2>5, <2>6 DEF ConfirmInv
<1>27. ASSUME NEW r \in Requests, NEW request \in Inputs, Submit(r, request)
      PROVE  ConfirmInv'
  BY <1>1, <1>27 DEF Submit, ConfirmInv, RoutingLast, SwitchAwaited, SwitchLasts, Told, ControlInv,
     WorkerKinds, LockHeld, CallsFresh, CommitInv, OnlyStarted, Started, Accepts, entryVars,
     coordVars, workerVars, gatewayVars, historyVars, TypeInv, TypeOK, EntryType, CoordinatorType,
     WorkerType, GatewayType, CallType, InFlight, Call
<1>28. ASSUME NEW r \in Requests, CancelQueued(r)
      PROVE  ConfirmInv'
  BY <1>28, ConfirmQuiet DEF CancelQueued, workerVars, gatewayVars, Accepts
<1>29. CASE Pick
  <2> DEFINE r == Head(queue)
  <2>1. r = queue[1] /\ 1 \in 1..Len(queue) /\ r \in Requests
    BY <1>29 DEF Pick, TypeInv, TypeOK, CoordinatorType
  <2>2. \A c \in late : c.r # r
    BY <2>1 DEF CommitInv, QueueOnce, OnlyStarted, Started
  <2>3. /\ running' = r /\ wk' = "diff"
        /\ UNCHANGED <<routes, routing, holds, late, lock, writing>>
    BY <1>29 DEF Pick, NewWorker, gatewayVars
  <2> QED
    BY <2>2, <2>3, ConfirmQuiet DEF Accepts
<1>30. CASE RunEnds
  BY <1>1, <1>30 DEF RunEnds, Ends, NoWorker, ConfirmInv, RoutingLast, SwitchAwaited, SwitchLasts,
     Told, ControlInv, WorkerKinds, LockHeld, CallsFresh, CommitInv, OnlyStarted, Started, Accepts,
     entryVars, coordVars, workerVars, gatewayVars, historyVars, TypeInv, TypeOK, EntryType,
     CoordinatorType, WorkerType, GatewayType, CallType, InFlight, Call
<1>31. CASE DeathSeen
  BY <1>1, <1>31 DEF DeathSeen, NewWorker, ConfirmInv, RoutingLast, SwitchAwaited, SwitchLasts,
     Told, ControlInv, WorkerKinds, LockHeld, CallsFresh, CommitInv, OnlyStarted, Started, Accepts,
     entryVars, coordVars, workerVars, gatewayVars, historyVars, TypeInv, TypeOK, EntryType,
     CoordinatorType, WorkerType, GatewayType, CallType, InFlight, Call
<1>32. CASE RollbackEnds
  BY <1>1, <1>32 DEF RollbackEnds, Ends, NoWorker, ConfirmInv, RoutingLast, SwitchAwaited,
     SwitchLasts, Told, ControlInv, WorkerKinds, LockHeld, CallsFresh, CommitInv, OnlyStarted, Started,
     Accepts, entryVars, coordVars, workerVars, gatewayVars, historyVars, TypeInv, TypeOK, EntryType,
     CoordinatorType, WorkerType, GatewayType, CallType, InFlight, Call
<1>33. CASE Recover
  BY <1>1, <1>33 DEF Recover, NewWorker, ConfirmInv, RoutingLast, SwitchAwaited, SwitchLasts,
     Told, ControlInv, WorkerKinds, LockHeld, CallsFresh, CommitInv, OnlyStarted, Started, Accepts,
     entryVars, coordVars, workerVars, gatewayVars, historyVars, TypeInv, TypeOK, EntryType,
     CoordinatorType, WorkerType, GatewayType, CallType, InFlight, Call
<1>34. CASE RecoveryEnds
  BY <1>1, <1>34 DEF RecoveryEnds, NoWorker, ConfirmInv, RoutingLast, SwitchAwaited, SwitchLasts,
     Told, ControlInv, WorkerKinds, LockHeld, CallsFresh, CommitInv, OnlyStarted, Started, Accepts,
     entryVars, coordVars, workerVars, gatewayVars, historyVars, TypeInv, TypeOK, EntryType,
     CoordinatorType, WorkerType, GatewayType, CallType, InFlight, Call
<1>35. ASSUME NEW c \in InFlight, Switch(c)
      PROVE  ConfirmInv'
  <2>1. c \in CallType /\ c.models \in Version \cup {NoVersion} /\ c.r \in Requests
    BY CallFacts DEF CallType
  <2>2. /\ c.op = "switch" /\ running = c.r /\ wkind = "run" /\ wk \in {"switch", "dead"} /\ Accepts(c)
    BY <1>35, ControlCall DEF Switch, Accepts
  <2>3. /\ Route(c.models) /\ UNCHANGED <<holds, running, lock, writing, wkind, plan>>
    BY <1>35 DEF Switch
  <2>4. /\ RoutingLast' /\ routing' # 0 /\ routes' # <<>> /\ Len(routes') = Len(routes) + 1
        /\ routes'[Len(routes')] = c.models
    BY <2>1, <2>3, RouteLast DEF ConfirmInv
  <2>5. lock = None
    BY <2>2, ControlCall
  <2>6. \A d \in late' : d.op = "commit" => running # d.r
    BY <1>35, <2>2, CallFacts DEF Switch, Answer
  <2>7. CASE c \in late
    <3>1. wk' = "dead"
      BY <1>35, <2>2, <2>7 DEF Switch, Answer, CommitInv, OneCall
    <3> QED
      BY <2>3, <2>4, <2>5, <2>6, <3>1 DEF ConfirmInv, SwitchAwaited, SwitchLasts, Accepts
  <2>8. CASE c \notin late
    <3>1. wk' = "confirm" /\ wseq' = Len(routes) + 1 /\ plan.models = c.models
      BY <1>35, <2>8 DEF Switch, Answer, InFlight, Call
    <3> QED
      BY <2>3, <2>4, <2>5, <2>6, <3>1 DEF ConfirmInv, SwitchAwaited, SwitchLasts, Accepts
  <2> QED
    BY <2>7, <2>8
<1>36. ASSUME NEW c \in InFlight, CommitCancelled(c)
      PROVE  ConfirmInv'
  BY <1>1, <1>36, CallFacts, ControlCall DEF CommitCancelled, Answer, Accepts, ConfirmInv,
     RoutingLast, SwitchAwaited, SwitchLasts, Told, ControlInv, WorkerKinds, LockHeld, CallsFresh,
     CommitInv, OnlyStarted, Started, entryVars, coordVars, workerVars, gatewayVars, historyVars,
     TypeInv, TypeOK, EntryType, CoordinatorType, WorkerType, GatewayType, CallType, InFlight, Call
<1>37. ASSUME NEW c \in InFlight, CommitStarts(c)
      PROVE  ConfirmInv'
  <2>1. /\ c.op = "commit" /\ Accepts(c) /\ lock' = c.r /\ writing' = c.models
        /\ UNCHANGED <<routes, routing, holds, running, wkind, plan, wseq>>
        /\ rstate' = [rstate EXCEPT ![c.r] = "committing"]
    BY <1>37 DEF CommitStarts, gatewayVars
  <2>2. Told(c.models)
    <3>1. CASE c \in late
      BY <2>1, <3>1 DEF ConfirmInv, SwitchLasts
    <3>2. CASE c \notin late
      BY <2>1, <3>2 DEF ConfirmInv, SwitchLasts, InFlight, Call
    <3> QED
      BY <3>1, <3>2
  <2>3. late' \subseteq late /\ \A d \in late' : d.r # c.r
    BY <1>37, CallFacts DEF CommitStarts, Answer
  <2>4. wkind = "run" => wk' \in {"committing", "dead"}
    BY <1>37, <2>1, ControlCall, CallFacts DEF CommitStarts, Answer, CommitInv, OneCall, Accepts
  <2>5. \A d \in late' : Accepts(d)' => Accepts(d)
    BY <2>1, <2>3 DEF Accepts, TypeInv, TypeOK, EntryType
  <2> QED
    BY <2>1, <2>2, <2>3, <2>4, <2>5
       DEF ConfirmInv, RoutingLast, SwitchAwaited, SwitchLasts, Told
<1>38. ASSUME NEW c \in InFlight, RollingBack(c)
      PROVE  ConfirmInv'
  <2>1. /\ UNCHANGED <<routes, routing, holds, running, lock, writing, wkind, plan, wseq>>
        /\ late' \subseteq late /\ c.r \in Requests
    BY <1>38, CallFacts DEF RollingBack, Answer, coordVars, gatewayVars, CallType
  <2>2. \A d \in late' : Accepts(d)' => Accepts(d)
    BY <1>38, <2>1 DEF RollingBack, Accepts, TypeInv, TypeOK, EntryType, WorkerType, CallType
  <2>3. wk' = wk \/ wk' = "rb_reset"
    BY <1>38 DEF RollingBack, Answer
  <2> QED
    BY <2>1, <2>2, <2>3, ConfirmQuiet
<1>39. ASSUME NEW c \in InFlight, Refuse(c)
      PROVE  ConfirmInv'
  BY <1>1, <1>39, CallFacts, ControlCall DEF Refuse, ConfirmInv, RoutingLast, SwitchAwaited,
     SwitchLasts, Told, ControlInv, WorkerKinds, LockHeld, CallsFresh, CommitInv, OnlyStarted, Started,
     Accepts, entryVars, coordVars, workerVars, gatewayVars, historyVars, TypeInv, TypeOK, EntryType,
     CoordinatorType, WorkerType, GatewayType, CallType, InFlight, Call
<1>40. CASE CommitLands
  <2>1. /\ UNCHANGED <<routes, routing, holds, running, wkind, plan, wseq, late>>
        /\ lock # None /\ lock' = None /\ rstate' = [rstate EXCEPT ![lock] = "retiring"]
    BY <1>40 DEF CommitLands, gatewayVars
  <2>2. ~(wkind' = "run" /\ wk' \in {"confirm", "commit"})
    BY <1>40, <2>1 DEF CommitLands, ControlInv, LockHeld
  <2>3. \A c \in late : c.op = "commit" => ~Accepts(c)'
    BY <2>1 DEF ControlInv, CallsFresh, Writes, Accepts, TypeInv, TypeOK, EntryType
  <2> QED
    BY <2>1, <2>2, <2>3 DEF ConfirmInv, RoutingLast, SwitchAwaited, SwitchLasts, Told
<1>41. CASE CommitFails
  BY <1>1, <1>41 DEF CommitFails, Fault, WritesAnswered, ConfirmInv, RoutingLast, SwitchAwaited,
     SwitchLasts, Told, ControlInv, WorkerKinds, LockHeld, CallsFresh, CommitInv, OnlyStarted, Started,
     Accepts, entryVars, coordVars, workerVars, gatewayVars, historyVars, TypeInv, TypeOK, EntryType,
     CoordinatorType, WorkerType, GatewayType, CallType, InFlight, Call
<1>42. ASSUME NEW r \in Requests, KillUnlessSeen(r)
      PROVE  ConfirmInv'
  <2>1. /\ UNCHANGED <<routes, routing, holds, running, rstate, lock, writing, wkind, plan, wseq>>
        /\ (wk' = wk /\ late' = late) \/ (wk' = "dead" /\ late' = InFlight)
    BY <1>42 DEF KillUnlessSeen, Die, entryVars, coordVars, gatewayVars
  <2>2. \A c \in late' : c.op = "commit" /\ Accepts(c) => Told(c.models)
    BY <2>1 DEF ConfirmInv, SwitchLasts, InFlight, Call
  <2> QED
    BY <2>1, <2>2 DEF ConfirmInv, RoutingLast, SwitchAwaited, SwitchLasts, Told, Accepts
<1>43. CASE WorkerDies
  <2>1. /\ UNCHANGED <<routes, routing, holds, running, rstate, lock, writing, wkind, plan, wseq>>
        /\ (wk' = wk /\ late' = late) \/ (wk' = "dead" /\ late' = InFlight)
    BY <1>43 DEF WorkerDies, Die, entryVars, coordVars, gatewayVars
  <2>2. \A c \in late' : c.op = "commit" /\ Accepts(c) => Told(c.models)
    BY <2>1 DEF ConfirmInv, SwitchLasts, InFlight, Call
  <2> QED
    BY <2>1, <2>2 DEF ConfirmInv, RoutingLast, SwitchAwaited, SwitchLasts, Told, Accepts
<1>44. CASE CoordinatorDies
  BY <1>1, <1>44 DEF CoordinatorDies, NoWorker, ConfirmInv, RoutingLast, SwitchAwaited,
     SwitchLasts, Told, ControlInv, WorkerKinds, LockHeld, CallsFresh, CommitInv, OnlyStarted, Started,
     Accepts, entryVars, coordVars, workerVars, gatewayVars, historyVars, TypeInv, TypeOK, EntryType,
     CoordinatorType, WorkerType, GatewayType, CallType, InFlight, Call
<1> QED
  BY <1>2, <1>3, <1>4, <1>5, <1>6, <1>7, <1>8, <1>9, <1>10, <1>11, <1>12, <1>13, <1>14, <1>15,
     <1>16, <1>17, <1>18, <1>19, <1>20, <1>21, <1>22, <1>23, <1>24, <1>25, <1>26, <1>27, <1>28,
     <1>29, <1>30, <1>31, <1>32, <1>33, <1>34, <1>35, <1>36, <1>37, <1>38, <1>39, <1>40, <1>41,
     <1>42, <1>43, <1>44 DEF Next, Users, Coordinator, Worker, Trouble, Serve, Gateway

-----------------------------------------------------------------------------
(* The theorems about outcomes and commits.                                  *)

\* The first state has the three invariants.
LEMMA InitLedger == Init => LedgerInv /\ OrderInv /\ ConfirmInv
<1> SUFFICES ASSUME Init PROVE LedgerInv /\ OrderInv /\ ConfirmInv
  OBVIOUS
<1>1. LedgerInv
  BY BoundAssumption
     DEF Init, LedgerInv, RunningUndecided, WriteAwaited, RetiringLanded, CommitBeforeWrite, SuccessEarned,
         OutcomeMatchesLedger, Writes
<1>2. OrderInv
  BY DEF Init, OrderInv, QueueRises, SentInOrder, UndecidedHeld, RollbackHasResult
<1>3. ConfirmInv
  BY DEF Init, ConfirmInv, RoutingLast, SwitchAwaited, SwitchLasts
<1> QED
  BY <1>1, <1>2, <1>3

\* Only a write that holds the lock lands.
LEMMA LandsLock ==
  ASSUME [Next]_vars, NEW r \in landed' \ landed
  PROVE  lock # None /\ r = lock /\ committed' = writing
BY DEF Next, Users, Coordinator, Worker, Trouble, Serve, Gateway, Submit, CancelQueued, CancelRunning,
       Pick, DrainEnds, RunEnds, Ends, DeathSeen, RollbackEnds, StartRecovery, ReadVersion, UseVersion,
       Recover, RecoveryEnds, Switch, CommitCancelled, CommitStarts, RollingBack, Refuse, CommitLands,
       ResetRouting, KillUnlessSeen, ComputeDiff, SourcesResolved, DeletePoll, SubmitRescales,
       SubmitDeploys, Up, Retry, Confirmed, SeesCancel, RollbackDiff, RestoreScaling, ConfirmTimesOut,
       Fails, CommitFails, WorkerDies, CoordinatorDies, AppStarts, AppGone, AppFails, AppSickens,
       Becomes, ReplicaFollows, WorkerOnly, historyVars, vars

\* What lands is the version of the running request, whose turn it is and which everybody routes by.
LEMMA LandsInTurn ==
  ASSUME TypeInv, CommitInv, LedgerInv, OrderInv, ConfirmInv, [Next]_vars, NEW r \in landed' \ landed
  PROVE  InTurn(r) /\ ReplicasTold
<1>1. lock # None /\ r = lock /\ committed' = writing
  BY LandsLock
<1>2. r \in Requests /\ r = running /\ outcome[r] = "none" /\ rstate[r] = "committing"
  BY <1>1 DEF LedgerInv, WriteAwaited, RunningUndecided, TypeInv, TypeOK, CoordinatorType
<1>3. ASSUME NEW q \in 1..(r - 1) PROVE outcome[q] # "none"
  <2>1. q \in Requests /\ q < r /\ r > q /\ Requests \subseteq Nat
    BY <1>2, BoundAssumption DEF Requests
  <2>2. rstate[q] # "new"
    BY <1>2, <2>1 DEF OrderInv, SentInOrder
  <2>3. \A i \in 1..Len(queue) : queue[i] \in Requests /\ running < queue[i]
    BY <1>1, <1>2 DEF OrderInv, QueueRises, TypeInv, TypeOK, CoordinatorType
  <2>4. q # running /\ \A i \in 1..Len(queue) : queue[i] # q
    BY <1>2, <2>1, <2>3
  <2> QED
    BY <2>1, <2>2, <2>4 DEF OrderInv, UndecidedHeld
<1>4. ReplicasTold
  <2>1. Told(writing) /\ routes \in Seq(Version \cup {NoVersion})
    BY <1>1 DEF ConfirmInv, SwitchLasts, TypeInv, TypeOK, GatewayType
  <2>2. Len(routes) # 0
    BY <2>1 DEF Told
  <2> QED
    BY <1>1, <2>1, <2>2 DEF ReplicasTold, RoutedBy, Told
<1> QED
  BY <1>2, <1>3, <1>4 DEF InTurn

\* The invariants of a cluster whose writes are answered and whose rollbacks outlive them.
LEMMA LedgerHolds ==
  ASSUME WritesAnswered
  PROVE  Spec /\ [][RollbackOutlives]_vars
           => [](TypeInv /\ CommitInv /\ ControlInv /\ LedgerInv /\ OrderInv /\ ConfirmInv)
<1> DEFINE I == TypeInv /\ CommitInv /\ ControlInv /\ LedgerInv /\ OrderInv /\ ConfirmInv
<1>1. Init => I
  BY InitType, InitCommit, InitControl, InitLedger
<1>2. I /\ [Next]_vars /\ [RollbackOutlives]_vars => I'
  <2> SUFFICES ASSUME I, [Next]_vars, [RollbackOutlives]_vars PROVE I'
    OBVIOUS
  <2>1. CASE UNCHANGED vars
    <3>1. TypeInv' /\ CommitInv' /\ ControlInv' /\ OrderInv' /\ ConfirmInv'
      BY TypeStep, CommitStep, ControlStep, OrderStep, ConfirmStep
    <3>2. LedgerInv'
      BY <2>1
         DEF vars, entryVars, coordVars, workerVars, historyVars, LedgerInv, RunningUndecided, WriteAwaited,
             RetiringLanded, CommitBeforeWrite, SuccessEarned, OutcomeMatchesLedger, Writes
    <3> QED
      BY <3>1, <3>2
  <2>2. CASE RollbackOutlives
    BY <2>2, TypeStep, CommitStep, ControlStep, LedgerStep, OrderStep, ConfirmStep
  <2> QED
    BY <2>1, <2>2
<1> QED
  BY <1>1, <1>2, PTL DEF Spec

(* The outcome tells what the store holds (_apply), for any number of          *)
(* requests and of worker and coordinator deaths: a request that switched the  *)
(* gateway succeeded only if its version landed, a failed or cancelled one     *)
(* wrote nothing.                                                              *)
THEOREM OutcomesTold ==
  WritesAnswered => (Spec /\ [][RollbackOutlives]_vars => []OutcomeMatchesLedger)
<1> SUFFICES ASSUME WritesAnswered PROVE Spec /\ [][RollbackOutlives]_vars => []OutcomeMatchesLedger
  OBVIOUS
<1>1. LedgerInv => OutcomeMatchesLedger
  BY DEF LedgerInv
<1> QED
  BY <1>1, LedgerHolds, PTL

(* A gateway's versions land in the order its requests were sent, none while   *)
(* an earlier request is undecided nor after its own was, and only when every  *)
(* gateway replica routes by the version that lands (commit, wait_switched).   *)
THEOREM CommitsInTurn ==
  WritesAnswered =>
    (Spec /\ [][RollbackOutlives]_vars => [][\A r \in landed' \ landed : InTurn(r) /\ ReplicasTold]_vars)
<1> SUFFICES ASSUME WritesAnswered
             PROVE  Spec /\ [][RollbackOutlives]_vars
                      => [][\A r \in landed' \ landed : InTurn(r) /\ ReplicasTold]_vars
  OBVIOUS
<1> DEFINE I == TypeInv /\ CommitInv /\ ControlInv /\ LedgerInv /\ OrderInv /\ ConfirmInv
<1>1. I /\ [Next]_vars => [\A r \in landed' \ landed : InTurn(r) /\ ReplicasTold]_vars
  BY LandsInTurn
<1>2. Spec /\ [][RollbackOutlives]_vars => []I
  BY LedgerHolds
<1> QED
  BY <1>1, <1>2, PTL DEF Spec

-----------------------------------------------------------------------------
(* What the gateway routes by.                                               *)

Settled == {"none", "retire", "report"} \cup BeforeSwitch

\* What a version read before an await is worth when it is used.
ReadFresh == routing = 0 /\ rv # <<>> => rv[1] = committed

\* A gateway is routed before a version is written.
RoutedFirst == (lock # None => routing # 0) /\ \A c \in late : c.op = "commit" => routing # 0

\* A worker past its switch has the gateway routed by its models; a rollback past its reset, and a
\* worker that has not switched, by the committed ones.
RoutedFor ==
  /\ wk \in {"confirm", "commit", "committing"} => routing # 0 /\ routes[routing] = plan.models
  /\ wk \in Rolling => routing # 0 /\ routes[routing] = committed
  /\ wk \in Settled /\ ~abandoned /\ routing # 0 => routes[routing] = committed

RoutingInv == ReadFresh /\ RoutedFirst /\ RoutedFor

\* A new routing is of the models it was made for.
LEMMA RouteTo ==
  ASSUME TypeInv, NEW models, models \in Version \cup {NoVersion}, Route(models)
  PROVE  routing' # 0 /\ routes'[routing'] = models
<1>1. routes \in Seq(Version \cup {NoVersion})
  BY DEF TypeInv, TypeOK, GatewayType
<1> QED
  BY <1>1 DEF Route

\* Every step keeps it.
LEMMA RoutingStep ==
  ASSUME TypeInv, CommitInv, ControlInv, RoutingInv, [Next]_vars
  PROVE  RoutingInv'
<1>1. /\ running \in Requests \cup {None} /\ None \notin Requests
      /\ late \subseteq CallType /\ wk \in Steps /\ lock \in Requests \cup {None}
      /\ wkind \in {"none", "run", "rollback", "recovery"} /\ abandoned \in BOOLEAN
      /\ committed \in Version \cup {NoVersion} /\ rv \in Seq(Version \cup {NoVersion})
  BY BoundAssumption
     DEF TypeInv, TypeOK, EntryType, CoordinatorType, WorkerType, HistoryType, None, Requests
<1>2. CASE DrainEnds
  BY <1>2, <1>1 DEF DrainEnds, entryVars, coordVars, workerVars, gatewayVars, historyVars,
     RoutingInv, ReadFresh, RoutedFirst, RoutedFor, ControlInv, WorkerKinds, LockHeld, Settled,
     BeforeSwitch, Rolling, RollbackWork
<1>3. CASE StartRecovery
  BY <1>3, <1>1 DEF StartRecovery, entryVars, coordVars, workerVars, gatewayVars, historyVars,
     RoutingInv, ReadFresh, RoutedFirst, RoutedFor, ControlInv, WorkerKinds, LockHeld, Settled,
     BeforeSwitch, Rolling, RollbackWork
<1>4. CASE ReadVersion
  BY <1>4, <1>1 DEF ReadVersion, entryVars, coordVars, workerVars, gatewayVars, historyVars,
     RoutingInv, ReadFresh, RoutedFirst, RoutedFor, ControlInv, WorkerKinds, LockHeld, Settled,
     BeforeSwitch, Rolling, RollbackWork
<1>5. CASE UseVersion
  <2>1. /\ rv # <<>> /\ rv' = <<>> /\ UNCHANGED <<late, lock, committed, wk, plan, abandoned>>
        /\ IF routing = 0 THEN Route(rv[1]) ELSE UNCHANGED <<routes, routing>>
    BY <1>5 DEF UseVersion, workerVars, historyVars
  <2>2. CASE routing = 0
    <3>1. rv[1] = committed
      BY <2>1, <2>2 DEF RoutingInv, ReadFresh
    <3>2. routing' # 0 /\ routes'[routing'] = committed
      BY <1>1, <2>1, <2>2, <3>1, RouteTo
    <3> QED
      BY <2>1, <2>2, <3>2 DEF RoutingInv, ReadFresh, RoutedFirst, RoutedFor
  <2>3. CASE routing # 0
    BY <2>1, <2>3 DEF RoutingInv, ReadFresh, RoutedFirst, RoutedFor
  <2> QED
    BY <2>2, <2>3
<1>6. CASE ComputeDiff
  BY <1>6, <1>1 DEF ComputeDiff, WorkerOnly, Unwarned, Polling, Polls, entryVars, coordVars,
     workerVars, gatewayVars, historyVars, RoutingInv, ReadFresh, RoutedFirst, RoutedFor,
     ControlInv, WorkerKinds, LockHeld, Settled, BeforeSwitch, Rolling, RollbackWork
<1>7. CASE SourcesResolved
  BY <1>7, <1>1 DEF SourcesResolved, WorkerOnly, entryVars, coordVars, workerVars, gatewayVars,
     historyVars, RoutingInv, ReadFresh, RoutedFirst, RoutedFor, ControlInv, WorkerKinds, LockHeld,
     Settled, BeforeSwitch, Rolling, RollbackWork
<1>8. CASE DeletePoll
  BY <1>8, <1>1 DEF DeletePoll, WorkerOnly, AfterDelete, entryVars, coordVars, workerVars,
     gatewayVars, historyVars, RoutingInv, ReadFresh, RoutedFirst, RoutedFor, ControlInv,
     WorkerKinds, LockHeld, Settled, BeforeSwitch, Rolling, RollbackWork
<1>9. CASE SubmitRescales
  BY <1>9, <1>1 DEF SubmitRescales, WorkerOnly, AfterSubmit, entryVars, coordVars, workerVars,
     gatewayVars, historyVars, RoutingInv, ReadFresh, RoutedFirst, RoutedFor, ControlInv,
     WorkerKinds, LockHeld, Settled, BeforeSwitch, Rolling, RollbackWork
<1>10. CASE SubmitDeploys
  BY <1>10, <1>1 DEF SubmitDeploys, WorkerOnly, entryVars, coordVars, workerVars, gatewayVars,
     historyVars, RoutingInv, ReadFresh, RoutedFirst, RoutedFor, ControlInv, WorkerKinds, LockHeld,
     Settled, BeforeSwitch, Rolling, RollbackWork
<1>11. CASE Up
  BY <1>11, <1>1 DEF Up, WorkerOnly, AfterWait, entryVars, coordVars, workerVars, gatewayVars,
     historyVars, RoutingInv, ReadFresh, RoutedFirst, RoutedFor, ControlInv, WorkerKinds, LockHeld,
     Settled, BeforeSwitch, Rolling, RollbackWork
<1>12. ASSUME NEW a \in App, Retry(a)
      PROVE  RoutingInv'
  BY <1>12, <1>1 DEF Retry, WorkerOnly, entryVars, coordVars, workerVars, gatewayVars, historyVars,
     RoutingInv, ReadFresh, RoutedFirst, RoutedFor, ControlInv, WorkerKinds, LockHeld, Settled,
     BeforeSwitch, Rolling, RollbackWork
<1>13. CASE Confirmed
  BY <1>13, <1>1 DEF Confirmed, WorkerOnly, entryVars, coordVars, workerVars, gatewayVars,
     historyVars, RoutingInv, ReadFresh, RoutedFirst, RoutedFor, ControlInv, WorkerKinds, LockHeld,
     Settled, BeforeSwitch, Rolling, RollbackWork
<1>14. CASE ConfirmTimesOut
  BY <1>14, <1>1 DEF ConfirmTimesOut, WorkerOnly, entryVars, coordVars, workerVars, gatewayVars,
     historyVars, RoutingInv, ReadFresh, RoutedFirst, RoutedFor, ControlInv, WorkerKinds, LockHeld,
     Settled, BeforeSwitch, Rolling, RollbackWork
<1>15. CASE Fails
  BY <1>15, <1>1 DEF Fails, WorkerOnly, Polling, Polls, entryVars, coordVars, workerVars,
     gatewayVars, historyVars, RoutingInv, ReadFresh, RoutedFirst, RoutedFor, ControlInv,
     WorkerKinds, LockHeld, Settled, BeforeSwitch, Rolling, RollbackWork
<1>16. CASE RollbackDiff
  BY <1>16, <1>1 DEF RollbackDiff, entryVars, coordVars, workerVars, gatewayVars, historyVars,
     RoutingInv, ReadFresh, RoutedFirst, RoutedFor, ControlInv, WorkerKinds, LockHeld, Settled,
     BeforeSwitch, Rolling, RollbackWork
<1>17. CASE RestoreScaling
  BY <1>17, <1>1 DEF RestoreScaling, Fault, NoFault, entryVars, coordVars, workerVars, gatewayVars,
     historyVars, RoutingInv, ReadFresh, RoutedFirst, RoutedFor, ControlInv, WorkerKinds, LockHeld,
     Settled, BeforeSwitch, Rolling, RollbackWork
<1>18. CASE ResetRouting
  <2>1. wk = "rb_reset" /\ UNCHANGED <<late, lock, rv, committed, plan, abandoned>>
    BY <1>18 DEF ResetRouting
  <2>2. CASE wk' = "raised" /\ UNCHANGED <<routes, routing>>
    BY <2>1, <2>2 DEF RoutingInv, ReadFresh, RoutedFirst, RoutedFor, Settled, BeforeSwitch, Rolling
  <2>3. CASE wk' \in Rolling /\ routing' # 0 /\ routes'[routing'] = committed
    BY <2>1, <2>3 DEF RoutingInv, ReadFresh, RoutedFirst, RoutedFor, Settled, BeforeSwitch, Rolling
  <2>4. Route(committed) => routing' # 0 /\ routes'[routing'] = committed
    BY <1>1, RouteTo
  <2> QED
    BY <1>18, <2>2, <2>3, <2>4 DEF ResetRouting, Rolling
<1>19. ASSUME NEW a \in App, AppStarts(a)
      PROVE  RoutingInv'
  BY <1>19, <1>1 DEF AppStarts, Becomes, entryVars, coordVars, workerVars, gatewayVars, historyVars,
     RoutingInv, ReadFresh, RoutedFirst, RoutedFor, ControlInv, WorkerKinds, LockHeld, Settled,
     BeforeSwitch, Rolling, RollbackWork
<1>20. ASSUME NEW a \in App, AppGone(a)
      PROVE  RoutingInv'
  BY <1>20, <1>1 DEF AppGone, Becomes, entryVars, coordVars, workerVars, gatewayVars, historyVars,
     RoutingInv, ReadFresh, RoutedFirst, RoutedFor, ControlInv, WorkerKinds, LockHeld, Settled,
     BeforeSwitch, Rolling, RollbackWork
<1>21. ASSUME NEW a \in App, AppFails(a)
      PROVE  RoutingInv'
  BY <1>21, <1>1 DEF AppFails, Becomes, entryVars, coordVars, workerVars, gatewayVars, historyVars,
     RoutingInv, ReadFresh, RoutedFirst, RoutedFor, ControlInv, WorkerKinds, LockHeld, Settled,
     BeforeSwitch, Rolling, RollbackWork
<1>22. ASSUME NEW a \in App, AppSickens(a)
      PROVE  RoutingInv'
  BY <1>22, <1>1 DEF AppSickens, Becomes, entryVars, coordVars, workerVars, gatewayVars,
     historyVars, RoutingInv, ReadFresh, RoutedFirst, RoutedFor, ControlInv, WorkerKinds, LockHeld,
     Settled, BeforeSwitch, Rolling, RollbackWork
<1>23. ASSUME NEW g \in Replicas, ReplicaFollows(g)
      PROVE  RoutingInv'
  BY <1>23, <1>1 DEF ReplicaFollows, entryVars, coordVars, workerVars, gatewayVars, historyVars,
     RoutingInv, ReadFresh, RoutedFirst, RoutedFor, ControlInv, WorkerKinds, LockHeld, Settled,
     BeforeSwitch, Rolling, RollbackWork
<1>24. ASSUME NEW r \in Requests, CancelRunning(r)
      PROVE  RoutingInv'
  BY <1>24, <1>1 DEF CancelRunning, entryVars, coordVars, workerVars, gatewayVars, historyVars,
     RoutingInv, ReadFresh, RoutedFirst, RoutedFor, ControlInv, WorkerKinds, LockHeld, Settled,
     BeforeSwitch, Rolling, RollbackWork
<1>25. CASE SeesCancel
  BY <1>25, <1>1 DEF SeesCancel, Polling, Polls, entryVars, coordVars, workerVars, gatewayVars,
     historyVars, RoutingInv, ReadFresh, RoutedFirst, RoutedFor, ControlInv, WorkerKinds, LockHeld,
     Settled, BeforeSwitch, Rolling, RollbackWork
<1>26. CASE UNCHANGED vars
  BY <1>26, <1>1 DEF vars, entryVars, coordVars, workerVars, gatewayVars, historyVars, RoutingInv,
     ReadFresh, RoutedFirst, RoutedFor, ControlInv, WorkerKinds, LockHeld, Settled, BeforeSwitch,
     Rolling, RollbackWork
<1>27. ASSUME NEW r \in Requests, CancelQueued(r)
      PROVE  RoutingInv'
  BY <1>27, <1>1 DEF CancelQueued, entryVars, coordVars, workerVars, gatewayVars, historyVars,
     RoutingInv, ReadFresh, RoutedFirst, RoutedFor, ControlInv, WorkerKinds, LockHeld, Settled,
     BeforeSwitch, Rolling, RollbackWork
<1>28. CASE RunEnds
  BY <1>28, <1>1 DEF RunEnds, Ends, NoWorker, entryVars, coordVars, workerVars, gatewayVars,
     historyVars, RoutingInv, ReadFresh, RoutedFirst, RoutedFor, ControlInv, WorkerKinds, LockHeld,
     Settled, BeforeSwitch, Rolling, RollbackWork
<1>29. CASE DeathSeen
  BY <1>29, <1>1 DEF DeathSeen, NewWorker, entryVars, coordVars, workerVars, gatewayVars,
     historyVars, RoutingInv, ReadFresh, RoutedFirst, RoutedFor, ControlInv, WorkerKinds, LockHeld,
     Settled, BeforeSwitch, Rolling, RollbackWork
<1>30. CASE RollbackEnds
  BY <1>30, <1>1 DEF RollbackEnds, Ends, NoWorker, entryVars, coordVars, workerVars, gatewayVars,
     historyVars, RoutingInv, ReadFresh, RoutedFirst, RoutedFor, ControlInv, WorkerKinds, LockHeld,
     Settled, BeforeSwitch, Rolling, RollbackWork
<1>31. CASE Recover
  BY <1>31, <1>1 DEF Recover, NewWorker, entryVars, coordVars, workerVars, gatewayVars, historyVars,
     RoutingInv, ReadFresh, RoutedFirst, RoutedFor, ControlInv, WorkerKinds, LockHeld, Settled,
     BeforeSwitch, Rolling, RollbackWork
<1>32. CASE RecoveryEnds
  BY <1>32, <1>1 DEF RecoveryEnds, NoWorker, entryVars, coordVars, workerVars, gatewayVars,
     historyVars, RoutingInv, ReadFresh, RoutedFirst, RoutedFor, ControlInv, WorkerKinds, LockHeld,
     Settled, BeforeSwitch, Rolling, RollbackWork
<1>33. CASE CommitLands
  BY <1>33, <1>1 DEF CommitLands, entryVars, coordVars, workerVars, gatewayVars, historyVars,
     RoutingInv, ReadFresh, RoutedFirst, RoutedFor, ControlInv, WorkerKinds, LockHeld, Settled,
     BeforeSwitch, Rolling, RollbackWork
<1>34. CASE CommitFails
  BY <1>34, <1>1 DEF CommitFails, Fault, entryVars, coordVars, workerVars, gatewayVars, historyVars,
     RoutingInv, ReadFresh, RoutedFirst, RoutedFor, ControlInv, WorkerKinds, LockHeld, Settled,
     BeforeSwitch, Rolling, RollbackWork
<1>35. CASE CoordinatorDies
  BY <1>35, <1>1 DEF CoordinatorDies, NoWorker, entryVars, coordVars, workerVars, gatewayVars,
     historyVars, RoutingInv, ReadFresh, RoutedFirst, RoutedFor, ControlInv, WorkerKinds, LockHeld,
     Settled, BeforeSwitch, Rolling, RollbackWork
<1>36. ASSUME NEW r \in Requests, NEW request \in Inputs, Submit(r, request)
      PROVE  RoutingInv'
  BY <1>36, <1>1 DEF Submit, entryVars, coordVars, workerVars, gatewayVars, historyVars, RoutingInv,
     ReadFresh, RoutedFirst, RoutedFor, ControlInv, WorkerKinds, LockHeld, Settled, BeforeSwitch,
     Rolling, RollbackWork
<1>37. CASE Pick
  BY <1>37, <1>1 DEF Pick, NewWorker, entryVars, coordVars, workerVars, gatewayVars, historyVars,
     RoutingInv, ReadFresh, RoutedFirst, RoutedFor, ControlInv, WorkerKinds, LockHeld, Settled,
     BeforeSwitch, Rolling, RollbackWork
<1>38. ASSUME NEW c \in InFlight, Switch(c)
      PROVE  RoutingInv'
  <2>1. /\ c \in CallType /\ c.r \in Requests /\ c.models \in Version \cup {NoVersion}
        /\ c \notin late => wkind = "run" /\ c.r = running /\ wk = c.op /\ c.models = plan.models
    BY CallFacts DEF CallType, InFlight, Call
  <2>2. /\ c.op = "switch" /\ Accepts(c) /\ Route(c.models)
        /\ \/ c \in late /\ late' = late \ {c} /\ wk' = wk
           \/ (c \notin late /\ late' = late /\ wk' = "confirm")
        /\ UNCHANGED plan
    BY <1>38 DEF Switch, Answer
  <2>3. routing' # 0 /\ routes'[routing'] = c.models
    BY <2>1, <2>2, RouteTo
  <2>4. c \in late => wk' = "dead"
    BY <2>2 DEF ControlInv, CallsFresh
  <2> QED
    BY <2>1, <2>2, <2>3, <2>4
       DEF RoutingInv, ReadFresh, RoutedFirst, RoutedFor, Settled, BeforeSwitch, Rolling
<1>39. ASSUME NEW c \in InFlight, CommitCancelled(c)
      PROVE  RoutingInv'
  BY <1>39, <1>1 DEF CommitCancelled, Answer, entryVars, coordVars, workerVars, gatewayVars,
     historyVars, RoutingInv, ReadFresh, RoutedFirst, RoutedFor, ControlInv, WorkerKinds, LockHeld,
     Settled, BeforeSwitch, Rolling, RollbackWork
<1>40. ASSUME NEW c \in InFlight, CommitStarts(c)
      PROVE  RoutingInv'
  <2>1. /\ c \in CallType /\ c.r \in Requests /\ c.models \in Version \cup {NoVersion}
        /\ c \notin late => wkind = "run" /\ c.r = running /\ wk = c.op /\ c.models = plan.models
    BY CallFacts DEF CallType, InFlight, Call
  <2>2. /\ c.op = "commit" /\ Accepts(c)
        /\ \/ c \in late /\ late' = late \ {c} /\ wk' = wk
           \/ (c \notin late /\ late' = late /\ wk' = "committing")
        /\ UNCHANGED <<plan, routing, routes, rv, committed, abandoned>>
    BY <1>40 DEF CommitStarts, Answer, gatewayVars, historyVars
  <2>3. routing # 0
    BY <2>1, <2>2 DEF RoutingInv, RoutedFirst, RoutedFor
  <2> QED
    BY <2>1, <2>2, <2>3
       DEF RoutingInv, ReadFresh, RoutedFirst, RoutedFor, Settled, BeforeSwitch, Rolling
<1>41. ASSUME NEW c \in InFlight, RollingBack(c)
      PROVE  RoutingInv'
  BY <1>41, <1>1 DEF RollingBack, Answer, entryVars, coordVars, workerVars, gatewayVars,
     historyVars, RoutingInv, ReadFresh, RoutedFirst, RoutedFor, ControlInv, WorkerKinds, LockHeld,
     Settled, BeforeSwitch, Rolling, RollbackWork
<1>42. ASSUME NEW c \in InFlight, Refuse(c)
      PROVE  RoutingInv'
  BY <1>42, <1>1 DEF Refuse, entryVars, coordVars, workerVars, gatewayVars, historyVars, RoutingInv,
     ReadFresh, RoutedFirst, RoutedFor, ControlInv, WorkerKinds, LockHeld, Settled, BeforeSwitch,
     Rolling, RollbackWork
<1>43. ASSUME NEW r \in Requests, KillUnlessSeen(r)
      PROVE  RoutingInv'
  BY <1>43, <1>1 DEF KillUnlessSeen, Die, InFlight, Call, entryVars, coordVars, workerVars,
     gatewayVars, historyVars, RoutingInv, ReadFresh, RoutedFirst, RoutedFor, ControlInv,
     WorkerKinds, LockHeld, Settled, BeforeSwitch, Rolling, RollbackWork
<1>44. CASE WorkerDies
  BY <1>44, <1>1 DEF WorkerDies, Die, Fault, InFlight, Call, entryVars, coordVars, workerVars,
     gatewayVars, historyVars, RoutingInv, ReadFresh, RoutedFirst, RoutedFor, ControlInv,
     WorkerKinds, LockHeld, Settled, BeforeSwitch, Rolling, RollbackWork
<1> QED
  BY <1>2, <1>3, <1>4, <1>5, <1>6, <1>7, <1>8, <1>9, <1>10, <1>11, <1>12, <1>13, <1>14, <1>15,
     <1>16, <1>17, <1>18, <1>19, <1>20, <1>21, <1>22, <1>23, <1>24, <1>25, <1>26, <1>27, <1>28,
     <1>29, <1>30, <1>31, <1>32, <1>33, <1>34, <1>35, <1>36, <1>37, <1>38, <1>39, <1>40, <1>41,
     <1>42, <1>43, <1>44 DEF Next, Users, Coordinator, Worker, Trouble, Serve, Gateway
-----------------------------------------------------------------------------
(* What a diff changes of Serve's apps.                                      *)

\* An app a version names is its model's.
LEMMA NamedFacts ==
  ASSUME NEW v \in Version \cup {NoVersion}
  PROVE  /\ \A a \in Named(v) : v \in Version /\ a \in App /\ a[1] \in Has(v) /\ a = AppOf(v, a[1])
         /\ v \in Version => \A m \in Has(v) : AppOf(v, m) \in Named(v) /\ AppOf(v, m)[1] = m
<1>1. v \in Version => v # NoVersion
  BY SentinelAssumption DEF Version
<1>2. ASSUME NEW a \in Named(v)
      PROVE  v \in Version /\ a \in App /\ a[1] \in Has(v) /\ a = AppOf(v, a[1])
  <2>1. v \in Version /\ \E m \in Has(v) : a = AppOf(v, m)
    BY <1>1 DEF Named
  <2>2. PICK m \in Has(v) : a = AppOf(v, m)
    BY <2>1
  <2>3. a[1] = m
    BY <2>2 DEF AppOf
  <2> QED
    BY <2>1, <2>2, <2>3, HasType
<1>3. ASSUME v \in Version, NEW m \in Has(v)
      PROVE  AppOf(v, m) \in Named(v) /\ AppOf(v, m)[1] = m
  BY <1>1, <1>3 DEF Named, AppOf
<1> QED
  BY <1>2, <1>3

\* What build_diff (diff.py) promises a worker: its models name committed apps and those it deploys, and
\* every other committed app is retired; it gives each app it submits the scaling its models ask for,
\* redeploys no live app and retires none it deploys or names; and each app its models name is submitted, or
\* has the scaling they ask for, or is one the request does not mention.  Of the apps a request that commits
\* asks for it keeps only live committed ones; and it rescales up none that it deploys.
DiffSound(d, request, v, serve) ==
  /\ d.leftovers = {a \in App : serve[a].status # "absent"} \ Named(v)
  /\ Named(v) \cup AppsOf(d.deploys) \subseteq d.retired \cup Named(d.models)
  /\ \A c \in d.scale_downs \cup d.deploys \cup d.scale_ups : c.scaling = d.models[c.app[1]].scaling
  /\ Named(d.models) \subseteq Named(v) \cup AppsOf(d.deploys)
  /\ d.retired \cap (AppsOf(d.deploys) \cup Named(d.models)) = {}
  /\ ~d.commits => d.models = v
  /\ request.mode = "bare" => d.models = v
  /\ \A a \in AppsOf(d.deploys) \cap Named(v) : serve[a].status \notin {"starting", "running"}
  /\ \A a \in Named(d.models) :
       \/ serve[a].status \in {"starting", "running"} => serve[a].scaling = d.models[a[1]].scaling
       \/ a \in AppsOf(d.scale_downs \cup d.deploys \cup d.scale_ups)
       \/ request.mode # "bare" /\ a \in Named(v) /\ d.models[a[1]] = v[a[1]]
  /\ AppsOf(d.scale_ups) \cap AppsOf(d.deploys) = {}
  /\ d.commits =>
       \A a \in Named(request.models) \ AppsOf(d.deploys) :
         a \in Named(v) \ d.retired /\ serve[a].status \in {"starting", "running"}

\* It keeps its promise, for every request, version and apps.
LEMMA BuildDiffSound ==
  ASSUME NEW request \in Request, NEW v \in Version \cup {NoVersion}, NEW serve \in [App -> ServeApp]
  PROVE  DiffSound(build_diff(request, v, serve), request, v, serve)
<1> DEFINE d == build_diff(request, v, serve)
<1> DEFINE current  == OrEmpty(v)
           wanted   == IF request.mode = "bare" THEN current ELSE request.models
           proposed == merge(current, request.models, request.mode)
           commits  == /\ request.mode # "bare"
                       /\ v = NoVersion \/ proposed # v
           both     == Has(wanted) \cap Has(current)
           added    == Has(wanted) \ Has(current)
           replaced == {m \in both : AppOf(wanted, m) # AppOf(current, m)}
           held     == [m \in both |-> serve[AppOf(wanted, m)]]
           redeploy == {m \in both \ replaced : held[m].status \in NotLive \cup {"absent"}}
           rescaled == {m \in both \ (replaced \cup redeploy) :
                          held[m].scaling # wanted[m].scaling}
           rising   == {m \in rescaled : Rises(held[m].scaling, wanted[m].scaling)}
           removed  == IF request.mode = "reconcile" THEN Has(current) \ Has(wanted) ELSE {}
           shrunk   == {m \in replaced :
                          /\ request.strategy = "blue_green"
                          /\ Shrinks(serve[AppOf(current, m)], wanted[m].scaling)}
           change(w, S) == {Rescale(AppOf(w, m), wanted[m].scaling) : m \in S}
           models == IF commits THEN proposed ELSE v
<1>1. /\ d.leftovers = {a \in App : serve[a].status # "absent"} \ Named(v)
      /\ d.scale_downs = change(wanted, rescaled \ rising) \cup change(current, shrunk)
      /\ d.deploys = change(wanted, added \cup replaced \cup redeploy)
      /\ d.scale_ups = change(wanted, rising)
      /\ d.retired = {AppOf(current, m) : m \in replaced \cup removed}
      /\ d.models = models /\ d.commits = commits
  BY DEF build_diff
<1> HIDE DEF d
<1>2. current \in Version /\ wanted \in Version /\ proposed \in Version /\ request.models \in Version
  <2>1. current \in Version
    BY OrEmptyType
  <2>2. request.models \in Version
    BY DEF Request
  <2> QED
    BY <2>1, <2>2, MergeType
<1>3. NoVersion \notin Version /\ (v # NoVersion => current = v)
  BY SentinelAssumption DEF OrEmpty, Version
<1>4. v = NoVersion => Has(current) = {} /\ Named(v) = {}
  BY DEF OrEmpty, NoModels, Has, Named
<1>5. models = IF request.mode = "bare" THEN v ELSE proposed
  BY <1>3
<1>6. ASSUME NEW m \in Has(wanted)
      PROVE  models \in Version /\ models[m] = wanted[m] /\ m \in Has(models)
  <2>1. CASE request.mode = "bare"
    <3>1. v # NoVersion /\ current = v /\ wanted = v /\ models = v
      BY <1>3, <1>4, <1>5, <2>1
    <3> QED
      BY <1>2, <3>1
  <2>2. CASE request.mode # "bare"
    <3>1. models = proposed /\ wanted = request.models
      BY <1>5, <2>2
    <3>2. proposed[m] = request.models[m]
      BY <2>2, <3>1 DEF merge, Has
    <3> QED
      BY <1>2, <3>1, <3>2 DEF Has
  <2> QED
    BY <2>1, <2>2
<1>7. ASSUME models \in Version, NEW m \in Has(models), m \notin Has(wanted)
      PROVE  m \in Has(current) /\ models[m] = current[m] /\ request.mode \notin {"bare", "reconcile"}
  <2>1. request.mode # "bare" /\ models = proposed /\ wanted = request.models
    BY <1>3, <1>5, <1>7
  <2>2. m \in Models /\ proposed[m] # Absent /\ wanted[m] = Absent
    BY <1>7, <2>1 DEF Has
  <2> QED
    BY <2>1, <2>2 DEF merge, Has
<1>8. ASSUME NEW m \in Has(current), m \notin Has(wanted), request.mode # "reconcile"
      PROVE  models \in Version /\ m \in Has(models) /\ models[m] = current[m]
  <2>1. request.mode # "bare"
    BY <1>8
  <2>2. models = proposed /\ wanted = request.models /\ m \in Models /\ wanted[m] = Absent
    BY <1>5, <1>8, <2>1 DEF Has
  <2> QED
    BY <1>2, <1>8, <2>2 DEF merge, Has
<1>9. v \in Version => current = v
  BY <1>3
<1>10. \A m \in Has(current) : v \in Version /\ current = v
  BY <1>3, <1>4
<1> HIDE DEF current, wanted, proposed, commits, models
<1>11. /\ \A m \in Has(wanted) : AppOf(wanted, m) \in App /\ AppOf(wanted, m)[1] = m
       /\ \A m \in Has(current) : AppOf(current, m) \in App /\ AppOf(current, m)[1] = m
  BY <1>2, HasType DEF AppOf
<1>12. ASSUME NEW m \in Has(wanted)
       PROVE  AppOf(wanted, m) \in Named(models)
  <2>1. models \in Version /\ m \in Has(models) /\ AppOf(models, m) = AppOf(wanted, m)
    BY <1>6 DEF AppOf
  <2> QED
    BY <2>1, NamedFacts
<1> DEFINE submits == added \cup replaced \cup redeploy
           goes == replaced \cup removed
<1>13. /\ submits \subseteq Has(wanted) /\ rescaled \subseteq Has(wanted) /\ rising \subseteq rescaled
       /\ shrunk \subseteq Has(wanted) \cap Has(current) /\ goes \subseteq Has(current)
       /\ \A m \in Has(current) :
            /\ m \in Has(wanted) /\ AppOf(wanted, m) # AppOf(current, m) => m \in goes
            /\ m \notin Has(wanted) /\ request.mode = "reconcile" => m \in goes
       /\ \A m \in goes : IF m \in Has(wanted) THEN AppOf(wanted, m) # AppOf(current, m)
                                               ELSE request.mode = "reconcile"
       /\ \A m \in Has(wanted) \ submits : m \in Has(current) /\ AppOf(wanted, m) = AppOf(current, m)
       /\ \A m \in submits \cap Has(current) :
            \/ AppOf(wanted, m) # AppOf(current, m)
            \/ serve[AppOf(wanted, m)].status \in NotLive \cup {"absent"}
       /\ \A m \in Has(wanted) \ (submits \cup rescaled) :
            serve[AppOf(wanted, m)].scaling = wanted[m].scaling
       /\ \A m \in Has(wanted) \ submits : serve[AppOf(wanted, m)].status \notin NotLive \cup {"absent"}
       /\ rising \cap submits = {}
  OBVIOUS
<1>14. /\ d.deploys = change(wanted, submits) /\ d.retired = {AppOf(current, m) : m \in goes}
       /\ d.scale_downs \cup d.scale_ups = change(wanted, rescaled) \cup change(current, shrunk)
  <2>1. change(wanted, rescaled) = change(wanted, rescaled \ rising) \cup change(wanted, rising)
    <3>1. rescaled = (rescaled \ rising) \cup rising
      BY <1>13
    <3> HIDE DEF rescaled, rising
    <3> QED
      BY <3>1
  <2> QED
    BY <1>1, <2>1
<1> HIDE DEF submits, goes, rescaled, rising, shrunk, both, added, replaced, held, redeploy, removed
<1>15. /\ \A c \in d.deploys : \E m \in submits : c.app = AppOf(wanted, m) /\ c.scaling = wanted[m].scaling
       /\ \A c \in change(wanted, rescaled) :
            \E m \in rescaled : c.app = AppOf(wanted, m) /\ c.scaling = wanted[m].scaling
       /\ \A c \in change(current, shrunk) :
            \E m \in shrunk : c.app = AppOf(current, m) /\ c.scaling = wanted[m].scaling
  BY <1>14 DEF Rescale
<1>16. ASSUME NEW m \in submits
       PROVE  AppOf(wanted, m) \in AppsOf(d.deploys)
  <2>1. Rescale(AppOf(wanted, m), wanted[m].scaling) \in d.deploys
    BY <1>14
  <2> QED
    BY <2>1 DEF Rescale, AppsOf
<1>17. ASSUME NEW m \in rescaled
       PROVE  AppOf(wanted, m) \in AppsOf(d.scale_downs \cup d.scale_ups)
  <2>1. Rescale(AppOf(wanted, m), wanted[m].scaling) \in d.scale_downs \cup d.scale_ups
    BY <1>14
  <2> QED
    BY <2>1 DEF Rescale, AppsOf
<1>18. ASSUME NEW c \in d.scale_downs \cup d.deploys \cup d.scale_ups
       PROVE  \E m \in Has(wanted) : c.app[1] = m /\ c.scaling = wanted[m].scaling
  <2>1. c \in d.deploys \/ c \in change(wanted, rescaled) \/ c \in change(current, shrunk)
    BY <1>14
  <2> HIDE DEF change
  <2> QED
    BY <1>11, <1>13, <1>15, <2>1
<1> HIDE DEF change
<1>19. ASSUME NEW a \in AppsOf(d.deploys)
       PROVE  \E m \in submits : a = AppOf(wanted, m)
  BY <1>15 DEF AppsOf
<1>20. Named(v) \cup AppsOf(d.deploys) \subseteq d.retired \cup Named(d.models)
  <2>1. AppsOf(d.deploys) \subseteq Named(models)
    BY <1>12, <1>13, <1>19
  <2>2. ASSUME NEW a \in Named(v) PROVE a \in d.retired \cup Named(models)
    <3>1. v \in Version /\ current = v /\ a[1] \in Has(current) /\ a = AppOf(current, a[1])
      BY <1>9, NamedFacts
    <3>2. PICK m \in Has(current) : a = AppOf(current, m)
      BY <3>1
    <3>3. CASE m \in Has(wanted)
      <4>1. CASE AppOf(wanted, m) = AppOf(current, m)
        BY <1>12, <3>2, <3>3, <4>1
      <4>2. CASE AppOf(wanted, m) # AppOf(current, m)
        <5>1. m \in goes
          BY <1>13, <3>2, <3>3, <4>2
        <5> QED
          BY <1>14, <3>2, <5>1
      <4> QED
        BY <4>1, <4>2
    <3>4. CASE m \notin Has(wanted) /\ request.mode = "reconcile"
      <4>1. m \in goes
        BY <1>13, <3>2, <3>4
      <4> QED
        BY <1>14, <3>2, <4>1
    <3>5. CASE m \notin Has(wanted) /\ request.mode # "reconcile"
      <4>1. models \in Version /\ m \in Has(models) /\ AppOf(models, m) = a
        BY <1>8, <3>2, <3>5 DEF AppOf
      <4> QED
        BY <4>1, NamedFacts
    <3> QED
      BY <3>3, <3>4, <3>5
  <2> QED
    BY <1>1, <2>1, <2>2
<1>21. \A c \in d.scale_downs \cup d.deploys \cup d.scale_ups : c.scaling = d.models[c.app[1]].scaling
  <2> SUFFICES ASSUME NEW c \in d.scale_downs \cup d.deploys \cup d.scale_ups
               PROVE  c.scaling = models[c.app[1]].scaling
    BY <1>1
  <2>1. PICK m \in Has(wanted) : c.app[1] = m /\ c.scaling = wanted[m].scaling
    BY <1>18
  <2> QED
    BY <1>6, <2>1
<1>22. AppsOf(d.deploys) \cap d.retired = {}
  <2> SUFFICES ASSUME NEW a \in AppsOf(d.deploys), a \in d.retired PROVE FALSE
    OBVIOUS
  <2>1. PICK m \in submits : a = AppOf(wanted, m)
    BY <1>19
  <2>2. PICK n \in goes : a = AppOf(current, n)
    BY <1>14
  <2>3. m \in Has(wanted) /\ n \in Has(current)
    BY <1>13
  <2>4. m = n
    BY <1>11, <2>1, <2>2, <2>3
  <2> QED
    BY <1>13, <2>1, <2>2, <2>3, <2>4
<1>23. (~d.commits => d.models = v) /\ (request.mode = "bare" => d.models = v)
  BY <1>1, <1>5 DEF models, commits
<1>24. ASSUME NEW a \in AppsOf(d.deploys) \cap Named(v)
       PROVE  serve[a].status \notin {"starting", "running"}
  <2>1. PICK m \in submits : a = AppOf(wanted, m)
    BY <1>19
  <2>2. a = AppOf(current, a[1]) /\ a[1] \in Has(current)
    BY <1>9, NamedFacts
  <2>3. m \in Has(wanted) /\ a[1] = m
    BY <1>11, <1>13, <2>1
  <2> QED
    BY <1>13, <2>1, <2>2, <2>3 DEF NotLive
<1>25. ASSUME NEW a \in Named(models)
       PROVE  \/ serve[a].status \in {"starting", "running"} => serve[a].scaling = models[a[1]].scaling
              \/ a \in AppsOf(d.scale_downs \cup d.deploys \cup d.scale_ups)
              \/ request.mode # "bare" /\ a \in Named(v) /\ models[a[1]] = v[a[1]]
  <2>0. models \in Version \cup {NoVersion}
    BY <1>2 DEF models
  <2>1. models \in Version /\ a[1] \in Has(models) /\ a = AppOf(models, a[1]) /\ a \in App
    BY <2>0, NamedFacts
  <2>2. PICK m \in Has(models) : m = a[1] /\ a = AppOf(models, m)
    BY <2>1
  <2>3. CASE m \notin Has(wanted)
    <3>1. m \in Has(current) /\ models[m] = current[m] /\ request.mode # "bare"
      BY <1>7, <2>1, <2>3
    <3>2. v \in Version /\ current = v
      BY <1>10, <3>1
    <3>3. a \in Named(v)
      BY <2>2, <3>1, <3>2, NamedFacts DEF AppOf
    <3> QED
      BY <2>2, <3>1, <3>2, <3>3
  <2>4. CASE m \in Has(wanted)
    <3>1. models[m] = wanted[m] /\ a = AppOf(wanted, m)
      BY <1>6, <2>2, <2>4 DEF AppOf
    <3>2. CASE m \in submits
      BY <1>16, <3>1, <3>2 DEF AppsOf
    <3>3. CASE m \in rescaled
      BY <1>17, <3>1, <3>3 DEF AppsOf
    <3>4. CASE m \notin submits /\ m \notin rescaled
      BY <1>13, <2>2, <2>4, <3>1, <3>4
    <3> QED
      BY <3>2, <3>3, <3>4
  <2> QED
    BY <2>3, <2>4
<1>26. ASSUME NEW a \in Named(models)
       PROVE  a \in Named(v) \cup AppsOf(d.deploys) /\ a \notin d.retired
  <2>0. models \in Version \cup {NoVersion}
    BY <1>2 DEF models
  <2>1. models \in Version /\ a[1] \in Has(models) /\ a = AppOf(models, a[1]) /\ a \in App
    BY <2>0, NamedFacts
  <2>2. PICK m \in Has(models) : m = a[1] /\ a = AppOf(models, m)
    BY <2>1
  <2>3. ASSUME a \in d.retired
        PROVE  m \in goes /\ a = AppOf(current, m)
    <3>1. PICK n \in goes : a = AppOf(current, n)
      BY <1>14, <2>3
    <3>2. n = m
      BY <1>11, <1>13, <2>2, <3>1
    <3> QED
      BY <3>1, <3>2
  <2>4. CASE m \notin Has(wanted)
    <3>1. m \in Has(current) /\ models[m] = current[m]
      BY <1>7, <2>1, <2>4
    <3>2. v \in Version /\ current = v
      BY <1>10, <3>1
    <3>3. a \in Named(v)
      BY <2>2, <3>1, <3>2, NamedFacts DEF AppOf
    <3>4. m \notin goes
      BY <1>7, <1>13, <2>1, <2>4
    <3> QED
      BY <2>3, <3>3, <3>4
  <2>5. CASE m \in Has(wanted)
    <3>1. models[m] = wanted[m] /\ a = AppOf(wanted, m)
      BY <1>6, <2>2, <2>5 DEF AppOf
    <3>2. a \notin d.retired
      BY <1>13, <2>3, <2>5, <3>1
    <3>3. CASE m \in submits
      BY <1>16, <3>1, <3>2, <3>3
    <3>4. CASE m \notin submits
      <4>1. m \in Has(current) /\ AppOf(current, m) = a
        BY <1>13, <2>5, <3>1, <3>4
      <4>2. v \in Version /\ current = v
        BY <1>10, <4>1
      <4> QED
        BY <3>2, <4>1, <4>2, NamedFacts
    <3> QED
      BY <3>3, <3>4
  <2> QED
    BY <2>4, <2>5
<1>27. AppsOf(d.scale_ups) \cap AppsOf(d.deploys) = {}
  <2> SUFFICES ASSUME NEW a \in AppsOf(d.scale_ups), a \in AppsOf(d.deploys) PROVE FALSE
    OBVIOUS
  <2>1. PICK m \in submits : a = AppOf(wanted, m)
    BY <1>19
  <2>2. PICK n \in rising : a = AppOf(wanted, n)
    BY <1>1 DEF AppsOf, change, Rescale
  <2>3. m \in Has(wanted) /\ n \in Has(wanted) /\ n \notin submits
    BY <1>13
  <2> QED
    BY <1>11, <2>1, <2>2, <2>3
<1>28. ASSUME d.commits, NEW a \in Named(request.models), a \notin AppsOf(d.deploys)
       PROVE  a \in Named(v) \ d.retired /\ serve[a].status \in {"starting", "running"}
  <2>1. wanted = request.models
    BY <1>1, <1>28 DEF wanted, commits
  <2>2. PICK m \in Has(wanted) : a = AppOf(wanted, m) /\ a \in App
    BY <1>2, <2>1, NamedFacts
  <2>3. m \notin submits
    BY <1>16, <1>28, <2>2
  <2>4. m \in Has(current) /\ AppOf(current, m) = a /\ serve[a].status \notin NotLive \cup {"absent"}
    BY <1>13, <2>2, <2>3
  <2>5. a \in Named(v)
    BY <1>10, <2>4, NamedFacts
  <2>6. a \in Named(models)
    BY <1>12, <2>2
  <2>7. serve[a].status \in {"starting", "running"}
    BY <2>2, <2>4 DEF ServeApp, Status, NotLive
  <2> QED
    BY <1>26, <2>5, <2>6, <2>7
<1> QED
  BY <1>1, <1>20, <1>21, <1>22, <1>23, <1>24, <1>25, <1>26, <1>27, <1>28 DEF DiffSound, d

-----------------------------------------------------------------------------
(* What Serve holds.                                                         *)

Live(a) == apps[a].status \in {"starting", "running"}
Scaled(a, version) == Live(a) => apps[a].scaling = version[a[1]].scaling

\* Serve holds the committed version's apps and no others, at its replica counts.
AsCommitted == Present(App) \subseteq Named(committed) /\ \A a \in Named(committed) : Scaled(a, committed)

\* Between requests it does, unless the last rollback did not run to its end.
Rests == ~abandoned /\ (wk = "report" \/ (wk \in {"none", "diff"} /\ recovery = "done")) => AsCommitted

Stopping == {"downs", "downs_wait", "stop", "deploy"}
Brought == {"deploy_wait", "ups", "ups_wait", "switch", "confirm", "commit", "committing"}
Applying == {"sources", "leftovers"} \cup Stopping \cup Brought

\* What BuildDiffSound says of the plan the worker applies.
PlanSound ==
  /\ Named(committed) \cup AppsOf(plan.deploys) \subseteq plan.retired \cup Named(plan.models)
  /\ \A c \in plan.scale_downs \cup plan.deploys \cup plan.scale_ups :
       c.scaling = plan.models[c.app[1]].scaling
  /\ Named(plan.models) \subseteq Named(committed) \cup AppsOf(plan.deploys)
  /\ plan.retired \cap (AppsOf(plan.deploys) \cup Named(plan.models)) = {}
  /\ ~plan.commits => plan.models = committed

\* What the worker has yet to submit.
ToScale ==
  (IF wk \in {"sources", "leftovers", "downs"} THEN plan.scale_downs ELSE {})
    \cup (IF wk \in {"sources", "leftovers"} \cup Stopping THEN plan.deploys ELSE {})
    \cup (IF wk \in {"sources", "leftovers", "deploy_wait", "ups"} \cup Stopping THEN plan.scale_ups ELSE {})

\* stop_start has nothing left of what it retires before it deploys.
StopsAll ==
  input[running].strategy = "stop_start" =>
    /\ wk = "stop" => Present(plan.retired) \subseteq left
    /\ wk \in {"deploy"} \cup Brought => Present(plan.retired) = {}

\* Serve holds what the worker keeps, what it will retire, and what it is about to delete.
Accounted ==
  /\ wk = "sources" => Present(App) \subseteq Named(committed) \cup plan.leftovers
  /\ wk \in {"leftovers", "retire"} => Present(App) \subseteq Named(committed) \cup left
  /\ wk \in Stopping \cup Brought => Present(App) \subseteq plan.retired \cup Named(plan.models)

\* An app of the new models has their scaling, or will be submitted with it, retries included.
WillScale ==
  /\ wk = "deploy_wait" =>
       /\ left \subseteq AppsOf(plan.deploys)
       /\ \A a \in left \cap Named(plan.models) : apps[a].scaling = plan.models[a[1]].scaling
  /\ ~abandoned /\ wk \in Applying =>
       \A a \in Named(plan.models) : Scaled(a, plan.models) \/ a \in AppsOf(ToScale)
  /\ ~abandoned /\ wk = "retire" => \A a \in Named(committed) : Scaled(a, committed)

Runs == (wk \in Applying => PlanSound /\ StopsAll) /\ Accounted /\ WillScale

\* A rollback deletes what the committed version does not name, and rescales what it names.
RollsBack ==
  /\ wk \in {"rb_delete", "rb_scale"} =>
       /\ \A c \in plan.scale_downs \cup plan.scale_ups : c.scaling = committed[c.app[1]].scaling
       /\ \A a \in Named(committed) :
            Scaled(a, committed) \/ a \in AppsOf(plan.scale_downs \cup plan.scale_ups)
  /\ wk = "rb_delete" => Present(App) \subseteq Named(committed) \cup left
  /\ wk = "rb_scale" => Present(App) \subseteq Named(committed)

ServeInv == Rests /\ Runs /\ RollsBack

\* Steps at which Serve may hold anything.
Unsure == {"rb_mark", "rb_reset", "rb_confirm", "rb_diff", "raised", "dead"}

\* Steps of a worker that has submitted everything.
Submitted == {"ups_wait", "switch", "confirm", "commit", "committing"}

\* Nothing is claimed there.
LEMMA UnsureStep ==
  ASSUME wk' \in Unsure
  PROVE  ServeInv'
BY DEF Unsure, ServeInv, Rests, Runs, Accounted, WillScale, RollsBack, Applying, Stopping, Brought

\* The apps that plans and versions speak of are Serve's.
LEMMA AppTypes ==
  ASSUME TypeInv
  PROVE  /\ Named(committed) \subseteq App /\ Named(plan.models) \subseteq App
         /\ plan.retired \subseteq App /\ AppsOf(plan.deploys) \subseteq App
         /\ left \subseteq App /\ plan.leftovers \subseteq App
         /\ \A c \in plan.scale_downs \cup plan.deploys \cup plan.scale_ups :
              c \in [app : App, scaling : Scalings]
<1>1. plan \in Diff /\ committed \in Version \cup {NoVersion} /\ left \subseteq App
  BY DEF TypeInv, TypeOK, WorkerType, CoordinatorType
<1>2. /\ plan.models \in Version \cup {NoVersion} /\ plan.retired \subseteq App
      /\ plan.leftovers \subseteq App
      /\ \A c \in plan.scale_downs \cup plan.deploys \cup plan.scale_ups :
           c \in [app : App, scaling : Scalings]
  BY <1>1 DEF Diff
<1>3. Named(committed) \subseteq App /\ Named(plan.models) \subseteq App
  BY <1>1, <1>2, NamedFacts
<1>4. AppsOf(plan.deploys) \subseteq App
  BY <1>2 DEF AppsOf
<1> QED
  BY <1>1, <1>2, <1>3, <1>4

\* Serve loses apps, or fails them, and changes no scaling.
AppsWane ==
  \A a \in App : /\ apps'[a].scaling = apps[a].scaling
                 /\ apps'[a].status # "absent" => apps[a].status # "absent"
                 /\ Live(a)' => Live(a)

\* ServeInv does not see a step that leaves worker and store alone and lets apps only wane.
LEMMA ServeQuiet ==
  ASSUME TypeInv, ServeInv, AppsWane, UNCHANGED <<committed, plan>>,
         \/ wk' = wk /\ left' \subseteq left /\ (wk \in DOMAIN AfterDelete => Present(left) \subseteq left')
         \/ {wk, wk'} \subseteq Submitted,
         abandoned => abandoned',
         wk' \in {"none", "diff"} /\ recovery' = "done" => recovery = "done",
         wk \in Applying => input'[running'].strategy = input[running].strategy
  PROVE  ServeInv'
<1>1. /\ Named(committed) \subseteq App /\ Named(plan.models) \subseteq App
      /\ plan.retired \subseteq App /\ AppsOf(plan.deploys) \subseteq App /\ left \subseteq App
  BY AppTypes
<1>2. /\ \A S \in SUBSET App : Present(S)' \subseteq Present(S)
      /\ \A a \in App : \A v : Scaled(a, v) => Scaled(a, v)'
  BY DEF AppsWane, Present, Scaled
<1>3. App \in SUBSET App /\ plan.retired \in SUBSET App
  BY <1>1
<1>4. Present(App)' \subseteq Present(App) /\ Present(plan.retired)' \subseteq Present(plan.retired)
  BY <1>2, <1>3
<1>5. /\ \A a \in Named(committed) : Scaled(a, committed) => Scaled(a, committed)'
      /\ \A a \in Named(plan.models) : Scaled(a, plan.models) => Scaled(a, plan.models)'
  BY <1>1, <1>2
<1>6. AsCommitted => AsCommitted'
  BY <1>4, <1>5 DEF AsCommitted
<1>7. Rests'
  BY <1>6 DEF ServeInv, Rests, Submitted
<1>0. \A S : wk \in DOMAIN AfterDelete /\ wk' = wk =>
        /\ Present(plan.retired) \subseteq left => Present(plan.retired)' \subseteq left'
        /\ Present(App) \subseteq S \cup left => Present(App)' \subseteq S \cup left'
  BY <1>1, <1>4 DEF Present, Submitted, AfterDelete
<1>8. wk' \in Applying => wk \in Applying /\ PlanSound' /\ StopsAll'
  <2> SUFFICES ASSUME wk' \in Applying PROVE wk \in Applying /\ PlanSound' /\ StopsAll'
    OBVIOUS
  <2>1. wk \in Applying /\ PlanSound /\ StopsAll
    BY DEF ServeInv, Runs, Submitted, Applying, Brought
  <2>2. PlanSound'
    BY <2>1 DEF PlanSound, AppsOf
  <2>3. StopsAll'
    BY <1>0, <1>4, <2>1 DEF StopsAll, Submitted, Brought, AfterDelete
  <2> QED
    BY <2>1, <2>2, <2>3
<1>9. Accounted'
  <2>1. wk' \in {"leftovers", "retire"} => Present(App)' \subseteq Named(committed) \cup left'
    BY <1>0 DEF ServeInv, Runs, Accounted, Submitted, AfterDelete
  <2> QED
    BY <1>4, <2>1 DEF ServeInv, Runs, Accounted, Submitted, Brought, Stopping
<1>10. ToScale' = ToScale
  BY DEF ToScale, Submitted, Stopping
<1>11. WillScale'
  <2>1. wk' = "deploy_wait" =>
          /\ left' \subseteq AppsOf(plan'.deploys)
          /\ \A a \in left' \cap Named(plan'.models) : apps'[a].scaling = plan'.models[a[1]].scaling
    BY <1>1 DEF ServeInv, Runs, WillScale, Submitted, AppsWane
  <2>2. ~abandoned' /\ wk' \in Applying =>
          \A a \in Named(plan.models) : Scaled(a, plan.models)' \/ a \in AppsOf(ToScale)
    BY <1>5, <1>8 DEF ServeInv, Runs, WillScale
  <2>3. ~abandoned' /\ wk' = "retire" => \A a \in Named(committed) : Scaled(a, committed)'
    BY <1>5 DEF ServeInv, Runs, WillScale, Submitted
  <2> QED
    BY <1>10, <2>1, <2>2, <2>3 DEF WillScale, AppsOf
<1>12. RollsBack'
  <2>1. wk' = "rb_delete" => Present(App)' \subseteq Named(committed) \cup left'
    BY <1>0 DEF ServeInv, RollsBack, Submitted, AfterDelete
  <2> QED
    BY <1>4, <1>5, <2>1 DEF ServeInv, RollsBack, Submitted, AppsOf
<1> QED
  BY <1>7, <1>8, <1>9, <1>11, <1>12 DEF ServeInv, Runs

\* Apps submitted with the scalings of a version have them.
LEMMA ResubmittedFacts ==
  ASSUME TypeInv, NEW R, R \subseteq [app : App, scaling : Scalings], apps' = Resubmitted(R),
         NEW v, \A c \in R : c.scaling = v[c.app[1]].scaling
  PROVE  \A a \in App :
           IF a \in AppsOf(R) THEN apps'[a].status = "starting" /\ apps'[a].scaling = v[a[1]].scaling
                              ELSE apps'[a] = apps[a]
<1> SUFFICES ASSUME NEW a \in App, a \in AppsOf(R)
             PROVE  apps'[a].status = "starting" /\ apps'[a].scaling = v[a[1]].scaling
  BY DEF Resubmitted
<1> DEFINE c == CHOOSE r \in R : r.app = a
<1>1. c \in R /\ c.app = a
  BY DEF AppsOf
<1>2. apps'[a] = [status |-> "starting", scaling |-> c.scaling]
  BY DEF Resubmitted
<1> HIDE DEF c
<1> QED
  BY <1>1, <1>2

\* Every step keeps it.
LEMMA ServeStep ==
  ASSUME TypeInv, CommitInv, ControlInv, ServeInv, [Next]_vars
  PROVE  ServeInv'
<1>1. /\ running \in Requests \cup {None} /\ None \notin Requests
      /\ late \subseteq CallType /\ wk \in Steps /\ lock \in Requests \cup {None}
      /\ wkind \in {"none", "run", "rollback", "recovery"} /\ abandoned \in BOOLEAN
      /\ committed \in Version \cup {NoVersion} /\ apps \in [App -> ServeApp] /\ plan \in Diff
      /\ left \subseteq App
  BY BoundAssumption
     DEF TypeInv, TypeOK, EntryType, CoordinatorType, WorkerType, HistoryType, ServeType, None, Requests
<1>2. CASE DrainEnds
  BY <1>2, <1>1, ServeQuiet DEF DrainEnds, AppsWane, Live, Present, entryVars, coordVars, workerVars,
     gatewayVars, historyVars
<1>3. CASE StartRecovery
  BY <1>3, <1>1, ServeQuiet DEF StartRecovery, AppsWane, Live, Present, entryVars, coordVars,
     workerVars, gatewayVars, historyVars
<1>4. CASE ReadVersion
  BY <1>4, <1>1, ServeQuiet DEF ReadVersion, AppsWane, Live, Present, entryVars, coordVars,
     workerVars, gatewayVars, historyVars
<1>5. CASE UseVersion
  BY <1>5, <1>1, ServeQuiet DEF UseVersion, AppsWane, Live, Present, entryVars, coordVars, workerVars,
     gatewayVars, historyVars
<1>6. CASE ComputeDiff
  <2>1. /\ wk = "diff" /\ wkind = "run" /\ plan' = build_diff(input[running], committed, apps) /\ wk' = "sources"
        /\ UNCHANGED <<apps, committed, abandoned, left, recovery, input, running>>
    BY <1>6 DEF ComputeDiff, WorkerOnly, entryVars, coordVars
  <2>2. input[running] \in Request /\ recovery = "done"
    BY <2>1 DEF TypeInv, TypeOK, EntryType, ControlInv, WorkerKinds
  <2>3. DiffSound(plan', input[running], committed, apps)
    BY <1>1, <2>1, <2>2, BuildDiffSound
  <2>4. PICK d : d = plan'
    OBVIOUS
  <2>5. DiffSound(d, input[running], committed, apps)
    BY <2>3, <2>4
  <2>6. PlanSound' /\ StopsAll'
    BY <2>1, <2>4, <2>5 DEF DiffSound, PlanSound, StopsAll, AppsOf, Brought
  <2>7. Accounted'
    BY <2>1, <2>4, <2>5 DEF DiffSound, Accounted, Present, Stopping, Brought
  <2>8. WillScale'
    <3>1. ToScale' = d.scale_downs \cup d.deploys \cup d.scale_ups
      BY <2>1, <2>4 DEF ToScale
    <3>2. ~abandoned => \A a \in Named(committed) : Scaled(a, committed)
      BY <2>1, <2>2 DEF ServeInv, Rests, AsCommitted
    <3>3. ~abandoned => \A a \in Named(d.models) : Scaled(a, d.models)' \/ a \in AppsOf(ToScale')
      BY <2>1, <2>5, <3>1, <3>2 DEF DiffSound, Scaled, Live
    <3> QED
      BY <2>1, <2>4, <3>3 DEF WillScale, AppsOf
  <2> QED
    BY <2>1, <2>6, <2>7, <2>8 DEF ServeInv, Rests, Runs, RollsBack
<1>7. CASE SourcesResolved
  BY <1>7, <1>1 DEF SourcesResolved, WorkerOnly, entryVars, coordVars, workerVars, gatewayVars,
     historyVars, ServeInv, Rests, AsCommitted, Runs, PlanSound, StopsAll, Accounted, WillScale,
     ToScale, RollsBack, Present, Scaled, Live, Applying, Stopping, Brought, ControlInv,
     WorkerKinds, LockHeld, Rolling, RollbackWork
<1>8. CASE DeletePoll
  <2>1. UNCHANGED <<committed, abandoned, recovery, input, running, plan>> /\ wk \in DOMAIN AfterDelete
    BY <1>8 DEF DeletePoll, WorkerOnly, entryVars, coordVars
  <2>2. CASE Present(left) # {}
    <3>1. PICK S \in SUBSET App :
            /\ apps' = [a \in App |-> IF a \in S THEN [apps[a] EXCEPT !.status = "deleting"] ELSE apps[a]]
            /\ \A a \in S : apps[a].status # "absent"
            /\ wk' = wk /\ left' = Present(left)
      BY <1>1, <1>8, <2>2 DEF DeletePoll, Present
    <3>2. AppsWane
      BY <1>1, <3>1 DEF AppsWane, Live, ServeApp
    <3> QED
      BY <2>1, <3>1, <3>2, ServeQuiet DEF Present
  <2>3. CASE Present(left) = {}
    <3>1. wk' = AfterDelete[wk] /\ left' = {} /\ apps' = apps
      BY <1>8, <2>3 DEF DeletePoll
    <3>2. \A S : Present(App) \subseteq S \cup left => Present(App) \subseteq S
      BY <2>3 DEF Present
    <3>3. Present(App)' = Present(App) /\ Present(plan.retired)' = Present(plan.retired)
      BY <2>1, <3>1 DEF Present
    <3>4. CASE wk = "leftovers"
      <4>1. wk' = "downs" /\ Present(App) \subseteq Named(committed) /\ PlanSound
        BY <3>1, <3>2, <3>4 DEF AfterDelete, ServeInv, Runs, Accounted, Applying
      <4>2. PlanSound' /\ StopsAll' /\ Accounted'
        BY <2>1, <3>3, <4>1 DEF PlanSound, StopsAll, Accounted, AppsOf, Stopping, Brought
      <4>3. WillScale'
        BY <2>1, <3>1, <3>4, <4>1
           DEF ServeInv, Runs, WillScale, Scaled, Live, ToScale, AppsOf, Applying, Stopping, Brought
      <4> QED
        BY <4>1, <4>2, <4>3 DEF ServeInv, Rests, Runs, RollsBack
    <3>5. CASE wk = "stop"
      <4>1. wk' = "deploy" /\ PlanSound /\ StopsAll
        BY <3>1, <3>5 DEF AfterDelete, ServeInv, Runs, Applying, Stopping
      <4>2. PlanSound' /\ Accounted'
        BY <2>1, <3>3, <3>5, <4>1 DEF PlanSound, ServeInv, Runs, Accounted, AppsOf, Stopping, Brought
      <4>3. StopsAll'
        BY <2>1, <2>3, <3>3, <3>5, <4>1 DEF StopsAll, Present, Brought
      <4>4. WillScale'
        BY <2>1, <3>1, <3>5, <4>1
           DEF ServeInv, Runs, WillScale, Scaled, Live, ToScale, AppsOf, Applying, Stopping, Brought
      <4> QED
        BY <4>1, <4>2, <4>3, <4>4 DEF ServeInv, Rests, Runs, RollsBack
    <3>6. CASE wk = "retire"
      <4>1. wk' = "report" /\ Present(App) \subseteq Named(committed)
        BY <3>1, <3>2, <3>6 DEF AfterDelete, ServeInv, Runs, Accounted
      <4>2. ~abandoned => AsCommitted'
        BY <2>1, <3>1, <3>3, <3>6, <4>1 DEF ServeInv, Runs, WillScale, AsCommitted, Scaled, Live
      <4> QED
        BY <2>1, <4>1, <4>2
           DEF ServeInv, Rests, Runs, RollsBack, Accounted, WillScale, Applying, Stopping, Brought
    <3>7. CASE wk = "rb_delete"
      <4>1. wk' = "rb_scale" /\ Present(App) \subseteq Named(committed)
        BY <3>1, <3>2, <3>7 DEF AfterDelete, ServeInv, RollsBack
      <4>2. RollsBack'
        BY <2>1, <3>1, <3>3, <3>7, <4>1 DEF ServeInv, RollsBack, Scaled, Live, AppsOf
      <4> QED
        BY <4>1, <4>2 DEF ServeInv, Rests, Runs, Accounted, WillScale, Applying, Stopping, Brought
    <3> QED
      BY <2>1, <3>4, <3>5, <3>6, <3>7 DEF AfterDelete
  <2> QED
    BY <2>2, <2>3
<1>9. CASE SubmitRescales
  <2>1. PICK R \in SUBSET Rescales(wk) :
          /\ \A r \in R : apps[r.app].status # "absent"
          /\ apps' = Resubmitted(R)
          /\ IF R = Rescales(wk) THEN wk' = AfterSubmit[wk] /\ left' = AppsOf(R) ELSE wk' = "rb_mark"
    BY <1>9 DEF SubmitRescales
  <2>2. UNCHANGED <<committed, abandoned, recovery, input, running, plan>> /\ wk \in {"downs", "ups"}
    BY <1>9 DEF SubmitRescales, WorkerOnly, entryVars, coordVars
  <2>3. CASE R # Rescales(wk)
    BY <2>1, <2>3, UnsureStep DEF Unsure
  <2>4. CASE R = Rescales(wk)
    <3>1. PlanSound /\ StopsAll
      BY <2>2 DEF ServeInv, Runs, Applying, Stopping, Brought
    <3>2. R \subseteq [app : App, scaling : Scalings] /\ \A c \in R : c.scaling = plan.models[c.app[1]].scaling
      BY <2>1, <3>1, AppTypes DEF Rescales, PlanSound
    <3>3. \A a \in App :
            IF a \in AppsOf(R) THEN apps'[a].status = "starting" /\ apps'[a].scaling = plan.models[a[1]].scaling
                               ELSE apps'[a] = apps[a]
      BY <2>1, <3>2, ResubmittedFacts
    <3>4. \A a \in App : apps'[a].status # "absent" => apps[a].status # "absent"
      BY <2>1, <3>3 DEF AppsOf
    <3>5. Present(App)' \subseteq Present(App) /\ Present(plan.retired)' \subseteq Present(plan.retired)
      BY <2>2, <3>4, AppTypes DEF Present
    <3>6. /\ wk' = (IF wk = "downs" THEN "downs_wait" ELSE "ups_wait")
          /\ R = (IF wk = "downs" THEN plan.scale_downs ELSE plan.scale_ups)
      BY <2>1, <2>2, <2>4 DEF Rescales, AfterSubmit
    <3>7. PlanSound' /\ StopsAll'
      BY <2>2, <3>1, <3>5, <3>6 DEF PlanSound, StopsAll, AppsOf, Brought
    <3>8. Accounted'
      BY <2>2, <3>5, <3>6 DEF ServeInv, Runs, Accounted, Stopping, Brought
    <3>9. WillScale'
      <4>1. ToScale \subseteq R \cup ToScale'
        BY <2>2, <3>6 DEF ToScale, Stopping
      <4>2. \A a \in Named(plan.models) : a \in AppsOf(ToScale) => a \in AppsOf(R) \/ a \in AppsOf(ToScale')
        BY <4>1 DEF AppsOf
      <4>3. \A a \in Named(plan.models) :
              (Scaled(a, plan.models) => Scaled(a, plan.models)') /\ (a \in AppsOf(R) => Scaled(a, plan.models)')
        BY <2>2, <3>3, AppTypes DEF Scaled, Live
      <4>4. ~abandoned => \A a \in Named(plan.models) : Scaled(a, plan.models) \/ a \in AppsOf(ToScale)
        BY <2>2 DEF ServeInv, Runs, WillScale, Applying, Stopping, Brought
      <4> QED
        BY <2>2, <3>6, <4>2, <4>3, <4>4 DEF WillScale, AppsOf
    <3> QED
      BY <3>6, <3>7, <3>8, <3>9 DEF ServeInv, Rests, Runs, RollsBack
  <2> QED
    BY <2>3, <2>4
<1>10. CASE SubmitDeploys
  <2>1. /\ UNCHANGED <<committed, abandoned, recovery, input, running, plan>> /\ wk = "deploy"
        /\ apps' = Resubmitted(plan.deploys) /\ wk' = "deploy_wait" /\ left' = AppsOf(plan.deploys)
    BY <1>10 DEF SubmitDeploys, WorkerOnly, entryVars, coordVars
  <2>2. PlanSound /\ StopsAll
    BY <2>1 DEF ServeInv, Runs, Applying, Stopping
  <2>3. /\ plan.deploys \subseteq [app : App, scaling : Scalings]
        /\ \A c \in plan.deploys : c.scaling = plan.models[c.app[1]].scaling
    BY <2>2, AppTypes DEF PlanSound
  <2>4. \A a \in App :
          IF a \in AppsOf(plan.deploys)
          THEN apps'[a].status = "starting" /\ apps'[a].scaling = plan.models[a[1]].scaling
          ELSE apps'[a] = apps[a]
    BY <2>1, <2>3, ResubmittedFacts
  <2>5. /\ Present(App)' \subseteq Present(App) \cup AppsOf(plan.deploys)
        /\ \A a \in plan.retired : apps'[a] = apps[a]
    BY <2>2, <2>4, AppTypes DEF Present, PlanSound
  <2>6. PlanSound'
    BY <2>1, <2>2 DEF PlanSound, AppsOf
  <2>7. StopsAll'
    BY <2>1, <2>2, <2>5 DEF StopsAll, Present
  <2>8. Accounted'
    BY <2>1, <2>2, <2>5 DEF ServeInv, Runs, Accounted, PlanSound, Stopping
  <2>9. WillScale'
    <3>1. ToScale \subseteq plan.deploys \cup ToScale'
      BY <2>1 DEF ToScale
    <3>2. \A a \in Named(plan.models) :
            a \in AppsOf(ToScale) => a \in AppsOf(plan.deploys) \/ a \in AppsOf(ToScale')
      BY <3>1 DEF AppsOf
    <3>3. \A a \in Named(plan.models) :
            /\ Scaled(a, plan.models) => Scaled(a, plan.models)'
            /\ a \in AppsOf(plan.deploys) => Scaled(a, plan.models)'
      BY <2>1, <2>4, AppTypes DEF Scaled, Live
    <3>4. ~abandoned => \A a \in Named(plan.models) : Scaled(a, plan.models) \/ a \in AppsOf(ToScale)
      BY <2>1 DEF ServeInv, Runs, WillScale, Applying, Stopping
    <3>5. \A a \in left' \cap Named(plan.models) : apps'[a].scaling = plan.models[a[1]].scaling
      BY <2>1, <2>4, AppTypes
    <3> QED
      BY <2>1, <3>2, <3>3, <3>4, <3>5 DEF WillScale, AppsOf
  <2> QED
    BY <2>1, <2>6, <2>7, <2>8, <2>9 DEF ServeInv, Rests, Runs, RollsBack
<1>11. CASE Up
  <2>1. UNCHANGED <<apps, committed, abandoned, recovery, input, running, plan>> /\ wk \in DOMAIN AfterWait
    BY <1>11 DEF Up, WorkerOnly, entryVars, coordVars
  <2>2. Present(App)' = Present(App) /\ Present(plan.retired)' = Present(plan.retired)
    BY <2>1 DEF Present
  <2>3. PlanSound /\ StopsAll
    BY <2>1 DEF ServeInv, Runs, AfterWait, Applying, Stopping, Brought
  <2>4. PlanSound'
    BY <2>1, <2>3 DEF PlanSound, AppsOf
  <2>5. CASE wk' = wk
    BY <1>11, <2>1, <2>5, ServeQuiet DEF Up, AppsWane, Live, AfterWait, AfterDelete
  <2>6. CASE wk = "downs_wait" /\ wk' = "stop" /\ left' = Stopped
    <3>1. StopsAll'
      BY <2>1, <2>6, AppTypes DEF StopsAll, Stopped, Present, Brought
    <3>2. Accounted' /\ WillScale'
      BY <2>1, <2>2, <2>6 DEF ServeInv, Runs, Accounted, WillScale, Scaled, Live, ToScale, AppsOf,
         Applying, Stopping, Brought
    <3> QED
      BY <2>4, <2>6, <3>1, <3>2 DEF ServeInv, Rests, Runs, RollsBack
  <2>7. CASE wk = "deploy_wait" /\ wk' = "ups"
    <3>1. StopsAll'
      BY <2>1, <2>2, <2>3, <2>7 DEF StopsAll, Brought
    <3>2. Accounted' /\ WillScale'
      BY <2>1, <2>2, <2>7 DEF ServeInv, Runs, Accounted, WillScale, Scaled, Live, ToScale, AppsOf,
         Applying, Stopping, Brought
    <3> QED
      BY <2>4, <2>7, <3>1, <3>2 DEF ServeInv, Rests, Runs, RollsBack
  <2>8. CASE wk = "ups_wait" /\ wk' = "switch"
    BY <2>1, <2>8, ServeQuiet DEF AppsWane, Live, Submitted
  <2>9. CASE wk = "ups_wait" /\ wk' = "retire" /\ left' = Retired /\ ~plan.commits
    <3>1. plan.models = committed
      BY <2>3, <2>9 DEF PlanSound
    <3>2. Present(App) \subseteq plan.retired \cup Named(committed)
      BY <2>9, <3>1 DEF ServeInv, Runs, Accounted, Brought
    <3>3. input[running].strategy \in {"blue_green", "stop_start"}
      <4>1. wkind = "run"
        BY <1>1, <2>9 DEF ControlInv, WorkerKinds, RollbackWork, Rolling
      <4> QED
        BY <4>1 DEF TypeInv, TypeOK, EntryType, Request, Strategies
    <3>4. Accounted'
      BY <2>1, <2>2, <2>3, <2>9, <3>2, <3>3 DEF Accounted, Retired, StopsAll, Present, Stopping, Brought
    <3>5. WillScale'
      BY <2>1, <2>9, <3>1 DEF ServeInv, Runs, WillScale, Scaled, Live, ToScale, AppsOf, Applying,
         Stopping, Brought
    <3> QED
      BY <2>9, <3>4, <3>5 DEF ServeInv, Rests, Runs, RollsBack, Applying, Stopping, Brought
  <2> QED
    BY <1>11, <2>1, <2>5, <2>6, <2>7, <2>8, <2>9 DEF Up, AfterWait
<1>12. ASSUME NEW a \in App, Retry(a)
      PROVE  ServeInv'
  <2>1. /\ UNCHANGED <<committed, abandoned, recovery, input, running, plan>>
        /\ wk = "deploy_wait" /\ a \in left /\ apps[a].status = "failed"
    BY <1>12 DEF Retry, WorkerOnly, entryVars, coordVars
  <2>2. CASE wk' = "rb_mark"
    BY <2>2, UnsureStep DEF Unsure
  <2>3. CASE apps' = [apps EXCEPT ![a].status = "starting"] /\ UNCHANGED <<wk, left>>
    <3>1. /\ \A x \in App : apps'[x].scaling = apps[x].scaling
          /\ \A x \in App : x # a => apps'[x] = apps[x]
          /\ \A x \in App : apps'[x].status # "absent" <=> apps[x].status # "absent"
      BY <1>1, <2>1, <2>3 DEF ServeApp
    <3>2. Present(App)' = Present(App) /\ Present(plan.retired)' = Present(plan.retired)
      BY <2>1, <3>1, AppTypes DEF Present
    <3>3. PlanSound' /\ StopsAll'
      BY <2>1, <2>3, <3>2 DEF ServeInv, Runs, PlanSound, StopsAll, AppsOf, Applying, Brought
    <3>4. Accounted'
      BY <2>1, <2>3, <3>2 DEF ServeInv, Runs, Accounted, Stopping, Brought
    <3>5. a \in Named(plan.models) => apps[a].scaling = plan.models[a[1]].scaling
      BY <2>1 DEF ServeInv, Runs, WillScale
    <3>6. \A x \in Named(plan.models) : Scaled(x, plan.models) => Scaled(x, plan.models)'
      BY <2>1, <3>1, <3>5, AppTypes DEF Scaled, Live
    <3>7. ToScale' = ToScale
      BY <2>1, <2>3 DEF ToScale
    <3>8. WillScale'
      BY <2>1, <2>3, <3>1, <3>6, <3>7, AppTypes DEF ServeInv, Runs, WillScale, AppsOf, Applying, Brought
    <3> QED
      BY <2>1, <2>3, <3>3, <3>4, <3>8 DEF ServeInv, Rests, Runs, RollsBack
  <2> QED
    BY <1>12, <2>2, <2>3 DEF Retry
<1>13. CASE Confirmed
  BY <1>13, <1>1 DEF Confirmed, WorkerOnly, entryVars, coordVars, workerVars, gatewayVars,
     historyVars, ServeInv, Rests, AsCommitted, Runs, PlanSound, StopsAll, Accounted, WillScale,
     ToScale, RollsBack, Present, Scaled, Live, Applying, Stopping, Brought, ControlInv,
     WorkerKinds, LockHeld, Rolling, RollbackWork
<1>14. CASE ConfirmTimesOut
  BY <1>14, <1>1 DEF ConfirmTimesOut, WorkerOnly, entryVars, coordVars, workerVars, gatewayVars,
     historyVars, ServeInv, Rests, AsCommitted, Runs, PlanSound, StopsAll, Accounted, WillScale,
     ToScale, RollsBack, Present, Scaled, Live, Applying, Stopping, Brought, ControlInv,
     WorkerKinds, LockHeld, Rolling, RollbackWork
<1>15. CASE Fails
  BY <1>15, UnsureStep DEF Fails, Polling, Unsure
<1>16. CASE RollbackDiff
  <2>1. UNCHANGED <<apps, committed, abandoned, recovery>> /\ wk = "rb_diff"
    BY <1>16 DEF RollbackDiff, coordVars
  <2>2. CASE wk' = "raised"
    BY <2>2, UnsureStep DEF Unsure
  <2>3. CASE wk' = "rb_delete" /\ plan' = build_diff(BareRequest, committed, apps) /\ left' = plan'.leftovers
    <3>1. PICK d : d = plan'
      OBVIOUS
    <3>2. BareRequest \in Request /\ BareRequest.mode = "bare"
      BY BareRequestType DEF BareRequest
    <3>3. DiffSound(plan', BareRequest, committed, apps)
      BY <1>1, <2>3, <3>2, BuildDiffSound
    <3>4. DiffSound(d, BareRequest, committed, apps) /\ d.models = committed
      BY <3>1, <3>2, <3>3 DEF DiffSound
    <3>5. ASSUME NEW a \in Named(committed)
          PROVE  Scaled(a, committed) \/ a \in AppsOf(d.scale_downs \cup d.scale_ups)
      BY <3>2, <3>4 DEF DiffSound, Scaled, Live, AppsOf
    <3>6. RollsBack'
      BY <2>1, <2>3, <3>1, <3>4, <3>5 DEF DiffSound, RollsBack, Present, Scaled, Live, AppsOf
    <3> QED
      BY <2>3, <3>6 DEF ServeInv, Rests, Runs, Accounted, WillScale, Applying, Stopping, Brought
  <2> QED
    BY <1>16, <2>2, <2>3 DEF RollbackDiff
<1>17. CASE RestoreScaling
  <2>1. UNCHANGED <<committed, recovery, plan>> /\ wk = "rb_scale" /\ wk' = "report"
    BY <1>17 DEF RestoreScaling, coordVars
  <2> DEFINE R == {r \in plan.scale_downs \cup plan.scale_ups : apps[r.app].status # "absent"}
  <2>2. CASE abandoned' = TRUE
    BY <2>1, <2>2 DEF ServeInv, Rests, Runs, Accounted, WillScale, RollsBack, Applying, Stopping, Brought
  <2>3. CASE apps' = Resubmitted(R)
    <3>1. R \subseteq [app : App, scaling : Scalings] /\ \A c \in R : c.scaling = committed[c.app[1]].scaling
      BY <2>1, AppTypes DEF ServeInv, RollsBack
    <3>2. \A a \in AppsOf(R) : apps[a].status # "absent"
      BY DEF AppsOf
    <3>3. \A a \in AppsOf(plan.scale_downs \cup plan.scale_ups) : a \in AppsOf(R) \/ apps[a].status = "absent"
      BY DEF AppsOf
    <3> HIDE DEF R
    <3>4. \A a \in App :
            IF a \in AppsOf(R) THEN apps'[a].status = "starting" /\ apps'[a].scaling = committed[a[1]].scaling
                               ELSE apps'[a] = apps[a]
      BY <2>3, <3>1, ResubmittedFacts
    <3>5. Present(App)' \subseteq Named(committed)
      BY <2>1, <3>2, <3>4 DEF Present, ServeInv, RollsBack
    <3>6. ASSUME NEW a \in Named(committed) PROVE Scaled(a, committed)'
      <4>1. a \in App
        BY AppTypes
      <4>2. CASE a \in AppsOf(R)
        BY <2>1, <3>4, <4>1, <4>2 DEF Scaled
      <4>3. CASE a \notin AppsOf(R)
        <5>1. apps'[a] = apps[a]
          BY <3>4, <4>1, <4>3
        <5>2. Scaled(a, committed) \/ apps[a].status = "absent"
          BY <2>1, <3>3, <4>3 DEF ServeInv, RollsBack
        <5> QED
          BY <2>1, <5>1, <5>2 DEF Scaled, Live
      <4> QED
        BY <4>2, <4>3
    <3>7. AsCommitted'
      BY <2>1, <3>5, <3>6 DEF AsCommitted
    <3> QED
      BY <2>1, <3>7 DEF ServeInv, Rests, Runs, Accounted, WillScale, RollsBack, Applying, Stopping, Brought
  <2> QED
    BY <1>17, <2>2, <2>3 DEF RestoreScaling
<1>18. CASE ResetRouting
  BY <1>18, UnsureStep DEF ResetRouting, Unsure
<1>19. ASSUME NEW a \in App, AppStarts(a)
      PROVE  ServeInv'
  <2>1. AppsWane /\ UNCHANGED <<committed, plan, wk, left, abandoned, recovery, input, running>>
    BY <1>1, <1>19 DEF AppStarts, Becomes, AppsWane, Live, ServeApp, Status, entryVars, coordVars, workerVars
  <2> QED
    BY <2>1, ServeQuiet DEF Present
<1>20. ASSUME NEW a \in App, AppGone(a)
      PROVE  ServeInv'
  <2>1. AppsWane /\ UNCHANGED <<committed, plan, wk, left, abandoned, recovery, input, running>>
    BY <1>1, <1>20 DEF AppGone, Becomes, AppsWane, Live, ServeApp, Status, entryVars, coordVars, workerVars
  <2> QED
    BY <2>1, ServeQuiet DEF Present
<1>21. ASSUME NEW a \in App, AppFails(a)
      PROVE  ServeInv'
  <2>1. AppsWane /\ UNCHANGED <<committed, plan, wk, left, abandoned, recovery, input, running>>
    BY <1>1, <1>21 DEF AppFails, Becomes, AppsWane, Live, ServeApp, Status, entryVars, coordVars, workerVars
  <2> QED
    BY <2>1, ServeQuiet DEF Present
<1>22. ASSUME NEW a \in App, AppSickens(a)
      PROVE  ServeInv'
  <2>1. AppsWane /\ UNCHANGED <<committed, plan, wk, left, abandoned, recovery, input, running>>
    BY <1>1, <1>22 DEF AppSickens, Becomes, AppsWane, Live, ServeApp, Status, entryVars, coordVars, workerVars
  <2> QED
    BY <2>1, ServeQuiet DEF Present
<1>23. ASSUME NEW g \in Replicas, ReplicaFollows(g)
      PROVE  ServeInv'
  BY <1>23, <1>1, ServeQuiet DEF ReplicaFollows, AppsWane, Live, Present, entryVars, coordVars,
     workerVars, gatewayVars, historyVars
<1>24. ASSUME NEW r \in Requests, CancelRunning(r)
      PROVE  ServeInv'
  BY <1>24, <1>1, ServeQuiet DEF CancelRunning, AppsWane, Live, Present, entryVars, coordVars,
     workerVars, gatewayVars, historyVars
<1>25. CASE SeesCancel
  BY <1>25, UnsureStep DEF SeesCancel, Polling, Unsure
<1>26. CASE UNCHANGED vars
  BY <1>26, <1>1, ServeQuiet DEF vars, AppsWane, Live, Present, entryVars, coordVars, workerVars,
     gatewayVars, historyVars
<1>27. ASSUME NEW r \in Requests, CancelQueued(r)
      PROVE  ServeInv'
  BY <1>27, <1>1, ServeQuiet DEF CancelQueued, AppsWane, Live, Present, entryVars, coordVars,
     workerVars, gatewayVars, historyVars
<1>28. CASE RunEnds
  BY <1>28, <1>1 DEF RunEnds, Ends, NoWorker, entryVars, coordVars, workerVars, gatewayVars,
     historyVars, ServeInv, Rests, AsCommitted, Runs, PlanSound, StopsAll, Accounted, WillScale,
     ToScale, RollsBack, Present, Scaled, Live, Applying, Stopping, Brought, ControlInv,
     WorkerKinds, LockHeld, Rolling, RollbackWork
<1>29. CASE DeathSeen
  BY <1>29, UnsureStep DEF DeathSeen, NewWorker, Unsure
<1>30. CASE RollbackEnds
  BY <1>30, <1>1 DEF RollbackEnds, Ends, NoWorker, entryVars, coordVars, workerVars, gatewayVars,
     historyVars, ServeInv, Rests, AsCommitted, Runs, PlanSound, StopsAll, Accounted, WillScale,
     ToScale, RollsBack, Present, Scaled, Live, Applying, Stopping, Brought, ControlInv,
     WorkerKinds, LockHeld, Rolling, RollbackWork
<1>31. CASE Recover
  <2>1. UNCHANGED <<apps, committed, plan>> /\ recovery = "listing" /\ wk = "none"
    BY <1>1, <1>31 DEF Recover, ControlInv, WorkerKinds
  <2>2. CASE wk' = "rb_reset"
    BY <2>2, UnsureStep DEF Unsure
  <2>3. CASE wk' = wk /\ Present(App) = {}
    <3>1. AsCommitted'
      BY <2>1, <2>3, AppTypes DEF AsCommitted, Present, Scaled, Live
    <3> QED
      BY <2>1, <2>3, <3>1 DEF ServeInv, Rests, Runs, Accounted, WillScale, RollsBack, Applying,
         Stopping, Brought
  <2>4. CASE wk' = wk /\ abandoned' = TRUE
    BY <2>1, <2>4 DEF ServeInv, Rests, Runs, Accounted, WillScale, RollsBack, Applying, Stopping, Brought
  <2> QED
    BY <1>31, <2>2, <2>3, <2>4 DEF Recover, NewWorker
<1>32. CASE RecoveryEnds
  BY <1>32, <1>1 DEF RecoveryEnds, NoWorker, entryVars, coordVars, workerVars, gatewayVars,
     historyVars, ServeInv, Rests, AsCommitted, Runs, PlanSound, StopsAll, Accounted, WillScale,
     ToScale, RollsBack, Present, Scaled, Live, Applying, Stopping, Brought, ControlInv,
     WorkerKinds, LockHeld, Rolling, RollbackWork
<1>33. CASE CommitLands
  <2>1. lock # None /\ committed' = writing /\ UNCHANGED <<apps, abandoned, recovery, plan, input, running>>
    BY <1>33 DEF CommitLands
  <2>2. CASE wk \in {"none", "diff"}
    <3>1. abandoned' /\ wk' = wk
      BY <1>33, <2>1, <2>2 DEF CommitLands, ControlInv, LockHeld
    <3> QED
      BY <2>2, <3>1 DEF ServeInv, Rests, Runs, Accounted, WillScale, RollsBack, Applying, Stopping, Brought
  <2>3. CASE wk \in {"rb_mark", "rb_reset", "dead"}
    <3>1. wk' = wk
      BY <1>33, <2>3 DEF CommitLands
    <3> QED
      BY <2>3, <3>1, UnsureStep DEF Unsure
  <2>4. CASE wk = "committing"
    <3>1. wk' = "retire" /\ left' = Retired /\ committed' = plan.models /\ wkind = "run"
      BY <1>33, <2>1, <2>4 DEF CommitLands, ControlInv, LockHeld
    <3>2. input[running].strategy \in {"blue_green", "stop_start"}
      BY <3>1 DEF TypeInv, TypeOK, EntryType, Request, Strategies
    <3>3. Present(App)' \subseteq Named(plan.models) \cup left'
      BY <2>1, <2>4, <3>1, <3>2
         DEF ServeInv, Runs, Accounted, StopsAll, Retired, Present, Applying, Stopping, Brought
    <3>4. ~abandoned => \A a \in Named(plan.models) : Scaled(a, plan.models)'
      BY <2>1, <2>4 DEF ServeInv, Runs, WillScale, Scaled, Live, ToScale, AppsOf, Applying, Stopping, Brought
    <3>5. ~abandoned' => \A a \in Named(committed') : Live(a)' => apps'[a].scaling = committed'[a[1]].scaling
      BY <2>1, <3>1, <3>4 DEF Scaled
    <3> QED
      BY <3>1, <3>3, <3>5
         DEF ServeInv, Rests, Runs, Accounted, WillScale, RollsBack, Scaled, Applying, Stopping, Brought
  <2> QED
    BY <2>1, <2>2, <2>3, <2>4 DEF ControlInv, LockHeld
<1>34. CASE CommitFails
  BY <1>34, <1>1 DEF CommitFails, Fault, entryVars, coordVars, workerVars, gatewayVars, historyVars,
     ServeInv, Rests, AsCommitted, Runs, PlanSound, StopsAll, Accounted, WillScale, ToScale,
     RollsBack, Present, Scaled, Live, Applying, Stopping, Brought, ControlInv, WorkerKinds,
     LockHeld, Rolling, RollbackWork
<1>35. CASE CoordinatorDies
  BY <1>35, <1>1 DEF CoordinatorDies, NoWorker, entryVars, coordVars, workerVars, gatewayVars,
     historyVars, ServeInv, Rests, AsCommitted, Runs, PlanSound, StopsAll, Accounted, WillScale,
     ToScale, RollsBack, Present, Scaled, Live, Applying, Stopping, Brought, ControlInv,
     WorkerKinds, LockHeld, Rolling, RollbackWork
<1>36. ASSUME NEW r \in Requests, NEW request \in Inputs, Submit(r, request)
      PROVE  ServeInv'
  <2>1. /\ UNCHANGED <<apps, committed, plan, left, wk, abandoned, running>> /\ rstate[r] = "new"
        /\ input' = [input EXCEPT ![r] = request] /\ (recovery' = "done" => recovery = "done")
    BY <1>36 DEF Submit, workerVars, historyVars
  <2>2. wk \in Applying => running \in Requests /\ running # r
    <3>1. wk \in Applying => wkind = "run"
      BY <1>1 DEF ControlInv, WorkerKinds, RollbackWork, Rolling, Applying, Stopping, Brought
    <3> QED
      BY <2>1, <3>1 DEF TypeInv, CommitInv, OnlyStarted, Started
  <2>3. wk \in Applying => input'[running'].strategy = input[running].strategy
    BY <2>1, <2>2 DEF TypeInv, TypeOK, EntryType
  <2> QED
    BY <2>1, <2>3, ServeQuiet DEF AppsWane, Live, Present
<1>37. CASE Pick
  BY <1>37, <1>1 DEF Pick, NewWorker, entryVars, coordVars, workerVars, gatewayVars, historyVars,
     ServeInv, Rests, AsCommitted, Runs, PlanSound, StopsAll, Accounted, WillScale, ToScale,
     RollsBack, Present, Scaled, Live, Applying, Stopping, Brought, ControlInv, WorkerKinds,
     LockHeld, Rolling, RollbackWork
<1>38. ASSUME NEW c \in InFlight, Switch(c)
      PROVE  ServeInv'
  <2>1. /\ c \in late => wk = "dead"
        /\ c \notin late => wk = "switch"
    BY <1>38, CallFacts DEF Switch, ControlInv, CallsFresh
  <2>2. /\ UNCHANGED <<apps, committed, plan, left, abandoned, recovery, input, running>>
        /\ IF c \in late THEN wk' = wk ELSE wk' = "confirm"
    BY <1>38 DEF Switch, Answer, historyVars
  <2>3. CASE c \in late
    BY <2>1, <2>2, <2>3, UnsureStep DEF Unsure
  <2>4. CASE c \notin late
    BY <2>1, <2>2, <2>4, ServeQuiet DEF AppsWane, Live, Submitted
  <2> QED
    BY <2>3, <2>4
<1>39. ASSUME NEW c \in InFlight, CommitCancelled(c)
      PROVE  ServeInv'
  <2>1. /\ UNCHANGED <<apps, committed, plan, left, abandoned, recovery, input, running>>
        /\ wk' = wk \/ wk' = "rb_mark"
    BY <1>39 DEF CommitCancelled, Answer, entryVars, coordVars, historyVars
  <2> QED
    BY <2>1, ServeQuiet, UnsureStep DEF AppsWane, Live, Present, Unsure
<1>40. ASSUME NEW c \in InFlight, CommitStarts(c)
      PROVE  ServeInv'
  <2>1. /\ c \in late => wk = "dead"
        /\ c \notin late => wk = "commit"
    BY <1>40, CallFacts DEF CommitStarts, ControlInv, CallsFresh
  <2>2. /\ UNCHANGED <<apps, committed, plan, left, abandoned, recovery, input, running>>
        /\ IF c \in late THEN wk' = wk ELSE wk' = "committing"
    BY <1>40 DEF CommitStarts, Answer, historyVars
  <2>3. CASE c \in late
    BY <2>1, <2>2, <2>3, UnsureStep DEF Unsure
  <2>4. CASE c \notin late
    BY <2>1, <2>2, <2>4, ServeQuiet DEF AppsWane, Live, Submitted
  <2> QED
    BY <2>3, <2>4
<1>41. ASSUME NEW c \in InFlight, RollingBack(c)
      PROVE  ServeInv'
  <2>1. /\ UNCHANGED <<apps, committed, plan, left, abandoned, recovery, input, running>>
        /\ wk' = wk \/ wk' = "rb_reset"
    BY <1>41 DEF RollingBack, Answer, entryVars, coordVars, historyVars
  <2> QED
    BY <2>1, ServeQuiet, UnsureStep DEF AppsWane, Live, Present, Unsure
<1>42. ASSUME NEW c \in InFlight, Refuse(c)
      PROVE  ServeInv'
  BY <1>42, <1>1, ServeQuiet DEF Refuse, AppsWane, Live, Present, entryVars, coordVars, workerVars,
     gatewayVars, historyVars
<1>43. ASSUME NEW r \in Requests, KillUnlessSeen(r)
      PROVE  ServeInv'
  <2>1. /\ UNCHANGED <<apps, committed, plan, left, abandoned, recovery, input, running>>
        /\ wk' = wk \/ wk' = "dead"
    BY <1>43 DEF KillUnlessSeen, Die, entryVars, coordVars, historyVars
  <2> QED
    BY <2>1, ServeQuiet, UnsureStep DEF AppsWane, Live, Present, Unsure
<1>44. CASE WorkerDies
  BY <1>44, UnsureStep DEF WorkerDies, Die, Unsure
<1> QED
  BY <1>2, <1>3, <1>4, <1>5, <1>6, <1>7, <1>8, <1>9, <1>10, <1>11, <1>12, <1>13, <1>14, <1>15,
     <1>16, <1>17, <1>18, <1>19, <1>20, <1>21, <1>22, <1>23, <1>24, <1>25, <1>26, <1>27, <1>28,
     <1>29, <1>30, <1>31, <1>32, <1>33, <1>34, <1>35, <1>36, <1>37, <1>38, <1>39, <1>40, <1>41,
     <1>42, <1>43, <1>44 DEF Next, Users, Coordinator, Worker, Trouble, Serve, Gateway

\* The first state has the three invariants.
LEMMA InitQuiet == Init => ControlInv /\ RoutingInv /\ ServeInv
<1> SUFFICES ASSUME Init PROVE ControlInv /\ RoutingInv /\ ServeInv
  OBVIOUS
<1>1. ControlInv
  BY InitControl
<1>2. RoutingInv
  BY DEF Init, RoutingInv, ReadFresh, RoutedFirst, RoutedFor, Rolling
<1>3. ServeInv
  BY DEF Init, ServeInv, Rests, Runs, Accounted, WillScale, RollsBack, Applying, Stopping, Brought
<1> QED
  BY <1>1, <1>2, <1>3

\* They hold in every state, whatever faults there are.
LEMMA QuietHolds == Spec => [](TypeInv /\ CommitInv /\ ControlInv /\ RoutingInv /\ ServeInv)
<1> DEFINE I == TypeInv /\ CommitInv /\ ControlInv /\ RoutingInv /\ ServeInv
<1>1. Init => I
  BY InitType, InitCommit, InitQuiet
<1>2. I /\ [Next]_vars => I'
  BY TypeStep, CommitStep, ControlStep, RoutingStep, ServeStep
<1> QED
  BY <1>1, <1>2, PTL DEF Spec

(* All or nothing (worker.py, roll_back and _retire; deploy_coordinator.py,    *)
(* _recover and reset_routing), for any number of requests, models, replicas   *)
(* and faults of every kind: between requests the gateway routes by its        *)
(* committed version and Serve holds its apps, at its replica counts, and no   *)
(* others, unless the last rollback did not run to its end.                    *)
THEOREM AllOrNothing == Spec => []QuietIsCommitted
<1>1. ControlInv /\ RoutingInv /\ ServeInv => QuietIsCommitted
  <2> SUFFICES ASSUME ControlInv, RoutingInv, ServeInv, Quiet, ~abandoned
               PROVE  /\ routing # 0 => routes[routing] = committed
                      /\ Present(App) \subseteq Named(committed)
                      /\ \A a \in Named(committed) :
                           apps[a].status \in {"starting", "running"} => apps[a].scaling = committed[a[1]].scaling
    BY DEF QuietIsCommitted
  <2>1. routing # 0 => routes[routing] = committed
    BY DEF Quiet, RoutingInv, RoutedFor, Settled
  <2>2. AsCommitted
    BY DEF Quiet, ServeInv, Rests
  <2> QED
    BY <2>1, <2>2 DEF AsCommitted, Scaled, Live
<1> QED
  BY <1>1, QuietHolds, PTL

-----------------------------------------------------------------------------
(* What a delete may touch.                                                  *)

\* Apps that are live, or will be again, until somebody deletes them.
Kept == {a \in App : apps[a].status \notin {"absent", "deleting"}}

\* Apps a replica routes to, or will on its way to the last routing.
Reached ==
  {a \in App : \E g \in Replicas : \E seq \in 1..Len(routes) : seq >= holds[g] /\ a \in Named(routes[seq])}

\* What the worker deletes outside stop_start's own step is of no use to the committed version.
LeftSpare ==
  /\ wk = "sources" => plan.leftovers \cap Named(committed) = {}
  /\ wk \in {"leftovers", "retire", "rb_delete"} => left \cap Named(committed) = {}

\* The apps a request switches to are there when it does, even if its worker died over the call.
SwitchKept ==
  /\ wk \in Brought => AppsOf(plan.deploys) \subseteq Kept
  /\ \A c \in late : c.op = "switch" /\ Accepts(c) => Named(c.models) \subseteq Named(committed) \cup Kept

\* A worker past its switch knows that it switched, and so does the coordinator; a rollback waits for the
\* coordinator's own routing.
Past == {"confirm", "commit", "committing"}
SwitchKnown ==
  /\ wk \in Past => wswitching /\ switched[running]
  /\ wk = "rb_confirm" => wseq = routing

\* States in which replicas may still route by models that are not committed: from a switch to its commit,
\* or to the confirmed switch back of the rollback that follows, and until recovery has looked at Serve.
Back == {"rb_reset", "rb_confirm"}
Exposed ==
  \/ recovery \in {"none", "listing"}
  \/ wkind \in {"recovery", "rollback"} /\ (wk \in {"raised", "dead"} \/ (wk \in Back /\ wswitching))
  \/ /\ wkind = "run" /\ switched[running] /\ rstate[running] # "retiring"
     /\ \/ wk \in {"raised", "dead"}
        \/ wk \in Past \cup {"rb_mark"} \cup Back /\ wswitching

\* Elsewhere they route to committed apps, unless a rollback was hurried; there, to apps nobody deleted.
ReachedHeld ==
  \/ hurried
  \/ Reached \subseteq Named(committed)
  \/ Exposed /\ Reached \subseteq Named(committed) \cup Kept

SpareInv == LeftSpare /\ SwitchKept /\ SwitchKnown /\ ReachedHeld

\* What DeletesOnlySpare says of a step.
SparesOnly ==
  \A a \in App : Deleted(a) =>
    \/ wk = "stop"
    \/ a \notin Named(committed) /\ (hurried \/ \A g \in Replicas : a \notin RoutedBy(holds[g]))

\* A step that deletes nothing.
AppsStay == (\A a \in App : ~Deleted(a)) /\ Kept \subseteq Kept'

\* Steps at which a worker is about to delete, or at its switch.
Deleting == {"sources", "leftovers", "retire", "rb_delete"}

\* ReachedHeld does not see a step that deletes nothing replicas may still route to, commits nothing,
\* routes by nothing but the committed version, and leaves the exposed states only in a hurry.
LEMMA ReachedQuiet ==
  ASSUME ReachedHeld, committed' = committed, Reached' \subseteq Reached \cup Named(committed),
         hurried => hurried', Exposed => Kept \subseteq Kept' /\ (Exposed' \/ hurried')
  PROVE  ReachedHeld'
BY DEF ReachedHeld

\* SwitchKept does not see a step that deletes nothing and takes no worker to its waits.
LEMMA SwitchQuiet ==
  ASSUME SwitchKept, committed' = committed, Kept \subseteq Kept', late' \subseteq late,
         \A c \in late' : c.op = "switch" /\ Accepts(c)' => Accepts(c),
         wk' \in Brought => wk \in Brought /\ plan' = plan
  PROVE  SwitchKept'
<1>1. wk' \in Brought => AppsOf(plan'.deploys) \subseteq Kept'
  BY DEF SwitchKept, AppsOf
<1>2. ASSUME NEW c \in late', c.op = "switch", Accepts(c)'
      PROVE  Named(c.models) \subseteq Named(committed) \cup Kept'
  BY <1>2 DEF SwitchKept
<1> QED
  BY <1>1, <1>2 DEF SwitchKept, AppsOf

\* SpareInv does not see a step that does neither, and takes no worker to its deletes or to its switch.
LEMMA SpareQuiet ==
  ASSUME SpareInv, AppsStay, UNCHANGED <<committed, routes, holds>>,
         hurried => hurried',
         Exposed => Exposed' \/ hurried',
         late' \subseteq late,
         \A c \in late' : c.op = "switch" /\ Accepts(c)' => Accepts(c),
         wk' \in Brought => wk \in Brought /\ plan' = plan,
         wk' \in Deleting => wk' = wk /\ plan' = plan /\ left' = left,
         wk' \in Past => wk \in Past /\ UNCHANGED <<wswitching, switched, running>>,
         wk' = "rb_confirm" => UNCHANGED <<wk, wseq, routing>>
  PROVE  SpareInv' /\ SparesOnly
<1>1. LeftSpare'
  BY DEF SpareInv, LeftSpare, Deleting
<1>2. SwitchKept'
  BY SwitchQuiet DEF SpareInv, AppsStay
<1>3. SwitchKnown'
  BY DEF SpareInv, SwitchKnown
<1>4. ReachedHeld'
  <2>1. Reached' = Reached
    BY DEF Reached
  <2> QED
    BY <2>1, ReachedQuiet DEF SpareInv, AppsStay
<1> QED
  BY <1>1, <1>2, <1>3, <1>4 DEF SpareInv, SparesOnly, AppsStay

\* A worker that has not switched, or that has switched back, leaves nothing exposed.
Calm == BeforeSwitch \cup {"retire", "rb_diff", "rb_delete", "rb_scale", "report"}

\* What the other invariants say of a worker.
LEMMA WorkerFacts ==
  ASSUME TypeInv, ControlInv
  PROVE  /\ wk \in Applying \cup {"diff", "retire", "rb_mark"} => wkind = "run" /\ recovery = "done"
         /\ wk # "none" => recovery \in {"rolling", "done"}
         /\ \A c \in late : c.op = "switch" /\ Accepts(c) => wkind = "run" /\ wk = "dead" /\ lock = None
<1>1. wkind \in {"none", "run", "rollback", "recovery"}
  BY DEF TypeInv, TypeOK, WorkerType
<1> QED
  BY <1>1 DEF ControlInv, WorkerKinds, CallsFresh, RollbackWork, Rolling, Applying, Stopping, Brought

\* So there, replicas route to committed apps.
LEMMA CalmFacts ==
  ASSUME TypeInv, ControlInv, wk \in Calm
  PROVE  ~Exposed
<1>1. recovery \notin {"none", "listing"} /\ wk \notin {"raised", "dead", "rb_mark"} \cup Past \cup Back
  BY WorkerFacts DEF Calm, BeforeSwitch, Past, Back
<1> QED
  BY <1>1 DEF Exposed

\* A step that submits apps deletes none.
LEMMA ResubmittedStay ==
  ASSUME TypeInv, NEW R, apps' = Resubmitted(R)
  PROVE  AppsStay
BY DEF AppsStay, Deleted, Kept, Resubmitted

\* A new routing reaches the apps it names, and no others.
LEMMA ReachedRoute ==
  ASSUME TypeInv, NEW models, models \in Version \cup {NoVersion}, Route(models), holds' = holds
  PROVE  Reached' \subseteq Reached \cup Named(models)
<1>1. routes \in Seq(Version \cup {NoVersion})
  BY DEF TypeInv, TypeOK, GatewayType
<1>2. /\ Len(routes') = Len(routes) + 1 /\ routes'[Len(routes) + 1] = models /\ Len(routes) \in Nat
      /\ \A seq \in 1..Len(routes) : routes'[seq] = routes[seq]
  BY <1>1 DEF Route
<1> SUFFICES ASSUME NEW a \in App, NEW g \in Replicas, NEW seq \in 1..Len(routes'),
                    seq >= holds[g], a \in Named(routes'[seq])
             PROVE  a \in Reached \cup Named(models)
  BY DEF Reached
<1>3. CASE seq = Len(routes) + 1
  BY <1>2, <1>3
<1>4. CASE seq # Len(routes) + 1
  BY <1>2, <1>4 DEF Reached
<1> QED
  BY <1>3, <1>4

\* Once every replica holds the last routing, only its apps are reached.
LEMMA ReachedTold ==
  ASSUME TypeInv, NEW models, routes # <<>>, routes[Len(routes)] = models,
         \A g \in Replicas : holds[g] = Len(routes)
  PROVE  Reached \subseteq Named(models)
<1>1. Len(routes) \in Nat
  BY DEF TypeInv, TypeOK, GatewayType
<1> SUFFICES ASSUME NEW a \in App, NEW g \in Replicas, NEW seq \in 1..Len(routes),
                    seq >= holds[g], a \in Named(routes[seq])
             PROVE  a \in Named(models)
  BY DEF Reached
<1>2. seq = Len(routes)
  BY <1>1
<1> QED
  BY <1>2

\* What a replica routes to is reached.
LEMMA RoutedReached ==
  ASSUME TypeInv, ConfirmInv, NEW g \in Replicas, NEW a \in App, a \in RoutedBy(holds[g])
  PROVE  a \in Reached
<1>1. holds[g] \in Nat /\ holds[g] <= Len(routes) /\ Len(routes) \in Nat
  BY DEF TypeInv, TypeOK, GatewayType, ConfirmInv, RoutingLast
<1>2. holds[g] # 0 /\ a \in Named(routes[holds[g]])
  BY DEF RoutedBy
<1>3. holds[g] \in 1..Len(routes) /\ holds[g] >= holds[g]
  BY <1>1, <1>2
<1> QED
  BY <1>2, <1>3 DEF Reached

\* A worker that dies leaves its call behind, and the apps it would have switched to.
LEMMA DeathSpares ==
  ASSUME TypeInv, ControlInv, ServeInv, SpareInv,
         (wk' = wk /\ late' = late) \/ (wk' = "dead" /\ late' = InFlight /\ wk # "none"),
         UNCHANGED <<rstate, switched, running, recovery, wkind, plan, left, wseq, wswitching, committed,
                     routing, apps, routes, holds, hurried>>
  PROVE  SpareInv' /\ SparesOnly
<1>1. AppsStay
  BY DEF AppsStay, Deleted, Kept
<1>2. CASE wk' = wk /\ late' = late
  <2>1. Exposed' = Exposed /\ \A c : Accepts(c)' = Accepts(c)
    BY <1>2 DEF Exposed, Accepts
  <2> QED
    BY <1>1, <1>2, <2>1, SpareQuiet
<1>3. CASE wk' = "dead" /\ late' = InFlight /\ wk # "none"
  <2>1. Exposed => Exposed'
    BY <1>3 DEF Exposed
  <2>2. ASSUME NEW c \in late', c.op = "switch", Accepts(c)'
        PROVE  Named(c.models) \subseteq Named(committed) \cup Kept
    <3>1. CASE c \in late
      BY <2>2, <3>1 DEF SpareInv, SwitchKept, Accepts
    <3>2. CASE c \notin late
      <4>1. wk = "switch" /\ c.models = plan.models
        BY <1>3, <2>2, <3>2 DEF InFlight, Call
      <4> QED
        BY <4>1 DEF ServeInv, Runs, PlanSound, SpareInv, SwitchKept, Applying, Brought
    <3> QED
      BY <3>1, <3>2
  <2>3. SwitchKept'
    BY <1>3, <2>2 DEF SwitchKept, Kept, Brought
  <2>4. ReachedHeld'
    BY <2>1, ReachedQuiet DEF SpareInv, Kept, Reached
  <2> QED
    BY <1>1, <1>3, <2>3, <2>4 DEF SpareInv, LeftSpare, SwitchKnown, Past, SparesOnly, AppsStay
<1> QED
  BY <1>2, <1>3

\* Every step keeps it, and deletes what it may.
LEMMA SpareStep ==
  ASSUME TypeInv, CommitInv, ControlInv, ConfirmInv, RoutingInv, ServeInv, SpareInv, [Next]_vars
  PROVE  SpareInv' /\ SparesOnly
<1>1. /\ running \in Requests \cup {None} /\ None \notin Requests /\ rstate \in [Requests -> States]
      /\ switched \in [Requests -> BOOLEAN]
      /\ late \subseteq CallType /\ wk \in Steps /\ lock \in Requests \cup {None}
      /\ wkind \in {"none", "run", "rollback", "recovery"} /\ hurried \in BOOLEAN
      /\ committed \in Version \cup {NoVersion} /\ apps \in [App -> ServeApp] /\ plan \in Diff
      /\ left \subseteq App
      /\ wkind \in {"run", "rollback"} => running \in Requests
  BY BoundAssumption
     DEF TypeInv, TypeOK, EntryType, CoordinatorType, WorkerType, HistoryType, ServeType, None, Requests
<1>0. ControlInv' /\ TypeInv'
  BY ControlStep, TypeStep
<1>2. CASE DrainEnds
  BY <1>2, <1>1, <1>0, SpareQuiet DEF DrainEnds, entryVars, coordVars, workerVars, gatewayVars,
     historyVars, AppsStay, Deleted, Kept, Exposed, Back, Accepts, Brought, Deleting, Past,
     ControlInv, WorkerKinds, CallsFresh
<1>3. CASE StartRecovery
  BY <1>3, <1>1, <1>0, SpareQuiet DEF StartRecovery, entryVars, coordVars, workerVars, gatewayVars,
     historyVars, AppsStay, Deleted, Kept, Exposed, Back, Accepts, Brought, Deleting, Past,
     ControlInv, WorkerKinds, CallsFresh
<1>4. CASE ReadVersion
  BY <1>4, <1>1, <1>0, SpareQuiet DEF ReadVersion, entryVars, coordVars, workerVars, gatewayVars,
     historyVars, AppsStay, Deleted, Kept, Exposed, Back, Accepts, Brought, Deleting, Past,
     ControlInv, WorkerKinds, CallsFresh
<1>5. CASE UseVersion
  <2>1. /\ UNCHANGED <<committed, holds, apps, plan, left, wk, wseq, late, running, rstate, switched>>
        /\ UNCHANGED <<recovery, wkind, wswitching, hurried>>
        /\ IF routing = 0 THEN Route(rv[1]) /\ rv # <<>> ELSE UNCHANGED <<routes, routing>>
    BY <1>5 DEF UseVersion, entryVars, workerVars, historyVars
  <2>2. AppsStay /\ Exposed' = Exposed /\ \A c : Accepts(c)' = Accepts(c)
    BY <2>1 DEF AppsStay, Deleted, Kept, Exposed, Accepts
  <2>3. CASE routing # 0
    BY <2>1, <2>2, <2>3, SpareQuiet DEF Past
  <2>4. CASE routing = 0
    <3>1. rv[1] = committed /\ Route(rv[1])
      BY <2>1, <2>4 DEF RoutingInv, ReadFresh
    <3>2. Reached' \subseteq Reached \cup Named(committed)
      BY <1>1, <2>1, <3>1, ReachedRoute
    <3>3. ReachedHeld'
      BY <2>1, <2>2, <3>2, ReachedQuiet DEF SpareInv, AppsStay
    <3>4. SwitchKept'
      BY <2>1, <2>2, SwitchQuiet DEF SpareInv, AppsStay
    <3>5. wk # "rb_confirm"
      BY <2>4 DEF RoutingInv, RoutedFor, Rolling
    <3> QED
      BY <2>1, <2>2, <3>3, <3>4, <3>5 DEF SpareInv, LeftSpare, SwitchKnown, SparesOnly, AppsStay
  <2> QED
    BY <2>3, <2>4
<1>6. CASE ComputeDiff
  <2>1. /\ wk = "diff" /\ wk' = "sources" /\ plan' = build_diff(input[running], committed, apps)
        /\ UNCHANGED <<committed, routes, holds, apps, late, running, rstate, hurried>>
        /\ wkind = "run"
    BY <1>6 DEF ComputeDiff, WorkerOnly, entryVars, coordVars, gatewayVars
  <2>2. input[running] \in Request
    BY <1>1, <2>1 DEF TypeInv, TypeOK, EntryType
  <2>3. DiffSound(build_diff(input[running], committed, apps), input[running], committed, apps)
    BY <1>1, <2>2, BuildDiffSound
  <2>4. plan'.leftovers \cap Named(committed) = {}
    BY <2>1, <2>3 DEF DiffSound
  <2>5. AppsStay /\ Reached' = Reached /\ \A c : Accepts(c)' = Accepts(c)
    BY <2>1 DEF AppsStay, Deleted, Kept, Reached, Accepts
  <2>6. SwitchKept'
    BY <2>1, <2>5, SwitchQuiet DEF SpareInv, AppsStay, Brought
  <2>8. ~Exposed
    BY <2>1, CalmFacts DEF Calm, BeforeSwitch
  <2>9. ReachedHeld'
    BY <2>1, <2>5, <2>8, ReachedQuiet DEF SpareInv
  <2> QED
    BY <2>1, <2>4, <2>5, <2>6, <2>9 DEF SpareInv, LeftSpare, SwitchKnown, Past, SparesOnly, AppsStay
<1>7. CASE SourcesResolved
  <2>1. /\ wk = "sources" /\ wk' = "leftovers" /\ left' = plan.leftovers
        /\ UNCHANGED <<committed, routes, holds, apps, late, running, rstate, hurried, plan>>
    BY <1>7 DEF SourcesResolved, WorkerOnly, entryVars, coordVars, gatewayVars
  <2>5. AppsStay /\ Reached' = Reached /\ \A c : Accepts(c)' = Accepts(c)
    BY <2>1 DEF AppsStay, Deleted, Kept, Reached, Accepts
  <2>6. SwitchKept'
    BY <2>1, <2>5, SwitchQuiet DEF SpareInv, AppsStay, Brought
  <2>8. ~Exposed
    BY <2>1, CalmFacts DEF Calm, BeforeSwitch
  <2>9. ReachedHeld'
    BY <2>1, <2>5, <2>8, ReachedQuiet DEF SpareInv
  <2> QED
    BY <2>1, <2>5, <2>6, <2>9 DEF SpareInv, LeftSpare, SwitchKnown, Past, SparesOnly, AppsStay
<1>8. CASE DeletePoll
  <2>1. /\ wk \in {"leftovers", "stop", "retire", "rb_delete"}
        /\ UNCHANGED <<committed, routes, holds, late, running, rstate, hurried, plan>>
    BY <1>8 DEF DeletePoll, AfterDelete, WorkerOnly, entryVars, coordVars, gatewayVars
  <2>8. ~Exposed
    BY <2>1, CalmFacts DEF Calm, BeforeSwitch
  <2>2. CASE Present(left) = {}
    <3>1. wk' \in {"downs", "deploy", "report", "rb_scale"} /\ apps' = apps
      BY <1>8, <2>1, <2>2 DEF DeletePoll, AfterDelete
    <3>2. AppsStay /\ \A c : Accepts(c)' = Accepts(c)
      BY <2>1, <3>1 DEF AppsStay, Deleted, Kept, Accepts
    <3> QED
      BY <2>1, <2>8, <3>1, <3>2, SpareQuiet DEF Brought, Deleting, Past
  <2>3. CASE Present(left) # {}
    <3>1. PICK S \in SUBSET {a \in Present(left) : apps[a].status # "deleting"} :
            apps' = [a \in App |-> IF a \in S THEN [apps[a] EXCEPT !.status = "deleting"] ELSE apps[a]]
      BY <1>8, <2>3 DEF DeletePoll
    <3>2. wk' = wk /\ left' = Present(left)
      BY <1>8, <2>3 DEF DeletePoll
    <3>3. LeftSpare'
      BY <2>1, <3>2 DEF SpareInv, LeftSpare, Present
    <3>4. SwitchKept'
      BY <1>0, <2>1, <3>2 DEF SwitchKept, ControlInv, CallsFresh, Brought
    <3>5. hurried \/ Reached \subseteq Named(committed)
      BY <2>8 DEF SpareInv, ReachedHeld
    <3>6. ReachedHeld'
      BY <2>1, <3>5 DEF ReachedHeld, Reached
    <3>7. ASSUME NEW a \in App, Deleted(a), wk # "stop"
          PROVE  a \notin Named(committed) /\ (hurried \/ \A g \in Replicas : a \notin RoutedBy(holds[g]))
      <4>1. a \in left
        BY <3>1, <3>7 DEF Deleted, Present
      <4>2. a \notin Named(committed)
        BY <2>1, <3>7, <4>1 DEF SpareInv, LeftSpare
      <4>3. ASSUME ~hurried, NEW g \in Replicas PROVE a \notin RoutedBy(holds[g])
        BY <3>5, <4>2, <4>3, RoutedReached
      <4> QED
        BY <4>2, <4>3
    <3> QED
      BY <2>1, <3>2, <3>3, <3>4, <3>6, <3>7 DEF SpareInv, SwitchKnown, Past, SparesOnly
  <2> QED
    BY <2>2, <2>3
<1>9. CASE SubmitRescales
  <2>1. /\ wk \in {"downs", "ups"} /\ wk' \in {"downs_wait", "ups_wait", "rb_mark"}
        /\ wk' = "ups_wait" => wk = "ups"
        /\ UNCHANGED <<committed, routes, holds, late, running, rstate, hurried, plan>>
    BY <1>9 DEF SubmitRescales, AfterSubmit, WorkerOnly, entryVars, coordVars, gatewayVars
  <2>2. AppsStay
    BY <1>9, ResubmittedStay DEF SubmitRescales
  <2>8. ~Exposed
    BY <2>1, CalmFacts DEF Calm, BeforeSwitch
  <2> QED
    BY <2>1, <2>2, <2>8, SpareQuiet DEF Brought, Deleting, Past, Accepts
<1>10. CASE SubmitDeploys
  <2>1. /\ wk = "deploy" /\ wk' = "deploy_wait" /\ apps' = Resubmitted(plan.deploys)
        /\ UNCHANGED <<committed, routes, holds, late, running, rstate, hurried, plan>>
    BY <1>10 DEF SubmitDeploys, WorkerOnly, entryVars, coordVars, gatewayVars
  <2>2. AppsStay
    BY <2>1, ResubmittedStay
  <2>3. AppsOf(plan.deploys) \subseteq Kept'
    BY <2>1, AppTypes DEF Kept, Resubmitted
  <2>4. SwitchKept'
    BY <1>0, <2>1, <2>3 DEF SwitchKept, ControlInv, CallsFresh, AppsOf
  <2>8. ~Exposed
    BY <2>1, CalmFacts DEF Calm, BeforeSwitch
  <2>9. ReachedHeld'
    BY <2>1, <2>8, ReachedQuiet DEF SpareInv, Reached
  <2> QED
    BY <2>1, <2>2, <2>4, <2>9 DEF SpareInv, LeftSpare, SwitchKnown, Past, SparesOnly, AppsStay
<1>11. CASE Up
  <2>1. /\ wk \in {"downs_wait", "deploy_wait", "ups_wait"}
        /\ \/ wk' = wk
           \/ wk = "downs_wait" /\ wk' = "stop"
           \/ wk = "deploy_wait" /\ wk' = "ups"
           \/ wk = "ups_wait" /\ wk' = "switch"
           \/ wk = "ups_wait" /\ wk' = "retire" /\ ~plan.commits /\ left' = Retired
        /\ UNCHANGED <<committed, routes, holds, apps, late, running, rstate, hurried, plan>>
    BY <1>11 DEF Up, AfterWait, WorkerOnly, entryVars, coordVars, gatewayVars
  <2>2. AppsStay /\ \A c : Accepts(c)' = Accepts(c)
    BY <2>1 DEF AppsStay, Deleted, Kept, Accepts
  <2>8. ~Exposed
    BY <2>1, CalmFacts DEF Calm, BeforeSwitch
  <2>3. CASE wk' # "retire"
    BY <2>1, <2>2, <2>3, <2>8, SpareQuiet DEF Brought, Deleting, Past
  <2>4. CASE wk' = "retire"
    <3>1. left' \cap Named(committed) = {}
      BY <2>1, <2>4 DEF ServeInv, Runs, PlanSound, Applying, Brought, Retired
    <3>2. SwitchKept'
      BY <2>2, <2>1, <2>4, SwitchQuiet DEF SpareInv, AppsStay, Brought
    <3>3. ReachedHeld'
      BY <2>1, <2>8, ReachedQuiet DEF SpareInv, Reached
    <3> QED
      BY <2>1, <2>2, <2>4, <3>1, <3>2, <3>3 DEF SpareInv, LeftSpare, SwitchKnown, Past, SparesOnly, AppsStay
  <2> QED
    BY <2>3, <2>4
<1>12. ASSUME NEW a \in App, Retry(a)
      PROVE  SpareInv' /\ SparesOnly
  <2>1. /\ wk = "deploy_wait" /\ wk' \in {"deploy_wait", "rb_mark"}
        /\ apps' \in {apps, [apps EXCEPT ![a].status = "starting"]}
        /\ UNCHANGED <<committed, routes, holds, late, running, rstate, hurried, plan>>
    BY <1>12 DEF Retry, WorkerOnly, entryVars, coordVars, gatewayVars
  <2>2. AppsStay
    BY <1>1, <2>1 DEF AppsStay, Deleted, Kept, ServeApp
  <2>8. ~Exposed
    BY <2>1, CalmFacts DEF Calm, BeforeSwitch
  <2> QED
    BY <2>1, <2>2, <2>8, SpareQuiet DEF Brought, Deleting, Past, Accepts
<1>13. CASE Confirmed
  <2>1. /\ AllHold(wseq)
        /\ (wk = "confirm" /\ wk' = "commit") \/ (wk = "rb_confirm" /\ wk' = "rb_diff")
        /\ UNCHANGED <<committed, routes, routing, holds, apps, late, running, rstate, plan, wseq>>
        /\ UNCHANGED <<wkind, wswitching, switched>>
    BY <1>13 DEF Confirmed, WorkerOnly, entryVars, coordVars, gatewayVars
  <2>2. AppsStay /\ Reached' = Reached /\ \A c : Accepts(c)' = Accepts(c)
    BY <2>1 DEF AppsStay, Deleted, Kept, Reached, Accepts
  <2>3. SwitchKept'
    BY <2>1, <2>2, SwitchQuiet DEF SpareInv, AppsStay, Brought
  <2>4. CASE wk = "confirm"
    <3>1. wkind = "run" /\ wk' = "commit"
      BY <2>1, <2>4, WorkerFacts DEF Applying, Brought
    <3>2. routes # <<>> /\ wseq = Len(routes) /\ routes[Len(routes)] = plan.models
      BY <2>4, <3>1 DEF ConfirmInv, SwitchAwaited
    <3>3. Reached \subseteq Named(plan.models)
      BY <2>1, <3>2, ReachedTold DEF AllHold
    <3>4. Reached \subseteq Named(committed) \cup Kept
      BY <2>4, <3>3 DEF ServeInv, Runs, PlanSound, SpareInv, SwitchKept, Applying, Brought
    <3>5. Exposed'
      BY <2>1, <2>4, <3>1 DEF Exposed, SpareInv, SwitchKnown, Past, ControlInv, CallsFresh, PreCommit
    <3>6. ReachedHeld'
      BY <2>1, <2>2, <3>4, <3>5 DEF ReachedHeld, AppsStay
    <3> QED
      BY <2>1, <2>2, <2>3, <2>4, <3>1, <3>6 DEF SpareInv, LeftSpare, SwitchKnown, Past, SparesOnly, AppsStay
  <2>5. CASE wk = "rb_confirm"
    <3>1. wseq = routing /\ routing # 0 /\ routes[routing] = committed /\ routing = Len(routes)
      BY <2>5 DEF SpareInv, SwitchKnown, RoutingInv, RoutedFor, Rolling, ConfirmInv, RoutingLast
    <3>2. routes # <<>>
      BY <3>1
    <3>3. Reached \subseteq Named(committed)
      BY <2>1, <3>1, <3>2, ReachedTold DEF AllHold
    <3>4. ReachedHeld'
      BY <2>1, <2>2, <3>3 DEF ReachedHeld
    <3> QED
      BY <2>1, <2>2, <2>3, <2>5, <3>4 DEF SpareInv, LeftSpare, SwitchKnown, Past, SparesOnly, AppsStay
  <2> QED
    BY <2>1, <2>4, <2>5
<1>14. CASE ConfirmTimesOut
  BY <1>14, <1>1, <1>0, SpareQuiet DEF ConfirmTimesOut, WorkerOnly, entryVars, coordVars,
     workerVars, gatewayVars, historyVars, AppsStay, Deleted, Kept, Exposed, Back, Accepts, Brought,
     Deleting, Past, ControlInv, WorkerKinds, CallsFresh
<1>15. CASE Fails
  BY <1>15, <1>1, <1>0, SpareQuiet DEF Fails, WorkerOnly, Polling, Polls, entryVars, coordVars,
     workerVars, gatewayVars, historyVars, AppsStay, Deleted, Kept, Exposed, Back, Accepts, Brought,
     Deleting, Past, ControlInv, WorkerKinds, CallsFresh
<1>16. CASE RollbackDiff
  <2>1. /\ wk = "rb_diff"
        /\ \/ /\ wk' = "rb_delete" /\ plan' = build_diff(BareRequest, committed, apps)
              /\ left' = plan'.leftovers
           \/ wk' = "raised"
        /\ UNCHANGED <<committed, routes, holds, apps, late, running, rstate, hurried>>
    BY <1>16 DEF RollbackDiff, entryVars, coordVars, gatewayVars
  <2>3. DiffSound(build_diff(BareRequest, committed, apps), BareRequest, committed, apps)
    BY <1>1, BareRequestType, BuildDiffSound
  <2>4. wk' = "rb_delete" => left' \cap Named(committed) = {}
    BY <2>1, <2>3 DEF DiffSound
  <2>5. AppsStay /\ Reached' = Reached /\ \A c : Accepts(c)' = Accepts(c)
    BY <2>1 DEF AppsStay, Deleted, Kept, Reached, Accepts
  <2>6. SwitchKept'
    BY <2>1, <2>5, SwitchQuiet DEF SpareInv, AppsStay, Brought
  <2>8. ~Exposed
    BY <2>1, CalmFacts DEF Calm, BeforeSwitch
  <2>9. ReachedHeld'
    BY <2>1, <2>5, <2>8, ReachedQuiet DEF SpareInv
  <2> QED
    BY <2>1, <2>4, <2>5, <2>6, <2>9 DEF SpareInv, LeftSpare, SwitchKnown, Past, SparesOnly, AppsStay
<1>17. CASE RestoreScaling
  <2>1. /\ wk = "rb_scale" /\ wk' = "report"
        /\ UNCHANGED <<committed, routes, holds, late, running, rstate, hurried, plan>>
    BY <1>17 DEF RestoreScaling, entryVars, coordVars, gatewayVars
  <2>2. AppsStay
    BY <1>17, ResubmittedStay DEF RestoreScaling
  <2>8. ~Exposed
    BY <2>1, CalmFacts DEF Calm, BeforeSwitch
  <2> QED
    BY <2>1, <2>2, <2>8, SpareQuiet DEF Brought, Deleting, Past, Accepts
<1>18. CASE ResetRouting
  <2>1. /\ wk = "rb_reset" /\ lock = None
        /\ UNCHANGED <<committed, holds, apps, late, running, rstate, switched, recovery, wkind, wswitching>>
        /\ hurried' = hurried
        /\ \/ /\ wk' = IF wswitching THEN "rb_confirm" ELSE "rb_diff"
              /\ \/ Route(committed) /\ wseq' = Len(routes) + 1
                 \/ UNCHANGED <<routes, routing>> /\ wseq' = routing
           \/ wk' = "raised" /\ UNCHANGED <<routes, routing>>
    BY <1>18 DEF ResetRouting, entryVars
  <2>2. AppsStay /\ \A c : Accepts(c)' = Accepts(c)
    BY <2>1 DEF AppsStay, Deleted, Kept, Accepts
  <2>3. SwitchKept'
    BY <2>1, <2>2, SwitchQuiet DEF SpareInv, AppsStay, Brought
  <2>4. Reached' \subseteq Reached \cup Named(committed)
    <3>1. CASE Route(committed)
      BY <1>1, <2>1, <3>1, ReachedRoute
    <3>2. CASE UNCHANGED routes
      BY <2>1, <3>2 DEF Reached
    <3> QED
      BY <2>1, <3>1, <3>2
  <2>5. Exposed => Exposed'
    BY <2>1, WorkerFacts DEF Exposed, Past, Back
  <2>6. ReachedHeld'
    BY <2>1, <2>2, <2>4, <2>5, ReachedQuiet DEF SpareInv, AppsStay
  <2>7. wk' = "rb_confirm" => wseq' = routing'
    BY <2>1 DEF Route
  <2> QED
    BY <2>1, <2>2, <2>3, <2>6, <2>7 DEF SpareInv, LeftSpare, SwitchKnown, Past, SparesOnly, AppsStay
<1>19. ASSUME NEW a \in App, AppStarts(a)
      PROVE  SpareInv' /\ SparesOnly
  BY <1>19, <1>1, <1>0, SpareQuiet DEF AppStarts, Becomes, entryVars, coordVars, workerVars,
     gatewayVars, historyVars, AppsStay, Deleted, Kept, Exposed, Back, Accepts, Brought, Deleting,
     Past, ControlInv, WorkerKinds, CallsFresh
<1>20. ASSUME NEW a \in App, AppGone(a)
      PROVE  SpareInv' /\ SparesOnly
  BY <1>20, <1>1, <1>0, SpareQuiet DEF AppGone, Becomes, entryVars, coordVars, workerVars,
     gatewayVars, historyVars, AppsStay, Deleted, Kept, Exposed, Back, Accepts, Brought, Deleting,
     Past, ControlInv, WorkerKinds, CallsFresh
<1>21. ASSUME NEW a \in App, AppFails(a)
      PROVE  SpareInv' /\ SparesOnly
  BY <1>21, <1>1, <1>0, SpareQuiet DEF AppFails, Becomes, entryVars, coordVars, workerVars,
     gatewayVars, historyVars, AppsStay, Deleted, Kept, Exposed, Back, Accepts, Brought, Deleting,
     Past, ControlInv, WorkerKinds, CallsFresh
<1>22. ASSUME NEW a \in App, AppSickens(a)
      PROVE  SpareInv' /\ SparesOnly
  BY <1>22, <1>1, <1>0, SpareQuiet DEF AppSickens, Becomes, entryVars, coordVars, workerVars,
     gatewayVars, historyVars, AppsStay, Deleted, Kept, Exposed, Back, Accepts, Brought, Deleting,
     Past, ControlInv, WorkerKinds, CallsFresh
<1>23. ASSUME NEW g \in Replicas, ReplicaFollows(g)
      PROVE  SpareInv' /\ SparesOnly
  <2>1. PICK seq \in (holds[g] + 1)..Len(routes) : holds' = [holds EXCEPT ![g] = seq]
    BY <1>23 DEF ReplicaFollows
  <2>2. /\ UNCHANGED <<committed, routes, routing, apps, late, running, rstate, switched, recovery, wkind>>
        /\ UNCHANGED <<wk, wswitching, hurried, plan, left, wseq>>
    BY <1>23 DEF ReplicaFollows, entryVars, coordVars, workerVars, historyVars
  <2>3. AppsStay /\ Exposed' = Exposed /\ \A c : Accepts(c)' = Accepts(c)
    BY <2>2 DEF AppsStay, Deleted, Kept, Exposed, Accepts
  <2>4. holds \in [Replicas -> Nat] /\ Len(routes) \in Nat
    BY DEF TypeInv, TypeOK, GatewayType
  <2>5. \A h \in Replicas : holds'[h] >= holds[h] /\ holds'[h] \in Nat
    BY <2>1, <2>4
  <2>6. Reached' \subseteq Reached
    BY <2>2, <2>4, <2>5 DEF Reached
  <2>7. ReachedHeld'
    BY <2>2, <2>3, <2>6, ReachedQuiet DEF SpareInv, AppsStay
  <2>8. SwitchKept'
    BY <2>2, <2>3, SwitchQuiet DEF SpareInv, AppsStay
  <2> QED
    BY <2>2, <2>3, <2>7, <2>8 DEF SpareInv, LeftSpare, SwitchKnown, SparesOnly, AppsStay
<1>24. ASSUME NEW r \in Requests, CancelRunning(r)
      PROVE  SpareInv' /\ SparesOnly
  BY <1>24, <1>1, <1>0, SpareQuiet DEF CancelRunning, entryVars, coordVars, workerVars, gatewayVars,
     historyVars, AppsStay, Deleted, Kept, Exposed, Back, Accepts, Brought, Deleting, Past,
     ControlInv, WorkerKinds, CallsFresh
<1>25. CASE SeesCancel
  BY <1>25, <1>1, <1>0, SpareQuiet DEF SeesCancel, Polling, Polls, entryVars, coordVars, workerVars,
     gatewayVars, historyVars, AppsStay, Deleted, Kept, Exposed, Back, Accepts, Brought, Deleting,
     Past, ControlInv, WorkerKinds, CallsFresh
<1>26. CASE UNCHANGED vars
  BY <1>26, <1>1, <1>0, SpareQuiet DEF vars, entryVars, coordVars, workerVars, gatewayVars,
     historyVars, AppsStay, Deleted, Kept, Exposed, Back, Accepts, Brought, Deleting, Past,
     ControlInv, WorkerKinds, CallsFresh
<1>27. ASSUME NEW r \in Requests, CancelQueued(r)
      PROVE  SpareInv' /\ SparesOnly
  BY <1>27, <1>1, <1>0, SpareQuiet DEF CancelQueued, entryVars, coordVars, workerVars, gatewayVars,
     historyVars, AppsStay, Deleted, Kept, Exposed, Back, Accepts, Brought, Deleting, Past,
     ControlInv, WorkerKinds, CallsFresh
<1>28. CASE RunEnds
  BY <1>28, <1>1, <1>0, SpareQuiet DEF RunEnds, Ends, NoWorker, entryVars, coordVars, workerVars,
     gatewayVars, historyVars, AppsStay, Deleted, Kept, Exposed, Back, Accepts, Brought, Deleting,
     Past, ControlInv, WorkerKinds, CallsFresh
<1>29. CASE DeathSeen
  BY <1>29, <1>1, <1>0, SpareQuiet DEF DeathSeen, NewWorker, entryVars, coordVars, workerVars,
     gatewayVars, historyVars, AppsStay, Deleted, Kept, Exposed, Back, Accepts, Brought, Deleting,
     Past, ControlInv, WorkerKinds, CallsFresh
<1>30. CASE RollbackEnds
  BY <1>30, <1>1, <1>0, SpareQuiet DEF RollbackEnds, Ends, NoWorker, entryVars, coordVars,
     workerVars, gatewayVars, historyVars, AppsStay, Deleted, Kept, Exposed, Back, Accepts, Brought,
     Deleting, Past, ControlInv, WorkerKinds, CallsFresh
<1>31. CASE Recover
  <2>1. /\ recovery = "listing"
        /\ UNCHANGED <<committed, routes, routing, holds, apps, late, running, rstate, switched, plan>>
        /\ \/ recovery' = "rolling" /\ wkind' = "recovery" /\ wk' = "rb_reset" /\ wswitching' /\ hurried' = hurried
           \/ recovery' = "done" /\ UNCHANGED <<wkind, wk, wswitching, left, wseq, hurried>> /\ Present(App) = {}
           \/ recovery' = "done" /\ UNCHANGED <<wkind, wk, wswitching, left, wseq>> /\ hurried'
    BY <1>31 DEF Recover, NewWorker, entryVars, gatewayVars
  <2>2. AppsStay /\ Reached' = Reached /\ \A c : Accepts(c)' = Accepts(c)
    BY <2>1 DEF AppsStay, Deleted, Kept, Reached, Accepts
  <2>3. wk = "none"
    BY <2>1, WorkerFacts
  <2>4. SwitchKept'
    BY <2>1, <2>2, <2>3, SwitchQuiet DEF SpareInv, AppsStay, Brought
  <2>5. Present(App) = {} => Kept = {}
    BY DEF Present, Kept
  <2>6. ReachedHeld'
    BY <2>1, <2>2, <2>5 DEF SpareInv, ReachedHeld, AppsStay, Exposed, Back
  <2> QED
    BY <2>1, <2>2, <2>3, <2>4, <2>6 DEF SpareInv, LeftSpare, SwitchKnown, Past, SparesOnly, AppsStay
<1>32. CASE RecoveryEnds
  BY <1>32, <1>1, <1>0, SpareQuiet DEF RecoveryEnds, NoWorker, entryVars, coordVars, workerVars,
     gatewayVars, historyVars, AppsStay, Deleted, Kept, Exposed, Back, Accepts, Brought, Deleting,
     Past, ControlInv, WorkerKinds, CallsFresh
<1>33. CASE CommitLands
  <2>1. /\ lock # None /\ committed' = writing /\ rstate' = [rstate EXCEPT ![lock] = "retiring"]
        /\ UNCHANGED <<routes, routing, holds, apps, late, running, switched, plan, hurried>>
        /\ wk = "committing" => wk' = "retire" /\ left' = Retired
        /\ wk # "committing" => wk' = wk
    BY <1>33 DEF CommitLands, gatewayVars
  <2>2. /\ wk \in {"none", "diff", "rb_mark", "rb_reset", "dead", "committing"}
        /\ wk = "committing" => writing = plan.models
    BY <2>1 DEF ControlInv, LockHeld
  <2>3. LeftSpare'
    <3>1. CASE wk = "committing"
      BY <2>1, <2>2, <3>1 DEF LeftSpare, ServeInv, Runs, PlanSound, Applying, Brought, Retired
    <3>2. CASE wk # "committing"
      BY <2>1, <2>2, <3>2 DEF LeftSpare
    <3> QED
      BY <3>1, <3>2
  <2>4. \A c \in late : c.op = "switch" => ~Accepts(c)'
    BY <1>1, <2>1 DEF ControlInv, CallsFresh, Writes, Accepts
  <2>5. SwitchKept'
    BY <2>1, <2>2, <2>4 DEF SwitchKept, Brought
  <2>6. Reached \subseteq Named(writing)
    BY <2>1, ReachedTold DEF ConfirmInv, SwitchLasts, Told
  <2>7. ReachedHeld'
    BY <2>1, <2>6 DEF ReachedHeld, Reached
  <2> QED
    BY <2>1, <2>2, <2>3, <2>5, <2>7 DEF SpareInv, SwitchKnown, Past, SparesOnly, Deleted
<1>34. CASE CommitFails
  <2>1. /\ lock # None /\ committed' \in {committed, writing}
        /\ UNCHANGED <<routes, routing, holds, apps, late, running, rstate, switched, plan, left, hurried>>
        /\ UNCHANGED <<recovery, wkind, wswitching>>
        /\ wk = "committing" => wk' = "rb_mark"
        /\ wk # "committing" => wk' = wk
    BY <1>34 DEF CommitFails, entryVars, gatewayVars
  <2>2. wk \in {"none", "diff", "rb_mark", "rb_reset", "dead", "committing"}
    BY <2>1 DEF ControlInv, LockHeld
  <2>4. \A c \in late : c.op = "switch" => ~Accepts(c)'
    BY <2>1 DEF ControlInv, CallsFresh, Accepts
  <2>5. SwitchKept'
    BY <2>1, <2>2, <2>4 DEF SwitchKept, Brought
  <2>6. Reached \subseteq Named(writing) /\ Reached' = Reached /\ Kept' = Kept
    BY <2>1, ReachedTold DEF ConfirmInv, SwitchLasts, Told, Reached, Kept
  <2>7. Exposed => Exposed'
    BY <2>1 DEF Exposed, Past, Back
  <2>8. ReachedHeld'
    BY <2>1, <2>6, <2>7 DEF SpareInv, ReachedHeld
  <2> QED
    BY <2>1, <2>2, <2>5, <2>8 DEF SpareInv, LeftSpare, SwitchKnown, Past, SparesOnly, Deleted
<1>35. CASE CoordinatorDies
  <2>1. /\ committed' = committed \/ (lock # None /\ committed' = writing)
        /\ UNCHANGED <<routes, holds, apps, hurried>> /\ late' = {} /\ wk' = "none" /\ recovery' = "none"
    BY <1>35 DEF CoordinatorDies, NoWorker, gatewayVars
  <2>2. lock # None => Reached \subseteq Named(writing)
    BY ReachedTold DEF ConfirmInv, SwitchLasts, Told
  <2>3. Reached' = Reached /\ Kept' = Kept /\ Exposed'
    BY <2>1 DEF Reached, Kept, Exposed
  <2>4. ReachedHeld'
    BY <2>1, <2>2, <2>3 DEF SpareInv, ReachedHeld
  <2> QED
    BY <2>1, <2>4 DEF SpareInv, LeftSpare, SwitchKept, Brought, SwitchKnown, Past, SparesOnly, Deleted
<1>36. ASSUME NEW r \in Requests, NEW request \in Inputs, Submit(r, request)
      PROVE  SpareInv' /\ SparesOnly
  BY <1>36, <1>1, <1>0, SpareQuiet DEF Submit, entryVars, coordVars, workerVars, gatewayVars,
     historyVars, AppsStay, Deleted, Kept, Exposed, Back, Accepts, Brought, Deleting, Past,
     ControlInv, WorkerKinds, CallsFresh
<1>37. CASE Pick
  BY <1>37, <1>1, <1>0, SpareQuiet DEF Pick, NewWorker, entryVars, coordVars, workerVars,
     gatewayVars, historyVars, AppsStay, Deleted, Kept, Exposed, Back, Accepts, Brought, Deleting,
     Past, ControlInv, WorkerKinds, CallsFresh
<1>38. ASSUME NEW c \in InFlight, Switch(c)
      PROVE  SpareInv' /\ SparesOnly
  <2>1. /\ c \in CallType /\ c.r \in Requests /\ c.models \in Version \cup {NoVersion}
        /\ c \notin late => wkind = "run" /\ c.r = running /\ wk = c.op /\ c.models = plan.models
    BY CallFacts DEF CallType, InFlight, Call
  <2>2. /\ c.op = "switch" /\ Accepts(c) /\ Route(c.models) /\ rstate' = [rstate EXCEPT ![c.r] = "switching"]
        /\ switched' = [switched EXCEPT ![c.r] = TRUE]
        /\ \/ c \in late /\ late' = late \ {c} /\ UNCHANGED <<wk, wswitching>>
           \/ c \notin late /\ late' = late /\ wk' = "confirm" /\ wswitching'
        /\ UNCHANGED <<committed, holds, apps, running, wkind, plan, left, hurried>>
    BY <1>38 DEF Switch, Answer, historyVars
  <2>3. AppsStay
    BY <2>2 DEF AppsStay, Deleted, Kept
  <2>4. wkind = "run" /\ running = c.r /\ (c \in late => wk = "dead") /\ (c \notin late => wk = "switch")
    BY <2>1, <2>2, WorkerFacts DEF Accepts
  <2>5. Named(c.models) \subseteq Named(committed) \cup Kept
    <3>1. CASE c \in late
      BY <2>2, <3>1 DEF SpareInv, SwitchKept
    <3>2. CASE c \notin late
      BY <2>1, <2>4, <3>2 DEF ServeInv, Runs, PlanSound, SpareInv, SwitchKept, Applying, Brought
    <3> QED
      BY <3>1, <3>2
  <2>6. Reached' \subseteq Reached \cup Named(c.models)
    BY <2>1, <2>2, ReachedRoute
  <2>7. Exposed'
    BY <1>1, <2>1, <2>2, <2>4 DEF Exposed, Past
  <2>8. ReachedHeld'
    BY <2>2, <2>3, <2>5, <2>6, <2>7 DEF SpareInv, ReachedHeld, AppsStay
  <2>9. \A d \in late' : Accepts(d)' => Accepts(d)
    BY <1>1, <2>1, <2>2 DEF Accepts
  <2>10. SwitchKept'
    BY <2>2, <2>3, <2>4, <2>9, SwitchQuiet DEF SpareInv, AppsStay, Brought
  <2>11. SwitchKnown'
    BY <1>1, <2>1, <2>2, <2>4 DEF SwitchKnown, Past
  <2> QED
    BY <2>2, <2>3, <2>4, <2>8, <2>10, <2>11 DEF SpareInv, LeftSpare, SparesOnly, AppsStay
<1>39. ASSUME NEW c \in InFlight, CommitCancelled(c)
      PROVE  SpareInv' /\ SparesOnly
  <2>1. /\ c \in CallType /\ c.r \in Requests /\ c.models \in Version \cup {NoVersion}
        /\ c \notin late => wkind = "run" /\ c.r = running /\ wk = c.op /\ c.models = plan.models
    BY CallFacts DEF CallType, InFlight, Call
  <2>2. /\ UNCHANGED <<committed, routes, routing, holds, apps, running, switched, recovery, wkind, plan, left>>
        /\ UNCHANGED <<wseq, wswitching, hurried>> /\ late' \subseteq late
        /\ rstate' = rstate /\ (wk' = wk \/ (wk = "commit" /\ wk' = "rb_mark"))
    BY <1>39, <2>1 DEF CommitCancelled, Answer, Accepts, entryVars, coordVars, gatewayVars, historyVars
  <2>3. AppsStay
    BY <2>2 DEF AppsStay, Deleted, Kept
  <2>4. Exposed => Exposed'
    BY <1>1, <2>1, <2>2 DEF Exposed, Past, Back
  <2>5. \A d \in late' : Accepts(d)' => Accepts(d)
    BY <1>1, <2>1, <2>2 DEF Accepts
  <2> QED
    BY <2>1, <2>2, <2>3, <2>4, <2>5, SpareQuiet DEF Brought, Deleting, Past
<1>40. ASSUME NEW c \in InFlight, CommitStarts(c)
      PROVE  SpareInv' /\ SparesOnly
  <2>1. /\ c \in CallType /\ c.r \in Requests /\ c.models \in Version \cup {NoVersion}
        /\ c \notin late => wkind = "run" /\ c.r = running /\ wk = c.op /\ c.models = plan.models
    BY CallFacts DEF CallType, InFlight, Call
  <2>2. /\ UNCHANGED <<committed, routes, routing, holds, apps, running, switched, recovery, wkind, plan, left>>
        /\ UNCHANGED <<wseq, wswitching, hurried>> /\ late' \subseteq late
        /\ running = c.r /\ rstate' = [rstate EXCEPT ![c.r] = "committing"] /\ rstate[c.r] # "rolling_back"
        /\ wk' = wk \/ (wk = "commit" /\ wk' = "committing")
    BY <1>40, <2>1 DEF CommitStarts, Answer, Accepts, entryVars, coordVars, gatewayVars, historyVars
  <2>3. AppsStay
    BY <2>2 DEF AppsStay, Deleted, Kept
  <2>4. Exposed => Exposed'
    BY <1>1, <2>1, <2>2 DEF Exposed, Past, Back
  <2>5. \A d \in late' : Accepts(d)' => Accepts(d)
    BY <1>1, <2>1, <2>2 DEF Accepts
  <2> QED
    BY <2>1, <2>2, <2>3, <2>4, <2>5, SpareQuiet DEF Brought, Deleting, Past
<1>41. ASSUME NEW c \in InFlight, RollingBack(c)
      PROVE  SpareInv' /\ SparesOnly
  <2>1. /\ c \in CallType /\ c.r \in Requests /\ c.models \in Version \cup {NoVersion}
        /\ c \notin late => wkind = "run" /\ c.r = running /\ wk = c.op /\ c.models = plan.models
    BY CallFacts DEF CallType, InFlight, Call
  <2>2. /\ UNCHANGED <<committed, routes, routing, holds, apps, running, switched, recovery, wkind, plan, left>>
        /\ UNCHANGED <<wseq, wswitching, hurried>> /\ late' \subseteq late
        /\ rstate' = IF running = c.r THEN [rstate EXCEPT ![c.r] = "rolling_back"] ELSE rstate
        /\ wk' = wk \/ (wk = "rb_mark" /\ wk' = "rb_reset")
    BY <1>41, <2>1 DEF RollingBack, Answer, Accepts, entryVars, coordVars, gatewayVars, historyVars
  <2>3. AppsStay
    BY <2>2 DEF AppsStay, Deleted, Kept
  <2>4. Exposed => Exposed'
    BY <1>1, <2>1, <2>2 DEF Exposed, Past, Back
  <2>5. \A d \in late' : Accepts(d)' => Accepts(d)
    BY <1>1, <2>1, <2>2 DEF Accepts
  <2> QED
    BY <2>1, <2>2, <2>3, <2>4, <2>5, SpareQuiet DEF Brought, Deleting, Past
<1>42. ASSUME NEW c \in InFlight, Refuse(c)
      PROVE  SpareInv' /\ SparesOnly
  BY <1>42, <1>1, <1>0, SpareQuiet DEF Refuse, entryVars, coordVars, workerVars, gatewayVars,
     historyVars, AppsStay, Deleted, Kept, Exposed, Back, Accepts, Brought, Deleting, Past,
     ControlInv, WorkerKinds, CallsFresh
<1>43. ASSUME NEW r \in Requests, KillUnlessSeen(r)
      PROVE  SpareInv' /\ SparesOnly
  <2>1. /\ (wk' = wk /\ late' = late) \/ (wk' = "dead" /\ late' = InFlight /\ wk # "none")
        /\ UNCHANGED <<rstate, switched, running, recovery, wkind, plan, left, wseq, wswitching, committed,
                       routing, apps, routes, holds, hurried>>
    BY <1>43 DEF KillUnlessSeen, Die, entryVars, coordVars, gatewayVars, historyVars, ControlInv, WorkerKinds
  <2> QED
    BY <2>1, DeathSpares
<1>44. CASE WorkerDies
  <2>1. /\ wk' = "dead" /\ late' = InFlight /\ wk # "none"
        /\ UNCHANGED <<rstate, switched, running, recovery, wkind, plan, left, wseq, wswitching, committed,
                       routing, apps, routes, holds, hurried>>
    BY <1>44 DEF WorkerDies, Die, entryVars, coordVars, gatewayVars
  <2> QED
    BY <2>1, DeathSpares
<1> QED
  BY <1>2, <1>3, <1>4, <1>5, <1>6, <1>7, <1>8, <1>9, <1>10, <1>11, <1>12, <1>13, <1>14, <1>15,
     <1>16, <1>17, <1>18, <1>19, <1>20, <1>21, <1>22, <1>23, <1>24, <1>25, <1>26, <1>27, <1>28,
     <1>29, <1>30, <1>31, <1>32, <1>33, <1>34, <1>35, <1>36, <1>37, <1>38, <1>39, <1>40, <1>41,
     <1>42, <1>43, <1>44 DEF Next, Users, Coordinator, Worker, Trouble, Serve, Gateway

\* The first state has it.
LEMMA InitSpare == Init => SpareInv
<1> SUFFICES ASSUME Init PROVE SpareInv
  OBVIOUS
<1>1. Reached = {}
  BY DEF Init, Reached
<1> QED
  BY <1>1 DEF Init, SpareInv, LeftSpare, SwitchKept, SwitchKnown, ReachedHeld, Brought, Past

\* The invariants behind deletes and writes.
LEMMA SpareHolds ==
  Spec => [](TypeInv /\ CommitInv /\ ControlInv /\ RoutingInv /\ ServeInv /\ ConfirmInv /\ SpareInv)
<1> DEFINE I == TypeInv /\ CommitInv /\ ControlInv /\ RoutingInv /\ ServeInv
           J == ConfirmInv /\ SpareInv
<1>1. Init => J
  BY InitLedger, InitSpare
<1>2. I /\ J /\ [Next]_vars => J'
  BY ConfirmStep, SpareStep
<1>3. Spec => []I
  BY QuietHolds
<1>4. I /\ J => TypeInv /\ CommitInv /\ ControlInv /\ RoutingInv /\ ServeInv /\ ConfirmInv /\ SpareInv
  OBVIOUS
<1> HIDE DEF I, J
<1> QED
  BY <1>1, <1>2, <1>3, <1>4, PTL DEF Spec

(* delete_apps touches no app of the committed version and none a gateway     *)
(* replica routes to, in a run or in a rollback, whatever overlaps it: outside *)
(* stop_start's own step and, for routed apps, unless a rollback gave up       *)
(* waiting for the switch back or did not run to its end, and no switch was    *)
(* confirmed since.                                                            *)
THEOREM SparesDeleted == Spec => DeletesOnlySpare
<1> DEFINE I == TypeInv /\ CommitInv /\ ControlInv /\ RoutingInv /\ ServeInv /\ ConfirmInv /\ SpareInv
<1>1. I /\ [Next]_vars => [SparesOnly]_vars
  BY SpareStep
<1>2. [SparesOnly]_vars => [\A a \in App : Deleted(a) =>
         \/ wk = "stop"
         \/ /\ a \notin Named(committed)
            /\ hurried \/ \A g \in Replicas : a \notin RoutedBy(holds[g])]_vars
  BY DEF SparesOnly
<1>3. Spec => []I
  BY SpareHolds
<1> HIDE DEF I
<1> QED
  BY <1>1, <1>2, <1>3, PTL DEF Spec, DeletesOnlySpare

-----------------------------------------------------------------------------
(* What runs when a version is written.                                      *)

\* The deployments a worker still waits for.
Waited == IF wk = "deploy_wait" THEN left ELSE {}

\* What a request that commits asks for and does not deploy is live, committed and not retired.
KeptLive ==
  wk \in Applying /\ plan.commits =>
    \A a \in Named(input[running].models) \ AppsOf(plan.deploys) :
      a \in Named(committed) \ plan.retired /\ Live(a)

\* What it deploys and no longer waits for runs.
DeploysUp == wk \in Brought => \A a \in AppsOf(plan.deploys) \ Waited : apps[a].status = "running"

\* A worker rescales up nothing it deploys; stop_start stops what it retires; only a request that commits
\* switches.
Plans ==
  /\ wk \in Applying => AppsOf(plan.scale_ups) \cap AppsOf(plan.deploys) = {}
  /\ wk = "stop" => left \subseteq plan.retired
  /\ wk \in {"switch"} \cup Past => plan.commits

\* Every app the request asks for runs, or is a committed one that is live.
Firm(r) ==
  \A a \in Named(input[r].models) :
    \/ apps[a].status = "running"
    \/ a \in Named(committed) \ AppsOf(plan.deploys) /\ apps[a].status = "starting"

\* So it is when the write starts, and until it ends.
WritesFirm ==
  /\ lock # None => Firm(lock)
  /\ \A c \in late : c.op = "commit" /\ Accepts(c) => Firm(c.r)

UpInv == KeptLive /\ DeploysUp /\ Plans /\ WritesFirm

\* Serve does not report a running app as anything else.
AppsStayUp == "serve" \notin Faults

\* A step that leaves alone what runs, and what is live and not being deployed.
AppsFirm ==
  \A a \in App : /\ apps[a].status = "running" => apps'[a].status = "running"
                 /\ Live(a) /\ a \notin AppsOf(plan.deploys) => Live(a)'

\* The apps a request asks for are Serve's.
LEMMA AskedTypes ==
  ASSUME TypeInv
  PROVE  \A r \in Requests : Named(input[r].models) \subseteq App
<1> SUFFICES ASSUME NEW r \in Requests PROVE Named(input[r].models) \subseteq App
  OBVIOUS
<1>1. input[r].models \in Version
  BY DEF TypeInv, TypeOK, EntryType, Request
<1> QED
  BY <1>1, NamedFacts

\* UpInv does not see a step that leaves the store alone and takes no worker to its waits or its write.
LEMMA UpQuiet ==
  ASSUME TypeInv, UpInv, AppsFirm, UNCHANGED <<committed, input>>, plan' \in {plan, NoPlan},
         lock' # None => lock' = lock,
         late' \subseteq late,
         \A c \in late' : c.op = "commit" /\ Accepts(c)' => Accepts(c),
         wk' \in Applying => wk \in Applying /\ UNCHANGED <<running, plan>> /\ running \in Requests,
         wk' \in Brought => wk \in Brought /\ Waited \subseteq Waited',
         wk' = "stop" => wk = "stop" /\ left' \subseteq left,
         wk' \in {"switch"} \cup Past => wk \in {"switch"} \cup Past
  PROVE  UpInv'
<1>1. KeptLive'
  <2> SUFFICES ASSUME wk' \in Applying, plan'.commits,
                      NEW a \in Named(input'[running'].models), a \notin AppsOf(plan'.deploys)
               PROVE  a \in Named(committed') \ plan'.retired /\ Live(a)'
    BY DEF KeptLive, AppsOf
  <2>1. a \in Named(committed) \ plan.retired /\ Live(a) /\ a \notin AppsOf(plan.deploys)
    BY DEF UpInv, KeptLive, AppsOf
  <2>2. a \in App
    BY AskedTypes
  <2> QED
    BY <2>1, <2>2 DEF AppsFirm
<1>2. DeploysUp'
  <2> SUFFICES ASSUME wk' \in Brought
               PROVE  \A a \in AppsOf(plan'.deploys) \ Waited' : apps'[a].status = "running"
    BY DEF DeploysUp, AppsOf
  <2>1. plan' = plan /\ wk \in Brought /\ Waited \subseteq Waited' /\ AppsOf(plan.deploys) \subseteq App
    BY AppTypes DEF Applying
  <2> QED
    BY <2>1 DEF UpInv, DeploysUp, AppsFirm, AppsOf
<1>3. Plans'
  BY DEF UpInv, Plans, AppsOf, Applying, Brought, Stopping, Past
<1>4. ASSUME NEW r \in Requests, Firm(r) PROVE Firm(r)'
  <2> SUFFICES ASSUME NEW a \in Named(input[r].models)
               PROVE  \/ apps'[a].status = "running"
                      \/ a \in Named(committed) \ AppsOf(plan'.deploys) /\ apps'[a].status = "starting"
    BY DEF Firm, AppsOf
  <2>1. a \in App /\ AppsOf(plan'.deploys) \subseteq AppsOf(plan.deploys)
    BY AskedTypes DEF NoPlan, AppsOf
  <2> QED
    BY <1>4, <2>1 DEF Firm, AppsFirm, Live
<1>5. WritesFirm'
  <2>1. lock \in Requests \cup {None} /\ late \subseteq CallType
    BY DEF TypeInv, TypeOK, CoordinatorType, WorkerType
  <2>2. \A c \in late : c.r \in Requests
    BY <2>1 DEF CallType
  <2>3. lock' # None => Firm(lock)'
    BY <1>4, <2>1 DEF UpInv, WritesFirm
  <2>4. \A c \in late' : c.op = "commit" /\ Accepts(c)' => Firm(c.r)'
    BY <1>4, <2>2 DEF UpInv, WritesFirm
  <2> QED
    BY <2>3, <2>4 DEF WritesFirm, Firm
<1> QED
  BY <1>1, <1>2, <1>3, <1>5 DEF UpInv

\* It says nothing of a worker that applies nothing while no write is on its way.
LEMMA UpVoid ==
  ASSUME wk' \notin Applying, lock' = None, \A c \in late' : c.op = "commit" => ~Accepts(c)'
  PROVE  UpInv'
BY DEF UpInv, KeptLive, DeploysUp, Plans, WritesFirm, Applying, Brought, Stopping, Past

\* Nor has a live worker a write on its way that it does not wait for.
LEMMA NoWrite ==
  ASSUME ControlInv, wk \notin {"none", "diff", "rb_mark", "rb_reset", "dead", "committing"}
  PROVE  lock = None /\ \A c \in late : c.op = "commit" => ~Accepts(c)
BY DEF ControlInv, LockHeld, CallsFresh

\* A request whose worker is at its commit is firm.
LEMMA CommitFirm ==
  ASSUME TypeInv, UpInv, wk = "commit"
  PROVE  Firm(running)
<1> SUFFICES ASSUME NEW a \in Named(input[running].models)
             PROVE  \/ apps[a].status = "running"
                    \/ a \in Named(committed) \ AppsOf(plan.deploys) /\ apps[a].status = "starting"
  BY DEF Firm
<1>1. plan.commits /\ Waited = {}
  BY DEF UpInv, Plans, Past, Waited
<1> QED
  BY <1>1 DEF UpInv, KeptLive, DeploysUp, Applying, Brought, Live

\* A worker that dies leaves its commit behind.
LEMMA DeathFirm ==
  ASSUME TypeInv, ControlInv, UpInv,
         (wk' = wk /\ late' = late) \/ (wk' = "dead" /\ late' = InFlight /\ wk # "none"),
         UNCHANGED <<input, rstate, running, wkind, plan, left, committed, apps, lock>>
  PROVE  UpInv'
<1>1. AppsFirm
  BY DEF AppsFirm, Live
<1>2. CASE wk' = wk /\ late' = late
  <2>1. wk \in Applying => running \in Requests
    BY WorkerFacts DEF TypeInv
  <2> QED
    BY <1>1, <1>2, <2>1, UpQuiet DEF Accepts, Waited
<1>3. CASE wk' = "dead" /\ late' = InFlight /\ wk # "none"
  <2>1. ASSUME NEW c \in late', c.op = "commit", Accepts(c)'
        PROVE  Firm(c.r)
    <3>1. CASE c \in late
      BY <2>1, <3>1 DEF UpInv, WritesFirm, Accepts
    <3>2. CASE c \notin late
      <4>1. wk = "commit" /\ c.r = running
        BY <1>3, <2>1, <3>2 DEF InFlight, Call
      <4> QED
        BY <4>1, CommitFirm
    <3> QED
      BY <3>1, <3>2
  <2>2. WritesFirm'
    BY <2>1 DEF UpInv, WritesFirm, Firm, AppsOf
  <2> QED
    BY <1>3, <2>2 DEF UpInv, KeptLive, DeploysUp, Plans, Applying, Brought, Stopping, Past
<1> QED
  BY <1>2, <1>3

\* Every step keeps it.
LEMMA UpStep ==
  ASSUME AppsStayUp, TypeInv, CommitInv, ControlInv, ServeInv, SpareInv, UpInv, [Next]_vars
  PROVE  UpInv'
<1>1. /\ running \in Requests \cup {None} /\ None \notin Requests /\ rstate \in [Requests -> States]
      /\ late \subseteq CallType /\ wk \in Steps /\ lock \in Requests \cup {None}
      /\ wkind \in {"none", "run", "rollback", "recovery"}
      /\ committed \in Version \cup {NoVersion} /\ apps \in [App -> ServeApp] /\ plan \in Diff
      /\ left \subseteq App
      /\ wk \in Applying => wkind = "run" /\ running \in Requests
  BY BoundAssumption, WorkerFacts
     DEF TypeInv, TypeOK, EntryType, CoordinatorType, WorkerType, HistoryType, ServeType, None, Requests
<1>0. ControlInv'
  BY ControlStep
<1>2. CASE DrainEnds
  BY <1>2, <1>1, <1>0, UpQuiet DEF DrainEnds, entryVars, coordVars, workerVars, gatewayVars,
     historyVars, AppsFirm, Live, Accepts, Waited, Applying, Brought, Stopping, Past, ControlInv,
     WorkerKinds, CallsFresh
<1>3. CASE StartRecovery
  BY <1>3, <1>1, <1>0, UpQuiet DEF StartRecovery, entryVars, coordVars, workerVars, gatewayVars,
     historyVars, AppsFirm, Live, Accepts, Waited, Applying, Brought, Stopping, Past, ControlInv,
     WorkerKinds, CallsFresh
<1>4. CASE ReadVersion
  BY <1>4, <1>1, <1>0, UpQuiet DEF ReadVersion, entryVars, coordVars, workerVars, gatewayVars,
     historyVars, AppsFirm, Live, Accepts, Waited, Applying, Brought, Stopping, Past, ControlInv,
     WorkerKinds, CallsFresh
<1>5. CASE UseVersion
  BY <1>5, <1>1, <1>0, UpQuiet DEF UseVersion, Route, entryVars, coordVars, workerVars, gatewayVars,
     historyVars, AppsFirm, Live, Accepts, Waited, Applying, Brought, Stopping, Past, ControlInv,
     WorkerKinds, CallsFresh
<1>6. CASE ComputeDiff
  <2>1. /\ wk = "diff" /\ wk' = "sources" /\ plan' = build_diff(input[running], committed, apps)
        /\ UNCHANGED <<committed, apps, late, running, rstate, lock, input>> /\ wkind = "run" /\ lock = None
    BY <1>6 DEF ComputeDiff, WorkerOnly, entryVars, coordVars
  <2>2. input[running] \in Request
    BY <1>1, <2>1 DEF TypeInv, TypeOK, EntryType
  <2>3. DiffSound(build_diff(input[running], committed, apps), input[running], committed, apps)
    BY <1>1, <2>2, BuildDiffSound
  <2>4. \A c \in late : c.op = "commit" => ~Accepts(c)'
    BY <1>0, <2>1 DEF ControlInv, CallsFresh
  <2>5. KeptLive'
    BY <2>1, <2>3 DEF KeptLive, DiffSound, Live, AppsOf
  <2>6. Plans'
    BY <2>1, <2>3 DEF Plans, DiffSound, AppsOf, Past
  <2> QED
    BY <2>1, <2>4, <2>5, <2>6 DEF UpInv, DeploysUp, WritesFirm, Brought
<1>7. CASE SourcesResolved
  BY <1>7, <1>1, <1>0, UpQuiet DEF SourcesResolved, WorkerOnly, entryVars, coordVars, workerVars,
     gatewayVars, historyVars, AppsFirm, Live, Accepts, Waited, Applying, Brought, Stopping, Past,
     ControlInv, WorkerKinds, CallsFresh
<1>8. CASE DeletePoll
  <2>1. /\ wk \in {"leftovers", "stop", "retire", "rb_delete"}
        /\ UNCHANGED <<committed, late, running, rstate, lock, plan, input>>
    BY <1>8 DEF DeletePoll, AfterDelete, WorkerOnly, entryVars, coordVars
  <2>2. CASE Present(left) = {}
    <3>1. wk' = AfterDelete[wk] /\ apps' = apps
      BY <1>8, <2>2 DEF DeletePoll
    <3>2. wk' \in {"downs", "deploy", "report", "rb_scale"} /\ (wk' \in {"downs", "deploy"} => wk \in Applying)
      BY <2>1, <3>1 DEF AfterDelete, Applying, Stopping
    <3> QED
      BY <1>1, <2>1, <3>1, <3>2, UpQuiet DEF AppsFirm, Live, Accepts, Applying, Brought, Stopping, Past
  <2>3. CASE Present(left) # {}
    <3>1. PICK S \in SUBSET {a \in Present(left) : apps[a].status # "deleting"} :
            apps' = [a \in App |-> IF a \in S THEN [apps[a] EXCEPT !.status = "deleting"] ELSE apps[a]]
      BY <1>8, <2>3 DEF DeletePoll
    <3>2. wk' = wk /\ left' = Present(left)
      BY <1>8, <2>3 DEF DeletePoll
    <3>3. \A a \in App \ left : apps'[a] = apps[a]
      BY <3>1 DEF Present
    <3>4. wk \in {"leftovers", "stop"} =>
            \A a \in App : a \in Named(committed) \ plan.retired => apps'[a] = apps[a]
      BY <3>3 DEF SpareInv, LeftSpare, UpInv, Plans
    <3>5. KeptLive'
      <4> SUFFICES ASSUME wk' \in Applying, plan'.commits,
                          NEW a \in Named(input'[running'].models), a \notin AppsOf(plan'.deploys)
                   PROVE  a \in Named(committed') \ plan'.retired /\ Live(a)'
        BY DEF KeptLive, AppsOf
      <4>1. a \in Named(committed) \ plan.retired /\ Live(a) /\ a \in App
        BY <1>1, <2>1, <3>2, AskedTypes DEF UpInv, KeptLive, AppsOf
      <4>2. wk \in {"leftovers", "stop"}
        BY <2>1, <3>2 DEF Applying, Stopping, Brought
      <4> QED
        BY <2>1, <3>4, <4>1, <4>2 DEF Live
    <3>6. lock' = None /\ \A c \in late' : c.op = "commit" => ~Accepts(c)'
      BY <2>1, NoWrite DEF Accepts
    <3>7. Plans'
      BY <2>1, <3>2 DEF UpInv, Plans, Present, AppsOf, Past
    <3> QED
      BY <2>1, <3>2, <3>5, <3>6, <3>7 DEF UpInv, DeploysUp, WritesFirm, Brought
  <2> QED
    BY <2>2, <2>3
<1>9. CASE SubmitRescales
  <2>1. /\ wk \in {"downs", "ups"} /\ wk' \in {"downs_wait", "ups_wait", "rb_mark"}
        /\ wk' = "ups_wait" => wk = "ups"
        /\ UNCHANGED <<committed, late, running, rstate, lock, plan, input>>
    BY <1>9 DEF SubmitRescales, AfterSubmit, WorkerOnly, entryVars, coordVars
  <2>2. PICK R \in SUBSET Rescales(wk) : apps' = Resubmitted(R)
    BY <1>9 DEF SubmitRescales
  <2>3. \A a \in App : a \in AppsOf(R) \/ apps'[a] = apps[a]
    BY <2>2 DEF Resubmitted
  <2>4. \A a \in App : a \in AppsOf(R) => Live(a)'
    BY <2>2 DEF Resubmitted, Live
  <2>5. KeptLive'
    <3> SUFFICES ASSUME wk' \in Applying, plan'.commits,
                        NEW a \in Named(input'[running'].models), a \notin AppsOf(plan'.deploys)
                 PROVE  a \in Named(committed') \ plan'.retired /\ Live(a)'
      BY DEF KeptLive, AppsOf
    <3>1. a \in Named(committed) \ plan.retired /\ Live(a) /\ a \in App
      BY <1>1, <2>1, AskedTypes DEF UpInv, KeptLive, AppsOf, Applying, Stopping, Brought
    <3> QED
      BY <2>1, <2>3, <2>4, <3>1 DEF Live
  <2>6. DeploysUp'
    <3> SUFFICES ASSUME wk' = "ups_wait"
                 PROVE  \A a \in AppsOf(plan'.deploys) \ Waited' : apps'[a].status = "running"
      BY <2>1 DEF DeploysUp, AppsOf, Brought
    <3>1. wk = "ups" /\ R \subseteq plan.scale_ups /\ AppsOf(plan.deploys) \subseteq App
      BY <2>1, AppTypes DEF Rescales
    <3>2. AppsOf(R) \cap AppsOf(plan.deploys) = {}
      BY <3>1 DEF UpInv, Plans, Applying, Brought, AppsOf
    <3>3. \A a \in AppsOf(plan.deploys) : apps'[a].status = "running"
      BY <2>3, <3>1, <3>2 DEF UpInv, DeploysUp, Brought, Waited
    <3> QED
      BY <2>1, <3>3 DEF AppsOf
  <2>7. lock' = None /\ \A c \in late' : c.op = "commit" => ~Accepts(c)'
    BY <2>1, NoWrite DEF Accepts
  <2>8. Plans'
    BY <2>1 DEF UpInv, Plans, AppsOf, Past, Applying, Stopping, Brought
  <2> QED
    BY <2>5, <2>6, <2>7, <2>8 DEF UpInv, WritesFirm
<1>10. CASE SubmitDeploys
  <2>1. /\ wk = "deploy" /\ wk' = "deploy_wait" /\ left' = AppsOf(plan.deploys)
        /\ apps' = Resubmitted(plan.deploys)
        /\ UNCHANGED <<committed, late, running, rstate, lock, plan, input>>
    BY <1>10 DEF SubmitDeploys, WorkerOnly, entryVars, coordVars
  <2>2. \A a \in App \ AppsOf(plan.deploys) : apps'[a] = apps[a]
    BY <2>1 DEF Resubmitted
  <2>3. KeptLive'
    <3> SUFFICES ASSUME plan'.commits,
                        NEW a \in Named(input'[running'].models), a \notin AppsOf(plan'.deploys)
                 PROVE  a \in Named(committed') \ plan'.retired /\ Live(a)'
      BY DEF KeptLive, AppsOf
    <3>1. a \in Named(committed) \ plan.retired /\ Live(a) /\ a \in App /\ a \notin AppsOf(plan.deploys)
      BY <1>1, <2>1, AskedTypes DEF UpInv, KeptLive, AppsOf, Applying, Stopping, Brought
    <3> QED
      BY <2>1, <2>2, <3>1 DEF Live
  <2>4. AppsOf(plan.scale_ups) \cap AppsOf(plan.deploys) = {}
    BY <2>1 DEF UpInv, Plans, Applying, Stopping
  <2>5. DeploysUp' /\ Plans'
    BY <2>1, <2>4 DEF DeploysUp, Plans, Waited, AppsOf, Past
  <2>6. lock' = None /\ \A c \in late' : c.op = "commit" => ~Accepts(c)'
    BY <2>1, NoWrite DEF Accepts
  <2> QED
    BY <2>3, <2>5, <2>6 DEF UpInv, WritesFirm
<1>11. CASE Up
  <2>1. /\ wk \in {"downs_wait", "deploy_wait", "ups_wait"}
        /\ UNCHANGED <<committed, apps, late, running, rstate, lock, plan, input>>
        /\ \/ wk' = wk /\ \E a \in left : apps[a].status = "running" /\ left' = left \ {a}
           \/ wk = "downs_wait" /\ wk' = "stop" /\ left' = Stopped
           \/ wk = "deploy_wait" /\ wk' = "ups" /\ left = {}
           \/ wk = "ups_wait" /\ wk' = "switch" /\ plan.commits
           \/ wk = "ups_wait" /\ wk' = "retire"
    BY <1>11 DEF Up, AfterWait, WorkerOnly, entryVars, coordVars
  <2>2. KeptLive'
    BY <2>1 DEF UpInv, KeptLive, Live, AppsOf, Applying, Stopping, Brought
  <2>3. DeploysUp'
    BY <2>1 DEF UpInv, DeploysUp, Waited, AppsOf, Brought
  <2>4. Plans'
    BY <2>1 DEF UpInv, Plans, Stopped, AppsOf, Past, Applying, Stopping, Brought
  <2>5. lock' = None /\ \A c \in late' : c.op = "commit" => ~Accepts(c)'
    BY <2>1, NoWrite DEF Accepts
  <2> QED
    BY <2>2, <2>3, <2>4, <2>5 DEF UpInv, WritesFirm
<1>12. ASSUME NEW a \in App, Retry(a)
      PROVE  UpInv'
  BY <1>12, <1>1, <1>0, UpQuiet DEF Retry, WorkerOnly, entryVars, coordVars, workerVars,
     gatewayVars, historyVars, AppsFirm, Live, Accepts, Waited, Applying, Brought, Stopping, Past,
     ControlInv, WorkerKinds, CallsFresh
<1>13. CASE Confirmed
  BY <1>13, <1>1, <1>0, UpQuiet DEF Confirmed, WorkerOnly, entryVars, coordVars, workerVars,
     gatewayVars, historyVars, AppsFirm, Live, Accepts, Waited, Applying, Brought, Stopping, Past,
     ControlInv, WorkerKinds, CallsFresh
<1>14. CASE ConfirmTimesOut
  BY <1>14, <1>1, <1>0, UpQuiet DEF ConfirmTimesOut, WorkerOnly, entryVars, coordVars, workerVars,
     gatewayVars, historyVars, AppsFirm, Live, Accepts, Waited, Applying, Brought, Stopping, Past,
     ControlInv, WorkerKinds, CallsFresh
<1>15. CASE Fails
  BY <1>15, <1>1, <1>0, UpQuiet DEF Fails, WorkerOnly, Polling, Polls, entryVars, coordVars,
     workerVars, gatewayVars, historyVars, AppsFirm, Live, Accepts, Waited, Applying, Brought,
     Stopping, Past, ControlInv, WorkerKinds, CallsFresh
<1>16. CASE RollbackDiff
  <2>1. wk = "rb_diff" /\ wk' \in {"rb_delete", "raised"} /\ UNCHANGED <<lock, late, running, rstate>>
    BY <1>16 DEF RollbackDiff, entryVars, coordVars
  <2>2. lock' = None /\ \A c \in late' : c.op = "commit" => ~Accepts(c)'
    BY <2>1, NoWrite DEF Accepts
  <2> QED
    BY <2>1, <2>2, UpVoid DEF Applying, Stopping, Brought
<1>17. CASE RestoreScaling
  <2>1. wk = "rb_scale" /\ wk' = "report" /\ UNCHANGED <<lock, late, running, rstate>>
    BY <1>17 DEF RestoreScaling, entryVars, coordVars
  <2>2. lock' = None /\ \A c \in late' : c.op = "commit" => ~Accepts(c)'
    BY <2>1, NoWrite DEF Accepts
  <2> QED
    BY <2>1, <2>2, UpVoid DEF Applying, Stopping, Brought
<1>18. CASE ResetRouting
  BY <1>18, <1>1, <1>0, UpQuiet DEF ResetRouting, Route, entryVars, coordVars, workerVars,
     gatewayVars, historyVars, AppsFirm, Live, Accepts, Waited, Applying, Brought, Stopping, Past,
     ControlInv, WorkerKinds, CallsFresh
<1>19. ASSUME NEW a \in App, AppStarts(a)
      PROVE  UpInv'
  BY <1>19, <1>1, <1>0, UpQuiet DEF AppStarts, Becomes, entryVars, coordVars, workerVars,
     gatewayVars, historyVars, AppsFirm, Live, Accepts, Waited, Applying, Brought, Stopping, Past,
     ControlInv, WorkerKinds, CallsFresh
<1>20. ASSUME NEW a \in App, AppGone(a)
      PROVE  UpInv'
  BY <1>20, <1>1, <1>0, UpQuiet DEF AppGone, Becomes, entryVars, coordVars, workerVars, gatewayVars,
     historyVars, AppsFirm, Live, Accepts, Waited, Applying, Brought, Stopping, Past, ControlInv,
     WorkerKinds, CallsFresh
<1>21. ASSUME NEW a \in App, AppFails(a)
      PROVE  UpInv'
  BY <1>21, <1>1, <1>0, UpQuiet DEF AppFails, Becomes, entryVars, coordVars, workerVars,
     gatewayVars, historyVars, AppsFirm, Live, Accepts, Waited, Applying, Brought, Stopping, Past,
     ControlInv, WorkerKinds, CallsFresh
<1>22. ASSUME NEW a \in App, AppSickens(a)
      PROVE  UpInv'
  BY <1>22 DEF AppSickens, Fault, AppsStayUp
<1>23. ASSUME NEW g \in Replicas, ReplicaFollows(g)
      PROVE  UpInv'
  BY <1>23, <1>1, <1>0, UpQuiet DEF ReplicaFollows, entryVars, coordVars, workerVars, gatewayVars,
     historyVars, AppsFirm, Live, Accepts, Waited, Applying, Brought, Stopping, Past, ControlInv,
     WorkerKinds, CallsFresh
<1>24. ASSUME NEW r \in Requests, CancelRunning(r)
      PROVE  UpInv'
  BY <1>24, <1>1, <1>0, UpQuiet DEF CancelRunning, entryVars, coordVars, workerVars, gatewayVars,
     historyVars, AppsFirm, Live, Accepts, Waited, Applying, Brought, Stopping, Past, ControlInv,
     WorkerKinds, CallsFresh
<1>25. CASE SeesCancel
  BY <1>25, <1>1, <1>0, UpQuiet DEF SeesCancel, Polling, Polls, entryVars, coordVars, workerVars,
     gatewayVars, historyVars, AppsFirm, Live, Accepts, Waited, Applying, Brought, Stopping, Past,
     ControlInv, WorkerKinds, CallsFresh
<1>26. CASE UNCHANGED vars
  BY <1>26, <1>1, <1>0, UpQuiet DEF vars, entryVars, coordVars, workerVars, gatewayVars,
     historyVars, AppsFirm, Live, Accepts, Waited, Applying, Brought, Stopping, Past, ControlInv,
     WorkerKinds, CallsFresh
<1>27. ASSUME NEW r \in Requests, CancelQueued(r)
      PROVE  UpInv'
  BY <1>27, <1>1, <1>0, UpQuiet DEF CancelQueued, entryVars, coordVars, workerVars, gatewayVars,
     historyVars, AppsFirm, Live, Accepts, Waited, Applying, Brought, Stopping, Past, ControlInv,
     WorkerKinds, CallsFresh
<1>28. CASE RunEnds
  BY <1>28, <1>1, <1>0, UpQuiet DEF RunEnds, Ends, NoWorker, entryVars, coordVars, workerVars,
     gatewayVars, historyVars, AppsFirm, Live, Accepts, Waited, Applying, Brought, Stopping, Past,
     ControlInv, WorkerKinds, CallsFresh
<1>29. CASE DeathSeen
  BY <1>29, <1>1, <1>0, UpQuiet DEF DeathSeen, NewWorker, entryVars, coordVars, workerVars,
     gatewayVars, historyVars, AppsFirm, Live, Accepts, Waited, Applying, Brought, Stopping, Past,
     ControlInv, WorkerKinds, CallsFresh
<1>30. CASE RollbackEnds
  BY <1>30, <1>1, <1>0, UpQuiet DEF RollbackEnds, Ends, NoWorker, entryVars, coordVars, workerVars,
     gatewayVars, historyVars, AppsFirm, Live, Accepts, Waited, Applying, Brought, Stopping, Past,
     ControlInv, WorkerKinds, CallsFresh
<1>31. CASE Recover
  BY <1>31, <1>1, <1>0, UpQuiet DEF Recover, NewWorker, entryVars, coordVars, workerVars,
     gatewayVars, historyVars, AppsFirm, Live, Accepts, Waited, Applying, Brought, Stopping, Past,
     ControlInv, WorkerKinds, CallsFresh
<1>32. CASE RecoveryEnds
  BY <1>32, <1>1, <1>0, UpQuiet DEF RecoveryEnds, NoWorker, entryVars, coordVars, workerVars,
     gatewayVars, historyVars, AppsFirm, Live, Accepts, Waited, Applying, Brought, Stopping, Past,
     ControlInv, WorkerKinds, CallsFresh
<1>33. CASE CommitLands
  <2>1. /\ lock # None /\ lock' = None /\ rstate' = [rstate EXCEPT ![lock] = "retiring"]
        /\ UNCHANGED <<late, running>>
        /\ wk = "committing" => wk' = "retire"
        /\ wk # "committing" => wk' = wk
    BY <1>33 DEF CommitLands
  <2>2. wk' \notin Applying
    BY <2>1 DEF ControlInv, LockHeld, Applying, Stopping, Brought
  <2>3. \A c \in late : c.op = "commit" => ~Accepts(c)'
    BY <1>1, <2>1 DEF ControlInv, CallsFresh, Writes, Accepts
  <2> QED
    BY <2>1, <2>2, <2>3, UpVoid
<1>34. CASE CommitFails
  <2>1. /\ lock # None /\ lock' = None /\ UNCHANGED <<late, running, rstate>>
        /\ wk = "committing" => wk' = "rb_mark"
        /\ wk # "committing" => wk' = wk
    BY <1>34 DEF CommitFails, entryVars
  <2>2. wk' \notin Applying
    BY <2>1 DEF ControlInv, LockHeld, Applying, Stopping, Brought
  <2>3. \A c \in late : c.op = "commit" => ~Accepts(c)'
    BY <2>1 DEF ControlInv, CallsFresh, Accepts
  <2> QED
    BY <2>1, <2>2, <2>3, UpVoid
<1>35. CASE CoordinatorDies
  BY <1>35, UpVoid DEF CoordinatorDies, NoWorker, Applying, Stopping, Brought
<1>36. ASSUME NEW r \in Requests, NEW request \in Inputs, Submit(r, request)
      PROVE  UpInv'
  <2>1. /\ UNCHANGED <<apps, committed, plan, left, wk, running, lock, late>> /\ rstate[r] = "new"
        /\ input' = [input EXCEPT ![r] = request] /\ rstate' = [rstate EXCEPT ![r] = "queued"]
    BY <1>36 DEF Submit, workerVars
  <2>2. /\ running # r /\ lock # r
        /\ \A c \in late : c.r # r
    BY <1>1, <2>1
       DEF CommitInv, OnlyStarted, Started, WriterPastCancel, Writes, ControlInv, WorkerKinds
  <2>3. \A q \in Requests : q # r => input'[q] = input[q] /\ (Firm(q) => Firm(q)')
    BY <2>1 DEF Firm, AppsOf, TypeInv, TypeOK, EntryType
  <2>4. KeptLive' /\ DeploysUp' /\ Plans'
    BY <1>1, <2>1, <2>2, <2>3 DEF UpInv, KeptLive, DeploysUp, Plans, Live, Waited, AppsOf
  <2>5. lock' # None => Firm(lock)'
    BY <1>1, <2>1, <2>2, <2>3 DEF UpInv, WritesFirm
  <2>6. ASSUME NEW c \in late, c.op = "commit", Accepts(c)'
        PROVE  Firm(c.r)'
    <3>1. c.r \in Requests /\ c.r # r /\ Accepts(c)
      BY <1>1, <2>1, <2>2, <2>6 DEF Accepts, CallType
    <3> QED
      BY <2>3, <2>6, <3>1 DEF UpInv, WritesFirm
  <2> QED
    BY <2>1, <2>4, <2>5, <2>6 DEF UpInv, WritesFirm, Firm
<1>37. CASE Pick
  BY <1>37, <1>1, <1>0, UpQuiet DEF Pick, NewWorker, entryVars, coordVars, workerVars, gatewayVars,
     historyVars, AppsFirm, Live, Accepts, Waited, Applying, Brought, Stopping, Past, ControlInv,
     WorkerKinds, CallsFresh
<1>38. ASSUME NEW c \in InFlight, Switch(c)
      PROVE  UpInv'
  <2>1. /\ c \in CallType /\ c.r \in Requests /\ c.models \in Version \cup {NoVersion}
        /\ c \notin late => wkind = "run" /\ c.r = running /\ wk = c.op /\ c.models = plan.models
    BY CallFacts DEF CallType, InFlight, Call
  <2>2. /\ UNCHANGED <<committed, apps, input, running, wkind, plan, left>> /\ late' \subseteq late
        /\ rstate' = [rstate EXCEPT ![c.r] = "switching"] /\ rstate[c.r] # "rolling_back" /\ running = c.r
        /\ wk' = wk \/ (wk = "switch" /\ wk' = "confirm")
        /\ lock' = lock
    BY <1>38, <2>1 DEF Switch, Answer, Accepts, entryVars, coordVars
  <2>3. \A d \in late' : Accepts(d)' => Accepts(d)
    BY <1>1, <2>1, <2>2 DEF Accepts
  <2> QED
    BY <1>1, <2>2, <2>3, UpQuiet DEF AppsFirm, Live, Waited, Applying, Brought, Stopping, Past
<1>39. ASSUME NEW c \in InFlight, CommitCancelled(c)
      PROVE  UpInv'
  <2>1. /\ c \in CallType /\ c.r \in Requests /\ c.models \in Version \cup {NoVersion}
        /\ c \notin late => wkind = "run" /\ c.r = running /\ wk = c.op /\ c.models = plan.models
    BY CallFacts DEF CallType, InFlight, Call
  <2>2. /\ UNCHANGED <<committed, apps, input, running, wkind, plan, left>> /\ late' \subseteq late
        /\ rstate' = rstate /\ (wk' = wk \/ (wk = "commit" /\ wk' = "rb_mark"))
        /\ lock' = lock
    BY <1>39, <2>1 DEF CommitCancelled, Answer, Accepts, entryVars, coordVars
  <2>3. \A d \in late' : Accepts(d)' => Accepts(d)
    BY <1>1, <2>1, <2>2 DEF Accepts
  <2> QED
    BY <1>1, <2>2, <2>3, UpQuiet DEF AppsFirm, Live, Waited, Applying, Brought, Stopping, Past
<1>40. ASSUME NEW c \in InFlight, CommitStarts(c)
      PROVE  UpInv'
  <2>1. /\ c \in CallType /\ c.r \in Requests /\ c.models \in Version \cup {NoVersion}
        /\ c \notin late => wkind = "run" /\ c.r = running /\ wk = c.op /\ c.models = plan.models
    BY CallFacts DEF CallType, InFlight, Call
  <2>2. /\ UNCHANGED <<committed, apps, input, running, plan, left>> /\ late' \subseteq late
        /\ running = c.r /\ rstate' = [rstate EXCEPT ![c.r] = "committing"] /\ rstate[c.r] # "rolling_back"
        /\ wk' = wk \/ (wk = "commit" /\ wk' = "committing")
        /\ lock' = c.r /\ c.op = "commit" /\ Accepts(c)
    BY <1>40, <2>1 DEF CommitStarts, Answer, Accepts, entryVars, coordVars
  <2>3. Firm(c.r)
    <3>1. CASE c \in late
      BY <2>2, <3>1 DEF UpInv, WritesFirm
    <3>2. CASE c \notin late
      BY <2>1, <2>2, <3>2, CommitFirm
    <3> QED
      BY <3>1, <3>2
  <2>4. Firm(c.r)'
    BY <2>2, <2>3 DEF Firm, AppsOf
  <2>5. \A d \in late' : d.op = "commit" /\ Accepts(d)' => Firm(d.r)'
    BY <2>2, <2>4 DEF Accepts
  <2>6. WritesFirm'
    BY <2>2, <2>4, <2>5 DEF WritesFirm, Firm
  <2>7. KeptLive' /\ DeploysUp' /\ Plans'
    BY <2>2 DEF UpInv, KeptLive, DeploysUp, Plans, Live, Waited, AppsOf, Past, Applying, Brought, Stopping
  <2> QED
    BY <2>6, <2>7 DEF UpInv
<1>41. ASSUME NEW c \in InFlight, RollingBack(c)
      PROVE  UpInv'
  <2>1. /\ c \in CallType /\ c.r \in Requests /\ c.models \in Version \cup {NoVersion}
        /\ c \notin late => wkind = "run" /\ c.r = running /\ wk = c.op /\ c.models = plan.models
    BY CallFacts DEF CallType, InFlight, Call
  <2>2. /\ UNCHANGED <<committed, apps, input, running, wkind, plan, left>> /\ late' \subseteq late
        /\ rstate' = IF running = c.r THEN [rstate EXCEPT ![c.r] = "rolling_back"] ELSE rstate
        /\ wk' = wk \/ (wk = "rb_mark" /\ wk' = "rb_reset")
        /\ lock' = lock
    BY <1>41, <2>1 DEF RollingBack, Answer, Accepts, entryVars, coordVars
  <2>3. \A d \in late' : Accepts(d)' => Accepts(d)
    BY <1>1, <2>1, <2>2 DEF Accepts
  <2> QED
    BY <1>1, <2>2, <2>3, UpQuiet DEF AppsFirm, Live, Waited, Applying, Brought, Stopping, Past
<1>42. ASSUME NEW c \in InFlight, Refuse(c)
      PROVE  UpInv'
  BY <1>42, <1>1, <1>0, UpQuiet DEF Refuse, entryVars, coordVars, workerVars, gatewayVars,
     historyVars, AppsFirm, Live, Accepts, Waited, Applying, Brought, Stopping, Past, ControlInv,
     WorkerKinds, CallsFresh
<1>43. ASSUME NEW r \in Requests, KillUnlessSeen(r)
      PROVE  UpInv'
  <2>1. /\ (wk' = wk /\ late' = late) \/ (wk' = "dead" /\ late' = InFlight /\ wk # "none")
        /\ UNCHANGED <<input, rstate, running, wkind, plan, left, committed, apps, lock>>
    BY <1>43 DEF KillUnlessSeen, Die, entryVars, coordVars, ControlInv, WorkerKinds
  <2> QED
    BY <2>1, DeathFirm
<1>44. CASE WorkerDies
  <2>1. /\ wk' = "dead" /\ late' = InFlight /\ wk # "none"
        /\ UNCHANGED <<input, rstate, running, wkind, plan, left, committed, apps, lock>>
    BY <1>44 DEF WorkerDies, Die, entryVars, coordVars
  <2> QED
    BY <2>1, DeathFirm
<1> QED
  BY <1>2, <1>3, <1>4, <1>5, <1>6, <1>7, <1>8, <1>9, <1>10, <1>11, <1>12, <1>13, <1>14, <1>15,
     <1>16, <1>17, <1>18, <1>19, <1>20, <1>21, <1>22, <1>23, <1>24, <1>25, <1>26, <1>27, <1>28,
     <1>29, <1>30, <1>31, <1>32, <1>33, <1>34, <1>35, <1>36, <1>37, <1>38, <1>39, <1>40, <1>41,
     <1>42, <1>43, <1>44 DEF Next, Users, Coordinator, Worker, Trouble, Serve, Gateway

\* The first state has it.
LEMMA InitUp == Init => UpInv
BY DEF Init, UpInv, KeptLive, DeploysUp, Plans, WritesFirm, Applying, Brought, Stopping, Past

\* What a request asks for is up when its version lands.
LEMMA LandsFirm ==
  ASSUME TypeInv, UpInv, [Next]_vars, NEW r \in landed' \ landed
  PROVE  ModelsRun(r)
<1>1. r \in Requests /\ Firm(r)
  BY LandsLock DEF UpInv, WritesFirm, TypeInv, TypeOK, CoordinatorType
<1>2. input[r].models \in Version
  BY <1>1 DEF TypeInv, TypeOK, EntryType, Request
<1>3. \A m \in Has(input[r].models) : AppOf(input[r].models, m) \in Named(input[r].models)
  BY <1>2, NamedFacts
<1> QED
  BY <1>1, <1>3 DEF ModelsRun, Firm

(* A version lands in its request's turn, with every model the request asks    *)
(* for running in its new deployment, or live in one it keeps, and every       *)
(* gateway replica routing by it: run_request waits for the deployments and    *)
(* for wait_switched before commit, and nobody deletes an app or routes anew   *)
(* before the write has ended, whoever died meanwhile.                         *)
THEOREM CommitsSafe ==
  WritesAnswered /\ AppsStayUp => (Spec /\ [][RollbackOutlives]_vars => CommitsSound)
<1> SUFFICES ASSUME WritesAnswered, AppsStayUp
             PROVE  Spec /\ [][RollbackOutlives]_vars => CommitsSound
  OBVIOUS
<1> DEFINE I == TypeInv /\ CommitInv /\ ControlInv /\ LedgerInv /\ OrderInv /\ ConfirmInv
           J == TypeInv /\ CommitInv /\ ControlInv /\ RoutingInv /\ ServeInv /\ ConfirmInv /\ SpareInv
           Sound == \A r \in landed' \ landed : InTurn(r) /\ ModelsRun(r) /\ ReplicasTold
<1>1. Init => UpInv
  BY InitUp
<1>2. J /\ UpInv /\ [Next]_vars => UpInv'
  BY UpStep
<1>3. I /\ UpInv /\ [Next]_vars => [Sound]_vars
  BY LandsInTurn, LandsFirm
<1>4. Spec /\ [][RollbackOutlives]_vars => []I
  BY LedgerHolds
<1>5. Spec => []J
  BY SpareHolds
<1>6. CommitsSound <=> [][Sound]_vars
  BY DEF CommitsSound
<1> HIDE DEF I, J, Sound
<1> QED
  BY <1>1, <1>2, <1>3, <1>4, <1>5, <1>6, PTL DEF Spec
=============================================================================
