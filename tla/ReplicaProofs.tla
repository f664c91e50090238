---------------------------- MODULE ReplicaProofs ----------------------------
(***************************************************************************)
(* What a replica leaves behind (module Replica), for any number of replicas *)
(* and requests: no backend it has not told to end, no work that nobody      *)
(* awaits, and no wrong idea of why it failed.                               *)
(***************************************************************************)
EXTENDS Replica, TLAPS, FiniteSetTheorems

(* Bring-up: what the worker, the coordinator and the replicas agree on.     *)

BringUpFlags == retry \in BOOLEAN /\ fatal \in BOOLEAN /\ unheard \in BOOLEAN

BringUpTypes ==
  /\ rep \in [Replicas -> {"none", "loading", "starting", "warmup", "serving", "teardown", "flagged",
                           "reporting"}]
  /\ child \in [Replicas -> {"none", "up", "dead", "told", "stray", "ended"}]
  /\ error \in [Replicas -> {"none", "transient", "fatal"}]
  /\ deaths \in Nat

\* Shutdown raises its flag before it tells the process to end, and tells it before the replica reports;
\* a replica whose backend has died on its own has none to leave.
TeardownInOrder ==
  /\ \A p \in Replicas :
       /\ rep[p] \in {"flagged", "reporting"} => p \in flag
       /\ rep[p] \in {"none", "loading", "reporting"} => child[p] # "up"
       /\ child[p] \in {"told", "stray", "ended"} => p \in flag
  /\ "forgotten" \notin left

\* While an add waits for its attempt, an attempt that failed for good has been heard of.
FatalIsHeard ==
  kind = "add" /\ wk \in {"polling", "judging"} /\ ~retry /\ cause = "fatal" => fatal \/ unheard

BringUpInv == BringUpTypes /\ BringUpFlags /\ TeardownInOrder /\ FatalIsHeard

(* What FailuresToldApart allows of a step.                                  *)
ToldApart ==
  /\ deaths' > deaths => \E p \in Replicas : p \in watcher /\ child[p] = "dead"
  /\ ~retry /\ retry' => cause' # "fatal" \/ unheard

-----------------------------------------------------------------------------
\* Before the first request there is nothing to leave behind.
LEMMA BringUpInitInv == BringUpInit => BringUpInv
<1>1. BringUpInit => BringUpTypes
  BY DEF BringUpInit, BringUpTypes, All
<1>2. BringUpInit => BringUpFlags
  BY DEF BringUpInit, BringUpFlags
<1>3. BringUpInit => TeardownInOrder /\ FatalIsHeard
  BY DEF BringUpInit, TeardownInOrder, FatalIsHeard, All
<1> QED
  BY <1>1, <1>2, <1>3 DEF BringUpInv

\* A death is counted up to a natural number, whatever the app's replicas.
LEMMA DeathCapNat == DeathCap \in Nat
BY BringUpAssumption, FS_CardinalityType DEF DeathCap

\* The worker's steps leave the replicas alone; one that pops a fatal error ends the wait or retries.
LEMMA WorkerStep == BringUpInv /\ Worker => BringUpInv' /\ ToldApart
<1> SUFFICES ASSUME BringUpInv, Worker PROVE BringUpInv' /\ ToldApart
  OBVIOUS
<1> USE DEF BringUpInv, OnlyWorker, replicaVars, coordVars, serveVars, historyVars
<1>1. (deaths' = deaths \/ deaths' = 0) /\ UNCHANGED <<rep, child, error, left, flag>>
  BY DEF Worker, Submits, ReadsStatus, Unreadable, Judges, Resubmits, RollsBack, IsDeleted
<1>2. BringUpFlags'
  BY DEF Worker, Submits, SubmitsAdd, SubmitsRescale, ReadsStatus, Unreadable, Judges, FailedAttempt,
         Resubmits, RollsBack, IsDeleted, workerVars, BringUpFlags
<1>3. TeardownInOrder'
  BY <1>1 DEF TeardownInOrder
<1>4. FatalIsHeard'
  BY DEF Worker, Submits, SubmitsAdd, SubmitsRescale, ReadsStatus, Unreadable, Judges, FailedAttempt,
         Resubmits, RollsBack, IsDeleted, workerVars, BringUpFlags,
         FatalIsHeard
<1>5. deaths' > deaths => FALSE
  BY <1>1 DEF BringUpTypes
<1>6. ~retry /\ retry' => cause' # "fatal" \/ unheard
  BY DEF Worker, Submits, SubmitsAdd, SubmitsRescale, ReadsStatus, Unreadable, Judges, FailedAttempt,
         Resubmits, RollsBack, IsDeleted, workerVars, BringUpFlags,
         FatalIsHeard
<1> QED
  BY <1>1, <1>2, <1>3, <1>4, <1>5, <1>6 DEF BringUpTypes, ToldApart

\* A replica's steps leave the worker alone.  One that exits has ended its backend, and one that
\* reports a fatal error does so before its constructor has raised.
LEMMA ReplicaStep ==
  ASSUME NEW p \in Replicas
  PROVE  BringUpInv /\ Replica(p) => BringUpInv' /\ ToldApart
<1> SUFFICES ASSUME BringUpInv, Replica(p) PROVE BringUpInv' /\ ToldApart
  OBVIOUS
<1> USE DEF BringUpInv, OnlyReplica, workerVars, coordVars, serveVars, historyVars, To, Child
<1>1. CASE StartsReplica(p) \/ Launches(p) \/ Healthy(p) \/ WarmsUp(p)
  BY <1>1 DEF StartsReplica, Launches, Healthy, WarmsUp, BringUpTypes, BringUpFlags,
              TeardownInOrder, FatalIsHeard, ToldApart
<1>2. CASE Raises(p) \/ StopsReplica(p)
  BY <1>2 DEF Raises, StopsReplica, BringUpTypes, BringUpFlags, TeardownInOrder, FatalIsHeard,
              ToldApart
<1>3. CASE Flags(p) \/ Terminates(p) \/ BackendDies(p) \/ BackendEnds(p) \/ LeftoversEnd
  BY <1>3 DEF Flags, Terminates, BackendDies, BackendEnds, LeftoversEnd, BringUpTypes, BringUpFlags, TeardownInOrder,
              FatalIsHeard, ToldApart
<1>4. CASE Reports(p)
  <2>1. BringUpTypes'
    BY <1>4 DEF Reports, Exits, Gone, ConstructorFails, BringUpTypes
  <2>2. TeardownInOrder'
    BY <1>4 DEF Reports, Exits, Gone, BringUpTypes, TeardownInOrder
  <2>3. BringUpFlags'
    BY <1>4 DEF Reports, BringUpFlags
  <2>4. FatalIsHeard'
    BY <1>4 DEF Reports, ConstructorFails, BringUpFlags, FatalIsHeard
  <2>5. deaths' = deaths /\ retry' = retry
    BY <1>4 DEF Reports
  <2> QED
    BY <2>1, <2>2, <2>3, <2>4, <2>5 DEF BringUpTypes, ToldApart
<1>5. CASE SeesDeath(p)
  BY <1>5, DeathCapNat DEF SeesDeath, Exits, Gone, Counts, Least, ConstructorFails, BringUpTypes,
                           BringUpFlags, TeardownInOrder, FatalIsHeard, ToldApart
<1>6. CASE Dies(p)
  BY <1>6 DEF Dies, Gone, ConstructorFails, BringUpTypes, BringUpFlags, TeardownInOrder, FatalIsHeard,
              ToldApart
<1> QED
  BY <1>1, <1>2, <1>3, <1>4, <1>5, <1>6 DEF Replica

\* Requests change nothing about the bring-up of their replica.
LEMMA BringUpStep == BringUpInv /\ [Next]_vars => BringUpInv' /\ [ToldApart]_bringUpVars
<1> SUFFICES ASSUME BringUpInv, [Next]_vars PROVE BringUpInv' /\ [ToldApart]_bringUpVars
  OBVIOUS
<1>1. CASE UNCHANGED bringUpVars
  BY <1>1 DEF bringUpVars, workerVars, coordVars, serveVars, replicaVars, historyVars, BringUpInv,
              BringUpTypes, BringUpFlags, TeardownInOrder, FatalIsHeard
<1>2. CASE Worker
  BY <1>2, WorkerStep
<1>3. CASE \E p \in Replicas : Replica(p)
  BY <1>3, ReplicaStep
<1> QED
  BY <1>1, <1>2, <1>3 DEF Next, vars, Decides, Surrounds, Steps, Serves, IsServed

\* However its load failed or it was stopped, a replica that ends by itself has told its backend to end:
\* _graceful_teardown comes before the report and the exit, and backend_died exits only when the process
\* is dead already.  The process may outlive the replica, which is then no longer there to kill it.
THEOREM BackendsEnd == Spec => []NoBackendLeft
<1>1. Init => BringUpInv
  BY BringUpInitInv DEF Init
<1>2. BringUpInv /\ [Next]_vars => BringUpInv'
  BY BringUpStep
<1>3. BringUpInv => NoBackendLeft
  BY DEF BringUpInv, TeardownInOrder, NoBackendLeft
<1> QED
  BY <1>1, <1>2, <1>3, PTL DEF Spec

\* The coordinator counts a death only of a backend that died on its own, and _failed_attempt does not
\* retry an attempt whose constructor failed for good, unless the report of it was lost.
THEOREM FailuresTold == Spec => FailuresToldApart
<1>1. Init => BringUpInv
  BY BringUpInitInv DEF Init
<1>2. BringUpInv /\ [Next]_vars => BringUpInv'
  BY BringUpStep
<1>3. BringUpInv /\ [Next]_vars => [ToldApart]_bringUpVars
  BY BringUpStep
<1>4. Spec => [][ToldApart]_bringUpVars
  BY <1>1, <1>2, <1>3, PTL DEF Spec
<1> QED
  BY <1>4 DEF FailuresToldApart, ToldApart

-----------------------------------------------------------------------------
(* Requests: whose work and whose thread runs.                               *)

RequestTypes ==
  /\ loader \in Loaders /\ phase \in [Requests -> {"queued"} \cup Active \cup Over]
  /\ work \in [Requests -> {"none", "waiting", "running", "cancelling", "over"}]
  /\ thread \in [Requests -> {"none", "running", "over"}]
  /\ holder \in Requests \cup {None}

\* Only an engine's requests are watched for a disconnect, and only they await cancelled work; they
\* have no thread of their own.
EngineOnly ==
  /\ loader # "engine" => watched = {} /\ fired = {}
  /\ \A r \in Requests :
       /\ phase[r] \in {"aborting", "cancelling"} => loader = "engine"
       /\ loader = "engine" => thread[r] = "none" /\ work[r] # "waiting"

\* A handler that awaits a thread knows whether it runs.
ThreadMatchesWork ==
  \A r \in Requests :
    /\ phase[r] = "queued" <=> work[r] = "none"
    /\ phase[r] = "queued" => thread[r] = "none"
    /\ loader # "engine" /\ phase[r] \in {"running", "yielded"} =>
         /\ work[r] # "cancelling"
         /\ thread[r] = "running" <=> work[r] = "running"

\* The work of a handler that is over has ended, or has been told to.
NothingAwaited ==
  \A r \in Requests : phase[r] \in Over =>
    /\ work[r] \in {"over", "cancelling"} /\ (loader = "engine" => work[r] = "over")
    /\ thread[r] = "running" => r \in stop \/ work[r] = "cancelling"

\* The lock's holder is the one whose thread runs, awaited or not.
HolderRuns == loader = "exclusive" => \A r \in Requests : thread[r] = "running" <=> holder = r

RequestInv == RequestTypes /\ EngineOnly /\ ThreadMatchesWork /\ NothingAwaited /\ HolderRuns

\* Nothing runs before the first request.
LEMMA RequestInitInv == InferenceInit => RequestInv
BY InferenceAssumption DEF InferenceInit, RequestInv, RequestTypes, EngineOnly, ThreadMatchesWork,
                           NothingAwaited, HolderRuns, Active, Over, Loaders

\* Clients, the registry and the pump disturb no work.
LEMMA AroundStep == RequestInv /\ Around => RequestInv'
BY DEF Around, PumpHears, PollFails, PumpWakes, RegistryDies, Leaves, Expires, OnlyPump, OnlyClient,
       lockVars, pumpVars, RequestInv, RequestTypes, EngineOnly, ThreadMatchesWork, NothingAwaited,
       HolderRuns

\* A handler's steps: each of them ends the work it leaves, or tells it to stop, and takes the lock
\* only when no thread runs.
LEMMA HandlerStep ==
  ASSUME NEW r \in Requests
  PROVE  RequestInv /\ Handles(r) => RequestInv'
<1> SUFFICES ASSUME RequestInv, Handles(r) PROVE RequestInv'
  OBVIOUS
<1> USE InferenceAssumption
<1> USE DEF RequestInv, RequestTypes, EngineOnly, ThreadMatchesWork, NothingAwaited, HolderRuns,
            OnlyHandler, lockVars, pumpVars, Moves, Works, Active, Over, Loaders
<1>1. CASE Begins(r)
  <2>1. RequestTypes'
    BY <1>1 DEF Begins, Blocks
  <2>2. EngineOnly'
    BY <1>1 DEF Begins, Blocks, Watch
  <2>3. ThreadMatchesWork' /\ NothingAwaited'
    BY <1>1 DEF Begins, Blocks
  <2>4. HolderRuns'
    <3>1. CASE thread' = thread /\ holder' = holder
      BY <1>1, <3>1 DEF Begins
    <3>2. CASE thread' = [thread EXCEPT ![r] = "running"]
      BY <1>1, <3>2 DEF Begins, Blocks
    <3> QED
      BY <1>1, <3>1, <3>2 DEF Begins, Blocks
  <2> QED
    BY <2>1, <2>2, <2>3, <2>4
<1>2. CASE BlocksAgain(r)
  BY <1>2 DEF BlocksAgain, Blocks
<1>3. CASE Acquires(r)
  BY <1>3 DEF Acquires
<1>4. CASE ThreadEnds(r)
  BY <1>4 DEF ThreadEnds
<1>5. CASE WorkReturns(r) \/ Yields(r) \/ Pulls(r)
  BY <1>5 DEF WorkReturns, Yields, Pulls
<1>6. CASE Answers(r)
  BY <1>6 DEF Answers, Unwatch, Forget
<1>7. CASE SeesDisconnect(r)
  BY <1>7 DEF SeesDisconnect
<1>8. CASE Cancelled(r)
  BY <1>8 DEF Cancelled, CancelEngine, CancelBlocked, StopThread, Unwatch
<1>9. CASE Unwinds(r)
  BY <1>9 DEF Unwinds, StopThread
<1>10. CASE Ends(r)
  BY <1>10 DEF Ends, Unwatch, Forget
<1> QED
  BY <1>1, <1>2, <1>3, <1>4, <1>5, <1>6, <1>7, <1>8, <1>9, <1>10 DEF Handles

\* A process that ends takes its requests and their threads along.
LEMMA LostStep == RequestInv /\ RequestsLost => RequestInv'
BY InferenceAssumption
   DEF RequestsLost, clientVars, RequestInv, RequestTypes, EngineOnly, ThreadMatchesWork,
       NothingAwaited, HolderRuns, Active, Over, Loaders

\* Every step is one of the above or leaves the requests alone.
LEMMA RequestStep == RequestInv /\ [Next]_vars => RequestInv'
<1> SUFFICES ASSUME RequestInv, [Next]_vars PROVE RequestInv'
  OBVIOUS
<1>1. CASE UNCHANGED inferenceVars
  BY <1>1 DEF inferenceVars, lockVars, pumpVars, RequestInv, RequestTypes, EngineOnly,
              ThreadMatchesWork, NothingAwaited, HolderRuns
<1>2. CASE RequestsLost
  BY <1>2, LostStep
<1>3. CASE Around
  BY <1>3, AroundStep
<1>4. CASE \E r \in Requests : Handles(r)
  BY <1>4, HandlerStep
<1> QED
  BY <1>1, <1>2, <1>3, <1>4 DEF Next, vars, Decides, Surrounds, Steps, CarriesRequests, Serves

\* At most the lock's holder has a running thread.
LEMMA OneThread ==
  ASSUME RequestInv, loader = "exclusive"
  PROVE  Cardinality({r \in Requests : thread[r] = "running"}) <= 1
<1> DEFINE R == {r \in Requests : thread[r] = "running"}
<1>1. R \subseteq {holder}
  BY DEF RequestInv, HolderRuns
<1>2. IsFiniteSet({holder}) /\ Cardinality({holder}) = 1
  BY FS_Singleton
<1> QED
  BY <1>1, <1>2, FS_Subset

\* However a request ends, and however its replica does, no work is left that nobody awaits and nobody
\* has told to stop; and of an engine that is not thread-safe one thread runs at a time, the one of a
\* cancelled request included (run_cancellable, run_cancellable_stream, run_blocking).
THEOREM WorkEnds == Spec => []NoOrphanWork
<1>1. Init => RequestInv
  BY RequestInitInv DEF Init
<1>2. RequestInv /\ [Next]_vars => RequestInv'
  BY RequestStep
<1>3. RequestInv => NoOrphanWork
  BY OneThread DEF RequestInv, NothingAwaited, NoOrphanWork
<1> QED
  BY <1>1, <1>2, <1>3, PTL DEF Spec
=============================================================================
