------------------------------ MODULE BringUp ------------------------------
(***************************************************************************)
(* How a deploy brings up one app, replica by replica: the worker submits it *)
(* and polls (deploy/worker.py _bring_up and _rescale), each replica's       *)
(* constructor loads the model and starts its backend                        *)
(* (infer/model_deployment.py), a backend that dies on its own takes the     *)
(* replica with it (llama_server_infer.py _watch_process, vllm_infer.py      *)
(* _on_engine_output_handler_done, base_infer.py backend_died), and the      *)
(* deploy coordinator counts deaths and keeps fatal load errors, from which  *)
(* the worker tells what to retry.                                           *)
(***************************************************************************)
EXTENDS Naturals, FiniteSets

CONSTANTS
  Replicas,
  First,                \* the replica an add asks for; a rescale asks for all
  MaxTransientFailures, \* _MAX_TRANSIENT_FAILURES
  DeathsPerReplica,     \* _DEATHS_PER_REPLICA
  MaxRequests,
  MaxLosses             \* faults of bring-up in a behaviour

ASSUME BringUpAssumption ==
  /\ IsFiniteSet(Replicas) /\ First \in Replicas
  /\ MaxTransientFailures \in Nat \ {0} /\ DeathsPerReplica \in Nat \ {0}
  /\ MaxRequests \in Nat /\ MaxLosses \in Nat

VARIABLES
  separate,   \* the loader's backend is a process of its own
  kind,       \* what the request does to the app
  wk,         \* where the worker is
  status,     \* the app's status it read
  retry,      \* retry_at is set
  failures,   \* the add's failed attempts
  seen,       \* the add's app has been seen in Serve's status
  deaths,     \* the coordinator's _deaths of the app
  limit,      \* and its _last_deaths limit, 0 for none
  fatal,      \* _fatal_errors has the app
  app,        \* what Serve does about it
  target,     \* the replicas Serve is asked for
  rep,        \* where each replica is
  error,      \* why its constructor raises
  ceiling,    \* the replica count of its config
  child,      \* its backend process
  left,       \* the backends that have outlived their replica, by what they were told
  flag,       \* the replicas whose _shutting_down is set
  watcher,    \* the replicas that watch their backend
  requests,   \* requests so far
  losses,     \* faults so far
  cause,      \* (* history *) how the attempt failed
  unheard     \* (* history *) a report of a fatal failure was lost

workerVars == <<kind, wk, status, retry, failures, seen, requests>>
coordVars == <<deaths, limit, fatal>>
serveVars == <<app, target>>
replicaVars == <<rep, error, ceiling, child, left, flag, watcher>>
historyVars == <<cause, unheard>>
bringUpVars == <<separate, workerVars, coordVars, serveVars, replicaVars, losses, historyVars>>

Losing == losses' = losses + 1 /\ losses < MaxLosses
NoLoss == UNCHANGED losses

All(x) == [p \in Replicas |-> x]
DeathCap == DeathsPerReplica * Cardinality(Replicas)
Least(a, b) == IF a < b THEN a ELSE b

BringUpInit ==
  /\ separate \in BOOLEAN
  /\ kind = "none" /\ wk = "idle" /\ status = "none" /\ retry = FALSE /\ failures = 0 /\ seen = FALSE
  /\ deaths = 0 /\ limit = 0 /\ fatal = FALSE
  /\ app = "none" /\ target = {}
  /\ rep = All("none") /\ error = All("none") /\ ceiling = All(0) /\ child = All("none") /\ left = {}
  /\ flag = {} /\ watcher = {}
  /\ requests = 0 /\ losses = 0 /\ cause = "none" /\ unheard = FALSE

-----------------------------------------------------------------------------
(* The worker and the coordinator.                                           *)

OnlyWorker == UNCHANGED <<separate, replicaVars>>

\* _failed_attempt after n others: pops the fatal error, or counts the attempt and sets retry_at.
FailedAttempt(n) ==
  /\ fatal' = FALSE
  /\ IF fatal \/ n + 1 >= MaxTransientFailures
     THEN wk' = "failed" /\ retry' = FALSE /\ failures' = n
     ELSE wk' = "polling" /\ retry' = TRUE /\ failures' = n + 1

\* forget_deaths, then the add's submit, of which a failure is an attempt, ...
SubmitsAdd ==
  /\ app = "none" /\ kind' = "add"
  /\ \/ /\ NoLoss /\ app' = "deploying" /\ target' = {First} /\ cause' = "none"
        /\ wk' = "polling" /\ retry' = FALSE /\ failures' = 0 /\ UNCHANGED fatal
     \/ Losing /\ FailedAttempt(0) /\ cause' = "submit" /\ UNCHANGED <<app, target>>

\* ... or the rescale's pop_fatal_error and re-submit, which fails the request.
SubmitsRescale ==
  /\ app # "none" /\ kind' = "rescale" /\ fatal' = FALSE /\ retry' = FALSE /\ failures' = 0 /\ cause' = "none"
  /\ \/ NoLoss /\ target' = Replicas /\ wk' = "polling"
     \/ Losing /\ wk' = "failed" /\ UNCHANGED target
  /\ UNCHANGED app

Submits ==
  /\ wk \in {"idle", "up"} /\ requests < MaxRequests /\ requests' = requests + 1
  /\ SubmitsAdd \/ SubmitsRescale
  /\ deaths' = 0 /\ limit' = 0 /\ status' = "none" /\ seen' = FALSE
  /\ UNCHANGED unheard /\ OnlyWorker

\* Serve's status of the app.  It gives up on a new app whose constructor raised once
\* (max_constructor_retry_count), and replaces the replicas of one that ran without limit.
Status ==
  CASE app = "none" -> "none"
    [] app = "failed" -> "DEPLOY_FAILED"
    [] OTHER -> IF \A p \in target : rep[p] = "serving" THEN "RUNNING" ELSE "DEPLOYING"

ReadsStatus ==
  /\ wk = "polling" /\ wk' = "judging" /\ status' = Status
  /\ NoLoss /\ OnlyWorker
  /\ UNCHANGED <<kind, retry, failures, seen, requests, coordVars, serveVars, historyVars>>

\* Serve's status cannot be read: the poll is passed over, but not for _UNREADABLE_LIMIT_S.
Unreadable ==
  /\ wk = "polling" /\ Losing /\ wk' \in {"polling", "failed"}
  /\ OnlyWorker
  /\ UNCHANGED <<kind, status, retry, failures, seen, requests, coordVars, serveVars, historyVars>>

\* Mutant: the death limit is not looked at.
mut_crash_looping == FALSE

crash_looping == limit > 0 /\ deaths >= limit

Deleted == status = "none"

\* The rest of a poll, by the status it read and the coordinator's counts by now.
Judges ==
  /\ wk = "judging"
  /\ \/ crash_looping /\ wk' = "failed" /\ UNCHANGED <<retry, failures, fatal, seen>>
     \/ /\ ~crash_looping /\ kind = "rescale"
        /\ wk' = (IF fatal \/ Deleted THEN "failed" ELSE IF status = "RUNNING" THEN "up" ELSE "polling")
        /\ fatal' = FALSE /\ UNCHANGED <<retry, failures, seen>>
     \/ ~crash_looping /\ kind = "add" /\ retry /\ wk' = "polling" /\ UNCHANGED <<retry, failures, fatal, seen>>
     \/ /\ ~crash_looping /\ kind = "add" /\ ~retry /\ status = "DEPLOY_FAILED" /\ FailedAttempt(failures)
        /\ seen' = TRUE
     \/ /\ ~crash_looping /\ kind = "add" /\ ~retry /\ status # "DEPLOY_FAILED"
        /\ wk' = (IF Deleted /\ seen THEN "failed" ELSE IF status = "RUNNING" THEN "up" ELSE "polling")
        /\ seen' = (seen \/ ~Deleted) /\ UNCHANGED <<retry, failures, fatal>>
  /\ status' = "none" /\ NoLoss /\ OnlyWorker
  /\ UNCHANGED <<kind, requests, deaths, limit, serveVars, historyVars>>

\* The backoff is over.  A submit that raises is a failed attempt too.
Resubmits ==
  /\ wk = "polling" /\ retry
  /\ \/ /\ NoLoss /\ retry' = FALSE /\ app' = "deploying" /\ target' = {First} /\ cause' = "none"
        /\ UNCHANGED <<wk, failures, fatal>>
     \/ Losing /\ FailedAttempt(failures) /\ cause' = "submit" /\ UNCHANGED <<app, target>>
  /\ OnlyWorker /\ UNCHANGED <<kind, status, seen, requests, deaths, limit, unheard>>

\* A failed request is rolled back: a new app is deleted, a rescaled one gets its old count.
RollsBack ==
  /\ wk = "failed" /\ wk' = "idle"
  /\ IF kind = "add" THEN app' = "none" /\ target' = {} ELSE target' = {First} /\ UNCHANGED app
  /\ NoLoss /\ OnlyWorker
  /\ UNCHANGED <<kind, status, retry, failures, seen, requests, coordVars, historyVars>>

\* Somebody deletes the app in Serve.  Bound: while the worker polls for it.
IsDeleted ==
  /\ wk = "polling" /\ app # "none" /\ app' = "none" /\ target' = {} /\ Losing
  /\ OnlyWorker /\ UNCHANGED <<workerVars, coordVars, historyVars>>

-----------------------------------------------------------------------------
(* Replicas.                                                                 *)

OnlyReplica == UNCHANGED <<separate, workerVars>>
To(p, x) == rep' = [rep EXCEPT ![p] = x]
Child(p, x) == child' = [child EXCEPT ![p] = x]

\* The replica's process is no more.  Its daemon threads are gone with it, the one that waits to kill
\* the backend too: a backend that has been told to end may take its time, and one that has not is as.
Gone(p, as) ==
  /\ To(p, "none") /\ flag' = flag \ {p} /\ watcher' = watcher \ {p}
  /\ error' = [error EXCEPT ![p] = "none"] /\ ceiling' = [ceiling EXCEPT ![p] = 0] /\ Child(p, "none")
  /\ left' = left \cup (IF child[p] = "up" THEN {as} ELSE {child[p]} \cap {"told", "stray"})

\* The process ends by itself.
Exits(p) == Gone(p, "forgotten")

\* A constructor that ends without a replica.
ConstructorFails(p, why) ==
  IF app = "deploying" THEN app' = "failed" /\ cause' = why ELSE UNCHANGED <<app, cause>>

\* Serve starts a replica it is asked for.
StartsReplica(p) ==
  /\ p \in target /\ app \in {"deploying", "running"} /\ rep[p] = "none" /\ To(p, "loading")
  /\ ceiling' = [ceiling EXCEPT ![p] = Cardinality(target)]
  /\ NoLoss /\ OnlyReplica /\ UNCHANGED <<coordVars, serveVars, error, child, left, flag, watcher, historyVars>>

\* The checks, the download, the lease, the constructor and its preflight; then _launch.
Launches(p) ==
  /\ rep[p] = "loading" /\ To(p, "starting")
  /\ IF separate THEN Child(p, "up") ELSE UNCHANGED child
  /\ NoLoss /\ OnlyReplica /\ UNCHANGED <<coordVars, serveVars, error, ceiling, left, flag, watcher, historyVars>>

\* Mutant: nobody watches the process.
mut_Healthy(p) ==
  /\ rep[p] = "starting" /\ (separate => child[p] = "up") /\ To(p, "warmup")
  /\ NoLoss /\ OnlyReplica /\ UNCHANGED <<coordVars, serveVars, error, ceiling, child, left, flag, watcher, historyVars>>

\* _wait_healthy returns and start watches the process.
Healthy(p) ==
  /\ rep[p] = "starting" /\ (separate => child[p] = "up") /\ To(p, "warmup")
  /\ watcher' = (IF separate THEN watcher \cup {p} ELSE watcher)
  /\ NoLoss /\ OnlyReplica /\ UNCHANGED <<coordVars, serveVars, error, ceiling, child, left, flag, historyVars>>

\* warmup passes; an error answer, as from a dead backend, is only logged.  The app RUNs with all
\* its replicas.
WarmsUp(p) ==
  /\ rep[p] = "warmup" /\ To(p, "serving")
  /\ app' = (IF \A q \in target : rep'[q] = "serving" THEN "running" ELSE app)
  /\ NoLoss /\ OnlyReplica /\ UNCHANGED <<coordVars, target, error, ceiling, child, left, flag, watcher, historyVars>>

\* A step of __init__ raises: a download or a lease that failed is transient, all else is fatal, a GPU
\* that a backend of a replica that is no more still fills too.
Raises(p) ==
  /\ \/ rep[p] = "loading" /\ Losing /\ error' \in {[error EXCEPT ![p] = e] : e \in {"transient", "fatal"}}
     \/ rep[p] = "starting" /\ child[p] = "dead" /\ NoLoss /\ error' = [error EXCEPT ![p] = "fatal"]
     \/ /\ rep[p] = "loading" /\ left # {}
        /\ NoLoss /\ error' = [error EXCEPT ![p] = "fatal"]
     \/ rep[p] \in {"starting", "warmup"} /\ Losing /\ error' = [error EXCEPT ![p] = "fatal"]
  /\ To(p, "teardown")
  /\ OnlyReplica /\ UNCHANGED <<coordVars, serveVars, ceiling, child, left, flag, watcher, historyVars>>

\* Serve stops a replica it is not asked for.
StopsReplica(p) ==
  /\ p \notin target /\ rep[p] = "serving" /\ To(p, "teardown")
  /\ NoLoss /\ OnlyReplica
  /\ UNCHANGED <<coordVars, serveVars, error, ceiling, child, left, flag, watcher, historyVars>>

\* Mutant: shutdown terminates the process before it raises its flag.
mut_Flags(p) ==
  /\ rep[p] = "teardown" /\ To(p, "flagged") /\ Child(p, IF child[p] = "up" THEN "told" ELSE child[p])
  /\ NoLoss /\ OnlyReplica /\ UNCHANGED <<coordVars, serveVars, error, ceiling, left, flag, watcher, historyVars>>

\* _graceful_teardown: shutdown first raises its flag ...
Flags(p) ==
  /\ rep[p] = "teardown" /\ To(p, "flagged") /\ flag' = flag \cup {p}
  /\ NoLoss /\ OnlyReplica /\ UNCHANGED <<coordVars, serveVars, error, ceiling, child, left, watcher, historyVars>>

\* Mutant: a failed load is not torn down.
mut_Terminates(p) ==
  /\ rep[p] = "flagged" /\ To(p, "reporting") /\ UNCHANGED child
  /\ NoLoss /\ OnlyReplica /\ UNCHANGED <<coordVars, serveVars, error, ceiling, left, flag, watcher, historyVars>>

\* ... then sends the process a SIGTERM, and a thread is to kill it in 10 s.  A shutdown that raises is
\* only logged.
Terminates(p) ==
  /\ rep[p] = "flagged" /\ To(p, "reporting")
  /\ \/ Child(p, IF child[p] = "up" THEN "told" ELSE child[p]) /\ NoLoss
     \/ child[p] = "up" /\ Child(p, "stray") /\ Losing
  /\ OnlyReplica /\ UNCHANGED <<coordVars, serveVars, error, ceiling, left, flag, watcher, historyVars>>

\* _report_load_failure, awaited, then the constructor raises.  A report that fails is only logged.
Reports(p) ==
  /\ rep[p] = "reporting" /\ Exits(p)
  /\ IF error[p] = "none" THEN NoLoss /\ UNCHANGED <<fatal, app, historyVars>>
     ELSE /\ ConstructorFails(p, error[p])
          /\ \/ NoLoss /\ fatal' = (fatal \/ error[p] = "fatal") /\ UNCHANGED unheard
             \/ Losing /\ unheard' = (unheard \/ error[p] = "fatal") /\ UNCHANGED fatal
  /\ OnlyReplica /\ UNCHANGED <<deaths, limit, target>>

\* A backend process dies.
BackendDies(p) ==
  /\ child[p] = "up" /\ rep[p] # "none" /\ Child(p, "dead")
  /\ NoLoss /\ OnlyReplica
  /\ UNCHANGED <<coordVars, serveVars, rep, error, ceiling, left, flag, watcher, historyVars>>

\* A backend ends after its shutdown.
BackendEnds(p) ==
  /\ child[p] \in {"told", "stray"} /\ Child(p, "ended")
  /\ NoLoss /\ OnlyReplica
  /\ UNCHANGED <<coordVars, serveVars, rep, error, ceiling, left, flag, watcher, historyVars>>

\* Those whose replica is no more end of their SIGTERM, or of Ray's cleanup of the replica's process group.
LeftoversEnd ==
  /\ left # {} /\ left' = {}
  /\ NoLoss /\ OnlyReplica
  /\ UNCHANGED <<coordVars, serveVars, rep, error, ceiling, child, flag, watcher, historyVars>>

\* report_replica_death, against the ceiling of the replica's config.
Counts(p) == deaths' = Least(deaths + 1, DeathCap) /\ limit' = DeathsPerReplica * ceiling[p]

\* The watcher: outside a shutdown, the death is reported, not awaited, and the process exits.
SeesDeath(p) ==
  /\ p \in watcher /\ child[p] \in {"dead", "ended"}
  /\ IF p \in flag
     THEN watcher' = watcher \ {p} /\ NoLoss /\ UNCHANGED <<rep, error, ceiling, child, left, flag, deaths, limit, app, historyVars>>
     ELSE /\ Exits(p)
          /\ \/ Counts(p) /\ NoLoss
             \/ Losing /\ UNCHANGED <<deaths, limit>>
          /\ IF rep[p] = "serving" THEN UNCHANGED <<app, cause>> ELSE ConstructorFails(p, "death")
          /\ UNCHANGED unheard
  /\ OnlyReplica /\ UNCHANGED <<fatal, target>>

\* The replica's process dies, or Serve kills one that still loads and that it is no longer asked for:
\* its backend is Ray's to clean up.
Dies(p) ==
  /\ rep[p] # "none" /\ Gone(p, "stray")
  /\ IF p \notin target /\ rep[p] \in {"loading", "starting", "warmup"} THEN NoLoss ELSE Losing
  /\ IF rep[p] = "serving" THEN UNCHANGED <<app, cause>> ELSE ConstructorFails(p, "death")
  /\ OnlyReplica /\ UNCHANGED <<coordVars, target, unheard>>

Worker == Submits \/ ReadsStatus \/ Unreadable \/ Judges \/ Resubmits \/ RollsBack \/ IsDeleted
Replica(p) ==
  \/ StartsReplica(p) \/ Launches(p) \/ Healthy(p) \/ WarmsUp(p) \/ Raises(p) \/ StopsReplica(p)
  \/ Flags(p) \/ Terminates(p) \/ Reports(p) \/ BackendDies(p) \/ BackendEnds(p)
  \/ LeftoversEnd \/ SeesDeath(p) \/ Dies(p)

BringUpNext == Worker \/ \E p \in Replicas : Replica(p)
BringUpSpec == BringUpInit /\ [][BringUpNext]_bringUpVars

-----------------------------------------------------------------------------
(* Properties.                                                               *)

BringUpTypeOK ==
  /\ separate \in BOOLEAN /\ kind \in {"none", "add", "rescale"}
  /\ wk \in {"idle", "polling", "judging", "up", "failed"} /\ retry \in BOOLEAN
  /\ status \in {"none", "DEPLOYING", "RUNNING", "DEPLOY_FAILED"}
  /\ failures \in 0..(MaxTransientFailures - 1) /\ deaths \in 0..DeathCap /\ limit \in 0..DeathCap
  /\ fatal \in BOOLEAN /\ app \in {"none", "deploying", "failed", "running"} /\ target \subseteq Replicas
  /\ rep \in [Replicas -> {"none", "loading", "starting", "warmup", "serving", "teardown", "flagged",
                           "reporting"}]
  /\ error \in [Replicas -> {"none", "transient", "fatal"}]
  /\ child \in [Replicas -> {"none", "up", "dead", "told", "stray", "ended"}] /\ seen \in BOOLEAN
  /\ left \subseteq {"told", "stray", "forgotten"} /\ ceiling \in [Replicas -> 0..Cardinality(Replicas)]
  /\ flag \subseteq Replicas /\ watcher \subseteq Replicas
  /\ requests \in 0..MaxRequests /\ losses \in 0..MaxLosses
  /\ cause \in {"none", "transient", "fatal", "death", "submit"} /\ unheard \in BOOLEAN

(* A replica never leaves a backend behind that it has not told to end: a     *)
(* load that failed is torn down before its constructor raises, a stopped      *)
(* replica before it exits, and one that exits of its backend's death has      *)
(* none.  The process it told may outlive it and fill the GPU for a while, and *)
(* only a replica that is killed, or whose shutdown raised, leaves all to      *)
(* Ray's cleanup (ModelDeployment._graceful_teardown, LlamaServerInfer.        *)
(* shutdown, backend_died).                                                    *)
NoBackendLeft == "forgotten" \notin left

(* The worker judges an app by what really happened: the coordinator counts a *)
(* death only when a backend died on its own, although the process a shutdown *)
(* terminates is seen by the same watcher (_watch_process), and an attempt    *)
(* whose constructor failed for good is not retried, for its report reaches   *)
(* the coordinator before Serve can list the app DEPLOY_FAILED, unless the    *)
(* report itself is lost (_report_load_failure, _failed_attempt).             *)
FailuresToldApart ==
  [][/\ deaths' > deaths => \E p \in Replicas : p \in watcher /\ child[p] = "dead"
     /\ ~retry /\ retry' => cause' # "fatal" \/ unheard]_bringUpVars

\* A new app ran between two polls of its add, and its next replica failed for good: Serve
\* retries it without limit, and _bring_up looks for a fatal error only in an app that is
\* DEPLOY_FAILED.  Or it was deleted before any poll saw it.
Overlooked == kind = "add" /\ \/ app = "running" /\ fatal
                              \/ app = "none" /\ ~seen /\ ~retry

(* Every request to bring up or rescale an app ends, however often its        *)
(* backends die or find the GPU full (_failed_attempt, crash_looping, the     *)
(* pop_fatal_error of _rescale), unless a fatal error or a deletion is        *)
(* overlooked.                                                                *)
EveryBringUpEnds == []<>(wk \notin {"polling", "judging"} \/ Overlooked)

(* A replica whose backend died does not stay: it fails its start or exits,   *)
(* for Serve to replace it (_watch_process, backend_died).                    *)
DeadBackendExits == \A p \in Replicas : []<>(rep[p] = "none" \/ child[p] # "dead")
=============================================================================
