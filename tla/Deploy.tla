------------------------------- MODULE Deploy -------------------------------
(***************************************************************************)
(* Deploy requests of one gateway: the deploy coordinator's queue, routing   *)
(* versions, cancels and recovery (deploy/deploy_coordinator.py), the worker *)
(* that runs a request or a rollback (deploy/worker.py), the committed       *)
(* version in the state store (deploy/ledger.py), Serve's apps and the       *)
(* gateway replicas that follow the routing.                                 *)
(*                                                                           *)
(* The coordinator is an asyncio actor: what it does between two awaits is   *)
(* one action.  A worker's call to it is in flight from the moment the       *)
(* worker reaches the step that makes it; a worker that dies leaves the call *)
(* behind (late), and the coordinator runs it whenever it arrives.           *)
(***************************************************************************)
EXTENDS DeployDiff, Sequences, FiniteSets

CONSTANTS
  MaxRequests,  \* request ids are 1..MaxRequests, given in submission order
  Inputs,       \* the requests users send
  Replicas,     \* gateway replicas
  Initial,      \* committed versions a cluster may start with
  ServeKept,    \* whether Serve's apps may be there ("kept") or gone ("lost") then
  MaxTries,     \* failed attempts that fail a model (_MAX_TRANSIENT_FAILURES)
  Faults,       \* the kinds of fault a behaviour may have
  MaxFaults     \* how many faults a behaviour may have

FaultKinds ==
  {"worker",        \* the worker's process dies
   "coordinator",   \* the deploy coordinator's process dies and restarts
   "store_read",    \* a read of the committed version raises
   "store_write",   \* the write of a version raises and does not land
   "lost_reply",    \* the write of a version lands and raises
   "recovery_read", \* recovery cannot read Serve's status
   "serve"}         \* an app turns unhealthy, or a rollback's rescale keeps failing

ASSUME BoundAssumption ==
  /\ MaxRequests \in Nat /\ MaxFaults \in Nat /\ MaxTries \in Nat \ {0}
  /\ Inputs \subseteq Request
  /\ Initial \subseteq Version \cup {NoVersion}
  /\ ServeKept \subseteq {"kept", "lost"}
  /\ Faults \subseteq FaultKinds

Requests == 1..MaxRequests
None == 0    \* no request

VARIABLES
  (* _Entry, per request id *)
  input,       \* the request as sent
  rstate,      \* its state
  cancelled,   \* it was cancelled while running
  cancelSeen,  \* the worker was told of the cancel
  switched,    \* the gateway was switched to its models
  outcome,     \* what its wait call returned
  (* the coordinator *)
  queue,       \* _queues
  running,     \* _running
  drain,       \* _drainers: where the drain task is
  recovery,    \* _recovery
  routing,     \* _routing: the seq routed by, an index of routes, 0 when unset
  lock,        \* the request whose commit holds the version lock
  writing,     \* the models that commit writes
  rv,          \* a version routing_versions has read and not yet used
  grace,       \* cancelled requests whose _kill_unless_seen still sleeps
  (* the state store *)
  committed,   \* the gateway's committed version
  (* Serve *)
  apps,        \* its apps of this gateway
  (* the worker *)
  wkind,       \* what it was created for
  wk,          \* its step
  plan,        \* the diff it applies
  left,        \* apps the current step still waits for
  tries,       \* failed attempts per app
  wseq,        \* the routing seq it waits for
  wswitching,  \* _switching, or roll_back's argument
  wresult,     \* the outcome it reports
  late,        \* calls of dead workers still in flight
  (* gateway replicas *)
  routes,      \* every routing so far, by seq
  holds,       \* the seq each replica's table was built from
  (* history *)
  landed,      \* requests whose version write landed
  hurried,     \* a rollback gave up waiting for the replicas or did not run to its end, and since
               \* then no switch was confirmed
  abandoned,   \* the last rollback raised, died, was skipped or gave up on an app's scaling
  faults       \* faults so far

entryVars   == <<input, rstate, cancelled, cancelSeen, switched, outcome>>
coordVars   == <<queue, running, drain, recovery, routing, lock, writing, rv, grace>>
workerVars  == <<wkind, wk, plan, left, tries, wseq, wswitching, wresult, late>>
gatewayVars == <<routes, holds>>
historyVars == <<landed, hurried, abandoned, faults>>
vars == <<entryVars, coordVars, committed, apps, workerVars, gatewayVars, historyVars>>

NoPlan == [leftovers |-> {}, scale_downs |-> {}, deploys |-> {}, scale_ups |-> {},
           retired |-> {}, models |-> NoVersion, commits |-> FALSE]

Fault(kind) == kind \in Faults /\ faults < MaxFaults /\ faults' = faults + 1
NoFault == UNCHANGED faults

Present(S) == {a \in S : apps[a].status # "absent"}
AppsOf(R) == {r.app : r \in R}
RoutedBy(seq) == IF seq = 0 THEN {} ELSE Named(routes[seq])

InitApps(version) ==
  [a \in App |->
     IF a \in Named(version)
     THEN [status |-> "running", scaling |-> version[a[1]].scaling]
     ELSE [status |-> "absent", scaling |-> CHOOSE s \in Scalings : TRUE]]

Init ==
  /\ input = [r \in Requests |-> BareRequest]
  /\ rstate = [r \in Requests |-> "new"]
  /\ cancelled = [r \in Requests |-> FALSE]
  /\ cancelSeen = [r \in Requests |-> FALSE]
  /\ switched = [r \in Requests |-> FALSE]
  /\ outcome = [r \in Requests |-> "none"]
  /\ queue = <<>> /\ running = None /\ drain = "off" /\ recovery = "none"
  /\ routing = 0 /\ lock = None /\ writing = NoVersion /\ rv = <<>> /\ grace = {}
  /\ committed \in Initial
  /\ \E kept \in ServeKept : apps = InitApps(IF kept = "kept" THEN committed ELSE NoVersion)
  /\ wkind = "none" /\ wk = "none" /\ plan = NoPlan /\ left = {}
  /\ tries = [a \in App |-> 0]
  /\ wseq = 0 /\ wswitching = FALSE /\ wresult = "none" /\ late = {}
  /\ routes = <<>> /\ holds = [g \in Replicas |-> 0]
  /\ landed = {} /\ hurried = FALSE /\ abandoned = FALSE /\ faults = 0

-----------------------------------------------------------------------------
(* Users: mship deploy and mship deploy --cancel.                            *)

Submit(r, request) ==
  /\ rstate[r] = "new" /\ \A q \in 1..(r - 1) : rstate[q] # "new"
  /\ input' = [input EXCEPT ![r] = request]
  /\ rstate' = [rstate EXCEPT ![r] = "queued"]
  /\ queue' = Append(queue, r)
  /\ drain' = IF drain = "off" THEN "loop" ELSE drain
  /\ recovery' = IF recovery = "none" THEN "listing" ELSE recovery
  /\ UNCHANGED <<cancelled, cancelSeen, switched, outcome, running, routing, lock,
                 writing, rv, grace, committed, apps, workerVars, gatewayVars, historyVars>>

\* A sequence without its i-th element.
Without(q, i) == [j \in 1..(Len(q) - 1) |-> IF j < i THEN q[j] ELSE q[j + 1]]

CancelQueued(r) ==
  /\ rstate[r] = "queued" /\ outcome[r] = "none"
  /\ \E i \in 1..Len(queue) : queue[i] = r /\ queue' = Without(queue, i)
  /\ outcome' = [outcome EXCEPT ![r] = "cancelled"]
  /\ UNCHANGED <<input, rstate, cancelled, cancelSeen, switched, running, drain, recovery,
                 routing, lock, writing, rv, grace, committed, apps, workerVars,
                 gatewayVars, historyVars>>

(* Refused, changing nothing, in every other state: committing and retiring, *)
(* rolling_back, or once the outcome is known.                               *)
CancelRunning(r) ==
  /\ rstate[r] \in {"applying", "switching"} /\ outcome[r] = "none" /\ ~cancelled[r]
  /\ cancelled' = [cancelled EXCEPT ![r] = TRUE]
  /\ grace' = grace \cup {r}
  /\ UNCHANGED <<input, rstate, cancelSeen, switched, outcome, queue, running, drain,
                 recovery, routing, lock, writing, rv, committed, apps, workerVars,
                 gatewayVars, historyVars>>

-----------------------------------------------------------------------------
(* The coordinator's drain task and recovery.                                *)

NewWorker(kind, step, switching) ==
  /\ wkind' = kind /\ wk' = step /\ wswitching' = switching
  /\ left' = {} /\ wseq' = 0 /\ wresult' = "none" /\ tries' = [a \in App |-> 0]

NoWorker ==
  /\ wkind' = "none" /\ wk' = "none" /\ wswitching' = FALSE /\ plan' = NoPlan
  /\ left' = {} /\ wseq' = 0 /\ wresult' = "none" /\ tries' = [a \in App |-> 0]

\* _drain pops the next request and _apply gives it a worker.
Pick ==
  /\ drain = "loop" /\ recovery = "done" /\ queue # <<>>
  /\ running' = Head(queue) /\ queue' = Tail(queue) /\ drain' = "run"
  /\ rstate' = [rstate EXCEPT ![Head(queue)] = "applying"]
  /\ NewWorker("run", "diff", FALSE)
  /\ UNCHANGED <<input, cancelled, cancelSeen, switched, outcome, recovery, routing, lock,
                 writing, rv, grace, committed, apps, plan, late, gatewayVars, historyVars>>

DrainEnds ==
  /\ drain = "loop" /\ recovery = "done" /\ queue = <<>>
  /\ drain' = "off"
  /\ UNCHANGED <<entryVars, queue, running, recovery, routing, lock, writing, rv, grace,
                 committed, apps, workerVars, gatewayVars, historyVars>>

\* Mutant: the drain task stops after one request.
mut_Ends(result) ==
  /\ outcome' = [outcome EXCEPT ![running] = result]
  /\ running' = None /\ drain' = "off"
  /\ abandoned' = (abandoned \/ wk # "report") /\ hurried' = (hurried \/ wk # "report")
  /\ NoWorker
  /\ UNCHANGED <<input, rstate, cancelled, cancelSeen, switched, queue, recovery, routing,
                 lock, writing, rv, grace, committed, apps, late, gatewayVars, landed,
                 faults>>

Ends(result) ==
  /\ outcome' = [outcome EXCEPT ![running] = result]
  /\ running' = None /\ drain' = "loop"
  /\ abandoned' = (abandoned \/ wk # "report") /\ hurried' = (hurried \/ wk # "report")
  /\ NoWorker
  /\ UNCHANGED <<input, rstate, cancelled, cancelSeen, switched, queue, recovery, routing,
                 lock, writing, rv, grace, committed, apps, late, gatewayVars, landed,
                 faults>>

\* The worker's run returned, or raised something other than its own death.
RunEnds ==
  /\ wkind = "run"
  /\ \/ wk = "report" /\ Ends(wresult)
     \/ wk = "raised" /\ Ends("failed")

\* Mutant: the rollback of a dead worker does not wait for the switch back.
mut_DeathSeen ==
  /\ wkind = "run" /\ wk = "dead"
  /\ rstate' = [rstate EXCEPT ![running] =
                  IF @ \in {"committing", "retiring"} THEN @ ELSE "rolling_back"]
  /\ drain' = "rollback"
  /\ NewWorker("rollback", "rb_reset", FALSE)
  /\ UNCHANGED <<input, cancelled, cancelSeen, switched, outcome, queue, running, recovery,
                 routing, lock, writing, rv, grace, committed, apps, plan, late,
                 gatewayVars, historyVars>>

\* RayActorError: a new worker rolls the gateway back.
DeathSeen ==
  /\ wkind = "run" /\ wk = "dead"
  /\ rstate' = [rstate EXCEPT ![running] =
                  IF @ \in {"committing", "retiring"} THEN @ ELSE "rolling_back"]
  /\ drain' = "rollback"
  /\ NewWorker("rollback", "rb_reset", switched[running] /\ rstate[running] # "retiring")
  /\ UNCHANGED <<input, cancelled, cancelSeen, switched, outcome, queue, running, recovery,
                 routing, lock, writing, rv, grace, committed, apps, plan, late,
                 gatewayVars, historyVars>>

\* Mutant: a dead worker always fails its request.
mut_RollbackEnds ==
  /\ wkind = "rollback" /\ wk \in {"report", "raised", "dead"}
  /\ Ends(IF cancelled[running] THEN "cancelled" ELSE "failed")

\* That rollback returned, raised or died; the outcome follows the request's state.
RollbackEnds ==
  /\ wkind = "rollback" /\ wk \in {"report", "raised", "dead"}
  /\ Ends(IF rstate[running] = "retiring" THEN "succeeded"
          ELSE IF cancelled[running] THEN "cancelled" ELSE "failed")

\* routing_versions, which the gateway coordinator calls on every pass.
StartRecovery ==
  /\ recovery = "none"
  /\ recovery' = "listing"
  /\ UNCHANGED <<entryVars, queue, running, drain, routing, lock, writing, rv, grace,
                 committed, apps, workerVars, gatewayVars, historyVars>>

\* It reads the committed version outside the lock, and uses it after the await.
ReadVersion ==
  /\ recovery # "none" /\ routing = 0 /\ rv = <<>>
  /\ rv' = <<committed>>
  /\ UNCHANGED <<entryVars, queue, running, drain, recovery, routing, lock, writing, grace,
                 committed, apps, workerVars, gatewayVars, historyVars>>

\* Mutant: the seq runs ahead of the routings.
mut_Route(models) == routes' = Append(routes, models) /\ routing' = Len(routes) + 2

Route(models) == routes' = Append(routes, models) /\ routing' = Len(routes) + 1

UseVersion ==
  /\ rv # <<>> /\ rv' = <<>>
  /\ IF routing = 0 THEN Route(rv[1]) ELSE UNCHANGED <<routes, routing>>
  /\ UNCHANGED <<entryVars, queue, running, drain, recovery, lock, writing, grace,
                 committed, apps, workerVars, holds, historyVars>>

\* Mutant: recovery leaves the apps it finds alone.
mut_Recover ==
  /\ recovery = "listing" /\ recovery' = "done"
  /\ UNCHANGED <<entryVars, queue, running, drain, routing, lock, writing, rv, grace,
                 committed, apps, workerVars, gatewayVars, historyVars>>

\* _recover: a gateway with model apps is rolled back, another is left alone.
Recover ==
  /\ recovery = "listing"
  /\ \/ /\ Present(App) # {} /\ NoFault /\ UNCHANGED <<abandoned, hurried>>
        /\ recovery' = "rolling" /\ NewWorker("recovery", "rb_reset", TRUE)
     \/ /\ \/ Present(App) = {} /\ NoFault /\ UNCHANGED <<abandoned, hurried>>
           \/ Fault("recovery_read") /\ abandoned' = TRUE /\ hurried' = TRUE
        /\ recovery' = "done" /\ UNCHANGED <<wkind, wk, wswitching, left, wseq, wresult, tries>>
  /\ UNCHANGED <<entryVars, queue, running, drain, routing, lock, writing, rv, grace,
                 committed, apps, plan, late, gatewayVars, landed>>

RecoveryEnds ==
  /\ wkind = "recovery" /\ wk \in {"report", "raised", "dead"}
  /\ recovery' = "done" /\ NoWorker
  /\ abandoned' = (abandoned \/ wk # "report") /\ hurried' = (hurried \/ wk # "report")
  /\ UNCHANGED <<entryVars, queue, running, drain, routing, lock, writing, rv, grace,
                 committed, apps, late, gatewayVars, landed, faults>>

-----------------------------------------------------------------------------
(* Calls a worker makes that change the coordinator's state.                 *)

Call(op) == [op |-> op, r |-> running, models |-> plan.models]

InFlight ==
  late \cup IF wkind = "run" /\ wk \in {"switch", "commit", "rb_mark"} THEN {Call(wk)} ELSE {}

\* The answer to call c takes a live worker to its next step.
Answer(c, step) ==
  IF c \in late THEN late' = late \ {c} /\ UNCHANGED wk
                ELSE wk' = step /\ UNCHANGED late

\* _running_entry
Accepts(c) == running = c.r /\ rstate[c.r] # "rolling_back"

Switch(c) ==
  /\ c \in InFlight /\ c.op = "switch" /\ Accepts(c)
  /\ rstate' = [rstate EXCEPT ![c.r] = "switching"]
  /\ switched' = [switched EXCEPT ![c.r] = TRUE]
  /\ Route(c.models)
  /\ Answer(c, "confirm")
  /\ IF c \in late THEN UNCHANGED <<wseq, wswitching>>
                    ELSE wseq' = Len(routes) + 1 /\ wswitching' = TRUE
  /\ UNCHANGED <<input, cancelled, cancelSeen, outcome, queue, running, drain, recovery, lock,
                 writing, rv, grace, committed, apps, wkind, plan, left, tries, wresult,
                 holds, historyVars>>

\* commit of a cancelled request writes nothing and returns None.
CommitCancelled(c) ==
  /\ c \in InFlight /\ c.op = "commit" /\ Accepts(c) /\ cancelled[c.r]
  /\ Answer(c, "rb_mark")
  /\ wresult' = IF c \in late THEN wresult ELSE "cancelled"
  /\ UNCHANGED <<entryVars, coordVars, committed, apps, wkind, plan, left, tries, wseq,
                 wswitching, gatewayVars, historyVars>>

\* Mutant: a cancel is not looked at again before the write.
mut_CommitStarts(c) ==
  /\ c \in InFlight /\ c.op = "commit" /\ Accepts(c)
  /\ rstate' = [rstate EXCEPT ![c.r] = "committing"]
  /\ lock' = c.r /\ writing' = c.models
  /\ Answer(c, "committing")
  /\ UNCHANGED <<input, cancelled, cancelSeen, switched, outcome, queue, running, drain,
                 recovery, routing, rv, grace, committed, apps, wkind, plan, left, tries,
                 wseq, wswitching, wresult, gatewayVars, historyVars>>

\* No other commit holds the lock then: the request's diff waited for it.
CommitStarts(c) ==
  /\ c \in InFlight /\ c.op = "commit" /\ Accepts(c) /\ ~cancelled[c.r]
  /\ rstate' = [rstate EXCEPT ![c.r] = "committing"]
  /\ lock' = c.r /\ writing' = c.models
  /\ Answer(c, "committing")
  /\ UNCHANGED <<input, cancelled, cancelSeen, switched, outcome, queue, running, drain,
                 recovery, routing, rv, grace, committed, apps, wkind, plan, left, tries,
                 wseq, wswitching, wresult, gatewayVars, historyVars>>

Retired == IF input[running].strategy = "blue_green" THEN plan.retired ELSE {}

\* The write landed: the commit goes on, whoever still waits for it.
CommitLands ==
  /\ lock # None
  /\ committed' = writing /\ landed' = landed \cup {lock}
  /\ rstate' = [rstate EXCEPT ![lock] = "retiring"]
  /\ lock' = None /\ writing' = NoVersion
  /\ IF wk = "committing"
     THEN wk' = "retire" /\ left' = Retired /\ wswitching' = FALSE
     ELSE UNCHANGED <<wk, left, wswitching>>
  /\ UNCHANGED <<input, cancelled, cancelSeen, switched, outcome, queue, running, drain,
                 recovery, routing, rv, grace, apps, wkind, plan, tries, wseq, wresult, late,
                 gatewayVars, hurried, abandoned, faults>>

\* commit_version raised; the write may still have landed.
CommitFails ==
  /\ lock # None
  /\ \/ Fault("store_write") /\ UNCHANGED <<committed, landed>>
     \/ Fault("lost_reply") /\ committed' = writing /\ landed' = landed \cup {lock}
  /\ lock' = None /\ writing' = NoVersion
  /\ IF wk = "committing" THEN wk' = "rb_mark" /\ wresult' = "failed"
                          ELSE UNCHANGED <<wk, wresult>>
  /\ UNCHANGED <<entryVars, queue, running, drain, recovery, routing, rv, grace, apps, wkind,
                 plan, left, tries, wseq, wswitching, late, gatewayVars, hurried, abandoned>>

\* rolling_back: marks the request, when it is the running one.
RollingBack(c) ==
  /\ c \in InFlight /\ c.op = "rb_mark"
  /\ rstate' = IF running = c.r THEN [rstate EXCEPT ![c.r] = "rolling_back"] ELSE rstate
  /\ Answer(c, "rb_reset")
  /\ UNCHANGED <<input, cancelled, cancelSeen, switched, outcome, coordVars, committed, apps,
                 wkind, plan, left, tries, wseq, wswitching, wresult, gatewayVars, historyVars>>

\* A call that _running_entry refuses: only a dead worker's can come that late.
Refuse(c) ==
  /\ c \in late /\ c.op \in {"switch", "commit"} /\ ~Accepts(c)
  /\ late' = late \ {c}
  /\ UNCHANGED <<entryVars, coordVars, committed, apps, wkind, wk, plan, left, tries, wseq,
                 wswitching, wresult, gatewayVars, historyVars>>

\* reset_routing, called by a rollback: a new seq only when the models differ.
ResetRouting ==
  /\ wk = "rb_reset"
  /\ \/ /\ lock = None /\ NoFault
        /\ IF routing = 0 \/ routes[routing] # committed
           THEN Route(committed) /\ wseq' = Len(routes) + 1
           ELSE UNCHANGED <<routes, routing>> /\ wseq' = routing
        /\ wk' = IF wswitching THEN "rb_confirm" ELSE "rb_diff"
     \/ /\ lock = None /\ Fault("store_read")
        /\ wk' = "raised" /\ UNCHANGED <<routes, routing, wseq>>
  /\ UNCHANGED <<entryVars, queue, running, drain, recovery, lock, writing, rv, grace,
                 committed, apps, wkind, plan, left, tries, wswitching, wresult, late, holds,
                 landed, hurried, abandoned>>

-----------------------------------------------------------------------------
(* The worker's own steps.                                                   *)

WorkerOnly ==   \* a step that touches neither the coordinator nor the store
  UNCHANGED <<entryVars, coordVars, committed, late, gatewayVars, landed, abandoned, faults>>

AfterWait ==
  [downs_wait |-> "stop", deploy_wait |-> "ups",
   ups_wait |-> IF plan.commits THEN "switch" ELSE "retire"]

\* Steps whose polls ask is_cancelled before they read Serve.
Polls == {"diff", "leftovers", "downs_wait", "stop", "deploy_wait", "ups_wait"}
Polling ==
  /\ wkind = "run" /\ wk \in Polls
  /\ wk \in DOMAIN AfterWait => left # {}
  /\ wk = "stop" => input[running].strategy = "stop_start"

\* is_cancelled: the worker learns of the cancel and turns to its rollback.
SeesCancel ==
  /\ Polling /\ cancelled[running]
  /\ cancelSeen' = [cancelSeen EXCEPT ![running] = TRUE]
  /\ wk' = "rb_mark" /\ wresult' = "cancelled" /\ left' = {}
  /\ UNCHANGED <<input, rstate, cancelled, switched, outcome, coordVars, committed, apps, wkind,
                 plan, tries, wseq, wswitching, late, gatewayVars, historyVars>>

Unwarned == Polling => ~cancelled[running]

\* Run._diff: the committed version under the lock, then Serve's apps.
ComputeDiff ==
  /\ wkind = "run" /\ wk = "diff" /\ lock = None /\ Unwarned
  /\ plan' = build_diff(input[running], committed, apps)
  /\ wk' = "sources"
  /\ WorkerOnly /\ UNCHANGED <<apps, wkind, left, tries, wseq, wswitching, wresult, hurried>>

SourcesResolved ==
  /\ wk = "sources"
  /\ wk' = "leftovers" /\ left' = plan.leftovers
  /\ WorkerOnly /\ UNCHANGED <<apps, wkind, plan, tries, wseq, wswitching, wresult, hurried>>

Stopped == IF input[running].strategy = "stop_start" THEN plan.retired ELSE {}

AfterDelete == [leftovers |-> "downs", stop |-> "deploy", retire |-> "report", rb_delete |-> "rb_scale"]

\* delete_apps: one poll.  Serve may refuse some of the deletes; they are retried.
DeletePoll ==
  /\ wk \in DOMAIN AfterDelete /\ Unwarned
  /\ IF Present(left) = {}
     THEN /\ wk' = AfterDelete[wk] /\ left' = {}
          /\ wresult' = IF wk = "retire" THEN "succeeded" ELSE wresult
          /\ UNCHANGED apps
     ELSE \E S \in SUBSET {a \in Present(left) : apps[a].status # "deleting"} :
            /\ apps' = [a \in App |-> IF a \in S THEN [apps[a] EXCEPT !.status = "deleting"] ELSE apps[a]]
            /\ left' = Present(left)
            /\ UNCHANGED <<wk, wresult>>
  /\ WorkerOnly /\ UNCHANGED <<wkind, plan, tries, wseq, wswitching, hurried>>

Resubmitted(R) ==
  [a \in App |-> IF a \in AppsOf(R)
                 THEN [status |-> "starting", scaling |-> (CHOOSE r \in R : r.app = a).scaling]
                 ELSE apps[a]]

Rescales(step) == IF step = "downs" THEN plan.scale_downs ELSE plan.scale_ups
AfterSubmit == [downs |-> "downs_wait", ups |-> "ups_wait", deploy |-> "deploy_wait"]

\* _rescale re-submits the live apps; one that is gone or raises fails the request.
SubmitRescales ==
  /\ wk \in {"downs", "ups"}
  /\ \E R \in SUBSET Rescales(wk) :
       /\ \A r \in R : apps[r.app].status # "absent"
       /\ apps' = Resubmitted(R)
       /\ IF R = Rescales(wk)
          THEN wk' = AfterSubmit[wk] /\ left' = AppsOf(R) /\ UNCHANGED wresult
          ELSE wk' = "rb_mark" /\ left' = {} /\ wresult' = "failed"
  /\ WorkerOnly /\ UNCHANGED <<wkind, plan, tries, wseq, wswitching, hurried>>

\* _bring_up submits every new app.
SubmitDeploys ==
  /\ wk = "deploy"
  /\ apps' = Resubmitted(plan.deploys)
  /\ wk' = "deploy_wait" /\ left' = AppsOf(plan.deploys)
  /\ WorkerOnly /\ UNCHANGED <<wkind, plan, tries, wseq, wswitching, wresult, hurried>>

\* A poll finds an app RUNNING, or nothing left to wait for.
Up ==
  /\ wk \in DOMAIN AfterWait /\ Unwarned
  /\ \/ /\ left = {}
        /\ wk' = AfterWait[wk]
        /\ left' = CASE wk' = "stop" -> Stopped
                     [] wk' = "retire" -> Retired
                     [] OTHER -> {}
     \/ /\ \E a \in left : apps[a].status = "running" /\ left' = left \ {a}
        /\ UNCHANGED wk
  /\ WorkerOnly /\ UNCHANGED <<apps, wkind, plan, tries, wseq, wswitching, wresult, hurried>>

\* _failed_attempt: another attempt, unless it was the last one.
Retry(a) ==
  /\ wk = "deploy_wait" /\ a \in left /\ apps[a].status = "failed"
  /\ tries' = [tries EXCEPT ![a] = @ + 1]
  /\ IF tries[a] + 1 < MaxTries
     THEN /\ apps' = [apps EXCEPT ![a].status = "starting"] /\ UNCHANGED <<wk, wresult, left>>
     ELSE wk' = "rb_mark" /\ wresult' = "failed" /\ left' = {} /\ UNCHANGED apps
  /\ WorkerOnly /\ UNCHANGED <<wkind, plan, wseq, wswitching, hurried>>

\* Mutant: the seq of the published table is enough, whatever the replicas hold.
mut_AllHold(seq) == Len(routes) = seq

AllHold(seq) == \A g \in Replicas : holds[g] = seq

\* wait_switched is true once every replica reports the seq.
Confirmed ==
  /\ AllHold(wseq)
  /\ \/ wk = "confirm" /\ wk' = "commit"
     \/ wk = "rb_confirm" /\ wk' = "rb_diff"
  /\ hurried' = FALSE
  /\ WorkerOnly /\ UNCHANGED <<apps, wkind, plan, left, tries, wseq, wswitching, wresult>>

\* A switch that is not confirmed in time fails; a switch back goes on regardless.
ConfirmTimesOut ==
  /\ ~AllHold(wseq)
  /\ \/ wk = "confirm" /\ wk' = "rb_mark" /\ wresult' = "failed" /\ UNCHANGED hurried
     \/ wk = "rb_confirm" /\ wk' = "rb_diff" /\ hurried' = TRUE /\ UNCHANGED wresult
  /\ WorkerOnly /\ UNCHANGED <<apps, wkind, plan, left, tries, wseq, wswitching>>

(* A source that cannot be resolved, Serve unreadable for too long, a fatal  *)
(* load error, a backend that keeps dying, an app deleted by someone else.   *)
Fails ==
  /\ Polling \/ (wk = "sources" /\ plan.deploys # {})
  /\ wk' = "rb_mark" /\ wresult' = "failed" /\ left' = {}
  /\ WorkerOnly /\ UNCHANGED <<apps, wkind, plan, tries, wseq, wswitching, hurried>>

\* roll_back: what the committed version does not name goes.
RollbackDiff ==
  /\ wk = "rb_diff" /\ lock = None
  /\ \/ /\ NoFault /\ plan' = build_diff(BareRequest, committed, apps)
        /\ left' = plan'.leftovers /\ wk' = "rb_delete"
     \/ Fault("store_read") /\ wk' = "raised" /\ UNCHANGED <<plan, left>>
  /\ UNCHANGED <<entryVars, coordVars, committed, late, gatewayVars, landed, hurried, abandoned,
                 apps, wkind, tries, wseq, wswitching, wresult>>

\* restore_scaling; an app that keeps failing is given up on.
RestoreScaling ==
  /\ wk = "rb_scale" /\ wk' = "report"
  /\ LET R == {r \in plan.scale_downs \cup plan.scale_ups : apps[r.app].status # "absent"}
     IN \/ NoFault /\ apps' = Resubmitted(R) /\ abandoned' = FALSE
        \/ /\ Fault("serve") /\ abandoned' = TRUE
           /\ \E S \in SUBSET R : apps' = Resubmitted(S)
  /\ UNCHANGED <<entryVars, coordVars, committed, late, gatewayVars, landed, hurried,
                 wkind, plan, left, tries, wseq, wswitching, wresult>>

Die == wk' = "dead" /\ late' = InFlight

WorkerDies ==
  /\ wk \notin {"none", "dead"} /\ Fault("worker") /\ Die
  /\ UNCHANGED <<entryVars, coordVars, committed, apps, wkind, plan, left, tries, wseq,
                 wswitching, wresult, gatewayVars, landed, hurried, abandoned>>

\* _kill_unless_seen, once the grace has passed.
KillUnlessSeen(r) ==
  /\ r \in grace /\ grace' = grace \ {r}
  /\ IF /\ ~cancelSeen[r] /\ rstate[r] # "rolling_back" /\ outcome[r] = "none"
        /\ running = r /\ wkind = "run" /\ wk # "dead"
     THEN Die ELSE UNCHANGED <<wk, late>>
  /\ UNCHANGED <<entryVars, queue, running, drain, recovery, routing, lock, writing, rv,
                 committed, apps, wkind, plan, left, tries, wseq, wswitching, wresult,
                 gatewayVars, historyVars>>

(* The coordinator's process dies: its memory goes, its worker with it (Ray  *)
(* ends an actor whose owner died) and the calls in flight; a version write  *)
(* may or may not have landed.                                               *)
CoordinatorDies ==
  /\ Fault("coordinator")
  /\ LET lost == {r \in Requests : rstate[r] # "new" /\ outcome[r] = "none"} IN
     /\ rstate' = [r \in Requests |-> IF r \in lost THEN "lost" ELSE rstate[r]]
     /\ outcome' = [r \in Requests |-> IF r \in lost THEN "lost" ELSE outcome[r]]
  /\ queue' = <<>> /\ running' = None /\ drain' = "off" /\ recovery' = "none"
  /\ routing' = 0 /\ lock' = None /\ writing' = NoVersion /\ rv' = <<>> /\ grace' = {}
  /\ \/ lock # None /\ committed' = writing /\ landed' = landed \cup {lock}
     \/ UNCHANGED <<committed, landed>>
  /\ NoWorker /\ late' = {}
  /\ UNCHANGED <<input, cancelled, cancelSeen, switched, apps, gatewayVars, hurried, abandoned>>

-----------------------------------------------------------------------------
(* Serve and the gateway replicas, as far as a deploy sees them.             *)

Becomes(a, from, to) ==
  /\ apps[a].status = from /\ apps' = [apps EXCEPT ![a].status = to]
  /\ UNCHANGED <<entryVars, coordVars, committed, workerVars, gatewayVars, landed, hurried,
                 abandoned>>

AppStarts(a) == NoFault /\ Becomes(a, "starting", "running")
AppGone(a)   == NoFault /\ Becomes(a, "deleting", "absent")
\* Serve reports DEPLOY_FAILED for a new app only.
AppFails(a)  == NoFault /\ a \in AppsOf(plan.deploys) /\ Becomes(a, "starting", "failed")
AppSickens(a) == Fault("serve") /\ Becomes(a, "running", "starting")

\* A replica takes a table built from a later routing; it never goes back.
ReplicaFollows(g) ==
  /\ \E seq \in (holds[g] + 1)..Len(routes) : holds' = [holds EXCEPT ![g] = seq]
  /\ UNCHANGED <<entryVars, coordVars, committed, apps, workerVars, routes, historyVars>>

-----------------------------------------------------------------------------
Users == \E r \in Requests :
  (\E request \in Inputs : Submit(r, request)) \/ CancelQueued(r) \/ CancelRunning(r)

Coordinator ==
  \/ Pick \/ DrainEnds \/ RunEnds \/ DeathSeen \/ RollbackEnds
  \/ StartRecovery \/ ReadVersion \/ UseVersion \/ Recover \/ RecoveryEnds
  \/ \E c \in InFlight : \/ Switch(c) \/ CommitCancelled(c) \/ CommitStarts(c)
                          \/ RollingBack(c) \/ Refuse(c)
  \/ CommitLands \/ ResetRouting
  \/ \E r \in Requests : KillUnlessSeen(r)

Worker ==
  \/ ComputeDiff \/ SourcesResolved \/ DeletePoll \/ SubmitRescales \/ SubmitDeploys
  \/ Up \/ (\E a \in App : Retry(a)) \/ Confirmed \/ SeesCancel
  \/ RollbackDiff \/ RestoreScaling

Trouble == ConfirmTimesOut \/ Fails \/ CommitFails \/ WorkerDies \/ CoordinatorDies

Serve == \E a \in App : AppStarts(a) \/ AppGone(a) \/ AppFails(a) \/ AppSickens(a)

Gateway == \E g \in Replicas : ReplicaFollows(g)

Next == Users \/ Coordinator \/ Worker \/ Trouble \/ Serve \/ Gateway

Spec == Init /\ [][Next]_vars

(* Fairness: the cluster does not stop while it can go on.  The event loop   *)
(* runs what is ready, Ray delivers calls, Serve finishes starts and deletes *)
(* and a live replica's watch loop polls.  Nothing is assumed of users or of *)
(* faults, nor that any of these comes before another.                       *)
Fairness ==
  WF_vars(Coordinator \/ Worker \/ Gateway \/ \E a \in App : AppStarts(a) \/ AppGone(a))

FairSpec == Spec /\ Fairness

-----------------------------------------------------------------------------
Steps ==
  {"none", "diff", "sources", "leftovers", "downs", "downs_wait", "stop", "deploy",
   "deploy_wait", "ups", "ups_wait", "switch", "confirm", "commit", "committing", "retire",
   "rb_mark", "rb_reset", "rb_confirm", "rb_diff", "rb_delete", "rb_scale", "report",
   "raised", "dead"}
Outcomes == {"none", "succeeded", "failed", "cancelled", "lost"}
States == {"new", "queued", "applying", "switching", "committing", "retiring",
           "rolling_back", "lost"}
CallType == [op : {"switch", "commit", "rb_mark"}, r : Requests, models : Version \cup {NoVersion}]

EntryType ==
  /\ input \in [Requests -> Request]
  /\ rstate \in [Requests -> States]
  /\ cancelled \in [Requests -> BOOLEAN] /\ cancelSeen \in [Requests -> BOOLEAN]
  /\ switched \in [Requests -> BOOLEAN]
  /\ outcome \in [Requests -> Outcomes]

CoordinatorType ==
  /\ queue \in Seq(Requests) /\ running \in Requests \cup {None}
  /\ drain \in {"off", "loop", "run", "rollback"}
  /\ recovery \in {"none", "listing", "rolling", "done"}
  /\ lock \in Requests \cup {None} /\ writing \in Version \cup {NoVersion}
  /\ rv \in Seq(Version \cup {NoVersion}) /\ grace \subseteq Requests
  /\ committed \in Version \cup {NoVersion}

ServeType == apps \in [App -> ServeApp]

WorkerType ==
  /\ wkind \in {"none", "run", "rollback", "recovery"} /\ wk \in Steps
  /\ plan \in Diff /\ left \subseteq App /\ tries \in [App -> Nat]
  /\ wseq \in Nat /\ wswitching \in BOOLEAN /\ wresult \in Outcomes
  /\ late \subseteq CallType

GatewayType ==
  /\ routes \in Seq(Version \cup {NoVersion}) /\ routing \in 0..Len(routes)
  /\ holds \in [Replicas -> Nat]

HistoryType ==
  /\ landed \subseteq Requests /\ hurried \in BOOLEAN /\ abandoned \in BOOLEAN
  /\ faults \in Nat

\* Type invariant.
TypeOK ==
  /\ EntryType /\ CoordinatorType /\ ServeType /\ WorkerType /\ GatewayType /\ HistoryType

(* A cancel and a commit exclude each other: once cancel() has answered that  *)
(* a running request is being cancelled, that request's version never reaches *)
(* the store, whatever its worker, its grace timer or a late call does.       *)
CancelExcludesCommit ==
  \A r \in Requests : cancelled[r] \/ outcome[r] = "cancelled" => r \notin landed

(* The outcome tells what the store holds: a request that switched the        *)
(* gateway succeeded only if its version landed, and a failed or cancelled    *)
(* one wrote nothing (_apply decides it after the rollback of a dead worker). *)
OutcomeMatchesLedger ==
  \A r \in Requests :
    /\ outcome[r] = "succeeded" /\ switched[r] => r \in landed
    /\ outcome[r] \in {"failed", "cancelled"} => r \notin landed

Quiet == drain \in {"off", "loop"} /\ recovery = "done" /\ wk = "none"

(* Between requests the gateway routes by its committed version, Serve holds  *)
(* no app that version does not name, and its live apps have that version's   *)
(* replica counts: what a failure, a cancel, a dead worker or a coordinator   *)
(* restart left behind is gone (All or nothing, docs/architecture.md:32), a   *)
(* rescale included (docs/model-configuration.md:202), as long as the last    *)
(* rollback ran to its end.                                                   *)
QuietIsCommitted ==
  Quiet /\ ~abandoned =>
    /\ routing # 0 => routes[routing] = committed
    /\ Present(App) \subseteq Named(committed)
    /\ \A a \in Named(committed) :
         apps[a].status \in {"starting", "running"} => apps[a].scaling = committed[a[1]].scaling

Deleted(a) == apps[a].status # "deleting" /\ apps'[a].status = "deleting"

(* delete_apps never touches an app of the committed version (not from a diff *)
(* computed before a commit landed, not in a rollback that overlaps one), nor  *)
(* one a gateway replica still routes to: except in stop_start's own step, and *)
(* for routed apps after a rollback that gave up waiting for the switch back   *)
(* or did not run to its end, until a later switch is confirmed.               *)
DeletesOnlySpare ==
  [][\A a \in App : Deleted(a) =>
       \/ wk = "stop"
       \/ /\ a \notin Named(committed)
          /\ hurried \/ \A g \in Replicas : a \notin RoutedBy(holds[g])]_vars

InTurn(r) == outcome[r] = "none" /\ \A q \in 1..(r - 1) : outcome[q] # "none"
ModelsRun(r) ==
  \A m \in Has(input[r].models) : LET app == AppOf(input[r].models, m) IN
    apps[app].status \in IF app \in Named(committed) THEN {"starting", "running"} ELSE {"running"}
ReplicasTold == \A g \in Replicas : RoutedBy(holds[g]) = Named(committed')

(* A gateway's versions are committed in the order its requests were sent, no *)
(* version while an earlier request is undecided nor after its own was, and   *)
(* only once each model the request asks for runs in its new deployment, or   *)
(* has a live one that it keeps, and every gateway replica routes by it       *)
(* (docs/architecture.md:32).                                                 *)
CommitsSound == [][\A r \in landed' \ landed : InTurn(r) /\ ModelsRun(r) /\ ReplicasTold]_vars

(* Every queued request gets an outcome: a gateway's queue never stops, even  *)
(* if workers die or are killed on the way.                                   *)
EveryRequestEnds ==
  \A r \in Requests : rstate[r] = "queued" ~> outcome[r] # "none"
=============================================================================
