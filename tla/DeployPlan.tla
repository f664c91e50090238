----------------------------- MODULE DeployPlan -----------------------------
(***************************************************************************)
(* One request applied from start to end with nothing in its way: the steps *)
(* Run._apply and Run.execute (deploy/worker.py) take from the diff, in     *)
(* their order, each one letting Serve finish.  It shows what the diff      *)
(* amounts to; module Deploy has the same steps among failures and cancels. *)
(***************************************************************************)
EXTENDS DeployDiff

CONSTANT InitStatuses    \* statuses an app may have when the request starts

ASSUME InitStatusAssumption == InitStatuses \subseteq Status

VARIABLES
  request,    \* the request applied
  committed,  \* the gateway's committed version
  apps,       \* Serve's apps
  before,     \* committed and apps when the request started
  diff,       \* the worker's diff
  step        \* the next step of the worker

planVars == <<request, committed, apps, before, diff, step>>

Order == <<"leftovers", "scale_down", "stop", "deploy", "scale_up", "commit", "retire", "done">>
After(s) == Order[1 + CHOOSE i \in 1..7 : Order[i] = s]

Delete(S) == [a \in App |-> IF a \in S THEN [apps[a] EXCEPT !.status = "absent"] ELSE apps[a]]

\* Submitting leaves every app of R running with the replica-count fields R gives it.
Submit(R) ==
  [a \in App |-> IF \E r \in R : r.app = a
                 THEN [status |-> "running", scaling |-> (CHOOSE r \in R : r.app = a).scaling]
                 ELSE apps[a]]

PlanInit ==
  /\ request \in Request
  /\ committed \in Version \cup {NoVersion}
  /\ apps \in [App -> [status : InitStatuses, scaling : Scalings]]
  /\ before = [committed |-> committed, apps |-> apps]
  /\ diff = build_diff(request, committed, apps)
  /\ step = "leftovers"

Take(s) == step = s /\ step' = After(s) /\ UNCHANGED <<request, before, diff>>

DeleteLeftovers ==
  Take("leftovers") /\ apps' = Delete(diff.leftovers) /\ UNCHANGED committed
\* Mutant: a scale-down deletes the app.
mut_ScaleDown ==
  Take("scale_down") /\ apps' = Delete({r.app : r \in diff.scale_downs}) /\ UNCHANGED committed
ScaleDown ==
  Take("scale_down") /\ apps' = Submit(diff.scale_downs) /\ UNCHANGED committed
Stop ==
  /\ Take("stop")
  /\ apps' = IF request.strategy = "stop_start" THEN Delete(diff.retired) ELSE apps
  /\ UNCHANGED committed
SubmitDeploys ==
  Take("deploy") /\ apps' = Submit(diff.deploys) /\ UNCHANGED committed
\* Mutant: scale-ups are forgotten.
mut_ScaleUp ==
  Take("scale_up") /\ UNCHANGED <<apps, committed>>
ScaleUp ==
  Take("scale_up") /\ apps' = Submit(diff.scale_ups) /\ UNCHANGED committed
SwitchAndCommit ==
  /\ Take("commit")
  /\ committed' = IF diff.commits THEN diff.models ELSE committed
  /\ UNCHANGED apps
Retire ==
  /\ Take("retire")
  /\ apps' = IF request.strategy = "blue_green" THEN Delete(diff.retired) ELSE apps
  /\ UNCHANGED committed
PlanNext ==
  \/ DeleteLeftovers \/ ScaleDown \/ Stop \/ SubmitDeploys
  \/ ScaleUp \/ SwitchAndCommit \/ Retire

PlanSpec == PlanInit /\ [][PlanNext]_planVars

-----------------------------------------------------------------------------
Wanted == IF request.mode = "bare" THEN OrEmpty(before.committed) ELSE request.models

(* What the steps of one diff (worker.py, _apply) add up to: every model the *)
(* request asks for runs on its own app with the requested replica counts,   *)
(* no app is left that the committed version does not name, apps of models   *)
(* an additive request leaves out are as they were, and sending the same     *)
(* config again changes nothing: a second diff (diff.py, build_diff) has no  *)
(* action and writes no version.                                             *)
PlanReachesTarget ==
  step = "done" =>
    LET again == build_diff(request, committed, apps) IN
    /\ \A m \in Has(Wanted) :
         apps[AppOf(Wanted, m)] = [status |-> "running", scaling |-> Wanted[m].scaling]
           \/ /\ apps[AppOf(Wanted, m)] = before.apps[AppOf(Wanted, m)]
              /\ apps[AppOf(Wanted, m)].status = "starting"
              /\ apps[AppOf(Wanted, m)].scaling = Wanted[m].scaling
    /\ \A a \in App : apps[a].status # "absent" => a \in Named(committed)
    /\ \A m \in Has(OrEmpty(committed)) \ Has(Wanted) :
         apps[AppOf(committed, m)] = before.apps[AppOf(committed, m)]
    /\ ~again.commits
    /\ again.leftovers = {} /\ again.retired = {} /\ again.deploys = {}
    /\ again.scale_downs = {} /\ again.scale_ups = {}

\* A rollback at this point (worker.py, roll_back): it deletes what the committed
\* version does not name, then puts back that version's replica counts.
RolledBack ==
  LET back == build_diff(BareRequest, committed, apps)
      kept == Delete(back.leftovers)
      R    == back.scale_downs \cup back.scale_ups
  IN [a \in App |-> IF \E r \in R : r.app = a /\ kept[a].status # "absent"
                    THEN [kept[a] EXCEPT !.scaling = (CHOOSE r \in R : r.app = a).scaling]
                    ELSE kept[a]]

LiveIn(a, serve) == serve[a].status \in {"running", "starting"}

(* blue_green (docs/model-configuration.md:37, "deploy new before dropping   *)
(* old, no request loss"): until the new version is committed every live app *)
(* of the old one stays live, and a rollback after any step leaves the old   *)
(* version's apps alone in Serve, live ones with its replica counts ("gets   *)
(* its scale-downs undone too").                                             *)
RollbackRestores ==
  request.strategy = "blue_green" /\ step \notin {"retire", "done"} =>
    \A a \in App :
      IF a \in Named(before.committed)
      THEN LiveIn(a, before.apps) =>
             /\ LiveIn(a, apps)
             /\ LiveIn(a, RolledBack)
             /\ RolledBack[a].scaling = before.committed[a[1]].scaling
      ELSE RolledBack[a].status = "absent"
=============================================================================
