----------------------------- MODULE DeployDiff -----------------------------
(***************************************************************************)
(* The pure part of a deploy: what a request changes (deploy/diff.py) and   *)
(* what it commits (deploy/ledger.py, merge).                               *)
(*                                                                          *)
(* A model's config is a variant, which names its Serve app together with   *)
(* the model (deployment_name), and its replica-count fields, which do not. *)
(* A version maps every model to its config, or to Absent.                  *)
(***************************************************************************)
EXTENDS Naturals

CONSTANTS
  Models,      \* model names of the one gateway modelled
  Variants,    \* configs of a model that give it different apps
  Scalings,    \* replica-count fields: [auto, min, max]
  Absent,      \* the model is not in the version
  NoVersion    \* the gateway has no committed version

ASSUME ScalingAssumption ==
  Scalings # {} /\ Scalings \subseteq [auto : BOOLEAN, min : Nat, max : Nat]

Config  == [variant : Variants, scaling : Scalings]

ASSUME SentinelAssumption ==
  /\ Absent \notin Config
  /\ NoVersion \notin [Models -> Config \cup {Absent}]

Version == [Models -> Config \cup {Absent}]
NoModels == [m \in Models |-> Absent]

App == Models \X Variants

(* RUNNING, DEPLOY_FAILED and DELETING as Serve reports them; "starting"    *)
(* stands for every other live status, "absent" for an app Serve lacks.     *)
Status == {"absent", "starting", "running", "failed", "deleting"}
ServeApp == [status : Status, scaling : Scalings]

Modes == {"additive", "reconcile", "bare"}
Strategies == {"blue_green", "stop_start"}
Request == [mode : Modes, strategy : Strategies, models : Version]

-----------------------------------------------------------------------------
Has(version) == {m \in Models : version[m] # Absent}
AppOf(version, m) == <<m, version[m].variant>>

\* The apps a version names (Version.apps); none without a version.
Named(version) ==
  IF version = NoVersion THEN {}
  ELSE {AppOf(version, m) : m \in Has(version)}

OrEmpty(version) == IF version = NoVersion THEN NoModels ELSE version

\* reconcile replaces the committed set, additive replaces by model name.
merge(committed, input, mode) ==
  IF mode = "reconcile" THEN input
  ELSE [m \in Models |-> IF input[m] # Absent THEN input[m] ELSE committed[m]]

-----------------------------------------------------------------------------
NotLive == {"failed", "deleting"}

Rises(have, want) == want.min > have.min \/ want.max > have.max

Shrinks(old, want) ==
  /\ old.status \notin NotLive \cup {"absent"}
  /\ <<want.min, want.max>> # <<old.scaling.min, old.scaling.max>>
  /\ ~Rises(old.scaling, want)

Rescale(app, scaling) == [app |-> app, scaling |-> scaling]

(* The diff of a request against the committed version and Serve's apps.    *)
build_diff(request, committed, apps) ==
  LET current  == OrEmpty(committed)
      wanted   == IF request.mode = "bare" THEN current ELSE request.models
      proposed == merge(current, request.models, request.mode)
      commits  == /\ request.mode # "bare"
                  /\ committed = NoVersion \/ proposed # committed
      both     == Has(wanted) \cap Has(current)
      added    == Has(wanted) \ Has(current)
      replaced == {m \in both : AppOf(wanted, m) # AppOf(current, m)}
      held     == [m \in both |-> apps[AppOf(wanted, m)]]
      redeploy == {m \in both \ replaced :
                     held[m].status \in NotLive \cup {"absent"}}
      rescaled == {m \in both \ (replaced \cup redeploy) :
                     held[m].scaling # wanted[m].scaling}
      rising   == {m \in rescaled : Rises(held[m].scaling, wanted[m].scaling)}
      removed  == IF request.mode = "reconcile"
                  THEN Has(current) \ Has(wanted) ELSE {}
      shrunk   == {m \in replaced :
                     /\ request.strategy = "blue_green"
                     /\ Shrinks(apps[AppOf(current, m)], wanted[m].scaling)}
      change(v, S) == {Rescale(AppOf(v, m), wanted[m].scaling) : m \in S}
  IN [leftovers   |-> {a \in App : apps[a].status # "absent"} \ Named(committed),
      scale_downs |-> change(wanted, rescaled \ rising)
                        \cup change(current, shrunk),
      deploys     |-> change(wanted, added \cup replaced \cup redeploy),
      scale_ups   |-> change(wanted, rising),
      retired     |-> {AppOf(current, m) : m \in replaced \cup removed},
      models      |-> IF commits THEN proposed ELSE committed,
      commits     |-> commits]

\* What a rollback asks for: nothing but the committed version.
BareRequest == [mode |-> "bare", strategy |-> "blue_green", models |-> NoModels]

Diff == [leftovers : SUBSET App,
         scale_downs : SUBSET [app : App, scaling : Scalings],
         deploys : SUBSET [app : App, scaling : Scalings],
         scale_ups : SUBSET [app : App, scaling : Scalings],
         retired : SUBSET App,
         models : Version \cup {NoVersion},
         commits : BOOLEAN]
=============================================================================
