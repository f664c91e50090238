------------------------------ MODULE MCDeploy ------------------------------
(* Instances of Deploy for TLC.                                              *)
EXTENDS Deploy

Fixed(n) == [auto |-> FALSE, min |-> n, max |-> n]
OneScaling == {Fixed(1)}
TwoScalings == {Fixed(1), Fixed(2)}

CONSTANTS m1, m2, x, y

On(variant, scaling) == [m \in Models |-> [variant |-> variant, scaling |-> scaling]]
Ask(mode, strategy, models) == [mode |-> mode, strategy |-> strategy, models |-> models]

Only(m, variant, scaling) ==
  [k \in Models |-> IF k = m THEN [variant |-> variant, scaling |-> scaling] ELSE Absent]

FromX == {On(x, Fixed(1))}
Replace == {Ask("reconcile", "blue_green", On(y, Fixed(1)))}
Bare == {Ask("bare", "blue_green", NoModels)}
ReplaceOrBare == Replace \cup Bare

\* m1 at two replicas; requests that rescale it, replace it with fewer replicas by either
\* strategy, add m2, or name nothing.
FromTwo == {Only(m1, x, Fixed(2))}
Changes ==
  {Ask("reconcile", strategy, Only(m1, y, Fixed(1))) : strategy \in Strategies}
    \cup {Ask("reconcile", "blue_green", Only(m1, x, Fixed(1))),
          Ask("additive", "blue_green", Only(m2, x, Fixed(1)))}
    \cup Bare

\* The steps of the instance: a request with faults, or two without, the second of which names
\* nothing.  Only steps of users and faults are left out, of which no fairness is assumed.
Bounded ==
  \A r \in Requests \ {1} : rstate'[r] # "new" => faults' = 0 /\ input'[r] \in Bare
=============================================================================
