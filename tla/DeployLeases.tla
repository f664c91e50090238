---------------------------- MODULE DeployLeases ----------------------------
(***************************************************************************)
(* Deploy leases: a replica loads its model only while it holds its node's   *)
(* lease.  The deploy coordinator grants leases, keeps them in memory and in *)
(* the state store, and frees a lease once Serve lists its replica RUNNING,  *)
(* or has not listed it on several checks in a row (deploy_coordinator.py    *)
(* acquire to _release); replicas poll for one (deploy/deploy_leases.py).    *)
(*                                                                           *)
(* acquire and _release await the store, and _check_leases awaits Serve and  *)
(* then each _release: what runs between two awaits is one action.           *)
(***************************************************************************)
EXTENDS Naturals, FiniteSets

CONSTANTS
  Nodes, Replicas,
  NodeOf,         \* the node each replica is on
  None,           \* no replica
  UnlistedChecks, \* _UNLISTED_CHECKS
  MaxLookups,     \* _MAX_LOOKUPS
  Faults          \* how many faults of each kind a behaviour may have: a set of such counts

FaultKinds ==
  {"restart",  \* the coordinator's process dies and restarts
   "store",    \* a store write or delete raises; it may have happened
   "call",     \* a replica's acquire call raises although it runs on
   "replica"}  \* a replica's process dies

ASSUME LeaseAssumption ==
  /\ NodeOf \in [Replicas -> Nodes] /\ None \notin Replicas
  /\ UnlistedChecks \in Nat \ {0, 1} /\ MaxLookups \in Nat \ {0}
  /\ \A f \in Faults : f \in [FaultKinds -> Nat]

VARIABLES
  leases,     \* _leases
  unlisted,   \* _unlisted
  loaded,     \* _leases_loaded is done
  stored,     \* the leases in the state store
  pending,    \* acquire calls that await their store write
  check,      \* where _check_leases is
  states,     \* the replica states it read from Serve
  todo,       \* the leases it has yet to look at
  releasing,  \* the lease whose _release awaits the store
  rep,        \* each replica
  lookups,    \* how often a replica has looked the coordinator up
  faults      \* faults so far

vars == <<leases, unlisted, loaded, stored, pending, check, states, todo, releasing, rep, lookups,
          faults>>

checkVars == <<check, states, todo, releasing>>

Fault(kind) ==
  /\ faults' = [faults EXCEPT ![kind] = @ + 1]
  /\ \E f \in Faults : \A k \in FaultKinds : faults'[k] <= f[k]
NoFault == UNCHANGED faults

NoLeases == [n \in Nodes |-> None]
Leased == {n \in Nodes : leases[n] # None}

\* What Serve lists: a dead replica until Serve notices, nothing of one that is gone.
Listed(r) ==
  CASE rep[r] = "running" -> "RUNNING"
    [] rep[r] \in {"new", "gone"} -> "unlisted"
    [] OTHER -> "STARTING"

NoStates == [r \in Replicas |-> "unlisted"]

Init ==
  /\ leases = NoLeases /\ stored = NoLeases /\ unlisted = [n \in Nodes |-> 0]
  /\ loaded = FALSE /\ pending = {}
  /\ check = "idle" /\ states = NoStates /\ todo = {} /\ releasing = {}
  /\ rep = [r \in Replicas |-> "new"] /\ lookups = [r \in Replicas |-> 1]
  /\ faults = [k \in FaultKinds |-> 0]

-----------------------------------------------------------------------------
(* Replicas.                                                                 *)

Becomes(r, from, to) == rep[r] \in from /\ rep' = [rep EXCEPT ![r] = to]

OnlyReplica == UNCHANGED <<leases, unlisted, loaded, stored, pending, checkVars, lookups>>

\* Serve starts the replica, which polls for the lease before it loads.
Starts(r) == Becomes(r, {"new"}, "waiting") /\ NoFault /\ OnlyReplica
\* Its model is loaded and Serve lists it RUNNING; assumed to outlast a store write.
Loads(r) ==
  /\ Becomes(r, {"loading"}, "running") /\ \A c \in pending : c.r # r
  /\ NoFault /\ OnlyReplica
\* Serve notices a death.
Unlisted(r) == Becomes(r, {"dead"}, "gone") /\ NoFault /\ OnlyReplica

Hears(r, heard) ==
  pending' = {c \in pending : c.r # r} \cup {[r |-> r, heard |-> heard] : c \in {d \in pending : d.r = r}}

\* Its calls run on in the coordinator.
Dies(r) ==
  /\ Becomes(r, {"waiting", "asking", "loading", "running"}, "dead") /\ Fault("replica")
  /\ Hears(r, FALSE)
  /\ UNCHANGED <<leases, unlisted, loaded, stored, checkVars, lookups>>

\* The replicas whose call raised look the coordinator up and ask again, or give up.
CallsRaise(R) ==
  /\ rep' = [r \in Replicas |-> IF r \notin R THEN rep[r]
                                ELSE IF lookups[r] >= MaxLookups THEN "dead" ELSE "waiting"]
  /\ lookups' = [r \in Replicas |-> IF r \in R /\ lookups[r] < MaxLookups THEN lookups[r] + 1
                                    ELSE lookups[r]]

\* ActorUnavailableError; the call itself runs on.
CallLost(r) ==
  /\ rep[r] = "asking" /\ Fault("call") /\ CallsRaise({r})
  /\ Hears(r, FALSE)
  /\ UNCHANGED <<leases, unlisted, loaded, stored, checkVars>>

-----------------------------------------------------------------------------
(* The coordinator.                                                          *)

Free(r) == leases[NodeOf[r]] = None

\* acquire: granted to its holder again, refused while another holds it or none are loaded.
Asks(r) ==
  /\ rep[r] = "waiting" /\ loaded
  /\ \/ /\ leases[NodeOf[r]] = r /\ rep' = [rep EXCEPT ![r] = "loading"]
        /\ UNCHANGED <<leases, unlisted, pending>>
     \/ /\ Free(r) /\ rep' = [rep EXCEPT ![r] = "asking"]
        /\ leases' = [leases EXCEPT ![NodeOf[r]] = r]
        /\ unlisted' = [unlisted EXCEPT ![NodeOf[r]] = 0]
        /\ pending' = pending \cup {[r |-> r, heard |-> TRUE]}
  /\ UNCHANGED <<loaded, stored, checkVars, lookups, faults>>

Answer(c, result) ==
  /\ pending' = pending \ {c}
  /\ rep' = IF c.heard THEN [rep EXCEPT ![c.r] = result] ELSE rep

GrantStored(c) ==
  /\ Answer(c, "loading")
  /\ stored' = [stored EXCEPT ![NodeOf[c.r]] = c.r]
  /\ UNCHANGED <<leases, unlisted, loaded, checkVars, lookups, faults>>

\* The write raised; it may have landed.  The lease goes, if it is still this one.
GrantFails(c) ==
  /\ Fault("store") /\ Answer(c, "waiting")
  /\ stored' \in {stored, [stored EXCEPT ![NodeOf[c.r]] = c.r]}
  /\ leases' = [leases EXCEPT ![NodeOf[c.r]] = IF @ = c.r THEN None ELSE @]
  /\ UNCHANGED <<unlisted, loaded, checkVars, lookups>>

\* _load_leases, retried until the store answers.
LoadLeases ==
  /\ ~loaded /\ loaded' = TRUE /\ leases' = stored
  /\ UNCHANGED <<unlisted, stored, pending, checkVars, rep, lookups, faults>>

(* _check_leases asks Serve, in a thread.  Assumed: a store write that was     *)
(* under way at one check has ended by the next, _LEASE_CHECK_SECONDS later.   *)
ReadsServe ==
  /\ check = "idle" /\ loaded /\ Leased # {}
  /\ \A c \in pending : unlisted[NodeOf[c.r]] = 0
  /\ check' = "read" /\ states' = [r \in Replicas |-> Listed(r)]
  /\ UNCHANGED <<leases, unlisted, loaded, stored, pending, todo, releasing, rep, lookups, faults>>

\* Then it goes through the leases held by now.
ListsLeases ==
  /\ check = "read" /\ check' = "loop"
  /\ todo' = {[n |-> n, r |-> leases[n]] : n \in Leased}
  /\ UNCHANGED <<leases, unlisted, loaded, stored, pending, states, releasing, rep, lookups, faults>>

\* Mutant: one check that does not list the replica is enough.
mut_Gone(n) == TRUE

Gone(n) == unlisted[n] + 1 >= UnlistedChecks

ChecksLease(l) ==
  /\ check = "loop" /\ releasing = {} /\ l \in todo /\ todo' = todo \ {l}
  /\ \/ /\ states[l.r] = "RUNNING" /\ releasing' = {l} /\ UNCHANGED unlisted
     \/ /\ states[l.r] = "STARTING" /\ UNCHANGED releasing
        /\ unlisted' = [unlisted EXCEPT ![l.n] = 0]
     \/ /\ states[l.r] = "unlisted"
        /\ unlisted' = [unlisted EXCEPT ![l.n] = @ + 1]
        /\ releasing' = IF Gone(l.n) THEN {l} ELSE {}
  /\ UNCHANGED <<leases, loaded, stored, pending, check, states, rep, lookups, faults>>

\* Mutant: only the store forgets the lease.
mut_Releases ==
  \E l \in releasing :
    /\ \/ NoFault /\ stored' = [stored EXCEPT ![l.n] = None]
       \/ Fault("store") /\ stored' \in {stored, [stored EXCEPT ![l.n] = None]}
    /\ releasing' = {} /\ unlisted' = [unlisted EXCEPT ![l.n] = 0]
    /\ UNCHANGED <<leases, loaded, pending, check, states, todo, rep, lookups>>

\* _release: the store key first, then the lease, even if the delete raised.
Releases ==
  \E l \in releasing :
    /\ \/ NoFault /\ stored' = [stored EXCEPT ![l.n] = None]
       \/ Fault("store") /\ stored' \in {stored, [stored EXCEPT ![l.n] = None]}
    /\ leases' = [leases EXCEPT ![l.n] = IF @ = l.r THEN None ELSE @]
    /\ releasing' = {} /\ unlisted' = [unlisted EXCEPT ![l.n] = 0]
    /\ UNCHANGED <<loaded, pending, check, states, todo, rep, lookups>>

CheckEnds ==
  /\ check = "loop" /\ todo = {} /\ releasing = {}
  /\ check' = "idle" /\ states' = NoStates
  /\ UNCHANGED <<leases, unlisted, loaded, stored, pending, todo, releasing, rep, lookups, faults>>

(* Memory and calls are gone; store operations under way may still happen.   *)
Restarts ==
  /\ Fault("restart")
  /\ leases' = NoLeases /\ unlisted' = [n \in Nodes |-> 0] /\ loaded' = FALSE /\ pending' = {}
  /\ check' = "idle" /\ states' = NoStates /\ todo' = {} /\ releasing' = {}
  /\ CallsRaise({r \in Replicas : rep[r] = "asking"})
  /\ stored' \in {s \in [Nodes -> Replicas \cup {None}] :
       \A n \in Nodes :
         \/ s[n] = stored[n]
         \/ \E c \in pending : NodeOf[c.r] = n /\ s[n] = c.r
         \/ \E l \in releasing : l.n = n /\ s[n] = None}

-----------------------------------------------------------------------------
Coordinator ==
  \/ LoadLeases \/ ReadsServe \/ ListsLeases \/ Releases \/ CheckEnds
  \/ \E c \in pending : GrantStored(c)
  \/ \E l \in todo : ChecksLease(l)
Replica(r) == Asks(r) \/ Loads(r) \/ Unlisted(r)
Trouble ==
  \/ Restarts \/ \E c \in pending : GrantFails(c)
  \/ \E r \in Replicas : Dies(r) \/ CallLost(r)

Next == Coordinator \/ Trouble \/ \E r \in Replicas : Starts(r) \/ Replica(r)

Spec == Init /\ [][Next]_vars

(* The event loop runs what is ready, replicas poll without limit, a model   *)
(* that is loading ends up loaded (or its replica dies, a fault), and Serve  *)
(* notices deaths.                                                           *)
Fairness ==
  /\ WF_vars(LoadLeases) /\ WF_vars(ReadsServe) /\ WF_vars(ListsLeases)
  /\ WF_vars(Releases) /\ WF_vars(CheckEnds)
  /\ WF_vars(\E c \in pending : GrantStored(c)) /\ WF_vars(\E l \in todo : ChecksLease(l))
  /\ \A r \in Replicas : WF_vars(Replica(r))

FairSpec == Spec /\ Fairness

-----------------------------------------------------------------------------
Loading(n) == {r \in Replicas : rep[r] = "loading" /\ NodeOf[r] = n}

(* Replicas sharing a node load their models one at a time                    *)
(* (deploy_leases.py:1), through restarts of the coordinator, deaths of       *)
(* replicas and failures of the store, or a lost call.  A restarted           *)
(* coordinator still knows who loads: a loading replica's lease is in the     *)
(* store, or its write is under way after a lost call, and no late delete and *)
(* no late write of another takes it away.                                    *)
OneLoaderPerNode ==
  \A n \in Nodes : \A r \in Loading(n) :
    /\ \A s \in Loading(n) : r = s
    /\ stored[n] = r \/ \E c \in pending : c.r = r

(* A live replica that waits for its node is let in some day: the lease of a  *)
(* dead or a loaded replica is freed, whatever failed on the way.             *)
EveryoneLoads ==
  \A r \in Replicas : rep[r] = "waiting" ~> rep[r] \in {"loading", "running", "dead", "gone"}
=============================================================================
