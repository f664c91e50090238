--------------------------- MODULE DownloadLeases ---------------------------
(***************************************************************************)
(* One download of a source at a time: the lease actor that grants, renews,  *)
(* reaps and cleans up (utils/download_leases.py) and the replica processes  *)
(* that download under its lease (utils/downloads.py), for one source.       *)
(*                                                                           *)
(* Time is counted in ticks of _RPC_TIMEOUT_SECONDS.  Timers are the ticks   *)
(* left: a lease's, the actor's start-up wait, its idle time, and a          *)
(* downloader's time until its next renewal must have been answered.  A      *)
(* live process renews in time; one that cannot reach the actor exits.       *)
(***************************************************************************)
EXTENDS Naturals, FiniteSets

CONSTANTS
  Procs,
  LeaseTicks,  \* LEASE_SECONDS
  RenewTicks,  \* RENEW_SECONDS and the renewal's own time-out
  IdleTicks,   \* IDLE_EXIT_SECONDS
  MaxLookups,  \* _MAX_LOOKUPS
  NoLease,
  Faults,      \* the kinds of fault a behaviour may have
  MaxFaults    \* how many faults a behaviour may have

FaultKinds ==
  {"actor",    \* the lease actor's process dies
   "process",  \* a replica's process dies
   "rpc",      \* the answer of a call to the actor is lost
   "clean"}    \* leftovers cannot be removed: the task failed or the node is gone

ASSUME DownloadAssumption ==
  /\ LeaseTicks \in Nat /\ RenewTicks \in Nat \ {0} /\ IdleTicks \in Nat
  /\ RenewTicks < LeaseTicks
  /\ MaxLookups \in Nat /\ MaxFaults \in Nat /\ Faults \subseteq FaultKinds
  /\ NoLease \notin [holder : Procs, ttl : Nat, cleaning : BOOLEAN]

VARIABLES
  actor,    \* the lease actor's incarnation, 0 when there is none
  born,     \* incarnations so far
  lease,    \* _leases of the source
  wait,     \* ticks until _grants_from
  idle,     \* ticks since _last_call
  proc,     \* each replica process
  handle,   \* the incarnation a process calls
  lookups,  \* how often it has looked the actor up
  renew,    \* ticks a downloader has left to renew
  partial,  \* the processes whose unfinished files are in the cache
  cached,   \* the source is in the cache
  faults    \* faults so far

vars == <<actor, born, lease, wait, idle, proc, handle, lookups, renew, partial, cached, faults>>
actorVars == <<actor, born, lease, wait, idle>>
procVars == <<proc, handle, lookups, renew>>
fileVars == <<partial, cached>>

Fault(kind) == kind \in Faults /\ faults < MaxFaults /\ faults' = faults + 1
NoFault == UNCHANGED faults

Held == {"granted", "downloading"}

Init ==
  /\ actor = 0 /\ born = 0 /\ lease = NoLease /\ wait = 0 /\ idle = 0
  /\ proc = [p \in Procs |-> "new"] /\ handle = [p \in Procs |-> 0]
  /\ lookups = [p \in Procs |-> 0] /\ renew = [p \in Procs |-> 0]
  /\ partial = {} /\ cached = FALSE /\ faults = 0

Becomes(p, step) == proc' = [proc EXCEPT ![p] = step]
Reaches(p) == actor # 0 /\ handle[p] = actor
HolderIs(p) == lease # NoLease /\ lease.holder = p /\ ~lease.cleaning

-----------------------------------------------------------------------------
(* The lease actor.                                                          *)

\* Mutant: a fresh actor grants at once.
mut_StartWait == 0

\* Holders of a crashed predecessor stop within one lease period.
StartWait == LeaseTicks

\* _reap: an expired lease is marked, and its holder's leftovers removed before it goes.
Reaps ==
  /\ actor # 0 /\ lease # NoLease /\ ~lease.cleaning /\ lease.ttl = 0
  /\ lease' = [lease EXCEPT !.cleaning = TRUE]
  /\ UNCHANGED <<actor, born, wait, idle, procVars, fileVars, faults>>

\* Mutant: a lease is reaped again and again, and never freed.
mut_Cleans ==
  /\ actor # 0 /\ lease # NoLease /\ lease.cleaning
  /\ partial' = {} /\ lease' = [lease EXCEPT !.cleaning = FALSE] /\ idle' = 0
  /\ UNCHANGED <<actor, born, wait, procVars, cached, faults>>

\* _clean frees the source whether or not the leftovers could be removed.
Cleans ==
  /\ actor # 0 /\ lease # NoLease /\ lease.cleaning
  /\ lease' = NoLease /\ idle' = 0
  /\ \/ NoFault /\ partial' = {}
     \/ Fault("clean") /\ UNCHANGED partial
  /\ UNCHANGED <<actor, born, wait, procVars, cached>>

\* _idle
Idle == lease = NoLease /\ idle >= IdleTicks

Exits ==
  /\ actor # 0 /\ Idle
  /\ actor' = 0 /\ lease' = NoLease /\ wait' = 0 /\ idle' = 0
  /\ UNCHANGED <<born, procVars, fileVars, faults>>

ActorDies ==
  /\ actor # 0 /\ Fault("actor")
  /\ actor' = 0 /\ lease' = NoLease /\ wait' = 0 /\ idle' = 0
  /\ UNCHANGED <<born, procVars, fileVars>>

-----------------------------------------------------------------------------
(* A replica process that needs the source.                                  *)

\* get_or_create_leases
LooksUp(p) ==
  /\ handle' = [handle EXCEPT ![p] = IF actor = 0 THEN born + 1 ELSE actor]
  /\ lookups' = [lookups EXCEPT ![p] = @ + 1]
  /\ IF actor = 0
     THEN /\ actor' = born + 1 /\ born' = born + 1 /\ lease' = NoLease
          /\ wait' = StartWait /\ idle' = 0
     ELSE UNCHANGED actorVars

\* locked_download: a cached source skips the lease.
Starts(p) ==
  /\ proc[p] = "new"
  /\ IF cached
     THEN Becomes(p, "done") /\ UNCHANGED <<actorVars, handle, lookups>>
     ELSE Becomes(p, "waiting") /\ LooksUp(p)
  /\ UNCHANGED <<renew, fileVars, faults>>

\* acquire is granted.  Its answer may be lost, and then the lease stays until it expires.
Acquires(p) ==
  /\ proc[p] = "waiting" /\ Reaches(p) /\ wait = 0 /\ lease = NoLease
  /\ lease' = [holder |-> p, ttl |-> LeaseTicks, cleaning |-> FALSE] /\ idle' = 0
  /\ \/ /\ NoFault /\ Becomes(p, "granted") /\ renew' = [renew EXCEPT ![p] = RenewTicks]
        /\ UNCHANGED lookups
     \/ /\ Fault("rpc") /\ UNCHANGED renew
        /\ IF lookups[p] >= MaxLookups
           THEN Becomes(p, "failed") /\ UNCHANGED lookups
           ELSE lookups' = [lookups EXCEPT ![p] = @ + 1] /\ UNCHANGED proc
  /\ UNCHANGED <<actor, born, wait, handle, fileVars>>

\* ActorDiedError: look the actor up again, a few times.
AsksAgain(p) ==
  /\ proc[p] = "waiting" /\ ~Reaches(p)
  /\ IF lookups[p] >= MaxLookups
     THEN Becomes(p, "failed") /\ UNCHANGED <<actorVars, handle, lookups>>
     ELSE LooksUp(p) /\ UNCHANGED proc
  /\ UNCHANGED <<renew, fileVars, faults>>

\* A poll finds the source cached meanwhile.
FindsCached(p) ==
  /\ proc[p] = "waiting" /\ cached /\ Becomes(p, "done")
  /\ UNCHANGED <<actorVars, handle, lookups, renew, fileVars, faults>>

\* _download_held removes leftovers, then transfers.
Downloads(p) ==
  /\ proc[p] = "granted" /\ Becomes(p, "downloading")
  /\ partial' = {p}
  /\ UNCHANGED <<actorVars, handle, lookups, renew, cached, faults>>

\* The transfer ends, or raises and leaves its files; so may the removal of leftovers.
Ends(p) ==
  /\ proc[p] \in Held /\ Becomes(p, "releasing") /\ renew' = [renew EXCEPT ![p] = 0]
  /\ \/ proc[p] = "downloading" /\ cached' = TRUE /\ partial' = partial \ {p}
     \/ UNCHANGED fileVars
  /\ UNCHANGED <<actorVars, handle, lookups, faults>>

\* release, unless it is lost or the lease is no longer its own; then the process goes
\* on with the files or with the transfer's error.
Releases(p) ==
  /\ proc[p] = "releasing" /\ Becomes(p, "done")
  /\ \/ Reaches(p) /\ NoFault /\ idle' = 0 /\ lease' = IF HolderIs(p) THEN NoLease ELSE lease
     \/ ~Reaches(p) /\ NoFault /\ UNCHANGED <<idle, lease>>
     \/ Reaches(p) /\ Fault("rpc") /\ UNCHANGED <<idle, lease>>
  /\ UNCHANGED <<actor, born, wait, handle, lookups, renew, fileVars>>

RenewalDue(p) == proc[p] \in Held /\ renew[p] <= 1

\* _renew_forever exits the process: refused, unreachable, or no answer in time.
LosesLease(p) ==
  /\ RenewalDue(p) /\ Becomes(p, "dead") /\ renew' = [renew EXCEPT ![p] = 0]
  /\ \/ ~(Reaches(p) /\ HolderIs(p)) /\ NoFault
     \/ Fault("rpc")
  /\ UNCHANGED <<actorVars, handle, lookups, fileVars>>

\* renew
Renews(p) ==
  /\ RenewalDue(p) /\ Reaches(p) /\ HolderIs(p)
  /\ lease' = [lease EXCEPT !.ttl = LeaseTicks] /\ idle' = 0
  /\ renew' = [renew EXCEPT ![p] = RenewTicks]
  /\ UNCHANGED <<actor, born, wait, proc, handle, lookups, fileVars, faults>>

Dies(p) ==
  /\ proc[p] \in Held \cup {"waiting", "releasing"} /\ Fault("process")
  /\ Becomes(p, "dead") /\ renew' = [renew EXCEPT ![p] = 0]
  /\ UNCHANGED <<actorVars, handle, lookups, fileVars>>

-----------------------------------------------------------------------------
Less(n) == IF n = 0 THEN 0 ELSE n - 1

(* Time passes once every renewal that is due has been answered.  Waiting     *)
(* processes poll every POLL_SECONDS, so the actor is not idle meanwhile.     *)
Tick ==
  /\ \A p \in Procs : proc[p] \in Held => renew[p] > 0
  /\ renew' = [p \in Procs |-> Less(renew[p])]
  /\ wait' = Less(wait)
  /\ lease' = IF lease = NoLease THEN lease ELSE [lease EXCEPT !.ttl = Less(@)]
  /\ idle' = IF actor = 0 \/ \E p \in Procs : proc[p] = "waiting" /\ Reaches(p) THEN 0
             ELSE IF idle < IdleTicks THEN idle + 1 ELSE idle
  /\ UNCHANGED <<actor, born, proc, handle, lookups, fileVars, faults>>

Process(p) ==
  \/ Acquires(p) \/ AsksAgain(p) \/ FindsCached(p) \/ Downloads(p) \/ Ends(p)
  \/ Releases(p) \/ LosesLease(p) \/ Renews(p)
Actor == Reaps \/ Cleans \/ Exits

Next ==
  \/ Tick \/ Actor \/ ActorDies
  \/ \E p \in Procs : Starts(p) \/ Process(p) \/ Dies(p)

Spec == Init /\ [][Next]_vars

(* Time passes, the actor's reaper and its clean-ups run, processes poll, and *)
(* a transfer ends.                                                           *)
Fairness ==
  /\ WF_vars(Tick) /\ WF_vars(Reaps) /\ WF_vars(Cleans)
  /\ \A p \in Procs :
       /\ WF_vars(Acquires(p) \/ AsksAgain(p) \/ FindsCached(p))
       /\ WF_vars(Downloads(p)) /\ WF_vars(Ends(p)) /\ WF_vars(Releases(p))
       /\ WF_vars(LosesLease(p) \/ Renews(p))

FairSpec == Spec /\ Fairness

-----------------------------------------------------------------------------
(* At most one process transfers a source at a time, through deaths and       *)
(* restarts of the lease actor, lost answers and idle exits                   *)
(* (docs/architecture.md:34, "One download per source"); it starts without    *)
(* unfinished files of another, and nobody's clean-up takes the files of a    *)
(* process that is still transferring.                                        *)
OneDownloader ==
  \A p \in Procs :
    /\ proc[p] \in Held => \A q \in Procs \ {p} : proc[q] \notin Held
    /\ proc[p] = "downloading" => partial = {p}

(* Every process that waits for the source ends up with it or fails: a lease  *)
(* whose holder died, or whose grant never reached its holder, is freed.      *)
EveryWaitEnds ==
  \A p \in Procs : proc[p] = "waiting" ~> proc[p] \in {"done", "failed", "dead"}
=============================================================================
