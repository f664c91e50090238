--------------------------- MODULE DownloadProofs ---------------------------
(***************************************************************************)
(* One downloader at a time (module DownloadLeases), for any number of       *)
(* processes, incarnations of the lease actor, faults and periods, as long   *)
(* as a renewal is due before its lease ends.                                *)
(***************************************************************************)
EXTENDS DownloadLeases, TLAPS

Lease == [holder : Procs, ttl : Nat, cleaning : BOOLEAN]
ProcSteps ==
  {"new", "waiting", "granted", "downloading", "releasing", "done", "failed", "dead"}

TypeInv ==
  /\ actor \in Nat /\ born \in Nat /\ wait \in Nat
  /\ lease \in Lease \cup {NoLease}
  /\ proc \in [Procs -> ProcSteps] /\ handle \in [Procs -> Nat] /\ renew \in [Procs -> Nat]
  /\ partial \subseteq Procs

\* Incarnations are numbered: the actor is the last one, and no process knows a later one.
LastBorn ==
  /\ actor \in {0, born}
  /\ \A p \in Procs : handle[p] <= born

\* An actor that still waits has granted nothing, and neither has one that does not exist.
GrantsLate == lease # NoLease => actor # 0 /\ wait = 0

\* The lease of a process that may transfer outlasts its next renewal.
Covered(p) == Reaches(p) /\ HolderIs(p) /\ lease.ttl > renew[p]

\* The actor that granted it is gone: a new one waits until the process has had to renew, and
\* found out.
Outwaited(p) == ~Reaches(p) /\ (actor # 0 => wait > renew[p])

HeldIsSafe == \A p \in Procs : proc[p] \in Held => Covered(p) \/ Outwaited(p)

\* A renewal is due within its period, and so before a lease granted now would end.
RenewBound == \A p \in Procs : renew[p] <= RenewTicks

OneHeld == \A p, q \in Procs : proc[p] \in Held /\ proc[q] \in Held => p = q
OwnFiles == \A p \in Procs : proc[p] = "downloading" => partial = {p}

DownloadInv ==
  TypeInv /\ LastBorn /\ GrantsLate /\ RenewBound /\ HeldIsSafe /\ OneHeld /\ OwnFiles

-----------------------------------------------------------------------------
\* The initial state: nobody holds anything.
LEMMA InitInv == Init => DownloadInv
BY DownloadAssumption DEF Init, DownloadInv, TypeInv, ProcSteps, LastBorn, GrantsLate, RenewBound,
                          HeldIsSafe, OneHeld, OwnFiles, Held

\* The invariant implies what the run checks.
LEMMA InvImplies == DownloadInv => OneDownloader
BY DEF DownloadInv, OneHeld, OwnFiles, OneDownloader

\* Where nobody holds anything, and no lease names the process as its holder, a grant is safe.
LEMMA NobodyHolds ==
  ASSUME DownloadInv, actor # 0, wait = 0, lease = NoLease
  PROVE  \A p \in Procs : proc[p] \notin Held
BY DEF DownloadInv, TypeInv, HeldIsSafe, Covered, Outwaited, HolderIs, Reaches

\* No step of Next breaks the invariant.
LEMMA InvStep == DownloadInv /\ [Next]_vars => DownloadInv'
<1> SUFFICES ASSUME DownloadInv, [Next]_vars PROVE DownloadInv'
  OBVIOUS
<1> USE DownloadAssumption
<1>1. ASSUME UNCHANGED vars PROVE DownloadInv'
  BY <1>1 DEF vars, DownloadInv, TypeInv, LastBorn, GrantsLate, RenewBound, HeldIsSafe, Covered,
              Outwaited, Reaches, HolderIs, OneHeld, OwnFiles
<1>2. ASSUME Tick PROVE DownloadInv'
  <2>1. TypeInv' /\ LastBorn' /\ GrantsLate' /\ RenewBound'
    BY <1>2 DEF Tick, fileVars, DownloadInv, TypeInv, Lease, LastBorn, GrantsLate, RenewBound, Less
  <2>2. HeldIsSafe'
    <3> SUFFICES ASSUME NEW p \in Procs, proc'[p] \in Held PROVE Covered(p)' \/ Outwaited(p)'
      BY DEF HeldIsSafe
    <3>1. proc[p] \in Held /\ renew[p] > 0 /\ renew'[p] = renew[p] - 1
      BY <1>2 DEF Tick, Less, DownloadInv, TypeInv
    <3>2. CASE Covered(p)
      <4>1. lease \in Lease /\ lease # NoLease /\ lease.ttl > 0
        BY <3>1, <3>2 DEF DownloadInv, TypeInv, Covered, HolderIs, Lease
      <4>2. lease' = [lease EXCEPT !.ttl = lease.ttl - 1]
        BY <1>2, <4>1 DEF Tick, Less, Lease
      <4>3. lease' \in Lease /\ lease'.ttl = lease.ttl - 1 /\ lease'.holder = lease.holder
              /\ lease'.cleaning = lease.cleaning
        BY <4>1, <4>2 DEF Lease
      <4>4. lease' # NoLease
        BY <4>3 DEF Lease
      <4>5. lease.ttl - 1 > renew[p] - 1
        BY <3>2, <4>1 DEF Covered, DownloadInv, TypeInv, Lease
      <4> QED
        BY <1>2, <3>1, <3>2, <4>3, <4>4, <4>5 DEF Tick, Covered, Reaches, HolderIs
    <3>3. CASE Outwaited(p)
      BY <1>2, <3>1, <3>3 DEF Tick, Less, DownloadInv, TypeInv, Outwaited, Reaches
    <3> QED
      BY <3>1, <3>2, <3>3 DEF DownloadInv, HeldIsSafe
  <2>3. OneHeld' /\ OwnFiles'
    BY <1>2 DEF Tick, fileVars, DownloadInv, OneHeld, OwnFiles
  <2> QED
    BY <2>1, <2>2, <2>3 DEF DownloadInv
<1>3. ASSUME Reaps PROVE DownloadInv'
  <2>1. lease' \in Lease
    BY <1>3 DEF Reaps, DownloadInv, TypeInv, Lease
  <2>2. TypeInv' /\ LastBorn' /\ GrantsLate' /\ RenewBound' /\ OneHeld' /\ OwnFiles'
    BY <1>3, <2>1 DEF Reaps, procVars, fileVars, DownloadInv, TypeInv, LastBorn, GrantsLate,
                      RenewBound, OneHeld, OwnFiles
  <2>3. \A p \in Procs : proc[p] \in Held => Outwaited(p)
    BY <1>3 DEF Reaps, DownloadInv, TypeInv, Lease, HeldIsSafe, Covered
  <2> QED
    BY <1>3, <2>2, <2>3 DEF Reaps, procVars, DownloadInv, HeldIsSafe, Outwaited, Reaches
<1>4. ASSUME Cleans PROVE DownloadInv'
  BY <1>4 DEF Cleans, procVars, fileVars, DownloadInv, TypeInv, Lease, LastBorn, GrantsLate,
              RenewBound, HeldIsSafe, Covered, Outwaited, Reaches, HolderIs, OneHeld, OwnFiles, Held
<1>5. ASSUME Exits \/ ActorDies PROVE DownloadInv'
  BY <1>5 DEF Exits, ActorDies, Idle, procVars, fileVars, DownloadInv, TypeInv, Lease, LastBorn,
              GrantsLate, RenewBound, HeldIsSafe, Covered, Outwaited, Reaches, HolderIs, OneHeld,
              OwnFiles, Held
<1>6. ASSUME NEW p \in Procs, Starts(p) \/ AsksAgain(p) PROVE DownloadInv'
  <2>1. TypeInv' /\ LastBorn' /\ GrantsLate' /\ RenewBound'
    BY <1>6 DEF Starts, AsksAgain, LooksUp, StartWait, Becomes, actorVars, fileVars, DownloadInv,
                TypeInv, ProcSteps, LastBorn, GrantsLate, RenewBound
  <2>2. proc[p] \notin Held /\ proc'[p] \notin Held /\ partial' = partial /\ renew' = renew
    BY <1>6 DEF Starts, AsksAgain, Becomes, fileVars, DownloadInv, TypeInv, Held
  <2>3. \A q \in Procs \ {p} : proc'[q] = proc[q] /\ handle'[q] = handle[q]
    BY <1>6 DEF Starts, AsksAgain, LooksUp, Becomes, DownloadInv, TypeInv
  <2>4. HeldIsSafe'
    <3> SUFFICES ASSUME NEW q \in Procs, proc'[q] \in Held PROVE Covered(q)' \/ Outwaited(q)'
      BY DEF HeldIsSafe
    <3>1. q # p /\ proc[q] \in Held /\ handle'[q] = handle[q] /\ (Covered(q) \/ Outwaited(q))
      BY <2>2, <2>3 DEF DownloadInv, HeldIsSafe
    <3>2. CASE UNCHANGED actorVars
      BY <2>2, <3>1, <3>2 DEF actorVars, Covered, Outwaited, Reaches, HolderIs
    <3>3. CASE ~UNCHANGED actorVars
      \* a new incarnation, which waits for longer than any renewal
      <4>1. actor = 0 /\ actor' = born + 1 /\ wait' = LeaseTicks
        BY <1>6, <3>3 DEF Starts, AsksAgain, LooksUp, StartWait, actorVars
      <4>2. handle[q] # born + 1
        BY DEF DownloadInv, TypeInv, LastBorn
      <4> QED
        BY <2>2, <3>1, <4>1, <4>2 DEF Outwaited, Reaches, DownloadInv, TypeInv, RenewBound
    <3> QED
      BY <3>2, <3>3
  <2> QED
    BY <2>1, <2>2, <2>3, <2>4 DEF DownloadInv, OneHeld, OwnFiles, Held
<1>7. ASSUME NEW p \in Procs, Acquires(p) PROVE DownloadInv'
  <2>1. \A q \in Procs : proc[q] \notin Held
    BY <1>7, NobodyHolds DEF Acquires, Reaches
  <2>2. lease' = [holder |-> p, ttl |-> LeaseTicks, cleaning |-> FALSE] /\ lease' \in Lease
    BY <1>7 DEF Acquires, Lease
  <2>3. TypeInv' /\ LastBorn' /\ GrantsLate' /\ RenewBound'
    BY <1>7, <2>2 DEF Acquires, Becomes, Reaches, fileVars, DownloadInv, TypeInv, ProcSteps,
                      LastBorn, GrantsLate, RenewBound
  <2>4. \A q \in Procs : proc'[q] \in Held =>
          q = p /\ proc'[q] = "granted" /\ renew'[q] = RenewTicks
    BY <1>7, <2>1 DEF Acquires, Becomes, DownloadInv, TypeInv, Held
  <2>5. HeldIsSafe'
    <3>1. lease' # NoLease /\ lease'.holder = p /\ lease'.ttl = LeaseTicks /\ ~lease'.cleaning
      BY <2>2 DEF Lease
    <3>2. actor' = actor /\ handle' = handle /\ Reaches(p)
      BY <1>7 DEF Acquires
    <3> QED
      BY <2>4, <3>1, <3>2 DEF HeldIsSafe, Covered, Reaches, HolderIs
  <2>6. OneHeld' /\ OwnFiles'
    BY <2>4 DEF OneHeld, OwnFiles, Held
  <2> QED
    BY <2>3, <2>5, <2>6 DEF DownloadInv
<1>8. ASSUME NEW p \in Procs, Renews(p) PROVE DownloadInv'
  <2>1. lease' \in Lease /\ lease'.ttl = LeaseTicks /\ lease'.holder = p /\ ~lease'.cleaning
    BY <1>8 DEF Renews, HolderIs, DownloadInv, TypeInv, Lease
  <2>2. lease' # NoLease
    BY <2>1 DEF Lease
  <2>3. TypeInv' /\ LastBorn' /\ GrantsLate' /\ RenewBound' /\ OneHeld' /\ OwnFiles'
    BY <1>8, <2>1 DEF Renews, HolderIs, fileVars, DownloadInv, TypeInv, LastBorn, GrantsLate,
                      RenewBound, OneHeld, OwnFiles
  <2>4. \A q \in Procs : proc'[q] \in Held => q = p
    BY <1>8 DEF Renews, RenewalDue, DownloadInv, OneHeld
  <2>5. Covered(p)'
    BY <1>8, <2>1, <2>2 DEF Renews, Covered, Reaches, HolderIs, DownloadInv, TypeInv
  <2> QED
    BY <2>3, <2>4, <2>5 DEF DownloadInv, HeldIsSafe
<1>9. ASSUME NEW p \in Procs, FindsCached(p) \/ Downloads(p) \/ Ends(p) \/ LosesLease(p) \/ Dies(p)
      PROVE  DownloadInv'
  BY <1>9 DEF FindsCached, Downloads, Ends, LosesLease, Dies, Becomes, actorVars, fileVars, Held,
              DownloadInv, TypeInv, ProcSteps, LastBorn, GrantsLate, RenewBound, HeldIsSafe,
              Covered, Outwaited, Reaches, HolderIs, OneHeld, OwnFiles
<1>10. ASSUME NEW p \in Procs, Releases(p) PROVE DownloadInv'
  BY <1>10 DEF Releases, Becomes, fileVars, Held, DownloadInv, TypeInv, ProcSteps, LastBorn,
               GrantsLate, RenewBound, HeldIsSafe, Covered, Outwaited, Reaches, HolderIs, OneHeld,
               OwnFiles
<1> QED
  BY <1>1, <1>2, <1>3, <1>4, <1>5, <1>6, <1>7, <1>8, <1>9, <1>10 DEF Next, Actor, Process

\* locked_download and the lease actor let one process transfer a source at a time, and no
\* clean-up takes the files it is writing, whatever becomes of the actor, of other processes and of
\* the answers to their calls (docs/architecture.md, "One download per source").
THEOREM DownloadsExclude == Spec => []OneDownloader
<1>1. Init => DownloadInv
  BY InitInv
<1>2. DownloadInv /\ [Next]_vars => DownloadInv'
  BY InvStep
<1>3. DownloadInv => OneDownloader
  BY InvImplies
<1> QED
  BY <1>1, <1>2, <1>3, PTL DEF Spec
=============================================================================
