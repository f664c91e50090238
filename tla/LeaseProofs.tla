----------------------------- MODULE LeaseProofs -----------------------------
(***************************************************************************)
(* One loading replica on a node (module DeployLeases), for any nodes,       *)
(* replicas, numbers of faults and limits.  A lost call does not go with a   *)
(* store failure or a restart of the coordinator: the replica whose call was *)
(* lost asks again and loads while the first call's write is still under     *)
(* way, and that write is then the only trace of its lease.                  *)
(***************************************************************************)
EXTENDS DeployLeases, TLAPS

CallsFailAlone == \A f \in Faults : f["call"] > 0 => f["store"] = 0 /\ f["restart"] = 0

Call == [r : Replicas, heard : BOOLEAN]
Lease == [n : Nodes, r : Replicas]
RepSteps == {"new", "waiting", "asking", "loading", "running", "dead", "gone"}

Types ==
  /\ leases \in [Nodes -> Replicas \cup {None}] /\ stored \in [Nodes -> Replicas \cup {None}]
  /\ unlisted \in [Nodes -> Nat] /\ loaded \in BOOLEAN /\ pending \subseteq Call
  /\ check \in {"idle", "read", "loop"}
  /\ states \in [Replicas -> {"RUNNING", "STARTING", "unlisted"}]
  /\ todo \subseteq Lease /\ releasing \subseteq Lease
  /\ rep \in [Replicas -> RepSteps] /\ faults \in [FaultKinds -> Nat]

\* A lease, in memory or in the store, is of a replica of the node that Serve has started.
LeasesOfNode ==
  \A n \in Nodes : \A r \in Replicas :
    leases[n] = r \/ stored[n] = r => NodeOf[r] = n /\ rep[r] # "new"

\* An acquire that awaits its write has the lease, and its replica awaits it unless the call was lost.
PendingHold ==
  /\ \A c, d \in pending : NodeOf[c.r] = NodeOf[d.r] => c = d
  /\ \A c \in pending :
       /\ leases[NodeOf[c.r]] = c.r /\ loaded
       /\ IF c.heard THEN rep[c.r] = "asking"
          ELSE /\ rep[c.r] \in {"waiting", "loading", "dead", "gone"}
               /\ rep[c.r] \in {"waiting", "loading"} => faults["call"] > 0
  /\ \A r \in Replicas : rep[r] = "asking" => \E c \in pending : c.r = r /\ c.heard

Stored(r) == stored[NodeOf[r]] = r \/ \E c \in pending : c.r = r

\* The lease of a replica that may load is in the store, or on its way.
HoldersStored ==
  /\ \A n \in Nodes : \A r \in Replicas :
       leases[n] = r /\ rep[r] \in {"waiting", "asking", "loading"} => Stored(r)
  /\ \A r \in Replicas : rep[r] = "loading" =>
       Stored(r) /\ (loaded => leases[NodeOf[r]] = r)

Done(r) == rep[r] \in {"running", "dead", "gone"} /\ \A c \in pending : c.r # r

\* A replica the check has read as RUNNING has loaded.
ReadRunning == check # "idle" => loaded /\ \A r \in Replicas : states[r] = "RUNNING" => Done(r)

\* A lease found unlisted before is not of a replica Serve has yet to list.
Suspect(n, r) ==
  /\ \A c \in pending : NodeOf[c.r] # n
  /\ states[r] = "unlisted" => rep[r] = "gone"

ReadUnlisted ==
  check = "read" =>
    \A n \in Nodes : unlisted[n] >= 1 =>
      /\ \A c \in pending : NodeOf[c.r] # n
      /\ \A r \in Replicas : leases[n] = r => Suspect(n, r)

\* The same for the leases the check has yet to look at; nobody else has taken them.
LoopSafe ==
  /\ check # "loop" => todo = {} /\ releasing = {}
  /\ \A l, m \in todo : l.n = m.n => l = m
  /\ \A l \in todo : \A m \in releasing : l.n # m.n
  /\ \A l \in todo :
       /\ states[l.r] = "RUNNING" => leases[l.n] = l.r
       /\ unlisted[l.n] >= 1 => leases[l.n] = l.r /\ Suspect(l.n, l.r)

\* What is released belongs to a replica that has loaded or is no more.
ReleaseSafe == \A l \in releasing : leases[l.n] = l.r /\ Done(l.r)

LeaseInv ==
  /\ Types /\ LeasesOfNode /\ PendingHold /\ HoldersStored
  /\ ReadRunning /\ ReadUnlisted /\ LoopSafe /\ ReleaseSafe

-----------------------------------------------------------------------------
\* No lease, no replica.
LEMMA InitInv == Init => LeaseInv
<1> SUFFICES ASSUME Init PROVE LeaseInv
  OBVIOUS
<1> USE LeaseAssumption DEF Init, NoLeases, NoStates
<1>1. Types
  BY DEF Types, RepSteps, FaultKinds
<1>2. LeasesOfNode /\ PendingHold /\ HoldersStored
  BY DEF LeasesOfNode, PendingHold, HoldersStored
<1>3. ReadRunning /\ ReadUnlisted /\ LoopSafe /\ ReleaseSafe
  BY DEF ReadRunning, ReadUnlisted, LoopSafe, ReleaseSafe
<1> QED
  BY <1>1, <1>2, <1>3 DEF LeaseInv

\* Where a replica loads, it has the node's lease, and the store knows or is being told.
LEMMA InvImplies == LeaseInv => OneLoaderPerNode
<1> SUFFICES ASSUME LeaseInv, NEW n \in Nodes, NEW r \in Loading(n), NEW s \in Loading(n)
             PROVE  r = s /\ (stored[n] = r \/ \E c \in pending : c.r = r)
  BY DEF OneLoaderPerNode
<1>1. r \in Replicas /\ s \in Replicas /\ Stored(r) /\ Stored(s) /\ NodeOf[r] = n /\ NodeOf[s] = n
  BY DEF Loading, LeaseInv, HoldersStored
<1>2. loaded => r = s
  BY <1>1 DEF Loading, LeaseInv, HoldersStored
<1>3. ~loaded => r = s
  BY <1>1 DEF LeaseInv, PendingHold, Stored
<1> QED
  BY <1>1, <1>2, <1>3 DEF Stored
\* A store failure or a restart in a behaviour that has lost no call.
LEMMA NoCallLost ==
  ASSUME CallsFailAlone, Types, Fault("store") \/ Fault("restart")
  PROVE  faults["call"] = 0
BY LeaseAssumption DEF CallsFailAlone, Types, Fault, FaultKinds

\* A fault counts itself and no other.
LEMMA FaultCounts ==
  ASSUME NEW k \in FaultKinds, Types, Fault(k)
  PROVE  /\ faults' \in [FaultKinds -> Nat] /\ faults'[k] > 0
         /\ \A j \in FaultKinds : faults[j] > 0 => faults'[j] > 0
<1>1. faults \in [FaultKinds -> Nat] /\ faults' = [faults EXCEPT ![k] = @ + 1]
  BY DEF Types, Fault
<1> QED
  BY <1>1

\* The calls under way after nobody hears those of r any more: the same ones.
Heard(r) ==
  /\ pending' \subseteq Call
  /\ \A d \in pending' : \E c \in pending : d.r = c.r /\ (d.r # r => d = c)
  /\ \A c \in pending : \E d \in pending' : d.r = c.r /\ (d.r # r => d = c)
  /\ \A d \in pending' : d.r = r => d = [r |-> r, heard |-> FALSE] /\ ~d.heard

\* What Hears does when a replica dies or loses its call.
LEMMA HearsNot ==
  ASSUME NEW r \in Replicas, pending \subseteq Call, Hears(r, FALSE)
  PROVE  Heard(r)
<1> DEFINE e == [r |-> r, heard |-> FALSE]
<1>1. e \in Call /\ e.r = r /\ ~e.heard
  BY DEF Call
<1>2. \A d \in pending' : \/ d \in pending /\ d.r # r
                          \/ d = e /\ \E c \in pending : c.r = r
  BY DEF Hears
<1>3. \A c \in pending : c.r # r => c \in pending'
  BY DEF Hears
<1>4. \A c \in pending : c.r = r => e \in pending'
  BY DEF Hears
<1> HIDE DEF e
<1>5. pending' \subseteq Call
  BY <1>1, <1>2
<1>6. \A d \in pending' : d.r = r => d = e /\ ~d.heard
  BY <1>1, <1>2
<1>7. \A d \in pending' : \E c \in pending : d.r = c.r /\ (d.r # r => d = c)
  BY <1>1, <1>2
<1>8. \A c \in pending : \E d \in pending' : d.r = c.r /\ (d.r # r => d = c)
  BY <1>1, <1>3, <1>4
<1> QED
  BY <1>5, <1>6, <1>7, <1>8 DEF Heard, e

\* No step of Next breaks the invariant.
LEMMA InvStep == CallsFailAlone /\ LeaseInv /\ [Next]_vars => LeaseInv'
<1> SUFFICES ASSUME CallsFailAlone, LeaseInv, [Next]_vars PROVE LeaseInv'
  OBVIOUS
<1> USE LeaseAssumption
<1> USE DEF LeaseInv
<1>1. ASSUME UNCHANGED vars PROVE LeaseInv'
  BY <1>1 DEF vars, Types, LeasesOfNode, PendingHold, HoldersStored, Stored, ReadRunning, Done,
              ReadUnlisted, Suspect, LoopSafe, ReleaseSafe
<1>2. ASSUME NEW r \in Replicas, Starts(r) \/ Loads(r) \/ Unlisted(r) PROVE LeaseInv'
  <2>1. Types' /\ LeasesOfNode'
    BY <1>2 DEF Starts, Loads, Unlisted, Becomes, OnlyReplica, NoFault, checkVars, Types, RepSteps,
                LeasesOfNode
  <2>2. PendingHold'
    BY <1>2 DEF Starts, Loads, Unlisted, Becomes, OnlyReplica, NoFault, checkVars, Types, RepSteps,
                Call, LeasesOfNode, PendingHold
  <2>3. HoldersStored'
    BY <1>2 DEF Starts, Loads, Unlisted, Becomes, OnlyReplica, NoFault, checkVars, Types, RepSteps,
                LeasesOfNode, HoldersStored, Stored
  <2>4. ReadRunning' /\ ReadUnlisted'
    BY <1>2 DEF Starts, Loads, Unlisted, Becomes, OnlyReplica, NoFault, checkVars, Types, RepSteps,
                ReadRunning, Done, ReadUnlisted, Suspect
  <2>5. LoopSafe' /\ ReleaseSafe'
    BY <1>2 DEF Starts, Loads, Unlisted, Becomes, OnlyReplica, NoFault, checkVars, Types, RepSteps,
                Lease, LoopSafe, Suspect, ReleaseSafe, Done
  <2> QED
    BY <2>1, <2>2, <2>3, <2>4, <2>5
<1>3. ASSUME NEW r \in Replicas, Asks(r) PROVE LeaseInv'
  <2>1. CASE leases[NodeOf[r]] = r /\ rep' = [rep EXCEPT ![r] = "loading"]
             /\ UNCHANGED <<leases, unlisted, pending>>
    <3>1. rep[r] = "waiting" /\ loaded
      BY <1>3 DEF Asks
    <3>2. UNCHANGED <<loaded, stored, check, states, todo, releasing, faults>>
      BY <1>3 DEF Asks, checkVars
    <3>3. Types' /\ LeasesOfNode'
      BY <2>1, <3>1, <3>2 DEF Types, RepSteps, LeasesOfNode
    <3>4. PendingHold'
      BY <2>1, <3>1, <3>2 DEF Types, Call, LeasesOfNode, PendingHold
    <3>5. HoldersStored'
      BY <2>1, <3>1, <3>2 DEF Types, LeasesOfNode, HoldersStored, Stored
    <3>6. ReadRunning' /\ ReadUnlisted' /\ LoopSafe' /\ ReleaseSafe'
      BY <2>1, <3>1, <3>2 DEF Types, Lease, ReadRunning, ReadUnlisted, LoopSafe, ReleaseSafe, Done,
                              Suspect
    <3> QED
      BY <3>3, <3>4, <3>5, <3>6
  <2>2. CASE /\ Free(r) /\ rep' = [rep EXCEPT ![r] = "asking"]
             /\ leases' = [leases EXCEPT ![NodeOf[r]] = r]
             /\ unlisted' = [unlisted EXCEPT ![NodeOf[r]] = 0]
             /\ pending' = pending \cup {[r |-> r, heard |-> TRUE]}
    <3> DEFINE d == [r |-> r, heard |-> TRUE]
    <3>1. rep[r] = "waiting" /\ loaded
      BY <1>3 DEF Asks
    <3>2. UNCHANGED <<loaded, stored, check, states, todo, releasing, faults>>
      BY <1>3 DEF Asks, checkVars
    <3>3. d \in Call /\ d.r = r /\ d.heard
      BY DEF Call
    <3>4. \A c \in pending : NodeOf[c.r] # NodeOf[r]
      BY <2>2 DEF Free, Types, Call, PendingHold
    <3> HIDE DEF d
    <3>5. pending' = pending \cup {d}
      BY <2>2 DEF d
    <3>6. Types' /\ LeasesOfNode'
      BY <2>2, <3>1, <3>2, <3>3, <3>5 DEF Types, RepSteps, LeasesOfNode
    <3>7. PendingHold'
      <4>1. \A c, e \in pending' : NodeOf[c.r] = NodeOf[e.r] => c = e
        BY <3>3, <3>4, <3>5 DEF PendingHold
      <4>2. \A c \in pending' :
              /\ leases'[NodeOf[c.r]] = c.r /\ loaded'
              /\ IF c.heard THEN rep'[c.r] = "asking"
                 ELSE /\ rep'[c.r] \in {"waiting", "loading", "dead", "gone"}
                      /\ rep'[c.r] \in {"waiting", "loading"} => faults'["call"] > 0
        BY <2>2, <3>1, <3>2, <3>3, <3>4, <3>5 DEF Types, Call, PendingHold
      <4>3. \A q \in Replicas : rep'[q] = "asking" => \E c \in pending' : c.r = q /\ c.heard
        BY <2>2, <3>3, <3>5 DEF Types, PendingHold
      <4> QED
        BY <4>1, <4>2, <4>3 DEF PendingHold
    <3>8. HoldersStored'
      BY <2>2, <3>1, <3>2, <3>3, <3>5 DEF Types, Free, LeasesOfNode, HoldersStored, Stored
    <3>9. ReadRunning' /\ ReadUnlisted' /\ LoopSafe' /\ ReleaseSafe'
      BY <2>2, <3>1, <3>2, <3>3, <3>5 DEF Types, Free, Lease, ReadRunning, ReadUnlisted, LoopSafe,
                                          ReleaseSafe, Done, Suspect
    <3> QED
      BY <3>6, <3>7, <3>8, <3>9
  <2> QED
    BY <1>3, <2>1, <2>2 DEF Asks
<1>4. ASSUME NEW r \in Replicas, Dies(r) \/ CallLost(r) PROVE LeaseInv'
  <2>1. Heard(r)
    BY <1>4, HearsNot DEF Dies, CallLost, Types
  <2>2. rep'[r] \in {"waiting", "dead"} /\ \A q \in Replicas \ {r} : rep'[q] = rep[q]
    BY <1>4 DEF Dies, Becomes, CallLost, CallsRaise, Types
  <2>3. rep' \in [Replicas -> RepSteps]
    BY <1>4 DEF Dies, Becomes, CallLost, CallsRaise, Types, RepSteps
  <2>4. UNCHANGED <<leases, unlisted, loaded, stored, check, states, todo, releasing>>
    BY <1>4 DEF Dies, CallLost, checkVars
  <2>5. /\ rep[r] # "new" /\ rep[r] # "gone"
        /\ rep'[r] = "waiting" => rep[r] = "asking" /\ faults'["call"] > 0
    <3>1. CASE Dies(r)
      BY <3>1 DEF Dies, Becomes, Types
    <3>2. CASE CallLost(r)
      BY <3>2, FaultCounts DEF CallLost, FaultKinds
    <3> QED
      BY <1>4, <3>1, <3>2
  <2>6. faults' \in [FaultKinds -> Nat] /\ (faults["call"] > 0 => faults'["call"] > 0)
    BY <1>4, FaultCounts DEF Dies, CallLost, FaultKinds
  <2>7. Types' /\ LeasesOfNode'
    BY <2>1, <2>2, <2>3, <2>4, <2>5, <2>6 DEF Heard, Types, LeasesOfNode
  <2>8. PendingHold'
    <3>1. \A c, e \in pending' : NodeOf[c.r] = NodeOf[e.r] => c = e
      <4> SUFFICES ASSUME NEW c \in pending', NEW e \in pending', NodeOf[c.r] = NodeOf[e.r]
                   PROVE  c = e
        OBVIOUS
      <4>1. PICK c0 \in pending : c.r = c0.r /\ (c.r # r => c = c0)
        BY <2>1 DEF Heard
      <4>2. PICK e0 \in pending : e.r = e0.r /\ (e.r # r => e = e0)
        BY <2>1 DEF Heard
      <4>3. c0 = e0
        BY <4>1, <4>2 DEF PendingHold
      <4>4. CASE c.r = r
        <5>1. e.r = r
          BY <4>1, <4>2, <4>3, <4>4
        <5>2. c = [r |-> r, heard |-> FALSE] /\ e = [r |-> r, heard |-> FALSE]
          BY <2>1, <4>4, <5>1 DEF Heard
        <5> QED
          BY <5>2
      <4> QED
        BY <4>1, <4>2, <4>3, <4>4
    <3>2. \A c \in pending' :
            /\ leases'[NodeOf[c.r]] = c.r /\ loaded'
            /\ IF c.heard THEN rep'[c.r] = "asking"
               ELSE /\ rep'[c.r] \in {"waiting", "loading", "dead", "gone"}
                    /\ rep'[c.r] \in {"waiting", "loading"} => faults'["call"] > 0
      BY <2>1, <2>2, <2>4, <2>5, <2>6 DEF Heard, Types, Call, PendingHold
    <3>3. \A q \in Replicas : rep'[q] = "asking" => \E c \in pending' : c.r = q /\ c.heard
      BY <2>1, <2>2 DEF Heard, PendingHold
    <3> QED
      BY <3>1, <3>2, <3>3 DEF PendingHold
  <2>9. HoldersStored'
    <3>1. \A q \in Replicas : Stored(q) => Stored(q)'
      BY <2>1, <2>4 DEF Heard, Stored
    <3> QED
      BY <2>2, <2>4, <2>5, <3>1 DEF HoldersStored
  <2>10. \A q \in Replicas : Done(q) => Done(q)'
    BY <2>1, <2>2, <2>5 DEF Heard, Done
  <2>11. \A n \in Nodes : \A q \in Replicas : Suspect(n, q) => Suspect(n, q)'
    BY <2>1, <2>2, <2>4, <2>5 DEF Heard, Suspect
  <2>12. ReadRunning' /\ ReadUnlisted' /\ LoopSafe' /\ ReleaseSafe'
    BY <2>1, <2>4, <2>10, <2>11 DEF Heard, Types, Lease, ReadRunning, ReadUnlisted, LoopSafe,
                                    ReleaseSafe
  <2> QED
    BY <2>7, <2>8, <2>9, <2>12
<1>5. ASSUME NEW c \in pending, GrantStored(c) PROVE LeaseInv'
  <2>1. Types'
    BY <1>5 DEF GrantStored, Answer, checkVars, Types, RepSteps, Call
  <2>2. LeasesOfNode' /\ PendingHold'
    BY <1>5 DEF GrantStored, Answer, checkVars, Types, Call, LeasesOfNode, PendingHold
  <2>3. HoldersStored'
    BY <1>5 DEF GrantStored, Answer, checkVars, Types, Call, LeasesOfNode, PendingHold,
                HoldersStored, Stored
  <2>4. ReadRunning' /\ ReadUnlisted'
    BY <1>5 DEF GrantStored, Answer, checkVars, Types, Call, PendingHold, ReadRunning, Done,
                ReadUnlisted, Suspect
  <2>5. LoopSafe' /\ ReleaseSafe'
    BY <1>5 DEF GrantStored, Answer, checkVars, Types, Call, Lease, PendingHold, LoopSafe, Suspect,
                ReleaseSafe, Done
  <2> QED
    BY <2>1, <2>2, <2>3, <2>4, <2>5
<1>6. ASSUME NEW c \in pending, GrantFails(c) PROVE LeaseInv'
  <2>0. faults["call"] = 0
    BY <1>6, NoCallLost DEF GrantFails
  <2>1. Types'
    BY <1>6 DEF GrantFails, Answer, Fault, FaultKinds, checkVars, Types, RepSteps, Call
  <2>2. LeasesOfNode'
    BY <1>6 DEF GrantFails, Answer, checkVars, Types, Call, LeasesOfNode, PendingHold
  <2>3. PendingHold'
    BY <1>6 DEF GrantFails, Answer, Fault, FaultKinds, checkVars, Types, Call, PendingHold
  <2>4. HoldersStored'
    BY <1>6, <2>0 DEF GrantFails, Answer, checkVars, Types, Call, LeasesOfNode, PendingHold,
                      HoldersStored, Stored
  <2>5. ReadRunning' /\ ReadUnlisted'
    BY <1>6 DEF GrantFails, Answer, checkVars, Types, Call, PendingHold, ReadRunning, Done,
                ReadUnlisted, Suspect
  <2>6. LoopSafe' /\ ReleaseSafe'
    BY <1>6 DEF GrantFails, Answer, checkVars, Types, Call, Lease, LeasesOfNode, PendingHold,
                ReadRunning, LoopSafe, Suspect, ReleaseSafe, Done
  <2> QED
    BY <2>1, <2>2, <2>3, <2>4, <2>5, <2>6
<1>7. ASSUME LoadLeases PROVE LeaseInv'
  BY <1>7 DEF LoadLeases, checkVars, Types, LeasesOfNode, PendingHold, HoldersStored, Stored,
              ReadRunning, Done, ReadUnlisted, Suspect, LoopSafe, ReleaseSafe
<1>8. ASSUME ReadsServe PROVE LeaseInv'
  <2>1. Types'
    BY <1>8 DEF ReadsServe, Listed, Types
  <2> QED
    BY <1>8, <2>1 DEF ReadsServe, Listed, Types, LeasesOfNode, PendingHold, HoldersStored, Stored,
                      ReadRunning, Done, ReadUnlisted, Suspect, LoopSafe, ReleaseSafe
<1>9. ASSUME ListsLeases PROVE LeaseInv'
  BY <1>9 DEF ListsLeases, Leased, Types, Lease, LeasesOfNode, PendingHold, HoldersStored, Stored,
              ReadRunning, Done, ReadUnlisted, Suspect, LoopSafe, ReleaseSafe
<1>10. ASSUME NEW l \in todo, ChecksLease(l) PROVE LeaseInv'
  BY <1>10 DEF ChecksLease, Gone, Types, Lease, LeasesOfNode, PendingHold, HoldersStored, Stored,
               ReadRunning, Done, ReadUnlisted, Suspect, LoopSafe, ReleaseSafe
<1>11. ASSUME Releases PROVE LeaseInv'
  BY <1>11 DEF Releases, Fault, NoFault, FaultKinds, Types, Lease, LeasesOfNode, PendingHold,
               HoldersStored, Stored, ReadRunning, Done, ReadUnlisted, Suspect, LoopSafe,
               ReleaseSafe
<1>12. ASSUME CheckEnds PROVE LeaseInv'
  BY <1>12 DEF CheckEnds, NoStates, Types, LeasesOfNode, PendingHold, HoldersStored, Stored,
               ReadRunning, Done, ReadUnlisted, Suspect, LoopSafe, ReleaseSafe
<1>13. ASSUME Restarts PROVE LeaseInv'
  <2>1. faults["call"] = 0 /\ faults' \in [FaultKinds -> Nat]
    BY <1>13, NoCallLost, FaultCounts DEF Restarts, FaultKinds
  <2>2. /\ leases' = NoLeases /\ unlisted' = [n \in Nodes |-> 0] /\ loaded' = FALSE /\ pending' = {}
        /\ check' = "idle" /\ states' = NoStates /\ todo' = {} /\ releasing' = {}
    BY <1>13 DEF Restarts
  <2>3. /\ stored' \in [Nodes -> Replicas \cup {None}]
        /\ \A n \in Nodes :
             \/ stored'[n] = stored[n]
             \/ \E c \in pending : NodeOf[c.r] = n /\ stored'[n] = c.r
             \/ \E l \in releasing : l.n = n /\ stored'[n] = None
    BY <1>13 DEF Restarts
  <2>4. /\ rep' \in [Replicas -> RepSteps]
        /\ \A r \in Replicas : IF rep[r] = "asking" THEN rep'[r] \in {"waiting", "dead"}
                               ELSE rep'[r] = rep[r]
    BY <1>13 DEF Restarts, CallsRaise, Types, RepSteps
  <2>5. Types'
    BY <2>1, <2>2, <2>3, <2>4 DEF Types, NoLeases, NoStates
  <2>6. LeasesOfNode'
    BY <2>2, <2>3, <2>4 DEF Types, NoLeases, Call, LeasesOfNode, PendingHold
  <2>7. PendingHold'
    BY <2>2, <2>4 DEF Types, PendingHold
  <2>8. HoldersStored'
    \* a loading replica's write has ended, and nobody writes or deletes its key
    <3> SUFFICES ASSUME NEW r \in Replicas, rep'[r] = "loading" PROVE stored'[NodeOf[r]] = r
      BY <2>2 DEF HoldersStored, Stored, NoLeases
    <3>1. rep[r] = "loading" /\ \A c \in pending : c.r # r
      BY <2>1, <2>4 DEF PendingHold
    <3>2. stored[NodeOf[r]] = r /\ (loaded => leases[NodeOf[r]] = r)
      BY <3>1 DEF HoldersStored, Stored
    <3>3. \A c \in pending : NodeOf[c.r] # NodeOf[r]
      BY <3>1, <3>2 DEF PendingHold
    <3>4. \A l \in releasing : l.n # NodeOf[r]
      BY <3>1, <3>2 DEF ReleaseSafe, Done, ReadRunning, LoopSafe
    <3> QED
      BY <2>3, <3>2, <3>3, <3>4
  <2>9. ReadRunning' /\ ReadUnlisted' /\ LoopSafe' /\ ReleaseSafe'
    BY <2>2 DEF ReadRunning, ReadUnlisted, LoopSafe, ReleaseSafe
  <2> QED
    BY <2>5, <2>6, <2>7, <2>8, <2>9
<1> QED
  BY <1>1, <1>2, <1>3, <1>4, <1>5, <1>6, <1>7, <1>8, <1>9, <1>10, <1>11, <1>12, <1>13
     DEF Next, Coordinator, Replica, Trouble

\* Replicas that share a node load one at a time, and the store knows or is being told who does
\* (acquire, _check_leases, _release, _load_leases), through restarts of the coordinator, deaths of
\* replicas and failures of the store, or lost calls.
THEOREM LoadersExclude == CallsFailAlone => (Spec => []OneLoaderPerNode)
<1> SUFFICES ASSUME CallsFailAlone PROVE Spec => []OneLoaderPerNode
  OBVIOUS
<1>1. Init => LeaseInv
  BY InitInv
<1>2. LeaseInv /\ [Next]_vars => LeaseInv'
  BY InvStep
<1>3. LeaseInv => OneLoaderPerNode
  BY InvImplies
<1> QED
  BY <1>1, <1>2, <1>3, PTL DEF Spec
=============================================================================
