-------------------------- MODULE SideBySideProofs --------------------------
(***************************************************************************)
(* Theorems of four parts that share no state: the tails of a background     *)
(* response (BackgroundResponse), the gateway's answers (HttpGateway), the   *)
(* plan of a deploy (DeployPlan) and the sizing of a node's models           *)
(* (Preflight).                                                              *)
(***************************************************************************)
EXTENDS BackgroundResponse, HttpGateway, DeployPlan, Preflight, TLAPS, SequenceTheorems,
        FiniteSetTheorems, WellFoundedInduction

-----------------------------------------------------------------------------
(* Background responses: what a tail delivers.                               *)

\* What the variables range over: events of the replay log, and the records of the tails.
EventSet == [n : Nat, end : {"none", "completed", "failed"}]
TailSteps == {"new", "read", "record", "alive", "orphan", "discard", "ended"}
TailSet ==
  [at : TailSteps, from : Nat, after : Nat,
   got : Seq(EventSet)]

\* The parts of the type invariant, one per group of variables.
RunType ==
  /\ status \in {"absent", "queued", "completed", "failed", "cancelled", "gone"}
  /\ run \in {"new", "placed", "drain", "flush", "failing", "cleanup", "over", "dead"}
  /\ next \in Nat /\ pending \in Seq(EventSet) /\ buffer \in Seq(EventSet)
HeartType == beat \in Nat /\ youth \in Nat /\ due \in {0, 1} /\ faults \in 0..MaxFaults
FlagType == signal \in BOOLEAN /\ seeded \in BOOLEAN /\ gap \in BOOLEAN
HandlerType == handler \in [op : Ops, at : {"idle", "find", "signal", "write", "discard", "over"}]
TailType == tail \in [Tailers -> TailSet]

\* Before the task is started there is nothing to follow, cancel or delete.
Untold ==
  /\ status = "absent" <=> run = "new"
  /\ run = "placed" => status = "queued"
  /\ run \in {"new", "placed"} =>
       /\ pending = <<>> /\ buffer = <<>> /\ next = 0 /\ handler.at = "idle" /\ ~seeded
       /\ \A t \in Tailers : tail[t].at = "new"
  /\ \A t \in Tailers : tail[t].at = "new" => tail[t].got = <<>>
  /\ \A t \in Tailers : tail[t].at = "discard" => status # "queued"

\* The type invariant of a background response.
BackgroundTypes == RunType /\ HeartType /\ FlagType /\ HandlerType /\ TailType /\ Untold

\* Events, and logs of them.
LEMMA EventType ==
  /\ \A n \in Nat, end \in {"none", "completed", "failed"} : Event(n, end) \in EventSet
  /\ \A e \in EventSet : e.n \in Nat /\ e.end \in {"none", "completed", "failed"}
BY DEF Event, EventSet

\* What the queue operations make of a log of events is a log of events.
LEMMA EventSeqs ==
  ASSUME NEW s \in Seq(EventSet)
  PROVE  /\ \A e \in EventSet : Append(s, e) \in Seq(EventSet)
         /\ s # <<>> => /\ Head(s) \in EventSet /\ Tail(s) \in Seq(EventSet)
                        /\ Last(s) \in EventSet /\ Last(s) = s[Len(s)]
         /\ <<>> \in Seq(EventSet)
<1>1. s # <<>> => Len(s) \in DOMAIN s
  BY EmptySeq, LenProperties
<1> QED
  BY <1>1, AppendProperties, HeadTailProperties, ElementOfSeq DEF Last

\* What the changes of a tail leave alone.
LEMMA TailMoves ==
  ASSUME TailType, NEW t \in Tailers, NEW there \in TailSteps, Tails(t, there)
  PROVE  /\ TailType'
         /\ \A u \in Tailers \ {t} : tail'[u] = tail[u]
         /\ tail'[t].at = there /\ tail'[t].from = tail[t].from /\ tail'[t].after = tail[t].after
         /\ tail'[t].got = tail[t].got
<1>1. tail[t] \in TailSet /\ tail' = [tail EXCEPT ![t].at = there]
  BY DEF TailType, Tails
<1>2. tail' = [tail EXCEPT ![t] = [tail[t] EXCEPT !.at = there]]
  BY <1>1 DEF TailType
<1>3. [tail[t] EXCEPT !.at = there] \in TailSet
  BY <1>1 DEF TailSet
<1> QED
  BY <1>1, <1>2, <1>3 DEF TailType, TailSet

\* A tail that connects changes its own record only, and starts at its cursor.
LEMMA TailConnects ==
  ASSUME TailType, NEW t \in Tailers, NEW n \in Nat,
         tail' = [tail EXCEPT ![t].at = "read", ![t].from = n, ![t].after = n]
  PROVE  /\ TailType'
         /\ \A u \in Tailers \ {t} : tail'[u] = tail[u]
         /\ tail'[t].at = "read" /\ tail'[t].from = n /\ tail'[t].after = n
         /\ tail'[t].got = tail[t].got
<1>1. tail[t] \in TailSet
  BY DEF TailType
<1>2. tail' = [tail EXCEPT ![t] = [tail[t] EXCEPT !.at = "read", !.from = n, !.after = n]]
  BY <1>1 DEF TailType, TailSet
<1>3. [tail[t] EXCEPT !.at = "read", !.from = n, !.after = n] \in TailSet
  BY <1>1 DEF TailSet, TailSteps
<1> QED
  BY <1>1, <1>2, <1>3 DEF TailType, TailSet

\* A tail delivers the events s, moves its cursor to n, and goes on at there.
TailAdds(t, s, n, there) ==
  \/ tail' = [tail EXCEPT ![t].got = @ \o s, ![t].after = n, ![t].at = there]
  \/ n = tail[t].after /\ tail' = [tail EXCEPT ![t].got = @ \o s, ![t].at = there]

\* The same, field by field.
TailAdded(t, s, n, there) ==
  /\ TailType'
  /\ \A u \in Tailers \ {t} : tail'[u] = tail[u]
  /\ tail'[t].at = there /\ tail'[t].from = tail[t].from /\ tail'[t].after = n
  /\ tail'[t].got = tail[t].got \o s

\* The two ways the actions write it come to the same.
LEMMA TailReads ==
  ASSUME TailType, NEW t \in Tailers, NEW n \in Nat, NEW s \in Seq(EventSet), NEW there \in TailSteps,
         TailAdds(t, s, n, there)
  PROVE  TailAdded(t, s, n, there)
<1>1. tail[t] \in TailSet
  BY DEF TailType
<1>2. tail' = [tail EXCEPT ![t] = [tail[t] EXCEPT !.got = @ \o s, !.after = n, !.at = there]]
  BY <1>1 DEF TailType, TailSet, TailAdds
<1>3. tail[t].got \o s \in Seq(EventSet)
  BY <1>1, ConcatProperties DEF TailSet
<1>4. [tail[t] EXCEPT !.got = @ \o s, !.after = n, !.at = there] \in TailSet
  BY <1>1, <1>3 DEF TailSet
<1> QED
  BY <1>1, <1>2, <1>4 DEF TailType, TailSet, TailAdded

\* What is synthesised for a settled response.
LEMMA SynthesisedType ==
  ASSUME BackgroundTypes, NEW t \in Tailers, status \in {"completed", "failed", "cancelled"}
  PROVE  Synthesised(t) \in Seq(EventSet)
<1>1. tail[t].after \in Nat
  BY DEF BackgroundTypes, TailType, TailSet
<1>2. \A n \in Nat : Event(n, "none") \in EventSet /\ (status # "cancelled" => Event(n, status) \in EventSet)
  BY EventType
<1>3. \A e \in EventSet : <<e>> \in Seq(EventSet)
  OBVIOUS
<1>4. \A r, s \in Seq(EventSet) : r \o s \in Seq(EventSet)
  BY ConcatProperties
<1>5. /\ (IF tail[t].after = 0 THEN <<Event(0, "none")>> ELSE <<>>) \in Seq(EventSet)
      /\ (IF tail[t].after = 0 THEN 1 ELSE tail[t].after) \in Nat
  BY <1>1, <1>2, <1>3
<1>6. \A n \in Nat : (IF status = "cancelled" THEN <<>> ELSE <<Event(n, status)>>) \in Seq(EventSet)
  BY <1>2, <1>3
<1> QED
  BY <1>4, <1>5, <1>6 DEF Synthesised

\* The suffix of the log that a read returns.
LEMMA ReadType ==
  ASSUME RunType, NEW k \in 0..Len(buffer)
  PROVE  /\ SubSeq(buffer, k + 1, Len(buffer)) \in Seq(EventSet)
         /\ Len(SubSeq(buffer, k + 1, Len(buffer))) = Len(buffer) - k
         /\ \A i \in 1..(Len(buffer) - k) : SubSeq(buffer, k + 1, Len(buffer))[i] = buffer[k + i]
<1>1. buffer \in Seq(EventSet) /\ Len(buffer) \in Nat
  BY LenProperties DEF RunType
<1>2. \A i \in (k + 1)..Len(buffer) : buffer[i] \in EventSet
  BY <1>1, ElementOfSeq
<1> QED
  BY <1>1, <1>2, SubSeqProperties

\* The four things a step of a tailer may do to its tail.
TailMoved(t) ==
  /\ tail[t].at \notin {"new", "ended"} /\ tail'[t].at # "new"
  /\ tail'[t].from = tail[t].from /\ tail'[t].after = tail[t].after /\ tail'[t].got = tail[t].got
  /\ tail'[t].at = "discard" => status' # "queued"
  /\ tail'[t].at = "orphan" => ~IsAlive
\* The steps of a tail: it connects, reads the log on from its cursor, or is told the end.
TailConnected(t) ==
  /\ tail[t].at = "new" /\ tail'[t].at = "read"
  /\ tail'[t].got = tail[t].got /\ tail'[t].after = tail'[t].from
TailRead(t) ==
  /\ tail[t].at = "read" /\ tail'[t].at \in {"read", "ended"} /\ tail'[t].from = tail[t].from
  /\ \E k \in 0..(Len(buffer) - 1) :
       /\ \A i \in DOMAIN buffer : i > k <=> buffer[i].n >= tail[t].after
       /\ tail'[t].after = buffer[Len(buffer)].n + 1
       /\ tail'[t].got = tail[t].got \o SubSeq(buffer, k + 1, Len(buffer))
TailEnded(t) ==
  /\ tail[t].at \in {"record", "discard"} /\ tail'[t].at = "ended" /\ tail'[t].from = tail[t].from
  /\ status \in {"completed", "failed", "cancelled"}
  /\ tail'[t].got = tail[t].got \o Synthesised(t)

\* A step of a tail is one of these, and no other tail notices.
LEMMA TailerEffect ==
  ASSUME BackgroundTypes, NEW t \in Tailers, Connects(t) \/ Tailer(t) \/ TailFails(t)
  PROVE  /\ TailType' /\ run \notin {"new", "placed"}
         /\ \A u \in Tailers \ {t} : tail'[u] = tail[u]
         /\ TailMoved(t) \/ TailConnected(t) \/ TailRead(t) \/ TailEnded(t)
<1> USE DEF BackgroundTypes
<1>1. CASE Connects(t)
  <2>1. PICK n \in 0..next : tail' = [tail EXCEPT ![t].at = "read", ![t].from = n, ![t].after = n]
    BY <1>1 DEF Connects
  <2>2. n \in Nat
    BY DEF RunType
  <2> QED
    BY <1>1, <2>1, <2>2, TailConnects DEF Connects, TailConnected
<1>2. CASE ReadsEvents(t)
  <2>0. run \notin {"new", "placed"} /\ tail[t].at = "read"
    BY <1>2 DEF ReadsEvents, Untold
  <2>1. PICK k \in 0..Len(buffer) :
          /\ \A i \in DOMAIN buffer : i > k <=> buffer[i].n >= tail[t].after
          /\ LET new == SubSeq(buffer, k + 1, Len(buffer))
             IN IF new = <<>> THEN Tails(t, "record")
                ELSE tail' = [tail EXCEPT
                       ![t].got = @ \o new, ![t].after = Last(new).n + 1,
                       ![t].at = IF Last(new).end = "none" THEN "read" ELSE "ended"]
    BY <1>2 DEF ReadsEvents
  <2> DEFINE new == SubSeq(buffer, k + 1, Len(buffer))
  <2>2. /\ new \in Seq(EventSet) /\ Len(new) = Len(buffer) - k
        /\ \A i \in 1..(Len(buffer) - k) : new[i] = buffer[k + i]
    BY ReadType
  <2> HIDE DEF new
  <2>3. new # <<>> => k \in 0..(Len(buffer) - 1) /\ Last(new) = buffer[Len(buffer)]
    <3>1. new # <<>> => Len(new) \in Nat \ {0} /\ Last(new) = new[Len(new)]
      BY <2>2, EventSeqs, EmptySeq, LenProperties
    <3>2. Len(buffer) \in Nat
      BY LenProperties DEF RunType
    <3> QED
      BY <2>2, <3>1, <3>2
  <2>4. CASE new = <<>>
    <3>1. Tails(t, "record")
      BY <2>1, <2>4 DEF new
    <3> QED
      BY <2>0, <3>1, TailMoves DEF TailSteps, TailMoved
  <2>5. CASE new # <<>>
    <3>1. Last(new).n + 1 \in Nat
      BY <2>2, <2>5, EventSeqs, EventType
    <3>2. PICK there \in {"read", "ended"} :
            tail' = [tail EXCEPT ![t].got = @ \o new, ![t].after = Last(new).n + 1, ![t].at = there]
      BY <2>1, <2>5 DEF new
    <3>3. there \in TailSteps
      BY DEF TailSteps
    <3>4. /\ TailType' /\ \A u \in Tailers \ {t} : tail'[u] = tail[u]
          /\ tail'[t].at = there /\ tail'[t].from = tail[t].from /\ tail'[t].after = Last(new).n + 1
          /\ tail'[t].got = tail[t].got \o new
      <4>1. TailAdds(t, new, Last(new).n + 1, there)
        BY <3>2 DEF TailAdds
      <4>2. new \in Seq(EventSet)
        BY <2>2
      <4>3. TailAdded(t, new, Last(new).n + 1, there)
        BY <3>1, <3>3, <4>1, <4>2, TailReads
      <4> QED
        BY <4>3, Zenon DEF TailAdded
    <3>5. TailRead(t)
      BY <2>0, <2>1, <2>3, <2>5, <3>4 DEF TailRead, new
    <3> QED
      BY <2>0, <3>4, <3>5
  <2> QED
    BY <2>4, <2>5
<1>3. CASE ReadsRecord(t) \/ Reconciles(t)
  <2>1. run \notin {"new", "placed"} /\ tail[t].at \in {"record", "discard"} /\ status # "absent"
    BY <1>3 DEF ReadsRecord, Reconciles, Untold
  <2>2. CASE \E there \in {"read", "alive", "ended"} : Tails(t, there)
    <3>1. PICK there \in {"read", "alive", "ended"} : Tails(t, there)
      BY <2>2
    <3>2. there \in TailSteps
      BY DEF TailSteps
    <3> QED
      BY <2>1, <3>1, <3>2, TailMoves DEF TailMoved
  <2>3. CASE Ends(t) /\ status \in {"completed", "failed", "cancelled"}
    <3>1. Synthesised(t) \in Seq(EventSet) /\ tail[t].after \in Nat
      BY <2>3, SynthesisedType DEF TailType, TailSet
    <3>2. TailAdds(t, Synthesised(t), tail[t].after, "ended")
      BY <2>3 DEF Ends, TailAdds
    <3> QED
      BY <2>1, <2>3, <3>1, <3>2, TailReads DEF TailSteps, TailEnded, TailAdded
  <2>4. CASE ReadsRecord(t)
    BY <2>1, <2>2, <2>3, <2>4 DEF ReadsRecord, RunType
  <2>5. CASE Reconciles(t)
    BY <2>1, <2>2, <2>3, <2>5 DEF Reconciles, RunType, Untold
  <2> QED
    BY <1>3, <2>4, <2>5
<1>4. CASE AsksAlive(t) \/ Orphans(t) \/ TailFails(t)
  <2>1. run \notin {"new", "placed"} /\ tail[t].at \notin {"new", "ended"}
    BY <1>4 DEF AsksAlive, Orphans, TailFails, Untold
  <2>2. PICK there \in TailSteps \ {"new"} :
          Tails(t, there) /\ (there = "discard" => status' # "queued") /\ (there = "orphan" => ~IsAlive)
    BY <1>4 DEF AsksAlive, Orphans, TailFails, Settled, TailSteps
  <2> QED
    BY <2>1, <2>2, TailMoves DEF TailMoved
<1> QED
  BY <1>1, <1>2, <1>3, <1>4 DEF Tailer

\* The type invariant holds at first.
LEMMA InitBackground == Init => BackgroundTypes
<1> SUFFICES ASSUME Init PROVE BackgroundTypes
  OBVIOUS
<1>1. RunType
  BY DEF Init, RunType
<1>2. HeartType
  BY BackgroundAssumption DEF Init, HeartType
<1>3. FlagType /\ HandlerType
  BY DEF Init, FlagType, HandlerType
<1>4. TailType
  BY DEF Init, TailType, TailSet, TailSteps
<1>5. Untold
  BY DEF Init, Untold
<1> QED
  BY <1>1, <1>2, <1>3, <1>4, <1>5 DEF BackgroundTypes

\* Every step keeps the type invariant.
LEMMA BackgroundTypesStep == BackgroundTypes /\ [Next]_vars => BackgroundTypes'
<1> SUFFICES ASSUME BackgroundTypes, [Next]_vars PROVE BackgroundTypes'
  OBVIOUS
<1> USE DEF BackgroundTypes
<1>1. CASE Run
  <2>1. CASE Places
    <3> USE <2>1 DEF Places, NoFault, Fault, onlyRun
    <3>1. RunType'
      BY EventType, EventSeqs DEF RunType
    <3>2. HeartType'
      BY BackgroundAssumption DEF HeartType
    <3>3. FlagType'
      BY DEF FlagType
    <3>4. HandlerType'
      BY DEF HandlerType, Ops
    <3>5. TailType'
      BY DEF TailType
    <3>6. Untold'
      BY DEF Untold, RunType
    <3> QED
      BY <3>1, <3>2, <3>3, <3>4, <3>5, <3>6
  <2>2. CASE StartsRun
    <3> USE <2>2 DEF StartsRun, NoFault, Fault
    <3>1. RunType'
      BY EventType, EventSeqs DEF RunType
    <3>2. HeartType'
      BY BackgroundAssumption DEF HeartType
    <3>3. FlagType'
      BY DEF FlagType
    <3>4. HandlerType'
      BY DEF HandlerType, Ops
    <3>5. TailType'
      BY DEF TailType
    <3>6. Untold'
      BY DEF Untold, RunType
    <3> QED
      BY <3>1, <3>2, <3>3, <3>4, <3>5, <3>6
  <2>3. CASE Flushes
    <3> USE <2>3 DEF Flushes, NoFault, Fault, onlyRun, DropsBuffer
    <3>1. RunType'
      BY EventType, EventSeqs DEF RunType
    <3>2. HeartType'
      BY BackgroundAssumption DEF HeartType
    <3>3. FlagType'
      BY DEF FlagType
    <3>4. HandlerType'
      BY DEF HandlerType, Ops
    <3>5. TailType'
      BY DEF TailType
    <3>6. Untold'
      BY DEF Untold, RunType
    <3> QED
      BY <3>1, <3>2, <3>3, <3>4, <3>5, <3>6
  <2>4. CASE WritesFailed
    <3> USE <2>4 DEF WritesFailed, NoFault, Fault, onlyRun, Settled
    <3>1. RunType'
      BY EventType, EventSeqs DEF RunType
    <3>2. HeartType'
      BY BackgroundAssumption DEF HeartType
    <3>3. FlagType'
      BY DEF FlagType
    <3>4. HandlerType'
      BY DEF HandlerType, Ops
    <3>5. TailType'
      BY DEF TailType
    <3>6. Untold'
      BY DEF Untold, RunType
    <3> QED
      BY <3>1, <3>2, <3>3, <3>4, <3>5, <3>6
  <2>5. CASE CleansUp
    <3> USE <2>5 DEF CleansUp, NoFault, Fault, onlyRun, DropsBuffer
    <3>1. RunType'
      BY EventType, EventSeqs DEF RunType
    <3>2. HeartType'
      BY BackgroundAssumption DEF HeartType
    <3>3. FlagType'
      BY DEF FlagType
    <3>4. HandlerType'
      BY DEF HandlerType, Ops
    <3>5. TailType'
      BY DEF TailType
    <3>6. Untold'
      BY DEF Untold, RunType
    <3> QED
      BY <3>1, <3>2, <3>3, <3>4, <3>5, <3>6
  <2> QED
    BY <1>1, <2>1, <2>2, <2>3, <2>4, <2>5 DEF Run
<1>2. CASE Stream
  <2>1. CASE Emits
    <3> USE <2>1 DEF Emits, NoFault, Fault, onlyRun
    <3>1. RunType'
      BY EventType, EventSeqs DEF RunType
    <3>2. HeartType'
      BY BackgroundAssumption DEF HeartType
    <3>3. FlagType'
      BY DEF FlagType
    <3>4. HandlerType'
      BY DEF HandlerType, Ops
    <3>5. TailType'
      BY DEF TailType
    <3>6. Untold'
      BY DEF Untold, RunType
    <3> QED
      BY <3>1, <3>2, <3>3, <3>4, <3>5, <3>6
  <2>2. CASE Completes
    <3> USE <2>2 DEF Completes, NoFault, Fault, onlyRun, Settled
    <3>1. RunType'
      <4>1. /\ Append(pending, Event(next, "completed")) \in Seq(EventSet)
            /\ Append(pending, Event(next, "failed")) \in Seq(EventSet)
        BY EventType, EventSeqs DEF RunType
      <4> QED
        BY <4>1, SMTT(30) DEF RunType
    <3>2. HeartType'
      BY BackgroundAssumption DEF HeartType
    <3>3. FlagType'
      BY DEF FlagType
    <3>4. HandlerType'
      BY DEF HandlerType, Ops
    <3>5. TailType'
      BY DEF TailType
    <3>6. Untold'
      BY DEF Untold, RunType
    <3> QED
      BY <3>1, <3>2, <3>3, <3>4, <3>5, <3>6
  <2>3. CASE StreamFails
    <3> USE <2>3 DEF StreamFails, NoFault, Fault, onlyRun
    <3>1. RunType'
      BY EventType, EventSeqs DEF RunType
    <3>2. HeartType'
      BY BackgroundAssumption DEF HeartType
    <3>3. FlagType'
      BY DEF FlagType
    <3>4. HandlerType'
      BY DEF HandlerType, Ops
    <3>5. TailType'
      BY DEF TailType
    <3>6. Untold'
      BY DEF Untold, RunType
    <3> QED
      BY <3>1, <3>2, <3>3, <3>4, <3>5, <3>6
  <2>4. CASE StreamBreaks
    <3> USE <2>4 DEF StreamBreaks, NoFault, Fault, onlyRun
    <3>1. RunType'
      BY EventType, EventSeqs DEF RunType
    <3>2. HeartType'
      BY BackgroundAssumption DEF HeartType
    <3>3. FlagType'
      BY DEF FlagType
    <3>4. HandlerType'
      BY DEF HandlerType, Ops
    <3>5. TailType'
      BY DEF TailType
    <3>6. Untold'
      BY DEF Untold, RunType
    <3> QED
      BY <3>1, <3>2, <3>3, <3>4, <3>5, <3>6
  <2> QED
    BY <1>2, <2>1, <2>2, <2>3, <2>4 DEF Stream
<1>3. CASE Buffers \/ Heart \/ Dies
  <2>1. CASE Buffers
    <3> USE <2>1 DEF Buffers, NoFault, Fault, Buffered, onlyRun
    <3>1. RunType'
      BY EventType, EventSeqs DEF RunType
    <3>2. HeartType'
      BY BackgroundAssumption DEF HeartType
    <3>3. FlagType'
      BY DEF FlagType
    <3>4. HandlerType'
      BY DEF HandlerType, Ops
    <3>5. TailType'
      BY DEF TailType
    <3>6. Untold'
      BY DEF Untold, RunType
    <3> QED
      BY <3>1, <3>2, <3>3, <3>4, <3>5, <3>6
  <2>2. CASE Beats
    <3> USE <2>2 DEF Beats, NoFault, Fault, Stops, Live
    <3>1. RunType'
      BY EventType, EventSeqs DEF RunType
    <3>2. HeartType'
      BY BackgroundAssumption DEF HeartType
    <3>3. FlagType'
      BY DEF FlagType
    <3>4. HandlerType'
      BY DEF HandlerType, Ops
    <3>5. TailType'
      BY DEF TailType
    <3>6. Untold'
      BY DEF Untold, RunType
    <3> QED
      BY <3>1, <3>2, <3>3, <3>4, <3>5, <3>6
  <2>3. CASE BeatsBlindly
    <3> USE <2>3 DEF BeatsBlindly, NoFault, Fault, Live
    <3>1. RunType'
      BY EventType, EventSeqs DEF RunType
    <3>2. HeartType'
      BY BackgroundAssumption DEF HeartType
    <3>3. FlagType'
      BY DEF FlagType
    <3>4. HandlerType'
      BY DEF HandlerType, Ops
    <3>5. TailType'
      BY DEF TailType
    <3>6. Untold'
      BY DEF Untold, RunType
    <3> QED
      BY <3>1, <3>2, <3>3, <3>4, <3>5, <3>6
  <2>4. CASE Dies
    <3> USE <2>4 DEF Dies, NoFault, Fault, onlyRun
    <3>1. RunType'
      BY EventType, EventSeqs DEF RunType
    <3>2. HeartType'
      BY BackgroundAssumption DEF HeartType
    <3>3. FlagType'
      BY DEF FlagType
    <3>4. HandlerType'
      BY DEF HandlerType, Ops
    <3>5. TailType'
      BY DEF TailType
    <3>6. Untold'
      BY DEF Untold, RunType
    <3> QED
      BY <3>1, <3>2, <3>3, <3>4, <3>5, <3>6
  <2> QED
    BY <1>3, <2>1, <2>2, <2>3, <2>4 DEF Heart
<1>4. CASE Tick \/ RegistryRestarts
  <2>1. CASE Tick
    <3> USE <2>1 DEF Tick, NoFault, Fault, Less
    <3>1. RunType'
      BY EventType, EventSeqs DEF RunType
    <3>2. HeartType'
      BY BackgroundAssumption DEF HeartType
    <3>3. FlagType'
      BY DEF FlagType
    <3>4. HandlerType'
      BY DEF HandlerType, Ops
    <3>5. TailType'
      BY DEF TailType
    <3>6. Untold'
      BY DEF Untold, RunType
    <3> QED
      BY <3>1, <3>2, <3>3, <3>4, <3>5, <3>6
  <2>2. CASE RegistryRestarts
    <3> USE <2>2 DEF RegistryRestarts, NoFault, Fault
    <3>1. RunType'
      BY EventType, EventSeqs DEF RunType
    <3>2. HeartType'
      BY BackgroundAssumption DEF HeartType
    <3>3. FlagType'
      BY DEF FlagType
    <3>4. HandlerType'
      BY DEF HandlerType, Ops
    <3>5. TailType'
      BY DEF TailType
    <3>6. Untold'
      BY DEF Untold, RunType
    <3> QED
      BY <3>1, <3>2, <3>3, <3>4, <3>5, <3>6
  <2> QED
    BY <1>4, <2>1, <2>2
<1>5. CASE Handler
  <2>1. CASE LooksUp
    <3> USE <2>1 DEF LooksUp, NoFault, Fault, GoesOn, onlyHandler
    <3>1. RunType'
      BY EventType, EventSeqs DEF RunType
    <3>2. HeartType'
      BY BackgroundAssumption DEF HeartType
    <3>3. FlagType'
      BY DEF FlagType
    <3>4. HandlerType'
      BY DEF HandlerType, Ops
    <3>5. TailType'
      BY DEF TailType
    <3>6. Untold'
      BY DEF Untold, RunType
    <3> QED
      BY <3>1, <3>2, <3>3, <3>4, <3>5, <3>6
  <2>2. CASE Finds
    <3> USE <2>2 DEF Finds, NoFault, Fault, GoesOn, onlyHandler
    <3>1. RunType'
      BY EventType, EventSeqs DEF RunType
    <3>2. HeartType'
      BY BackgroundAssumption DEF HeartType
    <3>3. FlagType'
      BY DEF FlagType
    <3>4. HandlerType'
      BY DEF HandlerType, Ops
    <3>5. TailType'
      BY DEF TailType
    <3>6. Untold'
      BY DEF Untold, RunType
    <3> QED
      BY <3>1, <3>2, <3>3, <3>4, <3>5, <3>6
  <2>3. CASE Signals
    <3> USE <2>3 DEF Signals, NoFault, Fault, GoesOn, onlyHandler
    <3>1. RunType'
      BY EventType, EventSeqs DEF RunType
    <3>2. HeartType'
      BY BackgroundAssumption DEF HeartType
    <3>3. FlagType'
      BY DEF FlagType
    <3>4. HandlerType'
      BY DEF HandlerType, Ops
    <3>5. TailType'
      BY DEF TailType
    <3>6. Untold'
      BY DEF Untold, RunType
    <3> QED
      BY <3>1, <3>2, <3>3, <3>4, <3>5, <3>6
  <2>4. CASE Writes
    <3> USE <2>4 DEF Writes, NoFault, Fault, GoesOn, onlyHandler, Settled
    <3>1. RunType'
      BY EventType, EventSeqs DEF RunType
    <3>2. HeartType'
      BY BackgroundAssumption DEF HeartType
    <3>3. FlagType'
      BY DEF FlagType
    <3>4. HandlerType'
      BY DEF HandlerType, Ops
    <3>5. TailType'
      BY DEF TailType
    <3>6. Untold'
      BY DEF Untold, RunType
    <3> QED
      BY <3>1, <3>2, <3>3, <3>4, <3>5, <3>6
  <2>5. CASE Discards
    <3> USE <2>5 DEF Discards, NoFault, Fault, GoesOn, onlyHandler, DropsBuffer
    <3>1. RunType'
      BY EventType, EventSeqs DEF RunType
    <3>2. HeartType'
      BY BackgroundAssumption DEF HeartType
    <3>3. FlagType'
      BY DEF FlagType
    <3>4. HandlerType'
      BY DEF HandlerType, Ops
    <3>5. TailType'
      BY DEF TailType
    <3>6. Untold'
      BY DEF Untold, RunType
    <3> QED
      BY <3>1, <3>2, <3>3, <3>4, <3>5, <3>6
  <2> QED
    BY <1>5, <2>1, <2>2, <2>3, <2>4, <2>5 DEF Handler
<1>7. ASSUME NEW t \in Tailers, Connects(t) \/ Tailer(t) \/ TailFails(t)
      PROVE  BackgroundTypes'
  <2>1. /\ UNCHANGED <<run, next, pending, beat, youth, due, signal, seeded, handler>>
        /\ status' = status \/ (status = "queued" /\ status' = "failed")
        /\ buffer' = buffer \/ buffer' = <<>>
        /\ gap' = gap \/ gap' = TRUE
        /\ faults' \in 0..MaxFaults
    <3> USE <1>7, BackgroundAssumption DEF NoFault, Fault, onlyTail, registryVars, HeartType
    <3>1. CASE Connects(t) \/ ReadsEvents(t) \/ ReadsRecord(t)
      BY <3>1 DEF Connects, ReadsEvents, ReadsRecord
    <3>2. CASE AsksAlive(t) \/ TailFails(t)
      BY <3>2 DEF AsksAlive, TailFails
    <3>3. CASE Orphans(t)
      BY <3>3 DEF Orphans, Settled
    <3>4. CASE Reconciles(t)
      BY <3>4 DEF Reconciles, DropsBuffer
    <3> QED
      BY <3>1, <3>2, <3>3, <3>4 DEF Tailer
  <2>2. RunType' /\ HeartType'
    BY <2>1, EventSeqs DEF RunType, HeartType
  <2>3. FlagType' /\ HandlerType'
    BY <2>1 DEF FlagType, HandlerType
  <2>4. TailType' /\ run \notin {"new", "placed"} /\ (\A u \in Tailers \ {t} : tail'[u] = tail[u])
          /\ tail'[t].at # "new" /\ (tail'[t].at = "discard" => status' # "queued")
    BY <1>7, TailerEffect DEF TailMoved, TailConnected, TailRead, TailEnded
  <2>5. Untold'
    BY <2>1, <2>4 DEF Untold, RunType
  <2> QED
    BY <2>2, <2>3, <2>4, <2>5
<1>8. CASE UNCHANGED vars
  BY <1>8 DEF vars, RunType, HeartType, FlagType, HandlerType, TailType, Untold
<1> QED
  BY <1>1, <1>2, <1>3, <1>4, <1>5, <1>7, <1>8 DEF Next

\* As long as every event was buffered, the log and the appends that are chained behind it
\* hold the events numbered from 0 on, and the run has emitted just these.
NumbersInOrder ==
  ~gap =>
    /\ \A i \in DOMAIN buffer : buffer[i].n = i - 1
    /\ \A i \in DOMAIN pending : pending[i].n = Len(buffer) + i - 1
    /\ run = "drain" => next = Len(buffer) + Len(pending)

\* What a step may do to the log and to what is chained behind it.
LogKept ==
  /\ buffer' = buffer /\ pending' \in {pending, <<>>}
  /\ \/ run' # "drain"
     \/ run \in {"placed", "drain"} /\ next' = next /\ pending' = pending
\* What a step does to the replay log: an event is chained, one is written, or all are dropped.
LogChains(end) ==
  /\ buffer' = buffer /\ run = "drain" /\ next' = next + 1
  /\ pending' = Append(pending, Event(next, end))
LogGrows ==
  /\ pending # <<>> /\ pending' = Tail(pending) /\ buffer' = Buffered(Head(pending))
  /\ run' = run /\ next' = next
LogDropped == buffer' = <<>> /\ pending' = <<>> /\ run' # "drain"

\* As long as no write was lost, a step does one of these to the replay log, or nothing.
LEMMA LogEffect ==
  ASSUME BackgroundTypes, [Next]_vars, ~gap'
  PROVE  /\ ~gap
         /\ \/ LogKept \/ LogGrows \/ LogDropped
            \/ \E end \in {"none", "completed", "failed"} : LogChains(end)
<1> USE DEF BackgroundTypes, FlagType, RunType
<1>1. CASE Run
  BY <1>1 DEF Run, Places, StartsRun, Flushes, WritesFailed, CleansUp, DropsBuffer, onlyRun,
              LogKept, LogDropped
<1>2. CASE Stream
  <2>1. CASE Emits
    BY <2>1 DEF Emits, LogChains
  <2>2. CASE Completes
    BY <2>2 DEF Completes, LogChains
  <2>3. CASE StreamFails
    BY <2>3 DEF StreamFails, LogChains
  <2>4. CASE StreamBreaks
    BY <2>4 DEF StreamBreaks, LogKept
  <2> QED
    BY <1>2, <2>1, <2>2, <2>3, <2>4 DEF Stream
<1>3. CASE Buffers
  BY <1>3 DEF Buffers, LogGrows
<1>4. CASE Heart \/ Dies \/ Tick \/ RegistryRestarts
  BY <1>4 DEF Heart, Beats, BeatsBlindly, Stops, Live, Dies, Tick, RegistryRestarts, LogKept
<1>5. CASE Handler
  BY <1>5 DEF Handler, LooksUp, Finds, Signals, Writes, Discards, onlyHandler, LogKept
<1>6. ASSUME NEW t \in Tailers, Connects(t) \/ Tailer(t) \/ TailFails(t)
      PROVE  ~gap /\ LogKept
  BY <1>6 DEF Connects, Tailer, TailFails, ReadsEvents, ReadsRecord, AsksAlive, Orphans,
              Reconciles, onlyTail, LogKept
<1>7. CASE UNCHANGED vars
  BY <1>7 DEF vars, LogKept
<1> QED
  BY <1>1, <1>2, <1>3, <1>4, <1>5, <1>6, <1>7 DEF Next

\* The store takes every event, for each is numbered one more than the last.
LEMMA NumbersStep ==
  ASSUME BackgroundTypes, BackgroundTypes', NumbersInOrder, [Next]_vars
  PROVE  NumbersInOrder'
<1> SUFFICES ASSUME ~gap'
             PROVE  /\ \A i \in DOMAIN buffer' : buffer'[i].n = i - 1
                    /\ \A i \in DOMAIN pending' : pending'[i].n = Len(buffer') + i - 1
                    /\ run' = "drain" => next' = Len(buffer') + Len(pending')
  BY DEF NumbersInOrder
<1>1. /\ buffer \in Seq(EventSet) /\ pending \in Seq(EventSet) /\ next \in Nat
      /\ Len(buffer) \in Nat /\ Len(pending) \in Nat
      /\ DOMAIN buffer = 1..Len(buffer) /\ DOMAIN pending = 1..Len(pending)
  BY LenProperties DEF BackgroundTypes, RunType
<1>2. /\ \A i \in DOMAIN buffer : buffer[i].n = i - 1
      /\ \A i \in DOMAIN pending : pending[i].n = Len(buffer) + i - 1
      /\ run = "drain" => next = Len(buffer) + Len(pending)
  BY LogEffect DEF NumbersInOrder
<1>0. run = "placed" => next = 0 /\ Len(buffer) = 0 /\ Len(pending) = 0
  <2>1. run = "placed" => next = 0 /\ buffer = <<>> /\ pending = <<>>
    BY DEF BackgroundTypes, Untold
  <2>2. Len(<<>>) = 0
    OBVIOUS
  <2> QED
    BY <2>1, <2>2
<1>3. CASE LogKept
  <2>1. CASE pending' = <<>>
    <3>1. Len(pending') = 0 /\ DOMAIN pending' = {}
      BY <2>1
    <3>2. run' = "drain" => next' = Len(buffer)
      <4>1. run' = "drain" => run \in {"placed", "drain"} /\ next' = next /\ Len(pending) = 0
        BY <1>3, <3>1 DEF LogKept
      <4>2. run = "drain" => next = Len(buffer) + Len(pending)
        BY <1>2
      <4>3. Len(buffer) \in Nat
        BY <1>1
      <4>4. run = "drain" /\ Len(pending) = 0 => next = Len(buffer)
        BY <4>2, <4>3
      <4>5. run = "placed" => next = Len(buffer)
        BY <1>0
      <4> QED
        BY <4>1, <4>4, <4>5
    <3> QED
      BY <1>1, <1>2, <1>3, <3>1, <3>2 DEF LogKept
  <2>2. CASE pending' = pending
    <3>1. run' = "drain" => next' = Len(buffer) + Len(pending)
      BY <1>0, <1>1, <1>2, <1>3 DEF LogKept
    <3> QED
      BY <1>1, <1>2, <1>3, <2>2, <3>1 DEF LogKept
  <2> QED
    BY <1>3, <2>1, <2>2 DEF LogKept
<1>4. CASE LogDropped
  BY <1>4 DEF LogDropped
<1>5. ASSUME NEW end \in {"none", "completed", "failed"}, LogChains(end)
      PROVE  /\ \A i \in DOMAIN buffer' : buffer'[i].n = i - 1
             /\ \A i \in DOMAIN pending' : pending'[i].n = Len(buffer') + i - 1
             /\ run' = "drain" => next' = Len(buffer') + Len(pending')
  <2>1. Event(next, end) \in EventSet /\ Event(next, end).n = next
    BY <1>1, EventType DEF Event
  <2>2. /\ Len(pending') = Len(pending) + 1 /\ DOMAIN pending' = 1..(Len(pending) + 1)
        /\ \A i \in 1..Len(pending) : pending'[i] = pending[i]
        /\ pending'[Len(pending) + 1] = Event(next, end)
    BY <1>1, <1>5, <2>1, AppendProperties DEF LogChains
  <2> QED
    BY <1>1, <1>2, <1>5, <2>1, <2>2 DEF LogChains
<1>6. CASE LogGrows
  <2>1. /\ Len(pending) \in Nat \ {0} /\ Head(pending) = pending[1] /\ Head(pending) \in EventSet
        /\ Len(pending') = Len(pending) - 1 /\ DOMAIN pending' = 1..(Len(pending) - 1)
        /\ \A i \in 1..(Len(pending) - 1) : pending'[i] = pending[i + 1]
    BY <1>1, <1>6, EmptySeq, LenProperties, HeadTailProperties DEF LogGrows
  <2>2. Head(pending).n = Len(buffer)
    BY <1>1, <1>2, <2>1
  <2>3. buffer' = Append(buffer, Head(pending))
    <3>1. CASE buffer = <<>>
      BY <1>6, <3>1 DEF LogGrows, Buffered
    <3>2. CASE buffer # <<>>
      <4>1. Len(buffer) \in DOMAIN buffer /\ Last(buffer) = buffer[Len(buffer)]
        BY <1>1, <3>2, EmptySeq, EventSeqs
      <4>2. Last(buffer).n < Head(pending).n
        BY <1>1, <1>2, <2>2, <4>1
      <4> QED
        BY <1>6, <4>2 DEF LogGrows, Buffered
    <3> QED
      BY <3>1, <3>2
  <2>4. /\ Len(buffer') = Len(buffer) + 1 /\ DOMAIN buffer' = 1..(Len(buffer) + 1)
        /\ \A i \in 1..Len(buffer) : buffer'[i] = buffer[i]
        /\ buffer'[Len(buffer) + 1] = Head(pending)
    BY <1>1, <2>1, <2>3, AppendProperties
  <2>5. \A i \in DOMAIN buffer' : buffer'[i].n = i - 1
    BY <1>1, <1>2, <2>2, <2>4
  <2>6. \A i \in DOMAIN pending' : pending'[i].n = Len(buffer') + i - 1
    <3> SUFFICES ASSUME NEW i \in DOMAIN pending' PROVE pending'[i].n = Len(buffer') + i - 1
      OBVIOUS
    <3>1. i \in 1..(Len(pending) - 1) /\ i + 1 \in DOMAIN pending
      BY <1>1, <2>1
    <3>2. pending'[i] = pending[i + 1] /\ pending[i + 1].n = Len(buffer) + (i + 1) - 1
      BY <1>2, <2>1, <3>1
    <3> QED
      BY <1>1, <2>4, <3>1, <3>2
  <2>7. run' = "drain" => next' = Len(buffer') + Len(pending')
    <3>1. run' = "drain" => next' = Len(buffer) + Len(pending)
      BY <1>2, <1>6 DEF LogGrows
    <3>2. Len(buffer') + Len(pending') = Len(buffer) + Len(pending)
      BY <1>1, <2>1, <2>4
    <3> QED
      BY <3>1, <3>2
  <2> QED
    BY <2>5, <2>6, <2>7
<1> QED
  BY <1>3, <1>4, <1>5, <1>6, LogEffect

\* As long as every event was buffered, a tail has the events from its cursor on.
CursorInOrder(t) ==
  /\ \A k \in DOMAIN tail[t].got : tail[t].got[k].n = tail[t].from + k - 1
  /\ tail[t].at # "ended" => tail[t].after = tail[t].from + Len(tail[t].got)
\* Every tail has been delivered, in order, the events from where it connected.
CursorsInOrder == ~gap => \A t \in Tailers : CursorInOrder(t)

\* A tail that is extended by events numbered on from its cursor stays in order.
LEMMA CursorExtends ==
  ASSUME NEW got \in Seq(EventSet), NEW s \in Seq(EventSet), NEW from \in Nat,
         \A k \in DOMAIN got : got[k].n = from + k - 1,
         \A k \in DOMAIN s : s[k].n = from + Len(got) + k - 1
  PROVE  /\ \A k \in DOMAIN (got \o s) : (got \o s)[k].n = from + k - 1
         /\ Len(got \o s) = Len(got) + Len(s)
<1>1. /\ Len(got) \in Nat /\ Len(s) \in Nat
      /\ DOMAIN got = 1..Len(got) /\ DOMAIN s = 1..Len(s)
  BY LenProperties
<1>2. /\ Len(got \o s) = Len(got) + Len(s) /\ DOMAIN (got \o s) = 1..(Len(got) + Len(s))
      /\ \A k \in 1..Len(got) : (got \o s)[k] = got[k]
      /\ \A k \in (Len(got) + 1)..(Len(got) + Len(s)) : (got \o s)[k] = s[k - Len(got)]
  <2>1. got \o s \in Seq(EventSet) /\ Len(got \o s) = Len(got) + Len(s)
    BY ConcatProperties
  <2>2. DOMAIN (got \o s) = 1..Len(got \o s)
    BY <2>1, LenProperties
  <2>3. \A k \in 1..(Len(got) + Len(s)) :
          (got \o s)[k] = IF k <= Len(got) THEN got[k] ELSE s[k - Len(got)]
    BY ConcatProperties
  <2> QED
    BY <1>1, <2>1, <2>2, <2>3
<1>3. ASSUME NEW k \in DOMAIN (got \o s)
      PROVE  (got \o s)[k].n = from + k - 1
  <2>1. CASE k \in 1..Len(got)
    BY <1>1, <1>2, <2>1
  <2>2. CASE k \in (Len(got) + 1)..(Len(got) + Len(s))
    <3>1. k - Len(got) \in DOMAIN s
      BY <1>1, <2>2
    <3>2. s[k - Len(got)].n = from + Len(got) + (k - Len(got)) - 1
      BY <3>1
    <3> QED
      BY <1>1, <1>2, <2>2, <3>2
  <2> QED
    BY <1>1, <1>2, <1>3, <2>1, <2>2
<1> QED
  BY <1>2, <1>3

\* A read returns the events from the cursor on: the log has no other ones after them.
LEMMA ReadInOrder ==
  ASSUME BackgroundTypes, NumbersInOrder, ~gap, NEW t \in Tailers, CursorInOrder(t), TailRead(t),
         tail'[t] \in TailSet
  PROVE  CursorInOrder(t)'
<1>1. PICK k \in 0..(Len(buffer) - 1) :
        /\ \A i \in DOMAIN buffer : i > k <=> buffer[i].n >= tail[t].after
        /\ tail'[t].after = buffer[Len(buffer)].n + 1
        /\ tail'[t].got = tail[t].got \o SubSeq(buffer, k + 1, Len(buffer))
  BY DEF TailRead
<1>2. /\ tail[t].got \in Seq(EventSet) /\ tail[t].from \in Nat /\ tail[t].after \in Nat
      /\ buffer \in Seq(EventSet) /\ Len(buffer) \in Nat /\ DOMAIN buffer = 1..Len(buffer)
      /\ Len(tail[t].got) \in Nat
  BY LenProperties DEF BackgroundTypes, TailType, TailSet, RunType
<1>3. /\ tail[t].after = tail[t].from + Len(tail[t].got)
      /\ \A i \in DOMAIN buffer : buffer[i].n = i - 1
      /\ \A i \in DOMAIN tail[t].got : tail[t].got[i].n = tail[t].from + i - 1
  BY DEF TailRead, CursorInOrder, NumbersInOrder
<1>4. k = tail[t].after
  <2>1. k + 1 \in DOMAIN buffer /\ buffer[k + 1].n = k /\ k >= tail[t].after
    <3>1. k \in Nat /\ k + 1 \in DOMAIN buffer /\ k + 1 > k
      BY <1>2
    <3>2. buffer[k + 1].n = k
      BY <1>3, <3>1
    <3>3. buffer[k + 1].n >= tail[t].after
      BY <1>1, <3>1
    <3> QED
      BY <3>1, <3>2, <3>3
  <2>2. k # 0 => k - 1 < tail[t].after
    <3> SUFFICES ASSUME k # 0 PROVE k - 1 < tail[t].after
      OBVIOUS
    <3>1. k \in DOMAIN buffer /\ k \in Nat
      BY <1>2
    <3>2. buffer[k].n = k - 1
      BY <1>3, <3>1
    <3>3. ~(buffer[k].n >= tail[t].after)
      BY <1>1, <3>1
    <3> QED
      BY <1>2, <3>1, <3>2, <3>3
  <2> QED
    BY <1>1, <1>2, <2>1, <2>2
<1> DEFINE new == SubSeq(buffer, k + 1, Len(buffer))
<1>5. /\ new \in Seq(EventSet) /\ Len(new) = Len(buffer) - k
      /\ \A i \in 1..(Len(buffer) - k) : new[i] = buffer[k + i]
  <2>1. k \in 0..Len(buffer)
    BY <1>2
  <2> QED
    BY <2>1, ReadType DEF BackgroundTypes
<1> HIDE DEF new
<1>6. \A i \in DOMAIN new : new[i].n = tail[t].from + Len(tail[t].got) + i - 1
  <2> SUFFICES ASSUME NEW i \in DOMAIN new
               PROVE  new[i].n = tail[t].from + Len(tail[t].got) + i - 1
    OBVIOUS
  <2>1. i \in 1..(Len(buffer) - k)
    BY <1>5, LenProperties
  <2>2. new[i] = buffer[k + i] /\ k + i \in DOMAIN buffer
    BY <1>2, <1>5, <2>1
  <2>3. buffer[k + i].n = (k + i) - 1
    BY <1>3, <2>2
  <2> QED
    BY <1>2, <1>3, <1>4, <2>1, <2>2, <2>3
<1>7. /\ \A j \in DOMAIN (tail[t].got \o new) : (tail[t].got \o new)[j].n = tail[t].from + j - 1
      /\ Len(tail[t].got \o new) = Len(tail[t].got) + Len(new)
  BY <1>2, <1>3, <1>5, <1>6, CursorExtends
<1>8. tail'[t].got = tail[t].got \o new /\ tail'[t].from = tail[t].from
  BY <1>1 DEF new, TailRead
<1>9. tail'[t].after = tail'[t].from + Len(tail'[t].got)
  <2>1. tail'[t].after = Len(buffer)
    BY <1>1, <1>2, <1>3, SMTT(30)
  <2>2. Len(tail'[t].got) = Len(tail[t].got) + (Len(buffer) - k)
    BY <1>5, <1>7, <1>8
  <2>3. k = tail[t].from + Len(tail[t].got)
    BY <1>3, <1>4
  <2>4. tail'[t].from = tail[t].from
    BY <1>8
  <2>5. tail[t].from + (Len(tail[t].got) + (Len(buffer) - k)) = Len(buffer)
    <3>1. \A a, b, c \in Nat : a + (b + (c - (a + b))) = c
      OBVIOUS
    <3>2. tail[t].from \in Nat /\ Len(tail[t].got) \in Nat /\ Len(buffer) \in Nat
      BY <1>2
    <3> QED
      BY <2>3, <3>1, <3>2, Zenon
  <2> QED
    BY <2>1, <2>2, <2>4, <2>5
<1> QED
  BY <1>7, <1>8, <1>9 DEF CursorInOrder

\* Two short sequences joined.
LEMMA Joins ==
  \A e, f : <<e>> \o <<>> = <<e>> /\ <<e>> \o <<f>> = <<e, f>>
<1> SUFFICES ASSUME NEW e, NEW f PROVE <<e>> \o <<>> = <<e>> /\ <<e>> \o <<f>> = <<e, f>>
  OBVIOUS
<1>1. <<e>> \o <<>> = <<e>>
  OBVIOUS
<1>2. <<e>> \in Seq({e, f}) /\ <<f>> \in Seq({e, f}) /\ <<e, f>> \in Seq({e, f})
  OBVIOUS
<1>3. <<e>> \o <<f>> \in Seq({e, f}) /\ Len(<<e>> \o <<f>>) = 2
  BY <1>2, ConcatProperties
<1>4. (<<e>> \o <<f>>)[1] = e /\ (<<e>> \o <<f>>)[2] = f
  BY <1>2, ConcatProperties
<1>5. Len(<<e, f>>) = 2 /\ <<e, f>>[1] = e /\ <<e, f>>[2] = f
  OBVIOUS
<1>6. \A i \in 1..2 : (<<e>> \o <<f>>)[i] = <<e, f>>[i]
  BY <1>4, <1>5
<1> QED
  BY <1>1, <1>2, <1>3, <1>5, <1>6, SeqEqual

\* The synthesised events go on where the cursor is: an opening one is numbered 0.
LEMMA EndInOrder ==
  ASSUME BackgroundTypes, NEW t \in Tailers, CursorInOrder(t), TailEnded(t)
  PROVE  CursorInOrder(t)'
<1>1. /\ tail[t].got \in Seq(EventSet) /\ tail[t].from \in Nat /\ tail[t].after \in Nat
      /\ Len(tail[t].got) \in Nat
  BY LenProperties DEF BackgroundTypes, TailType, TailSet
<1>2. /\ tail[t].after = tail[t].from + Len(tail[t].got)
      /\ \A i \in DOMAIN tail[t].got : tail[t].got[i].n = tail[t].from + i - 1
  BY DEF TailEnded, CursorInOrder
<1> DEFINE new == Synthesised(t)
<1>3. new \in Seq(EventSet)
  BY SynthesisedType DEF TailEnded
<1>4. \A i \in DOMAIN new : new[i].n = tail[t].after + i - 1
  <2>1. CASE tail[t].after = 0
    <3>0. /\ <<Event(0, "none")>> \o <<>> = <<Event(0, "none")>>
          /\ <<Event(0, "none")>> \o <<Event(1, status)>> = <<Event(0, "none"), Event(1, status)>>
      BY Joins
    <3>1. new \in {<<Event(0, "none")>>, <<Event(0, "none"), Event(1, status)>>}
      BY <2>1, <3>0 DEF Synthesised
    <3> QED
      BY <2>1, <3>1 DEF Event
  <2>2. CASE tail[t].after # 0
    <3>1. new \in {<<>>, <<Event(tail[t].after, status)>>}
      BY <2>2 DEF Synthesised
    <3> QED
      BY <1>1, <3>1 DEF Event
  <2> QED
    BY <2>1, <2>2
<1> HIDE DEF new
<1>5. \A i \in DOMAIN new : new[i].n = tail[t].from + Len(tail[t].got) + i - 1
  BY <1>2, <1>4
<1>6. \A j \in DOMAIN (tail[t].got \o new) : (tail[t].got \o new)[j].n = tail[t].from + j - 1
  BY <1>1, <1>2, <1>3, <1>5, CursorExtends
<1>7. tail'[t].got = tail[t].got \o new /\ tail'[t].from = tail[t].from /\ tail'[t].at = "ended"
  BY DEF new, TailEnded
<1> QED
  BY <1>6, <1>7 DEF CursorInOrder

\* Every step keeps the tails in order.
LEMMA CursorsStep ==
  ASSUME BackgroundTypes, BackgroundTypes', NumbersInOrder, CursorsInOrder, [Next]_vars
  PROVE  CursorsInOrder'
<1> SUFFICES ASSUME ~gap', NEW u \in Tailers
             PROVE  CursorInOrder(u)'
  BY DEF CursorsInOrder
<1>1. ~gap /\ CursorInOrder(u)
  BY LogEffect DEF CursorsInOrder
<1>2. CASE tail' = tail
  BY <1>1, <1>2 DEF CursorInOrder
<1>3. ASSUME NEW t \in Tailers, Connects(t) \/ Tailer(t) \/ TailFails(t)
      PROVE  CursorInOrder(u)'
  <2>1. CASE u # t
    <3>1. tail'[u] = tail[u]
      BY <1>3, <2>1, TailerEffect
    <3> QED
      BY <1>1, <3>1 DEF CursorInOrder
  <2>2. CASE u = t
    <3>1. TailMoved(u) \/ TailConnected(u) \/ TailRead(u) \/ TailEnded(u)
      BY <1>3, <2>2, TailerEffect
    <3>2. tail[u] \in TailSet /\ tail'[u] \in TailSet
      BY DEF BackgroundTypes, TailType
    <3>3. CASE TailMoved(u)
      BY <1>1, <3>3 DEF TailMoved, CursorInOrder
    <3>4. CASE TailConnected(u)
      <4>1. tail'[u].got = <<>> /\ tail'[u].after = tail'[u].from /\ tail'[u].from \in Nat
        BY <3>2, <3>4 DEF TailConnected, BackgroundTypes, Untold, TailSet
      <4>2. Len(<<>>) = 0 /\ DOMAIN <<>> = {}
        OBVIOUS
      <4> QED
        BY <4>1, <4>2 DEF CursorInOrder
    <3>5. CASE TailRead(u)
      BY <1>1, <3>2, <3>5, ReadInOrder
    <3>6. CASE TailEnded(u)
      BY <1>1, <3>6, EndInOrder
    <3> QED
      BY <3>1, <3>3, <3>4, <3>5, <3>6
  <2> QED
    BY <2>1, <2>2
<1>4. CASE Run \/ Stream \/ Buffers
  BY <1>2, <1>4 DEF Run, Places, StartsRun, Flushes, WritesFailed, CleansUp, Stream, Emits,
      Completes, StreamFails, StreamBreaks, Buffers, onlyRun
<1>5. CASE Heart \/ Dies \/ Tick \/ RegistryRestarts \/ Handler
  BY <1>2, <1>5 DEF Heart, Beats, BeatsBlindly, Dies, Tick, RegistryRestarts, Handler, LooksUp,
      Finds, Signals, Writes, Discards, onlyRun, onlyHandler
<1>6. CASE UNCHANGED vars
  BY <1>2, <1>6 DEF vars
<1> QED
  BY <1>3, <1>4, <1>5, <1>6 DEF Next

\* The ends that may have been told: that of the record, or the one it will have once the
\* run has written it.
RightEnds ==
  {end \in {"none", "completed", "failed"} :
     /\ end = "completed" => status \in {"completed", "cancelled", "gone"} \/ ~seeded
     /\ end = "failed" =>
          \/ status \in {"failed", "cancelled", "gone"}
          \/ status = "queued" /\ run # "drain"}
\* The terminal events of a log are those in ends; everywhere, they are the ones that became true.
Tells(s, ends) == \A i \in DOMAIN s : s[i].end \in ends
EndsTold ==
  /\ Tells(pending, RightEnds) /\ Tells(buffer, RightEnds)
  /\ \A t \in Tailers : Tells(tail[t].got, RightEnds)
  /\ status = "completed" => run # "drain"

\* Heartbeats lost so far, at most.
Lost == IF "beat" \in Faults THEN faults ELSE 0

\* A heartbeat is due before the entry expires, or before the registry is old enough to
\* say that there is none: the run is not given up while it drains.
KeptAlive ==
  Live /\ seeded =>
    /\ beat + Lost + 1 >= due + StaleTicks \/ youth + Lost + 1 >= due + StaleTicks
    /\ status # "failed"
    /\ \A t \in Tailers : tail[t].at # "orphan"

\* stale_seconds spans more heartbeats than a behaviour loses: by default it spans six.
BeatsArrive == "beat" \in Faults => MaxFaults + 2 <= StaleTicks

\* A step that leaves the heart alone, as far as the run's being given up goes.
HeartKept ==
  /\ beat' = beat /\ youth' = youth /\ due' = due /\ seeded' = seeded
  /\ faults' = faults \/ faults' = faults + 1
  /\ Live' => Live /\ (status' = "failed" => status = "failed" \/ \E t \in Tailers : tail[t].at = "orphan")
  /\ \A t \in Tailers : tail'[t].at = "orphan" => tail[t].at = "orphan" \/ ~IsAlive

\* Only these actions touch the run's heartbeats.
LEMMA HeartEffect ==
  ASSUME BackgroundTypes, [Next]_vars
  PROVE  StartsRun \/ Beats \/ BeatsBlindly \/ Tick \/ RegistryRestarts \/ HeartKept
<1> USE DEF BackgroundTypes
<1>1. CASE Places \/ Flushes \/ WritesFailed \/ CleansUp
  BY <1>1 DEF Places, Flushes, WritesFailed, CleansUp, DropsBuffer, Fault, NoFault, onlyRun,
              HeartKept, Live
<1>2. CASE Stream
  BY <1>2 DEF Stream, Emits, Completes, StreamFails, StreamBreaks, Settled, Fault, NoFault, onlyRun,
              HeartKept, Live
<1>3. CASE Buffers \/ Dies
  BY <1>3 DEF Buffers, Dies, Fault, NoFault, onlyRun, HeartKept, Live
<1>4. CASE Handler
  BY <1>4 DEF Handler, LooksUp, Finds, Signals, Writes, Discards, DropsBuffer, Settled, Fault, NoFault,
              onlyHandler, HeartKept, Live
<1>5. ASSUME NEW t \in Tailers, Connects(t) \/ Tailer(t) \/ TailFails(t)
      PROVE  HeartKept
  <2>1. /\ UNCHANGED <<run, beat, youth, due, seeded>> /\ (faults' = faults \/ faults' = faults + 1)
        /\ status' = "failed" => status = "failed" \/ tail[t].at = "orphan"
    <3> USE DEF Fault, NoFault, onlyTail, registryVars
    <3>1. CASE Connects(t) \/ ReadsEvents(t) \/ ReadsRecord(t)
      BY <3>1 DEF Connects, ReadsEvents, ReadsRecord
    <3>2. CASE AsksAlive(t) \/ TailFails(t) \/ Orphans(t)
      BY <3>2 DEF AsksAlive, TailFails, Orphans
    <3>3. CASE Reconciles(t)
      BY <3>3 DEF Reconciles, DropsBuffer
    <3> QED
      BY <1>5, <3>1, <3>2, <3>3 DEF Tailer
  <2>2. /\ \A u \in Tailers \ {t} : tail'[u] = tail[u]
        /\ tail'[t].at = "orphan" => ~IsAlive
    BY <1>5, TailerEffect DEF TailMoved, TailConnected, TailRead, TailEnded
  <2> QED
    BY <2>1, <2>2 DEF HeartKept, Live
<1>6. CASE UNCHANGED vars
  BY <1>6 DEF vars, HeartKept, Live
<1> QED
  BY <1>1, <1>2, <1>3, <1>4, <1>5, <1>6 DEF Next, Run, Heart

\* While a run drains, its heartbeats keep it from being given up.
LEMMA KeptStep ==
  ASSUME BackgroundTypes, BackgroundTypes', BeatsArrive, KeptAlive, [Next]_vars
  PROVE  KeptAlive'
<1> SUFFICES ASSUME Live', seeded'
             PROVE  /\ beat' + Lost' + 1 >= due' + StaleTicks \/ youth' + Lost' + 1 >= due' + StaleTicks
                    /\ status' # "failed"
                    /\ \A t \in Tailers : tail'[t].at # "orphan"
  BY DEF KeptAlive
<1>1. /\ beat \in Nat /\ youth \in Nat /\ due \in {0, 1} /\ faults \in 0..MaxFaults /\ MaxFaults \in Nat
      /\ beat' \in Nat /\ youth' \in Nat /\ faults' \in 0..MaxFaults /\ StaleTicks \in Nat \ {0, 1}
      /\ Lost \in Nat /\ Lost' \in Nat /\ Lost + 2 <= StaleTicks
  BY BackgroundAssumption DEF BackgroundTypes, HeartType, Lost, BeatsArrive
<1>2. Live /\ seeded =>
        /\ beat + Lost + 1 >= due + StaleTicks \/ youth + Lost + 1 >= due + StaleTicks
        /\ status # "failed"
        /\ \A t \in Tailers : tail[t].at # "orphan"
  BY DEF KeptAlive
<1>9. /\ StaleTicks \in Nat /\ Lost \in Nat /\ Lost' \in Nat /\ due \in Nat
      /\ beat \in Nat /\ youth \in Nat /\ beat' \in Nat /\ youth' \in Nat
  BY <1>1
<1>10. \A s, l \in Nat : s + l + 1 >= 1 + s
  OBVIOUS
<1>11. \A b, y, c, z, l, s \in Nat :
         /\ b + l + 1 >= 1 + s \/ y + l + 1 >= 1 + s
         /\ c + 1 >= b /\ z + 1 >= y
         => c + l + 1 >= 0 + s \/ z + l + 1 >= 0 + s
  OBVIOUS
<1>12. \A b, y, l, m, d, s \in Nat :
         /\ b + l + 1 >= d + s \/ y + l + 1 >= d + s
         /\ m >= l
         => b + m + 1 >= d + s \/ y + m + 1 >= d + s
  OBVIOUS
<1>3. CASE StartsRun
  <2>1. beat' = StaleTicks /\ due' = 1 /\ status' = "queued"
    BY <1>3 DEF StartsRun, BackgroundTypes, Untold
  <2>2. \A t \in Tailers : tail'[t].at = "new"
    BY <1>3 DEF StartsRun, BackgroundTypes, Untold
  <2>3. beat' + Lost' + 1 >= due' + StaleTicks
    BY <1>9, <1>10, <2>1, Zenon
  <2> QED
    BY <2>1, <2>2, <2>3
<1>4. CASE Beats
  <2>1. Live /\ seeded /\ due = 0 /\ due' = 1 /\ status' = status /\ tail' = tail /\ youth' = youth
    BY <1>4 DEF Beats, Live, Stops
  <2>2. beat' = StaleTicks \/ (beat' = beat /\ Lost' = Lost + 1)
    BY <1>4 DEF Beats, NoFault, Fault, Lost
  <2> QED
    BY <1>1, <1>2, <2>1, <2>2
<1>5. CASE BeatsBlindly
  <2>1. Live /\ seeded /\ due' = 1 /\ beat' = StaleTicks /\ status' = status /\ tail' = tail
    BY <1>5 DEF BeatsBlindly, Live
  <2>2. beat' + Lost' + 1 >= due' + StaleTicks
    BY <1>9, <1>10, <2>1, Zenon
  <2> QED
    BY <1>2, <2>1, <2>2
<1>6. CASE Tick
  <2>1. /\ Live /\ seeded /\ due = 1 /\ due' = 0 /\ status' = status /\ tail' = tail /\ Lost' = Lost
        /\ beat' + 1 >= beat /\ youth' + 1 >= youth
    BY <1>1, <1>6 DEF Tick, Live, Less, NoFault, Lost
  <2>2. beat' + Lost' + 1 >= due' + StaleTicks \/ youth' + Lost' + 1 >= due' + StaleTicks
    <3>1. beat + Lost + 1 >= 1 + StaleTicks \/ youth + Lost + 1 >= 1 + StaleTicks
      BY <1>2, <2>1
    <3> QED
      BY <1>9, <1>11, <2>1, <3>1, Zenon
  <2> QED
    BY <1>2, <2>1, <2>2
<1>7. CASE RegistryRestarts
  <2>1. Live /\ seeded /\ due' = due /\ youth' = StaleTicks /\ status' = status /\ tail' = tail
    BY <1>7 DEF RegistryRestarts, Live
  <2> QED
    BY <1>1, <1>2, <2>1
<1>8. CASE HeartKept
  <2>1. /\ Live /\ seeded /\ beat' = beat /\ youth' = youth /\ due' = due /\ Lost' >= Lost
        /\ (status' = "failed" => status = "failed" \/ \E t \in Tailers : tail[t].at = "orphan")
        /\ \A t \in Tailers : tail'[t].at = "orphan" => tail[t].at = "orphan" \/ ~IsAlive
    BY <1>1, <1>8 DEF HeartKept, Lost
  <2>2. IsAlive
    BY <1>1, <1>2, <2>1 DEF IsAlive
  <2>3. status' # "failed" /\ \A t \in Tailers : tail'[t].at # "orphan"
    BY <1>2, <2>1, <2>2
  <2>4. beat' + Lost' + 1 >= due' + StaleTicks \/ youth' + Lost' + 1 >= due' + StaleTicks
    <3>1. beat + Lost + 1 >= due + StaleTicks \/ youth + Lost + 1 >= due + StaleTicks
      BY <1>2, <2>1
    <3> QED
      BY <1>9, <1>12, <2>1, <3>1, Zenon
  <2> QED
    BY <2>3, <2>4
<1> QED
  BY <1>3, <1>4, <1>5, <1>6, <1>7, <1>8, HeartEffect

\* What a step may do to the record, as far as the ends that were told go.
RecordKept ==
  /\ seeded' = seeded \/ run = "placed"
  /\ \/ status' = status
     \/ status = "queued" /\ status' \in {"failed", "cancelled"}
     \/ status = "queued" /\ status' = "completed" /\ run = "drain" /\ run' = "flush"
     \/ status' = "gone"
     \/ run = "new"
  /\ run' = "drain" => run \in {"placed", "drain"}

\* Every step keeps a settled record.
LEMMA RecordEffect ==
  ASSUME BackgroundTypes, [Next]_vars
  PROVE  RecordKept
<1> USE DEF BackgroundTypes, RecordKept
<1>1. CASE Run
  BY <1>1 DEF Run, Places, StartsRun, Flushes, WritesFailed, CleansUp, Settled, onlyRun
<1>2. CASE Stream
  BY <1>2 DEF Stream, Emits, Completes, StreamFails, StreamBreaks, Settled, onlyRun
<1>3. CASE Buffers \/ Heart \/ Dies \/ Tick \/ RegistryRestarts
  BY <1>3 DEF Buffers, Heart, Beats, BeatsBlindly, Stops, Live, Dies, Tick, RegistryRestarts, onlyRun
<1>4. CASE Handler
  BY <1>4 DEF Handler, LooksUp, Finds, Signals, Writes, Discards, Settled, onlyHandler
<1>5. ASSUME NEW t \in Tailers, Connects(t) \/ Tailer(t) \/ TailFails(t)
      PROVE  RecordKept
  BY <1>5 DEF Connects, Tailer, TailFails, ReadsEvents, ReadsRecord, AsksAlive, Orphans,
              Reconciles, Settled, onlyTail, registryVars
<1>6. CASE UNCHANGED vars
  BY <1>6 DEF vars
<1> QED
  BY <1>1, <1>2, <1>3, <1>4, <1>5, <1>6 DEF Next

\* An end that was told stays right, but for the first heartbeat's, before which none was.
LEMMA EndsStayRight ==
  ASSUME RecordKept, run \notin {"new", "placed"}
  PROVE  RightEnds \subseteq RightEnds'
BY DEF RecordKept, RightEnds

\* Sequences of events whose ends are among some.
LEMMA TellsMore ==
  ASSUME NEW ends, NEW more, ends \subseteq more, NEW s, Tells(s, ends)
  PROVE  Tells(s, more)
BY DEF Tells

\* What the operations on logs make of the terminal events.
LEMMA TellsSeqs ==
  ASSUME NEW ends
  PROVE  /\ \A s \in Seq(EventSet), e \in EventSet :
              Tells(s, ends) /\ e.end \in ends => Tells(Append(s, e), ends)
         /\ \A s \in Seq(EventSet) :
              Tells(s, ends) /\ s # <<>> => Head(s).end \in ends /\ Tells(Tail(s), ends)
         /\ \A r, s \in Seq(EventSet) :
              Tells(r, ends) /\ Tells(s, ends) => Tells(r \o s, ends)
         /\ Tells(<<>>, ends)
<1>1. ASSUME NEW s \in Seq(EventSet), NEW e \in EventSet, Tells(s, ends), e.end \in ends
      PROVE  Tells(Append(s, e), ends)
  <2>1. /\ DOMAIN Append(s, e) = 1..(Len(s) + 1) /\ DOMAIN s = 1..Len(s) /\ Len(s) \in Nat
        /\ \A i \in 1..Len(s) : Append(s, e)[i] = s[i]
        /\ Append(s, e)[Len(s) + 1] = e
    BY AppendProperties, LenProperties
  <2> QED
    BY <1>1, <2>1 DEF Tells
<1>2. ASSUME NEW s \in Seq(EventSet), Tells(s, ends), s # <<>>
      PROVE  Head(s).end \in ends /\ Tells(Tail(s), ends)
  <2>1. /\ DOMAIN s = 1..Len(s) /\ Len(s) \in Nat \ {0} /\ Head(s) = s[1]
        /\ DOMAIN Tail(s) = 1..(Len(s) - 1) /\ \A i \in 1..(Len(s) - 1) : Tail(s)[i] = s[i + 1]
    BY <1>2, HeadTailProperties, LenProperties, EmptySeq
  <2>2. 1 \in DOMAIN s /\ \A i \in 1..(Len(s) - 1) : i + 1 \in DOMAIN s
    BY <2>1
  <2> QED
    BY <1>2, <2>1, <2>2 DEF Tells
<1>3. ASSUME NEW r \in Seq(EventSet), NEW s \in Seq(EventSet), Tells(r, ends), Tells(s, ends)
      PROVE  Tells(r \o s, ends)
  <2>1. /\ Len(r) \in Nat /\ Len(s) \in Nat /\ DOMAIN r = 1..Len(r) /\ DOMAIN s = 1..Len(s)
        /\ r \o s \in Seq(EventSet) /\ Len(r \o s) = Len(r) + Len(s)
        /\ \A i \in 1..(Len(r) + Len(s)) : (r \o s)[i] = IF i <= Len(r) THEN r[i] ELSE s[i - Len(r)]
    BY ConcatProperties, LenProperties
  <2>2. DOMAIN (r \o s) = 1..(Len(r) + Len(s))
    BY <2>1, LenProperties
  <2>3. ASSUME NEW i \in 1..(Len(r) + Len(s)) PROVE (r \o s)[i].end \in ends
    <3>1. CASE i <= Len(r)
      <4>1. i \in DOMAIN r /\ (r \o s)[i] = r[i]
        BY <2>1, <3>1
      <4> QED
        BY <1>3, <4>1 DEF Tells
    <3>2. CASE ~(i <= Len(r))
      <4>1. i - Len(r) \in DOMAIN s /\ (r \o s)[i] = s[i - Len(r)]
        BY <2>1, <3>2
      <4> QED
        BY <1>3, <4>1 DEF Tells
    <3> QED
      BY <3>1, <3>2
  <2> QED
    BY <2>2, <2>3 DEF Tells
<1>4. Tells(<<>>, ends)
  BY DEF Tells
<1> QED
  BY <1>1, <1>2, <1>3, <1>4

\* The log and what is chained behind it.
LEMMA LogTold ==
  ASSUME BackgroundTypes, BackgroundTypes', KeptAlive, EndsTold, [Next]_vars
  PROVE  Tells(pending', RightEnds') /\ Tells(buffer', RightEnds')
<1>1. CASE run \in {"new", "placed"}
  <2>1. pending = <<>> /\ buffer = <<>>
    BY <1>1 DEF BackgroundTypes, Untold
  <2>2. pending' = <<>> /\ buffer' = <<>>
    <3>1. CASE Run
      BY <1>1, <2>1, <3>1 DEF Run, Places, StartsRun, Flushes, WritesFailed, CleansUp, onlyRun
    <3>2. CASE Stream \/ Buffers \/ Heart \/ Dies \/ Tick \/ RegistryRestarts
      BY <1>1, <2>1, <3>2 DEF Stream, Emits, Completes, StreamFails, StreamBreaks, Buffers, Heart,
          Beats, BeatsBlindly, Live, Dies, Tick, RegistryRestarts
    <3>3. CASE Handler
      BY <1>1, <2>1, <3>3 DEF Handler, LooksUp, Finds, Signals, Writes, Discards, onlyHandler,
          BackgroundTypes, Untold
    <3>4. ASSUME NEW t \in Tailers, Connects(t) \/ Tailer(t) \/ TailFails(t)
          PROVE  FALSE
      BY <1>1, <3>4, TailerEffect
    <3>5. CASE UNCHANGED vars
      BY <2>1, <3>5 DEF vars
    <3> QED
      BY <3>1, <3>2, <3>3, <3>4, <3>5 DEF Next
  <2> QED
    BY <2>2, TellsSeqs
<1>2. CASE run \notin {"new", "placed"}
  <2>1. /\ pending \in Seq(EventSet) /\ buffer \in Seq(EventSet) /\ next \in Nat
        /\ Tells(pending, RightEnds') /\ Tells(buffer, RightEnds')
    BY <1>2, RecordEffect, EndsStayRight, TellsMore DEF BackgroundTypes, RunType, EndsTold
  <2>2. CASE Stream
    <3>1. CASE StreamBreaks
      BY <2>1, <3>1 DEF StreamBreaks
    <3>2. PICK end \in RightEnds' :
            \/ StreamBreaks
            \/ buffer' = buffer /\ pending' = Append(pending, Event(next, end))
      <4>1. CASE Emits
        BY <4>1 DEF Emits, RightEnds
      <4>2. CASE Completes
        <5>1. status \in {"queued", "failed", "cancelled", "gone"} /\ (status = "failed" => ~seeded)
          BY <1>2, <4>2 DEF Completes, BackgroundTypes, RunType, Untold, EndsTold, KeptAlive, Live
        <5>2. CASE /\ status' = Settled("completed")
                   /\ pending' = Append(pending, Event(next, "completed"))
          BY <4>2, <5>1, <5>2 DEF Completes, RightEnds, Settled, onlyRun
        <5>3. CASE UNCHANGED status /\ pending' = Append(pending, Event(next, "failed"))
          BY <4>2, <5>1, <5>3 DEF Completes, RightEnds
        <5> QED
          BY <4>2, <5>2, <5>3 DEF Completes
      <4>3. CASE StreamFails
        <5>1. status \in {"queued", "failed", "cancelled", "gone"}
          BY <1>2, <4>3 DEF StreamFails, BackgroundTypes, RunType, Untold, EndsTold
        <5> QED
          BY <4>3, <5>1 DEF StreamFails, RightEnds
      <4>4. CASE StreamBreaks
        BY <4>4 DEF RightEnds
      <4> QED
        BY <2>2, <4>1, <4>2, <4>3, <4>4 DEF Stream
    <3>3. Event(next, end) \in EventSet /\ Event(next, end).end = end
      BY <2>1, EventType DEF Event, RightEnds
    <3>4. Tells(Append(pending, Event(next, end)), RightEnds')
      <4>1. \A s \in Seq(EventSet), e \in EventSet :
              Tells(s, RightEnds') /\ e.end \in RightEnds' => Tells(Append(s, e), RightEnds')
        BY TellsSeqs
      <4>2. Event(next, end).end \in RightEnds'
        BY <3>3
      <4> QED
        BY <2>1, <3>3, <4>1, <4>2, Zenon
    <3> QED
      BY <2>1, <3>1, <3>2, <3>4, Zenon
  <2>3. CASE Buffers
    <3>1. /\ pending # <<>> /\ pending' = Tail(pending) /\ Head(pending) \in EventSet
          /\ buffer' \in {buffer, Append(buffer, Head(pending))}
      BY <2>1, <2>3, EventSeqs DEF Buffers, Buffered
    <3>2. Head(pending).end \in RightEnds' /\ Tells(Tail(pending), RightEnds')
      BY <2>1, <3>1, TellsSeqs
    <3>3. Tells(Append(buffer, Head(pending)), RightEnds')
      BY <2>1, <3>1, <3>2, TellsSeqs
    <3> QED
      BY <2>1, <3>1, <3>2, <3>3
  <2>4. CASE pending' \in {pending, <<>>} /\ buffer' \in {buffer, <<>>}
    BY <2>1, <2>4, TellsSeqs
  <2>5. CASE Run
    BY <2>4, <2>5 DEF Run, Places, StartsRun, Flushes, WritesFailed, CleansUp, DropsBuffer
  <2>6. CASE Heart \/ Dies \/ Tick \/ RegistryRestarts
    BY <2>4, <2>6 DEF Heart, Beats, BeatsBlindly, Stops, Dies, Tick, RegistryRestarts
  <2>7. CASE Handler
    BY <2>4, <2>7 DEF Handler, LooksUp, Finds, Signals, Writes, Discards, DropsBuffer, onlyHandler
  <2>8. ASSUME NEW t \in Tailers, Connects(t) \/ Tailer(t) \/ TailFails(t)
        PROVE  pending' \in {pending, <<>>} /\ buffer' \in {buffer, <<>>}
    BY <2>8 DEF Connects, Tailer, TailFails, ReadsEvents, ReadsRecord, AsksAlive, Orphans,
                Reconciles, DropsBuffer, onlyTail
  <2>9. CASE UNCHANGED vars
    BY <2>4, <2>9 DEF vars
  <2> QED
    BY <2>2, <2>3, <2>4, <2>5, <2>6, <2>7, <2>8, <2>9 DEF Next
<1> QED
  BY <1>1, <1>2

\* What a tail was told, from the log or from the record.
LEMMA TailTold ==
  ASSUME BackgroundTypes, BackgroundTypes', EndsTold, [Next]_vars, NEW u \in Tailers
  PROVE  Tells(tail'[u].got, RightEnds')
<1>1. tail[u].got \in Seq(EventSet) /\ buffer \in Seq(EventSet) /\ Len(buffer) \in Nat
  BY LenProperties DEF BackgroundTypes, TailType, TailSet, RunType
<1>2. CASE run \in {"new", "placed"}
  <2>1. tail[u].got = <<>>
    BY <1>2 DEF BackgroundTypes, Untold
  <2>2. tail' = tail
    BY <1>2, TailerEffect DEF Next, vars, Run, Places, StartsRun, Flushes, WritesFailed, CleansUp,
       Stream, Emits, Completes, StreamFails, StreamBreaks, Buffers, onlyRun, Heart, Beats, BeatsBlindly,
       Dies, Tick, RegistryRestarts, Handler, LooksUp, Finds, Signals, Writes, Discards, onlyHandler
  <2>3. Tells(<<>>, RightEnds')
    BY TellsSeqs
  <2> QED
    BY <2>1, <2>2, <2>3
<1>3. CASE run \notin {"new", "placed"}
  <2>1. /\ RightEnds \subseteq RightEnds' /\ Tells(tail[u].got, RightEnds')
        /\ Tells(buffer, RightEnds')
    BY <1>3, RecordEffect, EndsStayRight, TellsMore DEF EndsTold
  <2>2. CASE tail' = tail
    BY <2>1, <2>2
  <2>3. ASSUME NEW t \in Tailers, Connects(t) \/ Tailer(t) \/ TailFails(t), u # t
        PROVE  tail'[u] = tail[u]
    BY <2>3, TailerEffect
  <2>4. ASSUME Connects(u) \/ Tailer(u) \/ TailFails(u)
        PROVE  Tells(tail'[u].got, RightEnds')
    <3>1. TailMoved(u) \/ TailConnected(u) \/ TailRead(u) \/ TailEnded(u)
      BY <2>4, TailerEffect
    <3>2. CASE TailMoved(u) \/ TailConnected(u)
      BY <2>1, <3>2 DEF TailMoved, TailConnected
    <3>3. CASE TailRead(u)
      <4>1. PICK k \in 0..(Len(buffer) - 1) :
              tail'[u].got = tail[u].got \o SubSeq(buffer, k + 1, Len(buffer))
        BY <3>3 DEF TailRead
      <4> DEFINE new == SubSeq(buffer, k + 1, Len(buffer))
      <4>2. /\ new \in Seq(EventSet) /\ Len(new) = Len(buffer) - k
            /\ \A i \in 1..(Len(buffer) - k) : new[i] = buffer[k + i]
        <5>1. k \in 0..Len(buffer)
          BY <1>1
        <5> QED
          BY <5>1, ReadType DEF BackgroundTypes
      <4> HIDE DEF new
      <4>3. ASSUME NEW i \in DOMAIN new PROVE new[i].end \in RightEnds'
        <5>1. i \in 1..(Len(buffer) - k) /\ DOMAIN buffer = 1..Len(buffer)
          BY <1>1, <4>2, LenProperties
        <5>2. new[i] = buffer[k + i] /\ k + i \in DOMAIN buffer
          BY <1>1, <4>2, <5>1
        <5> QED
          BY <2>1, <5>2 DEF Tells
      <4>4. Tells(new, RightEnds')
        BY <4>3 DEF Tells
      <4>5. Tells(tail[u].got \o new, RightEnds')
        BY <1>1, <2>1, <4>2, <4>4, TellsSeqs
      <4> QED
        BY <4>1, <4>5 DEF new
    <3>4. CASE TailEnded(u)
      <4> DEFINE new == Synthesised(u)
      <4>1. new \in Seq(EventSet) /\ status \in {"completed", "failed", "cancelled"}
        BY <3>4, SynthesisedType DEF TailEnded
      <4>2. "none" \in RightEnds /\ (status # "cancelled" => status \in RightEnds)
        BY <4>1 DEF RightEnds
      <4>3. Tells(new, RightEnds)
        <5>1. /\ <<Event(0, "none")>> \o <<>> = <<Event(0, "none")>>
              /\ <<Event(0, "none")>> \o <<Event(1, status)>> = <<Event(0, "none"), Event(1, status)>>
          BY Joins
        <5>2. CASE status = "cancelled"
          <6>1. new \in {<<>>, <<Event(0, "none")>>}
            BY <5>1, <5>2 DEF Synthesised
          <6> QED
            BY <4>2, <6>1 DEF Tells, Event
        <5>3. CASE status # "cancelled"
          <6>1. \/ new = <<Event(tail[u].after, status)>>
                \/ new = <<Event(0, "none"), Event(1, status)>>
            <7>1. <<>> \o <<Event(tail[u].after, status)>> = <<Event(tail[u].after, status)>>
              OBVIOUS
            <7> QED
              BY <5>1, <5>3, <7>1 DEF Synthesised
          <6> QED
            BY <4>2, <5>3, <6>1 DEF Tells, Event
        <5> QED
          BY <5>2, <5>3
      <4> HIDE DEF new
      <4>4. Tells(new, RightEnds')
        BY <2>1, <4>3, TellsMore
      <4>5. Tells(tail[u].got \o new, RightEnds')
        BY <1>1, <2>1, <4>1, <4>4, TellsSeqs
      <4> QED
        BY <3>4, <4>5 DEF new, TailEnded
    <3> QED
      BY <3>1, <3>2, <3>3, <3>4
  <2>5. CASE Run \/ Stream \/ Buffers
    BY <2>2, <2>5 DEF Run, Places, StartsRun, Flushes, WritesFailed, CleansUp, Stream, Emits,
       Completes, StreamFails, StreamBreaks, Buffers, onlyRun
  <2>6. CASE Heart \/ Dies \/ Tick \/ RegistryRestarts \/ Handler
    BY <2>2, <2>6 DEF Heart, Beats, BeatsBlindly, Dies, Tick, RegistryRestarts, Handler, LooksUp,
       Finds, Signals, Writes, Discards, onlyRun, onlyHandler
  <2>7. CASE UNCHANGED vars
    BY <2>2, <2>7 DEF vars
  <2> QED
    BY <2>1, <2>3, <2>4, <2>5, <2>6, <2>7 DEF Next
<1> QED
  BY <1>2, <1>3

\* Every step keeps the terminal events right.
LEMMA EndsToldStep ==
  ASSUME BackgroundTypes, BackgroundTypes', KeptAlive, EndsTold, [Next]_vars
  PROVE  EndsTold'
<1>1. Tells(pending', RightEnds') /\ Tells(buffer', RightEnds')
  BY LogTold
<1>2. \A t \in Tailers : Tells(tail'[t].got, RightEnds')
  BY TailTold
<1>3. status' = "completed" => run' # "drain"
  BY RecordEffect DEF RecordKept, EndsTold, BackgroundTypes, Untold, RunType
<1> QED
  BY <1>1, <1>2, <1>3 DEF EndsTold

(***************************************************************************)
(* What a tail delivers is numbered from its cursor on without a gap or a   *)
(* repetition, however the stream, the appends and the readers interleave,  *)
(* as long as every event was buffered and nobody dropped the buffer under  *)
(* the run (_StreamBuffer, tail_background_events).                         *)
(***************************************************************************)
TailsNumbered ==
  \A t \in Tailers :
    ~gap => \A k \in DOMAIN tail[t].got : tail[t].got[k].n = tail[t].from + k - 1

\* The invariants of the tails hold at first.
LEMMA InitTails == Init => NumbersInOrder /\ CursorsInOrder /\ EndsTold /\ KeptAlive
<1> SUFFICES ASSUME Init PROVE NumbersInOrder /\ CursorsInOrder /\ EndsTold /\ KeptAlive
  OBVIOUS
<1>1. NumbersInOrder
  BY DEF Init, NumbersInOrder
<1>2. CursorsInOrder
  <2> SUFFICES ASSUME NEW t \in Tailers PROVE CursorInOrder(t)
    BY DEF CursorsInOrder
  <2>1. tail[t].got = <<>> /\ tail[t].after = 0 /\ tail[t].from = 0
    BY DEF Init
  <2>2. Len(<<>>) = 0 /\ DOMAIN <<>> = {}
    OBVIOUS
  <2> QED
    BY <2>1, <2>2 DEF CursorInOrder
<1>3. EndsTold
  <2>1. pending = <<>> /\ buffer = <<>> /\ status = "absent" /\ \A t \in Tailers : tail[t].got = <<>>
    BY DEF Init
  <2>2. Tells(<<>>, RightEnds)
    BY TellsSeqs
  <2> QED
    BY <2>1, <2>2 DEF EndsTold
<1>4. KeptAlive
  BY DEF Init, KeptAlive
<1> QED
  BY <1>1, <1>2, <1>3, <1>4

(* The numbering holds whatever is lost and whatever fails.                 *)
THEOREM TailsAreNumbered == Spec => []TailsNumbered
<1>1. Init => BackgroundTypes /\ NumbersInOrder /\ CursorsInOrder
  BY InitBackground, InitTails
<1>2. BackgroundTypes /\ NumbersInOrder /\ CursorsInOrder /\ [Next]_vars
        => (BackgroundTypes /\ NumbersInOrder /\ CursorsInOrder)'
  BY BackgroundTypesStep, NumbersStep, CursorsStep
<1>3. BackgroundTypes /\ NumbersInOrder /\ CursorsInOrder => TailsNumbered
  BY DEF CursorsInOrder, CursorInOrder, TailsNumbered
<1> QED
  BY <1>1, <1>2, <1>3, PTL DEF Spec

(* Every tail is numbered, and its end is the record's, when fewer          *)
(* heartbeats are lost than stale_seconds spans.                            *)
THEOREM TailsAreInOrder == BeatsArrive => (Spec => []TailsInOrder)
<1> DEFINE Inv == BackgroundTypes /\ NumbersInOrder /\ CursorsInOrder /\ EndsTold /\ KeptAlive
<1> SUFFICES ASSUME BeatsArrive PROVE Spec => []TailsInOrder
  OBVIOUS
<1>1. Init => Inv
  BY InitBackground, InitTails
<1>2. Inv /\ [Next]_vars => Inv'
  BY BackgroundTypesStep, NumbersStep, CursorsStep, EndsToldStep, KeptStep
<1>3. Inv => TailsInOrder
  <2> SUFFICES ASSUME Inv, NEW t \in Tailers
               PROVE  /\ ~gap => \A k \in DOMAIN tail[t].got : tail[t].got[k].n = tail[t].from + k - 1
                      /\ EndsAsRecord(t)
    BY DEF TailsInOrder
  <2>1. ~gap => \A k \in DOMAIN tail[t].got : tail[t].got[k].n = tail[t].from + k - 1
    BY DEF CursorsInOrder, CursorInOrder
  <2>2. ASSUME tail[t].got # <<>> PROVE Last(tail[t].got).end \in RightEnds
    <3>1. tail[t].got \in Seq(EventSet)
      BY DEF BackgroundTypes, TailType, TailSet
    <3>2. Last(tail[t].got) = tail[t].got[Len(tail[t].got)] /\ Len(tail[t].got) \in DOMAIN tail[t].got
      BY <2>2, <3>1, EventSeqs, EmptySeq, LenProperties
    <3> QED
      BY <3>2 DEF EndsTold, Tells
  <2> QED
    BY <2>1, <2>2 DEF EndsAsRecord, RightEnds
<1> QED
  BY <1>1, <1>2, <1>3, PTL DEF Spec

(* Staleness only settles a run that has stopped, or one that the registry  *)
(* never heard of.                                                          *)
THEOREM OrphansHaveStopped == BeatsArrive => (Spec => OrphansOnlyStopped)
<1> DEFINE Inv == BackgroundTypes /\ KeptAlive
<1> SUFFICES ASSUME BeatsArrive PROVE Spec => OrphansOnlyStopped
  OBVIOUS
<1>1. Init => Inv
  BY InitBackground, InitTails
<1>2. Inv /\ [Next]_vars => Inv'
  BY BackgroundTypesStep, KeptStep
<1>3. Inv /\ [Next]_vars
        => [\A t \in Tailers : Orphans(t) /\ status' # status => ~Live \/ ~seeded]_vars
  BY DEF KeptAlive, Orphans
<1> QED
  BY <1>1, <1>2, <1>3, PTL DEF Spec, OrphansOnlyStopped

-----------------------------------------------------------------------------
(* The gateway: what waits for it.                                           *)

\* Where the replica's generator may be, and where it is once its stream has begun.
Steps == {"idle", "called", "blocking", "first", "connecting", "streaming", "relaying", "segments",
          "closing", "ended", "raised", "raised_value"}
InStream == {"streaming", "relaying", "segments", "closing", "ended", "raised", "raised_value"}

\* The kinds of chunk that may wait for the gateway.
KindsAt(w) ==
  CASE w = "streaming" -> {"role", "delta"}
    [] w = "relaying" -> {"relay", "usage"}
    [] w = "segments" -> {"relay"}
    [] w = "closing" -> {"role", "delta", "relay", "usage", "error"}
    [] w = "ended" -> {"refusal", "object", "done", "error"}
    [] w \in {"raised", "raised_value"} -> {"role", "delta", "relay", "usage", "error"}
    [] OTHER -> {}

\* The chunk that waits.
Waiting == wire[1]
\* A chunk of one of these kinds waits for the gateway.
Waits(kinds) == wire # <<>> /\ Waiting.kind \in kinds

\* What waits for the gateway fits where the replica's generator is.
WireFits ==
  /\ work \in Steps
  /\ wire # <<>> => wire = <<Waiting>> /\ Waiting.kind \in KindsAt(work)
  /\ work = "blocking" \/ Waits({"object"}) => ~ask.stream
  /\ Waits({"refusal"}) => Waiting.code \in {400, 502}
  /\ work \in {"first", "streaming"} => ask.loader = "vllm"
  /\ work \in {"connecting", "relaying"} => ask.loader # "vllm"
  /\ work = "segments" => ask.op # "chat"

\* A step of the replica, as the gateway sees it: a chunk that waits is not lost, a stream
\* does not go back, and its end is told by [DONE] or by an error.
Seen ==
  /\ work # "idle" /\ ask' = ask /\ (wire # <<>> => wire' = wire)
  /\ work \in InStream => work' \in InStream /\ (wire' # <<>> => wire'[1].kind \notin {"refusal", "object"} \/ wire' = wire)
  /\ work = "ended" => work' = work /\ wire' = wire
  /\ work # "ended" /\ work' = "ended" => wire' # <<>>

\* A generator that yields has had its previous chunk taken, and leaves one.
LEMMA Yields ==
  ASSUME NEW chunk, Yield(chunk)
  PROVE  wire = <<>> /\ wire' # <<>> /\ wire' = <<chunk>> /\ wire'[1] = chunk
BY DEF Yield

\* An output leaves the generator where it is, and yields a delta or nothing.
LEMMA OutputsDo ==
  ASSUME Outputs
  PROVE  /\ UNCHANGED <<ask, work, upstream>> /\ work = "streaming" /\ wire = <<>>
         /\ failures' = failures \/ failures' = failures + 1
         /\ wire' = wire \/ \E chunk : Yield(chunk) /\ chunk.kind = "delta"
<1>1. PICK i, n, k, reason : Output(i, n, k, reason)
  BY Zenon DEF Outputs
<1> DEFINE last   == reason # NoReason
           pieces == SubSeq(ask.text[i], engine[i].made + 1, engine[i].made + n)
           held   == parsers[i].held \o pieces
           taken  == SubSeq(held, 1, k)
           delta  == IF ask.parses THEN ParseDelta(parsers[i].reasoning, taken)
                     ELSE [NoDelta EXCEPT !.content = n]
           emits  == last \/ ~ask.parses \/ delta # NoDelta
           o      == Streamed(Accumulated(out[i], pieces, Ids(n, reason), emits), delta)
           found  == IF last THEN reconcile_trapped_content(o) ELSE 0
           chunk(c) == [kind |-> "delta", choice |-> i, delta |-> [delta EXCEPT !.content = @ + c],
                        reason |-> IF last THEN finish_reason_for_choice(o.tools, reason) ELSE NoReason]
<1>2. /\ work = "streaming" /\ wire = <<>> /\ UNCHANGED <<ask, work, upstream>>
      /\ \/ emits /\ Yield(chunk(found)) /\ UNCHANGED failures
         \/ ~emits /\ UNCHANGED <<wire, failures>>
         \/ found > 0 /\ Fails /\ Yield(chunk(0))
  BY <1>1, Zenon DEF Output
<1>3. chunk(found).kind = "delta" /\ chunk(0).kind = "delta"
  BY Zenon
<1> HIDE DEF last, pieces, held, taken, delta, emits, o, found, chunk
<1> QED
  BY <1>2, <1>3 DEF Fails

\* The replica's steps keep what waits and where the generator is in accord.
LEMMA ReplicaStep ==
  ASSUME WireFits, ChatNext
  PROVE  WireFits' /\ Seen
<1> USE DEF WireFits, Seen, Waits, Waiting, Steps, InStream, KindsAt, Moves
<1>1. CASE Prepares
  <2>1. ask' = ask /\ work = "called" /\ wire = <<>>
    BY <1>1 DEF Prepares
  <2>2. CASE Moves("called", "ended") /\ Yield(Refusal(400))
    BY <2>1, <2>2, Yields DEF Refusal
  <2>3. CASE wire' = wire /\ (work' \in {"blocking", "first", "connecting"} =>
               work' = IF ~ask.stream THEN "blocking" ELSE IF ask.loader = "vllm" THEN "first" ELSE "connecting")
             /\ work' \in {"blocking", "first", "connecting", "raised", "raised_value"}
    BY <2>1, <2>3
  <2> QED
    BY <1>1, <2>2, <2>3 DEF Prepares
<1>2. CASE \E op : Answers(op, {400}) \/ Answers(op, {400, 502})
  <2>0. PICK op : Answers(op, {400}) \/ Answers(op, {400, 502})
    BY <1>2
  <2>1. PICK codes \in SUBSET {400, 502} : Answers(op, codes)
    BY <2>0
  <2>2. ask' = ask /\ work = "called" /\ wire = <<>> /\ ~ask.stream
    BY <2>1 DEF Answers
  <2>3. CASE work' = "ended" /\ Yield([kind |-> "object"])
    BY <2>2, <2>3, Yields
  <2>4. CASE \E code \in codes : work' = "ended" /\ Yield(Refusal(code))
    BY <2>2, <2>4, Yields DEF Refusal
  <2>5. CASE work' \in {"raised", "raised_value"} /\ wire' = wire
    BY <2>2, <2>5
  <2> QED
    BY <2>1, <2>3, <2>4, <2>5 DEF Answers
<1>3. CASE FailsInStream
  <2>1. ask' = ask /\ work \in {"first", "streaming", "connecting", "relaying"} /\ work' = "closing"
        /\ Yield([kind |-> "error"])
    BY <1>3 DEF FailsInStream
  <2> QED
    BY <2>1, Yields
<1>4. CASE Closes
  <2>1. ask' = ask /\ work = "closing" /\ work' = "ended" /\ Yield([kind |-> "done"])
    BY <1>4 DEF Closes
  <2> QED
    BY <2>1, Yields
<1>5. CASE ReplicaDies
  BY <1>5 DEF ReplicaDies
<1>6. CASE GeneratesAll
  <2>1. ask' = ask /\ work = "blocking" /\ wire = <<>> /\ ~ask.stream
    BY <1>6 DEF GeneratesAll
  <2>2. CASE \E reason : work' = "ended" /\ Yield(FinalOutput(reason))
    BY <2>1, <2>2, Yields DEF FinalOutput
  <2>3. CASE work' = "ended" /\ Yield(Refusal(400))
    BY <2>1, <2>3, Yields DEF Refusal
  <2>4. CASE work' = "raised" /\ wire' = wire
    BY <2>1, <2>4
  <2> QED
    BY <1>6, <2>2, <2>3, <2>4 DEF GeneratesAll
<1>7. CASE Opens
  <2>1. ask' = ask /\ work = "first" /\ work' = "streaming" /\ Yield([kind |-> "role"])
    BY <1>7 DEF Opens
  <2> QED
    BY <2>1, Yields
<1>8. CASE Outputs
  <2>1. /\ ask' = ask /\ work = "streaming" /\ work' = work /\ wire = <<>>
        /\ wire' = wire \/ \E chunk : Yield(chunk) /\ chunk.kind = "delta"
    BY <1>8, OutputsDo
  <2> QED
    BY <2>1, Yields
<1>9. CASE Finishes
  <2>1. /\ ask' = ask /\ work = "streaming" /\ work' = "closing"
        /\ wire' = wire \/ \E chunk : Yield(chunk) /\ chunk.kind = "usage"
    BY <1>9 DEF Finishes
  <2> QED
    BY <2>1, Yields
<1>10. CASE post_chat
  <2>1. ask' = ask /\ work = "blocking" /\ work' = "ended" /\ ~ask.stream /\ wire = <<>>
    BY <1>10 DEF post_chat
  <2>2. CASE Yield([kind |-> "object"])
    BY <2>1, <2>2, Yields
  <2>3. CASE \E code \in {400, 502} : Yield(Refusal(code))
    BY <2>1, <2>3, Yields DEF Refusal
  <2> QED
    BY <1>10, <2>2, <2>3 DEF post_chat
<1>11. CASE StreamConnects \/ SkipsLine \/ ReadsDone \/ StreamEnds
  BY <1>11 DEF StreamConnects, SkipsLine, ReadsDone, StreamEnds
<1>12. CASE Relays \/ RelaysUsage
  <2>1. /\ ask' = ask /\ work = "relaying" /\ work' = work
        /\ \E chunk : Yield(chunk) /\ chunk.kind \in {"relay", "usage"}
    BY <1>12 DEF Relays, RelaysUsage
  <2> QED
    BY <2>1, Yields
<1>13. CASE StartsSegments
  <2>1. ask' = ask /\ work = "called" /\ wire = <<>> /\ ask.op # "chat"
    BY <1>13 DEF StartsSegments
  <2>2. CASE work' = "segments" /\ wire' = wire
    BY <2>1, <2>2
  <2>3. CASE work' = "ended" /\ Yield(Refusal(400))
    BY <2>1, <2>3, Yields DEF Refusal
  <2> QED
    BY <1>13, <2>2, <2>3 DEF StartsSegments
<1>14. CASE EmitsSegment
  <2>1. ask' = ask /\ work = "segments" /\ work' = work /\ \E chunk : Yield(chunk) /\ chunk.kind = "relay"
    BY <1>14 DEF EmitsSegment
  <2> QED
    BY <2>1, Yields
<1>15. CASE SegmentsEnd
  <2>1. ask' = ask /\ work = "segments" /\ work' = "ended" /\ Yield([kind |-> "done"])
    BY <1>15 DEF SegmentsEnd
  <2> QED
    BY <2>1, Yields
<1>16. CASE SegmentsFail
  <2>1. /\ ask' = ask /\ work = "segments"
        /\ \/ work' = "ended" /\ Yield([kind |-> "error"])
           \/ work' = "raised" /\ wire' = wire
    BY <1>16 DEF SegmentsFail
  <2> QED
    BY <2>1, Yields
<1> QED
  BY <1>1, <1>2, <1>3, <1>4, <1>5, <1>6, <1>7, <1>8, <1>9, <1>10, <1>11, <1>12, <1>13, <1>14, <1>15,
     <1>16
  DEF ChatNext, Responds, Embeds, Transcribes, Translates, Speaks, DrawsImage, EditsImage, VariesImage

\* The types of the handler and of what the client was handed.
GateType ==
  /\ gate \in [phase : {"idle", "first", "open", "body", "over"}, status : {"ok", "error"},
               error : {"none", "stream_error"}, tries : Nat]
  /\ client \in [code : Nat, view : {client.view}, usage : {client.usage}, errors : Nat,
                 done : BOOLEAN, gone : BOOLEAN]

\* Nothing was recorded or told yet.
NothingTold ==
  metric = <<>> /\ gate.status = "ok" /\ gate.error = "none" /\ client.errors = 0 /\ ~client.done

\* The outcome a handler will record is that of the stream so far.
Idle == NothingTold /\ client.code = 0 /\ work = "idle" /\ wire = <<>>
\* What holds of a handler that awaits the first chunk, has it, or streams the body.
First == NothingTold /\ client.code = 0 /\ ask.model = "served"
Open ==
  /\ NothingTold /\ client.code = 200 /\ ask.model = "served"
  /\ work \in InStream /\ wire # <<>> /\ Waiting.kind \notin {"refusal", "object"}
Body ==
  /\ metric = <<>> /\ client.code = 200 /\ ask.model = "served" /\ work \in InStream
  /\ wire # <<>> => Waiting.kind \notin {"refusal", "object"}
  /\ \/ gate.status = "ok" /\ gate.error = "none" /\ client.errors = 0
     \/ gate.status = "error" /\ gate.error = "stream_error" /\ client.errors > 0
  /\ work = "ended" /\ wire = <<>> => client.done \/ gate.status = "error"

\* What was recorded is what the client got.
Right(m) ==
  /\ m.status = "ok" => client.code = 200 /\ client.errors = 0 /\ (ask.stream => client.done)
  /\ client.code >= 400 \/ client.errors > 0 => m.status = "error"
  /\ m.status = "error" => client.code >= 400 \/ client.errors > 0
  /\ m.status = "cancelled" => client.gone
  /\ m.error = "model_not_ready" => ask.model = "expected" /\ client.code = 503
  /\ ask.model = "unknown" => m.error = "model_not_found" /\ client.code = 404
\* A request that is over was recorded as what the client got, or its client left unrecorded.
OverRight ==
  \/ metric = <<>> /\ client.gone /\ client.code = 200 /\ ~client.done
  \/ \E m : metric = <<m>> /\ Right(m)

\* What each phase of the handler may rely on.
PhaseInv ==
  /\ gate.phase = "idle" => Idle
  /\ gate.phase = "first" => First
  /\ gate.phase = "open" => Open
  /\ gate.phase = "body" => Body
  /\ gate.phase = "over" => OverRight

\* The inductive invariant behind OutcomeMatchesClient.
OutcomeInv == WireFits /\ GateType /\ PhaseInv

\* It holds at first.
LEMMA InitOutcome == GatewayInit => OutcomeInv
<1> SUFFICES ASSUME GatewayInit PROVE OutcomeInv
  OBVIOUS
<1>1. WireFits
  BY DEF GatewayInit, ChatInit, WireFits, Waits, Steps
<1>2. GateType
  BY DEF GatewayInit, GateType
<1>3. PhaseInv
  BY DEF GatewayInit, ChatInit, PhaseInv, Idle, NothingTold
<1> QED
  BY <1>1, <1>2, <1>3 DEF OutcomeInv

\* A reply ends the handler; the first outcome counts.
LEMMA Replied ==
  ASSUME GateType, NEW code \in Nat, Replies(code)
  PROVE  /\ GateType' /\ gate'.phase = "over" /\ client'.code = code
         /\ client'.errors = client.errors /\ client'.done = client.done /\ client'.gone = client.gone
BY DEF GateType, Replies

\* A request that was not recorded is recorded once.
LEMMA Recorded ==
  ASSUME metric = <<>>, NEW sort, NEW error, Record(sort, error)
  PROVE  metric' = <<[status |-> sort, error |-> error]>>
BY DEF Record, finish

\* What passing a chunk on changes for the client, but for the text and the usage.
LEMMA Relay ==
  ASSUME GateType, NEW chunk
  PROVE  LET c == Relayed(client, chunk)
         IN /\ c \in [code : Nat, view : {c.view}, usage : {c.usage}, errors : Nat, done : BOOLEAN,
                      gone : BOOLEAN]
            /\ c.code = client.code /\ c.gone = client.gone
            /\ c.errors = IF chunk.kind = "error" THEN client.errors + 1 ELSE client.errors
            /\ c.done = (client.done \/ chunk.kind = "done")
<1> DEFINE c == Relayed(client, chunk)
<1>1. CASE chunk.kind = "delta"
  <2>1. PICK v : c = [client EXCEPT !.view = v]
    BY <1>1 DEF Relayed
  <2> QED
    BY <1>1, <2>1 DEF GateType
<1>2. CASE chunk.kind = "relay"
  <2>1. PICK v : c = [client EXCEPT !.view = v]
    BY <1>2 DEF Relayed
  <2> QED
    BY <1>2, <2>1 DEF GateType
<1>3. CASE chunk.kind = "usage"
  <2>1. PICK u : c = [client EXCEPT !.usage = u]
    BY <1>3 DEF Relayed
  <2> QED
    BY <1>3, <2>1 DEF GateType
<1>4. CASE chunk.kind = "error"
  <2>1. c = [client EXCEPT !.errors = @ + 1]
    BY <1>4 DEF Relayed
  <2> QED
    BY <1>4, <2>1 DEF GateType
<1>5. CASE chunk.kind = "done"
  <2>1. c = [client EXCEPT !.done = TRUE]
    BY <1>5 DEF Relayed
  <2> QED
    BY <1>5, <2>1 DEF GateType
<1>6. CASE chunk.kind \notin {"delta", "relay", "usage", "error", "done"}
  <2>1. c = client
    BY <1>6 DEF Relayed
  <2> QED
    BY <1>6, <2>1 DEF GateType
<1> QED
  BY <1>1, <1>2, <1>3, <1>4, <1>5, <1>6

\* Every step keeps it.
LEMMA OutcomeStep == OutcomeInv /\ [GatewayNext]_gatewayVars => OutcomeInv'
<1> SUFFICES ASSUME OutcomeInv, [GatewayNext]_gatewayVars PROVE OutcomeInv'
  OBVIOUS
<1>0. WireFits /\ GateType /\ PhaseInv
  BY DEF OutcomeInv
<1>1. CASE NotRouted
  <2>1. NothingTold /\ ask.model # "served" /\ gate.phase = "idle" /\ Idle
    BY <1>0, <1>1 DEF NotRouted, PhaseInv, Idle
  <2>2. UNCHANGED chatVars
    BY <1>1 DEF NotRouted
  <2>3. WireFits'
    BY <1>0, <2>2 DEF WireFits, Waits, Waiting, chatVars
  <2>4. PICK code \in {404, 503} : Replies(code)
          /\ code = (IF ask.model = "expected" THEN 503 ELSE 404)
          /\ metric' = <<[status |-> "error", error |->
                           IF ask.model = "expected" THEN "model_not_ready" ELSE "model_not_found"]>>
    BY <1>1, <2>1 DEF NotRouted, finish, NothingTold
  <2>5. GateType' /\ gate'.phase = "over" /\ client'.code = code
    BY <1>0, <2>4, Replied
  <2>6. OverRight'
    BY <2>2, <2>4, <2>5 DEF OverRight, Right, chatVars
  <2> QED
    BY <2>3, <2>5, <2>6 DEF OutcomeInv, PhaseInv
<1>2. CASE \E op : Endpoint(op) /\ Sends
  <2>1. Idle /\ ask.model = "served"
    BY <1>0, <1>2 DEF Endpoint, PhaseInv
  <2>2. WireFits'
    BY <1>0, <1>2, <2>1 DEF Sends, WireFits, Waits, Waiting, Idle, Steps
  <2>3. gate' = [gate EXCEPT !.phase = "first", !.tries = 1] /\ UNCHANGED <<ask, client, metric>>
    BY <1>2 DEF Sends
  <2>4. GateType' /\ gate'.phase = "first" /\ gate'.status = gate.status /\ gate'.error = gate.error
    BY <1>0, <2>3 DEF GateType
  <2>5. First'
    BY <2>1, <2>3, <2>4 DEF Idle, First, NothingTold
  <2> QED
    BY <2>2, <2>4, <2>5 DEF OutcomeInv, PhaseInv
<1>3. ASSUME NEW op, Endpoint(op), NEW code \in {400, 404, 503}, UNCHANGED chatVars, Replies(code),
             Record("error", HttpError(code)) \/ (code = 400 /\ Record("error", "validation_error"))
      PROVE  OutcomeInv'
  <2>1. Idle /\ ask.model = "served"
    BY <1>0, <1>3 DEF Endpoint, PhaseInv
  <2>2. WireFits'
    BY <1>0, <1>3 DEF WireFits, Waits, Waiting, chatVars
  <2>3. PICK error \in {"http_400", "http_404", "http_503", "validation_error"} :
          metric' = <<[status |-> "error", error |-> error]>>
    BY <1>3, <2>1, Recorded DEF Idle, NothingTold, HttpError
  <2>4. GateType' /\ gate'.phase = "over" /\ client'.code = code
    BY <1>0, <1>3, Replied
  <2>5. OverRight'
    BY <1>3, <2>1, <2>3, <2>4 DEF OverRight, Right, chatVars
  <2> QED
    BY <2>2, <2>4, <2>5 DEF OutcomeInv, PhaseInv
<1>4. CASE AsksAgain
  <2>1. First /\ gate.phase = "first"
    BY <1>0, <1>4 DEF AsksAgain, PhaseInv
  <2>2. WireFits'
    BY <1>0, <1>4 DEF AsksAgain, WireFits, Waits, Waiting, Steps
  <2>3. GateType' /\ gate'.phase = "first" /\ First'
    BY <1>0, <1>4, <2>1 DEF AsksAgain, GateType, First, NothingTold
  <2> QED
    BY <2>2, <2>3 DEF OutcomeInv, PhaseInv
<1>5. CASE FirstFails
  <2>1. First /\ UNCHANGED chatVars
    BY <1>0, <1>5 DEF FirstFails, PhaseInv
  <2>2. WireFits'
    BY <1>0, <2>1 DEF WireFits, Waits, Waiting, chatVars
  <2>3. PICK code \in {400, 500}, error \in {"validation_error", "unhandled"} :
          Replies(code) /\ metric' = <<[status |-> "error", error |-> error]>>
    BY <1>5, <2>1, Recorded DEF FirstFails, First, NothingTold
  <2>4. GateType' /\ gate'.phase = "over" /\ client'.code = code
    BY <1>0, <2>3, Replied
  <2>5. OverRight'
    BY <2>1, <2>3, <2>4 DEF OverRight, Right, First, chatVars
  <2> QED
    BY <2>2, <2>4, <2>5 DEF OutcomeInv, PhaseInv
<1>6. CASE FirstIsObject
  <2>1. First /\ wire # <<>> /\ wire = <<Waiting>> /\ Head(wire) = Waiting /\ UNCHANGED <<ask, work>>
        /\ wire' = <<>>
    BY <1>0, <1>6 DEF FirstIsObject, PhaseInv, WireFits
  <2>2. WireFits'
    BY <1>0, <2>1 DEF WireFits, Waits
  <2>3. PICK code \in Nat, sort \in {"ok", "error"},
             error \in {"none", "inference_error", "invalid_request"} :
          /\ Replies(code) /\ metric' = <<[status |-> sort, error |-> error]>>
          /\ sort = "ok" => code = 200 /\ ~ask.stream
          /\ sort = "error" => code >= 400
    <3>1. CASE Waiting.kind = "refusal" /\ Replies(Waiting.code) /\ Record("error", "inference_error")
      <4>1. Waiting.code \in {400, 502}
        BY <1>0, <2>1, <3>1 DEF WireFits, Waits
      <4>2. metric' = <<[status |-> "error", error |-> "inference_error"]>>
        BY <2>1, <3>1, Recorded DEF First, NothingTold
      <4> QED
        BY <3>1, <4>1, <4>2
    <3>2. CASE Waiting.kind = "object" /\ Replies(200) /\ Record("ok", "none")
      <4>1. ~ask.stream
        BY <1>0, <2>1, <3>2 DEF WireFits, Waits
      <4>2. metric' = <<[status |-> "ok", error |-> "none"]>>
        BY <2>1, <3>2, Recorded DEF First, NothingTold
      <4> QED
        BY <3>2, <4>1, <4>2
    <3>3. CASE Replies(400) /\ Record("error", "invalid_request")
      <4>2. metric' = <<[status |-> "error", error |-> "invalid_request"]>>
        BY <2>1, <3>3, Recorded DEF First, NothingTold
      <4> QED
        BY <3>3, <4>2
    <3> QED
      BY <1>6, <2>1, <3>1, <3>2, <3>3 DEF FirstIsObject
  <2>4. GateType' /\ gate'.phase = "over" /\ client'.code = code /\ client'.errors = 0
    BY <1>0, <2>1, <2>3, Replied DEF First, NothingTold
  <2>5. OverRight'
    BY <2>1, <2>3, <2>4 DEF OverRight, Right, First
  <2> QED
    BY <2>2, <2>4, <2>5 DEF OutcomeInv, PhaseInv
<1>7. CASE FirstIsChunk
  <2>1. /\ First /\ wire # <<>> /\ wire = <<Waiting>> /\ Waiting.kind \notin {"refusal", "object"}
        /\ Waiting.kind \in KindsAt(work) /\ work \in Steps
    BY <1>0, <1>7 DEF FirstIsChunk, PhaseInv, WireFits
  <2>2. WireFits'
    BY <1>0, <1>7 DEF WireFits, Waits, Waiting, FirstIsChunk, chatVars
  <2>3. /\ gate' = [gate EXCEPT !.phase = "open"] /\ client' = [client EXCEPT !.code = 200]
        /\ UNCHANGED <<ask, work, wire, metric>>
    BY <1>7 DEF FirstIsChunk, chatVars
  <2>4. GateType' /\ gate'.phase = "open" /\ gate'.status = gate.status /\ gate'.error = gate.error
    BY <1>0, <2>3 DEF GateType
  <2>5. client'.code = 200 /\ client'.errors = client.errors /\ client'.done = client.done
    BY <1>0, <2>3 DEF GateType
  <2>6. work \in InStream
    BY <2>1 DEF KindsAt, InStream, Steps
  <2>7. Open'
    BY <2>1, <2>3, <2>4, <2>5, <2>6 DEF First, Open, NothingTold, Waiting
  <2> QED
    BY <2>2, <2>4, <2>7 DEF OutcomeInv, PhaseInv
<1>8. CASE Passes
  <2>1. /\ wire # <<>> /\ wire = <<Waiting>> /\ Head(wire) = Waiting /\ wire' = <<>>
        /\ UNCHANGED <<ask, work, metric>> /\ Waiting.kind \in KindsAt(work) /\ work \in InStream
        /\ Waiting.kind \notin {"refusal", "object"}
    BY <1>0, <1>8 DEF Passes, PhaseInv, WireFits, Open, Body
  <2>2. WireFits'
    BY <1>0, <2>1 DEF WireFits, Waits
  <2>3. metric = <<>> /\ client.code = 200 /\ ask.model = "served"
    BY <1>0, <1>8 DEF Passes, PhaseInv, Open, Body, NothingTold
  <2>4. \/ gate.status = "ok" /\ gate.error = "none" /\ client.errors = 0
        \/ gate.status = "error" /\ gate.error = "stream_error" /\ client.errors > 0
    BY <1>0, <1>8 DEF Passes, PhaseInv, Open, Body, NothingTold
  <2>5. /\ gate' \in [phase : {"idle", "first", "open", "body", "over"}, status : {"ok", "error"},
                      error : {"none", "stream_error"}, tries : Nat]
        /\ gate'.phase = "body"
        /\ gate'.status = (IF Waiting.kind = "error" THEN "error" ELSE gate.status)
        /\ gate'.error = (IF Waiting.kind = "error" THEN "stream_error" ELSE gate.error)
    BY <1>0, <1>8, <2>1 DEF Passes, GateType, is_failure_chunk
  <2>6. client' = Relayed(client, Waiting)
    BY <1>8, <2>1 DEF Passes
  <2>7. /\ client' \in [code : Nat, view : {client'.view}, usage : {client'.usage}, errors : Nat,
                        done : BOOLEAN, gone : BOOLEAN]
        /\ client'.code = client.code
        /\ client'.errors = (IF Waiting.kind = "error" THEN client.errors + 1 ELSE client.errors)
        /\ client'.done = (client.done \/ Waiting.kind = "done")
    BY <1>0, <2>6, Relay
  <2>8. GateType'
    BY <2>5, <2>7 DEF GateType
  <2>9. client.errors \in Nat
    BY <1>0 DEF GateType
  <2>10. work = "ended" => Waiting.kind \in {"done", "error"}
    BY <2>1 DEF KindsAt
  <2>11. Body'
    BY <2>1, <2>3, <2>4, <2>5, <2>7, <2>9, <2>10 DEF Body
  <2> QED
    BY <2>2, <2>5, <2>8, <2>11 DEF OutcomeInv, PhaseInv
<1>9. CASE BodyEnds
  <2>1. /\ Body /\ UNCHANGED <<chatVars, client>> /\ gate' = [gate EXCEPT !.phase = "over"]
        /\ work = "ended" /\ wire = <<>>
    BY <1>0, <1>9 DEF BodyEnds, PhaseInv
  <2>2. metric' = <<[status |-> gate.status, error |-> gate.error]>>
    BY <1>9, <2>1, Recorded DEF BodyEnds, Body
  <2>3. WireFits'
    BY <1>0, <2>1 DEF WireFits, Waits, Waiting, chatVars
  <2>4. GateType' /\ gate'.phase = "over"
    BY <1>0, <2>1 DEF GateType
  <2>5. OverRight'
    BY <2>1, <2>2 DEF OverRight, Right, Body, chatVars
  <2> QED
    BY <2>3, <2>4, <2>5 DEF OutcomeInv, PhaseInv
<1>10. CASE BodyFails
  <2>1. /\ Body /\ UNCHANGED chatVars /\ client' = [client EXCEPT !.errors = @ + 1, !.done = TRUE]
        /\ gate' = [gate EXCEPT !.phase = "over", !.status = "error", !.error = "stream_error"]
    BY <1>0, <1>10 DEF BodyFails, PhaseInv
  <2>2. metric' = <<[status |-> "error", error |-> "stream_error"]>>
    BY <1>10, <2>1, Recorded DEF BodyFails, Body
  <2>3. WireFits'
    BY <1>0, <2>1 DEF WireFits, Waits, Waiting, chatVars
  <2>4. client'.errors = client.errors + 1 /\ client.errors \in Nat
    BY <1>0, <2>1 DEF GateType
  <2>6. GateType' /\ gate'.phase = "over"
    <3>1. /\ gate' \in [phase : {"idle", "first", "open", "body", "over"}, status : {"ok", "error"},
                         error : {"none", "stream_error"}, tries : Nat]
          /\ gate'.phase = "over"
      BY <1>0, <2>1 DEF GateType
    <3>2. client' \in [code : Nat, view : {client'.view}, usage : {client'.usage}, errors : Nat,
                       done : BOOLEAN, gone : BOOLEAN]
      <4>1. client' = [code |-> client.code, view |-> client.view, usage |-> client.usage,
                       errors |-> client.errors + 1, done |-> TRUE, gone |-> client.gone]
        BY <1>0, <2>1 DEF GateType
      <4>2. client.code \in Nat /\ client.errors + 1 \in Nat /\ client.gone \in BOOLEAN
        BY <1>0 DEF GateType
      <4> QED
        BY <4>1, <4>2
    <3> QED
      BY <3>1, <3>2 DEF GateType
  <2>5. OverRight'
    BY <2>1, <2>2, <2>4 DEF OverRight, Right, Body, chatVars
  <2> QED
    BY <2>3, <2>5, <2>6 DEF OutcomeInv, PhaseInv
<1>11. CASE Leaves
  <2>1. /\ UNCHANGED <<chatVars, gate, metric>> /\ client' = [client EXCEPT !.gone = TRUE]
        /\ gate.phase # "over"
    BY <1>11 DEF Leaves
  <2>2. WireFits'
    BY <1>0, <2>1 DEF WireFits, Waits, Waiting, chatVars
  <2>3. /\ GateType' /\ client'.code = client.code /\ client'.errors = client.errors
        /\ client'.done = client.done
    BY <1>0, <2>1 DEF GateType
  <2>4. PhaseInv'
    BY <1>0, <2>1, <2>3 DEF PhaseInv, Idle, First, Open, Body, NothingTold, Waiting, chatVars
  <2> QED
    BY <2>2, <2>3, <2>4 DEF OutcomeInv
<1>12. CASE Cancels
  <2>1. /\ UNCHANGED <<chatVars, client>> /\ gate' = [gate EXCEPT !.phase = "over"] /\ client.gone
        /\ metric = <<>> /\ ask.model = "served"
    BY <1>0, <1>12 DEF Cancels, PhaseInv, First, Open, Body, NothingTold
  <2>2. WireFits'
    BY <1>0, <2>1 DEF WireFits, Waits, Waiting, chatVars
  <2>3. GateType' /\ gate'.phase = "over"
    BY <1>0, <2>1 DEF GateType
  <2>4. CASE gate.phase = "open"
    <3>1. metric' = <<>> /\ client.code = 200 /\ ~client.done
      BY <1>0, <1>12, <2>1, <2>4 DEF Cancels, PhaseInv, Open, NothingTold
    <3> QED
      BY <2>1, <2>2, <2>3, <3>1 DEF OutcomeInv, PhaseInv, OverRight
  <2>5. CASE gate.phase \in {"first", "body"}
    <3>1. /\ client.code \in {0, 200}
          /\ \/ gate.status = "ok" /\ client.errors = 0
             \/ gate.status = "error" /\ gate.error = "stream_error" /\ client.errors > 0
      BY <1>0, <2>5 DEF PhaseInv, First, Body, NothingTold
    <3>2. PICK sort, error : metric' = <<[status |-> sort, error |-> error]>>
            /\ (IF gate.status = "ok" THEN sort = "cancelled" /\ error = "none"
                ELSE sort = gate.status /\ error = gate.error)
      BY <1>12, <2>1, <2>5, Recorded DEF Cancels, CancelledAs
    <3>3. OverRight'
      BY <2>1, <3>1, <3>2 DEF OverRight, Right, chatVars
    <3> QED
      BY <2>2, <2>3, <3>3 DEF OutcomeInv, PhaseInv
  <2> QED
    BY <1>12, <2>4, <2>5 DEF Cancels
<1>13. CASE ChatNext /\ UNCHANGED <<gate, client, metric>>
  <2>1. WireFits' /\ Seen
    BY <1>0, <1>13, ReplicaStep
  <2>2. GateType'
    BY <1>0, <1>13 DEF GateType
  <2>3. gate.phase # "idle"
    BY <1>0, <2>1 DEF PhaseInv, Idle, Seen
  <2>4. PhaseInv'
    BY <1>0, <1>13, <2>1, <2>3
    DEF PhaseInv, First, Open, Body, OverRight, Right, NothingTold, Seen, Waiting
  <2> QED
    BY <2>1, <2>2, <2>4 DEF OutcomeInv
<1>14. CASE UNCHANGED gatewayVars
  BY <1>0, <1>14 DEF gatewayVars, chatVars, OutcomeInv, WireFits, Waits, Waiting, GateType, PhaseInv,
     Idle, First, Open, Body, OverRight, Right, NothingTold
<1>15. CASE create_response \/ compact_response
  BY <1>2, <1>3, <1>15 DEF create_response, compact_response, Refuses
<1>16. CASE create_transcriptions \/ create_translations
  BY <1>2, <1>3, <1>16 DEF create_transcriptions, create_translations, Refuses
<1>17. CASE create_chat_completion \/ create_embeddings \/ create_speech \/ create_image
              \/ create_image_edit \/ create_image_variation
  BY <1>2, <1>17 DEF create_chat_completion, create_embeddings, create_speech, create_image,
     create_image_edit, create_image_variation
<1> QED
  BY <1>1, <1>4, <1>5, <1>6, <1>7, <1>8, <1>9, <1>10, <1>11, <1>12, <1>13, <1>14, <1>15, <1>16, <1>17
  DEF GatewayNext

(* The outcome that is recorded is what the client got, in whatever order   *)
(* the replica fails and the client leaves (_handle_response, _recorded).   *)
THEOREM OutcomesMatch == GatewaySpec => []OutcomeMatchesClient
<1>1. OutcomeInv => OutcomeMatchesClient
  <2> SUFFICES ASSUME OutcomeInv PROVE OutcomeMatchesClient
    OBVIOUS
  <2>1. CASE gate.phase # "over"
    BY <2>1 DEF OutcomeInv, GateType, PhaseInv, Idle, First, Open, Body, NothingTold,
       OutcomeMatchesClient
  <2>2. CASE gate.phase = "over" /\ metric = <<>>
    BY <2>2 DEF OutcomeInv, PhaseInv, OverRight, OutcomeMatchesClient
  <2>3. CASE gate.phase = "over" /\ metric # <<>>
    <3>1. PICK m : metric = <<m>> /\ Right(m)
      BY <2>3 DEF OutcomeInv, PhaseInv, OverRight
    <3>2. Len(metric) = 1 /\ metric[1] = m
      BY <3>1
    <3> QED
      BY <2>3, <3>1, <3>2 DEF Right, OutcomeMatchesClient
  <2> QED
    BY <2>1, <2>2, <2>3
<1> QED
  BY <1>1, InitOutcome, OutcomeStep, PTL DEF GatewaySpec

-----------------------------------------------------------------------------
(* The usage.                                                                *)

\* The tokens the engine has made for each choice.
EngineTokens == [i \in ChoiceIds |-> engine[i].tokens]

\* What the replica keeps for a choice is a record; its tokens are the engine's.
TokensKept ==
  /\ engine = [i \in ChoiceIds |-> engine[i]] /\ out = [i \in ChoiceIds |-> out[i]]
  /\ \A i \in ChoiceIds :
       /\ out[i] = [tokens |-> out[i].tokens, text |-> out[i].text, sent |-> out[i].sent,
                    tools |-> out[i].tools, content |-> out[i].content,
                    reasoning |-> out[i].reasoning]
       /\ out[i].tokens = engine[i].tokens

\* The types that usage rests on.
UsageTypes ==
  /\ ask \in Asks /\ failures \in Nat
  /\ upstream \in [lines : Nat, reasoning : Nat, told : BOOLEAN, done : BOOLEAN]
  /\ client.view = [i \in ChoiceIds |-> client.view[i]]

\* The handler still listens, or has heard a good end.
Serving == gate.phase \in {"first", "open", "body"}
\* Somebody reads what the replica says, or has read a good end.
Awaited == Serving \/ (client.done /\ client.errors = 0)

\* The words of reasoning relayed, and those on their way.
Shown == client.view[RelayedTo].reasoning
\* The words of reasoning in the chunk that waits.
OnTheWay == IF Waits({"relay"}) THEN Waiting.delta.reasoning ELSE 0

\* A stream that failed, or was none.
Failed == Waits({"error", "refusal", "object"}) \/ client.errors > 0

\* vLLM's usage is on its way once the stream closes, or has come.
VllmUsage ==
  ask.usage /\ ask.loader = "vllm" =>
    /\ Waits({"usage"}) => Waiting.tokens = Total(EngineTokens)
    /\ Awaited /\ work \in {"closing", "ended"} =>
         Failed \/ Waits({"usage"}) \/ client.usage = Total(EngineTokens)

\* llama-server's reasoning is that of the chunks relayed, until the usage is told.
Estimates(n) == n = Shown \/ (failures > 0 /\ n = 0)
\* llama-server's usage counts the reasoning the client was shown or is about to be.
LlamaUsage ==
  ask.usage /\ ask.loader # "vllm" =>
    /\ upstream.done => upstream.told
    /\ ~upstream.told => client.usage = -1
    /\ ~Waits({"delta"})
    /\ Serving => Shown \in Nat /\ OnTheWay \in Nat
    /\ Serving /\ ~upstream.told => Shown + OnTheWay = upstream.reasoning
    /\ Waits({"usage"}) => upstream.told
    /\ Awaited /\ upstream.told =>
         /\ ~Waits({"relay"})
         /\ Waits({"usage"}) => Estimates(Waiting.reasoning)
         /\ Failed \/ Waits({"usage"}) \/ Estimates(client.usage)
    /\ Awaited /\ work \in {"closing", "ended"} => Failed \/ upstream.told \/ failures > 0

\* [DONE] is the last thing of a stream; a handler that has not started finds all as it was.
DoneEnds == client.done /\ client.errors = 0 => work = "ended" /\ wire = <<>>
\* Nothing was counted before the request is made.
FreshStart ==
  gate.phase = "idle" =>
    upstream.reasoning = 0 /\ ~upstream.told /\ ~upstream.done /\ Shown = 0

\* The inductive invariant behind UsageCounts.
UsageInv == TokensKept /\ UsageTypes /\ VllmUsage /\ LlamaUsage /\ DoneEnds /\ FreshStart

\* It holds at first.
LEMMA InitUsage == GatewayInit => UsageInv
<1> SUFFICES ASSUME GatewayInit PROVE UsageInv
  OBVIOUS
<1>1. RelayedTo \in ChoiceIds
  BY AskAssumption DEF RelayedTo
<1>2. TokensKept
  BY DEF GatewayInit, ChatInit, TokensKept
<1>3. UsageTypes /\ DoneEnds
  BY DEF GatewayInit, ChatInit, UsageTypes, DoneEnds
<1>4. FreshStart
  BY <1>1 DEF GatewayInit, ChatInit, FreshStart, Shown, NoView
<1>5. VllmUsage
  BY DEF GatewayInit, ChatInit, VllmUsage, Waits, Awaited, Serving
<1>6. LlamaUsage
  BY DEF GatewayInit, ChatInit, LlamaUsage, Waits, Awaited, Serving
<1> QED
  BY <1>2, <1>3, <1>4, <1>5, <1>6 DEF UsageInv

\* One output adds its tokens to both counts.
LEMMA TokensStep ==
  ASSUME TokensKept, ChatNext
  PROVE  TokensKept'
<1>1. CASE UNCHANGED <<engine, out>>
  BY <1>1 DEF TokensKept
<1>2. CASE Outputs
  <2>1. PICK i, n, k, reason : i \in ChoiceIds /\ Output(i, n, k, reason)
    BY <1>2 DEF Outputs
  <2>2. PICK pieces, emits, delta, last :
          /\ out' = [out EXCEPT ![i] = [Streamed(Accumulated(out[i], pieces, Ids(n, reason), emits), delta)
                                          EXCEPT !.sent = last]]
          /\ engine' = [engine EXCEPT ![i] = [made |-> @.made + n, tokens |-> @.tokens + Ids(n, reason),
                                              reason |-> reason]]
    BY <2>1 DEF Output
  <2> DEFINE ids == Ids(n, reason)
             old == out[i]
             kept == Accumulated(old, pieces, ids, emits)
             new == [Streamed(kept, delta) EXCEPT !.sent = last]
  <2>5. old = [tokens |-> old.tokens, text |-> old.text, sent |-> old.sent, tools |-> old.tools,
               content |-> old.content, reasoning |-> old.reasoning]
    BY <2>1 DEF TokensKept
  <2> HIDE DEF ids, old
  <2>6. PICK text : kept = [tokens |-> old.tokens + ids, text |-> text, sent |-> old.sent,
                            tools |-> old.tools, content |-> old.content, reasoning |-> old.reasoning]
    <3>1. PICK t : kept = [old EXCEPT !.tokens = @ + ids, !.text = t]
      BY DEF Accumulated
    <3> QED
      BY <2>5, <3>1
  <2> HIDE DEF kept
  <2>7. new = [tokens |-> old.tokens + ids, text |-> new.text, sent |-> new.sent, tools |-> new.tools,
               content |-> new.content, reasoning |-> new.reasoning]
    <3>1. PICK t, c, r, tools :
            Streamed(kept, delta) = [kept EXCEPT !.content = c, !.text = t, !.reasoning = r, !.tools = tools]
      BY DEF Streamed
    <3>2. Streamed(kept, delta) = [tokens |-> old.tokens + ids, text |-> t, sent |-> old.sent,
                                   tools |-> tools, content |-> c, reasoning |-> r]
      BY <2>6, <3>1
    <3>3. new = [tokens |-> old.tokens + ids, text |-> t, sent |-> last, tools |-> tools, content |-> c,
                 reasoning |-> r]
      BY <3>2
    <3> QED
      BY <3>3
  <2>8. out' = [out EXCEPT ![i] = new]
    BY <2>2 DEF ids, old, kept
  <2> HIDE DEF new
  <2>9. engine' = [engine EXCEPT ![i] = [made |-> @.made + n, tokens |-> @.tokens + ids, reason |-> reason]]
    BY <2>2 DEF ids
  <2>10. old.tokens = engine[i].tokens
    BY <2>1 DEF old, TokensKept
  <2>3. ASSUME NEW j \in ChoiceIds
        PROVE  /\ out'[j] = [tokens |-> out'[j].tokens, text |-> out'[j].text, sent |-> out'[j].sent,
                             tools |-> out'[j].tools, content |-> out'[j].content,
                             reasoning |-> out'[j].reasoning]
               /\ out'[j].tokens = engine'[j].tokens
    <3>1. CASE j = i
      <4>1. out'[j] = new /\ engine'[j].tokens = engine[i].tokens + ids
        BY <2>8, <2>9, <3>1 DEF TokensKept
      <4> QED
        BY <2>7, <2>10, <4>1
    <3>2. CASE j # i
      BY <2>8, <2>9, <3>2 DEF TokensKept
    <3> QED
      BY <3>1, <3>2
  <2>4. engine' = [j \in ChoiceIds |-> engine'[j]] /\ out' = [j \in ChoiceIds |-> out'[j]]
    BY <2>8, <2>9 DEF TokensKept
  <2> QED
    BY <2>3, <2>4 DEF TokensKept
<1>3. CASE Prepares \/ FailsInStream \/ Closes \/ ReplicaDies \/ GeneratesAll \/ Opens \/ Finishes
  BY <1>1, <1>3 DEF Prepares, FailsInStream, Closes, ReplicaDies, GeneratesAll, Opens, Finishes
<1>4. CASE post_chat \/ StreamConnects \/ Relays \/ SkipsLine \/ RelaysUsage \/ ReadsDone \/ StreamEnds
  BY <1>1, <1>4 DEF post_chat, StreamConnects, Relays, SkipsLine, RelaysUsage, ReadsDone, StreamEnds
<1>5. CASE StartsSegments \/ EmitsSegment \/ SegmentsEnd \/ SegmentsFail
  BY <1>1, <1>5 DEF StartsSegments, EmitsSegment, SegmentsEnd, SegmentsFail
<1>6. CASE \E op, codes : Answers(op, codes)
  BY <1>1, <1>6 DEF Answers
<1> QED
  BY <1>2, <1>3, <1>4, <1>5, <1>6
  DEF ChatNext, Responds, Embeds, Transcribes, Translates, Speaks, DrawsImage, EditsImage, VariesImage

\* What a step does for a chat completion that is served by vLLM.
VllmSteps ==
  \/ /\ wire' = wire /\ engine' = engine
     /\ work' = work \/ work' \notin {"closing", "ended"}
  \/ /\ engine' = engine
     /\ \E c : Yield(c) /\ c.kind \in {"error", "refusal", "object"}
  \/ work = "closing" /\ engine' = engine /\ Yield([kind |-> "done"])
  \/ work' = "streaming" /\ (wire' = wire \/ \E c : Yield(c) /\ c.kind \in {"role", "delta"})
     /\ work \in {"first", "streaming"}
  \/ /\ engine' = engine
     /\ Yield([kind |-> "usage", tokens |-> Total([i \in ChoiceIds |-> out[i].tokens])])

\* The steps of a vLLM stream, as far as usage goes.
LEMMA VllmEffect ==
  ASSUME WireFits, ChatNext, ask.op = "chat", ask.loader = "vllm", ask.usage
  PROVE  VllmSteps
<1> USE DEF VllmSteps, WireFits
<1>1. CASE Prepares
  BY <1>1 DEF Prepares, Moves, Refusal
<1>2. CASE FailsInStream \/ Closes \/ ReplicaDies
  BY <1>2 DEF FailsInStream, Closes, ReplicaDies, Moves
<1>3. CASE GeneratesAll
  BY <1>3 DEF GeneratesAll, Moves, Refusal, FinalOutput
<1>4. CASE Opens
  BY <1>4 DEF Opens, Moves
<1>5. CASE Outputs
  BY <1>5, OutputsDo
<1>6. CASE Finishes
  BY <1>6 DEF Finishes
<1>7. CASE post_chat \/ StreamConnects \/ Relays \/ SkipsLine \/ RelaysUsage \/ ReadsDone \/ StreamEnds
  BY <1>7 DEF post_chat, StreamConnects, Relays, SkipsLine, RelaysUsage, ReadsDone, StreamEnds, Moves
<1>8. CASE StartsSegments \/ EmitsSegment \/ SegmentsEnd \/ SegmentsFail
  BY <1>8 DEF StartsSegments, EmitsSegment, SegmentsEnd, SegmentsFail, Moves
<1>9. ~(Responds \/ Embeds \/ Transcribes \/ Translates \/ Speaks \/ DrawsImage \/ EditsImage \/ VariesImage)
  BY DEF Responds, Embeds, Transcribes, Translates, Speaks, DrawsImage, EditsImage, VariesImage, Answers
<1> QED
  BY <1>1, <1>2, <1>3, <1>4, <1>5, <1>6, <1>7, <1>8, <1>9 DEF ChatNext

\* What a step does for a chat completion that is served by llama-server.
LlamaSteps ==
  /\ failures' = failures \/ failures' = failures + 1
  /\ \/ /\ wire' = wire /\ upstream' = upstream
        /\ work' = work \/ work' \notin {"closing", "ended"} \/ upstream.done \/ failures' = failures + 1
     \/ /\ upstream' = upstream
        /\ \E c : Yield(c) /\ c.kind \in {"error", "refusal", "object"}
     \/ work = "closing" /\ upstream' = upstream /\ Yield([kind |-> "done"])
     \/ /\ work = "relaying" /\ work' = work /\ ~upstream.told
        /\ \E delta : /\ delta.reasoning \in {0, 1} /\ Yield([kind |-> "relay", delta |-> delta])
                      /\ upstream' = Heard(delta)
     \/ /\ work = "relaying" /\ work' = work /\ wire' = wire
        /\ \/ upstream' = [upstream EXCEPT !.lines = @ + 1]
           \/ upstream.told /\ upstream' = [upstream EXCEPT !.done = TRUE]
     \/ /\ work = "relaying" /\ work' = work /\ ~upstream.told
        /\ upstream' = [upstream EXCEPT !.told = TRUE]
        /\ \E n : /\ n = upstream.reasoning \/ (n = 0 /\ failures' = failures + 1)
                  /\ Yield([kind |-> "usage", reasoning |-> n])

\* The steps of a relayed stream, as far as usage goes.
LEMMA LlamaEffect ==
  ASSUME WireFits, ChatNext, ask.op = "chat", ask.loader # "vllm", ask.usage
  PROVE  LlamaSteps
<1> USE DEF LlamaSteps, WireFits, Fails
<1>1. CASE Prepares
  BY <1>1 DEF Prepares, Moves, Refusal
<1>2. CASE FailsInStream \/ Closes \/ ReplicaDies
  BY <1>2 DEF FailsInStream, Closes, ReplicaDies, Moves
<1>3. ~(GeneratesAll \/ Opens \/ Outputs \/ Finishes)
  <2>1. ~GeneratesAll
    BY DEF GeneratesAll
  <2>2. ~Opens /\ ~Finishes
    BY DEF Opens, Finishes, Moves
  <2>3. Outputs => work = "streaming"
    BY OutputsDo
  <2> QED
    BY <2>1, <2>2, <2>3
<1>4. CASE post_chat
  BY <1>4 DEF post_chat, Refusal
<1>5. CASE Relays
  BY <1>5 DEF Relays, NoDelta
<1>6. CASE RelaysUsage
  BY <1>6 DEF RelaysUsage
<1>7. CASE StreamConnects \/ SkipsLine \/ ReadsDone \/ StreamEnds
  BY <1>7 DEF StreamConnects, SkipsLine, ReadsDone, StreamEnds, Moves
<1>8. CASE StartsSegments \/ EmitsSegment \/ SegmentsEnd \/ SegmentsFail
  BY <1>8 DEF StartsSegments, EmitsSegment, SegmentsEnd, SegmentsFail, Moves
<1>9. ~(Responds \/ Embeds \/ Transcribes \/ Translates \/ Speaks \/ DrawsImage \/ EditsImage \/ VariesImage)
  BY DEF Responds, Embeds, Transcribes, Translates, Speaks, DrawsImage, EditsImage, VariesImage, Answers
<1> QED
  BY <1>1, <1>2, <1>3, <1>4, <1>5, <1>6, <1>7, <1>8, <1>9 DEF ChatNext

\* The replica's steps keep the types.
LEMMA ReplicaTypes ==
  ASSUME UsageTypes, ChatNext, UNCHANGED client
  PROVE  UsageTypes'
<1> USE DEF Fails
<1>0. NoDelta.reasoning = 0
  BY DEF NoDelta
<1>1. CASE Prepares \/ FailsInStream \/ Closes \/ ReplicaDies \/ GeneratesAll \/ Opens \/ Finishes
  BY <1>1 DEF UsageTypes, Prepares, FailsInStream, Closes, ReplicaDies, GeneratesAll, Opens, Finishes
<1>2. CASE Outputs
  <2>1. ask' = ask /\ upstream' = upstream /\ (failures' = failures \/ failures' = failures + 1)
    BY <1>2, OutputsDo
  <2> QED
    BY <2>1 DEF UsageTypes
<1>3. CASE UNCHANGED <<ask, upstream>> /\ (failures' = failures \/ failures' = failures + 1)
  BY <1>3 DEF UsageTypes
<1>4. ASSUME NEW delta, delta.reasoning \in {0, 1}, upstream' = Heard(delta), UNCHANGED <<ask, failures>>
      PROVE  UsageTypes'
  <2>1. upstream' = [lines |-> upstream.lines + 1, reasoning |-> upstream.reasoning + delta.reasoning,
                     told |-> upstream.told, done |-> upstream.done]
    BY <1>4 DEF UsageTypes, Heard
  <2>2. upstream.lines + 1 \in Nat /\ upstream.reasoning + delta.reasoning \in Nat
    BY <1>4 DEF UsageTypes
  <2> QED
    BY <1>4, <2>1, <2>2 DEF UsageTypes
<1>5. CASE post_chat \/ StreamConnects \/ StreamEnds
  BY <1>3, <1>5 DEF post_chat, StreamConnects, StreamEnds
<1>7. CASE SkipsLine
  <2>1. upstream' = [upstream EXCEPT !.lines = @ + 1] /\ UNCHANGED <<ask, failures>>
    BY <1>7 DEF SkipsLine
  <2> QED
    BY <2>1 DEF UsageTypes
<1>8. CASE RelaysUsage
  <2>1. /\ upstream' = [upstream EXCEPT !.told = TRUE] /\ UNCHANGED ask
        /\ failures' = failures \/ failures' = failures + 1
    BY <1>8 DEF RelaysUsage
  <2>2. failures' \in Nat
    BY <2>1 DEF UsageTypes
  <2>3. upstream' \in [lines : Nat, reasoning : Nat, told : BOOLEAN, done : BOOLEAN]
    BY <2>1 DEF UsageTypes
  <2> QED
    BY <2>1, <2>2, <2>3 DEF UsageTypes
<1>9. CASE ReadsDone
  <2>1. upstream' = [upstream EXCEPT !.done = TRUE] /\ UNCHANGED <<ask, failures>>
    BY <1>9 DEF ReadsDone
  <2> QED
    BY <2>1 DEF UsageTypes
<1>10. CASE Relays
  <2>1. PICK delta : /\ delta = [NoDelta EXCEPT !.content = 1] \/ delta = [NoDelta EXCEPT !.reasoning = 1]
                     /\ upstream' = Heard(delta) /\ UNCHANGED <<ask, failures>>
    BY <1>10 DEF Relays
  <2>2. delta.reasoning \in {0, 1}
    BY <2>1 DEF NoDelta
  <2> QED
    BY <1>4, <2>1, <2>2
<1>11. CASE EmitsSegment
  <2>1. upstream' = Heard(NoDelta) /\ UNCHANGED <<ask, failures>>
    BY <1>11 DEF EmitsSegment
  <2> QED
    BY <1>0, <1>4, <2>1
<1>12. CASE StartsSegments \/ SegmentsEnd \/ SegmentsFail
  BY <1>3, <1>12 DEF StartsSegments, SegmentsEnd, SegmentsFail
<1>6. CASE \E op, codes : Answers(op, codes)
  BY <1>6 DEF UsageTypes, Answers
<1> QED
  BY <1>1, <1>2, <1>5, <1>6, <1>7, <1>8, <1>9, <1>10, <1>11, <1>12
  DEF ChatNext, Responds, Embeds, Transcribes, Translates, Speaks, DrawsImage, EditsImage, VariesImage

\* The replica's steps keep the invariant.
LEMMA ReplicaUsage ==
  ASSUME OutcomeInv, OutcomeInv', UsageInv, ChatNext, UNCHANGED <<gate, client, metric>>
  PROVE  UsageInv'
<1>1. TokensKept' /\ UsageTypes'
  BY TokensStep, ReplicaTypes DEF UsageInv
<1>2. Seen /\ WireFits
  BY ReplicaStep DEF OutcomeInv
<1>3. DoneEnds'
  BY <1>2 DEF UsageInv, DoneEnds, Seen
<1>4. FreshStart'
  BY <1>2 DEF OutcomeInv, PhaseInv, Idle, Seen, FreshStart
<1>5. VllmUsage'
  <2> SUFFICES ASSUME ask.usage, ask.loader = "vllm"
               PROVE  /\ Waits({"usage"})' => Waiting'.tokens = Total(EngineTokens')
                      /\ Awaited' /\ work' \in {"closing", "ended"} =>
                           Failed' \/ Waits({"usage"})' \/ client'.usage = Total(EngineTokens')
    BY <1>2 DEF VllmUsage, Seen
  <2>1. VllmSteps
    BY <1>2, VllmEffect, AskAssumption DEF UsageInv, UsageTypes
  <2>2. /\ Waits({"usage"}) => Waiting.tokens = Total(EngineTokens)
        /\ Awaited /\ work \in {"closing", "ended"} =>
             Failed \/ Waits({"usage"}) \/ client.usage = Total(EngineTokens)
    BY DEF UsageInv, VllmUsage
  <2>3. Awaited' = Awaited
    BY DEF Awaited, Serving
  <2>4. CASE wire' = wire /\ engine' = engine /\ (work' = work \/ work' \notin {"closing", "ended"})
    BY <2>2, <2>3, <2>4 DEF Waits, Waiting, Failed, EngineTokens
  <2>5. CASE \E c : Yield(c) /\ c.kind \in {"error", "refusal", "object"}
    <3>1. Failed' /\ ~Waits({"usage"})'
      BY <2>5, Yields DEF Failed, Waits, Waiting
    <3> QED
      BY <3>1
  <2>6. CASE work = "closing" /\ engine' = engine /\ Yield([kind |-> "done"])
    <3>1. wire = <<>> /\ wire' # <<>> /\ wire'[1].kind = "done"
      BY <2>6, Yields
    <3> QED
      BY <2>2, <2>3, <2>6, <3>1 DEF Waits, Waiting, Failed, EngineTokens
  <2>7. CASE work' = "streaming" /\ (wire' = wire \/ \E c : Yield(c) /\ c.kind \in {"role", "delta"})
             /\ work \in {"first", "streaming"}
    <3>1. ~Waits({"usage"})'
      BY <1>2, <2>7, Yields DEF Waits, Waiting, WireFits, KindsAt
    <3> QED
      BY <2>7, <3>1
  <2>8. CASE engine' = engine /\ Yield([kind |-> "usage", tokens |-> Total([i \in ChoiceIds |-> out[i].tokens])])
    <3>1. [i \in ChoiceIds |-> out[i].tokens] = EngineTokens'
      BY <2>8 DEF UsageInv, TokensKept, EngineTokens
    <3>2. wire' # <<>> /\ wire'[1] = [kind |-> "usage", tokens |-> Total(EngineTokens')]
      BY <2>8, <3>1, Yields
    <3> QED
      BY <3>2 DEF Waits, Waiting
  <2> QED
    BY <2>1, <2>4, <2>5, <2>6, <2>7, <2>8 DEF VllmSteps
<1>6. LlamaUsage'
  <2> SUFFICES ASSUME ask.usage, ask.loader # "vllm" PROVE LlamaUsage'
    BY <1>2 DEF LlamaUsage, Seen
  <2>1. LlamaSteps
    BY <1>2, LlamaEffect, AskAssumption DEF UsageInv, UsageTypes
  <2>2. LlamaUsage /\ UsageTypes
    BY DEF UsageInv
  <2>3. Awaited' = Awaited /\ Serving' = Serving /\ Shown' = Shown /\ ask' = ask
    BY <1>2 DEF Awaited, Serving, Shown, Seen
  <2>0. failures' \in Nat /\ (failures > 0 => failures' > 0) /\ (failures' = failures + 1 => failures' > 0)
    BY <2>1, <2>2 DEF LlamaSteps, UsageTypes
  <2>4. CASE wire' = wire /\ upstream' = upstream
             /\ (\/ work' = work \/ work' \notin {"closing", "ended"}
                 \/ upstream.done \/ failures' = failures + 1)
    BY <2>0, <2>2, <2>3, <2>4 DEF LlamaUsage, Waits, Waiting, Failed, OnTheWay, Estimates
  <2>5. CASE upstream' = upstream /\ \E c : Yield(c) /\ c.kind \in {"error", "refusal", "object"}
    <3>1. /\ Failed' /\ ~Waits({"usage"})' /\ ~Waits({"relay"})' /\ ~Waits({"relay"})
          /\ ~Waits({"delta"})'
      BY <2>5, Yields DEF Failed, Waits, Waiting
    <3> QED
      BY <2>2, <2>3, <2>5, <3>1 DEF LlamaUsage, OnTheWay
  <2>6. CASE work = "closing" /\ upstream' = upstream /\ Yield([kind |-> "done"])
    <3>1. wire = <<>> /\ wire' # <<>> /\ wire'[1].kind = "done"
      BY <2>6, Yields
    <3> QED
      BY <2>0, <2>2, <2>3, <2>6, <3>1 DEF LlamaUsage, Waits, Waiting, Failed, OnTheWay, Estimates
  <2>7. CASE /\ work = "relaying" /\ work' = work /\ ~upstream.told
             /\ \E delta : /\ delta.reasoning \in {0, 1} /\ Yield([kind |-> "relay", delta |-> delta])
                           /\ upstream' = Heard(delta)
    <3>1. PICK delta : /\ delta.reasoning \in {0, 1} /\ Yield([kind |-> "relay", delta |-> delta])
                       /\ upstream' = Heard(delta)
      BY <2>7
    <3>2. wire = <<>> /\ wire' # <<>> /\ wire'[1] = [kind |-> "relay", delta |-> delta]
      BY <3>1, Yields
    <3>3. OnTheWay = 0 /\ OnTheWay' = delta.reasoning /\ ~Waits({"usage"})' /\ ~Waits({"delta"})'
      BY <3>2 DEF OnTheWay, Waits, Waiting
    <3>4. /\ upstream'.reasoning = upstream.reasoning + delta.reasoning
          /\ upstream'.told = upstream.told /\ upstream'.done = upstream.done
      BY <2>2, <3>1 DEF Heard, UsageTypes
    <3>5. Serving => Shown \in Nat /\ Shown + 0 = upstream.reasoning
      BY <2>2, <2>7, <3>3 DEF LlamaUsage
    <3>6. Serving' => Shown' \in Nat /\ OnTheWay' \in Nat /\ Shown' + OnTheWay' = upstream'.reasoning
      BY <2>3, <3>1, <3>3, <3>4, <3>5
    <3> QED
      BY <2>2, <2>3, <2>7, <3>3, <3>4, <3>6 DEF LlamaUsage
  <2>8. CASE /\ work = "relaying" /\ work' = work /\ wire' = wire
             /\ \/ upstream' = [upstream EXCEPT !.lines = @ + 1]
                \/ upstream.told /\ upstream' = [upstream EXCEPT !.done = TRUE]
    <3>1. /\ upstream'.reasoning = upstream.reasoning /\ upstream'.told = upstream.told
          /\ upstream'.done = upstream.done \/ upstream.told
      BY <2>2, <2>8 DEF UsageTypes
    <3> QED
      BY <2>0, <2>2, <2>3, <2>8, <3>1 DEF LlamaUsage, Waits, Waiting, Failed, OnTheWay, Estimates
  <2>9. CASE /\ work = "relaying" /\ work' = work /\ ~upstream.told
             /\ upstream' = [upstream EXCEPT !.told = TRUE]
             /\ \E n : /\ n = upstream.reasoning \/ (n = 0 /\ failures' = failures + 1)
                       /\ Yield([kind |-> "usage", reasoning |-> n])
    <3>1. PICK n : /\ n = upstream.reasoning \/ (n = 0 /\ failures' = failures + 1)
                   /\ Yield([kind |-> "usage", reasoning |-> n])
      BY <2>9
    <3>2. wire = <<>> /\ wire' # <<>> /\ wire'[1] = [kind |-> "usage", reasoning |-> n]
      BY <3>1, Yields
    <3>3. upstream'.told /\ upstream'.reasoning = upstream.reasoning
      BY <2>2, <2>9 DEF UsageTypes
    <3>4. /\ OnTheWay = 0 /\ OnTheWay' = 0 /\ Waits({"usage"})' /\ ~Waits({"relay"})'
          /\ ~Waits({"delta"})' /\ Waiting'.reasoning = n
      BY <3>2 DEF OnTheWay, Waits, Waiting
    <3>5. Serving => Shown \in Nat /\ Shown = upstream.reasoning
      BY <2>2, <2>9, <3>4 DEF LlamaUsage
    <3>6. Serving \/ ~Awaited
      BY <2>9 DEF UsageInv, DoneEnds, Awaited
    <3> QED
      BY <2>0, <2>3, <3>1, <3>3, <3>4, <3>5, <3>6 DEF LlamaUsage, Estimates
  <2> QED
    BY <2>1, <2>4, <2>5, <2>6, <2>7, <2>8, <2>9 DEF LlamaSteps
<1> QED
  BY <1>1, <1>3, <1>4, <1>5, <1>6 DEF UsageInv


\* What passing a chunk on changes of the text and the usage.
LEMMA RelayedText ==
  ASSUME GateType, UsageTypes, NEW chunk
  PROVE  LET c == Relayed(client, chunk)
         IN /\ c.view = [i \in ChoiceIds |-> c.view[i]]
            /\ c.usage = IF chunk.kind = "usage"
                         THEN IF ask.loader = "vllm" THEN chunk.tokens ELSE chunk.reasoning
                         ELSE client.usage
            /\ chunk.kind # "delta" =>
                 c.view[RelayedTo].reasoning = IF chunk.kind = "relay"
                                               THEN Shown + chunk.delta.reasoning ELSE Shown
<1> DEFINE c == Relayed(client, chunk)
<1>0. RelayedTo \in ChoiceIds
  BY AskAssumption DEF RelayedTo
<1>1. CASE chunk.kind = "delta"
  <2>1. c = [client EXCEPT !.view[chunk.choice] = Viewed(@, chunk)]
    BY <1>1 DEF Relayed
  <2>2. c.view = [client.view EXCEPT ![chunk.choice] = Viewed(@, chunk)] /\ c.usage = client.usage
    BY <2>1 DEF GateType
  <2> QED
    BY <1>1, <2>2 DEF UsageTypes
<1>2. CASE chunk.kind = "relay"
  <2> DEFINE v == Viewed(client.view[RelayedTo], [delta |-> chunk.delta, reason |-> NoReason])
  <2>1. c = [client EXCEPT !.view[RelayedTo] = v]
    BY <1>2 DEF Relayed
  <2>3. v.reasoning = Shown + chunk.delta.reasoning
    BY DEF Viewed, Shown
  <2> HIDE DEF v
  <2>2. c.view = [client.view EXCEPT ![RelayedTo] = v] /\ c.usage = client.usage
    BY <2>1 DEF GateType
  <2> QED
    BY <1>0, <1>2, <2>2, <2>3 DEF UsageTypes
<1>3. CASE chunk.kind = "usage"
  <2>1. c = [client EXCEPT !.usage = IF ask.loader = "vllm" THEN chunk.tokens ELSE chunk.reasoning]
    BY <1>3 DEF Relayed
  <2> QED
    BY <1>3, <2>1 DEF GateType, UsageTypes, Shown
<1>4. CASE chunk.kind = "error"
  <2>1. c = [client EXCEPT !.errors = @ + 1]
    BY <1>4 DEF Relayed
  <2> QED
    BY <1>4, <2>1 DEF GateType, UsageTypes, Shown
<1>5. CASE chunk.kind = "done"
  <2>1. c = [client EXCEPT !.done = TRUE]
    BY <1>5 DEF Relayed
  <2> QED
    BY <1>5, <2>1 DEF GateType, UsageTypes, Shown
<1>6. CASE chunk.kind \notin {"delta", "relay", "usage", "error", "done"}
  <2>1. c = client
    BY <1>6 DEF Relayed
  <2> QED
    BY <1>6, <2>1 DEF UsageTypes, Shown
<1> QED
  BY <1>1, <1>2, <1>3, <1>4, <1>5, <1>6

\* The handler's steps that pass nothing on and leave the replica alone.
LEMMA QuietUsage ==
  ASSUME UsageInv, UNCHANGED chatVars, UNCHANGED <<client.view, client.usage, client.errors, client.done>>,
         gate'.phase # "idle", Serving' => Serving
  PROVE  UsageInv'
<1>1. UNCHANGED <<ask, work, engine, out, upstream, wire, failures>>
  BY DEF chatVars
<1>2. (Awaited' => Awaited) /\ Shown' = Shown /\ OnTheWay' = OnTheWay /\ EngineTokens' = EngineTokens
      /\ Waiting' = Waiting /\ Failed' = Failed /\ (\A kinds : Waits(kinds)' = Waits(kinds))
  BY <1>1 DEF Awaited, Shown, OnTheWay, EngineTokens, Waiting, Failed, Waits
<1>3. TokensKept' /\ UsageTypes' /\ DoneEnds' /\ FreshStart'
  BY <1>1 DEF UsageInv, TokensKept, UsageTypes, DoneEnds, FreshStart
<1>4. VllmUsage'
  BY <1>1, <1>2 DEF UsageInv, VllmUsage
<1>5. LlamaUsage'
  BY <1>1, <1>2 DEF UsageInv, LlamaUsage, Estimates
<1> QED
  BY <1>3, <1>4, <1>5 DEF UsageInv

\* A handler that ends with no good stream.
LEMMA EndedUsage ==
  ASSUME UsageInv, UNCHANGED <<ask, work, engine, out, upstream, failures, client.view, client.usage>>,
         wire' = wire \/ wire' = <<>>, gate'.phase = "over", ~(client'.done /\ client'.errors = 0)
  PROVE  UsageInv'
<1>1. ~Serving' /\ ~Awaited' /\ EngineTokens' = EngineTokens
      /\ (\A kinds : Waits(kinds)' => Waits(kinds) /\ Waiting' = Waiting)
  BY DEF Serving, Awaited, EngineTokens, Waiting, Waits
<1>3. TokensKept' /\ UsageTypes' /\ DoneEnds' /\ FreshStart'
  BY DEF UsageInv, TokensKept, UsageTypes, DoneEnds, FreshStart
<1>4. VllmUsage'
  BY <1>1 DEF UsageInv, VllmUsage
<1>5. LlamaUsage'
  BY <1>1 DEF UsageInv, LlamaUsage
<1> QED
  BY <1>3, <1>4, <1>5 DEF UsageInv

\* A chunk that is passed on takes its reasoning and its usage with it.
LEMMA PassedUsage ==
  ASSUME OutcomeInv, UsageInv, Passes
  PROVE  UsageInv'
<1>1. /\ wire # <<>> /\ wire = <<Waiting>> /\ Head(wire) = Waiting /\ wire' = <<>>
      /\ Waiting.kind \notin {"refusal", "object"} /\ Waiting.kind \in KindsAt(work)
      /\ UNCHANGED <<ask, work, engine, out, upstream, failures>>
  BY DEF Passes, OutcomeInv, PhaseInv, WireFits, Open, Body
<1>2. Serving /\ Serving' /\ Awaited /\ gate'.phase = "body"
  BY DEF Passes, Serving, Awaited, OutcomeInv, GateType
<1>3. client' = Relayed(client, Waiting) /\ GateType /\ UsageTypes
  BY <1>1 DEF Passes, OutcomeInv, UsageInv
<1>4. /\ client'.errors = (IF Waiting.kind = "error" THEN client.errors + 1 ELSE client.errors)
      /\ client'.done = (client.done \/ Waiting.kind = "done") /\ client.errors \in Nat
  BY <1>3, Relay DEF GateType
<1>5. /\ client'.view = [i \in ChoiceIds |-> client'.view[i]]
      /\ client'.usage = IF Waiting.kind = "usage"
                         THEN IF ask.loader = "vllm" THEN Waiting.tokens ELSE Waiting.reasoning
                         ELSE client.usage
      /\ Waiting.kind # "delta" =>
           Shown' = IF Waiting.kind = "relay" THEN Shown + Waiting.delta.reasoning ELSE Shown
  BY <1>3, RelayedText DEF Shown
<1>6. \A kinds : ~Waits(kinds)'
  BY <1>1 DEF Waits
<1>7. Failed => Failed'
  BY <1>1, <1>4 DEF Failed, Waits
<1>8. TokensKept' /\ UsageTypes' /\ FreshStart'
  BY <1>1, <1>2, <1>5 DEF UsageInv, TokensKept, UsageTypes, FreshStart
<1>9. DoneEnds'
  <2>1. Waiting.kind = "done" => work = "ended"
    BY <1>1 DEF OutcomeInv, WireFits, KindsAt, Steps
  <2>2. client.done => client.errors > 0
    BY <1>1, <1>4 DEF UsageInv, DoneEnds
  <2>3. client.errors > 0 => client'.errors > 0
    BY <1>4
  <2>4. client'.done => client.done \/ Waiting.kind = "done"
    BY <1>4
  <2>5. client'.errors > 0 => client'.errors # 0
    OBVIOUS
  <2>6. client'.done /\ client'.errors = 0 => work' = "ended" /\ wire' = <<>>
    BY <1>1, <2>1, <2>2, <2>3, <2>4, <2>5, Zenon
  <2> QED
    BY <2>6, Zenon DEF DoneEnds
<1>10. VllmUsage'
  <2>1. EngineTokens' = EngineTokens
    BY <1>1 DEF EngineTokens
  <2>2. Waits({"usage"}) = (Waiting.kind = "usage")
    BY <1>1 DEF Waits
  <2>3. VllmUsage
    BY DEF UsageInv
  <2> QED
    BY <1>1, <1>2, <1>5, <1>6, <1>7, <2>1, <2>2, <2>3 DEF VllmUsage
<1>11. LlamaUsage'
  <2> SUFFICES ASSUME ask.usage, ask.loader # "vllm" PROVE LlamaUsage'
    BY <1>1 DEF LlamaUsage
  <2>1. LlamaUsage /\ upstream.reasoning \in Nat
    BY <1>3 DEF UsageInv, UsageTypes
  <2>2. Waiting.kind # "delta" /\ (Waits({"usage"}) = (Waiting.kind = "usage"))
        /\ (Waits({"relay"}) = (Waiting.kind = "relay"))
    BY <1>1, <2>1 DEF Waits, LlamaUsage
  <2>3. OnTheWay' = 0 /\ OnTheWay = IF Waiting.kind = "relay" THEN Waiting.delta.reasoning ELSE 0
    BY <1>6, <2>2 DEF OnTheWay
  <2>4. Shown \in Nat /\ OnTheWay \in Nat
    BY <1>2, <2>1 DEF LlamaUsage
  <2>5. Shown' = Shown + OnTheWay
    BY <1>5, <2>2, <2>3, <2>4
  <2>6. Shown' \in Nat /\ (~upstream'.told => Shown' + OnTheWay' = upstream'.reasoning)
    BY <1>1, <1>2, <2>1, <2>3, <2>4, <2>5 DEF LlamaUsage
  <2>7. upstream.told => /\ Shown' = Shown
                         /\ Failed' \/ Estimates(client'.usage)
    BY <1>2, <1>5, <1>7, <2>1, <2>2 DEF LlamaUsage
  <2>8. upstream.told => Failed' \/ Estimates(client.usage)'
    BY <1>1, <2>7 DEF Estimates
  <2>9. /\ upstream'.done => upstream'.told
        /\ Awaited' /\ work' \in {"closing", "ended"} => Failed' \/ upstream'.told \/ failures' > 0
    BY <1>1, <1>2, <1>7, <2>1 DEF LlamaUsage
  <2>10. ~upstream'.told => client'.usage = -1
    BY <1>1, <1>5, <2>1, <2>2 DEF LlamaUsage
  <2> QED
    BY <1>1, <1>6, <2>3, <2>6, <2>8, <2>9, <2>10 DEF LlamaUsage
<1> QED
  BY <1>8, <1>9, <1>10, <1>11 DEF UsageInv

\* Every step keeps the invariant.
LEMMA UsageStep == OutcomeInv /\ OutcomeInv' /\ UsageInv /\ [GatewayNext]_gatewayVars => UsageInv'
<1> SUFFICES ASSUME OutcomeInv, OutcomeInv', UsageInv, [GatewayNext]_gatewayVars PROVE UsageInv'
  OBVIOUS
<1>0. GateType /\ PhaseInv
  BY DEF OutcomeInv
<1>1. ASSUME NEW code, Replies(code), wire' = wire \/ wire' = <<>>,
             UNCHANGED <<ask, work, engine, out, upstream, failures>>, gate.phase \in {"idle", "first"}
      PROVE  UsageInv'
  <2>1. /\ gate'.phase = "over" /\ client'.view = client.view /\ client'.done = client.done
        /\ client'.usage = client.usage
    BY <1>0, <1>1 DEF Replies, GateType
  <2>2. ~client.done
    BY <1>0, <1>1 DEF PhaseInv, Idle, First, NothingTold
  <2> QED
    BY <1>1, <2>1, <2>2, EndedUsage
<1>2. CASE NotRouted
  BY <1>1, <1>2 DEF NotRouted, chatVars
<1>3. CASE \E op : Endpoint(op) /\ Sends
  <2>1. Idle /\ gate.phase = "idle" /\ gate'.phase = "first"
    BY <1>0, <1>3 DEF Endpoint, Sends, PhaseInv, GateType
  <2>2. UNCHANGED <<ask, engine, out, upstream, wire, failures, client>> /\ work' = "called" /\ wire = <<>>
        /\ ~client.done
    BY <1>3, <2>1 DEF Sends, Idle, NothingTold
  <2>3. ~upstream.told /\ ~upstream.done /\ Shown = 0 /\ upstream.reasoning = 0
    BY <2>1 DEF UsageInv, FreshStart
  <2>4. OnTheWay' = 0 /\ Shown' = Shown /\ (\A kinds : ~Waits(kinds)')
    BY <2>2 DEF OnTheWay, Shown, Waits
  <2>5. TokensKept' /\ UsageTypes' /\ DoneEnds' /\ FreshStart'
    BY <2>1, <2>2 DEF UsageInv, TokensKept, UsageTypes, DoneEnds, FreshStart
  <2>6. VllmUsage' /\ LlamaUsage'
    BY <2>2, <2>3, <2>4 DEF UsageInv, VllmUsage, LlamaUsage
  <2> QED
    BY <2>5, <2>6 DEF UsageInv
<1>4. CASE \E op, codes : Endpoint(op) /\ Refuses(codes)
  BY <1>1, <1>4 DEF Endpoint, Refuses, chatVars
<1>5. CASE compact_response
  BY <1>1, <1>3, <1>4, <1>5 DEF compact_response, Endpoint, chatVars
<1>6. CASE AsksAgain
  <2>1. ask.op = "compact" /\ gate'.phase = "first" /\ First
    BY <1>0, <1>6 DEF AsksAgain, Retries, GateType, PhaseInv
  <2>2. UNCHANGED <<ask, engine, out, upstream, failures, client>>
    BY <1>6 DEF AsksAgain
  <2>3. ~ask.usage /\ ~client.done
    BY <2>1, AskAssumption DEF UsageInv, UsageTypes, First, NothingTold
  <2>4. TokensKept' /\ UsageTypes' /\ DoneEnds' /\ FreshStart'
    BY <2>1, <2>2, <2>3 DEF UsageInv, TokensKept, UsageTypes, DoneEnds, FreshStart
  <2> QED
    BY <2>2, <2>3, <2>4 DEF UsageInv, VllmUsage, LlamaUsage
<1>7. CASE FirstFails
  BY <1>1, <1>7 DEF FirstFails, chatVars
<1>8. CASE FirstIsObject
  BY <1>1, <1>8 DEF FirstIsObject
<1>9. CASE FirstIsChunk
  <2>1. gate.phase = "first" /\ gate' = [gate EXCEPT !.phase = "open"] /\ UNCHANGED chatVars
        /\ client' = [client EXCEPT !.code = 200]
    BY <1>9 DEF FirstIsChunk
  <2>2. gate'.phase = "open" /\ UNCHANGED <<client.view, client.usage, client.errors, client.done>>
    BY <1>0, <2>1 DEF GateType
  <2> QED
    BY <2>1, <2>2, QuietUsage DEF Serving
<1>10. CASE Passes
  BY <1>10, PassedUsage
<1>11. CASE BodyEnds \/ Cancels
  <2>1. gate' = [gate EXCEPT !.phase = "over"] /\ UNCHANGED <<chatVars, client>>
    BY <1>11 DEF BodyEnds, Cancels
  <2>2. gate'.phase = "over"
    BY <1>0, <2>1 DEF GateType
  <2> QED
    BY <2>1, <2>2, QuietUsage DEF Serving
<1>12. CASE BodyFails
  <2>1. /\ gate' = [gate EXCEPT !.phase = "over", !.status = "error", !.error = "stream_error"]
        /\ UNCHANGED chatVars /\ client' = [client EXCEPT !.errors = @ + 1, !.done = TRUE]
    BY <1>12 DEF BodyFails
  <2>2. gate'.phase = "over" /\ client'.view = client.view /\ client'.errors > 0
    BY <1>0, <2>1 DEF GateType
  <2> QED
    BY <2>1, <2>2, EndedUsage DEF chatVars
<1>13. CASE Leaves
  <2>1. UNCHANGED <<chatVars, gate>> /\ client' = [client EXCEPT !.gone = TRUE] /\ gate.phase # "idle"
    BY <1>13 DEF Leaves
  <2>2. UNCHANGED <<client.view, client.usage, client.errors, client.done>>
    BY <1>0, <2>1 DEF GateType
  <2> QED
    BY <2>1, <2>2, QuietUsage DEF Serving
<1>14. CASE ChatNext /\ UNCHANGED <<gate, client, metric>>
  BY <1>14, ReplicaUsage
<1>15. CASE UNCHANGED gatewayVars
  BY <1>15 DEF gatewayVars, chatVars, UsageInv, TokensKept, UsageTypes, VllmUsage, LlamaUsage, DoneEnds,
     FreshStart, Serving, Awaited, Shown, OnTheWay, Failed, Estimates, EngineTokens, Waits, Waiting
<1>16. CASE create_response \/ create_transcriptions \/ create_translations
  BY <1>3, <1>4, <1>16 DEF create_response, create_transcriptions, create_translations
<1>17. CASE create_chat_completion \/ create_embeddings \/ create_speech \/ create_image
              \/ create_image_edit \/ create_image_variation
  BY <1>3, <1>17 DEF create_chat_completion, create_embeddings, create_speech, create_image,
     create_image_edit, create_image_variation
<1> QED
  BY <1>2, <1>5, <1>6, <1>7, <1>8, <1>9, <1>10, <1>11, <1>12, <1>13, <1>14, <1>15, <1>16, <1>17
  DEF GatewayNext

(* The usage of a stream that ended well counts every token the engine made, *)
(* or for llama-server the reasoning that was sent unless its lines ended    *)
(* early or its counting failed, however the chunks, the failures and the    *)
(* client's departure interleave (previous_num_tokens,                       *)
(* _add_reasoning_tokens).                                                   *)
THEOREM UsageIsCounted == GatewaySpec => []UsageCounts
<1>1. UsageInv /\ OutcomeInv => UsageCounts
  <2> SUFFICES ASSUME UsageInv, OutcomeInv, Complete, ask.usage PROVE UsageCounts
    BY DEF UsageCounts
  <2>1. Awaited /\ work = "ended" /\ wire = <<>> /\ client.errors = 0
    BY DEF Complete, UsageInv, DoneEnds, Awaited
  <2>2. ~Failed /\ ~Waits({"usage"})
    BY <2>1 DEF Failed, Waits
  <2>3. CASE ask.loader = "vllm"
    BY <2>1, <2>2, <2>3 DEF UsageInv, VllmUsage, EngineTokens, UsageCounts
  <2>4. CASE ask.loader # "vllm"
    BY <2>1, <2>2, <2>4 DEF UsageInv, LlamaUsage, Estimates, Shown, UsageCounts
  <2> QED
    BY <2>3, <2>4
<1>2. GatewayInit => OutcomeInv /\ UsageInv
  BY InitOutcome, InitUsage
<1>3. (OutcomeInv /\ UsageInv) /\ [GatewayNext]_gatewayVars => (OutcomeInv /\ UsageInv)'
  BY OutcomeStep, UsageStep
<1> QED
  BY <1>1, <1>2, <1>3, PTL DEF GatewaySpec

-----------------------------------------------------------------------------
(* The text of a stream.                                                    *)

\* A set of naturals that is not empty has a least element.
LEMMA LeastNat ==
  ASSUME NEW T, T \subseteq Nat, T # {}
  PROVE  \E x \in T : \A y \in T : x <= y
<1>1. IsWellFoundedOn({ss \in Nat \X Nat : ss[1] < ss[2]}, Nat)
  BY NatLessThanWellFounded DEF OpToRel
<1>2. PICK x \in T : \A y \in T : ~(<<y, x>> \in {ss \in Nat \X Nat : ss[1] < ss[2]})
  BY <1>1, WFMin
<1>3. \A y \in T : ~(y < x)
  BY <1>2
<1> QED
  BY <1>3

\* How often a piece is in a text.
Count(s, p) == Cardinality({j \in 1..Len(s) : s[j] = p})

\* Words and calls are counted alike.
LEMMA CountIs ==
  ASSUME NEW s \in Seq(Pieces)
  PROVE  Words(s) = Count(s, "word") /\ Calls(s) = Count(s, "call")
BY DEF Words, Calls, Count

\* A count is a number, none for an empty text, and positive just if the piece is there.
LEMMA CountType ==
  ASSUME NEW s \in Seq(Pieces), NEW p
  PROVE  /\ Count(s, p) \in Nat /\ IsFiniteSet({j \in 1..Len(s) : s[j] = p})
         /\ Count(s, p) = 0 <=> ~Contains(s, p)
         /\ Len(s) = 0 => Count(s, p) = 0
<1> DEFINE S == {j \in 1..Len(s) : s[j] = p}
<1>1. IsFiniteSet(1..Len(s))
  BY FS_Interval
<1>2. IsFiniteSet(S) /\ Cardinality(S) \in Nat
  BY <1>1, FS_Subset, FS_CardinalityType
<1>3. Cardinality(S) = 0 <=> S = {}
  BY <1>2, FS_EmptySet
<1>4. S = {} <=> ~Contains(s, p)
  BY DEF Contains
<1>5. Len(s) = 0 => S = {}
  OBVIOUS
<1> QED
  BY <1>2, <1>3, <1>4, <1>5 DEF Count

\* The counts of two texts add up.
LEMMA CountConcat ==
  ASSUME NEW s \in Seq(Pieces), NEW t \in Seq(Pieces), NEW p
  PROVE  Count(s \o t, p) = Count(s, p) + Count(t, p)
<1> DEFINE u == s \o t
           S == {j \in 1..Len(s) : s[j] = p}
           R == {j \in 1..Len(t) : t[j] = p}
           U == {j \in 1..Len(u) : u[j] = p}
           V == {j \in (Len(s) + 1)..Len(u) : u[j] = p}
           f == [j \in R |-> Len(s) + j]
<1>1. /\ u \in Seq(Pieces) /\ Len(u) = Len(s) + Len(t) /\ Len(s) \in Nat /\ Len(t) \in Nat
      /\ \A j \in 1..Len(u) : u[j] = IF j <= Len(s) THEN s[j] ELSE t[j - Len(s)]
  BY ConcatProperties, LenProperties
<1> HIDE DEF u
<1>2. IsFiniteSet(S) /\ IsFiniteSet(R) /\ IsFiniteSet(U)
  BY <1>1, CountType
<1>3. U = S \cup V /\ S \cap V = {}
  <2>1. \A j \in S : j \in U /\ j \notin V
    BY <1>1
  <2>2. \A j \in U : j \in S \/ j \in V
    BY <1>1
  <2>3. \A j \in V : j \in U
    BY <1>1
  <2> QED
    BY <2>1, <2>2, <2>3
<1>4. Cardinality(R) = Cardinality(V) /\ IsFiniteSet(V)
  <2>1. \A j \in R : Len(s) + j \in V
    BY <1>1
  <2>2. \A j \in V : j - Len(s) \in R /\ j = Len(s) + (j - Len(s))
    BY <1>1
  <2>3. \A j, k \in R : Len(s) + j = Len(s) + k => j = k
    BY <1>1
  <2>4. f \in [R -> V]
    BY <2>1
  <2>5. \A j, k \in R : f[j] = f[k] => j = k
    BY <2>3
  <2>6. \A j \in V : \E k \in R : f[k] = j
    BY <2>2
  <2>7. f \in Bijection(R, V)
    BY <2>4, <2>5, <2>6 DEF Bijection, Injection, Surjection, IsInjective
  <2>8. ExistsBijection(R, V)
    BY <2>7 DEF ExistsBijection
  <2> QED
    BY <1>2, <2>8, FS_Bijection
<1>5. Cardinality(U) = Cardinality(S) + Cardinality(V) - Cardinality(S \cap V)
  BY <1>2, <1>3, <1>4, FS_Union
<1>6. Cardinality(S \cap V) = 0 /\ Cardinality(S) \in Nat /\ Cardinality(V) \in Nat
  BY <1>2, <1>3, <1>4, FS_EmptySet, FS_CardinalityType
<1> HIDE DEF S, R, U, V
<1>7. Cardinality(U) = Cardinality(S) + Cardinality(R)
  BY <1>4, <1>5, <1>6
<1>8. Count(u, p) = Cardinality(U) /\ Count(s, p) = Cardinality(S) /\ Count(t, p) = Cardinality(R)
  BY DEF Count, S, R, U
<1> QED
  BY <1>7, <1>8 DEF u

\* Where the reasoning of a text ends: at its marker, or at the end of the text.
LEMMA UpToIs ==
  ASSUME NEW s \in Seq(Pieces)
  PROVE  /\ UpTo(s) \in 0..Len(s)
         /\ Contains(s, "close") => /\ UpTo(s) \in 1..Len(s) /\ s[UpTo(s)] = "close"
                                    /\ \A j \in 1..(UpTo(s) - 1) : s[j] # "close"
         /\ ~Contains(s, "close") => UpTo(s) = Len(s)
<1>1. CASE Contains(s, "close")
  <2> DEFINE I == {j \in 1..Len(s) : s[j] = "close"}
  <2>1. I # {} /\ I \subseteq Nat
    BY <1>1 DEF Contains
  <2>2. UpTo(s) = Min(I)
    BY <1>1, <2>1 DEF UpTo
  <2>3. \E x \in I : \A y \in I : x <= y
    BY <2>1, LeastNat
  <2>4. PICK k \in I : UpTo(s) = k /\ \A y \in I : k <= y
    BY <2>2, <2>3 DEF Min
  <2>5. k \in 1..Len(s) /\ s[k] = "close" /\ \A y \in 1..Len(s) : s[y] = "close" => k <= y
    BY <2>4
  <2>6. \A j \in 1..(k - 1) : j \in 1..Len(s) /\ ~(k <= j)
    BY <2>5, LenProperties
  <2> QED
    BY <1>1, <2>4, <2>5, <2>6, LenProperties
<1>2. CASE ~Contains(s, "close")
  BY <1>2, LenProperties DEF UpTo
<1> QED
  BY <1>1, <1>2

\* The end of the reasoning of a text is found from what was looked at so far.
LEMMA UpToUnique ==
  ASSUME NEW s \in Seq(Pieces), NEW k \in 1..Len(s), s[k] = "close", \A j \in 1..(k - 1) : s[j] # "close"
  PROVE  UpTo(s) = k /\ Contains(s, "close")
<1>1. Contains(s, "close")
  BY DEF Contains
<1>2. UpTo(s) \in 1..Len(s) /\ s[UpTo(s)] = "close" /\ \A j \in 1..(UpTo(s) - 1) : s[j] # "close"
  BY <1>1, UpToIs
<1>3. ~(UpTo(s) < k) /\ ~(k < UpTo(s))
  BY <1>2
<1> QED
  BY <1>1, <1>2, <1>3

\* A text is cut into reasoning and the rest where the parser, with reasoning or without, cuts it.
CutsAt(r, s, k, a, b) ==
  /\ k \in 0..Len(s) /\ k = (IF r THEN UpTo(s) ELSE 0)
  /\ a = SubSeq(s, 1, k) /\ b = SubSeq(s, k + 1, Len(s)) /\ a \in Seq(Pieces) /\ b \in Seq(Pieces)
\* What is emitted for the two parts.
Parts(a, b) ==
  [content |-> Count(b, "word"), reasoning |-> Count(a, "word") + Count(a, "call"),
   calls |-> Count(b, "call")]

\* What is emitted for a text that is parsed in one go.
LEMMA ParseDeltaIs ==
  \A s, r, k, a, b : CutsAt(r, s, k, a, b) => ParseDelta(r, s) = Parts(a, b)
<1> SUFFICES ASSUME NEW s, NEW r, NEW k, NEW a, NEW b, CutsAt(r, s, k, a, b)
             PROVE  ParseDelta(r, s) = Parts(a, b)
  OBVIOUS
<1>1. ParseDelta(r, s) = [content |-> Words(b), reasoning |-> Words(a) + Calls(a), calls |-> Calls(b)]
  BY DEF ParseDelta, CutsAt
<1>2. /\ Words(b) = Count(b, "word") /\ Calls(b) = Count(b, "call")
      /\ Words(a) = Count(a, "word") /\ Calls(a) = Count(a, "call")
  BY CountIs DEF CutsAt
<1> QED
  BY <1>1, <1>2 DEF Parts

\* A text and what goes before a place of it, and after.
LEMMA CutAt ==
  ASSUME NEW s \in Seq(Pieces), NEW k \in 0..Len(s)
  PROVE  /\ SubSeq(s, 1, k) \in Seq(Pieces) /\ SubSeq(s, k + 1, Len(s)) \in Seq(Pieces)
         /\ Len(SubSeq(s, 1, k)) = k /\ Len(SubSeq(s, k + 1, Len(s))) = Len(s) - k
         /\ \A j \in 1..k : SubSeq(s, 1, k)[j] = s[j]
         /\ \A j \in 1..(Len(s) - k) : SubSeq(s, k + 1, Len(s))[j] = s[k + j]
         /\ s = SubSeq(s, 1, k) \o SubSeq(s, k + 1, Len(s))
<1>0. Len(s) \in Nat /\ k \in Nat /\ k <= Len(s)
  BY LenProperties
<1>1. SubSeq(s, 1, k) \in Seq(Pieces) /\ Len(SubSeq(s, 1, k)) = k
      /\ \A j \in 1..k : SubSeq(s, 1, k)[j] = s[j]
  BY <1>0, SubSeqProperties
<1>2. SubSeq(s, k + 1, Len(s)) \in Seq(Pieces) /\ Len(SubSeq(s, k + 1, Len(s))) = Len(s) - k
      /\ \A j \in 1..(Len(s) - k) : SubSeq(s, k + 1, Len(s))[j] = s[k + j]
  BY <1>0, SubSeqProperties
<1>3. s = SubSeq(s, 1, k) \o SubSeq(s, k + 1, Len(s))
  <2> DEFINE a == SubSeq(s, 1, k)
             b == SubSeq(s, k + 1, Len(s))
  <2>1. a \in Seq(Pieces) /\ Len(a) = k /\ \A j \in 1..k : a[j] = s[j]
    BY <1>1
  <2>2. b \in Seq(Pieces) /\ Len(b) = Len(s) - k /\ \A j \in 1..(Len(s) - k) : b[j] = s[k + j]
    BY <1>2
  <2> HIDE DEF a, b
  <2>3. /\ a \o b \in Seq(Pieces) /\ Len(a \o b) = Len(s)
        /\ \A j \in 1..Len(s) : (a \o b)[j] = IF j <= k THEN a[j] ELSE b[j - k]
    BY <1>0, <2>1, <2>2, ConcatProperties
  <2>4. \A j \in 1..Len(s) : (a \o b)[j] = s[j]
    <3> SUFFICES ASSUME NEW j \in 1..Len(s) PROVE (a \o b)[j] = s[j]
      OBVIOUS
    <3>1. CASE j <= k
      BY <1>0, <2>1, <2>3, <3>1
    <3>2. CASE ~(j <= k)
      <4>1. j - k \in 1..(Len(s) - k) /\ k + (j - k) = j
        BY <1>0, <3>2
      <4> QED
        BY <2>2, <2>3, <3>2, <4>1
    <3> QED
      BY <3>1, <3>2
  <2>5. a \o b = s
    BY <2>3, <2>4, SeqEqual
  <2> QED
    BY <2>5 DEF a, b
<1> QED
  BY <1>1, <1>2, <1>3

\* Cuts of a text that goes on.
LEMMA CutLonger ==
  ASSUME NEW s \in Seq(Pieces), NEW t \in Seq(Pieces)
  PROVE  /\ \A k \in 0..Len(s) : /\ SubSeq(s \o t, 1, k) = SubSeq(s, 1, k)
                                 /\ SubSeq(s \o t, k + 1, Len(s \o t)) = SubSeq(s, k + 1, Len(s)) \o t
         /\ \A k \in 0..Len(t) : /\ SubSeq(s \o t, 1, Len(s) + k) = s \o SubSeq(t, 1, k)
                                 /\ SubSeq(s \o t, Len(s) + k + 1, Len(s \o t)) = SubSeq(t, k + 1, Len(t))
<1> DEFINE u == s \o t
<1>0. /\ u \in Seq(Pieces) /\ Len(u) = Len(s) + Len(t) /\ Len(s) \in Nat /\ Len(t) \in Nat
      /\ \A j \in 1..Len(u) : u[j] = IF j <= Len(s) THEN s[j] ELSE t[j - Len(s)]
  BY ConcatProperties, LenProperties
<1> HIDE DEF u
<1>1. ASSUME NEW k \in 0..Len(s)
      PROVE  /\ SubSeq(u, 1, k) = SubSeq(s, 1, k)
             /\ SubSeq(u, k + 1, Len(u)) = SubSeq(s, k + 1, Len(s)) \o t
  <2> DEFINE a == SubSeq(u, 1, k)
             b == SubSeq(u, k + 1, Len(u))
             c == SubSeq(s, 1, k)
             d == SubSeq(s, k + 1, Len(s))
             e == d \o t
  <2>0. k \in 0..Len(u) /\ k \in Nat /\ k <= Len(s)
    BY <1>0
  <2>1. /\ a \in Seq(Pieces) /\ Len(a) = k /\ \A j \in 1..k : a[j] = u[j]
        /\ b \in Seq(Pieces) /\ Len(b) = Len(u) - k /\ \A j \in 1..(Len(u) - k) : b[j] = u[k + j]
    BY <1>0, <2>0, CutAt
  <2>2. /\ c \in Seq(Pieces) /\ Len(c) = k /\ \A j \in 1..k : c[j] = s[j]
        /\ d \in Seq(Pieces) /\ Len(d) = Len(s) - k /\ \A j \in 1..(Len(s) - k) : d[j] = s[k + j]
    BY CutAt
  <2> HIDE DEF a, b, c, d
  <2>3. /\ e \in Seq(Pieces) /\ Len(e) = Len(s) - k + Len(t)
        /\ \A j \in 1..Len(e) : e[j] = IF j <= Len(s) - k THEN d[j] ELSE t[j - (Len(s) - k)]
    <3>1. /\ d \o t \in Seq(Pieces) /\ Len(d \o t) = Len(d) + Len(t)
          /\ \A j \in 1..(Len(d) + Len(t)) : (d \o t)[j] = IF j <= Len(d) THEN d[j] ELSE t[j - Len(d)]
      BY <2>2, ConcatProperties
    <3> QED
      BY <2>2, <3>1
  <2> HIDE DEF e
  <2>4. a = c
    <3>1. \A j \in 1..k : a[j] = c[j]
      BY <1>0, <2>0, <2>1, <2>2
    <3> QED
      BY <2>1, <2>2, <3>1, SeqEqual
  <2>5. b = e
    <3>1. Len(b) = Len(e)
      BY <1>0, <2>0, <2>1, <2>3
    <3>2. ASSUME NEW j \in 1..Len(b) PROVE b[j] = e[j]
      <4>0. k + j \in 1..Len(u) /\ b[j] = u[k + j] /\ j \in 1..Len(e)
        BY <1>0, <2>0, <2>1, <3>1
      <4>1. CASE j <= Len(s) - k
        BY <1>0, <2>0, <2>2, <2>3, <4>0, <4>1
      <4>2. CASE ~(j <= Len(s) - k)
        <5>1. (k + j) - Len(s) = j - (Len(s) - k) /\ ~(k + j <= Len(s))
          BY <1>0, <2>0, <4>2
        <5> QED
          BY <1>0, <2>3, <4>0, <4>2, <5>1
      <4> QED
        BY <4>1, <4>2
    <3> QED
      BY <2>1, <2>3, <3>1, <3>2, SeqEqual
  <2> QED
    BY <2>4, <2>5 DEF a, b, c, d, e
<1>2. ASSUME NEW k \in 0..Len(t)
      PROVE  /\ SubSeq(u, 1, Len(s) + k) = s \o SubSeq(t, 1, k)
             /\ SubSeq(u, Len(s) + k + 1, Len(u)) = SubSeq(t, k + 1, Len(t))
  <2> DEFINE n == Len(s) + k
             a == SubSeq(u, 1, n)
             b == SubSeq(u, n + 1, Len(u))
             c == SubSeq(t, 1, k)
             d == SubSeq(t, k + 1, Len(t))
             e == s \o c
  <2>0. n \in 0..Len(u) /\ k \in Nat /\ k <= Len(t) /\ n = Len(s) + k
    BY <1>0
  <2> HIDE DEF n
  <2>1. /\ a \in Seq(Pieces) /\ Len(a) = n /\ \A j \in 1..n : a[j] = u[j]
        /\ b \in Seq(Pieces) /\ Len(b) = Len(u) - n /\ \A j \in 1..(Len(u) - n) : b[j] = u[n + j]
    BY <1>0, <2>0, CutAt
  <2>2. /\ c \in Seq(Pieces) /\ Len(c) = k /\ \A j \in 1..k : c[j] = t[j]
        /\ d \in Seq(Pieces) /\ Len(d) = Len(t) - k /\ \A j \in 1..(Len(t) - k) : d[j] = t[k + j]
    BY CutAt
  <2> HIDE DEF a, b, c, d
  <2>3. /\ e \in Seq(Pieces) /\ Len(e) = Len(s) + k
        /\ \A j \in 1..Len(e) : e[j] = IF j <= Len(s) THEN s[j] ELSE c[j - Len(s)]
    <3>1. /\ s \o c \in Seq(Pieces) /\ Len(s \o c) = Len(s) + Len(c)
          /\ \A j \in 1..(Len(s) + Len(c)) : (s \o c)[j] = IF j <= Len(s) THEN s[j] ELSE c[j - Len(s)]
      BY <2>2, ConcatProperties
    <3> QED
      BY <2>2, <3>1
  <2> HIDE DEF e
  <2>4. a = e
    <3>1. Len(a) = Len(e)
      BY <2>0, <2>1, <2>3
    <3>2. ASSUME NEW j \in 1..Len(a) PROVE a[j] = e[j]
      <4>0. j \in 1..Len(u) /\ a[j] = u[j] /\ j \in 1..Len(e)
        BY <1>0, <2>0, <2>1, <3>1
      <4>1. CASE j <= Len(s)
        BY <1>0, <2>3, <4>0, <4>1
      <4>2. CASE ~(j <= Len(s))
        <5>1. j - Len(s) \in 1..k
          BY <1>0, <2>0, <2>3, <4>0, <4>2
        <5> QED
          BY <1>0, <2>2, <2>3, <4>0, <4>2, <5>1
      <4> QED
        BY <4>1, <4>2
    <3> QED
      BY <2>1, <2>3, <3>1, <3>2, SeqEqual
  <2>5. b = d
    <3>1. Len(b) = Len(d) /\ Len(d) = Len(t) - k /\ Len(b) = Len(u) - n
      BY <1>0, <2>0, <2>1, <2>2
    <3>2. ASSUME NEW j \in 1..Len(b) PROVE b[j] = d[j]
      <4>1. n + j \in 1..Len(u) /\ ~(n + j <= Len(s)) /\ (n + j) - Len(s) = k + j
        BY <1>0, <2>0, <3>1
      <4>2. b[j] = u[n + j] /\ d[j] = t[k + j]
        BY <2>1, <2>2, <3>1
      <4>3. u[n + j] = t[(n + j) - Len(s)]
        BY <1>0, <4>1
      <4> QED
        BY <4>1, <4>2, <4>3
    <3> QED
      BY <2>1, <2>2, <3>1, <3>2, SeqEqual
  <2> QED
    BY <2>4, <2>5 DEF a, b, c, d, e, n
<1> QED
  BY <1>1, <1>2 DEF u

\* The marker in a text that goes on.
LEMMA UpToConcat ==
  ASSUME NEW s \in Seq(Pieces), NEW t \in Seq(Pieces)
  PROVE  /\ Contains(s \o t, "close") <=> Contains(s, "close") \/ Contains(t, "close")
         /\ UpTo(s \o t) = IF Contains(s, "close") THEN UpTo(s) ELSE Len(s) + UpTo(t)
<1> DEFINE u == s \o t
<1>0. /\ u \in Seq(Pieces) /\ Len(u) = Len(s) + Len(t) /\ Len(s) \in Nat /\ Len(t) \in Nat
      /\ \A j \in 1..Len(u) : u[j] = IF j <= Len(s) THEN s[j] ELSE t[j - Len(s)]
  BY ConcatProperties, LenProperties
<1> HIDE DEF u
<1>1. CASE Contains(s, "close")
  <2>1. PICK k \in 1..Len(s) : k = UpTo(s) /\ s[k] = "close" /\ \A j \in 1..(k - 1) : s[j] # "close"
    BY <1>1, UpToIs
  <2>2. k \in 1..Len(u) /\ u[k] = "close" /\ \A j \in 1..(k - 1) : u[j] # "close"
    BY <1>0, <2>1, SMTT(30)
  <2>3. UpTo(u) = k /\ Contains(u, "close")
    BY <1>0, <2>2, UpToUnique
  <2> QED
    BY <1>1, <2>1, <2>3 DEF u
<1>2. CASE ~Contains(s, "close") /\ Contains(t, "close")
  <2>0. \A j \in 1..Len(s) : s[j] # "close"
    BY <1>2 DEF Contains
  <2>1. PICK k \in 1..Len(t) : k = UpTo(t) /\ t[k] = "close" /\ \A j \in 1..(k - 1) : t[j] # "close"
    BY <1>2, UpToIs
  <2>2. Len(s) + k \in 1..Len(u) /\ u[Len(s) + k] = "close"
    BY <1>0, <2>1
  <2>4. ASSUME NEW j \in 1..(Len(s) + k - 1) PROVE u[j] # "close"
    <3>1. CASE j <= Len(s)
      <4>1. j \in 1..Len(s) /\ j \in 1..Len(u)
        BY <1>0, <2>1, <3>1
      <4> QED
        BY <1>0, <2>0, <3>1, <4>1
    <3>2. CASE ~(j <= Len(s))
      <4>1. j - Len(s) \in 1..(k - 1) /\ j \in 1..Len(u)
        BY <1>0, <2>1, <3>2
      <4> QED
        BY <1>0, <2>1, <3>2, <4>1
    <3> QED
      BY <3>1, <3>2
  <2>3. UpTo(u) = Len(s) + k /\ Contains(u, "close")
    <3>1. PICK n \in 1..Len(u) : n = Len(s) + k
      BY <2>2
    <3>2. u[n] = "close" /\ \A j \in 1..(n - 1) : u[j] # "close"
      BY <2>2, <2>4, <3>1
    <3> QED
      BY <1>0, <3>1, <3>2, UpToUnique
  <2> QED
    BY <1>2, <2>1, <2>3 DEF u
<1>3. CASE ~Contains(s, "close") /\ ~Contains(t, "close")
  <2>1. (\A j \in 1..Len(s) : s[j] # "close") /\ (\A j \in 1..Len(t) : t[j] # "close")
    BY <1>3 DEF Contains
  <2>2. ASSUME NEW j \in 1..Len(u) PROVE u[j] # "close"
    <3>1. CASE j <= Len(s)
      BY <1>0, <2>1, <3>1
    <3>2. CASE ~(j <= Len(s))
      <4>1. j - Len(s) \in 1..Len(t)
        BY <1>0, <3>2
      <4> QED
        BY <1>0, <2>1, <3>2, <4>1
    <3> QED
      BY <3>1, <3>2
  <2>3. ~Contains(u, "close")
    BY <2>2 DEF Contains
  <2>4. UpTo(u) = Len(u) /\ UpTo(t) = Len(t)
    BY <1>0, <1>3, <2>3, UpToIs
  <2> QED
    BY <1>0, <1>3, <2>3, <2>4 DEF u
<1> QED
  BY <1>1, <1>2, <1>3

\* What is emitted for a text: words, reasoning and calls.
Emitted == [content : Nat, reasoning : Nat, calls : Nat]
\* The sum of what is emitted twice.
Both(a, b) ==
  [content |-> a.content + b.content, reasoning |-> a.reasoning + b.reasoning, calls |-> a.calls + b.calls]

\* There is a cut.
LEMMA DeltaAt ==
  ASSUME NEW s \in Seq(Pieces), NEW r \in BOOLEAN
  PROVE  \E k, a, b : CutsAt(r, s, k, a, b)
<1>1. PICK k \in 0..Len(s) : k = (IF r THEN UpTo(s) ELSE 0)
  <2>1. UpTo(s) \in 0..Len(s) /\ 0 \in 0..Len(s)
    BY UpToIs, LenProperties
  <2> QED
    BY <2>1
<1>2. SubSeq(s, 1, k) \in Seq(Pieces) /\ SubSeq(s, k + 1, Len(s)) \in Seq(Pieces)
  BY CutAt
<1> QED
  BY <1>1, <1>2 DEF CutsAt

\* What is emitted for two texts is a record of numbers.
LEMMA PartsType ==
  ASSUME NEW a \in Seq(Pieces), NEW b \in Seq(Pieces)
  PROVE  Parts(a, b) \in Emitted
<1>2. /\ Count(b, "word") \in Nat /\ Count(a, "word") \in Nat /\ Count(a, "call") \in Nat
      /\ Count(b, "call") \in Nat
  BY CountType
<1>3. Count(a, "word") + Count(a, "call") \in Nat
  BY <1>2
<1> QED
  BY <1>2, <1>3 DEF Emitted, Parts

\* So is what is emitted for a text.
LEMMA DeltaType ==
  ASSUME NEW s \in Seq(Pieces), NEW r \in BOOLEAN
  PROVE  ParseDelta(r, s) \in Emitted
<1>1. PICK k, a, b : CutsAt(r, s, k, a, b)
  BY DeltaAt
<1>2. a \in Seq(Pieces) /\ b \in Seq(Pieces)
  BY <1>1 DEF CutsAt
<1>3. ParseDelta(r, s) = Parts(a, b)
  BY <1>1, ParseDeltaIs
<1> QED
  BY <1>2, <1>3, PartsType

\* No text.
Blank == <<>>

\* It has nothing in it, and adds nothing.
LEMMA BlankIs ==
  /\ Blank \in Seq(Pieces) /\ Len(Blank) = 0 /\ Count(Blank, "word") = 0 /\ Count(Blank, "call") = 0
  /\ \A s \in Seq(Pieces) : /\ s \o Blank = s /\ Blank \o s = s
                            /\ SubSeq(s, 1, 0) = Blank /\ SubSeq(s, Len(s) + 1, Len(s)) = Blank
<1>1. <<>> \in Seq(Pieces) /\ Len(<<>>) = 0
  OBVIOUS
<1>2. Count(<<>>, "word") = 0 /\ Count(<<>>, "call") = 0
  BY <1>1, CountType
<1>3. ASSUME NEW s \in Seq(Pieces)
      PROVE  /\ s \o <<>> = s /\ <<>> \o s = s
             /\ SubSeq(s, 1, 0) = <<>> /\ SubSeq(s, Len(s) + 1, Len(s)) = <<>>
  BY LenProperties, ConcatEmptySeq, SubSeqEmpty
<1> QED
  BY <1>1, <1>2, <1>3 DEF Blank

\* A text that is not reasoning, and one that is nothing else.
LEMMA DeltaEdges ==
  ASSUME NEW s \in Seq(Pieces), NEW r \in BOOLEAN
  PROVE  /\ ~r => ParseDelta(r, s) = Parts(Blank, s)
         /\ r /\ ~Contains(s, "close") => ParseDelta(r, s) = Parts(s, Blank)
<1>0. Len(s) \in Nat /\ SubSeq(s, 1, Len(s)) = s /\ 0 \in 0..Len(s) /\ Len(s) \in 0..Len(s)
  BY LenProperties, SubSeqFull
<1>1. Blank \in Seq(Pieces) /\ SubSeq(s, 1, 0) = Blank /\ SubSeq(s, Len(s) + 1, Len(s)) = Blank
  BY BlankIs
<1>2. ~r => CutsAt(r, s, 0, Blank, s)
  BY <1>0, <1>1 DEF CutsAt
<1>3. r /\ ~Contains(s, "close") => CutsAt(r, s, Len(s), s, Blank)
  BY <1>0, <1>1, UpToIs DEF CutsAt
<1>4. ~r => ParseDelta(r, s) = Parts(Blank, s)
  BY <1>2, ParseDeltaIs
<1>5. ASSUME r, ~Contains(s, "close") PROVE ParseDelta(r, s) = Parts(s, Blank)
  <2>1. CutsAt(r, s, Len(s), s, Blank)
    BY <1>3, <1>5
  <2> QED
    BY <2>1, ParseDeltaIs
<1> QED
  BY <1>4, <1>5

\* The parts of a text that goes on, in what is emitted for it.
LEMMA PartsConcat ==
  \A a, b, c, d \in Seq(Pieces) : Parts(a \o c, b \o d) = Both(Parts(a, b), Parts(c, d))
<1> SUFFICES ASSUME NEW a \in Seq(Pieces), NEW b \in Seq(Pieces), NEW c \in Seq(Pieces), NEW d \in Seq(Pieces)
             PROVE  Parts(a \o c, b \o d) = Both(Parts(a, b), Parts(c, d))
  OBVIOUS
<1>1. /\ Count(a \o c, "word") = Count(a, "word") + Count(c, "word")
      /\ Count(a \o c, "call") = Count(a, "call") + Count(c, "call")
      /\ Count(b \o d, "word") = Count(b, "word") + Count(d, "word")
      /\ Count(b \o d, "call") = Count(b, "call") + Count(d, "call")
  BY CountConcat
<1>2. /\ Count(a, "word") \in Nat /\ Count(a, "call") \in Nat
      /\ Count(c, "word") \in Nat /\ Count(c, "call") \in Nat
  BY CountType
<1>3. Count(a \o c, "word") + Count(a \o c, "call") =
        (Count(a, "word") + Count(a, "call")) + (Count(c, "word") + Count(c, "call"))
  BY <1>1, <1>2
<1> QED
  BY <1>1, <1>3 DEF Parts, Both

\* A stream that is cut anywhere emits what is emitted for it in one go.
LEMMA DeltaConcat ==
  ASSUME NEW s \in Seq(Pieces), NEW t \in Seq(Pieces), NEW r \in BOOLEAN, NEW q \in BOOLEAN,
         q = (r /\ ~Contains(s, "close"))
  PROVE  ParseDelta(r, s \o t) = Both(ParseDelta(r, s), ParseDelta(q, t))
<1>0. PICK u \in Seq(Pieces) : u = s \o t /\ Len(u) = Len(s) + Len(t)
  BY ConcatProperties
<1>4. Len(s) \in Nat /\ Len(t) \in Nat /\ Blank \in Seq(Pieces)
  BY LenProperties, BlankIs
<1>1. CASE ~r
  <2>2. /\ ParseDelta(r, u) = Parts(Blank, u) /\ ParseDelta(r, s) = Parts(Blank, s)
        /\ ParseDelta(q, t) = Parts(Blank, t)
    BY <1>1, DeltaEdges
  <2>3. Parts(Blank \o Blank, s \o t) = Both(Parts(Blank, s), Parts(Blank, t))
    BY <1>4, PartsConcat
  <2>4. Blank \o Blank = Blank
    BY BlankIs
  <2> QED
    BY <1>0, <2>2, <2>3, <2>4
<1>2. CASE r /\ Contains(s, "close")
  <2>2. PICK k \in 0..Len(s) : k = UpTo(s) /\ k = UpTo(u)
    BY <1>0, <1>2, UpToIs, UpToConcat
  <2>3. PICK a, b : a = SubSeq(s, 1, k) /\ b = SubSeq(s, k + 1, Len(s)) /\ a \in Seq(Pieces) /\ b \in Seq(Pieces)
    BY CutAt, ZenonT(40)
  <2>4. SubSeq(u, 1, k) = a /\ SubSeq(u, k + 1, Len(u)) = b \o t
    <3>1. SubSeq(s \o t, 1, k) = SubSeq(s, 1, k)
          /\ SubSeq(s \o t, k + 1, Len(s \o t)) = SubSeq(s, k + 1, Len(s)) \o t
      BY CutLonger
    <3> QED
      BY <1>0, <2>3, <3>1
  <2>5. k \in 0..Len(u) /\ b \o t \in Seq(Pieces)
    BY <1>0, <1>4, <2>3, ConcatProperties
  <2>6. CutsAt(r, s, k, a, b)
    BY <1>2, <2>2, <2>3 DEF CutsAt
  <2>7. CutsAt(r, u, k, a, b \o t)
    BY <1>2, <2>2, <2>3, <2>4, <2>5 DEF CutsAt
  <2>8. ParseDelta(r, s) = Parts(a, b)
    BY <2>6, ParseDeltaIs
  <2>10. ParseDelta(r, u) = Parts(a, b \o t)
    BY <2>7, ParseDeltaIs
  <2>11. ParseDelta(q, t) = Parts(Blank, t)
    BY <1>2, DeltaEdges
  <2>9. Parts(a \o Blank, b \o t) = Both(Parts(a, b), Parts(Blank, t))
    <3>1. a \in Seq(Pieces) /\ b \in Seq(Pieces)
      BY <2>3
    <3> QED
      BY <1>4, <3>1, PartsConcat
  <2>12. a \o Blank = a
    BY <2>3, BlankIs
  <2> QED
    BY <1>0, <2>8, <2>9, <2>10, <2>11, <2>12
<1>3. CASE r /\ ~Contains(s, "close")
  <2>2. PICK k \in 0..Len(t) : k = UpTo(t) /\ Len(s) + k = UpTo(u)
    BY <1>0, <1>3, UpToIs, UpToConcat
  <2>3. PICK a, b : a = SubSeq(t, 1, k) /\ b = SubSeq(t, k + 1, Len(t)) /\ a \in Seq(Pieces) /\ b \in Seq(Pieces)
    BY CutAt, ZenonT(40)
  <2>4. SubSeq(u, 1, Len(s) + k) = s \o a /\ SubSeq(u, Len(s) + k + 1, Len(u)) = b
    <3>1. SubSeq(s \o t, 1, Len(s) + k) = s \o SubSeq(t, 1, k)
          /\ SubSeq(s \o t, Len(s) + k + 1, Len(s \o t)) = SubSeq(t, k + 1, Len(t))
      BY CutLonger
    <3> QED
      BY <1>0, <2>3, <3>1
  <2>5. Len(s) + k \in 0..Len(u) /\ s \o a \in Seq(Pieces)
    BY <1>0, <1>4, <2>3, ConcatProperties
  <2>6. CutsAt(r, t, k, a, b)
    BY <1>3, <2>2, <2>3 DEF CutsAt
  <2>7. CutsAt(r, u, Len(s) + k, s \o a, b)
    BY <1>3, <2>2, <2>3, <2>4, <2>5 DEF CutsAt
  <2>8. ParseDelta(r, t) = Parts(a, b)
    BY <2>6, ParseDeltaIs
  <2>10. ParseDelta(r, u) = Parts(s \o a, b)
    BY <2>7, ParseDeltaIs
  <2>11. ParseDelta(r, s) = Parts(s, Blank)
    BY <1>3, DeltaEdges
  <2>9. Parts(s \o a, Blank \o b) = Both(Parts(s, Blank), Parts(a, b))
    <3>1. a \in Seq(Pieces) /\ b \in Seq(Pieces)
      BY <2>3
    <3> QED
      BY <1>4, <3>1, PartsConcat
  <2>12. Blank \o b = b /\ r = q
    BY <1>3, <2>3, BlankIs
  <2> QED
    BY <1>0, <2>8, <2>9, <2>10, <2>11, <2>12
<1> QED
  BY <1>1, <1>2, <1>3

\* A parse of a whole text that closes its reasoning, or has none, emits what a stream does;
\* of one that never closes it takes the words for content.
LEMMA ParseWhole ==
  ASSUME NEW s \in Seq(Pieces), NEW r \in BOOLEAN
  PROVE  /\ ~r \/ Contains(s, "close") =>
              /\ Parse(r, s).content = ParseDelta(r, s).content
              /\ Parse(r, s).calls = ParseDelta(r, s).calls
         /\ r /\ ~Contains(s, "close") =>
              Parse(r, s).content = Count(s, "word") /\ Parse(r, s).calls = Count(s, "call")
<1>1. CASE r /\ Contains(s, "close")
  <2>1. PICK k, a, b : CutsAt(r, s, k, a, b)
    BY DeltaAt
  <2>3. ParseDelta(r, s).content = Count(b, "word") /\ ParseDelta(r, s).calls = Count(b, "call")
    <3>1. ParseDelta(r, s) = Parts(a, b)
      BY <2>1, ParseDeltaIs
    <3> QED
      BY <3>1 DEF Parts
  <2>2. b = SubSeq(s, UpTo(s) + 1, Len(s)) /\ b \in Seq(Pieces)
    BY <1>1, <2>1 DEF CutsAt
  <2>4. Parse(r, s).content = Words(b) /\ Parse(r, s).calls = Calls(b)
    BY <1>1, <2>2 DEF Parse
  <2> QED
    BY <1>1, <2>2, <2>3, <2>4, CountIs
<1>2. CASE ~(r /\ Contains(s, "close"))
  <2>1. Parse(r, s).content = Words(s) /\ Parse(r, s).calls = Calls(s)
    BY <1>2 DEF Parse
  <2>2. ~r => ParseDelta(r, s).content = Count(s, "word") /\ ParseDelta(r, s).calls = Count(s, "call")
    BY DeltaEdges DEF Parts
  <2> QED
    BY <1>2, <2>1, <2>2, CountIs
<1> QED
  BY <1>1, <1>2

\* The pieces of a text from one place to another.
LEMMA Slice ==
  ASSUME NEW T \in Seq(Pieces), NEW a \in Nat, NEW b \in Nat, a <= b, b <= Len(T)
  PROVE  SubSeq(T, a + 1, b) \in Seq(Pieces) /\ Len(SubSeq(T, a + 1, b)) = b - a
<1>1. Len(T) \in Nat /\ \A j \in 1..Len(T) : T[j] \in Pieces
  BY LenProperties, ElementOfSeq
<1>2. a + 1 \in Int /\ b \in Int /\ \A j \in (a + 1)..b : T[j] \in Pieces
  BY <1>1
<1>3. SubSeq(T, a + 1, b) \in Seq(Pieces)
      /\ Len(SubSeq(T, a + 1, b)) = IF a + 1 <= b THEN b - (a + 1) + 1 ELSE 0
  BY <1>2, SubSeqProperties
<1> QED
  BY <1>3

\* Neighbours join.
LEMMA Joined ==
  \A T \in Seq(Pieces) : \A a, b, c \in Nat :
    a <= b /\ b <= c /\ c <= Len(T) => SubSeq(T, a + 1, b) \o SubSeq(T, b + 1, c) = SubSeq(T, a + 1, c)
<1> SUFFICES ASSUME NEW T \in Seq(Pieces), NEW a \in Nat, NEW b \in Nat, NEW c \in Nat,
                    a <= b, b <= c, c <= Len(T)
             PROVE  SubSeq(T, a + 1, b) \o SubSeq(T, b + 1, c) = SubSeq(T, a + 1, c)
  OBVIOUS
<1>1. a + 1 \in 1..(Len(T) + 1) /\ b \in (a + 1 - 1)..Len(T) /\ c \in b..Len(T)
  BY LenProperties
<1> QED
  BY <1>1, ConcatAdjacentSubSeq

\* So do a prefix and what follows it.
LEMMA Prefixed ==
  \A T \in Seq(Pieces) : \A b, c \in Nat :
    b <= c /\ c <= Len(T) => /\ SubSeq(T, 1, b) \in Seq(Pieces)
                             /\ SubSeq(T, 1, b) \o SubSeq(T, b + 1, c) = SubSeq(T, 1, c)
<1> SUFFICES ASSUME NEW T \in Seq(Pieces), NEW b \in Nat, NEW c \in Nat, b <= c, c <= Len(T)
             PROVE  /\ SubSeq(T, 1, b) \in Seq(Pieces)
                    /\ SubSeq(T, 1, b) \o SubSeq(T, b + 1, c) = SubSeq(T, 1, c)
  OBVIOUS
<1>1. 0 \in Nat /\ 0 <= b /\ b <= Len(T) /\ 0 + 1 = 1
  BY LenProperties
<1>2. SubSeq(T, 0 + 1, b) \in Seq(Pieces)
  BY <1>1, Slice
<1>3. SubSeq(T, 0 + 1, b) \o SubSeq(T, b + 1, c) = SubSeq(T, 0 + 1, c)
  BY <1>1, Joined
<1> QED
  BY <1>1, <1>2, <1>3

\* A text that is joined is cut again at the joint.
LEMMA CutJoint ==
  \A x, y \in Seq(Pieces) : /\ SubSeq(x \o y, 1, Len(x)) = x
                            /\ SubSeq(x \o y, Len(x) + 1, Len(x \o y)) = y
<1> SUFFICES ASSUME NEW x \in Seq(Pieces), NEW y \in Seq(Pieces)
             PROVE  /\ SubSeq(x \o y, 1, Len(x)) = x
                    /\ SubSeq(x \o y, Len(x) + 1, Len(x \o y)) = y
  OBVIOUS
<1>1. Len(x) \in 0..Len(x) /\ SubSeq(x, 1, Len(x)) = x
  BY LenProperties, SubSeqFull
<1>2. 0 \in 0..Len(y) /\ SubSeq(y, 0 + 1, Len(y)) = y /\ Len(x) + 0 + 1 = Len(x) + 1
  BY LenProperties, SubSeqFull
<1>3. SubSeq(x \o y, 1, Len(x)) = SubSeq(x, 1, Len(x))
  BY <1>1, CutLonger
<1>4. SubSeq(x \o y, Len(x) + 0 + 1, Len(x \o y)) = SubSeq(y, 0 + 1, Len(y))
  BY <1>2, CutLonger
<1> QED
  BY <1>1, <1>2, <1>3, <1>4

\* Where a parser that has the pieces from d to e goes on when it takes those up to p.
LEMMA ParserMoves ==
  \A T \in Seq(Pieces) : \A d, p, e \in Nat : d <= p /\ p <= e /\ e <= Len(T) =>
    LET held == SubSeq(T, d + 1, e)
    IN /\ SubSeq(held, 1, p - d) = SubSeq(T, d + 1, p)
       /\ SubSeq(held, p - d + 1, Len(held)) = SubSeq(T, p + 1, e)
<1> SUFFICES ASSUME NEW T \in Seq(Pieces), NEW d \in Nat, NEW p \in Nat, NEW e \in Nat,
                    d <= p, p <= e, e <= Len(T)
             PROVE  LET held == SubSeq(T, d + 1, e)
                    IN /\ SubSeq(held, 1, p - d) = SubSeq(T, d + 1, p)
                       /\ SubSeq(held, p - d + 1, Len(held)) = SubSeq(T, p + 1, e)
  OBVIOUS
<1>0. p <= Len(T)
  BY LenProperties
<1>1. PICK x \in Seq(Pieces) : x = SubSeq(T, d + 1, p) /\ Len(x) = p - d
  BY <1>0, Slice
<1>2. PICK y \in Seq(Pieces) : y = SubSeq(T, p + 1, e)
  BY Slice
<1>3. SubSeq(T, d + 1, e) = x \o y
  BY <1>1, <1>2, Joined, SMTT(30)
<1>4. SubSeq(x \o y, 1, Len(x)) = x /\ SubSeq(x \o y, Len(x) + 1, Len(x \o y)) = y
  BY CutJoint
<1> QED
  BY <1>1, <1>2, <1>3, <1>4

\* What is emitted goes on where it was.
LEMMA DeltaMoves ==
  \A s, t \in Seq(Pieces) : \A r, q \in BOOLEAN : q = (r /\ ~Contains(s, "close")) =>
    /\ ParseDelta(r, s \o t) = Both(ParseDelta(r, s), ParseDelta(q, t))
    /\ (q /\ ~Contains(t, "close")) = (r /\ ~Contains(s \o t, "close"))
<1> SUFFICES ASSUME NEW s \in Seq(Pieces), NEW t \in Seq(Pieces), NEW r \in BOOLEAN, NEW q \in BOOLEAN,
                    q = (r /\ ~Contains(s, "close"))
             PROVE  /\ ParseDelta(r, s \o t) = Both(ParseDelta(r, s), ParseDelta(q, t))
                    /\ (q /\ ~Contains(t, "close")) = (r /\ ~Contains(s \o t, "close"))
  OBVIOUS
<1>1. ParseDelta(r, s \o t) = Both(ParseDelta(r, s), ParseDelta(q, t))
  BY DeltaConcat
<1>2. Contains(s \o t, "close") <=> Contains(s, "close") \/ Contains(t, "close")
  BY UpToConcat
<1> QED
  BY <1>1, <1>2

\* A chat completion streamed by vLLM, so far without a failure.
ChatGoes == ask.op = "chat" /\ ask.loader = "vllm" /\ failures = 0

\* What the client has of a choice once it has been handed the chunk that waits.
Told(i) ==
  IF Waits({"delta"}) /\ Waiting.choice = i THEN Viewed(client.view[i], Waiting) ELSE client.view[i]

\* A parser has emitted d pieces of a text and holds the next ones up to the last one made; the
\* flags say what was emitted, and the whole text is kept until there was content.
ParsedTo(d, T, thinks, made, p, o, v) ==
  /\ d \in 0..made /\ p.held = SubSeq(T, d + 1, made)
  /\ p.reasoning = (thinks /\ ~Contains(SubSeq(T, 1, d), "close"))
  /\ [content |-> v.content, reasoning |-> v.reasoning, calls |-> v.calls] = ParseDelta(thinks, SubSeq(T, 1, d))
  /\ o.content <=> v.content > 0
  /\ o.reasoning <=> v.reasoning > 0
  /\ o.tools <=> v.calls > 0
  /\ ~o.content => o.text = SubSeq(T, 1, made)

\* A text that is not parsed is passed on.
Plain(made, o, v) == v.content = made /\ v.calls = 0 /\ ~o.tools

\* A choice with its reason has been told what a parse of the whole text says.
Agreed(i) ==
  LET v == Told(i)
      p == FinalOutput(engine[i].reason).choices[i]
      lost == ask.parses /\ ask.thinks /\ Contains(ask.text[i], "call") /\ ~Contains(ask.text[i], "close")
  IN /\ v.content = p.content
     /\ Len(v.reasons) = 1
     /\ ~lost => v.calls = p.calls /\ Last(v.reasons) = p.reason

\* A choice that goes on.
Going(i) ==
  /\ Told(i).reasons = <<>>
  /\ ask.parses => \E d : ParsedTo(d, ask.text[i], ask.thinks, engine[i].made, parsers[i], out[i], Told(i))
  /\ ~ask.parses => Plain(engine[i].made, out[i], Told(i))

\* What holds of each choice.
ChoiceInv(i) ==
  /\ engine[i].made \in 0..Len(ask.text[i])
  /\ out[i].sent = (engine[i].reason # NoReason)
  /\ IF out[i].sent THEN Agreed(i) ELSE Going(i)

\* A stream that closes has sent all its reasons, and relays nothing.
ClosesLate ==
  /\ ask.stream /\ work \in {"closing", "ended"} => \A i \in ChoiceIds : out[i].sent
  /\ ~Waits({"relay"})

\* A chat completion that is not streamed has no chunks.
Unstreamed ==
  ask.op = "chat" /\ ~ask.stream =>
    /\ work \in {"idle", "called", "blocking", "ended", "raised", "raised_value"}
    /\ ~Waits({"done"}) /\ ~(client.done /\ client.errors = 0)

\* The inductive invariant behind StreamAgrees.
TextInv ==
  /\ parsers = [i \in ChoiceIds |-> parsers[i]]
  /\ Unstreamed
  /\ ChatGoes => ClosesLate /\ \A i \in ChoiceIds : ChoiceInv(i)

\* The text of a request.
LEMMA TextType ==
  ASSUME UsageTypes, NEW i \in ChoiceIds
  PROVE  ask.text[i] \in Seq(Pieces) /\ ask.thinks \in BOOLEAN /\ ask.parses \in BOOLEAN
BY AskAssumption DEF UsageTypes

\* One output: n more pieces, parsed up to the k-th of those the parser then has.
OneOutput(T, made, n, k, p, pieces, held, taken, q) ==
  /\ pieces = SubSeq(T, made + 1, made + n)
  /\ held = p.held \o pieces /\ taken = SubSeq(held, 1, k)
  /\ q = [reasoning |-> p.reasoning /\ ~Contains(taken, "close"), held |-> SubSeq(held, k + 1, Len(held))]

\* What is kept for a choice and what its client was told after a delta.
Kept(o, pieces, delta, new) ==
  /\ new.content <=> o.content \/ delta.content > 0
  /\ new.reasoning <=> o.reasoning \/ delta.reasoning > 0
  /\ new.tools <=> o.tools \/ delta.calls > 0
  /\ new.text = IF delta.content > 0 THEN <<>> ELSE IF o.content THEN o.text ELSE o.text \o pieces
Shows(v, delta, w) ==
  /\ w.content = v.content + delta.content /\ w.reasoning = v.reasoning + delta.reasoning
  /\ w.calls = v.calls + delta.calls

\* What one output adds to what is kept for a choice.
LEMMA KeptAfter ==
  ASSUME NEW o, NEW pieces, NEW ids, NEW emits, NEW delta, NEW new,
         o = [tokens |-> o.tokens, text |-> o.text, sent |-> o.sent, tools |-> o.tools,
              content |-> o.content, reasoning |-> o.reasoning],
         new = Streamed(Accumulated(o, pieces, ids, emits), delta)
  PROVE  Kept(o, pieces, delta, new)
<1>1. PICK text : text = (IF o.content THEN o.text ELSE o.text \o pieces)
  OBVIOUS
<1>2. PICK acc : acc = Accumulated(o, pieces, ids, emits)
  OBVIOUS
<1>3. acc = [tokens |-> o.tokens + ids, text |-> text, sent |-> o.sent, tools |-> o.tools,
             content |-> o.content, reasoning |-> o.reasoning]
  BY <1>1, <1>2 DEF Accumulated
<1>4. new = [acc EXCEPT !.content = acc.content \/ delta.content > 0,
                        !.text = IF delta.content > 0 THEN <<>> ELSE acc.text,
                        !.reasoning = acc.reasoning \/ delta.reasoning > 0,
                        !.tools = acc.tools \/ delta.calls > 0]
  BY <1>2 DEF Streamed
<1> QED
  BY <1>1, <1>3, <1>4 DEF Kept

\* The places of a text at one output.
InPlace(T, made, n, k, d, pieces, taken, q) ==
  /\ taken \in Seq(Pieces) /\ SubSeq(T, 1, d) \in Seq(Pieces)
  /\ SubSeq(T, 1, d) \o taken = SubSeq(T, 1, d + k)
  /\ SubSeq(T, 1, made) \o pieces = SubSeq(T, 1, made + n)
  /\ q.held = SubSeq(T, d + k + 1, made + n)

\* An output moves each place of the text on.
LEMMA PlacesMove ==
  \A T \in Seq(Pieces) : \A made, n, k, d \in Nat : \A p, pieces, held, taken, q :
    /\ made + n <= Len(T) /\ d <= made /\ d + k <= made + n /\ p.held = SubSeq(T, d + 1, made)
    /\ OneOutput(T, made, n, k, p, pieces, held, taken, q)
    => InPlace(T, made, n, k, d, pieces, taken, q)
<1> TAKE T \in Seq(Pieces)
<1> TAKE made, n, k, d \in Nat
<1> TAKE p, pieces, held, taken, q
<1> HAVE /\ made + n <= Len(T) /\ d <= made /\ d + k <= made + n /\ p.held = SubSeq(T, d + 1, made)
         /\ OneOutput(T, made, n, k, p, pieces, held, taken, q)
<1>0. Len(T) \in Nat
  BY LenProperties
<1>1. PICK e \in Nat, l \in Nat : e = d + k /\ l = made + n
  OBVIOUS
<1>2. d <= e /\ e <= l /\ l <= Len(T) /\ made <= l /\ made <= Len(T) /\ d <= Len(T) /\ e - d = k /\ e <= Len(T)
  BY <1>0, <1>1
<1>3. held = SubSeq(T, d + 1, l)
  <2>1. SubSeq(T, d + 1, made) \o SubSeq(T, made + 1, l) = SubSeq(T, d + 1, l)
    BY <1>2, Joined
  <2> QED
    BY <1>1, <2>1 DEF OneOutput
<1>4. /\ SubSeq(SubSeq(T, d + 1, l), 1, e - d) = SubSeq(T, d + 1, e)
      /\ SubSeq(SubSeq(T, d + 1, l), e - d + 1, Len(SubSeq(T, d + 1, l))) = SubSeq(T, e + 1, l)
  BY <1>2, ParserMoves
<1>5. taken = SubSeq(T, d + 1, e) /\ q.held = SubSeq(T, e + 1, l)
  BY <1>2, <1>3, <1>4 DEF OneOutput
<1>6. /\ SubSeq(T, 1, d) \in Seq(Pieces)
      /\ SubSeq(T, 1, d) \o SubSeq(T, d + 1, e) = SubSeq(T, 1, e)
      /\ SubSeq(T, 1, made) \o SubSeq(T, made + 1, l) = SubSeq(T, 1, l)
  BY <1>2, Prefixed
<1>7. SubSeq(T, d + 1, e) \in Seq(Pieces)
  BY <1>2, Slice
<1>8. pieces = SubSeq(T, made + 1, l)
  BY <1>1 DEF OneOutput
<1> QED
  BY <1>1, <1>5, <1>6, <1>7, <1>8 DEF InPlace

\* A sum is positive if a part of it is.
LEMMA PositiveSum == \A a, b \in Nat : a + b > 0 <=> a > 0 \/ b > 0
OBVIOUS

\* One output that is parsed: the parser, what is kept and what was told go on together.
LEMMA ParsedOn ==
  ASSUME NEW T \in Seq(Pieces), NEW thinks \in BOOLEAN, NEW made \in Nat, NEW n \in Nat, NEW k \in Nat,
         made + n <= Len(T), NEW d, d + k <= made + n,
         NEW p, NEW o, NEW v, ParsedTo(d, T, thinks, made, p, o, v),
         NEW pieces, NEW held, NEW taken, NEW q, OneOutput(T, made, n, k, p, pieces, held, taken, q),
         NEW delta, delta = ParseDelta(p.reasoning, taken),
         NEW new, Kept(o, pieces, delta, new), NEW w, Shows(v, delta, w)
  PROVE  ParsedTo(d + k, T, thinks, made + n, q, new, w)
<1>0. d \in Nat /\ d <= made /\ d + k \in 0..(made + n) /\ p.held = SubSeq(T, d + 1, made)
  BY DEF ParsedTo
<1>1. /\ taken \in Seq(Pieces) /\ SubSeq(T, 1, d) \in Seq(Pieces)
      /\ SubSeq(T, 1, d) \o taken = SubSeq(T, 1, d + k)
      /\ SubSeq(T, 1, made) \o pieces = SubSeq(T, 1, made + n)
      /\ q.held = SubSeq(T, d + k + 1, made + n)
  <2>1. InPlace(T, made, n, k, d, pieces, taken, q)
    BY <1>0, PlacesMove
  <2> QED
    BY <2>1 DEF InPlace
<1>3. PICK s \in Seq(Pieces) : s = SubSeq(T, 1, d)
  BY <1>1
<1>6. p.reasoning \in BOOLEAN /\ p.reasoning = (thinks /\ ~Contains(s, "close"))
  BY <1>3 DEF ParsedTo
<1>2. PICK r \in BOOLEAN : r = p.reasoning
  BY <1>6
<1>7. /\ ParseDelta(thinks, s \o taken) = Both(ParseDelta(thinks, s), ParseDelta(r, taken))
      /\ (r /\ ~Contains(taken, "close")) = (thinks /\ ~Contains(s \o taken, "close"))
  BY <1>1, <1>2, <1>6, DeltaMoves, ZenonT(40)
<1>8. ParseDelta(thinks, s) \in Emitted /\ delta \in Emitted /\ delta = ParseDelta(r, taken)
  BY <1>1, <1>2, DeltaType
<1>9. [content |-> v.content, reasoning |-> v.reasoning, calls |-> v.calls] = ParseDelta(thinks, s)
  BY <1>3 DEF ParsedTo
<1>10. /\ v.content \in Nat /\ v.reasoning \in Nat /\ v.calls \in Nat
       /\ delta.content \in Nat /\ delta.reasoning \in Nat /\ delta.calls \in Nat
  BY <1>8, <1>9 DEF Emitted
<1>11. Both(ParseDelta(thinks, s), delta) =
         [content |-> v.content + delta.content, reasoning |-> v.reasoning + delta.reasoning,
          calls |-> v.calls + delta.calls]
  BY <1>9 DEF Both
<1>12. [content |-> w.content, reasoning |-> w.reasoning, calls |-> w.calls]
         = ParseDelta(thinks, SubSeq(T, 1, d + k))
  BY <1>1, <1>3, <1>7, <1>8, <1>11 DEF Shows
<1>13. /\ o.content <=> v.content > 0
       /\ o.reasoning <=> v.reasoning > 0
       /\ o.tools <=> v.calls > 0
       /\ ~o.content => o.text = SubSeq(T, 1, made)
  BY DEF ParsedTo
<1>14. /\ new.content <=> w.content > 0
       /\ new.reasoning <=> w.reasoning > 0
       /\ new.tools <=> w.calls > 0
  <2>1. /\ w.content = v.content + delta.content /\ w.reasoning = v.reasoning + delta.reasoning
        /\ w.calls = v.calls + delta.calls
    BY DEF Shows
  <2>2. /\ new.content <=> o.content \/ delta.content > 0
        /\ new.reasoning <=> o.reasoning \/ delta.reasoning > 0
        /\ new.tools <=> o.tools \/ delta.calls > 0
    BY DEF Kept
  <2>3. /\ w.content > 0 <=> v.content > 0 \/ delta.content > 0
        /\ w.reasoning > 0 <=> v.reasoning > 0 \/ delta.reasoning > 0
        /\ w.calls > 0 <=> v.calls > 0 \/ delta.calls > 0
    <3>1. v.content + delta.content > 0 <=> v.content > 0 \/ delta.content > 0
      BY <1>10, PositiveSum, Zenon
    <3>2. v.reasoning + delta.reasoning > 0 <=> v.reasoning > 0 \/ delta.reasoning > 0
      BY <1>10, PositiveSum, Zenon
    <3>3. v.calls + delta.calls > 0 <=> v.calls > 0 \/ delta.calls > 0
      BY <1>10, PositiveSum, Zenon
    <3> QED
      BY <2>1, <3>1, <3>2, <3>3, Zenon
  <2> QED
    BY <1>13, <2>2, <2>3
<1>15. ~new.content => new.text = SubSeq(T, 1, made + n)
  BY <1>1, <1>13 DEF Kept
<1>17. q.reasoning = (thinks /\ ~Contains(SubSeq(T, 1, d + k), "close"))
  BY <1>1, <1>2, <1>3, <1>7 DEF OneOutput
<1> QED
  BY <1>0, <1>1, <1>12, <1>14, <1>15, <1>17 DEF ParsedTo

\* What a stream that was parsed to its end has emitted, and what is found when everything went
\* out as reasoning, is what a parse of the whole text says.
LEMMA EndsAsParsed ==
  ASSUME NEW T \in Seq(Pieces), NEW thinks \in BOOLEAN, NEW q, NEW o, NEW w,
         ParsedTo(Len(T), T, thinks, Len(T), q, o, w),
         NEW found, found = IF o.reasoning /\ ~o.content /\ ~o.tools THEN Parse(thinks, o.text).content ELSE 0
  PROVE  /\ found \in Nat /\ w.content + found = Parse(thinks, T).content
         /\ ~(thinks /\ Contains(T, "call") /\ ~Contains(T, "close")) =>
              w.calls = Parse(thinks, T).calls /\ (o.tools <=> Parse(thinks, T).calls > 0)
<1>1. SubSeq(T, 1, Len(T)) = T
  BY SubSeqFull
<1>2. /\ [content |-> w.content, reasoning |-> w.reasoning, calls |-> w.calls] = ParseDelta(thinks, T)
      /\ o.content <=> w.content > 0
      /\ o.reasoning <=> w.reasoning > 0
      /\ o.tools <=> w.calls > 0
      /\ ~o.content => o.text = T
  BY <1>1 DEF ParsedTo
<1>3. /\ w.content = ParseDelta(thinks, T).content /\ w.reasoning = ParseDelta(thinks, T).reasoning
      /\ w.calls = ParseDelta(thinks, T).calls
  BY <1>2
<1>4. w.content \in Nat /\ w.reasoning \in Nat /\ w.calls \in Nat
  BY <1>3, DeltaType DEF Emitted
<1>5. CASE ~thinks \/ Contains(T, "close")
  <2>1. w.content = Parse(thinks, T).content /\ w.calls = Parse(thinks, T).calls
    BY <1>3, <1>5, ParseWhole
  <2>2. found = 0
    <3>1. CASE o.content
      BY <3>1
    <3>2. CASE ~o.content
      <4>1. Parse(thinks, o.text).content = w.content /\ w.content = 0
        BY <1>2, <1>4, <2>1, <3>2
      <4> QED
        BY <4>1
    <3> QED
      BY <3>1, <3>2
  <2> QED
    BY <1>2, <1>4, <2>1, <2>2
<1>6. CASE thinks /\ ~Contains(T, "close")
  <2>1. ParseDelta(thinks, T) = Parts(T, Blank)
    BY <1>6, DeltaEdges
  <2>2. w.content = 0 /\ w.calls = 0 /\ w.reasoning = Count(T, "word") + Count(T, "call")
    BY <1>3, <2>1, BlankIs DEF Parts
  <2>3. Parse(thinks, T).content = Count(T, "word") /\ Parse(thinks, T).calls = Count(T, "call")
    BY <1>6, ParseWhole
  <2>4. Count(T, "word") \in Nat /\ Count(T, "call") \in Nat /\ (Count(T, "call") = 0 <=> ~Contains(T, "call"))
    BY CountType
  <2>5. ~o.content /\ ~o.tools /\ o.text = T
    BY <1>2, <2>2
  <2>6. found = Count(T, "word")
    <3>1. CASE o.reasoning
      BY <2>3, <2>5, <3>1
    <3>2. CASE ~o.reasoning
      <4>1. ~(w.reasoning > 0)
        BY <1>2, <3>2
      <4>2. Count(T, "word") = 0
        BY <2>2, <2>4, <4>1
      <4> QED
        BY <3>2, <4>2
    <3> QED
      BY <3>1, <3>2
  <2>7. w.content + found = Parse(thinks, T).content
    BY <2>2, <2>3, <2>4, <2>6
  <2>8. ~Contains(T, "call") => w.calls = Parse(thinks, T).calls /\ (o.tools <=> Parse(thinks, T).calls > 0)
    BY <2>2, <2>3, <2>4, <2>5
  <2> QED
    BY <1>6, <2>4, <2>6, <2>7, <2>8
<1> QED
  BY <1>5, <1>6

\* The answer of a request that is not streamed, for one choice.
LEMMA FinalIs ==
  ASSUME NEW i \in ChoiceIds, NEW reason
  PROVE  LET p == IF ask.parses THEN Parse(ask.thinks, ask.text[i])
                  ELSE [NoDelta EXCEPT !.content = Len(ask.text[i])]
             final == FinalOutput(reason).choices[i]
         IN /\ final.content = p.content /\ final.calls = p.calls
            /\ final.reason = finish_reason_for_choice(p.calls > 0, reason)
BY DEF FinalOutput

\* What one output of the engine makes of its pieces.
Reads(i, n, k, reason, pieces, held, taken, delta, emits) ==
  /\ pieces = SubSeq(ask.text[i], engine[i].made + 1, engine[i].made + n)
  /\ held = parsers[i].held \o pieces /\ taken = SubSeq(held, 1, k)
  /\ delta = IF ask.parses THEN ParseDelta(parsers[i].reasoning, taken) ELSE [NoDelta EXCEPT !.content = n]
  /\ emits = (reason # NoReason \/ ~ask.parses \/ delta # NoDelta)

\* The chunk it may yield.
DeltaChunk(i, delta, found, tools, reason) ==
  [kind |-> "delta", choice |-> i, delta |-> [delta EXCEPT !.content = @ + found],
   reason |-> IF reason # NoReason THEN finish_reason_for_choice(tools, reason) ELSE NoReason]

\* What it changes.
WritesOut(i, n, k, reason, held, taken, delta, emits, o, found) ==
  /\ engine' = [engine EXCEPT ![i] = [made |-> @.made + n, tokens |-> @.tokens + Ids(n, reason),
                                      reason |-> reason]]
  /\ parsers' = [parsers EXCEPT ![i] =
       [reasoning |-> @.reasoning /\ ~Contains(taken, "close"),
        held |-> IF ask.parses THEN SubSeq(held, k + 1, Len(held)) ELSE <<>>]]
  /\ out' = [out EXCEPT ![i] = [o EXCEPT !.sent = (reason # NoReason)]]
  /\ wire' = IF emits THEN <<DeltaChunk(i, delta, found, o.tools, reason)>> ELSE wire

\* An output without a failure.
LEMMA OutputIs ==
  ASSUME NEW i, NEW n, NEW k, NEW reason, Output(i, n, k, reason), failures \in Nat, failures' = failures
  PROVE  /\ wire = <<>> /\ ~out[i].sent /\ ask' = ask /\ work' = work
         /\ \E pieces, held, taken, delta, emits, o, found :
              /\ Reads(i, n, k, reason, pieces, held, taken, delta, emits)
              /\ o = Streamed(Accumulated(out[i], pieces, Ids(n, reason), emits), delta)
              /\ found = IF reason # NoReason THEN reconcile_trapped_content(o) ELSE 0
              /\ WritesOut(i, n, k, reason, held, taken, delta, emits, o, found)
<1> DEFINE last   == reason # NoReason
           pieces == SubSeq(ask.text[i], engine[i].made + 1, engine[i].made + n)
           held   == parsers[i].held \o pieces
           taken  == SubSeq(held, 1, k)
           delta  == IF ask.parses THEN ParseDelta(parsers[i].reasoning, taken)
                     ELSE [NoDelta EXCEPT !.content = n]
           emits  == last \/ ~ask.parses \/ delta # NoDelta
           o      == Streamed(Accumulated(out[i], pieces, Ids(n, reason), emits), delta)
           found  == IF last THEN reconcile_trapped_content(o) ELSE 0
           chunk(c) == [kind |-> "delta", choice |-> i, delta |-> [delta EXCEPT !.content = @ + c],
                        reason |-> IF last THEN finish_reason_for_choice(o.tools, reason) ELSE NoReason]
<1>1. /\ work = "streaming" /\ ~out[i].sent /\ wire = <<>>
      /\ engine' = [engine EXCEPT ![i] = [made |-> @.made + n, tokens |-> @.tokens + Ids(n, reason),
                                          reason |-> reason]]
      /\ parsers' = [parsers EXCEPT ![i] =
           [reasoning |-> @.reasoning /\ ~Contains(taken, "close"),
            held |-> IF ask.parses THEN SubSeq(held, k + 1, Len(held)) ELSE <<>>]]
      /\ out' = [out EXCEPT ![i] = [o EXCEPT !.sent = last]]
      /\ \/ emits /\ Yield(chunk(found)) /\ UNCHANGED failures
         \/ ~emits /\ UNCHANGED <<wire, failures>>
         \/ found > 0 /\ Fails /\ Yield(chunk(0))
      /\ UNCHANGED <<ask, work, upstream>>
  BY Zenon DEF Output
<1>2. chunk(found) = DeltaChunk(i, delta, found, o.tools, reason)
  BY Zenon DEF DeltaChunk
<1>3. Reads(i, n, k, reason, pieces, held, taken, delta, emits)
  BY Zenon DEF Reads
<1> HIDE DEF last, pieces, held, taken, delta, emits, o, found, chunk
<1>4. ~Fails
  BY DEF Fails
<1>5. wire' = IF emits THEN <<chunk(found)>> ELSE wire
  BY <1>1, <1>4 DEF Yield
<1>6. WritesOut(i, n, k, reason, held, taken, delta, emits, o, found)
  BY <1>1, <1>2, <1>5, Zenon DEF WritesOut, last
<1>7. /\ o = Streamed(Accumulated(out[i], pieces, Ids(n, reason), emits), delta)
      /\ found = IF reason # NoReason THEN reconcile_trapped_content(o) ELSE 0
  BY Zenon DEF o, found, last
<1> QED
  BY <1>1, <1>3, <1>6, <1>7, Zenon

\* What is emitted without a parse is content.
LEMMA PlainDelta ==
  ASSUME NEW n \in Nat
  PROVE  [NoDelta EXCEPT !.content = n] = [content |-> n, reasoning |-> 0, calls |-> 0]
BY DEF NoDelta

\* What the client has of a choice after the chunk of an output.
LEMMA ToldAfter ==
  ASSUME NEW i, NEW delta \in Emitted, NEW found, NEW tools, NEW reason, NEW emits,
         wire = <<>>, client' = client,
         wire' = IF emits THEN <<DeltaChunk(i, delta, found, tools, reason)>> ELSE wire
  PROVE  /\ \A j : Told(j) = client.view[j]
         /\ \A j : j # i => Told(j)' = client.view[j]
         /\ ~emits => Told(i)' = client.view[i]
         /\ emits => Told(i)' = Viewed(client.view[i], DeltaChunk(i, delta, found, tools, reason))
<1>1. ~Waits({"delta"}) /\ (~emits => ~Waits({"delta"})')
  BY DEF Waits
<1>2. PICK c : c = DeltaChunk(i, delta, found, tools, reason)
  OBVIOUS
<1>3. c.kind = "delta" /\ c.choice = i
  BY <1>2 DEF DeltaChunk
<1>4. emits => Waits({"delta"})' /\ Waiting' = c
  BY <1>2, <1>3 DEF Waits, Waiting
<1>5. \A j : Told(j) = client.view[j]
  BY <1>1 DEF Told
<1>6. ~emits => \A j : Told(j)' = client.view[j]
  BY <1>1 DEF Told
<1>7. emits => \A j : Told(j)' = IF c.choice = j THEN Viewed(client.view[j], c) ELSE client.view[j]
  BY <1>4 DEF Told
<1> QED
  BY <1>2, <1>3, <1>5, <1>6, <1>7

\* A view x that a chunk made of view v.
ViewedAs(x, v, delta, found, tools, reason) ==
  /\ x.content = v.content + (delta.content + found)
  /\ x.reasoning = v.reasoning + delta.reasoning /\ x.calls = v.calls + delta.calls
  /\ reason = NoReason => x.reasons = v.reasons
  /\ reason # NoReason => x.reasons = Append(v.reasons, finish_reason_for_choice(tools, reason))

\* The client adds what is in a chunk to what it has.
LEMMA ChunkIs ==
  \A delta \in Emitted : \A reason \in {NoReason, "stop", "length"} : \A i, found, tools, v, x :
    x = Viewed(v, DeltaChunk(i, delta, found, tools, reason)) => ViewedAs(x, v, delta, found, tools, reason)
<1> TAKE delta \in Emitted
<1> TAKE reason \in {NoReason, "stop", "length"}
<1> TAKE i, found, tools, v, x
<1> HAVE x = Viewed(v, DeltaChunk(i, delta, found, tools, reason))
<1>1. PICK c : c = DeltaChunk(i, delta, found, tools, reason)
  OBVIOUS
<1>2. PICK e : e = [delta EXCEPT !.content = @ + found]
  OBVIOUS
<1>3. e.content = delta.content + found /\ e.reasoning = delta.reasoning /\ e.calls = delta.calls
  BY <1>2 DEF Emitted
<1>4. /\ c.delta = e
      /\ c.reason = IF reason # NoReason THEN finish_reason_for_choice(tools, reason) ELSE NoReason
  BY <1>1, <1>2 DEF DeltaChunk
<1>5. reason # NoReason => finish_reason_for_choice(tools, reason) # NoReason
  BY DEF finish_reason_for_choice, NoReason
<1>6. Viewed(v, c).content = v.content + c.delta.content /\ Viewed(v, c).reasoning = v.reasoning + c.delta.reasoning
      /\ Viewed(v, c).calls = v.calls + c.delta.calls
      /\ Viewed(v, c).reasons = IF c.reason = NoReason THEN v.reasons ELSE Append(v.reasons, c.reason)
  BY DEF Viewed
<1> QED
  BY <1>1, <1>3, <1>4, <1>5, <1>6 DEF ViewedAs

\* What an output is read as, and what is told of it, for a choice that goes on.
TellsOf(i, n, k, reason, pieces, held, taken, delta, emits, o, found) ==
  /\ Going(i) /\ wire = <<>> /\ client' = client /\ found \in Nat
  /\ Reads(i, n, k, reason, pieces, held, taken, delta, emits)
  /\ WritesOut(i, n, k, reason, held, taken, delta, emits, o, found)
  /\ reason = NoReason => found = 0
  /\ client.view[i].content \in Nat /\ client.view[i].calls \in Nat
  /\ ask.parses => client.view[i].reasoning \in Nat

\* After an output the client has been told what was emitted, or is about to be.
LEMMA OutputTold ==
  \A i \in ChoiceIds : \A reason \in {NoReason, "stop", "length"} : \A delta \in Emitted :
    \A n, k, pieces, held, taken, emits, o, found :
      TellsOf(i, n, k, reason, pieces, held, taken, delta, emits, o, found) =>
        /\ Told(i) = client.view[i]
        /\ Told(i)'.content = (Told(i).content + delta.content) + found
        /\ Told(i)'.calls = Told(i).calls + delta.calls
        /\ ask.parses => Told(i)'.reasoning = Told(i).reasoning + delta.reasoning
        /\ reason = NoReason => Told(i)'.reasons = <<>>
        /\ reason # NoReason => Told(i)'.reasons = <<finish_reason_for_choice(o.tools, reason)>>
<1> TAKE i \in ChoiceIds
<1> TAKE reason \in {NoReason, "stop", "length"}
<1> TAKE delta \in Emitted
<1> TAKE n, k, pieces, held, taken, emits, o, found
<1> HAVE TellsOf(i, n, k, reason, pieces, held, taken, delta, emits, o, found)
<1>0. /\ Going(i) /\ wire = <<>> /\ client' = client /\ found \in Nat
      /\ Reads(i, n, k, reason, pieces, held, taken, delta, emits)
      /\ WritesOut(i, n, k, reason, held, taken, delta, emits, o, found)
      /\ reason = NoReason => found = 0
      /\ client.view[i].content \in Nat /\ client.view[i].calls \in Nat
      /\ ask.parses => client.view[i].reasoning \in Nat
  BY Zenon DEF TellsOf
<1>1. wire' = IF emits THEN <<DeltaChunk(i, delta, found, o.tools, reason)>> ELSE wire
  BY <1>0, Zenon DEF WritesOut
<1>2. /\ Told(i) = client.view[i]
      /\ ~emits => Told(i)' = client.view[i]
      /\ emits => Told(i)' = Viewed(client.view[i], DeltaChunk(i, delta, found, o.tools, reason))
  BY <1>0, <1>1, ToldAfter
<1>3. client.view[i].reasons = <<>>
  BY <1>0, <1>2 DEF Going
<1>4. delta.content \in Nat /\ delta.calls \in Nat /\ delta.reasoning \in Nat
  BY DEF Emitted
<1>5. CASE emits
  <2>1. PICK v, x : /\ v = client.view[i] /\ x = Viewed(v, DeltaChunk(i, delta, found, o.tools, reason))
                    /\ v = Told(i) /\ x = Told(i)'
    BY <1>2, <1>5
  <2>2. /\ x.content = v.content + (delta.content + found)
        /\ x.reasoning = v.reasoning + delta.reasoning /\ x.calls = v.calls + delta.calls
        /\ reason = NoReason => x.reasons = v.reasons
        /\ reason # NoReason => x.reasons = Append(v.reasons, finish_reason_for_choice(o.tools, reason))
    <3>1. PICK tools : tools = o.tools
      OBVIOUS
    <3>2. x = Viewed(v, DeltaChunk(i, delta, found, tools, reason))
      BY <2>1, <3>1, Zenon
    <3>3. ViewedAs(x, v, delta, found, tools, reason)
      BY <3>2, ChunkIs
    <3> QED
      BY <3>1, <3>3, Zenon DEF ViewedAs
  <2>3. \A y : Append(<<>>, y) = <<y>>
    OBVIOUS
  <2>4. v.content + (delta.content + found) = (v.content + delta.content) + found
    BY <1>0, <1>4, <2>1
  <2>5. v.reasons = <<>>
    BY <1>3, <2>1
  <2>6. /\ reason = NoReason => x.reasons = <<>>
        /\ reason # NoReason => x.reasons = <<finish_reason_for_choice(o.tools, reason)>>
    BY <2>2, <2>3, <2>5
  <2> QED
    BY <2>1, <2>2, <2>4, <2>6
<1>6. CASE ~emits
  <2>1. reason = NoReason /\ ask.parses /\ delta = NoDelta
    BY <1>0, <1>6 DEF Reads
  <2>2. delta.content = 0 /\ delta.calls = 0 /\ delta.reasoning = 0
    BY <2>1 DEF NoDelta
  <2>3. PICK v : v = client.view[i] /\ v = Told(i) /\ v = Told(i)'
    BY <1>2, <1>6
  <2>4. v.content = (v.content + delta.content) + found /\ v.calls = v.calls + delta.calls
        /\ v.reasoning = v.reasoning + delta.reasoning
    BY <1>0, <2>1, <2>2, <2>3
  <2> QED
    BY <1>3, <2>1, <2>3, <2>4
<1> QED
  BY <1>5, <1>6

\* What is kept for a choice stays a record.
LEMMA KeptRecord ==
  ASSUME NEW o, NEW pieces, NEW ids, NEW emits, NEW delta, NEW new, NEW sent, NEW last,
         o = [tokens |-> o.tokens, text |-> o.text, sent |-> o.sent, tools |-> o.tools,
              content |-> o.content, reasoning |-> o.reasoning],
         new = Streamed(Accumulated(o, pieces, ids, emits), delta),
         last = [new EXCEPT !.sent = sent]
  PROVE  /\ last.sent = sent /\ last.text = new.text /\ last.tools = new.tools
         /\ last.content = new.content /\ last.reasoning = new.reasoning
<1>1. PICK text : text = (IF o.content THEN o.text ELSE o.text \o pieces)
  OBVIOUS
<1>2. PICK acc : acc = Accumulated(o, pieces, ids, emits)
  OBVIOUS
<1>3. acc = [tokens |-> o.tokens + ids, text |-> text, sent |-> o.sent, tools |-> o.tools,
             content |-> o.content, reasoning |-> o.reasoning]
  BY <1>1, <1>2 DEF Accumulated
<1>4. PICK t, c, r, tools :
        new = [acc EXCEPT !.content = c, !.text = t, !.reasoning = r, !.tools = tools]
  BY <1>2 DEF Streamed
<1>5. new = [tokens |-> o.tokens + ids, text |-> t, sent |-> o.sent,
             tools |-> tools, content |-> c, reasoning |-> r]
  BY <1>3, <1>4
<1>6. last = [tokens |-> o.tokens + ids, text |-> t, sent |-> sent,
              tools |-> tools, content |-> c, reasoning |-> r]
  BY <1>5
<1> QED
  BY <1>5, <1>6

\* An output within the text, and to its end if it is the last.
Within(i, n, k, reason) ==
  /\ engine[i].made + n <= Len(ask.text[i]) /\ k <= Len(parsers[i].held) + n
  /\ reason # NoReason => engine[i].made + n = Len(ask.text[i]) /\ k = Len(parsers[i].held) + n

\* What an output changes of its choice.
Keeps(i, n, k, reason, pieces, held, taken, delta, emits, o, found) ==
  /\ o = Streamed(Accumulated(out[i], pieces, Ids(n, reason), emits), delta)
  /\ WritesOut(i, n, k, reason, held, taken, delta, emits, o, found)
Changes(i, n, k, reason, pieces, held, taken, delta, o) ==
  /\ engine'[i].made = engine[i].made + n /\ engine'[i].reason = reason
  /\ parsers'[i] = [reasoning |-> parsers[i].reasoning /\ ~Contains(taken, "close"),
                    held |-> IF ask.parses THEN SubSeq(held, k + 1, Len(held)) ELSE <<>>]
  /\ out'[i].sent = (reason # NoReason) /\ out'[i].text = o.text /\ out'[i].tools = o.tools
  /\ out'[i].content = o.content /\ out'[i].reasoning = o.reasoning
  /\ Kept(out[i], pieces, delta, o)
  /\ \A j \in ChoiceIds : j # i => engine'[j] = engine[j] /\ parsers'[j] = parsers[j] /\ out'[j] = out[j]

\* What an output writes is a change of its choice alone.
LEMMA WritesChoice ==
  ASSUME TokensKept, parsers = [j \in ChoiceIds |-> parsers[j]]
  PROVE  \A i \in ChoiceIds : \A n, k, reason, pieces, held, taken, delta, emits, o, found :
           Keeps(i, n, k, reason, pieces, held, taken, delta, emits, o, found) =>
             Changes(i, n, k, reason, pieces, held, taken, delta, o)
<1> TAKE i \in ChoiceIds
<1> TAKE n, k, reason, pieces, held, taken, delta, emits, o, found
<1> HAVE Keeps(i, n, k, reason, pieces, held, taken, delta, emits, o, found)
<1>0. /\ o = Streamed(Accumulated(out[i], pieces, Ids(n, reason), emits), delta)
      /\ WritesOut(i, n, k, reason, held, taken, delta, emits, o, found)
  BY DEF Keeps
<1>1. PICK old, last, sent : old = out[i] /\ sent = (reason # NoReason) /\ last = [o EXCEPT !.sent = sent]
  OBVIOUS
<1>2. old = [tokens |-> old.tokens, text |-> old.text, sent |-> old.sent, tools |-> old.tools,
             content |-> old.content, reasoning |-> old.reasoning]
  BY <1>1 DEF TokensKept
<1>3. o = Streamed(Accumulated(old, pieces, Ids(n, reason), emits), delta)
  BY <1>0, <1>1
<1>4. /\ last.sent = sent /\ last.text = o.text /\ last.tools = o.tools
      /\ last.content = o.content /\ last.reasoning = o.reasoning
  BY <1>1, <1>2, <1>3, KeptRecord
<1>5. Kept(old, pieces, delta, o)
  BY <1>2, <1>3, KeptAfter
<1>6. out' = [out EXCEPT ![i] = last]
  BY <1>0, <1>1 DEF WritesOut
<1>7. out'[i] = last /\ \A j \in ChoiceIds : j # i => out'[j] = out[j]
  BY <1>6 DEF TokensKept
<1>8. /\ engine'[i].made = engine[i].made + n /\ engine'[i].reason = reason
      /\ \A j \in ChoiceIds : j # i => engine'[j] = engine[j]
  BY <1>0 DEF WritesOut, TokensKept
<1>9. /\ parsers'[i] = [reasoning |-> parsers[i].reasoning /\ ~Contains(taken, "close"),
                        held |-> IF ask.parses THEN SubSeq(held, k + 1, Len(held)) ELSE <<>>]
      /\ \A j \in ChoiceIds : j # i => parsers'[j] = parsers[j]
  BY <1>0 DEF WritesOut
<1> QED
  BY <1>1, <1>4, <1>5, <1>7, <1>8, <1>9 DEF Changes

\* An output of a choice whose text is parsed, and the parser that goes on from it.
ParsesOn(i, n, k, reason, v, d, pieces, held, taken, delta, emits, o, w, q) ==
  /\ ask.parses /\ engine[i].made \in Nat /\ Within(i, n, k, reason)
  /\ ParsedTo(d, ask.text[i], ask.thinks, engine[i].made, parsers[i], out[i], v)
  /\ Reads(i, n, k, reason, pieces, held, taken, delta, emits)
  /\ q = [reasoning |-> parsers[i].reasoning /\ ~Contains(taken, "close"),
          held |-> SubSeq(held, k + 1, Len(held))]
  /\ Kept(out[i], pieces, delta, o) /\ Shows(v, delta, w)

\* The parser has then emitted a longer prefix, to the end with the last output.
LEMMA ParsedOutput ==
  ASSUME UsageTypes
  PROVE  \A i \in ChoiceIds : \A n, k \in Nat : \A reason, v, d, pieces, held, taken, delta, emits, o, w, q :
           ParsesOn(i, n, k, reason, v, d, pieces, held, taken, delta, emits, o, w, q) =>
             /\ delta \in Emitted /\ v.content \in Nat /\ v.calls \in Nat /\ v.reasoning \in Nat
             /\ ParsedTo(d + k, ask.text[i], ask.thinks, engine[i].made + n, q, o, w)
             /\ reason # NoReason => d + k = Len(ask.text[i])
<1> TAKE i \in ChoiceIds
<1> TAKE n, k \in Nat
<1> TAKE reason, v, d, pieces, held, taken, delta, emits, o, w, q
<1> HAVE ParsesOn(i, n, k, reason, v, d, pieces, held, taken, delta, emits, o, w, q)
<1>0. /\ ask.parses /\ engine[i].made \in Nat /\ Within(i, n, k, reason)
      /\ ParsedTo(d, ask.text[i], ask.thinks, engine[i].made, parsers[i], out[i], v)
      /\ Reads(i, n, k, reason, pieces, held, taken, delta, emits)
      /\ q = [reasoning |-> parsers[i].reasoning /\ ~Contains(taken, "close"),
              held |-> SubSeq(held, k + 1, Len(held))]
      /\ Kept(out[i], pieces, delta, o) /\ Shows(v, delta, w)
  BY Zenon DEF ParsesOn
<1> DEFINE thinks == ask.thinks
           T == ask.text[i]
           made == engine[i].made
           p == parsers[i]
<1>1. T \in Seq(Pieces) /\ thinks \in BOOLEAN
  BY TextType
<1>2. d \in Nat /\ d <= made /\ p.held = SubSeq(T, d + 1, made)
      /\ p.reasoning = (thinks /\ ~Contains(SubSeq(T, 1, d), "close"))
      /\ [content |-> v.content, reasoning |-> v.reasoning, calls |-> v.calls]
           = ParseDelta(thinks, SubSeq(T, 1, d))
  BY <1>0 DEF ParsedTo
<1>3. made + n <= Len(T) /\ Len(T) \in Nat /\ k <= Len(p.held) + n
  BY <1>0, <1>1, LenProperties DEF Within
<1>4. delta = ParseDelta(p.reasoning, taken) /\ OneOutput(T, made, n, k, p, pieces, held, taken, q)
  BY <1>0 DEF Reads, OneOutput
<1>5. reason # NoReason => made + n = Len(T) /\ k = Len(p.held) + n
  BY <1>0 DEF Within
<1>11. ParsedTo(d, T, thinks, made, p, out[i], v) /\ made \in Nat
  BY <1>0
<1> HIDE DEF thinks, T, made, p
<1>6. d + k <= made + n /\ (reason # NoReason => d + k = Len(T))
  <2>1. made <= Len(T)
    BY <1>3, <1>11
  <2>2. Len(SubSeq(T, d + 1, made)) = made - d
    BY <1>1, <1>2, <1>11, <2>1, Slice
  <2>3. PICK l : l = Len(p.held) /\ l = made - d
    BY <1>2, <2>2
  <2>4. PICK m \in Nat : m = Len(T)
    BY <1>3
  <2> QED
    BY <1>2, <1>3, <1>5, <1>11, <2>3, <2>4
<1>8. taken \in Seq(Pieces) /\ SubSeq(T, 1, d) \in Seq(Pieces)
  <2>1. InPlace(T, made, n, k, d, pieces, taken, q)
    BY <1>1, <1>2, <1>3, <1>4, <1>6, <1>11, PlacesMove
  <2> QED
    BY <2>1 DEF InPlace
<1>9. delta \in Emitted /\ ParseDelta(thinks, SubSeq(T, 1, d)) \in Emitted
  <2>1. PICK r \in BOOLEAN : r = p.reasoning
    BY <1>2
  <2> QED
    BY <1>1, <1>4, <1>8, <2>1, DeltaType
<1>10. v.content \in Nat /\ v.calls \in Nat /\ v.reasoning \in Nat
  BY <1>2, <1>9 DEF Emitted
<1>12. ParsedTo(d + k, T, thinks, made + n, q, o, w)
  BY <1>0, <1>1, <1>3, <1>4, <1>6, <1>11, ParsedOn
<1> QED
  BY <1>6, <1>9, <1>10, <1>12 DEF T, thinks, made

\* What was told says the same whoever holds it.
LEMMA ParsedAs ==
  \A d, T, thinks, made, q, o, w, new, x :
    /\ ParsedTo(d, T, thinks, made, q, o, w)
    /\ x.content = w.content /\ x.reasoning = w.reasoning /\ x.calls = w.calls
    /\ new.content = o.content /\ new.reasoning = o.reasoning /\ new.tools = o.tools /\ new.text = o.text
    => ParsedTo(d, T, thinks, made, q, new, x)
BY DEF ParsedTo

\* The reasoning of a choice never closed, and there is a tool call in it.
LostCall(i) == ask.parses /\ ask.thinks /\ Contains(ask.text[i], "call") /\ ~Contains(ask.text[i], "close")

\* What a parse of the whole text says.
Whole(i) == IF ask.parses THEN Parse(ask.thinks, ask.text[i]) ELSE [NoDelta EXCEPT !.content = Len(ask.text[i])]

\* The reason told is that of the answer that is not streamed.
LEMMA ReasonAgrees ==
  ASSUME NEW tools, NEW n, NEW reason, tools <=> n > 0
  PROVE  finish_reason_for_choice(tools, reason) = finish_reason_for_choice(n > 0, reason)
BY DEF finish_reason_for_choice

\* A choice is settled once it has its content, its calls and one reason.
LEMMA AgreedNext ==
  ASSUME NEW i \in ChoiceIds, ask' = ask, NEW reason, engine'[i].reason = reason,
         NEW x, x = Told(i)', NEW p, p = Whole(i), NEW tools, x.content = p.content,
         x.reasons = <<finish_reason_for_choice(tools, reason)>>,
         ~LostCall(i) => x.calls = p.calls /\ (tools <=> p.calls > 0)
  PROVE  Agreed(i)'
<1>1. PICK final : final = (FinalOutput(engine[i].reason).choices[i])'
  OBVIOUS
<1>2. /\ final.content = p.content /\ final.calls = p.calls
      /\ final.reason = finish_reason_for_choice(p.calls > 0, reason)
  BY <1>1 DEF FinalOutput, Whole, finish_reason_for_choice
<1>3. Len(x.reasons) = 1 /\ Last(x.reasons) = finish_reason_for_choice(tools, reason)
  BY DEF Last
<1>4. ~LostCall(i) => x.calls = final.calls /\ Last(x.reasons) = final.reason
  BY <1>2, <1>3, ReasonAgrees
<1>5. LostCall(i)' = LostCall(i)
  BY DEF LostCall
<1> QED
  BY <1>1, <1>2, <1>3, <1>4, <1>5 DEF Agreed, LostCall

\* A choice whose text is parsed goes on, or is settled by its last output.
LEMMA ParsedChoice ==
  ASSUME UsageTypes, NEW i \in ChoiceIds, NEW n \in Nat, NEW k \in Nat,
         NEW reason \in {NoReason, "stop", "length"}, ask.parses, engine[i].made \in Nat,
         Within(i, n, k, reason), Going(i), wire = <<>>, client' = client, ask' = ask,
         NEW pieces, NEW held, NEW taken, NEW delta, NEW emits, NEW o, NEW found,
         Reads(i, n, k, reason, pieces, held, taken, delta, emits),
         WritesOut(i, n, k, reason, held, taken, delta, emits, o, found),
         found = IF reason # NoReason THEN reconcile_trapped_content(o) ELSE 0,
         engine'[i].made = engine[i].made + n, engine'[i].reason = reason,
         parsers'[i] = [reasoning |-> parsers[i].reasoning /\ ~Contains(taken, "close"),
                        held |-> SubSeq(held, k + 1, Len(held))],
         out'[i].text = o.text, out'[i].tools = o.tools, out'[i].content = o.content,
         out'[i].reasoning = o.reasoning, Kept(out[i], pieces, delta, o)
  PROVE  /\ reason = NoReason => Going(i)'
         /\ reason # NoReason => Agreed(i)'
<1> DEFINE T == ask.text[i]
           thinks == ask.thinks
           made == engine[i].made
<1>1. Told(i) = client.view[i]
  BY DEF Told, Waits
<1>2. PICK v : v = client.view[i] /\ v = Told(i)
  BY <1>1
<1>3. PICK d : ParsedTo(d, T, thinks, made, parsers[i], out[i], v)
  BY <1>2 DEF Going
<1>4. PICK w, q : /\ w = [content |-> v.content + delta.content, reasoning |-> v.reasoning + delta.reasoning,
                          calls |-> v.calls + delta.calls]
                  /\ q = parsers'[i]
  OBVIOUS
<1>5. Shows(v, delta, w)
  BY <1>4 DEF Shows
<1>6. /\ delta \in Emitted /\ v.content \in Nat /\ v.calls \in Nat /\ v.reasoning \in Nat
      /\ ParsedTo(d + k, T, thinks, made + n, q, o, w)
      /\ reason # NoReason => d + k = Len(T)
  <2>1. ParsesOn(i, n, k, reason, v, d, pieces, held, taken, delta, emits, o, w, q)
    BY <1>3, <1>4, <1>5, Zenon DEF ParsesOn
  <2> QED
    BY <2>1, ParsedOutput
<1>7. T \in Seq(Pieces) /\ thinks \in BOOLEAN
  BY TextType
<1>8. reason # NoReason => made + n = Len(T)
  BY DEF Within
<1>9. reason # NoReason =>
        /\ found \in Nat /\ w.content + found = Parse(thinks, T).content
        /\ ~LostCall(i) => w.calls = Parse(thinks, T).calls /\ (o.tools <=> Parse(thinks, T).calls > 0)
  <2> SUFFICES ASSUME reason # NoReason
               PROVE  /\ found \in Nat /\ w.content + found = Parse(thinks, T).content
                      /\ ~LostCall(i) => w.calls = Parse(thinks, T).calls /\ (o.tools <=> Parse(thinks, T).calls > 0)
    OBVIOUS
  <2>1. ParsedTo(Len(T), T, thinks, Len(T), q, o, w)
    BY <1>6, <1>8
  <2>2. found = IF o.reasoning /\ ~o.content /\ ~o.tools THEN Parse(thinks, o.text).content ELSE 0
    BY DEF reconcile_trapped_content, MayBeTrapped
  <2>3. /\ found \in Nat /\ w.content + found = Parse(thinks, T).content
        /\ ~(thinks /\ Contains(T, "call") /\ ~Contains(T, "close")) =>
             w.calls = Parse(thinks, T).calls /\ (o.tools <=> Parse(thinks, T).calls > 0)
    <3> HIDE DEF T, thinks
    <3> QED
      BY <1>7, <2>1, <2>2, EndsAsParsed
  <2> QED
    BY <2>3 DEF LostCall
<1>10. found \in Nat /\ (reason = NoReason => found = 0)
  BY <1>9
<1>11. PICK x : x = Told(i)'
  OBVIOUS
<1>12. /\ x.content = (v.content + delta.content) + found /\ x.calls = v.calls + delta.calls
       /\ x.reasoning = v.reasoning + delta.reasoning
       /\ reason = NoReason => x.reasons = <<>>
       /\ reason # NoReason => x.reasons = <<finish_reason_for_choice(o.tools, reason)>>
  <2>1. TellsOf(i, n, k, reason, pieces, held, taken, delta, emits, o, found)
    BY <1>2, <1>6, <1>10, Zenon DEF TellsOf
  <2> QED
    BY <1>2, <1>6, <1>11, <2>1, OutputTold
<1>13. /\ x.content = w.content + found /\ x.calls = w.calls /\ x.reasoning = w.reasoning
       /\ w.content \in Nat
  <2>1. delta.content \in Nat
    BY <1>6 DEF Emitted
  <2>2. w.content = v.content + delta.content /\ w.calls = v.calls + delta.calls
        /\ w.reasoning = v.reasoning + delta.reasoning
    BY <1>4
  <2>3. v.content + delta.content \in Nat
    BY <1>6, <2>1
  <2> QED
    BY <1>12, <2>2, <2>3, Zenon
<1>14. ASSUME reason = NoReason PROVE Going(i)'
  <2>1. x.content = w.content
    BY <1>10, <1>13, <1>14
  <2>2. PICK new : new = out'[i]
    OBVIOUS
  <2>3. ParsedTo(d + k, T, thinks, made + n, q, new, x)
    BY <1>6, <1>13, <2>1, <2>2, ParsedAs, Zenon
  <2>4. \E e : ParsedTo(e, T, thinks, engine'[i].made, parsers'[i], out'[i], x)
    BY <1>4, <2>2, <2>3
  <2> QED
    BY <1>11, <1>12, <1>14, <2>4 DEF Going
<1>15. ASSUME reason # NoReason PROVE Agreed(i)'
  <2>1. PICK p, tools : p = Whole(i) /\ tools = o.tools
    OBVIOUS
  <2>2. p = Parse(thinks, T)
    BY <2>1 DEF Whole
  <2>3. x.content = p.content /\ (~LostCall(i) => x.calls = p.calls /\ (tools <=> p.calls > 0))
    BY <1>9, <1>13, <1>15, <2>1, <2>2
  <2>4. x.reasons = <<finish_reason_for_choice(tools, reason)>>
    BY <1>12, <1>15, <2>1
  <2> QED
    BY <1>11, <2>1, <2>3, <2>4, AgreedNext
<1> QED
  BY <1>14, <1>15

\* So is one whose text is passed on.
LEMMA PlainChoice ==
  ASSUME UsageTypes, NEW i \in ChoiceIds, NEW n \in Nat, NEW k \in Nat,
         NEW reason \in {NoReason, "stop", "length"}, ~ask.parses, engine[i].made \in Nat,
         Within(i, n, k, reason), Going(i), wire = <<>>, client' = client, ask' = ask,
         NEW pieces, NEW held, NEW taken, NEW delta, NEW emits, NEW o, NEW found,
         Reads(i, n, k, reason, pieces, held, taken, delta, emits),
         WritesOut(i, n, k, reason, held, taken, delta, emits, o, found),
         found = IF reason # NoReason THEN reconcile_trapped_content(o) ELSE 0,
         engine'[i].made = engine[i].made + n, engine'[i].reason = reason,
         out'[i].tools = o.tools, Kept(out[i], pieces, delta, o)
  PROVE  /\ reason = NoReason => Going(i)'
         /\ reason # NoReason => Agreed(i)'
<1>1. PICK v : v = client.view[i] /\ v = Told(i)
  BY DEF Told, Waits
<1>2. v.content = engine[i].made /\ v.calls = 0 /\ ~out[i].tools
  BY <1>1 DEF Going, Plain
<1>3. delta = [content |-> n, reasoning |-> 0, calls |-> 0]
  BY PlainDelta DEF Reads
<1>4. delta \in Emitted /\ delta.content = n /\ delta.calls = 0
  BY <1>3 DEF Emitted
<1>5. found = 0 /\ ~o.tools
  BY <1>2, <1>4 DEF reconcile_trapped_content, MayBeTrapped, Kept
<1>6. PICK x : x = Told(i)'
  OBVIOUS
<1>7. /\ x.content = (v.content + delta.content) + found /\ x.calls = v.calls + delta.calls
      /\ reason = NoReason => x.reasons = <<>>
      /\ reason # NoReason => x.reasons = <<finish_reason_for_choice(o.tools, reason)>>
  <2>0. found \in Nat /\ v.calls \in Nat /\ v.content \in Nat
    BY <1>2, <1>5
  <2>1. TellsOf(i, n, k, reason, pieces, held, taken, delta, emits, o, found)
    BY <1>1, <1>5, <2>0, Zenon DEF TellsOf
  <2> QED
    BY <1>1, <1>4, <1>6, <2>1, OutputTold
<1>8. x.content = engine[i].made + n /\ x.calls = 0
  BY <1>2, <1>4, <1>5, <1>7
<1>9. ASSUME reason = NoReason PROVE Going(i)'
  <2>1. Plain(engine'[i].made, out'[i], x)
    BY <1>5, <1>8 DEF Plain
  <2> QED
    BY <1>6, <1>7, <1>9, <2>1 DEF Going
<1>10. ASSUME reason # NoReason PROVE Agreed(i)'
  <2>1. PICK p, tools : p = Whole(i) /\ tools = o.tools
    OBVIOUS
  <2>2. p.content = Len(ask.text[i]) /\ p.calls = 0
    BY <2>1 DEF Whole, NoDelta
  <2>3. x.content = p.content /\ x.calls = p.calls /\ (tools <=> p.calls > 0)
    BY <1>5, <1>8, <1>10, <2>1, <2>2 DEF Within
  <2>4. x.reasons = <<finish_reason_for_choice(tools, reason)>>
    BY <1>7, <1>10, <2>1
  <2> QED
    BY <1>6, <2>1, <2>3, <2>4, AgreedNext
<1> QED
  BY <1>9, <1>10

\* An output of the engine, for its choice and for the others.
LEMMA OutputChoice ==
  ASSUME UsageTypes, TokensKept, parsers = [j \in ChoiceIds |-> parsers[j]], \A j \in ChoiceIds : ChoiceInv(j),
         NEW i \in ChoiceIds, NEW n \in Nat, NEW k \in Nat, NEW reason \in {NoReason, "stop", "length"},
         Within(i, n, k, reason), Output(i, n, k, reason), failures' = failures, client' = client
  PROVE  /\ \A j \in ChoiceIds : ChoiceInv(j)'
         /\ ~Waits({"relay"})'
<1>1. failures \in Nat
  BY DEF UsageTypes
<1>2. PICK pieces, held, taken, delta, emits, o, found :
        /\ wire = <<>> /\ ~out[i].sent /\ ask' = ask /\ work' = work
        /\ Reads(i, n, k, reason, pieces, held, taken, delta, emits)
        /\ o = Streamed(Accumulated(out[i], pieces, Ids(n, reason), emits), delta)
        /\ found = IF reason # NoReason THEN reconcile_trapped_content(o) ELSE 0
        /\ WritesOut(i, n, k, reason, held, taken, delta, emits, o, found)
  BY <1>1, OutputIs, ZenonT(30)
<1>3. /\ engine'[i].made = engine[i].made + n /\ engine'[i].reason = reason
      /\ parsers'[i] = [reasoning |-> parsers[i].reasoning /\ ~Contains(taken, "close"),
                        held |-> IF ask.parses THEN SubSeq(held, k + 1, Len(held)) ELSE <<>>]
      /\ out'[i].sent = (reason # NoReason) /\ out'[i].text = o.text /\ out'[i].tools = o.tools
      /\ out'[i].content = o.content /\ out'[i].reasoning = o.reasoning
      /\ Kept(out[i], pieces, delta, o)
      /\ \A j \in ChoiceIds : j # i => engine'[j] = engine[j] /\ parsers'[j] = parsers[j] /\ out'[j] = out[j]
  <2>1. Keeps(i, n, k, reason, pieces, held, taken, delta, emits, o, found)
    BY <1>2 DEF Keeps
  <2>2. Changes(i, n, k, reason, pieces, held, taken, delta, o)
    BY <2>1, WritesChoice
  <2> QED
    BY <2>2 DEF Changes
<1>4. Going(i) /\ engine[i].made \in 0..Len(ask.text[i])
  BY <1>2 DEF ChoiceInv
<1>5. engine[i].made \in Nat /\ engine'[i].made \in 0..Len(ask.text[i])
  <2>1. PICK m, l : m = engine[i].made /\ l = Len(ask.text[i]) /\ engine'[i].made = m + n /\ m \in 0..l /\ m + n <= l
    BY <1>3, <1>4 DEF Within
  <2>2. l \in Nat
    BY <2>1, TextType, LenProperties
  <2> QED
    BY <2>1, <2>2
<1>6. /\ reason = NoReason => Going(i)'
      /\ reason # NoReason => Agreed(i)'
  <2>1. CASE ask.parses
    <3>1. parsers'[i] = [reasoning |-> parsers[i].reasoning /\ ~Contains(taken, "close"),
                         held |-> SubSeq(held, k + 1, Len(held))]
      BY <1>3, <2>1
    <3> QED
      BY <1>2, <1>3, <1>4, <1>5, <2>1, <3>1, ParsedChoice, ZenonT(40)
  <2>2. CASE ~ask.parses
    BY <1>2, <1>3, <1>4, <1>5, <2>2, PlainChoice
  <2> QED
    BY <2>1, <2>2
<1>7. ChoiceInv(i)'
  BY <1>2, <1>3, <1>5, <1>6 DEF ChoiceInv
<1>8. PICK c : c = DeltaChunk(i, delta, found, o.tools, reason)
  OBVIOUS
<1>9. wire' = <<>> \/ wire' = <<c>>
  BY <1>2, <1>8 DEF WritesOut
<1>10. c.kind = "delta" /\ c.choice = i
  BY <1>8 DEF DeltaChunk
<1>11. ~Waits({"relay"})' /\ \A j : j # i => Told(j)' = Told(j)
  BY <1>2, <1>9, <1>10 DEF Waits, Waiting, Told
<1>12. ASSUME NEW j \in ChoiceIds, j # i PROVE ChoiceInv(j)'
  <2>1. engine'[j] = engine[j] /\ parsers'[j] = parsers[j] /\ out'[j] = out[j] /\ Told(j)' = Told(j) /\ ask' = ask
    BY <1>2, <1>3, <1>11, <1>12
  <2>2. ChoiceInv(j)
    OBVIOUS
  <2>3. Going(j)' <=> Going(j)
    BY <2>1 DEF Going
  <2>4. Agreed(j)' <=> Agreed(j)
    BY <2>1 DEF Agreed, FinalOutput, finish_reason_for_choice
  <2> QED
    BY <2>1, <2>2, <2>3, <2>4 DEF ChoiceInv
<1> QED
  BY <1>7, <1>11, <1>12

\* What holds of a choice depends on what is kept of it and what was told.
LEMMA TextKept ==
  ASSUME TextInv, UNCHANGED <<ask, engine, parsers, out>>, Unstreamed',
         ChatGoes' => ChatGoes /\ ClosesLate' /\ \A i \in ChoiceIds : Told(i)' = Told(i)
  PROVE  TextInv'
<1>1. ASSUME ChatGoes', NEW i \in ChoiceIds PROVE ChoiceInv(i)'
  <2>1. Told(i)' = Told(i) /\ ask' = ask /\ engine' = engine /\ parsers' = parsers /\ out' = out /\ ChoiceInv(i)
    BY <1>1 DEF TextInv
  <2>2. Going(i)' <=> Going(i)
    BY <2>1 DEF Going
  <2>3. Agreed(i)' <=> Agreed(i)
    BY <2>1 DEF Agreed, FinalOutput, finish_reason_for_choice
  <2> QED
    BY <2>1, <2>2, <2>3 DEF ChoiceInv
<1>2. parsers' = [i \in ChoiceIds |-> parsers'[i]]
  BY DEF TextInv
<1> QED
  BY <1>1, <1>2 DEF TextInv

\* Where the generator of a chat completion that is not streamed may be.
AtRest == {"idle", "called", "blocking", "ended", "raised", "raised_value"}

\* What the steps of the replica do, but for the outputs of vLLM's engine.
TextSteps ==
  /\ UNCHANGED <<ask, engine, parsers, out>> /\ (failures' = failures \/ failures' = failures + 1)
  /\ \/ wire' = wire
     \/ \E c : /\ Yield(c) /\ c.kind # "delta"
               /\ c.kind = "relay" => ask.loader # "vllm" \/ ask.op # "chat"
               /\ c.kind = "done" => work \in {"closing", "segments"}
  /\ work' \in {"closing", "ended"} =>
       \/ work \in {"closing", "ended"} \/ failures' = failures + 1
       \/ ~ask.stream \/ ask.loader # "vllm" \/ ask.op # "chat"
       \/ work = "streaming" /\ \A i \in ChoiceIds : engine[i].reason # NoReason
  /\ ask.op = "chat" /\ ~ask.stream /\ work \in AtRest => work' \in AtRest

\* The replica's steps, as far as the text goes.
LEMMA TextEffect ==
  ASSUME WireFits, ChatNext
  PROVE  TextSteps \/ Outputs
<1> USE DEF TextSteps, WireFits, AtRest, Fails
<1>1. CASE Prepares
  BY <1>1 DEF Prepares, Moves, Refusal
<1>2. CASE FailsInStream \/ Closes \/ ReplicaDies
  BY <1>2 DEF FailsInStream, Closes, ReplicaDies, Moves
<1>3. CASE GeneratesAll
  <2>1. \A reason : FinalOutput(reason).kind = "object"
    BY DEF FinalOutput
  <2>2. Refusal(400).kind = "refusal"
    BY DEF Refusal
  <2>3. /\ UNCHANGED <<ask, engine, parsers, out>> /\ work = "blocking" /\ work' \in {"ended", "raised"}
        /\ failures' = failures \/ failures' = failures + 1
        /\ wire' = wire \/ (\E reason : Yield(FinalOutput(reason))) \/ Yield(Refusal(400))
    BY <1>3 DEF GeneratesAll, Moves
  <2> QED
    BY <2>1, <2>2, <2>3
<1>4. CASE Opens
  BY <1>4 DEF Opens, Moves
<1>5. CASE Finishes
  BY <1>5 DEF Finishes
<1>6. CASE post_chat
  BY <1>6 DEF post_chat, Refusal
<1>7. CASE Relays
  BY <1>7 DEF Relays
<1>8. CASE RelaysUsage
  BY <1>8 DEF RelaysUsage
<1>9. CASE StreamConnects \/ SkipsLine \/ ReadsDone \/ StreamEnds
  BY <1>9 DEF StreamConnects, SkipsLine, ReadsDone, StreamEnds, Moves
<1>10. CASE StartsSegments
  BY <1>10 DEF StartsSegments, Moves, Refusal
<1>11. CASE EmitsSegment
  BY <1>11 DEF EmitsSegment
<1>12. CASE SegmentsEnd \/ SegmentsFail
  BY <1>12 DEF SegmentsEnd, SegmentsFail, Moves
<1>13. CASE \E op, codes : Answers(op, codes) /\ op # "chat"
  <2>1. PICK op, codes : Answers(op, codes) /\ op # "chat"
    BY <1>13
  <2>2. ask.op # "chat" /\ UNCHANGED <<ask, engine, parsers, out>>
    BY <2>1 DEF Answers
  <2>3. \A code : Refusal(code).kind = "refusal"
    BY DEF Refusal
  <2>4. /\ failures' = failures \/ failures' = failures + 1
        /\ wire' = wire \/ Yield([kind |-> "object"]) \/ \E code : Yield(Refusal(code))
    BY <2>1 DEF Answers
  <2>5. wire' = wire \/ \E c : Yield(c) /\ c.kind \in {"object", "refusal"}
    BY <2>3, <2>4
  <2> QED
    BY <2>2, <2>4, <2>5
<1>14. CASE Responds \/ Embeds \/ Transcribes \/ Translates \/ Speaks \/ DrawsImage \/ EditsImage \/ VariesImage
  BY <1>13, <1>14 DEF Responds, Embeds, Transcribes, Translates, Speaks, DrawsImage, EditsImage, VariesImage
<1> QED
  BY <1>1, <1>2, <1>3, <1>4, <1>5, <1>6, <1>7, <1>8, <1>9, <1>10, <1>11, <1>12, <1>14 DEF ChatNext

\* The replica's steps keep the text.
LEMMA ReplicaText ==
  ASSUME WireFits, UsageTypes, TokensKept, TextInv, ChatNext, client' = client
  PROVE  TextInv'
<1>0. failures \in Nat /\ parsers = [j \in ChoiceIds |-> parsers[j]] /\ Unstreamed
  BY DEF UsageTypes, TextInv
<1>1. CASE Outputs
  <2>1. PICK i, n, reason, k :
          /\ i \in ChoiceIds /\ n \in 0..(Len(ask.text[i]) - engine[i].made) /\ reason \in {NoReason, "stop", "length"}
          /\ k \in 0..(Len(parsers[i].held) + n)
          /\ reason # NoReason => n = Len(ask.text[i]) - engine[i].made /\ k = Len(parsers[i].held) + n
          /\ Output(i, n, k, reason)
    BY <1>1, Zenon DEF Outputs
  <2>2. /\ ask' = ask /\ work' = work /\ work = "streaming" /\ (failures' = failures \/ failures' = failures + 1)
        /\ \E q : parsers' = [parsers EXCEPT ![i] = q]
    BY <2>1 DEF Output, Fails
  <2>3. parsers' = [j \in ChoiceIds |-> parsers'[j]]
    BY <1>0, <2>2
  <2>4. Unstreamed'
    BY <1>0, <2>2 DEF Unstreamed
  <2>5. ASSUME ChatGoes' PROVE ClosesLate' /\ \A j \in ChoiceIds : ChoiceInv(j)'
    <3>1. failures' = failures /\ ChatGoes
      BY <1>0, <2>2, <2>5 DEF ChatGoes
    <3>2. \A j \in ChoiceIds : ChoiceInv(j)
      BY <3>1 DEF TextInv
    <3>3. n \in Nat /\ k \in Nat /\ Within(i, n, k, reason)
      <4>1. engine[i].made \in 0..Len(ask.text[i])
        BY <2>1, <3>2 DEF ChoiceInv
      <4>2. Len(ask.text[i]) \in Nat
        BY <2>1, TextType, LenProperties
      <4>3. PICK m, l, h : m = engine[i].made /\ l = Len(ask.text[i]) /\ h = Len(parsers[i].held)
        OBVIOUS
      <4>4. /\ m \in 0..l /\ l \in Nat /\ n \in 0..(l - m) /\ k \in 0..(h + n)
            /\ reason # NoReason => n = l - m /\ k = h + n
        BY <2>1, <4>1, <4>2, <4>3
      <4>5. n \in Nat /\ k \in Nat /\ m + n <= l /\ k <= h + n /\ (reason # NoReason => m + n = l /\ k = h + n)
        BY <4>4
      <4> QED
        BY <4>3, <4>5 DEF Within
    <3>4. (\A j \in ChoiceIds : ChoiceInv(j)') /\ ~Waits({"relay"})'
      BY <1>0, <2>1, <3>1, <3>2, <3>3, OutputChoice
    <3> QED
      BY <2>2, <3>4 DEF ClosesLate
  <2> QED
    BY <2>3, <2>4, <2>5 DEF TextInv
<1>2. CASE TextSteps
  <2>1. UNCHANGED <<ask, engine, parsers, out>> /\ (failures' = failures \/ failures' = failures + 1)
    BY <1>2 DEF TextSteps
  <2>2. \/ wire' = wire
        \/ \E c : /\ wire = <<>> /\ wire' = <<c>> /\ c.kind # "delta"
                  /\ c.kind = "relay" => ask.loader # "vllm" \/ ask.op # "chat"
                  /\ c.kind = "done" => work \in {"closing", "segments"}
    BY <1>2, Yields DEF TextSteps
  <2>3. \A i : Told(i)' = Told(i)
    BY <2>2 DEF Told, Waits, Waiting
  <2>4. Unstreamed'
    <3> SUFFICES ASSUME ask.op = "chat", ~ask.stream
                 PROVE  work' \in AtRest /\ ~Waits({"done"})' /\ ~(client.done /\ client.errors = 0)
      BY <2>1 DEF Unstreamed, AtRest
    <3>1. work \in AtRest /\ ~Waits({"done"}) /\ ~(client.done /\ client.errors = 0)
      BY <1>0 DEF Unstreamed, AtRest
    <3>2. work' \in AtRest
      BY <1>2, <3>1 DEF TextSteps
    <3>3. ~Waits({"done"})'
      BY <2>2, <3>1 DEF Waits, Waiting, AtRest
    <3> QED
      BY <3>1, <3>2, <3>3
  <2>5. ASSUME ChatGoes' PROVE ChatGoes /\ ClosesLate'
    <3>1. failures' = failures /\ failures' # failures + 1 /\ ChatGoes
      BY <1>0, <2>1, <2>5 DEF ChatGoes
    <3>2. ClosesLate /\ \A i \in ChoiceIds : out[i].sent = (engine[i].reason # NoReason)
      BY <3>1 DEF TextInv, ChoiceInv
    <3>3. ~Waits({"relay"})'
      BY <2>2, <3>1, <3>2 DEF Waits, Waiting, ClosesLate, ChatGoes
    <3>4. ask.stream /\ work' \in {"closing", "ended"} => \A i \in ChoiceIds : out[i].sent
      BY <1>2, <3>1, <3>2 DEF TextSteps, ChatGoes, ClosesLate
    <3> QED
      BY <2>1, <3>1, <3>3, <3>4 DEF ClosesLate
  <2> QED
    BY <2>1, <2>3, <2>4, <2>5, TextKept
<1> QED
  BY <1>1, <1>2, TextEffect

\* The handler's steps that tell the client no text.
LEMMA HandlerText ==
  ASSUME TextInv, UNCHANGED <<ask, engine, parsers, out, failures>>, client'.view = client.view,
         wire' = wire \/ (wire' = <<>> /\ ~Waits({"delta"})), work' = work \/ work' = "called",
         client'.done /\ client'.errors = 0 => client.done /\ client.errors = 0
  PROVE  TextInv'
<1>1. \A i : Told(i)' = Told(i)
  BY DEF Told, Waits, Waiting
<1>2. Unstreamed'
  BY DEF TextInv, Unstreamed, Waits, Waiting
<1>3. ChatGoes' => ChatGoes /\ ClosesLate'
  BY DEF ChatGoes, ClosesLate, TextInv, Waits, Waiting
<1> QED
  BY <1>1, <1>2, <1>3, TextKept

\* A chunk that is passed on has been told.
LEMMA PassedText ==
  ASSUME OutcomeInv, UsageInv, TextInv, Passes
  PROVE  TextInv'
<1>1. /\ wire # <<>> /\ wire = <<Waiting>> /\ Head(wire) = Waiting /\ wire' = <<>>
      /\ UNCHANGED <<ask, work, engine, parsers, out, failures>>
  BY DEF Passes, OutcomeInv, WireFits
<1>2. client' = Relayed(client, Waiting) /\ GateType /\ UsageTypes
  BY <1>1 DEF Passes, OutcomeInv, UsageInv
<1>3. /\ client'.errors = (IF Waiting.kind = "error" THEN client.errors + 1 ELSE client.errors)
      /\ client'.done = (client.done \/ Waiting.kind = "done") /\ client.errors \in Nat
  BY <1>2, Relay DEF GateType
<1>4. \A kinds : ~Waits(kinds)'
  BY <1>1 DEF Waits
<1>5. Unstreamed'
  <2>1. Unstreamed
    BY DEF TextInv
  <2>2. Waiting.kind = "done" <=> Waits({"done"})
    BY <1>1 DEF Waits
  <2>3. client'.errors = 0 => client.errors = 0
    BY <1>3
  <2> QED
    BY <1>1, <1>3, <1>4, <2>1, <2>2, <2>3 DEF Unstreamed
<1>6. ASSUME ChatGoes' PROVE ChatGoes /\ ClosesLate' /\ \A i \in ChoiceIds : Told(i)' = Told(i)
  <2>1. ChatGoes /\ ClosesLate
    BY <1>1, <1>6 DEF ChatGoes, TextInv
  <2>2. ClosesLate'
    BY <1>1, <1>4, <2>1 DEF ClosesLate
  <2>3. Waiting.kind # "relay"
    BY <1>1, <2>1 DEF ClosesLate, Waits
  <2>4. CASE Waiting.kind = "delta"
    <3>1. client' = [client EXCEPT !.view[Waiting.choice] = Viewed(@, Waiting)]
      BY <1>2, <2>4 DEF Relayed
    <3>2. client'.view = [client.view EXCEPT ![Waiting.choice] = Viewed(@, Waiting)]
      BY <1>2, <3>1 DEF GateType
    <3>3. ASSUME NEW i \in ChoiceIds PROVE Told(i)' = Told(i)
      <4>1. Told(i)' = client'.view[i]
        BY <1>4 DEF Told
      <4>2. Told(i) = IF Waiting.choice = i THEN Viewed(client.view[i], Waiting) ELSE client.view[i]
        BY <1>1, <2>4 DEF Told, Waits
      <4>3. client'.view[i] = IF Waiting.choice = i THEN Viewed(client.view[i], Waiting) ELSE client.view[i]
        BY <1>2, <3>2 DEF UsageTypes
      <4> QED
        BY <4>1, <4>2, <4>3
    <3> QED
      BY <2>1, <2>2, <3>3
  <2>5. CASE Waiting.kind # "delta"
    <3>1. \/ client' = [client EXCEPT !.usage = IF ask.loader = "vllm" THEN Waiting.tokens ELSE Waiting.reasoning]
          \/ client' = [client EXCEPT !.errors = @ + 1]
          \/ client' = [client EXCEPT !.done = TRUE]
          \/ client' = client
      BY <1>2, <2>3, <2>5 DEF Relayed
    <3>2. client'.view = client.view
      BY <1>2, <3>1 DEF GateType
    <3>3. \A i : Told(i)' = client'.view[i] /\ Told(i) = client.view[i]
      BY <1>4, <2>5 DEF Told, Waits
    <3> QED
      BY <2>1, <2>2, <3>2, <3>3
  <2> QED
    BY <2>4, <2>5
<1> QED
  BY <1>1, <1>5, <1>6, TextKept

\* It holds at first.
LEMMA InitText == GatewayInit => TextInv
<1> SUFFICES ASSUME GatewayInit PROVE TextInv
  OBVIOUS
<1>1. /\ ask \in Asks /\ work = "idle" /\ wire = <<>>
      /\ engine = [i \in ChoiceIds |-> [made |-> 0, tokens |-> 0, reason |-> NoReason]]
      /\ parsers = [i \in ChoiceIds |-> [reasoning |-> ask.thinks, held |-> <<>>]]
      /\ out = [i \in ChoiceIds |-> [tokens |-> 0, text |-> <<>>, sent |-> FALSE, tools |-> FALSE,
                                     content |-> FALSE, reasoning |-> FALSE]]
      /\ client.view = [i \in ChoiceIds |-> NoView] /\ ~client.done
  BY DEF GatewayInit, ChatInit
<1>2. UsageTypes
  BY InitUsage DEF UsageInv
<1>3. Unstreamed /\ ClosesLate
  BY <1>1 DEF Unstreamed, ClosesLate, Waits
<1>4. ASSUME NEW i \in ChoiceIds PROVE ChoiceInv(i)
  <2>1. PICK T \in Seq(Pieces), thinks \in BOOLEAN : T = ask.text[i] /\ thinks = ask.thinks
    BY <1>2, TextType
  <2>2. PICK p, o, v : p = parsers[i] /\ o = out[i] /\ v = Told(i)
    OBVIOUS
  <2>3. v = [content |-> 0, reasoning |-> 0, calls |-> 0, reasons |-> <<>>]
    BY <1>1, <2>2 DEF Told, Waits, NoView
  <2>4. /\ engine[i].made = 0 /\ engine[i].reason = NoReason /\ p.held = Blank /\ p.reasoning = thinks
        /\ ~o.sent /\ ~o.tools /\ ~o.content /\ ~o.reasoning /\ o.text = Blank
    BY <1>1, <2>1, <2>2 DEF Blank
  <2>5. out[i].sent = (engine[i].reason # NoReason)
    BY <1>1 DEF NoReason
  <2>6. /\ Blank \in Seq(Pieces) /\ SubSeq(T, 1, 0) = Blank /\ ~Contains(Blank, "close")
        /\ Count(Blank, "word") = 0 /\ Count(Blank, "call") = 0
    BY <2>1, BlankIs DEF Contains, Blank
  <2>7. ParseDelta(thinks, Blank) = Parts(Blank, Blank)
    BY <2>6, DeltaEdges
  <2>8. ParseDelta(thinks, Blank) = [content |-> 0, reasoning |-> 0, calls |-> 0]
    BY <2>6, <2>7 DEF Parts
  <2>9. ParsedTo(0, T, thinks, 0, p, o, v)
    <3>1. 0 \in 0..0 /\ SubSeq(T, 0 + 1, 0) = Blank
      BY <2>6
    <3>2. v.content = 0 /\ v.reasoning = 0 /\ v.calls = 0
      BY <2>3
    <3>3. p.reasoning = (thinks /\ ~Contains(SubSeq(T, 1, 0), "close"))
      BY <2>4, <2>6
    <3>4. [content |-> v.content, reasoning |-> v.reasoning, calls |-> v.calls]
            = ParseDelta(thinks, SubSeq(T, 1, 0))
      BY <2>6, <2>8, <3>2
    <3>5. /\ o.content <=> v.content > 0
          /\ o.reasoning <=> v.reasoning > 0
          /\ o.tools <=> v.calls > 0
      BY <2>4, <3>2
    <3> QED
      BY <2>4, <2>6, <3>1, <3>3, <3>4, <3>5 DEF ParsedTo
  <2>10. Plain(0, o, v)
    BY <2>3, <2>4 DEF Plain
  <2>11. Going(i)
    BY <2>1, <2>2, <2>3, <2>4, <2>9, <2>10 DEF Going
  <2>12. 0 \in 0..Len(T)
    BY LenProperties
  <2> QED
    BY <2>1, <2>2, <2>4, <2>5, <2>11, <2>12 DEF ChoiceInv
<1>5. parsers = [i \in ChoiceIds |-> parsers[i]]
  BY <1>1
<1> QED
  BY <1>3, <1>4, <1>5 DEF TextInv

\* Every step keeps the invariant.
LEMMA TextStep == OutcomeInv /\ UsageInv /\ TextInv /\ [GatewayNext]_gatewayVars => TextInv'
<1> SUFFICES ASSUME OutcomeInv, UsageInv, TextInv, [GatewayNext]_gatewayVars PROVE TextInv'
  OBVIOUS
<1>0. GateType /\ WireFits
  BY DEF OutcomeInv
<1>1. ASSUME NEW code, Replies(code), wire' = wire \/ (wire' = <<>> /\ ~Waits({"delta"})),
             UNCHANGED <<ask, work, engine, parsers, out, failures>>
      PROVE  TextInv'
  <2>1. client'.view = client.view /\ client'.done = client.done /\ client'.errors = client.errors
    BY <1>0, <1>1 DEF Replies, GateType
  <2> QED
    BY <1>1, <2>1, HandlerText
<1>2. ASSUME UNCHANGED chatVars, client'.view = client.view,
             client'.done /\ client'.errors = 0 => client.done /\ client.errors = 0
      PROVE  TextInv'
  <2>1. UNCHANGED <<ask, work, engine, parsers, out, wire, failures>>
    BY <1>2 DEF chatVars
  <2> QED
    BY <1>2, <2>1, HandlerText
<1>3. CASE NotRouted
  BY <1>1, <1>3 DEF NotRouted, chatVars
<1>4. CASE \E op : Endpoint(op) /\ Sends
  <2>1. UNCHANGED <<ask, engine, parsers, out, wire, failures, client>> /\ work' = "called"
    BY <1>4 DEF Sends
  <2> QED
    BY <2>1, HandlerText
<1>5. CASE \E op, codes : Endpoint(op) /\ Refuses(codes)
  BY <1>1, <1>5 DEF Refuses, chatVars
<1>6. CASE compact_response
  BY <1>1, <1>4, <1>5, <1>6 DEF compact_response, chatVars
<1>7. CASE AsksAgain
  <2>1. ask.op = "compact" /\ UNCHANGED <<ask, engine, parsers, out>>
    BY <1>7 DEF AsksAgain, Retries
  <2>2. Unstreamed' /\ ~ChatGoes'
    BY <2>1 DEF Unstreamed, ChatGoes
  <2> QED
    BY <2>1, <2>2, TextKept
<1>8. CASE FirstFails
  BY <1>1, <1>8 DEF FirstFails, chatVars
<1>9. CASE FirstIsObject
  <2>1. /\ Head(wire).kind \in {"refusal", "object"} /\ wire # <<>> /\ wire' = <<>>
        /\ UNCHANGED <<ask, work, engine, parsers, out, failures>> /\ \E code : Replies(code)
    BY <1>9 DEF FirstIsObject
  <2>2. ~Waits({"delta"})
    BY <1>0, <2>1 DEF Waits, WireFits
  <2> QED
    BY <1>1, <2>1, <2>2
<1>10. CASE FirstIsChunk
  <2>1. UNCHANGED chatVars /\ client' = [client EXCEPT !.code = 200]
    BY <1>10 DEF FirstIsChunk
  <2> QED
    BY <1>0, <1>2, <2>1 DEF GateType
<1>11. CASE Passes
  BY <1>11, PassedText
<1>12. CASE BodyEnds \/ Cancels
  BY <1>2, <1>12 DEF BodyEnds, Cancels
<1>13. CASE BodyFails
  <2>1. UNCHANGED chatVars /\ client' = [client EXCEPT !.errors = @ + 1, !.done = TRUE]
    BY <1>13 DEF BodyFails
  <2>2. client'.view = client.view /\ client'.errors = client.errors + 1 /\ client.errors \in Nat
    BY <1>0, <2>1 DEF GateType
  <2>3. client'.errors # 0
    BY <2>2
  <2> QED
    BY <1>2, <2>1, <2>2, <2>3
<1>14. CASE Leaves
  <2>1. UNCHANGED chatVars /\ client' = [client EXCEPT !.gone = TRUE]
    BY <1>14 DEF Leaves
  <2> QED
    BY <1>0, <1>2, <2>1 DEF GateType
<1>15. CASE ChatNext /\ UNCHANGED <<gate, client, metric>>
  BY <1>0, <1>15, ReplicaText DEF UsageInv
<1>16. CASE UNCHANGED gatewayVars
  BY <1>2, <1>16 DEF gatewayVars
<1>17. CASE create_response \/ create_transcriptions \/ create_translations
  BY <1>4, <1>5, <1>17 DEF create_response, create_transcriptions, create_translations
<1>18. CASE create_chat_completion \/ create_embeddings \/ create_speech \/ create_image
              \/ create_image_edit \/ create_image_variation
  BY <1>4, <1>18 DEF create_chat_completion, create_embeddings, create_speech, create_image,
     create_image_edit, create_image_variation
<1> QED
  BY <1>3, <1>6, <1>7, <1>8, <1>9, <1>10, <1>11, <1>12, <1>13, <1>14, <1>15, <1>16, <1>17, <1>18
  DEF GatewayNext

(* What vLLM streams is what it would have answered without streaming,        *)
(* however its outputs are cut, its parsers hold text back and the chunks,    *)
(* the failures and the client's departure interleave                         *)
(* (stream_chat_completion, _reconcile_trapped_content).                      *)
THEOREM StreamsAgree == GatewaySpec => []StreamAgrees
<1>1. UsageInv /\ TextInv => StreamAgrees
  <2> SUFFICES ASSUME UsageInv, TextInv, Complete, ask.op = "chat", ask.loader = "vllm", failures = 0
               PROVE  StreamAgrees
    BY DEF StreamAgrees
  <2>1. work = "ended" /\ wire = <<>> /\ client.done /\ client.errors = 0
    BY DEF Complete, UsageInv, DoneEnds
  <2>2. ask.stream
    BY <2>1 DEF TextInv, Unstreamed
  <2>3. \A i \in ChoiceIds : Agreed(i)
    BY <2>1, <2>2 DEF TextInv, ChatGoes, ClosesLate, ChoiceInv
  <2>4. \A i : Told(i) = client.view[i]
    BY <2>1 DEF Told, Waits
  <2> QED
    BY <2>3, <2>4 DEF StreamAgrees, Agreed
<1>2. GatewayInit => OutcomeInv /\ UsageInv /\ TextInv
  BY InitOutcome, InitUsage, InitText
<1>3. (OutcomeInv /\ UsageInv /\ TextInv) /\ [GatewayNext]_gatewayVars => (OutcomeInv /\ UsageInv /\ TextInv)'
  BY OutcomeStep, UsageStep, TextStep
<1> QED
  BY <1>1, <1>2, <1>3, PTL DEF GatewaySpec

-----------------------------------------------------------------------------
(* The plan of a deploy.                                                     *)

\* What a request asks for, the apps a version's models have, and those of a set of rescales.
Asked(r, v) == IF r.mode = "bare" THEN OrEmpty(v) ELSE r.models
\* The apps of a version, and those a part of a diff names.
Theirs(w) == {AppOf(w, m) : m \in Has(w)}
AppsIn(R) == {c.app : c \in R}

\* The apps that Serve keeps alive.
Alive(serve) == {a \in App : serve[a].status \notin NotLive \cup {"absent"}}

\* An app belongs to its model.
LEMMA TheirsFacts ==
  ASSUME NEW w \in Version
  PROVE  /\ \A m \in Has(w) : /\ m \in Models /\ w[m] \in Config
                              /\ AppOf(w, m) \in App /\ AppOf(w, m)[1] = m /\ AppOf(w, m) \in Theirs(w)
         /\ \A a \in Theirs(w) : a \in App /\ a[1] \in Has(w) /\ a = AppOf(w, a[1])
         /\ \A a \in App : a[1] \in Has(w) /\ a = AppOf(w, a[1]) => a \in Theirs(w)
<1>1. ASSUME NEW m \in Has(w)
      PROVE  /\ m \in Models /\ w[m] \in Config
             /\ AppOf(w, m) \in App /\ AppOf(w, m)[1] = m /\ AppOf(w, m) \in Theirs(w)
  <2>1. m \in Models /\ w[m] \in Config
    BY DEF Has, Version
  <2>2. w[m].variant \in Variants
    BY <2>1 DEF Config
  <2> QED
    BY <2>1, <2>2 DEF AppOf, App, Theirs
<1>2. ASSUME NEW a \in Theirs(w)
      PROVE  a \in App /\ a[1] \in Has(w) /\ a = AppOf(w, a[1])
  <2>1. PICK m \in Has(w) : a = AppOf(w, m)
    BY DEF Theirs
  <2> QED
    BY <1>1, <2>1
<1>3. ASSUME NEW a \in App, a[1] \in Has(w), a = AppOf(w, a[1])
      PROVE  a \in Theirs(w)
  BY <1>3 DEF Theirs
<1> QED
  BY <1>1, <1>2, <1>3

\* A version, or the empty one where there is none.
LEMMA VersionFacts ==
  ASSUME NEW v \in Version \cup {NoVersion}
  PROVE  /\ OrEmpty(v) \in Version /\ Named(v) = Theirs(OrEmpty(v))
         /\ v # NoVersion => OrEmpty(v) = v
         /\ NoVersion \notin Version
         /\ v = NoVersion => Has(OrEmpty(v)) = {}
<1>1. NoModels \in Version /\ Has(NoModels) = {}
  BY DEF NoModels, Version, Has
<1>2. NoVersion \notin Version
  BY SentinelAssumption DEF Version
<1>3. CASE v = NoVersion
  BY <1>1, <1>2, <1>3 DEF OrEmpty, Named, Theirs
<1>4. CASE v # NoVersion
  BY <1>2, <1>4 DEF OrEmpty, Named, Theirs
<1> QED
  BY <1>3, <1>4

\* What a request asks for is a version.
LEMMA AskedType ==
  ASSUME NEW r \in Request, NEW v \in Version \cup {NoVersion}
  PROVE  Asked(r, v) \in Version
BY VersionFacts DEF Asked, Request

\* What build_diff (diff.py) finds, app by app.
DiffIs(d, r, v, serve) ==
  LET w == Asked(r, v)
      off == {a \in Theirs(w) \cap Named(v) \cap Alive(serve) : serve[a].scaling # w[a[1]].scaling}
  IN /\ d.leftovers = {a \in App : serve[a].status # "absent"} \ Named(v)
     /\ \A c \in d.scale_downs \cup d.deploys \cup d.scale_ups :
          c.app[1] \in Has(w) /\ c.scaling = w[c.app[1]].scaling
     /\ AppsIn(d.deploys) = Theirs(w) \ (Named(v) \cap Alive(serve))
     /\ off \subseteq AppsIn(d.scale_downs) \cup AppsIn(d.scale_ups)
     /\ AppsIn(d.scale_ups) \subseteq off
     /\ \A a \in AppsIn(d.scale_downs) :
          a \in off \/ (a \in d.retired /\ a \in Alive(serve) /\ r.strategy = "blue_green")
     /\ d.retired = {a \in Named(v) \ Theirs(w) : a[1] \in Has(w) \/ r.mode = "reconcile"}

\* build_diff does, for every request, version and state of Serve.
LEMMA DiffApps ==
  ASSUME NEW r \in Request, NEW v \in Version \cup {NoVersion}, NEW serve \in [App -> ServeApp]
  PROVE  DiffIs(build_diff(r, v, serve), r, v, serve)
<1> DEFINE d        == build_diff(r, v, serve)
           current  == OrEmpty(v)
           wanted   == Asked(r, v)
           both     == Has(wanted) \cap Has(current)
           added    == Has(wanted) \ Has(current)
           replaced == {m \in both : AppOf(wanted, m) # AppOf(current, m)}
           held     == [m \in both |-> serve[AppOf(wanted, m)]]
           redeploy == {m \in both \ replaced : held[m].status \in NotLive \cup {"absent"}}
           rescaled == {m \in both \ (replaced \cup redeploy) : held[m].scaling # wanted[m].scaling}
           rising   == {m \in rescaled : Rises(held[m].scaling, wanted[m].scaling)}
           removed  == IF r.mode = "reconcile" THEN Has(current) \ Has(wanted) ELSE {}
           shrunk   == {m \in replaced :
                          /\ r.strategy = "blue_green"
                          /\ Shrinks(serve[AppOf(current, m)], wanted[m].scaling)}
           change(w, S) == {Rescale(AppOf(w, m), wanted[m].scaling) : m \in S}
           off == {a \in Theirs(wanted) \cap Named(v) \cap Alive(serve) : serve[a].scaling # wanted[a[1]].scaling}
<1>1. /\ d.leftovers = {a \in App : serve[a].status # "absent"} \ Named(v)
      /\ d.scale_downs = change(wanted, rescaled \ rising) \cup change(current, shrunk)
      /\ d.deploys = change(wanted, added \cup replaced \cup redeploy)
      /\ d.scale_ups = change(wanted, rising)
      /\ d.retired = {AppOf(current, m) : m \in replaced \cup removed}
  BY DEF build_diff, Asked
<1>2. current \in Version /\ wanted \in Version /\ Named(v) = Theirs(current)
  BY VersionFacts, AskedType
<1> HIDE DEF d, current, wanted
<1>3. /\ \A m \in Has(wanted) : AppOf(wanted, m) \in App /\ AppOf(wanted, m)[1] = m /\ AppOf(wanted, m) \in Theirs(wanted)
      /\ \A m \in Has(current) : AppOf(current, m) \in App /\ AppOf(current, m)[1] = m /\ AppOf(current, m) \in Named(v)
      /\ \A a \in Theirs(wanted) : a \in App /\ a[1] \in Has(wanted) /\ a = AppOf(wanted, a[1])
      /\ \A a \in Named(v) : a \in App /\ a[1] \in Has(current) /\ a = AppOf(current, a[1])
  BY <1>2, TheirsFacts
\* The models of each set, and their apps.
<1>4. /\ \A m \in both \ replaced : AppOf(wanted, m) \in Named(v) /\ m \in Has(wanted)
      /\ \A m \in added \cup replaced : AppOf(wanted, m) \notin Named(v) /\ m \in Has(wanted)
  <2>1. ASSUME NEW m \in both \ replaced
        PROVE  AppOf(wanted, m) \in Named(v) /\ m \in Has(wanted)
    BY <1>3
  <2>2. ASSUME NEW m \in added \cup replaced, AppOf(wanted, m) \in Named(v)
        PROVE  FALSE
    <3>1. m \in Has(wanted) /\ m \in Has(current) /\ AppOf(wanted, m) = AppOf(current, m)
      BY <1>3, <2>2
    <3> QED
      BY <2>2, <3>1
  <2> QED
    BY <2>1, <2>2
<1>5. /\ \A m \in redeploy : AppOf(wanted, m) \notin Alive(serve) /\ m \in both \ replaced
      /\ \A m \in (both \ replaced) \ redeploy : AppOf(wanted, m) \in Alive(serve)
  BY <1>3 DEF Alive
<1>6. /\ \A m \in rescaled : AppOf(wanted, m) \in off
      /\ \A a \in off : a[1] \in rescaled /\ a = AppOf(wanted, a[1])
  <2>1. ASSUME NEW m \in rescaled PROVE AppOf(wanted, m) \in off
    <3>1. m \in (both \ replaced) \ redeploy /\ serve[AppOf(wanted, m)].scaling # wanted[m].scaling
      OBVIOUS
    <3> QED
      BY <1>3, <1>4, <1>5, <3>1
  <2>2. ASSUME NEW a \in off PROVE a[1] \in rescaled /\ a = AppOf(wanted, a[1])
    <3>1. a[1] \in both \ replaced /\ a = AppOf(wanted, a[1])
      BY <1>3
    <3>2. a[1] \notin redeploy
      BY <1>5, <3>1
    <3> QED
      BY <3>1, <3>2
  <2> QED
    BY <2>1, <2>2
<1>7. \A m \in shrunk : m \in Has(wanted) /\ m \in replaced /\ m \in Has(current) /\ r.strategy = "blue_green"
                        /\ AppOf(current, m) \in Alive(serve)
  BY <1>3 DEF Shrinks, Alive
<1>8. rising \subseteq rescaled /\ \A m \in rescaled : m \in Has(wanted)
  OBVIOUS
<1>9. \A m \in Has(current) : m \in replaced \cup removed <=>
        AppOf(current, m) \notin Theirs(wanted) /\ (m \in Has(wanted) \/ r.mode = "reconcile")
  <2> SUFFICES ASSUME NEW m \in Has(current)
               PROVE  m \in replaced \cup removed <=>
                        AppOf(current, m) \notin Theirs(wanted) /\ (m \in Has(wanted) \/ r.mode = "reconcile")
    OBVIOUS
  <2>1. AppOf(current, m) \in Theirs(wanted) <=> m \in Has(wanted) /\ AppOf(wanted, m) = AppOf(current, m)
    BY <1>3
  <2> HIDE DEF held, redeploy, rescaled, rising, shrunk, added, off, change
  <2> QED
    BY <2>1
<1>10. replaced \cup removed \subseteq Has(current)
  OBVIOUS
<1>11. \A m \in added \cup replaced \cup redeploy :
         m \in Has(wanted) /\ AppOf(wanted, m) \notin Named(v) \cap Alive(serve)
  BY <1>4, <1>5
<1>12. \A m \in Has(wanted) : m \in added \cup replaced \cup redeploy
                               \/ AppOf(wanted, m) \in Named(v) \cap Alive(serve)
  BY <1>4, <1>5
<1> DEFINE goes == replaced \cup removed
           submits == added \cup replaced \cup redeploy
           falls == rescaled \ rising
<1>13. /\ d.deploys = change(wanted, submits) /\ d.retired = {AppOf(current, m) : m \in goes}
       /\ d.scale_downs = change(wanted, falls) \cup change(current, shrunk)
       /\ falls \cup rising = rescaled /\ (\A m \in shrunk : m \in goes)
  BY <1>1, <1>7
<1>14. goes \subseteq Has(current) /\ submits \subseteq Has(wanted)
  BY <1>10, <1>11
<1>15. /\ \A m \in Has(current) : m \in goes <=>
             AppOf(current, m) \notin Theirs(wanted) /\ (m \in Has(wanted) \/ r.mode = "reconcile")
       /\ \A m \in submits : AppOf(wanted, m) \notin Named(v) \cap Alive(serve)
       /\ \A m \in Has(wanted) : m \in submits \/ AppOf(wanted, m) \in Named(v) \cap Alive(serve)
  BY <1>9, <1>11, <1>12
<1> HIDE DEF goes, submits, falls, rescaled, rising, shrunk, both, added, replaced, held, redeploy, removed, off
\* A rescale's app and scaling.
<1>16. ASSUME NEW w, NEW S, NEW a
       PROVE  a \in AppsIn(change(w, S)) <=> \E m \in S : a = AppOf(w, m)
  <2>1. ASSUME NEW m \in S PROVE AppOf(w, m) \in AppsIn(change(w, S))
    <3>1. Rescale(AppOf(w, m), wanted[m].scaling) \in change(w, S)
      OBVIOUS
    <3>2. Rescale(AppOf(w, m), wanted[m].scaling).app = AppOf(w, m)
      BY DEF Rescale
    <3> HIDE DEF change
    <3> QED
      BY <3>1, <3>2 DEF AppsIn
  <2>2. ASSUME a \in AppsIn(change(w, S)) PROVE \E m \in S : a = AppOf(w, m)
    <3>1. PICK c \in change(w, S) : a = c.app
      BY <2>2 DEF AppsIn
    <3>2. PICK m \in S : c = Rescale(AppOf(w, m), wanted[m].scaling)
      OBVIOUS
    <3> QED
      BY <3>1, <3>2 DEF Rescale
  <2> QED
    BY <2>1, <2>2
<1>17. ASSUME NEW w, NEW S, NEW c \in change(w, S)
       PROVE  \E m \in S : c.app = AppOf(w, m) /\ c.scaling = wanted[m].scaling
  BY DEF Rescale
<1>18. ASSUME NEW R, NEW Q PROVE AppsIn(R \cup Q) = AppsIn(R) \cup AppsIn(Q)
  BY DEF AppsIn
<1> HIDE DEF change
<1>19. \A c \in d.scale_downs \cup d.deploys \cup d.scale_ups :
         c.app[1] \in Has(wanted) /\ c.scaling = wanted[c.app[1]].scaling
  <2> SUFFICES ASSUME NEW c \in d.scale_downs \cup d.deploys \cup d.scale_ups
               PROVE  c.app[1] \in Has(wanted) /\ c.scaling = wanted[c.app[1]].scaling
    OBVIOUS
  <2>1. \/ c \in change(wanted, submits) \/ c \in change(wanted, falls) \/ c \in change(wanted, rising)
        \/ c \in change(current, shrunk)
    BY <1>1, <1>13
  <2>2. \/ \E m \in Has(wanted) : c.app = AppOf(wanted, m) /\ c.scaling = wanted[m].scaling
        \/ \E m \in Has(current) \cap Has(wanted) : c.app = AppOf(current, m) /\ c.scaling = wanted[m].scaling
    BY <1>7, <1>8, <1>13, <1>14, <1>17, <2>1
  <2> QED
    BY <1>3, <2>2
<1>20. AppsIn(d.deploys) = Theirs(wanted) \ (Named(v) \cap Alive(serve))
  <2>1. ASSUME NEW a \in AppsIn(d.deploys) PROVE a \in Theirs(wanted) \ (Named(v) \cap Alive(serve))
    <3>1. PICK m \in submits : a = AppOf(wanted, m)
      BY <1>13, <1>16
    <3> QED
      BY <1>3, <1>14, <1>15, <3>1
  <2>2. ASSUME NEW a \in Theirs(wanted) \ (Named(v) \cap Alive(serve)) PROVE a \in AppsIn(d.deploys)
    <3>1. a[1] \in submits /\ a = AppOf(wanted, a[1])
      BY <1>3, <1>15
    <3> QED
      BY <1>13, <1>16, <3>1
  <2> QED
    BY <2>1, <2>2
<1>21. off \subseteq AppsIn(d.scale_downs) \cup AppsIn(d.scale_ups)
  <2> SUFFICES ASSUME NEW a \in off PROVE a \in AppsIn(d.scale_downs) \cup AppsIn(d.scale_ups)
    OBVIOUS
  <2>1. a[1] \in falls \cup rising /\ a = AppOf(wanted, a[1])
    BY <1>6, <1>13
  <2>2. a[1] \in falls => a \in AppsIn(change(wanted, falls))
    BY <1>16, <2>1
  <2>3. a[1] \in rising => a \in AppsIn(change(wanted, rising))
    BY <1>16, <2>1
  <2>4. AppsIn(d.scale_downs) = AppsIn(change(wanted, falls)) \cup AppsIn(change(current, shrunk))
    BY <1>13, <1>18
  <2> QED
    BY <1>1, <2>1, <2>2, <2>3, <2>4
<1>22. AppsIn(d.scale_ups) \subseteq off
  BY <1>1, <1>6, <1>8, <1>16
<1>23. d.retired = {a \in Named(v) \ Theirs(wanted) : a[1] \in Has(wanted) \/ r.mode = "reconcile"}
  <2>1. ASSUME NEW a \in d.retired
        PROVE  a \in Named(v) \ Theirs(wanted) /\ (a[1] \in Has(wanted) \/ r.mode = "reconcile")
    <3>1. PICK m \in goes : a = AppOf(current, m)
      BY <1>13
    <3> QED
      BY <1>3, <1>14, <1>15, <3>1
  <2>2. ASSUME NEW a \in Named(v) \ Theirs(wanted), a[1] \in Has(wanted) \/ r.mode = "reconcile"
        PROVE  a \in d.retired
    <3>1. a[1] \in goes /\ a = AppOf(current, a[1])
      BY <1>3, <1>15, <2>2
    <3> QED
      BY <1>13, <3>1
  <2> QED
    BY <2>1, <2>2
<1>24. ASSUME NEW a \in AppsIn(d.scale_downs)
       PROVE  a \in off \/ (a \in d.retired /\ a \in Alive(serve) /\ r.strategy = "blue_green")
  <2>1. a \in AppsIn(change(wanted, falls)) \/ a \in AppsIn(change(current, shrunk))
    BY <1>13, <1>18
  <2>2. CASE \E m \in falls : a = AppOf(wanted, m)
    BY <1>6, <1>13, <2>2
  <2>3. CASE \E m \in shrunk : a = AppOf(current, m)
    BY <1>7, <1>13, <2>3
  <2> QED
    BY <1>16, <2>1, <2>2, <2>3
<1> QED
  BY <1>1, <1>19, <1>20, <1>21, <1>22, <1>23, <1>24 DEF DiffIs, d, wanted, off

-----------------------------------------------------------------------------
(* The steps of the plan, app by app.                                        *)

\* An app that was submitted has what the request asks for.
Submits(R, serve, w) ==
  [a \in App |-> IF a \in AppsIn(R) THEN [status |-> "running", scaling |-> w[a[1]].scaling]
                 ELSE serve[a]]

\* Submitting what a version asks for leaves each app as that version has it.
LEMMA SubmitIs ==
  ASSUME NEW R, NEW w, \A c \in R : c.scaling = w[c.app[1]].scaling
  PROVE  Submit(R) = Submits(R, apps, w)
<1> SUFFICES ASSUME NEW a \in App
             PROVE  (IF \E r \in R : r.app = a
                     THEN [status |-> "running", scaling |-> (CHOOSE r \in R : r.app = a).scaling]
                     ELSE apps[a]) = Submits(R, apps, w)[a]
  BY DEF Submit, Submits
<1>1. CASE \E r \in R : r.app = a
  <2>1. (CHOOSE r \in R : r.app = a).scaling = w[a[1]].scaling
    BY <1>1
  <2>2. a \in AppsIn(R)
    BY <1>1 DEF AppsIn
  <2> QED
    BY <1>1, <2>1, <2>2 DEF Submits
<1>2. CASE ~\E r \in R : r.app = a
  BY <1>2 DEF Submits, AppsIn
<1> QED
  BY <1>1, <1>2

\* The request, and what it found.
PlanTypes ==
  /\ request \in Request /\ apps \in [App -> ServeApp] /\ before.apps \in [App -> ServeApp]
  /\ before.committed \in Version \cup {NoVersion}
  /\ diff = build_diff(request, before.committed, before.apps)
  /\ committed = IF step \in {"retire", "done"} /\ diff.commits THEN diff.models ELSE before.committed
  /\ step \in {"leftovers", "scale_down", "stop", "deploy", "scale_up", "commit", "retire", "done"}

\* The apps deleted and submitted before a step, and not submitted or deleted again.
Early == {"leftovers", "scale_down"}
\* The steps after the stops, after the deploys and after the rescales up.
Stopped == {"deploy", "scale_up", "commit", "retire", "done"}
Deployed == {"scale_up", "commit", "retire", "done"}
Raised == {"commit", "retire", "done"}
\* The retired apps that are deleted by now.
Dropped ==
  IF step = "done" \/ (step \in Stopped /\ request.strategy = "stop_start") THEN diff.retired ELSE {}
\* The apps that the steps so far deleted and did not deploy since.
Gone ==
  ((IF step = "leftovers" THEN {} ELSE diff.leftovers)
     \ (IF step \in Deployed THEN AppsIn(diff.deploys) ELSE {})) \cup Dropped
\* The apps that the steps so far submitted and did not delete since.
Sent ==
  ((IF step \in Early THEN {} ELSE AppsIn(diff.scale_downs))
    \cup (IF step \in Deployed THEN AppsIn(diff.deploys) ELSE {})
    \cup (IF step \in Raised THEN AppsIn(diff.scale_ups) ELSE {})) \ Dropped

\* Every app is as the steps so far left it.
AppsFollow ==
  \A a \in App :
    /\ a \in Gone => apps[a].status = "absent"
    /\ a \in Sent => apps[a] = [status |-> "running", scaling |-> Wanted[a[1]].scaling]
    /\ a \notin Gone \cup Sent => apps[a] = before.apps[a]

\* The inductive invariant of a plan.
PlanInv == PlanTypes /\ AppsFollow

\* The diff of the plan.
LEMMA PlanDiff ==
  ASSUME PlanTypes
  PROVE  DiffIs(diff, request, before.committed, before.apps) /\ Wanted = Asked(request, before.committed)
         /\ Wanted \in Version /\ BareRequest \in Request
<1>1. BareRequest \in Request
  BY DEF BareRequest, Request, Modes, Strategies, NoModels, Version
<1> QED
  BY <1>1, DiffApps, AskedType DEF PlanTypes, Wanted, Asked

\* No app is both deleted and submitted, nor submitted by two steps but for a retired one.
Disjoint ==
  /\ diff.retired \subseteq App /\ diff.leftovers \subseteq App
  /\ diff.retired \cap diff.leftovers = {}
  /\ diff.retired \cap (AppsIn(diff.deploys) \cup AppsIn(diff.scale_ups)) = {}
  /\ diff.leftovers \cap (AppsIn(diff.scale_downs) \cup AppsIn(diff.scale_ups)) = {}
  /\ \A c \in diff.scale_downs \cup diff.deploys \cup diff.scale_ups :
       c.app[1] \in Has(Wanted) /\ c.scaling = Wanted[c.app[1]].scaling

\* The parts of a diff name different apps, but for leftovers that are deployed again.
LEMMA PlanDisjoint ==
  ASSUME PlanTypes
  PROVE  Disjoint
<1>1. Named(before.committed) \subseteq App
  BY VersionFacts, TheirsFacts DEF PlanTypes
<1> QED
  BY <1>1, PlanDiff DEF DiffIs, Disjoint

\* The order of the steps.
LEMMA AfterIs ==
  /\ After("leftovers") = "scale_down" /\ After("scale_down") = "stop" /\ After("stop") = "deploy"
  /\ After("deploy") = "scale_up" /\ After("scale_up") = "commit" /\ After("commit") = "retire"
  /\ After("retire") = "done"
<1> DEFINE at(s) == CHOOSE i \in 1..7 : Order[i] = s
<1>1. /\ Order[1] = "leftovers" /\ Order[2] = "scale_down" /\ Order[3] = "stop" /\ Order[4] = "deploy"
      /\ Order[5] = "scale_up" /\ Order[6] = "commit" /\ Order[7] = "retire" /\ Order[8] = "done"
  BY DEF Order
<1>2. \A i \in 1..7 : i = 1 \/ i = 2 \/ i = 3 \/ i = 4 \/ i = 5 \/ i = 6 \/ i = 7
  OBVIOUS
<1>3. at("leftovers") = 1 /\ at("scale_down") = 2 /\ at("stop") = 3 /\ at("deploy") = 4
      /\ at("scale_up") = 5 /\ at("commit") = 6 /\ at("retire") = 7
  BY <1>1, <1>2
<1> QED
  BY <1>1, <1>3 DEF After

\* What a delete does, app by app.
LEMMA DeleteIs ==
  ASSUME apps \in [App -> ServeApp], NEW S
  PROVE  /\ Delete(S) \in [App -> ServeApp]
         /\ \A a \in App : /\ a \in S => Delete(S)[a].status = "absent"
                           /\ a \notin S => Delete(S)[a] = apps[a]
                           /\ Delete(S)[a].scaling = apps[a].scaling
BY DEF Delete, ServeApp, Status

\* What a submit does, app by app.
LEMMA SubmitApps ==
  ASSUME PlanTypes, NEW R \in SUBSET (diff.scale_downs \cup diff.deploys \cup diff.scale_ups)
  PROVE  /\ Submit(R) \in [App -> ServeApp]
         /\ \A a \in App :
              /\ a \in AppsIn(R) => Submit(R)[a] = [status |-> "running", scaling |-> Wanted[a[1]].scaling]
              /\ a \notin AppsIn(R) => Submit(R)[a] = apps[a]
<1>1. \A c \in R : c.app[1] \in Has(Wanted) /\ c.scaling = Wanted[c.app[1]].scaling
  BY PlanDisjoint DEF Disjoint
<1>2. Submit(R) = Submits(R, apps, Wanted)
  BY <1>1, SubmitIs
<1>3. \A a \in AppsIn(R) : Wanted[a[1]].scaling \in Scalings
  <2> SUFFICES ASSUME NEW a \in AppsIn(R) PROVE Wanted[a[1]].scaling \in Scalings
    OBVIOUS
  <2>1. a[1] \in Has(Wanted)
    BY <1>1 DEF AppsIn
  <2>2. Wanted[a[1]] \in Config
    BY <2>1, PlanDiff, TheirsFacts
  <2> QED
    BY <2>2 DEF Config
<1>4. apps \in [App -> ServeApp]
  BY DEF PlanTypes
<1>5. ASSUME NEW a \in App PROVE Submits(R, apps, Wanted)[a] \in ServeApp
  <2>1. CASE a \in AppsIn(R)
    <3>1. Wanted[a[1]].scaling \in Scalings
      BY <1>3, <2>1
    <3>2. Submits(R, apps, Wanted)[a] = [status |-> "running", scaling |-> Wanted[a[1]].scaling]
      BY <2>1 DEF Submits
    <3> HIDE DEF Wanted
    <3> QED
      BY <3>1, <3>2 DEF ServeApp, Status
  <2>2. CASE a \notin AppsIn(R)
    BY <1>4, <2>2 DEF Submits
  <2> QED
    BY <2>1, <2>2
<1>6. Submits(R, apps, Wanted) \in [App -> ServeApp]
  BY <1>5 DEF Submits
<1> QED
  BY <1>2, <1>6 DEF Submits

\* The invariant holds at first.
LEMMA InitPlan == PlanInit => PlanInv
<1> SUFFICES ASSUME PlanInit PROVE PlanInv
  OBVIOUS
<1>1. apps \in [App -> ServeApp]
  BY InitStatusAssumption DEF PlanInit, ServeApp
<1>2. PlanTypes
  BY <1>1 DEF PlanInit, PlanTypes
<1>3. Gone = {} /\ Sent = {}
  BY DEF PlanInit, Gone, Sent, Dropped, Early, Deployed, Raised, Stopped
<1> QED
  BY <1>2, <1>3 DEF PlanInit, PlanInv, AppsFollow

\* Every step keeps the invariant.
LEMMA PlanStep == PlanInv /\ [PlanNext]_planVars => PlanInv'
<1> SUFFICES ASSUME PlanInv, [PlanNext]_planVars PROVE PlanInv'
  OBVIOUS
<1>0. PlanTypes /\ Disjoint /\ apps \in [App -> ServeApp] /\ AppsFollow
  BY PlanDisjoint DEF PlanInv, PlanTypes
<1>1. ASSUME UNCHANGED <<request, before, diff>>, apps' \in [App -> ServeApp], committed' = committed,
             step \notin {"commit", "retire", "done"},
             step' \in {"scale_down", "stop", "deploy", "scale_up", "commit"}
      PROVE  PlanTypes' /\ Wanted' = Wanted
  BY <1>0, <1>1 DEF PlanTypes, Wanted
<1> USE DEF Gone, Sent, Dropped, Early, Deployed, Raised, Stopped
<1>2. CASE DeleteLeftovers
  <2>1. /\ step = "leftovers" /\ step' = "scale_down" /\ UNCHANGED <<request, before, diff, committed>>
        /\ apps' = Delete(diff.leftovers)
    BY <1>2, AfterIs DEF DeleteLeftovers, Take
  <2>2. PlanTypes' /\ Wanted' = Wanted
    BY <1>0, <1>1, <2>1, DeleteIs
  <2>3. Gone' = diff.leftovers /\ Sent' = {} /\ Gone = {} /\ Sent = {}
    BY <2>1
  <2> QED
    BY <1>0, <2>1, <2>2, <2>3, DeleteIs DEF PlanInv, AppsFollow
<1>3. CASE ScaleDown
  <2>1. /\ step = "scale_down" /\ step' = "stop" /\ UNCHANGED <<request, before, diff, committed>>
        /\ apps' = Submit(diff.scale_downs)
    BY <1>3, AfterIs DEF ScaleDown, Take
  <2>2. PlanTypes' /\ Wanted' = Wanted
    BY <1>0, <1>1, <2>1, SubmitApps
  <2>3. Gone' = diff.leftovers /\ Sent' = AppsIn(diff.scale_downs) /\ Gone = diff.leftovers /\ Sent = {}
    BY <2>1
  <2>4. Gone' \cap Sent' = {}
    BY <1>0, <2>3 DEF Disjoint
  <2> QED
    BY <1>0, <2>1, <2>2, <2>3, <2>4, SubmitApps DEF PlanInv, AppsFollow
<1>4. CASE Stop
  <2>1. /\ step = "stop" /\ step' = "deploy" /\ UNCHANGED <<request, before, diff, committed>>
        /\ apps' = IF request.strategy = "stop_start" THEN Delete(diff.retired) ELSE apps
    BY <1>4, AfterIs DEF Stop, Take
  <2>2. PlanTypes' /\ Wanted' = Wanted
    BY <1>0, <1>1, <2>1, DeleteIs
  <2>3. /\ Gone = diff.leftovers /\ Sent = AppsIn(diff.scale_downs)
        /\ Gone' = (IF request.strategy = "stop_start" THEN diff.leftovers \cup diff.retired ELSE diff.leftovers)
        /\ Sent' = (IF request.strategy = "stop_start" THEN AppsIn(diff.scale_downs) \ diff.retired
                    ELSE AppsIn(diff.scale_downs))
    BY <2>1
  <2> QED
    BY <1>0, <2>1, <2>2, <2>3, DeleteIs DEF PlanInv, AppsFollow
<1>5. CASE SubmitDeploys
  <2>1. /\ step = "deploy" /\ step' = "scale_up" /\ UNCHANGED <<request, before, diff, committed>>
        /\ apps' = Submit(diff.deploys)
    BY <1>5, AfterIs DEF SubmitDeploys, Take
  <2>2. PlanTypes' /\ Wanted' = Wanted
    BY <1>0, <1>1, <2>1, SubmitApps
  <2>3. Gone' = Gone \ AppsIn(diff.deploys) /\ Sent' = Sent \cup AppsIn(diff.deploys)
    BY <1>0, <2>1 DEF Disjoint
  <2> QED
    BY <1>0, <2>1, <2>2, <2>3, SubmitApps DEF PlanInv, AppsFollow
<1>6. CASE ScaleUp
  <2>1. /\ step = "scale_up" /\ step' = "commit" /\ UNCHANGED <<request, before, diff, committed>>
        /\ apps' = Submit(diff.scale_ups)
    BY <1>6, AfterIs DEF ScaleUp, Take
  <2>2. PlanTypes' /\ Wanted' = Wanted
    BY <1>0, <1>1, <2>1, SubmitApps
  <2>3. Gone' = Gone /\ Sent' = Sent \cup AppsIn(diff.scale_ups) /\ Gone \cap AppsIn(diff.scale_ups) = {}
    BY <1>0, <2>1 DEF Disjoint
  <2> QED
    BY <1>0, <2>1, <2>2, <2>3, SubmitApps DEF PlanInv, AppsFollow
<1>7. CASE SwitchAndCommit
  <2>1. /\ step = "commit" /\ step' = "retire" /\ UNCHANGED <<request, before, diff, apps>>
        /\ committed' = IF diff.commits THEN diff.models ELSE committed
    BY <1>7, AfterIs DEF SwitchAndCommit, Take
  <2>2. PlanTypes' /\ Wanted' = Wanted
    BY <1>0, <2>1 DEF PlanTypes, Wanted
  <2>3. Gone' = Gone /\ Sent' = Sent
    BY <2>1
  <2> QED
    BY <1>0, <2>1, <2>2, <2>3 DEF PlanInv, AppsFollow
<1>8. CASE Retire
  <2>1. /\ step = "retire" /\ step' = "done" /\ UNCHANGED <<request, before, diff, committed>>
        /\ apps' = IF request.strategy = "blue_green" THEN Delete(diff.retired) ELSE apps
    BY <1>8, AfterIs DEF Retire, Take
  <2>2. PlanTypes' /\ Wanted' = Wanted
    <3>1. apps' \in [App -> ServeApp]
      BY <1>0, <2>1, DeleteIs
    <3> QED
      BY <1>0, <2>1, <3>1 DEF PlanTypes, Wanted
  <2>3. request.strategy \in {"blue_green", "stop_start"}
    BY <1>0 DEF PlanTypes, Request, Strategies
  <2>4. CASE request.strategy = "stop_start"
    <3>1. Gone' = Gone /\ Sent' = Sent /\ apps' = apps
      BY <2>1, <2>4
    <3> QED
      BY <1>0, <2>1, <2>2, <3>1 DEF PlanInv, AppsFollow
  <2>5. CASE request.strategy = "blue_green"
    <3>1. Gone' = Gone \cup diff.retired /\ Sent' = Sent \ diff.retired /\ apps' = Delete(diff.retired)
      BY <2>1, <2>5
    <3> QED
      BY <1>0, <2>1, <2>2, <3>1, DeleteIs DEF PlanInv, AppsFollow
  <2> QED
    BY <2>3, <2>4, <2>5
<1>9. CASE UNCHANGED planVars
  BY <1>0, <1>9 DEF planVars, PlanInv, PlanTypes, AppsFollow, Wanted
<1> QED
  BY <1>2, <1>3, <1>4, <1>5, <1>6, <1>7, <1>8, <1>9 DEF PlanNext

-----------------------------------------------------------------------------
(* What the steps add up to.                                                 *)

\* What was committed when the plan is done, model by model.
Outcome ==
  LET M == OrEmpty(committed)
      C == OrEmpty(before.committed)
  IN /\ committed \in Version \cup {NoVersion} /\ M \in Version /\ Named(committed) = Theirs(M)
     /\ \A m \in Has(Wanted) : m \in Has(M) /\ M[m] = Wanted[m]
     /\ \A m \in Has(C) \ Has(Wanted) : request.mode # "reconcile" => m \in Has(M) /\ M[m] = C[m]
     /\ \A m \in Has(M) \ Has(Wanted) : m \in Has(C) /\ M[m] = C[m] /\ request.mode # "reconcile"
     /\ Asked(request, committed) = Wanted
     /\ ~build_diff(request, committed, apps).commits

\* A plan that is done left every app as the request asks.
LEMMA OutcomeIs ==
  ASSUME PlanTypes, step = "done"
  PROVE  Outcome
<1> DEFINE v == before.committed
           C == OrEmpty(v)
           M == OrEmpty(committed)
           proposed == merge(C, request.models, request.mode)
           commits == request.mode # "bare" /\ (v = NoVersion \/ proposed # v)
<1>1. diff.commits = commits /\ diff.models = (IF commits THEN proposed ELSE v)
  BY DEF PlanTypes, build_diff
<1>2. committed = IF commits THEN proposed ELSE v
  BY <1>1 DEF PlanTypes
<1>3. v \in Version \cup {NoVersion} /\ C \in Version /\ (v # NoVersion => C = v) /\ NoVersion \notin Version
      /\ request.models \in Version
  BY VersionFacts DEF PlanTypes, Request
<1>4. proposed \in Version
  BY <1>3 DEF merge, Version
<1>5. CASE request.mode = "bare"
  <2>1. committed = v /\ M = C /\ Wanted = C
    BY <1>2, <1>5 DEF Wanted
  <2>2. ~build_diff(request, committed, apps).commits
    BY <1>5 DEF build_diff
  <2>3. Asked(request, committed) = Wanted
    BY <1>5, <2>1 DEF Asked
  <2>4. Named(committed) = Theirs(M)
    BY <1>3, <2>1, VersionFacts
  <2> HIDE DEF C, M, v, proposed, commits
  <2>5. committed \in Version \cup {NoVersion} /\ M \in Version
    BY <1>3, <2>1
  <2> QED
    BY <1>5, <2>1, <2>2, <2>3, <2>4, <2>5 DEF Outcome, M, C, v
<1>6. CASE request.mode # "bare"
  <2>1. committed = proposed /\ Wanted = request.models
    BY <1>2, <1>3, <1>6 DEF Wanted
  <2>2. committed \in Version /\ M = committed /\ Named(committed) = Theirs(M) /\ committed # NoVersion
    BY <1>3, <1>4, <2>1, VersionFacts
  <2>3. Asked(request, committed) = Wanted
    BY <1>6, <2>1 DEF Asked
  <2> HIDE DEF C, M, v, commits
  <2>4. \A m \in Models : M[m] = IF request.mode = "reconcile" \/ Wanted[m] # Absent THEN Wanted[m] ELSE C[m]
    BY <2>1, <2>2 DEF merge
  <2>5. merge(M, request.models, request.mode) = M
    <3>1. CASE request.mode = "reconcile"
      BY <2>1, <2>2, <3>1 DEF merge
    <3>2. CASE request.mode # "reconcile"
      <4>1. merge(M, request.models, request.mode) = [m \in Models |-> M[m]]
        BY <2>1, <2>4, <3>2 DEF merge
      <4>2. M = [m \in Models |-> M[m]]
        BY <2>2 DEF Version
      <4> QED
        BY <4>1, <4>2
    <3> QED
      BY <3>1, <3>2
  <2>6. ~build_diff(request, committed, apps).commits
    BY <2>2, <2>5 DEF build_diff, M
  <2> HIDE DEF proposed
  <2>7. /\ \A m \in Has(Wanted) : m \in Has(M) /\ M[m] = Wanted[m]
        /\ \A m \in Has(C) \ Has(Wanted) : request.mode # "reconcile" => m \in Has(M) /\ M[m] = C[m]
        /\ \A m \in Has(M) \ Has(Wanted) : m \in Has(C) /\ M[m] = C[m] /\ request.mode # "reconcile"
    BY <2>4 DEF Has
  <2> QED
    BY <2>2, <2>3, <2>6, <2>7 DEF Outcome, M, C, v
<1> QED
  BY <1>5, <1>6

\* Each app when the plan is done.
LEMMA DoneApps ==
  ASSUME PlanInv, step = "done", NEW a \in App
  PROVE  /\ a \in Theirs(Wanted) =>
              \/ apps[a] = [status |-> "running", scaling |-> Wanted[a[1]].scaling]
              \/ /\ apps[a] = before.apps[a] /\ a \in Alive(before.apps)
                 /\ apps[a].scaling = Wanted[a[1]].scaling
         /\ a \notin Theirs(Wanted) /\ a \in Named(before.committed) \ diff.retired =>
              apps[a] = before.apps[a]
         /\ a \notin Theirs(Wanted) /\ a \notin Named(before.committed) \ diff.retired =>
              apps[a].status = "absent"
<1> DEFINE N == Named(before.committed)
           W == Theirs(Wanted)
           L == Alive(before.apps)
           downs == AppsIn(diff.scale_downs)
           ups == AppsIn(diff.scale_ups)
           deploys == AppsIn(diff.deploys)
           off == {b \in W \cap N \cap L : before.apps[b].scaling # Wanted[b[1]].scaling}
<1>1. /\ diff.leftovers = {b \in App : before.apps[b].status # "absent"} \ N
      /\ deploys = W \ (N \cap L)
      /\ off \subseteq downs \cup ups /\ ups \subseteq off
      /\ \A b \in downs : b \in off \/ b \in diff.retired
      /\ diff.retired \subseteq N \ W
  BY PlanDiff DEF PlanInv, DiffIs
<1>2. /\ Gone = (diff.leftovers \ deploys) \cup diff.retired
      /\ Sent = (downs \cup deploys \cup ups) \ diff.retired
  BY DEF Gone, Sent, Dropped, Deployed, Raised, Early, Stopped
<1>3. /\ a \in Gone => apps[a].status = "absent"
      /\ a \in Sent => apps[a] = [status |-> "running", scaling |-> Wanted[a[1]].scaling]
      /\ a \notin Gone \cup Sent => apps[a] = before.apps[a]
  BY DEF PlanInv, AppsFollow
<1> HIDE DEF N, W, L, downs, ups, deploys
<1>4. CASE a \in W
  <2>1. a \notin Gone
    BY <1>1, <1>2, <1>4
  <2>2. a \in Sent \/ (a \in N \cap L /\ before.apps[a].scaling = Wanted[a[1]].scaling)
    BY <1>1, <1>2, <1>4
  <2>3. a \in W => \/ apps[a] = [status |-> "running", scaling |-> Wanted[a[1]].scaling]
                   \/ /\ apps[a] = before.apps[a] /\ a \in L
                      /\ apps[a].scaling = Wanted[a[1]].scaling
    BY <1>3, <2>1, <2>2
  <2> QED
    BY <1>4, <2>3 DEF W, L
<1>5. CASE a \notin W /\ a \in N \ diff.retired
  <2>1. a \notin Gone \cup Sent
    BY <1>1, <1>2, <1>5
  <2> QED
    BY <1>3, <1>5, <2>1 DEF W, N
<1>6. CASE a \notin W /\ a \notin N \ diff.retired
  <2>1. a \in Gone \/ (a \notin Sent /\ before.apps[a].status = "absent")
    BY <1>1, <1>2, <1>6
  <2>2. apps[a].status = "absent"
    BY <1>1, <1>2, <1>3, <1>6, <2>1
  <2> QED
    BY <1>6, <2>2 DEF W, N
<1> QED
  BY <1>4, <1>5, <1>6 DEF N, W

(* For every set of models, request, committed version and state of Serve,   *)
(* a plan that runs to its end leaves what was asked for, and finds nothing  *)
(* to do a second time (_apply, build_diff).                                 *)
THEOREM PlansReachTarget == PlanSpec => []PlanReachesTarget
<1>1. PlanInv => PlanReachesTarget
  <2> SUFFICES ASSUME PlanInv, step = "done" PROVE PlanReachesTarget
    BY DEF PlanReachesTarget
  <2> DEFINE again == build_diff(request, committed, apps)
             M == OrEmpty(committed)
             C == OrEmpty(before.committed)
  <2>1. Outcome /\ PlanTypes /\ Wanted \in Version
    BY OutcomeIs, PlanDiff DEF PlanInv
  <2>2. /\ committed \in Version \cup {NoVersion} /\ M \in Version /\ Named(committed) = Theirs(M)
        /\ \A m \in Has(Wanted) : m \in Has(M) /\ M[m] = Wanted[m]
        /\ \A m \in Has(C) \ Has(Wanted) : request.mode # "reconcile" => m \in Has(M) /\ M[m] = C[m]
        /\ \A m \in Has(M) \ Has(Wanted) : m \in Has(C) /\ M[m] = C[m] /\ request.mode # "reconcile"
        /\ Asked(request, committed) = Wanted /\ ~again.commits
    BY <2>1 DEF Outcome
  <2>3. C \in Version /\ Named(before.committed) = Theirs(C) /\ request \in Request
        /\ apps \in [App -> ServeApp]
    BY <2>1, VersionFacts DEF PlanTypes
  <2>4. diff.retired = {a \in Theirs(C) \ Theirs(Wanted) : a[1] \in Has(Wanted) \/ request.mode = "reconcile"}
    BY <2>1, <2>3, PlanDiff DEF DiffIs
  <2>5. DiffIs(again, request, committed, apps)
    BY <2>2, <2>3, DiffApps
  <2> HIDE DEF again, M, C
  <2>6. ASSUME NEW a \in Theirs(Wanted)
        PROVE  /\ a \in App /\ a \in Named(committed) /\ a \in Alive(apps)
               /\ apps[a].scaling = Wanted[a[1]].scaling
               /\ \/ apps[a] = [status |-> "running", scaling |-> Wanted[a[1]].scaling]
                  \/ apps[a] = before.apps[a] /\ apps[a].status = "starting"
    <3>1. a \in App /\ a[1] \in Has(Wanted) /\ a = AppOf(Wanted, a[1])
      BY <2>1, TheirsFacts
    <3>2. a[1] \in Has(M) /\ a = AppOf(M, a[1])
      BY <2>2, <3>1 DEF AppOf
    <3>3. a \in Named(committed)
      BY <2>2, <3>1, <3>2, TheirsFacts
    <3>4. apps[a] \in ServeApp
      BY <2>3, <3>1
    <3>5. CASE apps[a] = [status |-> "running", scaling |-> Wanted[a[1]].scaling]
      BY <3>1, <3>3, <3>5 DEF Alive, NotLive
    <3>6. CASE apps[a] = before.apps[a] /\ a \in Alive(before.apps) /\ apps[a].scaling = Wanted[a[1]].scaling
      <4>1. apps[a].status \in {"starting", "running"}
        BY <3>1, <3>4, <3>6 DEF Alive, NotLive, ServeApp, Status
      <4>2. apps[a] = [status |-> apps[a].status, scaling |-> apps[a].scaling]
        BY <3>4 DEF ServeApp
      <4>3. a \in Alive(apps)
        BY <3>1, <4>1 DEF Alive, NotLive
      <4> QED
        BY <3>1, <3>3, <3>6, <4>1, <4>2, <4>3
    <3> QED
      BY <3>1, <3>5, <3>6, DoneApps
  <2>7. \A m \in Has(Wanted) :
          apps[AppOf(Wanted, m)] = [status |-> "running", scaling |-> Wanted[m].scaling]
            \/ /\ apps[AppOf(Wanted, m)] = before.apps[AppOf(Wanted, m)]
               /\ apps[AppOf(Wanted, m)].status = "starting"
               /\ apps[AppOf(Wanted, m)].scaling = Wanted[m].scaling
    <3> SUFFICES ASSUME NEW m \in Has(Wanted)
                 PROVE  apps[AppOf(Wanted, m)] = [status |-> "running", scaling |-> Wanted[m].scaling]
                          \/ /\ apps[AppOf(Wanted, m)] = before.apps[AppOf(Wanted, m)]
                             /\ apps[AppOf(Wanted, m)].status = "starting"
                             /\ apps[AppOf(Wanted, m)].scaling = Wanted[m].scaling
      OBVIOUS
    <3>1. AppOf(Wanted, m) \in Theirs(Wanted) /\ AppOf(Wanted, m)[1] = m
      BY <2>1, TheirsFacts
    <3> QED
      BY <2>6, <3>1
  <2>8. ASSUME NEW a \in App, apps[a].status # "absent" PROVE a \in Named(committed)
    <3>1. CASE a \in Theirs(Wanted)
      BY <2>6, <3>1
    <3>2. CASE a \notin Theirs(Wanted)
      <4>1. a \in Named(before.committed) \ diff.retired
        BY <2>8, <3>2, DoneApps
      <4>2. a[1] \in Has(C) /\ a = AppOf(C, a[1]) /\ a[1] \notin Has(Wanted) /\ request.mode # "reconcile"
        BY <2>3, <2>4, <3>2, <4>1, TheirsFacts
      <4>3. a[1] \in Has(M) /\ a = AppOf(M, a[1])
        BY <2>2, <4>2 DEF AppOf
      <4> QED
        BY <2>2, <4>3, TheirsFacts
    <3> QED
      BY <3>1, <3>2
  <2>9. ASSUME NEW m \in Has(M) \ Has(Wanted)
        PROVE  apps[AppOf(committed, m)] = before.apps[AppOf(committed, m)]
    <3>1. m \in Has(C) /\ M[m] = C[m] /\ request.mode # "reconcile"
      BY <2>2
    <3>2. committed # NoVersion /\ M = committed
      BY <2>2, VersionFacts DEF M
    <3>3. AppOf(committed, m) = AppOf(C, m)
      BY <3>1, <3>2 DEF AppOf
    <3>4. AppOf(C, m) \in App /\ AppOf(C, m)[1] = m /\ AppOf(C, m) \in Named(before.committed)
      BY <2>3, <3>1, TheirsFacts
    <3>5. AppOf(C, m) \notin Theirs(Wanted)
      BY <2>1, <3>4, TheirsFacts
    <3>6. AppOf(C, m) \notin diff.retired
      BY <2>4, <3>1, <3>4
    <3> QED
      BY <3>3, <3>4, <3>5, <3>6, DoneApps
  <2>10. again.leftovers = {}
    BY <2>5, <2>8 DEF DiffIs
  <2>11. again.retired = {}
    <3> SUFFICES ASSUME NEW a \in again.retired PROVE FALSE
      BY <2>5 DEF DiffIs
    <3>1. /\ a \in Theirs(M) /\ a \notin Theirs(Wanted)
          /\ a[1] \in Has(Wanted) \/ request.mode = "reconcile"
      BY <2>2, <2>5 DEF DiffIs
    <3>2. a \in App /\ a[1] \in Has(M) /\ a = AppOf(M, a[1])
      BY <2>2, <3>1, TheirsFacts
    <3>3. a[1] \in Has(Wanted) /\ a = AppOf(Wanted, a[1])
      BY <2>2, <3>1, <3>2 DEF AppOf
    <3> QED
      BY <2>1, <3>1, <3>2, <3>3, TheirsFacts
  <2>12. AppsIn(again.deploys) = {} /\ AppsIn(again.scale_ups) = {} /\ AppsIn(again.scale_downs) = {}
    BY <2>2, <2>5, <2>6, <2>11, ZenonT(40) DEF DiffIs
  <2>13. again.deploys = {} /\ again.scale_ups = {} /\ again.scale_downs = {}
    BY <2>12 DEF AppsIn
  <2> QED
    BY <2>2, <2>7, <2>8, <2>9, <2>10, <2>11, <2>13 DEF PlanReachesTarget, again, M
<1> QED
  BY <1>1, InitPlan, PlanStep, PTL DEF PlanSpec

\* What a rollback would do at this point.
LEMMA RolledBackIs ==
  ASSUME PlanInv, committed = before.committed
  PROVE  \A a \in App :
           /\ a \notin Named(committed) => RolledBack[a].status = "absent"
           /\ a \in Named(committed) => RolledBack[a].status = apps[a].status
           /\ a \in Named(committed) \cap Alive(apps) => RolledBack[a].scaling = committed[a[1]].scaling
<1> DEFINE back == build_diff(BareRequest, committed, apps)
           kept == Delete(back.leftovers)
           R == back.scale_downs \cup back.scale_ups
           C == OrEmpty(committed)
<1>1. committed \in Version \cup {NoVersion} /\ C \in Version /\ Named(committed) = Theirs(C)
      /\ apps \in [App -> ServeApp] /\ (committed # NoVersion => C = committed)
      /\ (committed = NoVersion => Has(C) = {})
  BY VersionFacts DEF PlanInv, PlanTypes
<1>2. DiffIs(back, BareRequest, committed, apps) /\ Asked(BareRequest, committed) = C
  BY <1>1, PlanDiff, DiffApps DEF PlanInv, Asked, BareRequest
<1> HIDE DEF back, C
<1>3. /\ back.leftovers = {a \in App : apps[a].status # "absent"} \ Named(committed)
      /\ \A c \in back.scale_downs \cup back.deploys \cup back.scale_ups : c.scaling = C[c.app[1]].scaling
      /\ \A a \in Named(committed) \cap Alive(apps) :
           apps[a].scaling # C[a[1]].scaling => a \in AppsIn(back.scale_downs) \cup AppsIn(back.scale_ups)
      /\ back.retired = {}
      /\ AppsIn(back.scale_downs) \cup AppsIn(back.scale_ups) \subseteq Named(committed)
  BY <1>1, <1>2 DEF DiffIs
<1>4. /\ \A c \in R : c.scaling = C[c.app[1]].scaling /\ c.app \in Named(committed)
      /\ \A a \in Named(committed) \cap Alive(apps) :
           apps[a].scaling # C[a[1]].scaling => \E c \in R : c.app = a
  BY <1>3 DEF AppsIn
<1>5. /\ kept \in [App -> ServeApp]
      /\ \A a \in App : /\ a \in back.leftovers => kept[a].status = "absent"
                        /\ a \notin back.leftovers => kept[a] = apps[a]
  BY <1>1, DeleteIs
<1>6. RolledBack = [a \in App |-> IF \E r \in R : r.app = a /\ kept[a].status # "absent"
                                  THEN [kept[a] EXCEPT !.scaling = (CHOOSE r \in R : r.app = a).scaling]
                                  ELSE kept[a]]
  BY DEF RolledBack, back
<1> HIDE DEF kept, R
<1> SUFFICES ASSUME NEW a \in App
             PROVE  /\ a \notin Named(committed) => RolledBack[a].status = "absent"
                    /\ a \in Named(committed) => RolledBack[a].status = apps[a].status
                    /\ a \in Named(committed) \cap Alive(apps) => RolledBack[a].scaling = committed[a[1]].scaling
  OBVIOUS
<1>7. CASE a \notin Named(committed)
  <2>1. kept[a].status = "absent"
    BY <1>3, <1>5, <1>7
  <2> QED
    BY <1>6, <1>7, <2>1
<1>8. CASE a \in Named(committed)
  <2>1. kept[a] = apps[a] /\ kept[a] \in [status : Status, scaling : Scalings]
    BY <1>3, <1>5, <1>8 DEF ServeApp
  <2>2. C = committed
    BY <1>1, <1>8, TheirsFacts
  <2>3. CASE \E r \in R : r.app = a /\ kept[a].status # "absent"
    <3>1. RolledBack[a] = [kept[a] EXCEPT !.scaling = (CHOOSE r \in R : r.app = a).scaling]
      BY <1>6, <2>3
    <3>2. (CHOOSE r \in R : r.app = a).scaling = C[a[1]].scaling
      BY <1>4, <2>3
    <3> QED
      BY <1>8, <2>1, <2>2, <3>1, <3>2
  <2>4. CASE ~\E r \in R : r.app = a /\ kept[a].status # "absent"
    <3>1. RolledBack[a] = apps[a]
      BY <1>6, <2>1, <2>4
    <3>2. a \in Alive(apps) => apps[a].scaling = C[a[1]].scaling
      BY <1>4, <1>8, <2>1, <2>4 DEF Alive
    <3> QED
      BY <1>8, <2>2, <3>1, <3>2
  <2> QED
    BY <2>3, <2>4
<1> QED
  BY <1>7, <1>8

(* For every set of models, request, committed version and state of Serve,   *)
(* a blue_green plan keeps the old version's apps alive until the new one is *)
(* committed, and a rollback after any step restores it (roll_back).         *)
THEOREM RollbacksRestore == PlanSpec => []RollbackRestores
<1>1. PlanInv => RollbackRestores
  <2> SUFFICES ASSUME PlanInv, request.strategy = "blue_green", step \notin {"retire", "done"}, NEW a \in App
               PROVE  IF a \in Named(before.committed)
                      THEN LiveIn(a, before.apps) =>
                             /\ LiveIn(a, apps)
                             /\ LiveIn(a, RolledBack)
                             /\ RolledBack[a].scaling = before.committed[a[1]].scaling
                      ELSE RolledBack[a].status = "absent"
    BY DEF RollbackRestores
  <2>1. committed = before.committed
    BY DEF PlanInv, PlanTypes
  <2>2. CASE a \notin Named(before.committed)
    BY <2>1, <2>2, RolledBackIs
  <2>3. CASE a \in Named(before.committed) /\ LiveIn(a, before.apps)
    <3>1. a \notin diff.leftovers
      BY <2>3, PlanDiff DEF PlanInv, DiffIs
    <3>2. a \notin Gone
      BY <3>1 DEF Gone, Dropped
    <3>3. apps[a].status \in {"running", "starting"}
      <4>1. CASE a \in Sent
        <5>1. PICK x : apps[a] = [status |-> "running", scaling |-> x]
          BY <4>1 DEF PlanInv, AppsFollow
        <5> QED
          BY <5>1
      <4>2. CASE a \notin Sent
        BY <2>3, <3>2, <4>2 DEF PlanInv, AppsFollow, LiveIn
      <4> QED
        BY <4>1, <4>2
    <3>4. a \in Alive(apps)
      BY <3>3 DEF Alive, NotLive
    <3> QED
      BY <2>1, <2>3, <3>3, <3>4, RolledBackIs DEF LiveIn
  <2> QED
    BY <2>2, <2>3
<1> QED
  BY <1>1, InitPlan, PlanStep, PTL DEF PlanSpec
-----------------------------------------------------------------------------
(* Preflight: sums over the models of a node.                                *)

\* Induction over the naturals, for the set of the n that have the property.
LEMMA Induct ==
  ASSUME NEW T, 0 \in T, \A n \in Nat : n \in T => n + 1 \in T
  PROVE  Nat \subseteq T
<1> SUFFICES ASSUME Nat \ T # {} PROVE FALSE
  OBVIOUS
<1>1. PICK x \in Nat \ T : \A y \in Nat \ T : x <= y
  BY LeastNat
<1>2. x # 0 /\ x - 1 \in Nat /\ x - 1 \in T
  BY <1>1
<1>3. (x - 1) + 1 \in T
  BY <1>2
<1> QED
  BY <1>3

\* The element that the fold takes first.
Pick(s) == CHOOSE x \in s : TRUE

\* f holds the sum of w over every subset of S, as the community modules' fold computes it.
Adds(f, w, S) ==
  f = [s \in SUBSET S |-> IF s = {} THEN 0 ELSE w[Pick(s)] + f[s \ {Pick(s)}]]

\* The element taken is one of the set.
LEMMA PickIn ==
  ASSUME NEW s, s # {} PROVE Pick(s) \in s
BY DEF Pick

\* Induction over the subsets of a finite set, one element taken at a time.
LEMMA SubsetInduct ==
  ASSUME NEW S, IsFiniteSet(S), NEW T, {} \in T,
         \A s \in SUBSET S : s # {} /\ s \ {Pick(s)} \in T => s \in T
  PROVE  SUBSET S \subseteq T
<1> DEFINE N == {n \in Nat : \A s \in SUBSET S : Cardinality(s) = n => s \in T}
<1>1. \A s \in SUBSET S : IsFiniteSet(s) /\ Cardinality(s) \in Nat
  BY FS_Subset, FS_CardinalityType
<1>2. 0 \in N
  BY <1>1, FS_EmptySet
<1>3. ASSUME NEW n \in Nat, n \in N PROVE n + 1 \in N
  <2> SUFFICES ASSUME NEW s \in SUBSET S, Cardinality(s) = n + 1 PROVE s \in T
    OBVIOUS
  <2>1. s # {} /\ IsFiniteSet(s)
    BY <1>1, FS_EmptySet
  <2>2. Pick(s) \in s
    BY <2>1, PickIn
  <2>3. Cardinality(s \ {Pick(s)}) = n
    <3>1. Cardinality(s \ {Pick(s)}) = Cardinality(s) - 1
      BY <2>1, <2>2, FS_RemoveElement
    <3> QED
      BY <3>1, <1>1
  <2>4. s \ {Pick(s)} \in SUBSET S
    OBVIOUS
  <2> QED
    BY <2>1, <2>3, <2>4, <1>3
<1> HIDE DEF N
<1>4. Nat \subseteq N
  BY <1>2, <1>3, Induct
<1> QED
  BY <1>1, <1>4 DEF N

\* The fold's recursive definition has a solution: unroll it as often as S has elements.
LEMMA SumExists ==
  ASSUME NEW S, IsFiniteSet(S), NEW w \in [S -> Int]
  PROVE  \E f : Adds(f, w, S)
<1> DEFINE unroll(g) == [s \in SUBSET S |-> IF s = {} THEN 0 ELSE w[Pick(s)] + g[s \ {Pick(s)}]]
           N == {n \in Nat : \E g \in [SUBSET S -> Int] :
                    \A s \in SUBSET S : Cardinality(s) <= n => g[s] = unroll(g)[s]}
<1>1. \A s \in SUBSET S : IsFiniteSet(s) /\ Cardinality(s) \in Nat
  BY FS_Subset, FS_CardinalityType
<1>2. ASSUME NEW g \in [SUBSET S -> Int] PROVE unroll(g) \in [SUBSET S -> Int]
  <2> SUFFICES ASSUME NEW s \in SUBSET S, s # {} PROVE w[Pick(s)] + g[s \ {Pick(s)}] \in Int
    OBVIOUS
  <2>1. Pick(s) \in S /\ s \ {Pick(s)} \in SUBSET S
    BY PickIn
  <2>2. w[Pick(s)] \in Int /\ g[s \ {Pick(s)}] \in Int
    BY <2>1
  <2> QED
    BY <2>2
<1>3. 0 \in N
  <2> DEFINE z == [s \in SUBSET S |-> 0]
  <2>1. z \in [SUBSET S -> Int]
    OBVIOUS
  <2>2. ASSUME NEW s \in SUBSET S, Cardinality(s) <= 0 PROVE z[s] = unroll(z)[s]
    <3>1. s = {}
      BY <1>1, <2>2, FS_EmptySet
    <3> QED
      BY <3>1
  <2> HIDE DEF z, unroll
  <2> QED
    BY <2>1, <2>2
<1>4. ASSUME NEW n \in Nat, n \in N PROVE n + 1 \in N
  <2>1. PICK g \in [SUBSET S -> Int] : \A s \in SUBSET S : Cardinality(s) <= n => g[s] = unroll(g)[s]
    BY <1>4
  <2>2. PICK h : h = unroll(g)
    OBVIOUS
  <2>3. h \in [SUBSET S -> Int]
    BY <1>2, <2>2
  <2>4. ASSUME NEW s \in SUBSET S, Cardinality(s) <= n + 1 PROVE h[s] = unroll(h)[s]
    <3>1. CASE s = {}
      BY <3>1, <2>2
    <3>2. CASE s # {}
      <4>1. Pick(s) \in s
        BY <3>2, PickIn
      <4>2. s \ {Pick(s)} \in SUBSET S
        OBVIOUS
      <4>3. Cardinality(s \ {Pick(s)}) = Cardinality(s) - 1
        BY <1>1, <4>1, FS_RemoveElement
      <4>4. Cardinality(s \ {Pick(s)}) <= n
        BY <1>1, <2>4, <4>2, <4>3
      <4>5. g[s \ {Pick(s)}] = h[s \ {Pick(s)}]
        <5> HIDE DEF unroll
        <5> QED
          BY <4>2, <4>4, <2>1, <2>2
      <4> QED
        BY <3>2, <2>2, <4>5
    <3> QED
      BY <3>1, <3>2
  <2> HIDE DEF unroll
  <2> QED
    BY <2>3, <2>4
<1> HIDE DEF N
<1>5. Cardinality(S) \in N
  BY <1>3, <1>4, <1>1, Induct
<1>6. PICK g \in [SUBSET S -> Int] :
        \A s \in SUBSET S : Cardinality(s) <= Cardinality(S) => g[s] = unroll(g)[s]
  BY <1>5 DEF N
<1>7. \A s \in SUBSET S : g[s] = unroll(g)[s]
  <2> HIDE DEF unroll
  <2> QED
    BY <1>6, FS_Subset
<1>8. unroll(g) \in [SUBSET S -> Int]
  BY <1>2
<1>9. g = unroll(g)
  <2> HIDE DEF unroll
  <2> QED
    BY <1>7, <1>8
<1> QED
  BY <1>9 DEF Adds

\* What the definition says of f.
AddsUp(f, w, S) ==
  /\ f[{}] = 0
  /\ f \in [SUBSET S -> Int]
  /\ \A s \in SUBSET S : s # {} => f[s] = w[Pick(s)] + f[s \ {Pick(s)}]

\* Such an f is integer-valued and takes an element and adds the rest.
LEMMA AddsType ==
  ASSUME NEW S, IsFiniteSet(S), NEW w \in [S -> Int], NEW f, Adds(f, w, S)
  PROVE  AddsUp(f, w, S)
<1>1. f[{}] = 0 /\ \A s \in SUBSET S : s # {} => f[s] = w[Pick(s)] + f[s \ {Pick(s)}]
  <2>1. \A s \in SUBSET S : f[s] = IF s = {} THEN 0 ELSE w[Pick(s)] + f[s \ {Pick(s)}]
    BY Zenon DEF Adds
  <2> QED
    BY <2>1
<1> DEFINE T == {s \in SUBSET S : f[s] \in Int}
<1>2. {} \in T
  BY <1>1
<1>3. ASSUME NEW s \in SUBSET S, s # {}, s \ {Pick(s)} \in T PROVE s \in T
  <2>1. w[Pick(s)] \in Int
    BY <1>3, PickIn
  <2>2. f[s] = w[Pick(s)] + f[s \ {Pick(s)}] /\ f[s \ {Pick(s)}] \in Int
    BY <1>1, <1>3
  <2> QED
    BY <2>1, <2>2
<1> HIDE DEF T
<1>4. SUBSET S \subseteq T
  BY <1>2, <1>3, SubsetInduct
<1>5. \A s \in SUBSET S : f[s] \in Int
  BY <1>4 DEF T
<1>6. f = [s \in SUBSET S |-> f[s]]
  BY Zenon DEF Adds
<1> QED
  BY <1>1, <1>5, <1>6 DEF AddsUp

\* SumFunction is such a sum: the memory and shares in use (UsedRam, UsedVram, Shares).
LEMMA SumAdds ==
  ASSUME NEW S, IsFiniteSet(S), NEW w \in [S -> Int]
  PROVE  \E f : Adds(f, w, S) /\ SumFunction(w) = f[S]
<1> DEFINE unroll(f) == [s \in SUBSET S |->
                         IF s = {} THEN 0
                         ELSE w[CHOOSE x \in s : TRUE] + f[s \ {CHOOSE x \in s : TRUE}]]
           it == CHOOSE f : f = unroll(f)
<1>0. DOMAIN w = S
  OBVIOUS
<1>1. SumFunction(w) = it[S]
  BY <1>0 DEF SumFunction, SumFunctionOnSet, FoldFunctionOnSet, MapThenFoldSet
<1>2. ASSUME NEW f PROVE Adds(f, w, S) <=> f = unroll(f)
  BY Zenon DEF Adds, Pick
<1>3. \E f : f = unroll(f)
  <2> HIDE DEF unroll
  <2> QED
    BY <1>2, SumExists
<1>4. it = unroll(it)
  <2> HIDE DEF unroll
  <2> QED
    BY <1>3
<1>5. PICK g : g = it
  OBVIOUS
<1>6. Adds(g, w, S)
  <2> HIDE DEF unroll, it
  <2> QED
    BY <1>2, <1>4, <1>5
<1> QED
  BY <1>1, <1>5, <1>6

\* What holds between the terms of two sums, up to factors, holds between the sums.
LEMMA SumBound ==
  ASSUME NEW S, IsFiniteSet(S), NEW v \in [S -> Int], NEW w \in [S -> Int],
         NEW a \in Int, NEW b \in Int, \A i \in S : a * v[i] <= b * w[i]
  PROVE  /\ SumFunction(v) \in Int /\ SumFunction(w) \in Int
         /\ a * SumFunction(v) <= b * SumFunction(w)
<1>1. PICK f : Adds(f, v, S) /\ SumFunction(v) = f[S]
  BY SumAdds
<1>2. PICK g : Adds(g, w, S) /\ SumFunction(w) = g[S]
  BY SumAdds
<1>3. AddsUp(f, v, S)
  BY <1>1, AddsType
<1>4. AddsUp(g, w, S)
  BY <1>2, AddsType
<1> DEFINE T == {s \in SUBSET S : a * f[s] <= b * g[s]}
<1>5. {} \in T
  BY <1>3, <1>4 DEF AddsUp
<1>6. ASSUME NEW s \in SUBSET S, s # {}, s \ {Pick(s)} \in T PROVE s \in T
  <2>1. PICK x, r : x = Pick(s) /\ r = s \ {Pick(s)}
    OBVIOUS
  <2>2. x \in S /\ r \in SUBSET S
    BY <2>1, <1>6, PickIn
  <2>3. /\ v[x] \in Int /\ w[x] \in Int /\ f[r] \in Int /\ g[r] \in Int
        /\ a * v[x] <= b * w[x] /\ a * f[r] <= b * g[r]
    BY <2>1, <2>2, <1>3, <1>4, <1>6 DEF AddsUp
  <2>4. f[s] = v[x] + f[r] /\ g[s] = w[x] + g[r]
    BY <2>1, <1>3, <1>4, <1>6 DEF AddsUp
  <2>5. a * (v[x] + f[r]) = a * v[x] + a * f[r] /\ b * (w[x] + g[r]) = b * w[x] + b * g[r]
    BY <2>3
  <2>6. /\ a * v[x] \in Int /\ a * f[r] \in Int /\ b * w[x] \in Int /\ b * g[r] \in Int
    BY <2>3
  <2> QED
    BY <2>3, <2>4, <2>5, <2>6
<1> HIDE DEF T
<1>7. SUBSET S \subseteq T
  BY <1>5, <1>6, SubsetInduct
<1>8. S \in T
  BY <1>7
<1> QED
  BY <1>1, <1>2, <1>3, <1>4, <1>8 DEF T, AddsUp

\* The sum does not depend on the order.
AnyOrder(f, w, S) == \A q \in SUBSET S : \A y \in q : f[q] = w[y] + f[q \ {y}]

\* The sum does not depend on the element taken first.
LEMMA AddsAnyOrder ==
  ASSUME NEW S, IsFiniteSet(S), NEW w \in [S -> Int], NEW f, Adds(f, w, S)
  PROVE  AnyOrder(f, w, S)
<1>1. AddsUp(f, w, S)
  BY AddsType
<1> DEFINE N == {n \in Nat : \A s \in SUBSET S : Cardinality(s) = n =>
                               \A x \in s : f[s] = w[x] + f[s \ {x}]}
<1>2. \A s \in SUBSET S : IsFiniteSet(s) /\ Cardinality(s) \in Nat
  BY FS_Subset, FS_CardinalityType
<1>3. 0 \in N
  BY <1>2, FS_EmptySet
<1>4. ASSUME NEW n \in Nat, n \in N PROVE n + 1 \in N
  <2> SUFFICES ASSUME NEW s \in SUBSET S, Cardinality(s) = n + 1, NEW x \in s
               PROVE  f[s] = w[x] + f[s \ {x}]
    OBVIOUS
  <2>1. PICK p : p = Pick(s)
    OBVIOUS
  <2>2. p \in s /\ f[s] = w[p] + f[s \ {p}]
    BY <2>1, <1>1, PickIn DEF AddsUp
  <2>3. CASE p = x
    BY <2>2, <2>3
  <2>4. CASE p # x
    <3>1. PICK sp, sx : sp = s \ {p} /\ sx = s \ {x}
      OBVIOUS
    <3>2. /\ sp \in SUBSET S /\ sx \in SUBSET S /\ x \in sp /\ p \in sx
          /\ sp \ {x} = sx \ {p}
      BY <3>1, <2>2, <2>4
    <3>3. Cardinality(sp) = Cardinality(s) - 1 /\ Cardinality(sx) = Cardinality(s) - 1
      BY <3>1, <1>2, <2>2, FS_RemoveElement
    <3>4. Cardinality(sp) = n /\ Cardinality(sx) = n
      BY <3>3
    <3>5. f[sp] = w[x] + f[sp \ {x}] /\ f[sx] = w[p] + f[sx \ {p}]
      BY <1>4, <3>2, <3>4
    <3>6. w[x] \in Int /\ w[p] \in Int /\ f[sp \ {x}] \in Int
      <4>1. sp \ {x} \in SUBSET S
        BY <3>2
      <4> QED
        BY <4>1, <1>1, <2>2 DEF AddsUp
    <3>7. f[sp] = f[s \ {p}] /\ f[sx] = f[s \ {x}] /\ f[sp \ {x}] = f[sx \ {p}]
      BY <3>1, <3>2
    <3>8. PICK a, b, c : a = w[x] /\ b = w[p] /\ c = f[sp \ {x}]
      OBVIOUS
    <3>9. f[s] = b + (a + c) /\ f[s \ {x}] = b + c
      BY <3>5, <3>7, <3>8, <2>2
    <3> QED
      BY <3>6, <3>8, <3>9
  <2> QED
    BY <2>3, <2>4
<1> HIDE DEF N
<1>5. Nat \subseteq N
  BY <1>3, <1>4, Induct
<1> QED
  BY <1>2, <1>5 DEF N, AnyOrder

\* A sum over a sequence, by its prefixes.
LEMMA PrefixSums ==
  ASSUME NEW n \in Nat, NEW w \in [1..n -> Int]
  PROVE  \E p \in [0..n -> Int] : /\ p[0] = 0
                                  /\ \A k \in 1..n : p[k] = w[k] + p[k - 1]
                                  /\ SumFunction(w) = p[n]
<1>0. IsFiniteSet(1..n)
  BY FS_Interval
<1>1. PICK f : Adds(f, w, 1..n) /\ SumFunction(w) = f[1..n]
  BY <1>0, SumAdds
<1>2. f[{}] = 0 /\ f \in [SUBSET (1..n) -> Int]
  BY <1>0, <1>1, AddsType DEF AddsUp
<1>3. PICK p : p = [k \in 0..n |-> f[1..k]]
  OBVIOUS
<1>4. \A k \in 0..n : 1..k \in SUBSET (1..n)
  OBVIOUS
<1>5. p \in [0..n -> Int] /\ p[n] = f[1..n]
  BY <1>2, <1>3, <1>4
<1>6. p[0] = 0
  <2>1. 1..0 = {}
    OBVIOUS
  <2> QED
    BY <2>1, <1>2, <1>3
<1>7. ASSUME NEW k \in 1..n PROVE p[k] = w[k] + p[k - 1]
  <2>1. (1..k) \ {k} = 1..(k - 1) /\ k \in 1..k /\ 1..k \in SUBSET (1..n)
    OBVIOUS
  <2>2. AnyOrder(f, w, 1..n)
    BY <1>0, <1>1, AddsAnyOrder
  <2>3. PICK q : q = 1..k
    OBVIOUS
  <2>4. f[q] = w[k] + f[q \ {k}]
    BY <2>1, <2>2, <2>3 DEF AnyOrder
  <2>5. k \in 0..n /\ k - 1 \in 0..n
    OBVIOUS
  <2>6. p[k] = f[1..k] /\ p[k - 1] = f[1..(k - 1)]
    BY <2>5, <1>3
  <2> QED
    BY <2>1, <2>3, <2>4, <2>6
<1> QED
  BY <1>1, <1>5, <1>6, <1>7

\* A sum of integers is an integer.
LEMMA SumType ==
  ASSUME NEW S, IsFiniteSet(S), NEW w \in [S -> Int]
  PROVE  SumFunction(w) \in Int
<1>1. PICK f : Adds(f, w, S) /\ SumFunction(w) = f[S]
  BY SumAdds
<1>2. AddsUp(f, w, S)
  BY <1>1, AddsType
<1> QED
  BY <1>1, <1>2 DEF AddsUp

\* A sum of naturals is a natural.
LEMMA SumNat ==
  ASSUME NEW S, IsFiniteSet(S), NEW w \in [S -> Nat]
  PROVE  SumFunction(w) \in Nat
<1>0. w \in [S -> Int]
  OBVIOUS
<1>1. PICK f : Adds(f, w, S) /\ SumFunction(w) = f[S]
  BY <1>0, SumAdds
<1>2. AddsUp(f, w, S)
  BY <1>0, <1>1, AddsType
<1> DEFINE T == {s \in SUBSET S : f[s] \in Nat}
<1>3. {} \in T
  BY <1>2 DEF AddsUp
<1>4. ASSUME NEW s \in SUBSET S, s # {}, s \ {Pick(s)} \in T PROVE s \in T
  <2>1. w[Pick(s)] \in Nat
    BY <1>4, PickIn
  <2>2. f[s] = w[Pick(s)] + f[s \ {Pick(s)}] /\ f[s \ {Pick(s)}] \in Nat
    BY <1>2, <1>4 DEF AddsUp
  <2> QED
    BY <2>1, <2>2
<1> HIDE DEF T
<1>5. SUBSET S \subseteq T
  BY <1>3, <1>4, SubsetInduct
<1>6. S \in T
  BY <1>5
<1> QED
  BY <1>1, <1>6 DEF T

\* A sum after an append: a model was loaded.
LEMMA SumAppend ==
  ASSUME NEW n \in Nat, NEW w \in [1..n -> Int], NEW v \in [1..(n + 1) -> Int],
         \A i \in 1..n : v[i] = w[i]
  PROVE  SumFunction(v) = SumFunction(w) + v[n + 1] /\ SumFunction(w) \in Int
<1>1. PICK p \in [0..n -> Int] : /\ p[0] = 0
                                 /\ \A k \in 1..n : p[k] = w[k] + p[k - 1]
                                 /\ SumFunction(w) = p[n]
  BY PrefixSums
<1>2. PICK q \in [0..(n + 1) -> Int] : /\ q[0] = 0
                                       /\ \A k \in 1..(n + 1) : q[k] = v[k] + q[k - 1]
                                       /\ SumFunction(v) = q[n + 1]
  <2>1. n + 1 \in Nat
    OBVIOUS
  <2> QED
    BY <2>1, PrefixSums
<1> DEFINE T == {k \in Nat : k <= n => q[k] = p[k]}
<1>3. 0 \in T
  BY <1>1, <1>2
<1>4. ASSUME NEW k \in Nat, k \in T PROVE k + 1 \in T
  <2> SUFFICES ASSUME k + 1 <= n PROVE q[k + 1] = p[k + 1]
    OBVIOUS
  <2>1. k + 1 \in 1..n /\ k + 1 \in 1..(n + 1) /\ (k + 1) - 1 = k
    OBVIOUS
  <2>2. p[k + 1] = w[k + 1] + p[k] /\ q[k + 1] = v[k + 1] + q[k]
    BY <1>1, <1>2, <2>1
  <2> QED
    BY <1>4, <2>1, <2>2
<1> HIDE DEF T
<1>5. n \in T
  BY <1>3, <1>4, Induct
<1>6. q[n] = p[n] /\ q[n + 1] = v[n + 1] + q[n] /\ q[n] \in Int /\ v[n + 1] \in Int
  <2>1. n + 1 \in 1..(n + 1) /\ (n + 1) - 1 = n /\ n \in 0..(n + 1)
    OBVIOUS
  <2> QED
    BY <1>2, <1>5, <2>1 DEF T
<1> QED
  BY <1>1, <1>2, <1>6

\* A sum after the removal of an element: a model was unloaded.
LEMMA SumRemove ==
  ASSUME NEW n \in Nat, NEW w \in [1..n -> Int], NEW r \in 1..n, NEW v \in [1..(n - 1) -> Int],
         \A i \in 1..(n - 1) : v[i] = IF i < r THEN w[i] ELSE w[i + 1]
  PROVE  SumFunction(w) = SumFunction(v) + w[r] /\ SumFunction(v) \in Int
<1>1. PICK p \in [0..n -> Int] : /\ p[0] = 0
                                 /\ \A k \in 1..n : p[k] = w[k] + p[k - 1]
                                 /\ SumFunction(w) = p[n]
  BY PrefixSums
<1>2. PICK q \in [0..(n - 1) -> Int] : /\ q[0] = 0
                                       /\ \A k \in 1..(n - 1) : q[k] = v[k] + q[k - 1]
                                       /\ SumFunction(v) = q[n - 1]
  <2>1. n - 1 \in Nat
    OBVIOUS
  <2> QED
    BY <2>1, PrefixSums
<1> DEFINE T == {k \in Nat : k <= n - 1 => IF k < r THEN q[k] = p[k] ELSE p[k + 1] = q[k] + w[r]}
<1>3. 0 \in T
  BY <1>1, <1>2
<1>4. ASSUME NEW k \in Nat, k \in T PROVE k + 1 \in T
  <2> SUFFICES ASSUME k + 1 <= n - 1
               PROVE  IF k + 1 < r THEN q[k + 1] = p[k + 1] ELSE p[k + 2] = q[k + 1] + w[r]
    OBVIOUS
  <2>1. /\ k + 1 \in 1..(n - 1) /\ k + 1 \in 1..n /\ k + 2 \in 1..n
        /\ (k + 1) - 1 = k /\ (k + 2) - 1 = k + 1 /\ (k + 1) + 1 = k + 2
        /\ k \in 0..(n - 1) /\ k \in 0..n /\ k + 1 \in 0..n
    OBVIOUS
  <2>2. /\ p[k + 1] = w[k + 1] + p[k] /\ p[k + 2] = w[k + 2] + p[k + 1]
        /\ q[k + 1] = v[k + 1] + q[k]
    BY <1>1, <1>2, <2>1
  <2>3. /\ w[k + 1] \in Int /\ w[k + 2] \in Int /\ w[r] \in Int /\ q[k] \in Int /\ p[k] \in Int
        /\ p[k + 1] \in Int
    BY <1>1, <1>2, <2>1
  <2>4. v[k + 1] = IF k + 1 < r THEN w[k + 1] ELSE w[k + 2]
    BY <2>1
  <2>5. IF k < r THEN q[k] = p[k] ELSE p[k + 1] = q[k] + w[r]
    BY <1>4
  <2>6. CASE k + 1 < r
    BY <2>2, <2>3, <2>4, <2>5, <2>6
  <2>7. CASE ~(k + 1 < r)
    <3>1. p[k + 1] = q[k] + w[r]
      <4>1. CASE k < r
        <5>1. k + 1 = r
          BY <2>7, <4>1
        <5>2. q[k] = p[k] /\ w[k + 1] = w[r]
          BY <4>1, <5>1, <2>5
        <5> QED
          BY <5>2, <2>2, <2>3
      <4>2. CASE ~(k < r)
        BY <4>2, <2>5
      <4> QED
        BY <4>1, <4>2
    <3>2. v[k + 1] = w[k + 2]
      BY <2>4, <2>7
    <3>3. p[k + 2] = w[k + 2] + (q[k] + w[r]) /\ q[k + 1] = w[k + 2] + q[k]
      BY <3>1, <3>2, <2>2
    <3> QED
      BY <3>3, <2>3, <2>7
  <2> QED
    BY <2>6, <2>7
<1> HIDE DEF T
<1>5. n - 1 \in T
  <2>1. Nat \subseteq T
    BY <1>3, <1>4, Induct
  <2>2. n - 1 \in Nat
    OBVIOUS
  <2> QED
    BY <2>1, <2>2
<1>6. /\ IF n - 1 < r THEN q[n - 1] = p[n - 1] ELSE p[n] = q[n - 1] + w[r]
      /\ n \in 1..n /\ n - 1 \in 0..n /\ n - 1 \in 0..(n - 1)
  <2>1. (n - 1) + 1 = n /\ n - 1 <= n - 1
    OBVIOUS
  <2>2. IF n - 1 < r THEN q[n - 1] = p[n - 1] ELSE p[(n - 1) + 1] = q[n - 1] + w[r]
    BY <1>5, <2>1 DEF T
  <2> QED
    BY <2>1, <2>2
<1>7. /\ p[n] = w[n] + p[n - 1] /\ w[n] \in Int /\ w[r] \in Int
      /\ p[n - 1] \in Int /\ q[n - 1] \in Int
  BY <1>1, <1>2, <1>6
<1>8. CASE n - 1 < r
  <2>1. n = r
    BY <1>8
  <2> QED
    BY <1>1, <1>2, <1>6, <1>7, <1>8, <2>1
<1>9. CASE ~(n - 1 < r)
  BY <1>1, <1>2, <1>6, <1>7, <1>9
<1> QED
  BY <1>8, <1>9

-----------------------------------------------------------------------------
(* What the invariant says of the node's models and of the job.              *)

\* A node's memory limit is memory its host has beside what others use.
LimitsBacked == \A n \in Nodes : n.limit + n.others <= n.physical

\* The models of the configs, what a loaded one holds, and whether a probe sees the GPU.
FleetModels == UNION Fleets
Held == [ram : Nat, vram : Nat, m : FleetModels, kept : BOOLEAN]
GpuSeen == node.torch \/ node.nvml

\* A model without a GPU share has no GPU memory, and one that was given a share it can keep
\* to is within it.
LoadedInv ==
  /\ loaded \in Seq(Held)
  /\ \A i \in DOMAIN loaded :
       /\ loaded[i].m.share = 0 => loaded[i].vram = 0
       /\ loaded[i].kept /\ GpuSeen => 100 * loaded[i].vram <= loaded[i].m.share * node.vram

\* What a probe returns.
Hardware ==
  [ram : Nat, available : Int, gpu : [total : Nat, available : Int]]

\* What a probe read, while others may have been unloaded since: free memory is no more than
\* there is, and was free for the host and for the container.
ProbeInv(hw) ==
  /\ hw \in Hardware
  /\ LimitsBacked /\ UsageRead => hw.available <= hw.ram
  /\ GpuSeen => hw.gpu.total = node.vram
  /\ LimitsBacked /\ hw.available > 0 =>
       /\ node.limit # Uncapped /\ node.current => hw.available + UsedRam <= node.limit
       /\ node.psutil => hw.available + UsedRam + node.others <= node.physical

\* No GPU memory was freed since the probe.
FreeSeen(hw) == GpuSeen => node.vram - UsedVram <= hw.gpu.available

\* What fit-params answered a llama_server model: on the CPU it leaves the reserve and the
\* margin free, on a fraction of the GPU it is within the fraction.
LlamaInv(m, hw, late, rec) ==
  rec.fit = "sized" =>
    /\ rec.n_ctx \in Nat /\ rec.leaves \in Nat
    /\ m.share = 0 /\ hw.available > 0 =>
         100 * Holds(m, MergedCtx(m, rec) * m.parallel) + 5 * hw.ram + 100 * FitMargin
           <= 100 * hw.available
    /\ ~late /\ Fractional(m) /\ GpuSeen => 100 * rec.leaves <= m.share * node.vram

\* What was recommended to a model, by its loader.
RecInv(m, hw, late, rec) ==
  /\ m.loader = "llama_server" => LlamaInv(m, hw, late, rec)
  /\ m.loader = "vllm" => rec = IF m.preflight THEN VllmPreflight(m, hw) ELSE Declined

\* The job after its probe, and after it was sized.
Probed(m, hw, late) == [step |-> "probed", m |-> m, hw |-> hw, late |-> late]
SizedJob(m, hw, late, rec) ==
  [step |-> "sized", m |-> m, hw |-> hw, late |-> late, rec |-> rec]

\* The three states of the lease's holder.
JobInv ==
  \/ job = NoJob
  \/ \E m \in fleet, late \in BOOLEAN : \E hw :
       /\ job = Probed(m, hw, late)
       /\ ProbeInv(hw) /\ (~late => FreeSeen(hw))
  \/ \E m \in fleet, late \in BOOLEAN : \E hw, rec :
       /\ job = SizedJob(m, hw, late, rec)
       /\ ProbeInv(hw) /\ RecInv(m, hw, late, rec)

\* The inductive invariant.
PreflightInv == node \in Nodes /\ fleet \in Fleets /\ LoadedInv /\ JobInv

-----------------------------------------------------------------------------

\* The memory of a node.
LEMMA NodeType ==
  ASSUME node \in Nodes
  PROVE  /\ node.physical \in Nat \ {0} /\ node.limit \in Nat \cup {-1}
         /\ node.others \in Nat /\ node.cache \in Nat /\ node.vram \in Nat
BY PreflightAssumption

\* The constants of the estimators.
LEMMA ConstantTypes ==
  /\ FitMargin \in Nat /\ Slack \in Nat /\ CpuFixed \in Nat /\ MinCtx \in Nat \ {0}
  /\ Alignment \in Nat \ {0} /\ BlockSize \in Nat \ {0} /\ MinSeqs \in Nat \ {0}
  /\ RowCap \in Nat \ {0} /\ DefaultCtx \in Nat \ {0}
BY PreflightAssumption

\* The fields of a llama_server model.
IsLlama(m) ==
  /\ m.weights \in Nat \ {0} /\ m.parallel \in Nat \ {0} /\ m.counted \in Nat /\ m.kv \in Nat
  /\ m.n_ctx \in Nat /\ m.trained \in Nat /\ m.share \in 0..100

\* The fields of a vllm model.
IsVllm(m) ==
  /\ m.layers \in Nat \ {0} /\ m.types \in -1..m.layers
  /\ m.index \in Nat /\ m.files \in Nat /\ m.bins \in Nat
  /\ m.heads \in Nat /\ m.latent \in Nat /\ m.dtype \in Nat /\ m.window \in Nat
  /\ m.pattern \in Nat /\ m.ctx \in Nat /\ m.state \in Nat /\ m.attention \in Nat
  /\ m.seqs \in Nat /\ m.default_seqs \in Nat /\ m.max_len \in Nat /\ m.workspace \in Nat
  /\ m.share \in 0..100

\* The fields of a model, by its loader.
LEMMA ModelTypes ==
  ASSUME NEW m \in FleetModels
  PROVE  /\ m.loader \in {"llama_server", "vllm", "stable_diffusion_cpp"} /\ m.share \in 0..100
         /\ m.loader = "llama_server" => IsLlama(m)
         /\ m.loader = "vllm" => IsVllm(m)
         /\ m.loader = "stable_diffusion_cpp" =>
              m.weights \in Nat /\ m.tiled \in Nat /\ m.untiled \in Nat
<1>1. PICK models \in Fleets : m \in models
  BY DEF FleetModels
<1>2. /\ m.loader \in {"llama_server", "vllm", "stable_diffusion_cpp"} /\ m.share \in 0..100
      /\ m.loader = "llama_server" =>
           /\ {m.weights, m.parallel} \subseteq Nat \ {0}
           /\ {m.counted, m.kv, m.n_ctx, m.trained} \subseteq Nat
      /\ m.loader = "vllm" =>
           /\ m.layers \in Nat \ {0} /\ m.types \in -1..m.layers
           /\ {m.index, m.files, m.bins, m.heads, m.latent, m.dtype, m.window, m.pattern, m.ctx,
               m.state, m.attention, m.seqs, m.default_seqs, m.max_len, m.workspace} \subseteq Nat
      /\ m.loader = "stable_diffusion_cpp" => {m.weights, m.tiled, m.untiled} \subseteq Nat
  BY <1>1, PreflightAssumption, Zenon
<1> QED
  BY <1>2 DEF IsLlama, IsVllm

\* The GPU share of a model, in hundredths.
LEMMA ShareType ==
  ASSUME NEW m \in FleetModels PROVE m.share \in Int /\ m.share >= 0 /\ m.share <= 100
<1>1. m.share \in 0..100
  BY ModelTypes, Zenon
<1> QED
  BY <1>1

\* What the models on the node use.
LEMMA UsedTypes ==
  ASSUME loaded \in Seq(Held)
  PROVE  UsedRam \in Nat /\ UsedVram \in Nat /\ Shares \in Int
<1> DEFINE D == DOMAIN loaded
           rams == [i \in D |-> loaded[i].ram]
           vrams == [i \in D |-> loaded[i].vram]
           parts == [i \in D |-> loaded[i].m.share]
<1>1. \A i \in D : loaded[i] \in Held
  OBVIOUS
<1>2. D = 1..Len(loaded) /\ Len(loaded) \in Nat
  OBVIOUS
<1>3. IsFiniteSet(D)
  BY <1>2, FS_Interval
<1>4. ASSUME NEW i \in D PROVE loaded[i].m.share \in Int
  <2>1. PICK m : m = loaded[i].m
    OBVIOUS
  <2>2. m \in FleetModels
    BY <1>1, <2>1 DEF Held
  <2>4. m.share \in Int
    BY <2>2, ShareType, Zenon
  <2> QED
    BY <2>1, <2>4, Zenon
<1>5. rams \in [D -> Nat] /\ vrams \in [D -> Nat] /\ parts \in [D -> Int]
  BY <1>1, <1>4 DEF Held
<1> HIDE DEF D, rams, vrams, parts
<1>6. SumFunction(rams) \in Nat /\ SumFunction(vrams) \in Nat /\ SumFunction(parts) \in Int
  BY <1>3, <1>5, SumNat, SumType
<1> QED
  BY <1>6 DEF UsedRam, UsedVram, Shares, rams, vrams, parts, D

-----------------------------------------------------------------------------
(* The probes.                                                               *)

\* discover_hardware: the tighter of host and container, and the GPU's free memory where it is
\* read.
LEMMA ProbesFit ==
  ASSUME node \in Nodes, loaded \in Seq(Held), NEW b \in BOOLEAN
  PROVE  ProbeInv(discover_hardware(b)) /\ FreeSeen(discover_hardware(b))
<1>1. /\ node.physical \in Nat \ {0} /\ node.limit \in Nat \cup {-1}
      /\ node.others \in Nat /\ node.cache \in Nat /\ node.vram \in Nat
      /\ LimitsBacked => node.limit + node.others <= node.physical
  BY NodeType DEF LimitsBacked
<1>2. UsedRam \in Nat /\ UsedVram \in Nat
  BY UsedTypes
<1>3. PICK ram, avail, gpu : /\ ram = detect_ram_bytes /\ avail = detect_available_ram_bytes
                             /\ gpu = detect_gpus(b)
  OBVIOUS
<1>4. /\ ram \in Nat
      /\ avail \in Int /\ (LimitsBacked /\ UsageRead => avail <= ram)
      /\ LimitsBacked /\ avail > 0 =>
           /\ node.limit # Uncapped /\ node.current => avail + UsedRam <= node.limit
           /\ node.psutil => avail + UsedRam + node.others <= node.physical
  <2>1. PICK cg : cg = CgroupAvailable
    OBVIOUS
  <2>2. /\ cg \in Int /\ (node.limit = -1 \/ ~node.current => cg = -1)
        /\ node.limit # -1 /\ node.current => cg >= 0 /\ (cg > 0 => cg + UsedRam <= node.limit)
    BY <1>1, <1>2, <2>1 DEF CgroupAvailable, Uncapped, Most
  <2>3. CASE node.limit = -1
    BY <1>1, <1>2, <1>3, <2>1, <2>2, <2>3, SMTT(30)
       DEF detect_ram_bytes, detect_available_ram_bytes, tighter_ram, Uncapped, Least
  <2>4. CASE node.limit # -1 /\ node.current
    <3>1. PICK l, p, o, u : l = node.limit /\ p = node.physical /\ o = node.others /\ u = UsedRam
      OBVIOUS
    <3>2. /\ l \in Nat /\ p \in Nat \ {0} /\ o \in Nat /\ u \in Nat /\ cg \in Nat
          /\ cg > 0 => cg + u <= l
          /\ LimitsBacked => l + o <= p
      BY <1>1, <1>2, <2>2, <2>4, <3>1
    <3>3. CASE node.psutil
      <4>1. /\ ram = IF p <= 0 THEN l ELSE Least(p, l)
            /\ avail = IF p - o - u <= 0 THEN cg ELSE Least(p - o - u, cg)
        BY <1>3, <2>1, <2>2, <2>4, <3>1, <3>2, <3>3
           DEF detect_ram_bytes, detect_available_ram_bytes, tighter_ram, Uncapped
      <4>2. ram \in Nat /\ avail \in Int /\ ram = (IF p < l THEN p ELSE l)
        BY <3>2, <4>1 DEF Least
      <4>3. ASSUME LimitsBacked
            PROVE  avail <= ram /\ (avail > 0 => avail + u <= l /\ avail + u + o <= p)
        <5>1. l + o <= p
          BY <3>2, <4>3
        <5> QED
          BY <3>2, <4>1, <4>2, <5>1 DEF Least
      <4> QED
        BY <3>1, <4>2, <4>3
    <3>4. CASE ~node.psutil
      <4>1. ram = l /\ avail = cg
        BY <1>3, <2>1, <2>2, <2>4, <3>1, <3>2, <3>4
           DEF detect_ram_bytes, detect_available_ram_bytes, tighter_ram, Uncapped
      <4> QED
        BY <3>1, <3>2, <3>4, <4>1
    <3> QED
      BY <3>3, <3>4
  <2>5. CASE node.limit # -1 /\ ~node.current
    <3>1. PICK l, p, o, u : l = node.limit /\ p = node.physical /\ o = node.others /\ u = UsedRam
      OBVIOUS
    <3>2. l \in Nat /\ p \in Nat \ {0} /\ o \in Nat /\ u \in Nat /\ cg = -1 /\ ~UsageRead
      BY <1>1, <1>2, <2>2, <2>5, <3>1 DEF UsageRead, Uncapped
    <3>3. CASE node.psutil
      <4>1. ram = (IF p <= 0 THEN l ELSE Least(p, l)) /\ avail = p - o - u
        BY <1>3, <2>1, <2>5, <3>1, <3>2, <3>3
           DEF detect_ram_bytes, detect_available_ram_bytes, tighter_ram, Uncapped
      <4>2. ram \in Nat /\ avail \in Int /\ avail + u + o <= p
        BY <3>2, <4>1 DEF Least
      <4> QED
        BY <2>5, <3>1, <3>2, <4>2
    <3>4. CASE ~node.psutil
      <4>1. ram = l /\ avail = 0
        BY <1>3, <2>1, <2>5, <3>1, <3>2, <3>4
           DEF detect_ram_bytes, detect_available_ram_bytes, tighter_ram, Uncapped
      <4> QED
        BY <2>5, <3>2, <3>4, <4>1
    <3> QED
      BY <3>3, <3>4
  <2> QED
    BY <2>3, <2>4, <2>5
<1>5. /\ gpu \in [total : Nat, available : Int]
      /\ GpuSeen => gpu.total = node.vram /\ node.vram - UsedVram <= gpu.available
  <2>1. node.vram - UsedVram \in Int /\ node.vram - UsedVram <= node.vram
    BY <1>1, <1>2
  <2>2. PICK free : free = node.vram - UsedVram
    OBVIOUS
  <2>3. CASE node.torch /\ node.nvml
    BY <1>1, <1>3, <2>1, <2>2, <2>3
       DEF detect_gpus, join_nvml_free, torch_cuda_discover, pynvml_node_discover, NoGpu, GpuSeen
  <2>4. CASE node.torch /\ ~node.nvml
    BY <1>1, <1>3, <2>1, <2>2, <2>4
       DEF detect_gpus, join_nvml_free, torch_cuda_discover, pynvml_node_discover, NoGpu, GpuSeen
  <2>5. CASE ~node.torch
    BY <1>1, <1>3, <2>1, <2>2, <2>5
       DEF detect_gpus, join_nvml_free, torch_cuda_discover, pynvml_node_discover, NoGpu, GpuSeen
  <2> QED
    BY <2>3, <2>4, <2>5
<1>6. discover_hardware(b) = [ram |-> ram, available |-> avail, gpu |-> gpu]
  BY <1>3 DEF discover_hardware
<1>7. PICK hw : hw = discover_hardware(b)
  OBVIOUS
<1>8. ProbeInv(hw) /\ FreeSeen(hw)
  BY <1>4, <1>5, <1>6, <1>7 DEF ProbeInv, FreeSeen, Hardware
<1> QED
  BY <1>7, <1>8

-----------------------------------------------------------------------------
(* llama_server.                                                             *)

\* Division rounds down.
LEMMA DivType ==
  ASSUME NEW a \in Int, NEW b \in Nat \ {0}
  PROVE  /\ a \div b \in Int /\ b * (a \div b) <= a /\ a < b * (a \div b) + b
         /\ a >= 0 => a \div b >= 0
OBVIOUS

\* A bounded set has its maximum.
LEMMA MaxIn ==
  ASSUME NEW S, NEW h \in Nat, S \subseteq 0..h, S # {}
  PROVE  Max(S) \in S
<1>1. {h - c : c \in S} \subseteq Nat /\ {h - c : c \in S} # {}
  OBVIOUS
<1>2. PICK x \in {h - c : c \in S} : \A y \in {h - c : c \in S} : x <= y
  BY <1>1, LeastNat
<1>3. PICK c \in S : x = h - c
  BY <1>2
<1>4. \A d \in S : h - c <= h - d
  BY <1>2, <1>3
<1>5. \A d \in S : c >= d
  BY <1>4
<1> QED
  BY <1>5 DEF Max

\* A slot's aligned context, times the slots, is no longer than the whole (_per_slot).
LEMMA PerSlotFits ==
  ASSUME NEW m, IsLlama(m), NEW ctx \in Nat
  PROVE  PerSlot(m, ctx) \in Nat /\ PerSlot(m, ctx) * m.parallel <= ctx
<1>1. m.parallel \in Nat \ {0} /\ Alignment \in Nat \ {0}
  BY ConstantTypes DEF IsLlama
<1>2. PICK n, a, q, r : n = m.parallel /\ a = Alignment /\ q = ctx \div n /\ r = q \div a
  OBVIOUS
<1>3. q \in Nat /\ n * q <= ctx
  <2>1. n \in Nat \ {0}
    BY <1>1, <1>2
  <2>2. q \in Int /\ n * q <= ctx /\ q >= 0
    BY <1>2, <2>1, DivType
  <2> QED
    BY <2>2
<1>4. r \in Nat /\ a * r <= q
  <2>1. a \in Nat \ {0} /\ q \in Int /\ q >= 0
    BY <1>1, <1>2, <1>3
  <2>2. r \in Int /\ a * r <= q /\ r >= 0
    BY <1>2, <2>1, DivType
  <2> QED
    BY <2>2
<1>5. PICK s : s = r * a
  OBVIOUS
<1>6. s \in Nat /\ s <= q
  BY <1>1, <1>2, <1>4, <1>5
<1>7. s * n <= q * n
  BY <1>1, <1>2, <1>3, <1>6
<1>8. s * n \in Nat /\ q * n \in Nat /\ q * n = n * q
  BY <1>1, <1>2, <1>3, <1>6
<1>9. PerSlot(m, ctx) = s
  BY <1>2, <1>5 DEF PerSlot
<1> QED
  BY <1>2, <1>3, <1>6, <1>7, <1>8, <1>9

\* run_fit: a context that was sized fits what is left after the margin, a pinned one too.
LEMMA RunFitIs ==
  ASSUME NEW m, IsLlama(m), NEW sees \in Int, NEW margin \in Int,
         NEW rec, rec = run_fit(m, sees, margin)
  PROVE  /\ rec.fit \in {"error", "sized"}
         /\ rec.fit = "sized" =>
              /\ rec.n_ctx \in Nat /\ rec.leaves = sees - margin /\ rec.leaves \in Nat
              /\ m.share = 0 => m.counted + m.kv * (MergedCtx(m, rec) * m.parallel) <= rec.leaves
<1>1. /\ m.weights \in Nat \ {0} /\ m.parallel \in Nat \ {0} /\ m.counted \in Nat /\ m.kv \in Nat
      /\ m.n_ctx \in Nat /\ m.trained \in Nat /\ MinCtx \in Nat \ {0}
  BY ConstantTypes DEF IsLlama
<1>2. PICK leaves, est, fitting : /\ leaves = sees - margin
                                  /\ est = (IF m.share = 0 THEN m.counted ELSE m.weights)
                                  /\ fitting = Fitting(m, est, leaves)
  OBVIOUS
<1>3. PICK ctx : ctx = IF fitting # {} THEN Max(fitting) ELSE MinCtx * m.parallel
  OBVIOUS
<1>4. rec = IF \/ ~m.answers \/ PerSlot(m, ctx) < MinCtx
               \/ fitting = {} /\ (m.share = 0 \/ leaves <= 0)
            THEN [fit |-> "error"]
            ELSE [fit |-> "sized", n_ctx |-> PerSlot(m, ctx), leaves |-> leaves]
  BY <1>2, <1>3 DEF run_fit
<1>5. leaves \in Int /\ est \in Nat
  BY <1>1, <1>2
<1>6. PICK h : h = m.n_ctx * m.parallel + m.trained * m.parallel
  OBVIOUS
<1>7. /\ m.n_ctx * m.parallel \in Nat /\ m.trained * m.parallel \in Nat /\ MinCtx * m.parallel \in Nat
  BY <1>1
<1>8. h \in Nat /\ fitting \subseteq 0..h
  BY <1>1, <1>2, <1>6, <1>7 DEF Fitting
<1>9. fitting # {} => ctx \in fitting
  BY <1>3, <1>8, MaxIn
<1>10. ctx \in Nat
  <2>1. fitting # {} => ctx \in 0..h
    BY <1>8, <1>9
  <2> QED
    BY <1>3, <1>7, <1>8, <2>1
<1>11. PerSlot(m, ctx) \in Nat /\ PerSlot(m, ctx) * m.parallel <= ctx
  BY <1>10, PerSlotFits
<1>12. fitting # {} => /\ est + m.kv * ctx <= leaves
                       /\ m.n_ctx # 0 => ctx = m.n_ctx * m.parallel
  BY <1>2, <1>9 DEF Fitting
<1>13. rec.fit \in {"error", "sized"}
  BY <1>4
<1>14. ASSUME rec.fit = "sized"
       PROVE  /\ rec.n_ctx = PerSlot(m, ctx) /\ rec.leaves = leaves
              /\ fitting = {} => m.share # 0 /\ leaves > 0
  <2>1. ~(\/ ~m.answers \/ PerSlot(m, ctx) < MinCtx
          \/ fitting = {} /\ (m.share = 0 \/ leaves <= 0))
    BY <1>4, <1>14
  <2>2. rec = [fit |-> "sized", n_ctx |-> PerSlot(m, ctx), leaves |-> leaves]
    BY <1>4, <2>1
  <2> QED
    BY <1>5, <2>1, <2>2
<1>15. PICK c : c = MergedCtx(m, rec) * m.parallel
  OBVIOUS
<1>16. ASSUME rec.fit = "sized", fitting # {} PROVE c \in Nat /\ c <= ctx
  <2>1. CASE m.n_ctx # 0
    BY <1>7, <1>10, <1>12, <1>15, <1>16, <2>1 DEF MergedCtx
  <2>2. CASE m.n_ctx = 0
    <3>1. MergedCtx(m, rec) = PerSlot(m, ctx)
      BY <1>14, <1>16, <2>2 DEF MergedCtx
    <3>2. PerSlot(m, ctx) * m.parallel \in Nat
      BY <1>1, <1>11
    <3> QED
      BY <1>11, <1>15, <3>1, <3>2
  <2> QED
    BY <2>1, <2>2
<1>17. ASSUME rec.fit = "sized", fitting # {} PROVE leaves \in Nat /\ est + m.kv * c <= leaves
  <2>1. PICK k : k = m.kv
    OBVIOUS
  <2>2. k \in Nat /\ c \in Nat /\ ctx \in Nat /\ c <= ctx
    BY <1>1, <1>10, <1>16, <1>17, <2>1
  <2>3. k * c <= k * ctx /\ k * c \in Nat /\ k * ctx \in Nat
    BY <2>2
  <2> QED
    BY <1>5, <1>12, <1>17, <2>1, <2>3
<1>18. ASSUME rec.fit = "sized" PROVE leaves \in Nat
  BY <1>5, <1>14, <1>17, <1>18
<1>19. ASSUME rec.fit = "sized", m.share = 0 PROVE m.counted + m.kv * c <= leaves
  <2>1. fitting # {} /\ est = m.counted
    BY <1>2, <1>14, <1>19
  <2> QED
    BY <1>17, <1>19, <2>1
<1> QED
  BY <1>2, <1>11, <1>13, <1>14, <1>15, <1>18, <1>19

\* The GPU share of a llama_server model.
LEMMA LlamaShare ==
  ASSUME NEW m, IsLlama(m) PROVE m.share \in Nat
BY DEF IsLlama

\* A llama_server model that was sized on the CPU leaves 5 % of the RAM and the margin free
\* of what the probe found (_cpu_ram_budget_mib, _cpu_fit_margin_mib).
LEMMA CpuFits ==
  ASSUME NEW m, IsLlama(m), m.share = 0, node \in Nodes,
         NEW hw \in Hardware, hw.available > 0,
         NEW rec, rec = run_fit(m, node.physical, cpu_fit_margin(m, hw)), rec.fit = "sized"
  PROVE  /\ rec.n_ctx \in Nat /\ rec.leaves \in Nat
         /\ 100 * Holds(m, MergedCtx(m, rec) * m.parallel) + 5 * hw.ram + 100 * FitMargin
              <= 100 * hw.available
<1>1. /\ m.weights \in Nat \ {0} /\ m.counted \in Nat /\ m.kv \in Nat /\ m.parallel \in Nat
      /\ FitMargin \in Nat /\ node.physical \in Nat /\ hw.ram \in Nat /\ hw.available \in Int
  BY ConstantTypes, NodeType DEF IsLlama, Hardware
<1>2. PICK w, p, b, u, g : /\ w = m.weights /\ p = node.physical /\ b = cpu_ram_budget(hw)
                           /\ u = Uncounted(m) /\ g = cpu_fit_margin(m, hw)
  OBVIOUS
<1>3. /\ b \in Int
      /\ \/ b = 0
         \/ 100 * b <= 100 * hw.available - (5 * hw.ram + 100 * FitMargin)
  <2>1. b = Most(0, (100 * hw.available - (5 * hw.ram + 100 * FitMargin)) \div 100)
    BY <1>1, <1>2 DEF cpu_ram_budget, sizing_ram_bytes
  <2>2. PICK x : x = 100 * hw.available - (5 * hw.ram + 100 * FitMargin)
    OBVIOUS
  <2>3. x \in Int
    BY <1>1, <2>2
  <2>4. x \div 100 \in Int /\ 100 * (x \div 100) <= x
    BY <2>3
  <2> QED
    BY <2>1, <2>2, <2>3, <2>4 DEF Most
<1>4. u \in Int /\ u >= 0 /\ u >= w - m.counted
  BY <1>1, <1>2 DEF Uncounted, Most
<1>5. g \in Int /\ g >= p - b + u
  BY <1>1, <1>2, <1>3, <1>4 DEF cpu_fit_margin, Most
<1>6. /\ rec.n_ctx \in Nat /\ rec.leaves = p - g /\ rec.leaves \in Nat
      /\ m.counted + m.kv * (MergedCtx(m, rec) * m.parallel) <= rec.leaves
  <2>1. node.physical \in Int
    BY <1>1
  <2> QED
    BY <1>2, <1>5, <2>1, RunFitIs
<1>7. PICK n : n = MergedCtx(m, rec) * m.parallel
  OBVIOUS
<1>8. n \in Nat
  <2>1. MergedCtx(m, rec) \in Nat
    BY <1>6, ConstantTypes DEF MergedCtx, IsLlama
  <2> QED
    BY <1>1, <1>7, <2>1
<1>9. PICK k : k = m.kv * n
  OBVIOUS
<1>10. k \in Nat /\ m.counted + k <= p - g
  BY <1>1, <1>6, <1>7, <1>8, <1>9
<1>11. w + k <= b /\ w > 0
  BY <1>1, <1>2, <1>3, <1>4, <1>5, <1>10
<1>12. 100 * b <= 100 * hw.available - (5 * hw.ram + 100 * FitMargin)
  BY <1>1, <1>2, <1>3, <1>10, <1>11
<1>13. Holds(m, n) = w + k
  BY <1>2, <1>9 DEF Holds
<1>14. 100 * (w + k) + 5 * hw.ram + 100 * FitMargin <= 100 * hw.available
  BY <1>1, <1>2, <1>3, <1>10, <1>11, <1>12
<1> QED
  BY <1>6, <1>7, <1>13, <1>14

\* A llama_server model that was sized on a fraction of the GPU keeps to it (_fit_margin_mib).
LEMMA ShareFits ==
  ASSUME NEW m, IsLlama(m), node \in Nodes, loaded \in Seq(Held),
         NEW hw \in Hardware, GpuSeen, hw.gpu.total = node.vram,
         node.vram - UsedVram <= hw.gpu.available, Fractional(m),
         NEW rec, rec = run_fit(m, node.vram - UsedVram, fit_margin(m, hw)), rec.fit = "sized"
  PROVE  100 * rec.leaves <= m.share * node.vram
<1>1. /\ node.vram \in Nat /\ UsedVram \in Nat /\ FitMargin \in Nat /\ hw.gpu.total \in Nat
      /\ hw.gpu.available \in Int /\ m.share \in Nat
  <2>1. node.vram \in Nat /\ FitMargin \in Nat
    BY ConstantTypes, NodeType
  <2>2. UsedVram \in Nat
    BY UsedTypes
  <2>3. hw.gpu.total \in Nat /\ hw.gpu.available \in Int
    BY DEF Hardware
  <2>4. m.share \in Nat
    BY LlamaShare
  <2> QED
    BY <2>1, <2>2, <2>3, <2>4
<1>2. PICK v, f, g, s, x : /\ v = node.vram /\ f = node.vram - UsedVram /\ g = fit_margin(m, hw)
                           /\ s = gpu_share_bytes(m, hw.gpu) /\ x = m.share * node.vram
  OBVIOUS
<1>3. v \in Nat /\ f \in Int /\ f <= v /\ x \in Nat
  BY <1>1, <1>2
<1>4. s \in Int /\ 100 * s <= x
  <2>1. s = x \div 100
    BY <1>2 DEF gpu_share_bytes
  <2> QED
    BY <1>3, <2>1
<1>5. g \in Int /\ (v = 0 \/ g >= hw.gpu.available - s + FitMargin) /\ g >= FitMargin
  <2>1. g = IF hw.gpu.total = 0 THEN FitMargin
            ELSE Most(FitMargin, hw.gpu.available - s + FitMargin)
    BY <1>2 DEF fit_margin
  <2>2. hw.gpu.total = v
    BY <1>2
  <2> QED
    BY <1>1, <1>3, <1>4, <2>1, <2>2 DEF Most
<1>6. rec.leaves = f - g /\ rec.leaves \in Nat
  BY <1>2, <1>3, <1>5, RunFitIs
<1>7. rec.leaves <= s \/ (v = 0 /\ rec.leaves = 0)
  <2>1. PICK a, q : a = hw.gpu.available /\ q = rec.leaves
    OBVIOUS
  <2>2. f <= a
    BY <1>2, <2>1
  <2>3. a \in Int /\ q \in Nat /\ q = f - g /\ (v = 0 \/ g >= a - s + FitMargin) /\ g >= FitMargin
    BY <1>1, <1>5, <1>6, <2>1
  <2>4. q <= s \/ (v = 0 /\ q = 0)
    BY <1>1, <1>3, <1>4, <1>5, <2>2, <2>3
  <2> QED
    BY <2>1, <2>4
<1>8. 100 * rec.leaves <= x
  BY <1>3, <1>4, <1>6, <1>7
<1> QED
  BY <1>2, <1>8

\* The margins are numbers.
LEMMA MarginTypes ==
  ASSUME NEW m, IsLlama(m), node \in Nodes, NEW hw \in Hardware
  PROVE  fit_margin(m, hw) \in Int /\ cpu_fit_margin(m, hw) \in Int
<1>1. /\ FitMargin \in Nat /\ node.physical \in Nat /\ hw.ram \in Nat /\ hw.available \in Int
      /\ hw.gpu.total \in Nat /\ hw.gpu.available \in Int /\ m.share \in Nat
      /\ m.weights \in Nat /\ m.counted \in Nat
  BY ConstantTypes, NodeType DEF IsLlama, Hardware
<1>2. gpu_share_bytes(m, hw.gpu) \in Int
  <2>1. m.share * hw.gpu.total \in Nat
    BY <1>1
  <2> QED
    BY <2>1 DEF gpu_share_bytes
<1>3. cpu_ram_budget(hw) \in Int
  <2>1. sizing_ram_bytes(hw) \in Int
    BY <1>1 DEF sizing_ram_bytes
  <2>2. 100 * sizing_ram_bytes(hw) - (5 * hw.ram + 100 * FitMargin) \in Int
    BY <1>1, <2>1
  <2> QED
    BY <2>2 DEF cpu_ram_budget, Most
<1>4. Uncounted(m) \in Int
  BY <1>1 DEF Uncounted, Most
<1> QED
  BY <1>1, <1>2, <1>3, <1>4 DEF fit_margin, cpu_fit_margin, Most

\* The llama_server estimator returns what LlamaInv says.
LEMMA LlamaFits ==
  ASSUME NEW m, IsLlama(m), m.loader = "llama_server", node \in Nodes, loaded \in Seq(Held),
         NEW hw, ProbeInv(hw), NEW late \in BOOLEAN, ~late => FreeSeen(hw),
         NEW rec, rec = run_preflight(m, hw)
  PROVE  LlamaInv(m, hw, late, rec)
<1> SUFFICES ASSUME rec.fit = "sized" PROVE LlamaInv(m, hw, late, rec)
  BY DEF LlamaInv
<1>1. hw \in Hardware
  BY DEF ProbeInv
<1>2. rec = LlamaServerPreflight(m, hw) /\ rec # Declined /\ rec # NotSized
  BY DEF run_preflight, Declined, NotSized
<1>3. CASE Budgeted(m, hw)
  <2>1. rec = run_fit(m, node.physical, cpu_fit_margin(m, hw)) /\ m.share = 0
    BY <1>2, <1>3 DEF LlamaServerPreflight, Budgeted
  <2>2. cpu_fit_margin(m, hw) \in Int /\ node.physical \in Int
    BY <1>1, MarginTypes, NodeType
  <2>3. rec.n_ctx \in Nat /\ rec.leaves \in Nat
    BY <2>1, <2>2, RunFitIs
  <2>4. ~Fractional(m)
    BY <2>1 DEF Fractional
  <2>5. hw.available > 0 =>
          100 * Holds(m, MergedCtx(m, rec) * m.parallel) + 5 * hw.ram + 100 * FitMargin
            <= 100 * hw.available
    BY <1>1, <2>1, CpuFits
  <2> QED
    BY <2>3, <2>4, <2>5 DEF LlamaInv
<1>4. CASE ~Budgeted(m, hw)
  <2>1. PICK sees : /\ sees = IF m.share = 0 THEN node.physical ELSE node.vram - UsedVram
                    /\ rec = run_fit(m, sees, fit_margin(m, hw))
    BY <1>2, <1>4 DEF LlamaServerPreflight
  <2>2. fit_margin(m, hw) \in Int /\ sees \in Int
    BY <1>1, <2>1, MarginTypes, NodeType, UsedTypes
  <2>3. rec.n_ctx \in Nat /\ rec.leaves \in Nat
    BY <2>1, <2>2, RunFitIs
  <2>4. ~(m.share = 0 /\ hw.available > 0)
    BY <1>1, <1>4 DEF Budgeted, sizing_ram_bytes, Hardware
  <2>5. ASSUME ~late, Fractional(m), GpuSeen PROVE 100 * rec.leaves <= m.share * node.vram
    <3>1. hw.gpu.total = node.vram /\ node.vram - UsedVram <= hw.gpu.available
      BY <2>5 DEF ProbeInv, FreeSeen
    <3>2. rec = run_fit(m, node.vram - UsedVram, fit_margin(m, hw))
      BY <2>1, <2>5 DEF Fractional, IsLlama
    <3> QED
      BY <1>1, <2>5, <3>1, <3>2, ShareFits
  <2> QED
    BY <2>3, <2>4, <2>5 DEF LlamaInv
<1> QED
  BY <1>3, <1>4

-----------------------------------------------------------------------------
(* vllm on a CPU.                                                            *)

\* Products keep the order.
LEMMA TimesMono ==
  ASSUME NEW a \in Nat, NEW x \in Int, NEW y \in Int, x <= y
  PROVE  a * x <= a * y /\ a * x \in Int /\ a * y \in Int
OBVIOUS

\* A context is aligned to its last full block.
LEMMA AlignedIs ==
  ASSUME NEW t \in Int, t >= 0
  PROVE  Aligned(t) \in Nat /\ Aligned(t) <= t /\ t < Aligned(t) + BlockSize
<1>1. BlockSize \in Nat \ {0}
  BY ConstantTypes
<1>2. PICK q : q = t \div BlockSize
  OBVIOUS
<1>3. q \in Int /\ BlockSize * q <= t /\ t < BlockSize * q + BlockSize /\ q >= 0
  BY <1>1, <1>2, DivType
<1>4. Aligned(t) = BlockSize * q
  BY <1>1, <1>2, <1>3 DEF Aligned
<1>5. BlockSize * q \in Nat
  BY <1>1, <1>3
<1> QED
  BY <1>3, <1>4, <1>5

\* The number of tokens of a bytes each that fit a budget, and that one more does not.
LEMMA WholeFits ==
  ASSUME NEW a \in Nat \ {0}, NEW b \in Int, b > 0, NEW t, t = b \div a
  PROVE  /\ t \in Nat
         /\ \A n \in Nat : n <= t => a * n <= b
         /\ \A n \in Nat : n > t => a * n > b
<1>1. t \in Int /\ a * t <= b /\ b < a * t + a /\ t >= 0
  BY DivType
<1>2. ASSUME NEW n \in Nat, n <= t PROVE a * n <= b
  <2>1. a * n <= a * t /\ a * n \in Int /\ a * t \in Int
    BY <1>1, <1>2, TimesMono
  <2> QED
    BY <1>1, <2>1
<1>3. ASSUME NEW n \in Nat, n > t PROVE a * n > b
  <2>1. a * (t + 1) <= a * n /\ a * n \in Int /\ a * (t + 1) \in Int
    <3>1. t + 1 \in Int /\ t + 1 <= n
      BY <1>1, <1>3
    <3> QED
      BY <3>1, TimesMono
  <2>2. a * (t + 1) = a * t + a /\ a * t \in Int
    BY <1>1
  <2> QED
    BY <1>1, <2>1, <2>2
<1> QED
  BY <1>1, <1>2, <1>3

\* KV bytes of n tokens, a per token of all and c per token of the window w; and the length
\* that fits a budget, as fit_len_with_sliding has it.
SlideKv(a, c, w, n) == a * n + c * Least(w, n)
SlideLen(a, c, w, b, cap) ==
  IF b < (a + c) * w THEN Least(b \div (a + c), cap)
  ELSE IF a <= 0 THEN cap ELSE Least((b - c * w) \div a, cap)

\* t is the greatest length, up to the cap, that fits.
SlideIs(a, c, w, b, cap, t) ==
  /\ t \in Nat
  /\ \A n \in Nat : n <= t => SlideKv(a, c, w, n) <= b
  /\ \A n \in Nat : n > t /\ n <= cap => SlideKv(a, c, w, n) > b

\* fit_len_with_sliding returns the greatest length that fits, in each of its three cases.
LEMMA SlideFits ==
  ASSUME NEW a \in Nat, NEW c \in Nat \ {0}, NEW w \in Nat, NEW b \in Int, b > 0,
         NEW cap \in Nat, NEW t, t = SlideLen(a, c, w, b, cap)
  PROVE  SlideIs(a, c, w, b, cap, t)
<1>1. ASSUME NEW n \in Nat
      PROVE  /\ n <= w => SlideKv(a, c, w, n) = (a + c) * n
             /\ n >= w => SlideKv(a, c, w, n) = a * n + c * w
             /\ a * n \in Nat /\ c * n \in Nat /\ (a + c) * n = a * n + c * n
  <2>1. a * n \in Nat /\ c * n \in Nat /\ c * w \in Nat /\ (a + c) * n = a * n + c * n
    OBVIOUS
  <2>2. n <= w => Least(w, n) = n
    BY DEF Least
  <2>3. n >= w => Least(w, n) = w
    BY DEF Least
  <2> QED
    BY <2>1, <2>2, <2>3 DEF SlideKv
<1>2. PICK d, x : d = a + c /\ x = c * w
  OBVIOUS
<1>3. d \in Nat \ {0} /\ x \in Nat /\ d >= c
  BY <1>2
<1>4. CASE b < d * w
  <2>1. PICK q : q = b \div d
    OBVIOUS
  <2>2. q \in Nat
    BY <1>3, <2>1, WholeFits
  <2>3. t = Least(q, cap)
    BY <1>2, <1>4, <2>1 DEF SlideLen
  <2>4. q < w
    <3>1. \A n \in Nat : n <= q => d * n <= b
      BY <1>3, <2>1, WholeFits
    <3> QED
      BY <1>3, <1>4, <2>2, <3>1
  <2>5. ASSUME NEW n \in Nat, n <= t PROVE SlideKv(a, c, w, n) <= b
    <3>1. n <= q /\ n <= w
      BY <2>2, <2>3, <2>4, <2>5 DEF Least
    <3>2. d * n <= b
      BY <1>3, <2>1, <3>1, WholeFits
    <3> QED
      BY <1>1, <1>2, <3>1, <3>2
  <2>6. ASSUME NEW n \in Nat, n > t, n <= cap PROVE SlideKv(a, c, w, n) > b
    <3>1. n > q
      BY <2>2, <2>3, <2>6 DEF Least
    <3>2. d * n > b
      BY <1>3, <2>1, <3>1, WholeFits
    <3>3. CASE n <= w
      BY <1>1, <1>2, <3>2, <3>3
    <3>4. CASE n > w
      <4>1. d * w > b
        BY <1>3, <1>4
      <4>2. a * w <= a * n /\ a * w \in Int /\ a * n \in Int
        BY <3>4, TimesMono
      <4>3. d * w = a * w + x
        BY <1>2
      <4>4. SlideKv(a, c, w, n) = a * n + x
        BY <1>1, <1>2, <3>4
      <4> QED
        BY <1>3, <4>1, <4>2, <4>3, <4>4
    <3> QED
      BY <3>3, <3>4
  <2>7. t \in Nat
    BY <2>2, <2>3 DEF Least
  <2> QED
    BY <2>5, <2>6, <2>7 DEF SlideIs
<1>5. CASE ~(b < d * w) /\ a = 0
  <2>1. t = cap
    BY <1>2, <1>5 DEF SlideLen
  <2>2. ASSUME NEW n \in Nat PROVE SlideKv(a, c, w, n) <= b
    <3>1. c * Least(w, n) <= c * w /\ c * Least(w, n) \in Int
      <4>1. Least(w, n) \in Int /\ Least(w, n) <= w
        BY DEF Least
      <4> QED
        BY <4>1, TimesMono
    <3>2. d * w = x
      BY <1>2, <1>5
    <3>3. a * n = 0
      BY <1>5
    <3> QED
      BY <1>2, <1>3, <1>5, <3>1, <3>2, <3>3 DEF SlideKv
  <2> QED
    BY <2>1, <2>2 DEF SlideIs
<1>6. CASE ~(b < d * w) /\ a # 0
  <2>1. PICK q : q = (b - x) \div a
    OBVIOUS
  <2>2. d * w = a * w + x /\ a * w \in Nat
    BY <1>2
  <2>3. a \in Nat \ {0} /\ b - x \in Int /\ b - x >= a * w
    BY <1>3, <1>6, <2>2
  <2>4. q \in Int /\ a * q <= b - x /\ b - x < a * q + a /\ q >= 0
    <3>1. PICK y : y = b - x
      OBVIOUS
    <3>2. y \in Int /\ y >= 0 /\ q = y \div a
      BY <2>1, <2>2, <2>3, <3>1
    <3>3. q \in Int /\ a * q <= y /\ y < a * q + a /\ q >= 0
      BY <2>3, <3>2, DivType
    <3> QED
      BY <3>1, <3>3
  <2>5. t = Least(q, cap)
    BY <1>2, <1>6, <2>1 DEF SlideLen
  <2>6. q >= w
    <3> SUFFICES ASSUME q + 1 <= w PROVE FALSE
      BY <2>4
    <3>1. a * (q + 1) <= a * w /\ a * (q + 1) = a * q + a /\ a * q \in Int
      BY <2>4, TimesMono
    <3> QED
      BY <2>2, <2>3, <2>4, <3>1
  <2>7. ASSUME NEW n \in Nat, n <= t PROVE SlideKv(a, c, w, n) <= b
    <3>1. n <= q
      BY <2>4, <2>5, <2>7 DEF Least
    <3>2. a * n <= a * q /\ a * n \in Int /\ a * q \in Int
      BY <2>4, <3>1, TimesMono
    <3>3. c * Least(w, n) <= x /\ c * Least(w, n) \in Int
      <4>1. Least(w, n) \in Int /\ Least(w, n) <= w
        BY DEF Least
      <4> QED
        BY <4>1, <1>2, TimesMono
    <3> QED
      BY <1>3, <2>4, <3>2, <3>3 DEF SlideKv
  <2>8. ASSUME NEW n \in Nat, n > t, n <= cap PROVE SlideKv(a, c, w, n) > b
    <3>1. n >= q + 1 /\ q + 1 \in Int
      BY <2>4, <2>5, <2>8 DEF Least
    <3>2. a * (q + 1) <= a * n /\ a * n \in Int /\ a * (q + 1) = a * q + a /\ a * q \in Int
      BY <2>4, <3>1, TimesMono
    <3>3. SlideKv(a, c, w, n) = a * n + x
      BY <1>1, <1>2, <2>4, <2>6, <3>1
    <3> QED
      BY <1>3, <2>4, <3>2, <3>3
  <2>9. t \in Nat
    BY <2>4, <2>5 DEF Least
  <2> QED
    BY <2>7, <2>8, <2>9 DEF SlideIs
<1> QED
  BY <1>2, <1>4, <1>5, <1>6

\* The sizes the vllm estimator starts from.
LEMMA KvTypes ==
  ASSUME NEW m, IsVllm(m)
  PROVE  /\ KvPerLayer(m) \in Nat /\ PerLayer(m) = 100 * KvPerLayer(m) /\ HybridKv(m) \in Nat
         /\ resolve_sliding_window(m).full \in Nat /\ resolve_sliding_window(m).sliding \in Nat
         /\ resolve_sliding_window(m).window = m.window
         /\ Base(m) \in Nat /\ CtxCap(m) \in Nat \ {0} /\ Target(m) \in Nat \ {0}
<1>0. /\ m.layers \in Nat \ {0} /\ m.types \in -1..m.layers /\ m.index \in Nat /\ m.files \in Nat /\ m.bins \in Nat
      /\ m.heads \in Nat /\ m.latent \in Nat /\ m.dtype \in Nat
      /\ m.pattern \in Nat /\ m.ctx \in Nat /\ m.attention \in Nat /\ m.max_len \in Nat
      /\ CpuFixed \in Nat /\ DefaultCtx \in Nat \ {0}
  BY ConstantTypes DEF IsVllm
<1>1. KvPerLayer(m) \in Nat /\ PerLayer(m) = 100 * KvPerLayer(m)
  <2>1. PICK x, y : /\ x = (IF m.latent # 0 THEN m.latent ELSE 2 * m.heads)
                    /\ y = (IF m.fp8 THEN 1 ELSE m.dtype)
    OBVIOUS
  <2>2. x \in Nat /\ y \in Nat
    BY <1>0, <2>1
  <2>3. KvPerLayer(m) = x * y /\ x * y \in Nat
    BY <2>1, <2>2 DEF KvPerLayer
  <2> QED
    BY <2>3 DEF PerLayer
<1>2. HybridKv(m) \in Nat
  BY <1>0, <1>1 DEF HybridKv
<1>3. PICK q : q = m.layers \div m.pattern
  OBVIOUS
<1>4. m.pattern > 0 => q \in Nat /\ q <= m.layers
  <2> SUFFICES ASSUME m.pattern > 0 PROVE q \in Nat /\ q <= m.layers
    OBVIOUS
  <2>1. PICK l, p : l = m.layers /\ p = m.pattern
    OBVIOUS
  <2>2. l \in Nat \ {0} /\ p \in Nat \ {0}
    BY <1>0, <2>1
  <2>3. q \in Int /\ p * q <= l /\ q >= 0
    BY <1>3, <2>1, <2>2, DivType
  <2>4. q * 1 <= q * p /\ q * p = p * q /\ q * p \in Int
    <3>1. q \in Nat /\ 1 <= p /\ 1 \in Int /\ p \in Int
      BY <2>2, <2>3
    <3>2. q * 1 <= q * p
      BY <3>1, TimesMono
    <3> QED
      BY <3>1, <3>2
  <2> QED
    BY <2>1, <2>2, <2>3, <2>4
<1>5. /\ resolve_sliding_window(m).full \in Nat /\ resolve_sliding_window(m).sliding \in Nat
      /\ resolve_sliding_window(m).window = m.window
  BY <1>0, <1>3, <1>4 DEF resolve_sliding_window
<1>6. Base(m) \in Nat
  BY <1>0 DEF Base, estimate_weight_footprint, Most
<1>7. CtxCap(m) \in Nat \ {0} /\ Target(m) \in Nat \ {0}
  BY <1>0 DEF CtxCap, Target
<1> QED
  BY <1>1, <1>2, <1>5, <1>6, <1>7

\* The length fits the budget and a block more does not.
SuggestedFits(m, b, len) ==
  /\ len \in Nat /\ len <= CtxCap(m)
  /\ seq_kv_bytes(m, len) \in Nat /\ seq_kv_bytes(m, len) <= b
  /\ len + BlockSize <= CtxCap(m) => seq_kv_bytes(m, len + BlockSize) > b

\* What _recommend_cpu_auto_gmu suggests is such a length, with and without a sliding window.
LEMMA SuggestedIs ==
  ASSUME NEW m, IsVllm(m), KvPerLayer(m) # 0, NEW hw, NEW b, b = kv_budget(m, hw), b \in Int, b > 0
  PROVE  SuggestedFits(m, b, Suggested(m, hw))
<1>1. /\ KvPerLayer(m) \in Nat \ {0} /\ PerLayer(m) = 100 * KvPerLayer(m)
      /\ CtxCap(m) \in Nat \ {0} /\ m.layers \in Nat \ {0} /\ BlockSize \in Nat \ {0}
      /\ m.window \in Nat /\ Slack \in Nat
  BY KvTypes, ConstantTypes DEF IsVllm
<1>2. PICK p, cap : p = PerLayer(m) /\ cap = CtxCap(m)
  OBVIOUS
<1>3. p \in Nat \ {0} /\ cap \in Nat \ {0}
  BY <1>1, <1>2
<1>4. PICK t : t = IF Slides(m) THEN fit_len_with_sliding(m, b, cap) ELSE b \div (p * m.layers)
  OBVIOUS
<1>5. Suggested(m, hw) = Least(Aligned(t), cap)
  BY <1>2, <1>4 DEF Suggested
<1>6. /\ t \in Nat
      /\ \A n \in Nat : seq_kv_bytes(m, n) \in Nat
      /\ \A n \in Nat : n <= t => seq_kv_bytes(m, n) <= b
      /\ \A n \in Nat : n > t /\ n <= cap => seq_kv_bytes(m, n) > b
  <2>1. CASE ~Slides(m)
    <3>1. PICK a : a = p * m.layers
      OBVIOUS
    <3>2. a \in Nat \ {0}
      BY <1>1, <1>3, <3>1
    <3>3. t = b \div a
      BY <1>4, <2>1, <3>1
    <3>4. \A n \in Nat : seq_kv_bytes(m, n) = a * n
      BY <1>2, <2>1, <3>1 DEF seq_kv_bytes
    <3>5. \A n \in Nat : a * n \in Nat
      BY <3>2
    <3>6. t \in Nat /\ (\A n \in Nat : n <= t => a * n <= b) /\ (\A n \in Nat : n > t => a * n > b)
      BY <3>2, <3>3, WholeFits
    <3> QED
      BY <3>4, <3>5, <3>6
  <2>2. CASE Slides(m)
    <3>1. PICK fu, sl : /\ fu = resolve_sliding_window(m).full
                        /\ sl = resolve_sliding_window(m).sliding
      OBVIOUS
    <3>2. fu \in Nat /\ sl \in Nat /\ sl > 0 /\ resolve_sliding_window(m).window = m.window
      BY <3>1, <2>2, KvTypes DEF Slides
    <3>3. PICK a, c, w : a = p * fu /\ c = p * sl /\ w = m.window + Slack
      OBVIOUS
    <3>4. a \in Nat /\ c \in Nat \ {0} /\ w \in Nat
      BY <1>1, <1>3, <3>2, <3>3
    <3>5. t = SlideLen(a, c, w, b, cap)
      BY <1>2, <1>4, <2>2, <3>1, <3>2, <3>3 DEF fit_len_with_sliding, SlideLen
    <3>6. ASSUME NEW n \in Nat PROVE seq_kv_bytes(m, n) = SlideKv(a, c, w, n) /\ SlideKv(a, c, w, n) \in Nat
      <4>1. PICK k : k = Least(w, n)
        OBVIOUS
      <4>2. k \in Nat
        BY <3>4, <4>1 DEF Least
      <4>3. seq_kv_bytes(m, n) = p * (fu * n + sl * k)
        BY <1>2, <2>2, <3>1, <3>2, <3>3, <4>1 DEF seq_kv_bytes
      <4>4. p * (fu * n + sl * k) = (p * fu) * n + (p * sl) * k
        BY <1>3, <3>2, <4>2
      <4>5. SlideKv(a, c, w, n) = (p * fu) * n + (p * sl) * k
        BY <3>3, <4>1 DEF SlideKv
      <4>6. a * n \in Nat /\ c * k \in Nat
        BY <3>4, <4>2
      <4> QED
        BY <3>3, <4>3, <4>4, <4>5, <4>6
    <3>7. SlideIs(a, c, w, b, cap, t)
      <4>1. cap \in Nat
        BY <1>3
      <4> QED
        BY <3>4, <3>5, <4>1, SlideFits
    <3> QED
      BY <3>6, <3>7 DEF SlideIs
  <2> QED
    BY <2>1, <2>2
<1>7. Aligned(t) \in Nat /\ Aligned(t) <= t /\ t < Aligned(t) + BlockSize
  BY <1>6, AlignedIs
<1>8. PICK len : len = Suggested(m, hw)
  OBVIOUS
<1>9. /\ len \in Nat /\ len <= cap /\ len <= t
      /\ len + BlockSize \in Nat
      /\ len + BlockSize <= cap => len + BlockSize > t
  BY <1>1, <1>3, <1>5, <1>6, <1>7, <1>8 DEF Least
<1> QED
  BY <1>2, <1>6, <1>8, <1>9 DEF SuggestedFits

\* Length and number of sequences fit the budget; neither a block nor a sequence more does.
HybridFits(m, b, fit) ==
  LET s0   == IF m.seqs # 0 THEN m.seqs ELSE MinSeqs
      used == 100 * m.state * fit.seqs + HybridKv(m) * fit.len
  IN /\ fit.len \in Nat /\ fit.seqs \in Nat /\ fit.len <= Target(m)
     /\ used <= b
     /\ fit.len + BlockSize <= Target(m) =>
          100 * m.state * s0 + HybridKv(m) * (fit.len + BlockSize) > b
     /\ m.seqs = 0 /\ fit.seqs < m.default_seqs => used + 100 * m.state > b

\* apply_hybrid_fit returns such a length and number, or nothing.
LEMMA HybridIs ==
  ASSUME NEW m, IsVllm(m), m.state # 0, NEW b \in Int,
         NEW fit, fit = apply_hybrid_fit(m, b, Target(m)), fit # NoFit
  PROVE  HybridFits(m, b, fit)
<1>1. /\ m.seqs \in Nat /\ MinSeqs \in Nat /\ m.state \in Nat \ {0} /\ m.default_seqs \in Nat
      /\ HybridKv(m) \in Nat /\ Target(m) \in Nat \ {0} /\ BlockSize \in Nat \ {0}
  BY KvTypes, ConstantTypes DEF IsVllm
<1>2. PICK s, h, tgt, s0 : /\ s = 100 * m.state /\ h = HybridKv(m) /\ tgt = Target(m)
                           /\ s0 = IF m.seqs # 0 THEN m.seqs ELSE MinSeqs
  OBVIOUS
<1>3. s \in Nat \ {0} /\ h \in Nat /\ tgt \in Nat \ {0} /\ s0 \in Nat /\ s * s0 \in Nat
  <2>1. s \in Nat \ {0} /\ h \in Nat /\ tgt \in Nat \ {0} /\ s0 \in Nat
    BY <1>1, <1>2
  <2> QED
    BY <2>1
<1>4. PICK c, whole : c = b - s * s0 /\ whole = (m.seqs = 0 /\ c >= tgt * h)
  OBVIOUS
<1>5. PICK len, extra : /\ len = (IF whole THEN tgt ELSE FitLen(m, c, tgt))
                        /\ extra = (c - len * h) \div s
  OBVIOUS
<1>6. fit = IF c <= 0 \/ (~whole /\ len < BlockSize) THEN NoFit
            ELSE [len |-> len, seqs |-> IF m.seqs # 0 THEN m.seqs
                                        ELSE Least(m.default_seqs, MinSeqs + Most(extra, 0))]
  BY <1>2, <1>4, <1>5, ZenonT(40) DEF apply_hybrid_fit
<1>7. ~(c <= 0 \/ (~whole /\ len < BlockSize))
  BY <1>6
<1>8. /\ fit.len = len
      /\ fit.seqs = IF m.seqs # 0 THEN m.seqs ELSE Least(m.default_seqs, MinSeqs + Most(extra, 0))
  BY <1>6, <1>7
<1>9. c \in Int /\ c > 0
  BY <1>3, <1>4, <1>7
<1>10. /\ len \in Nat /\ len <= tgt /\ h * len <= c
       /\ len + BlockSize <= tgt => h * (len + BlockSize) > c
  <2>1. CASE whole
    <3>1. len = tgt /\ c >= tgt * h
      BY <1>4, <1>5, <2>1, Zenon
    <3>2. tgt * h = h * tgt /\ h * tgt \in Nat
      BY <1>3
    <3> QED
      BY <1>1, <1>3, <1>9, <3>1, <3>2
  <2>2. CASE ~whole
    <3>1. PICK t : t = IF h > 0 THEN c \div h ELSE 0
      OBVIOUS
    <3>2. len = Least(Aligned(t), tgt) /\ len >= BlockSize
      <4>1. len = Least(Aligned(t), tgt)
        BY <1>2, <1>5, <2>2, <3>1 DEF FitLen
      <4>2. t \in Nat
        <5>1. CASE h > 0
          <6>1. h \in Nat \ {0} /\ t = c \div h
            BY <1>3, <3>1, <5>1
          <6> QED
            BY <1>9, <6>1, WholeFits
        <5>2. CASE ~(h > 0)
          BY <3>1, <5>2
        <5> QED
          BY <5>1, <5>2
      <4>3. len \in Int
        BY <1>3, <4>1, <4>2, AlignedIs DEF Least
      <4> QED
        BY <1>1, <1>7, <2>2, <4>1, <4>3
    <3>3. h \in Nat \ {0} /\ t = c \div h
      <4> SUFFICES ASSUME h = 0 PROVE FALSE
        BY <1>3, <3>1
      <4>1. t = 0
        BY <3>1
      <4>2. Aligned(t) \in Nat /\ Aligned(t) <= 0
        BY <4>1, AlignedIs
      <4> QED
        BY <1>1, <1>3, <3>2, <4>2 DEF Least
    <3>4. /\ t \in Nat
          /\ \A n \in Nat : n <= t => h * n <= c
          /\ \A n \in Nat : n > t => h * n > c
      BY <1>9, <3>3, WholeFits
    <3>5. Aligned(t) \in Nat /\ Aligned(t) <= t /\ t < Aligned(t) + BlockSize
      BY <3>4, AlignedIs
    <3>6. /\ len \in Nat /\ len <= tgt /\ len <= t /\ len + BlockSize \in Nat
          /\ len + BlockSize <= tgt => len + BlockSize > t
      BY <1>1, <1>3, <3>2, <3>4, <3>5 DEF Least
    <3> QED
      BY <3>4, <3>6
  <2> QED
    BY <2>1, <2>2
<1>11. PICK k : k = h * len
  OBVIOUS
<1>12. k \in Nat /\ k <= c /\ len * h = k
  BY <1>3, <1>10, <1>11
<1>13. extra \in Int /\ extra >= 0 /\ s * extra <= c - k /\ c - k < s * extra + s
  <2>1. PICK y : y = c - k
    OBVIOUS
  <2>2. y \in Int /\ y >= 0 /\ extra = y \div s
    BY <1>5, <1>9, <1>12, <2>1
  <2>3. extra \in Int /\ s * extra <= y /\ y < s * extra + s /\ extra >= 0
    BY <1>3, <2>2, DivType
  <2> QED
    BY <2>1, <2>3
<1>14. /\ fit.seqs \in Nat /\ s * fit.seqs \in Nat
       /\ s * fit.seqs + k <= b
       /\ m.seqs = 0 /\ fit.seqs < m.default_seqs => s * fit.seqs + k + s > b
  <2>1. CASE m.seqs # 0
    <3>1. fit.seqs = s0
      BY <1>2, <1>8, <2>1
    <3> QED
      BY <1>3, <1>4, <1>9, <1>12, <2>1, <3>1
  <2>2. CASE m.seqs = 0
    <3>0. Most(extra, 0) = extra
      BY <1>13 DEF Most
    <3>1. s0 = MinSeqs /\ fit.seqs = Least(m.default_seqs, s0 + extra)
      <4>1. s0 = MinSeqs /\ fit.seqs = Least(m.default_seqs, MinSeqs + Most(extra, 0))
        BY <1>2, <1>8, <2>2, Zenon
      <4> QED
        BY <3>0, <4>1, Zenon
    <3>2. fit.seqs \in Nat /\ fit.seqs <= s0 + extra /\ s0 + extra \in Int
      BY <1>1, <1>3, <1>13, <3>1 DEF Least
    <3>3. s * fit.seqs <= s * (s0 + extra) /\ s * fit.seqs \in Int
      <4>1. s \in Nat /\ fit.seqs \in Int
        BY <1>3, <3>2
      <4> QED
        BY <3>2, <4>1, TimesMono
    <3>4. s * (s0 + extra) = s * s0 + s * extra /\ s * extra \in Int
      BY <1>3, <1>13
    <3>5. s * fit.seqs + k <= b
      <4>1. PICK e, e0, es : e = s * fit.seqs /\ e0 = s * s0 /\ es = s * extra
        OBVIOUS
      <4>2. e <= e0 + es /\ e \in Int /\ e0 \in Nat /\ es \in Int /\ es <= c - k /\ c = b - e0
        BY <1>3, <1>4, <1>13, <3>3, <3>4, <4>1
      <4>3. e + k <= b
        BY <1>9, <1>12, <4>2
      <4> QED
        BY <4>1, <4>3
    <3>6. ASSUME fit.seqs < m.default_seqs PROVE s * fit.seqs + k + s > b
      <4>1. fit.seqs = s0 + extra
        BY <1>1, <1>3, <1>13, <3>1, <3>6 DEF Least
      <4>2. s * fit.seqs = s * s0 + s * extra
        BY <3>4, <4>1
      <4> QED
        BY <1>3, <1>4, <1>9, <1>12, <1>13, <3>4, <4>2
    <3>7. s * fit.seqs \in Nat
      BY <1>3, <3>2
    <3> QED
      BY <3>2, <3>5, <3>6, <3>7
  <2> QED
    BY <2>1, <2>2
<1>15. len + BlockSize <= tgt => s * s0 + h * (len + BlockSize) > b
  <2> SUFFICES ASSUME len + BlockSize <= tgt PROVE s * s0 + h * (len + BlockSize) > b
    OBVIOUS
  <2>1. PICK z : z = h * (len + BlockSize)
    OBVIOUS
  <2>2. z \in Int /\ z > c
    BY <1>1, <1>3, <1>10, <2>1
  <2>3. s * s0 + z > b
    BY <1>3, <1>4, <2>2
  <2> QED
    BY <2>1, <2>3
<1> QED
  BY <1>2, <1>8, <1>10, <1>11, <1>14, <1>15 DEF HybridFits

\* A reservation as a fraction of RAM, rounded to thousandths and kept in its bounds.
LEMMA GmuIs ==
  ASSUME NEW r \in Int, NEW ram \in Nat \ {0}, NEW g, g = cpu_gmu(r, ram)
  PROVE  /\ g \in Nat /\ g * ram \in Nat
         /\ r <= 80 * ram => g * ram + 5 * ram >= 100 * r
         /\ g * ram <= 100 * ram \/ g * ram <= 100 * r + 5 * ram
<1>1. PICK h, x : h = ram \div 2 /\ x = (10 * r + h) \div ram
  OBVIOUS
<1>2. h \in Int /\ 2 * h <= ram /\ ram <= 2 * h + 1
  BY <1>1
<1>3. PICK y : y = 10 * r + h
  OBVIOUS
<1>4. y \in Int /\ x = y \div ram
  BY <1>1, <1>2, <1>3
<1>5. x \in Int /\ ram * x <= y /\ y < ram * x + ram
  BY <1>4, DivType
<1>6. g = 10 * Least(Most(x, 10), 900)
  BY <1>1 DEF cpu_gmu
<1>7. PICK z : z = ram * x
  OBVIOUS
<1>8. z \in Int
  BY <1>5, <1>7
<1>9. g \in Nat /\ (g = 100 \/ g = 9000 \/ g = 10 * x) /\ (g = 9000 => x >= 900) /\ (g = 100 => x <= 10)
  BY <1>5, <1>6 DEF Least, Most
<1>10. g * ram \in Nat
  BY <1>9
<1>11. CASE g = 10 * x
  <2>1. g * ram = 10 * z
    BY <1>5, <1>7, <1>11
  <2> QED
    BY <1>2, <1>3, <1>5, <1>7, <1>8, <1>9, <1>10, <2>1
<1>12. CASE g = 100
  <2>1. g * ram = 100 * ram
    BY <1>12
  <2>2. z <= 10 * ram
    <3>1. ram * x <= ram * 10
      BY <1>5, <1>9, <1>12, TimesMono
    <3> QED
      BY <1>7, <3>1
  <2> QED
    BY <1>2, <1>3, <1>5, <1>7, <1>8, <1>9, <2>1, <2>2
<1>13. CASE g = 9000
  <2>1. g * ram = 9000 * ram
    BY <1>13
  <2>2. ram * 900 <= z
    <3>1. ram * 900 <= ram * x
      BY <1>5, <1>9, <1>13, TimesMono
    <3> QED
      BY <1>7, <3>1
  <2> QED
    BY <1>2, <1>3, <1>5, <1>7, <1>8, <1>9, <2>1, <2>2
<1> QED
  BY <1>9, <1>11, <1>12, <1>13

\* LargestFit, of one model, its hardware and its recommendation.
IsLargest(m, hw, rec) ==
  LET budget == kv_budget(m, hw)
      used   == IF m.state = 0 THEN seq_kv_bytes(m, rec.len)
                ELSE 100 * m.state * rec.seqs + HybridKv(m) * rec.len
      more   == IF m.state = 0 THEN seq_kv_bytes(m, rec.len + BlockSize)
                ELSE 100 * m.state * (IF m.seqs # 0 THEN m.seqs ELSE MinSeqs)
                       + HybridKv(m) * (rec.len + BlockSize)
      cap    == IF m.state = 0 THEN CtxCap(m) ELSE Target(m)
      takes  == rec.gmu * hw.ram
  IN /\ used <= budget
     /\ rec.len <= cap
     /\ rec.len + BlockSize <= cap => more > budget
     /\ m.state # 0 /\ m.seqs = 0 /\ rec.seqs < m.default_seqs => used + 100 * m.state > budget
     /\ hw.available <= hw.ram => takes + 5 * hw.ram >= 100 * (Base(m) + used)
     /\ 50 * hw.available >= hw.ram => takes <= 8000 * hw.available + 5 * hw.ram

\* The fraction covers what is used and stays within 80 % of what is free.
Covers(hw, base, used, g) ==
  /\ g \in Nat
  /\ hw.available <= hw.ram => g * hw.ram + 5 * hw.ram >= 100 * (base + used)
  /\ 50 * hw.available >= hw.ram => g * hw.ram <= 8000 * hw.available + 5 * hw.ram

\* A reservation between what is used and the whole budget gives such a fraction.
LEMMA CoversUse ==
  ASSUME NEW hw \in Hardware, hw.ram > 0,
         NEW base \in Nat, NEW b \in Int, b = 80 * sizing_ram_bytes(hw) - base,
         NEW used \in Int, NEW r \in Int, r >= base + used, r <= base + b,
         NEW g, g = cpu_gmu(r, hw.ram)
  PROVE  Covers(hw, base, used, g)
<1>1. PICK ram, a, t : ram = hw.ram /\ a = hw.available /\ t = g * hw.ram
  OBVIOUS
<1>2. ram \in Nat \ {0} /\ a \in Int
  BY <1>1 DEF Hardware
<1>3. /\ g \in Nat /\ t \in Nat
      /\ r <= 80 * ram => t + 5 * ram >= 100 * r
      /\ t <= 100 * ram \/ t <= 100 * r + 5 * ram
  BY <1>1, <1>2, GmuIs
<1>4. r <= 80 * (IF a # 0 THEN a ELSE ram)
  BY <1>1, <1>2 DEF sizing_ram_bytes
<1>5. a <= ram => t + 5 * ram >= 100 * (base + used)
  BY <1>2, <1>3, <1>4
<1>6. 50 * a >= ram => t <= 8000 * a + 5 * ram
  BY <1>2, <1>3, <1>4
<1> QED
  BY <1>1, <1>3, <1>5, <1>6 DEF Covers

\* recommend_cpu, with and without recurrent state, returns the largest fit.
LEMMA CpuLargest ==
  ASSUME NEW m, IsVllm(m), NEW hw \in Hardware, NEW rec, rec = recommend_cpu(m, hw), rec.fit = "sized"
  PROVE  IsLargest(m, hw, rec) /\ rec.gmu \in Nat
<1>1. PICK b, base : b = kv_budget(m, hw) /\ base = Base(m)
  OBVIOUS
<1>2. base \in Nat /\ b = 80 * sizing_ram_bytes(hw) - base /\ b \in Int
  <2>1. base \in Nat
    BY <1>1, KvTypes
  <2>2. sizing_ram_bytes(hw) \in Int
    BY DEF sizing_ram_bytes, Hardware
  <2> QED
    BY <1>1, <2>1, <2>2 DEF kv_budget
<1>3. KvPerLayer(m) # 0 /\ hw.ram > 0 /\ b > 0
  <2>1. ~(KvPerLayer(m) = 0 \/ hw.ram <= 0 \/ kv_budget(m, hw) <= 0)
    BY DEF recommend_cpu, Declined
  <2> QED
    BY <1>1, <1>2, <2>1 DEF Hardware
<1>4. CASE m.state = 0
  <2>1. PICK len, u, r : /\ len = Suggested(m, hw) /\ u = seq_kv_bytes(m, len)
                         /\ r = base + Least(b, 4 * u)
    OBVIOUS
  <2>2. rec.len = len /\ rec.gmu = cpu_gmu(r, hw.ram)
    <3>1. r = CpuReservation(m, hw)
      BY <1>1, <2>1 DEF CpuReservation
    <3>2. rec = [fit |-> "sized", gmu |-> cpu_gmu(r, hw.ram), seqs |-> 0, len |-> len]
      BY <1>4, <2>1, <3>1 DEF recommend_cpu, Declined
    <3> QED
      BY <3>2
  <2>3. SuggestedFits(m, b, len)
    BY <1>1, <1>2, <1>3, <2>1, SuggestedIs
  <2>4. u \in Nat /\ u <= b
    BY <2>1, <2>3 DEF SuggestedFits
  <2>5. r \in Int /\ r >= base + u /\ r <= base + b
    BY <1>2, <2>1, <2>4 DEF Least
  <2>6. Covers(hw, base, u, rec.gmu)
    <3>1. u \in Int
      BY <2>4
    <3> QED
      BY <1>2, <1>3, <2>2, <2>5, <3>1, CoversUse
  <2> QED
    BY <1>1, <1>4, <2>1, <2>2, <2>3, <2>6 DEF IsLargest, SuggestedFits, Covers
<1>5. CASE m.state # 0
  <2>1. PICK fit : fit = apply_hybrid_fit(m, b, Target(m))
    OBVIOUS
  <2>2. PICK r : r = HybridReservation(m, hw)
    OBVIOUS
  <2>3. rec = IF fit = NoFit THEN Declined
              ELSE [fit |-> "sized", gmu |-> cpu_gmu(r, hw.ram), seqs |-> fit.seqs, len |-> fit.len]
    BY <1>1, <1>3, <1>5, <2>1, <2>2 DEF recommend_cpu, Hardware, Declined
  <2>4. fit # NoFit /\ rec.len = fit.len /\ rec.seqs = fit.seqs /\ rec.gmu = cpu_gmu(r, hw.ram)
    BY <2>3 DEF Declined
  <2>5. HybridFits(m, b, fit)
    BY <1>2, <1>5, <2>1, <2>4, HybridIs
  <2>6. PICK st, k : st = 100 * m.state * fit.seqs /\ k = HybridKv(m) * fit.len
    OBVIOUS
  <2>7. st \in Nat /\ k \in Nat /\ st + k <= b
    <3>1. m.state \in Nat /\ HybridKv(m) \in Nat /\ fit.len \in Nat /\ fit.seqs \in Nat
      BY <2>5, KvTypes DEF IsVllm, HybridFits
    <3>2. st \in Nat /\ k \in Nat
      BY <2>6, <3>1
    <3> QED
      BY <2>5, <2>6, <3>2 DEF HybridFits
  <2>8. r = base + st + Most(0, Least(b - st, 4 * k))
    <3>1. r = base + st + Most(0, Least(b - st, 4 * HybridKv(m) * fit.len))
      BY <1>1, <2>1, <2>2, <2>6 DEF HybridReservation
    <3>2. 4 * HybridKv(m) * fit.len = 4 * k
      BY <2>5, <2>6, KvTypes DEF HybridFits
    <3> QED
      BY <3>1, <3>2
  <2>9. r \in Int /\ r >= base + (st + k) /\ r <= base + b
    BY <1>2, <2>7, <2>8 DEF Least, Most
  <2>10. Covers(hw, base, st + k, rec.gmu)
    <3>1. PICK u : u = st + k
      OBVIOUS
    <3>2. u \in Int /\ r >= base + u
      BY <2>7, <2>9, <3>1
    <3>3. Covers(hw, base, u, rec.gmu)
      BY <1>2, <1>3, <2>4, <2>9, <3>2, CoversUse
    <3> QED
      BY <3>1, <3>3
  <2> QED
    BY <1>1, <1>5, <2>4, <2>5, <2>6, <2>10 DEF IsLargest, HybridFits, Covers
<1> QED
  BY <1>4, <1>5

-----------------------------------------------------------------------------
(* What a load takes.                                                        *)

\* MLA's workspace is a number.
LEMMA WorkspaceType ==
  ASSUME NEW m, IsVllm(m)
  PROVE  Workspace(m) \in Nat /\ PrefillWorkspace(m) \in Nat
<1>1. /\ m.seqs \in Nat /\ m.default_seqs \in Nat /\ m.workspace \in Nat /\ BlockSize \in Nat
      /\ RowCap \in Nat /\ Target(m) \in Nat
  BY KvTypes, ConstantTypes DEF IsVllm
<1>2. PICK p, rows : /\ p = (IF m.seqs # 0 THEN m.seqs ELSE m.default_seqs) * BlockSize
                     /\ rows = Most(Least(Most(8 * Target(m), 4 * p), RowCap), p)
  OBVIOUS
<1>3. p \in Nat
  BY <1>1, <1>2
<1>4. rows \in Nat
  BY <1>1, <1>2, <1>3 DEF Most, Least
<1>5. Workspace(m) = rows * m.workspace
  BY <1>2 DEF Workspace
<1>6. rows * m.workspace \in Nat
  BY <1>1, <1>4
<1> QED
  BY <1>5, <1>6 DEF PrefillWorkspace

\* gpu_memory_utilization is a number, whichever estimator it comes from.
LEMMA VllmGmu ==
  ASSUME NEW m, IsVllm(m), NEW hw \in Hardware,
         NEW rec, rec = IF m.preflight THEN VllmPreflight(m, hw) ELSE Declined
  PROVE  resolve_gpu_memory_utilization(m, rec) \in Nat
<1>1. m.share \in Nat
  BY DEF IsVllm
<1>2. default_gpu_memory_utilization(m) \in Nat
  BY DEF default_gpu_memory_utilization
<1>3. rec.fit = "sized" => rec.gmu \in Nat
  <2> SUFFICES ASSUME rec.fit = "sized" PROVE rec.gmu \in Nat
    OBVIOUS
  <2>1. rec = VllmPreflight(m, hw)
    BY DEF Declined
  <2>2. CASE m.share = 0
    <3>1. rec = recommend_cpu(m, hw)
      BY <2>1, <2>2 DEF VllmPreflight
    <3> QED
      BY <3>1, CpuLargest
  <2>3. CASE m.share # 0
    <3>1. rec = recommend_gpu(m, hw)
      BY <2>1, <2>3 DEF VllmPreflight
    <3>2. hw.gpu.total # 0 /\ rec.gmu = mla_gpu_memory_utilization(m, hw)
      BY <3>1 DEF recommend_gpu, Declined
    <3>3. PICK tot, x, u : /\ tot = hw.gpu.total /\ x = 11000 * Workspace(m) + (hw.gpu.total \div 2)
                           /\ u = resolve_gpu_memory_utilization(m, Declined)
      OBVIOUS
    <3>4. tot \in Nat \ {0} /\ x \in Int
      BY <3>2, <3>3, WorkspaceType DEF Hardware
    <3>5. u \in Nat
      BY <1>1, <1>2, <3>3 DEF resolve_gpu_memory_utilization, Declined
    <3>6. x \div tot \in Int
      BY <3>4, DivType
    <3>7. rec.gmu = Most(u - x \div tot, 100)
      BY <3>2, <3>3 DEF mla_gpu_memory_utilization
    <3> QED
      BY <3>5, <3>6, <3>7 DEF Most
  <2> QED
    BY <2>2, <2>3
<1> QED
  BY <1>1, <1>2, <1>3 DEF resolve_gpu_memory_utilization

\* What a load takes: nothing of a GPU without a share, and no more than a share it keeps.
TakesOK(m, late, rec, takes) ==
  /\ takes.ram \in Nat /\ takes.vram \in Nat
  /\ m.share = 0 => takes.vram = 0
  /\ ~late /\ KeepsShare(m, rec) /\ GpuSeen => 100 * takes.vram <= m.share * node.vram

\* What a llama_server model takes.
LEMMA LlamaTakes ==
  ASSUME NEW m, IsLlama(m), m.loader = "llama_server", node \in Nodes,
         NEW hw, NEW late, NEW rec, LlamaInv(m, hw, late, rec)
  PROVE  TakesOK(m, late, rec, Takes(m, hw, rec))
<1>1. PICK need : need = Holds(m, MergedCtx(m, rec) * m.parallel)
  OBVIOUS
<1>2. need \in Nat
  <2>1. MergedCtx(m, rec) \in Nat
    BY ConstantTypes DEF MergedCtx, IsLlama, LlamaInv
  <2>2. m.weights \in Nat /\ m.kv \in Nat /\ m.parallel \in Nat
    BY DEF IsLlama
  <2>3. PICK c : c = MergedCtx(m, rec) * m.parallel
    OBVIOUS
  <2>4. c \in Nat
    BY <2>1, <2>2, <2>3
  <2>5. need = m.weights + m.kv * c /\ m.kv * c \in Nat
    BY <1>1, <2>2, <2>3, <2>4 DEF Holds
  <2> QED
    BY <2>2, <2>5
<1>3. PICK takes : takes = Takes(m, hw, rec)
  OBVIOUS
<1>4. takes = IF m.share = 0 THEN [ram |-> need, vram |-> 0]
              ELSE [ram |-> 0, vram |-> IF rec.fit = "sized" THEN Least(need, rec.leaves) ELSE need]
  BY <1>1, <1>3 DEF Takes
<1>5. CASE m.share = 0
  <2>1. ~KeepsShare(m, rec)
    BY <1>5 DEF KeepsShare, Fractional
  <2> QED
    BY <1>2, <1>3, <1>4, <1>5, <2>1 DEF TakesOK
<1>6. CASE m.share # 0
  <2>1. takes.ram = 0 /\ takes.vram = IF rec.fit = "sized" THEN Least(need, rec.leaves) ELSE need
    BY <1>4, <1>6
  <2>2. takes.vram \in Nat /\ (rec.fit = "sized" => rec.leaves \in Nat /\ takes.vram <= rec.leaves)
    BY <1>2, <2>1 DEF LlamaInv, Least
  <2>3. ASSUME ~late, KeepsShare(m, rec), GpuSeen PROVE 100 * takes.vram <= m.share * node.vram
    <3>1. rec.fit = "sized" /\ Fractional(m)
      BY <2>3 DEF KeepsShare
    <3>2. 100 * rec.leaves <= m.share * node.vram
      BY <2>3, <3>1 DEF LlamaInv
    <3>3. PICK x : x = m.share * node.vram
      OBVIOUS
    <3>4. x \in Nat
      BY <3>3, LlamaShare, NodeType
    <3>5. 100 * takes.vram <= x
      BY <2>2, <3>1, <3>2, <3>3, <3>4
    <3> QED
      BY <3>3, <3>5
  <2> QED
    BY <1>3, <1>6, <2>1, <2>2, <2>3 DEF TakesOK
<1> QED
  BY <1>5, <1>6

\* What a vllm model takes.
LEMMA VllmTakes ==
  ASSUME NEW m, IsVllm(m), m.loader = "vllm", node \in Nodes,
         NEW hw \in Hardware, NEW late,
         NEW rec, rec = IF m.preflight THEN VllmPreflight(m, hw) ELSE Declined
  PROVE  TakesOK(m, late, rec, Takes(m, hw, rec))
<1>1. PICK g, takes : g = resolve_gpu_memory_utilization(m, rec) /\ takes = Takes(m, hw, rec)
  OBVIOUS
<1>2. g \in Nat
  BY <1>1, VllmGmu
<1>3. hw.ram \in Nat /\ node.vram \in Nat /\ PrefillWorkspace(m) \in Nat
  BY NodeType, WorkspaceType DEF Hardware
<1>4. PICK x, y : x = g * hw.ram /\ y = g * node.vram
  OBVIOUS
<1>5. x \in Nat /\ y \in Nat
  BY <1>2, <1>3, <1>4
<1>6. x \div 10000 \in Nat /\ y \div 10000 \in Nat /\ 10000 * (y \div 10000) <= y
  BY <1>5
<1>7. takes = IF m.share = 0 THEN [ram |-> x \div 10000, vram |-> 0]
              ELSE [ram |-> 0, vram |-> y \div 10000 + PrefillWorkspace(m)]
  BY <1>1, <1>4 DEF Takes
<1>8. CASE m.share = 0
  <2>1. ~KeepsShare(m, rec)
    BY <1>8 DEF KeepsShare, Fractional
  <2> QED
    BY <1>1, <1>6, <1>7, <1>8, <2>1 DEF TakesOK
<1>9. CASE m.share # 0
  <2>1. takes.ram = 0 /\ takes.vram = y \div 10000 + PrefillWorkspace(m)
    BY <1>7, <1>9
  <2>2. ASSUME KeepsShare(m, rec) PROVE 100 * takes.vram <= m.share * node.vram
    <3>1. Fractional(m) /\ m.latent = 0
      BY <2>2 DEF KeepsShare
    <3>2. PrefillWorkspace(m) = 0 /\ g = 100 * m.share
      BY <1>1, <3>1 DEF PrefillWorkspace, resolve_gpu_memory_utilization
    <3>3. PICK s, z : s = m.share /\ z = m.share * node.vram
      OBVIOUS
    <3>4. s \in Nat
      BY <3>3 DEF IsVllm
    <3>5. z \in Nat /\ y = 100 * z
      BY <1>3, <1>4, <3>2, <3>3, <3>4
    <3>6. PICK q : q = y \div 10000
      OBVIOUS
    <3>7. q \in Nat /\ 10000 * q <= 100 * z
      BY <1>6, <3>5, <3>6
    <3>8. 100 * q <= z
      BY <3>5, <3>7
    <3>9. takes.vram = q
      BY <2>1, <3>2, <3>6, <3>7
    <3> QED
      BY <3>3, <3>8, <3>9
  <2> QED
    BY <1>1, <1>3, <1>6, <1>9, <2>1, <2>2 DEF TakesOK
<1> QED
  BY <1>8, <1>9

\* What any model takes.
LEMMA TakesFit ==
  ASSUME NEW m \in FleetModels, node \in Nodes, NEW hw, ProbeInv(hw), NEW late, NEW rec,
         RecInv(m, hw, late, rec)
  PROVE  TakesOK(m, late, rec, Takes(m, hw, rec))
<1>1. hw \in Hardware
  BY DEF ProbeInv
<1>2. CASE m.loader = "llama_server"
  BY <1>2, ModelTypes, LlamaTakes DEF RecInv
<1>3. CASE m.loader = "vllm"
  BY <1>1, <1>3, ModelTypes, VllmTakes DEF RecInv
<1>4. CASE m.loader = "stable_diffusion_cpp"
  <2>1. PICK takes : takes = Takes(m, hw, rec)
    OBVIOUS
  <2>2. m.weights \in Nat /\ m.tiled \in Nat /\ m.untiled \in Nat
    BY <1>4, ModelTypes
  <2>3. takes = [ram |-> m.weights + (IF rec.fit = "sized" THEN m.tiled ELSE m.untiled), vram |-> 0]
    BY <1>4, <2>1 DEF Takes
  <2>4. takes.ram \in Nat /\ takes.vram = 0
    BY <2>2, <2>3
  <2>5. PICK x : x = m.share * node.vram
    OBVIOUS
  <2>6. x \in Nat
    <3>1. m.share \in Int /\ m.share >= 0
      BY ShareType
    <3>2. node.vram \in Nat
      BY NodeType
    <3> QED
      BY <2>5, <3>1, <3>2
  <2>7. 100 * takes.vram <= x
    BY <2>4, <2>6
  <2> QED
    BY <2>1, <2>4, <2>5, <2>7 DEF TakesOK
<1> QED
  BY <1>2, <1>3, <1>4, ModelTypes

-----------------------------------------------------------------------------
(* The steps.                                                                *)

\* The RAM that a sequence of loaded models uses.
RamOf(s) == SumFunction([i \in DOMAIN s |-> s[i].ram])

\* The sequence after a model was unloaded.
LEMMA RemoveIs ==
  ASSUME NEW s \in Seq(Held), NEW r \in DOMAIN s, NEW t, t = RemoveAt(s, r)
  PROVE  /\ t \in Seq(Held) /\ Len(t) = Len(s) - 1
         /\ \A i \in 1..(Len(s) - 1) : t[i] = IF i < r THEN s[i] ELSE s[i + 1]
BY SMTT(30) DEF RemoveAt

\* Less RAM is used after a model was unloaded.
LEMMA RemoveUses ==
  ASSUME NEW s \in Seq(Held), NEW r \in DOMAIN s, NEW t, t = RemoveAt(s, r)
  PROVE  RamOf(t) \in Int /\ RamOf(s) \in Int /\ RamOf(t) <= RamOf(s)
<1>1. PICK n : n = Len(s)
  OBVIOUS
<1>2. n \in Nat /\ DOMAIN s = 1..n /\ r \in 1..n /\ \A i \in 1..n : s[i] \in Held
  BY <1>1
<1>3. /\ t \in Seq(Held) /\ Len(t) = n - 1
      /\ \A i \in 1..(n - 1) : t[i] = IF i < r THEN s[i] ELSE s[i + 1]
  BY <1>1, RemoveIs
<1>4. DOMAIN t = 1..(n - 1) /\ \A i \in 1..(n - 1) : t[i] \in Held
  BY <1>3
<1>5. PICK w, v : w = [i \in 1..n |-> s[i].ram] /\ v = [i \in 1..(n - 1) |-> t[i].ram]
  OBVIOUS
<1>6. w \in [1..n -> Int] /\ v \in [1..(n - 1) -> Int] /\ w[r] \in Nat
  <2>1. \A i \in 1..n : s[i].ram \in Nat
    BY <1>2 DEF Held
  <2>2. \A i \in 1..(n - 1) : t[i].ram \in Nat
    BY <1>4 DEF Held
  <2> QED
    BY <1>2, <1>5, <2>1, <2>2
<1>7. ASSUME NEW i \in 1..(n - 1) PROVE v[i] = IF i < r THEN w[i] ELSE w[i + 1]
  <2>1. v[i] = t[i].ram /\ i \in 1..n /\ i + 1 \in 1..n
    BY <1>2, <1>5
  <2>2. w[i] = s[i].ram /\ w[i + 1] = s[i + 1].ram
    BY <1>5, <2>1
  <2>3. t[i] = IF i < r THEN s[i] ELSE s[i + 1]
    BY <1>3
  <2> QED
    BY <2>1, <2>2, <2>3
<1>8. SumFunction(w) = SumFunction(v) + w[r] /\ SumFunction(v) \in Int
  BY <1>2, <1>6, <1>7, SumRemove
<1>9. RamOf(s) = SumFunction(w) /\ RamOf(t) = SumFunction(v)
  BY <1>2, <1>4, <1>5 DEF RamOf
<1> QED
  BY <1>6, <1>8, <1>9

\* RAM in use after a model was loaded.
LEMMA AppendUses ==
  ASSUME NEW s \in Seq(Held), NEW e \in Held, NEW t, t = Append(s, e)
  PROVE  RamOf(t) = RamOf(s) + e.ram /\ RamOf(s) \in Int /\ e.ram \in Nat
<1>1. PICK n : n = Len(s)
  OBVIOUS
<1>2. n \in Nat /\ DOMAIN s = 1..n /\ \A i \in 1..n : s[i] \in Held
  BY <1>1
<1>3. DOMAIN t = 1..(n + 1) /\ (\A i \in 1..n : t[i] = s[i]) /\ t[n + 1] = e
  BY <1>1, <1>2
<1>4. PICK w, v : w = [i \in 1..n |-> s[i].ram] /\ v = [i \in 1..(n + 1) |-> t[i].ram]
  OBVIOUS
<1>5. e.ram \in Nat /\ \A i \in 1..n : s[i].ram \in Nat
  BY <1>2 DEF Held
<1>6. w \in [1..n -> Int]
  BY <1>4, <1>5
<1>7. \A i \in 1..(n + 1) : t[i].ram \in Int
  <2> SUFFICES ASSUME NEW i \in 1..(n + 1) PROVE t[i].ram \in Int
    OBVIOUS
  <2>1. CASE i \in 1..n
    <3>1. t[i] = s[i] /\ s[i].ram \in Nat
      BY <1>3, <1>5, <2>1
    <3>2. s[i].ram \in Int
      BY <3>1
    <3> QED
      BY <3>1, <3>2, Zenon
  <2>2. CASE i = n + 1
    BY <1>3, <1>5, <2>2
  <2> QED
    BY <1>2, <2>1, <2>2
<1>8. v \in [1..(n + 1) -> Int] /\ v[n + 1] = e.ram /\ \A i \in 1..n : v[i] = w[i]
  BY <1>2, <1>3, <1>4, <1>7
<1>9. SumFunction(v) = SumFunction(w) + v[n + 1] /\ SumFunction(w) \in Int
  BY <1>2, <1>6, <1>8, SumAppend
<1>10. RamOf(s) = SumFunction(w) /\ RamOf(t) = SumFunction(v)
  BY <1>2, <1>3, <1>4 DEF RamOf
<1> QED
  BY <1>5, <1>8, <1>9, <1>10

\* The invariant holds at first: nothing is loaded.
LEMMA PreflightInitInv ==
  ASSUME PreflightInit PROVE PreflightInv
BY DEF PreflightInit, PreflightInv, LoadedInv, JobInv

\* The job in each of its steps.
LEMMA JobShapes ==
  ASSUME JobInv
  PROVE  /\ job.step = "probed" =>
              \E m \in fleet, late \in BOOLEAN : \E hw :
                /\ job = Probed(m, hw, late)
                /\ ProbeInv(hw) /\ (~late => FreeSeen(hw))
         /\ job.step = "sized" =>
              \E m \in fleet, late \in BOOLEAN : \E hw, rec :
                /\ job = SizedJob(m, hw, late, rec)
                /\ ProbeInv(hw) /\ RecInv(m, hw, late, rec)
         /\ job.step \in {"none", "probed", "sized"} /\ (job.step = "none" => job = NoJob)
<1>1. CASE job = NoJob
  BY <1>1 DEF NoJob
<1>2. CASE \E m \in fleet, late \in BOOLEAN : \E hw :
             /\ job = Probed(m, hw, late)
             /\ ProbeInv(hw) /\ (~late => FreeSeen(hw))
  <2>1. job.step = "probed"
    BY <1>2 DEF Probed
  <2> QED
    BY <1>2, <2>1
<1>3. CASE \E m \in fleet, late \in BOOLEAN : \E hw, rec :
             /\ job = SizedJob(m, hw, late, rec)
             /\ ProbeInv(hw) /\ RecInv(m, hw, late, rec)
  <2>1. job.step = "sized"
    BY <1>3 DEF SizedJob
  <2> QED
    BY <1>3, <2>1
<1> QED
  BY <1>1, <1>2, <1>3 DEF JobInv

\* A probe keeps the invariant.
LEMMA ProbesStep ==
  ASSUME PreflightInv, NEW m \in fleet, Probes(m) PROVE PreflightInv'
<1>1. UNCHANGED <<node, fleet, loaded>>
  BY DEF Probes
<1>2. PICK b, hw : b = (m.loader = "llama_server") /\ hw = discover_hardware(b)
  OBVIOUS
<1>3. b \in BOOLEAN
  BY <1>2
<1>4. ProbeInv(hw) /\ FreeSeen(hw)
  BY <1>2, <1>3, ProbesFit DEF PreflightInv, LoadedInv
<1>5. job' = Probed(m, hw, FALSE)
  BY <1>2 DEF Probes, Probed
<1>6. ProbeInv(hw)' /\ FreeSeen(hw)'
  BY <1>1, <1>4 DEF ProbeInv, FreeSeen, GpuSeen, UsedRam, UsedVram, UsageRead
<1>7. JobInv'
  BY <1>1, <1>5, <1>6 DEF JobInv
<1>8. LoadedInv'
  BY <1>1 DEF PreflightInv, LoadedInv, GpuSeen
<1> QED
  BY <1>1, <1>7, <1>8 DEF PreflightInv

\* An estimator keeps the invariant.
LEMMA SizesStep ==
  ASSUME PreflightInv, Sizes PROVE PreflightInv'
<1>1. UNCHANGED <<node, fleet, loaded>> /\ job.step = "probed"
  BY DEF Sizes
<1>2. PICK m \in fleet, late \in BOOLEAN : \E hw :
        /\ job = Probed(m, hw, late)
        /\ ProbeInv(hw) /\ (~late => FreeSeen(hw))
  BY <1>1, JobShapes DEF PreflightInv
<1>3. PICK hw : job = Probed(m, hw, late) /\ ProbeInv(hw) /\ (~late => FreeSeen(hw))
  BY <1>2
<1>4. PICK rec : rec = run_preflight(m, hw)
  OBVIOUS
<1>5. job.m = m /\ job.hw = hw /\ job.late = late
  BY <1>3 DEF Probed
<1>6. job' = NoJob \/ job' = SizedJob(m, hw, late, rec)
  BY <1>4, <1>5 DEF Sizes, SizedJob
<1>7. m \in FleetModels /\ node \in Nodes /\ loaded \in Seq(Held)
  BY DEF PreflightInv, LoadedInv, FleetModels
<1>8. RecInv(m, hw, late, rec)
  <2>1. m.loader = "llama_server" => LlamaInv(m, hw, late, rec)
    BY <1>3, <1>4, <1>7, ModelTypes, LlamaFits
  <2>2. m.loader = "vllm" => rec = IF m.preflight THEN VllmPreflight(m, hw) ELSE Declined
    BY <1>4 DEF run_preflight
  <2> QED
    BY <2>1, <2>2 DEF RecInv
<1>9. ProbeInv(hw)' /\ RecInv(m, hw, late, rec)'
  BY <1>1, <1>3, <1>8 DEF ProbeInv, RecInv, LlamaInv, GpuSeen, UsedRam, UsedVram, UsageRead
<1>10. JobInv'
  BY <1>1, <1>6, <1>9 DEF JobInv
<1>11. LoadedInv'
  BY <1>1 DEF PreflightInv, LoadedInv, GpuSeen
<1> QED
  BY <1>1, <1>10, <1>11 DEF PreflightInv

\* A load keeps the invariant: what it takes is what it was sized for, or it raises.
LEMMA LoadsStep ==
  ASSUME PreflightInv, Loads PROVE PreflightInv'
<1>1. UNCHANGED <<node, fleet>> /\ job.step = "sized" /\ job' = NoJob
  BY DEF Loads
<1>2. PICK m \in fleet, late \in BOOLEAN : \E hw, rec :
        /\ job = SizedJob(m, hw, late, rec)
        /\ ProbeInv(hw) /\ RecInv(m, hw, late, rec)
  BY <1>1, JobShapes DEF PreflightInv
<1>3. PICK hw, rec : job = SizedJob(m, hw, late, rec) /\ ProbeInv(hw) /\ RecInv(m, hw, late, rec)
  BY <1>2
<1>4. m \in FleetModels /\ node \in Nodes /\ loaded \in Seq(Held)
  BY DEF PreflightInv, LoadedInv, FleetModels
<1>5. PICK takes : takes = Takes(m, hw, rec)
  OBVIOUS
<1>6. TakesOK(m, late, rec, takes)
  BY <1>3, <1>4, <1>5, TakesFit
<1>7. PICK e : e = [ram |-> takes.ram, vram |-> takes.vram, m |-> m,
                    kept |-> ~late /\ KeepsShare(m, rec)]
  OBVIOUS
<1>8. loaded' = Append(loaded, e) \/ loaded' = loaded
  <2>1. job.m = m /\ job.hw = hw /\ job.rec = rec /\ job.late = late
    BY <1>3 DEF SizedJob
  <2> QED
    BY <1>5, <1>7, <2>1 DEF Loads
<1>9. e \in Held
  <2>1. (~late /\ KeepsShare(m, rec)) \in BOOLEAN
    OBVIOUS
  <2> QED
    BY <1>4, <1>6, <1>7, <2>1 DEF Held, TakesOK
<1>10. /\ e.m.share = 0 => e.vram = 0
       /\ e.kept /\ GpuSeen => 100 * e.vram <= e.m.share * node.vram
  BY <1>6, <1>7 DEF TakesOK
<1>11. LoadedInv'
  <2>1. CASE loaded' = loaded
    BY <1>1, <2>1 DEF PreflightInv, LoadedInv, GpuSeen
  <2>2. CASE loaded' = Append(loaded, e)
    <3>1. loaded' \in Seq(Held)
      BY <1>4, <1>9, <2>2
    <3>2. ASSUME NEW i \in DOMAIN loaded'
          PROVE  /\ loaded'[i].m.share = 0 => loaded'[i].vram = 0
                 /\ loaded'[i].kept /\ GpuSeen => 100 * loaded'[i].vram <= loaded'[i].m.share * node.vram
      <4>1. (i \in DOMAIN loaded /\ loaded'[i] = loaded[i]) \/ loaded'[i] = e
        BY <1>4, <2>2, <3>2
      <4>2. CASE loaded'[i] = e
        BY <1>10, <4>2
      <4>3. CASE i \in DOMAIN loaded /\ loaded'[i] = loaded[i]
        BY <4>3 DEF PreflightInv, LoadedInv
      <4> QED
        BY <4>1, <4>2, <4>3
    <3> QED
      BY <1>1, <3>1, <3>2 DEF LoadedInv, GpuSeen
  <2> QED
    BY <1>8, <2>1, <2>2
<1>12. JobInv'
  BY <1>1 DEF JobInv
<1> QED
  BY <1>1, <1>4, <1>11, <1>12 DEF PreflightInv

\* An unload keeps the invariant, also between the probe and the load of another.
LEMMA UnloadsStep ==
  ASSUME PreflightInv, Unloads PROVE PreflightInv'
<1>1. UNCHANGED <<node, fleet>>
  BY DEF Unloads
<1>2. PICK r \in DOMAIN loaded : loaded' = RemoveAt(loaded, r)
  BY DEF Unloads
<1>3. loaded \in Seq(Held) /\ node \in Nodes
  BY DEF PreflightInv, LoadedInv
<1>4. PICK s, t : s = loaded /\ t = loaded'
  OBVIOUS
<1>5. /\ t \in Seq(Held) /\ Len(t) = Len(s) - 1
      /\ \A i \in 1..(Len(s) - 1) : t[i] = IF i < r THEN s[i] ELSE s[i + 1]
  BY <1>2, <1>3, <1>4, RemoveIs
<1>6. UsedRam' \in Nat /\ UsedRam \in Nat /\ UsedRam' <= UsedRam
  <2>1. RamOf(t) <= RamOf(s)
    BY <1>2, <1>3, <1>4, RemoveUses
  <2>2. UsedRam = RamOf(s) /\ UsedRam' = RamOf(t)
    BY <1>4 DEF UsedRam, RamOf
  <2>3. UsedRam \in Nat
    BY <1>3, UsedTypes
  <2>4. ASSUME NEW i \in DOMAIN t PROVE t[i].ram \in Nat
    <3>1. t[i] \in Held
      BY <1>5
    <3> QED
      BY <3>1 DEF Held
  <2>5. RamOf(t) \in Nat
    <3>1. PICK w : w = [i \in DOMAIN t |-> t[i].ram]
      OBVIOUS
    <3>2. w \in [DOMAIN t -> Nat]
      BY <2>4, <3>1
    <3>3. IsFiniteSet(DOMAIN t)
      <4>1. DOMAIN t = 1..Len(t) /\ Len(t) \in Nat
        BY <1>5
      <4> QED
        BY <4>1, FS_Interval
    <3> QED
      BY <3>1, <3>2, <3>3, SumNat DEF RamOf
  <2> QED
    BY <2>1, <2>2, <2>3, <2>5
<1>7. LoadedInv'
  <2>1. ASSUME NEW i \in DOMAIN t
        PROVE  /\ t[i].m.share = 0 => t[i].vram = 0
               /\ t[i].kept /\ GpuSeen => 100 * t[i].vram <= t[i].m.share * node.vram
    <3>1. \E j \in DOMAIN s : t[i] = s[j]
      <4>1. i \in 1..(Len(s) - 1) /\ Len(s) \in Nat /\ DOMAIN s = 1..Len(s)
        BY <1>3, <1>4, <1>5
      <4>2. t[i] = IF i < r THEN s[i] ELSE s[i + 1]
        BY <1>5, <4>1
      <4>3. i \in DOMAIN s /\ i + 1 \in DOMAIN s
        BY <4>1
      <4> QED
        BY <4>2, <4>3
    <3> QED
      BY <1>4, <3>1 DEF PreflightInv, LoadedInv
  <2> QED
    BY <1>1, <1>4, <1>5, <2>1 DEF LoadedInv, GpuSeen
<1>8. ASSUME NEW hw, ProbeInv(hw) PROVE ProbeInv(hw)'
  <2>1. PICK a, u, v : a = hw.available /\ u = UsedRam /\ v = UsedRam'
    OBVIOUS
  <2>2. a \in Int /\ u \in Nat /\ v \in Nat /\ v <= u
    BY <1>6, <1>8, <2>1 DEF ProbeInv, Hardware
  <2>3. /\ node.physical \in Nat /\ node.limit \in Int /\ node.others \in Nat
    BY <1>3, NodeType
  <2>4. LimitsBacked /\ a > 0 =>
          /\ node.limit # Uncapped /\ node.current => a + u <= node.limit
          /\ node.psutil => a + u + node.others <= node.physical
    BY <1>8, <2>1 DEF ProbeInv
  <2>5. LimitsBacked /\ a > 0 =>
          /\ node.limit # Uncapped /\ node.current => a + v <= node.limit
          /\ node.psutil => a + v + node.others <= node.physical
    BY <2>2, <2>3, <2>4
  <2> QED
    BY <1>1, <1>8, <2>1, <2>5 DEF ProbeInv, GpuSeen, UsageRead
<1>9. JobInv'
  <2>1. CASE job = NoJob
    <3>1. job' = NoJob
      BY <2>1 DEF Unloads, NoJob
    <3> QED
      BY <3>1 DEF JobInv
  <2>2. CASE job.step = "probed"
    <3>1. PICK m \in fleet, late \in BOOLEAN : \E hw :
            /\ job = Probed(m, hw, late)
            /\ ProbeInv(hw) /\ (~late => FreeSeen(hw))
      BY <2>2, JobShapes DEF PreflightInv
    <3>2. PICK hw : job = Probed(m, hw, late) /\ ProbeInv(hw)
      BY <3>1
    <3>3. job' = Probed(m, hw, TRUE)
      BY <2>2, <3>2 DEF Unloads, Probed
    <3>4. ProbeInv(hw)'
      BY <1>8, <3>2
    <3> QED
      BY <1>1, <3>3, <3>4 DEF JobInv
  <2>3. CASE job.step = "sized"
    <3>1. PICK m \in fleet, late \in BOOLEAN : \E hw, rec :
            /\ job = SizedJob(m, hw, late, rec)
            /\ ProbeInv(hw) /\ RecInv(m, hw, late, rec)
      BY <2>3, JobShapes DEF PreflightInv
    <3>2. PICK hw, rec : /\ job = SizedJob(m, hw, late, rec)
                         /\ ProbeInv(hw) /\ RecInv(m, hw, late, rec)
      BY <3>1
    <3>3. job' = SizedJob(m, hw, late, rec)
      BY <2>3, <3>2 DEF Unloads
    <3>4. ProbeInv(hw)'
      BY <1>8, <3>2
    <3>5. RecInv(m, hw, late, rec)'
      BY <1>1, <3>2 DEF RecInv, LlamaInv, GpuSeen
    <3> QED
      BY <1>1, <3>3, <3>4, <3>5 DEF JobInv
  <2> QED
    BY <2>1, <2>2, <2>3, JobShapes DEF PreflightInv
<1> QED
  BY <1>1, <1>3, <1>7, <1>9 DEF PreflightInv

\* Every step keeps the invariant.
LEMMA PreflightStep ==
  ASSUME PreflightInv, [PreflightNext]_preflightVars PROVE PreflightInv'
<1>1. CASE \E m \in fleet : Probes(m)
  BY <1>1, ProbesStep
<1>2. CASE Sizes
  BY <1>2, SizesStep
<1>3. CASE Loads
  BY <1>3, LoadsStep
<1>4. CASE Unloads
  BY <1>4, UnloadsStep
<1>5. CASE UNCHANGED preflightVars
  <2>1. node' = node /\ fleet' = fleet /\ loaded' = loaded /\ job' = job
    BY <1>5 DEF preflightVars
  <2>2. LoadedInv'
    BY <2>1 DEF PreflightInv, LoadedInv, GpuSeen
  <2>3. ASSUME NEW hw PROVE (ProbeInv(hw) => ProbeInv(hw)') /\ (FreeSeen(hw) => FreeSeen(hw)')
    BY <2>1 DEF ProbeInv, FreeSeen, GpuSeen, UsedRam, UsedVram, UsageRead
  <2>4. ASSUME NEW m, NEW hw, NEW late, NEW rec, RecInv(m, hw, late, rec)
        PROVE  RecInv(m, hw, late, rec)'
    BY <2>1, <2>4 DEF RecInv, LlamaInv, GpuSeen
  <2>5. JobInv'
    <3>1. CASE job = NoJob
      BY <2>1, <3>1 DEF JobInv
    <3>2. CASE \E m \in fleet, late \in BOOLEAN : \E hw :
                 job = Probed(m, hw, late) /\ ProbeInv(hw) /\ (~late => FreeSeen(hw))
      <4>1. PICK m \in fleet, late \in BOOLEAN : \E hw :
              job = Probed(m, hw, late) /\ ProbeInv(hw) /\ (~late => FreeSeen(hw))
        BY <3>2
      <4>2. PICK hw : job = Probed(m, hw, late) /\ ProbeInv(hw) /\ (~late => FreeSeen(hw))
        BY <4>1
      <4>3. job' = Probed(m, hw, late) /\ ProbeInv(hw)' /\ (~late => FreeSeen(hw)')
        BY <2>1, <2>3, <4>2
      <4> QED
        BY <2>1, <4>3 DEF JobInv
    <3>3. CASE \E m \in fleet, late \in BOOLEAN : \E hw, rec :
                 job = SizedJob(m, hw, late, rec) /\ ProbeInv(hw) /\ RecInv(m, hw, late, rec)
      <4>1. PICK m \in fleet, late \in BOOLEAN : \E hw, rec :
              job = SizedJob(m, hw, late, rec) /\ ProbeInv(hw) /\ RecInv(m, hw, late, rec)
        BY <3>3
      <4>2. PICK hw, rec : job = SizedJob(m, hw, late, rec) /\ ProbeInv(hw) /\ RecInv(m, hw, late, rec)
        BY <4>1
      <4>3. job' = SizedJob(m, hw, late, rec) /\ ProbeInv(hw)' /\ RecInv(m, hw, late, rec)'
        BY <2>1, <2>3, <2>4, <4>2
      <4> QED
        BY <2>1, <4>3 DEF JobInv
    <3> QED
      BY <3>1, <3>2, <3>3 DEF PreflightInv, JobInv
  <2> QED
    BY <2>1, <2>2, <2>5 DEF PreflightInv
<1> QED
  BY <1>1, <1>2, <1>3, <1>4, <1>5 DEF PreflightNext

\* The GPU memory in use is within the sum of the shares.
LEMMA VramBound ==
  ASSUME PreflightInv, GpuSeen, \A i \in DOMAIN loaded : loaded[i].m.share > 0 => loaded[i].kept
  PROVE  100 * UsedVram <= node.vram * Shares /\ UsedVram \in Int /\ Shares \in Int
<1>1. loaded \in Seq(Held) /\ node.vram \in Nat
  BY NodeType DEF PreflightInv, LoadedInv
<1>2. PICK D, v, w : /\ D = DOMAIN loaded
                     /\ v = [i \in DOMAIN loaded |-> loaded[i].vram]
                     /\ w = [i \in DOMAIN loaded |-> loaded[i].m.share]
  OBVIOUS
<1>3. IsFiniteSet(D)
  <2>1. D = 1..Len(loaded) /\ Len(loaded) \in Nat
    BY <1>1, <1>2
  <2> QED
    BY <2>1, FS_Interval
<1>4. ASSUME NEW i \in D
      PROVE  v[i] \in Int /\ w[i] \in Int /\ 100 * v[i] <= node.vram * w[i]
  <2>1. PICK m, x : m = loaded[i].m /\ x = loaded[i].vram
    OBVIOUS
  <2>2. m \in FleetModels /\ x \in Nat
    <3>1. loaded[i] \in Held
      BY <1>1, <1>2
    <3> QED
      BY <2>1, <3>1 DEF Held
  <2>3. v[i] = x /\ w[i] = m.share
    BY <1>2, <2>1
  <2>4. m.share \in Int /\ m.share >= 0
    BY <2>2, ShareType
  <2>5. /\ m.share = 0 => x = 0
        /\ m.share > 0 => 100 * x <= m.share * node.vram
    BY <1>2, <2>1 DEF PreflightInv, LoadedInv
  <2>6. PICK s, n : s = m.share /\ n = node.vram
    OBVIOUS
  <2>7. 100 * x <= n * s
    <3>1. s * n = n * s /\ s \in Nat /\ n \in Nat
      BY <1>1, <2>4, <2>6
    <3>2. CASE s = 0
      BY <2>5, <2>6, <3>1, <3>2
    <3>3. CASE s # 0
      BY <2>5, <2>6, <3>1, <3>3
    <3> QED
      BY <3>2, <3>3
  <2> QED
    BY <2>2, <2>3, <2>4, <2>6, <2>7
<1>5. v \in [D -> Int] /\ w \in [D -> Int]
  BY <1>2, <1>4
<1>6. /\ SumFunction(v) \in Int /\ SumFunction(w) \in Int
      /\ 100 * SumFunction(v) <= node.vram * SumFunction(w)
  <2>1. PICK a, b : a = 100 /\ b = node.vram
    OBVIOUS
  <2>2. a \in Int /\ b \in Int /\ \A i \in D : a * v[i] <= b * w[i]
    BY <1>1, <1>4, <2>1
  <2>3. /\ SumFunction(v) \in Int /\ SumFunction(w) \in Int
        /\ a * SumFunction(v) <= b * SumFunction(w)
    BY <1>3, <1>5, <2>2, SumBound
  <2> QED
    BY <2>1, <2>3
<1>7. UsedVram = SumFunction(v) /\ Shares = SumFunction(w)
  BY <1>2 DEF UsedVram, Shares
<1> QED
  BY <1>6, <1>7

\* The invariant gives SharesFit.
LEMMA InvShares ==
  ASSUME PreflightInv PROVE SharesFit
<1> SUFFICES ASSUME /\ job.step = "sized" /\ job.m.loader = "vllm" /\ Fractional(job.m) /\ job.m.latent = 0
                    /\ Shares + job.m.share <= 90 /\ (node.torch \/ node.nvml)
                    /\ \A i \in DOMAIN loaded : loaded[i].m.share > 0 => loaded[i].kept
             PROVE  Takes(job.m, job.hw, job.rec).vram <= node.vram - UsedVram
  BY DEF SharesFit
<1>1. PICK m \in fleet, late \in BOOLEAN : \E hw, rec :
        /\ job = SizedJob(m, hw, late, rec)
        /\ ProbeInv(hw) /\ RecInv(m, hw, late, rec)
  BY JobShapes DEF PreflightInv
<1>2. PICK hw, rec : job = SizedJob(m, hw, late, rec) /\ ProbeInv(hw) /\ RecInv(m, hw, late, rec)
  BY <1>1
<1>3. job.m = m /\ job.hw = hw /\ job.rec = rec
  BY <1>2 DEF SizedJob
<1>4. m \in FleetModels /\ node \in Nodes /\ m.loader = "vllm"
  BY <1>3 DEF PreflightInv, FleetModels
<1>5. IsVllm(m) /\ hw \in Hardware
  BY <1>2, <1>4, ModelTypes DEF ProbeInv
<1>6. PICK takes : takes = Takes(m, hw, rec)
  OBVIOUS
<1>7. KeepsShare(m, rec) /\ GpuSeen
  BY <1>3, <1>4 DEF KeepsShare, GpuSeen
<1>8. takes.vram \in Nat /\ 100 * takes.vram <= m.share * node.vram
  <2>1. RecInv(m, hw, FALSE, rec)
    BY <1>2, <1>4 DEF RecInv
  <2>2. TakesOK(m, FALSE, rec, takes)
    BY <1>2, <1>4, <1>6, <2>1, TakesFit
  <2> QED
    BY <1>7, <2>2 DEF TakesOK
<1>9. 100 * UsedVram <= node.vram * Shares /\ UsedVram \in Int /\ Shares \in Int
  BY <1>7, VramBound
<1>10. PICK s, n, p, u, t : /\ s = m.share /\ n = node.vram /\ p = Shares /\ u = UsedVram
                            /\ t = takes.vram
  OBVIOUS
<1>11. s \in Int /\ n \in Nat /\ p \in Int /\ u \in Int /\ t \in Nat
  BY <1>4, <1>8, <1>9, <1>10, ShareType, NodeType
<1>12. 100 * t <= s * n /\ 100 * u <= n * p /\ p + s <= 90
  BY <1>3, <1>8, <1>9, <1>10
<1>13. n * (p + s) <= n * 90 /\ n * (p + s) = n * p + s * n /\ n * p \in Int /\ s * n \in Int
  <2>1. n * (p + s) = n * p + s * n /\ n * p \in Int /\ s * n \in Int /\ p + s \in Int
    BY <1>11
  <2> QED
    BY <1>11, <1>12, <2>1, TimesMono
<1>14. t <= n - u
  BY <1>11, <1>12, <1>13
<1> QED
  BY <1>3, <1>6, <1>10, <1>14

\* The invariant gives LargestFit.
LEMMA InvLargest ==
  ASSUME LimitsBacked, PreflightInv PROVE LargestFit
<1> SUFFICES ASSUME Sizing("vllm"), job.m.share = 0 PROVE LargestFit
  BY DEF LargestFit
<1>1. job.step = "sized" /\ job.rec.fit = "sized" /\ job.m.loader = "vllm"
  BY DEF Sizing, Sized
<1>2. PICK m \in fleet, late \in BOOLEAN : \E hw, rec :
        /\ job = SizedJob(m, hw, late, rec)
        /\ ProbeInv(hw) /\ RecInv(m, hw, late, rec)
  BY <1>1, JobShapes DEF PreflightInv
<1>3. PICK hw, rec : job = SizedJob(m, hw, late, rec) /\ ProbeInv(hw) /\ RecInv(m, hw, late, rec)
  BY <1>2
<1>4. job.m = m /\ job.hw = hw /\ job.rec = rec
  BY <1>3 DEF SizedJob
<1>5. m \in FleetModels /\ m.loader = "vllm" /\ rec.fit = "sized" /\ m.share = 0
  BY <1>1, <1>4 DEF PreflightInv, FleetModels
<1>6. IsVllm(m) /\ hw \in Hardware /\ (UsageRead => hw.available <= hw.ram)
  BY <1>3, <1>5, ModelTypes DEF ProbeInv
<1>7. rec = recommend_cpu(m, hw)
  BY <1>3, <1>5 DEF RecInv, VllmPreflight, Declined
<1>8. IsLargest(m, hw, rec)
  BY <1>5, <1>6, <1>7, CpuLargest
<1> QED
  BY <1>4, <1>6, <1>8 DEF LargestFit, IsLargest

\* A load of a sized llama_server model on the CPU leaves the reserve and the margin free.
LEMMA StepSized ==
  ASSUME LimitsBacked, PreflightInv, [PreflightNext]_preflightVars, Sizing("llama_server"), job' = NoJob,
         job.m.share = 0, job.hw.available > 0
  PROVE  LET after == 100 * UsedRam' + 5 * job.hw.ram + 100 * FitMargin
         IN /\ node.limit # Uncapped /\ node.current => after <= 100 * node.limit
            /\ node.psutil => after + 100 * node.others <= 100 * node.physical
<1>1. job.step = "sized" /\ job.rec.fit = "sized" /\ job.m.loader = "llama_server"
  BY DEF Sizing, Sized
<1>2. Loads
  <2>1. job' # job
    BY <1>1 DEF NoJob
  <2>2. ~Sizes /\ ~(\E m \in fleet : Probes(m))
    BY <1>1 DEF Sizes, Probes, NoJob
  <2>3. ~Unloads
    BY <1>1, <2>1 DEF Unloads
  <2> QED
    BY <2>1, <2>2, <2>3 DEF PreflightNext, preflightVars
<1>3. PICK m \in fleet, late \in BOOLEAN : \E hw, rec :
        /\ job = SizedJob(m, hw, late, rec)
        /\ ProbeInv(hw) /\ RecInv(m, hw, late, rec)
  BY <1>1, JobShapes DEF PreflightInv
<1>4. PICK hw, rec : job = SizedJob(m, hw, late, rec) /\ ProbeInv(hw) /\ RecInv(m, hw, late, rec)
  BY <1>3
<1>5. job.m = m /\ job.hw = hw /\ job.rec = rec /\ job.late = late
  BY <1>4 DEF SizedJob
<1>6. /\ m \in FleetModels /\ node \in Nodes /\ loaded \in Seq(Held) /\ m.loader = "llama_server"
      /\ m.share = 0 /\ rec.fit = "sized" /\ hw.available > 0
  BY <1>1, <1>5 DEF PreflightInv, LoadedInv, FleetModels
<1>7. PICK takes : takes = Takes(m, hw, rec)
  OBVIOUS
<1>8. TakesOK(m, late, rec, takes)
  BY <1>4, <1>6, <1>7, TakesFit
<1>9. PICK e : e = [ram |-> takes.ram, vram |-> takes.vram, m |-> m,
                    kept |-> ~late /\ KeepsShare(m, rec)]
  OBVIOUS
<1>10. e \in Held
  <2>1. (~late /\ KeepsShare(m, rec)) \in BOOLEAN
    OBVIOUS
  <2> QED
    BY <1>6, <1>8, <1>9, <2>1 DEF Held, TakesOK
<1>11. loaded' = Append(loaded, e) \/ loaded' = loaded
  BY <1>2, <1>5, <1>7, <1>9 DEF Loads
<1>12. PICK u, v, k, a, ram : /\ u = UsedRam /\ v = UsedRam' /\ k = takes.ram /\ a = hw.available
                              /\ ram = hw.ram
  OBVIOUS
<1>13. u \in Nat /\ k \in Nat /\ a \in Int /\ ram \in Nat
  BY <1>4, <1>6, <1>8, <1>12, UsedTypes DEF TakesOK, ProbeInv, Hardware
<1>14. v = u \/ v = u + k
  <2>1. CASE loaded' = loaded
    BY <1>12, <2>1 DEF UsedRam
  <2>2. CASE loaded' = Append(loaded, e)
    <3>1. PICK s, t : s = loaded /\ t = loaded'
      OBVIOUS
    <3>2. RamOf(t) = RamOf(s) + e.ram
      BY <1>6, <1>10, <2>2, <3>1, AppendUses
    <3>3. UsedRam = RamOf(s) /\ UsedRam' = RamOf(t)
      BY <3>1 DEF UsedRam, RamOf
    <3> QED
      BY <1>9, <1>12, <3>2, <3>3
  <2> QED
    BY <1>11, <2>1, <2>2
<1>15. 100 * k + 5 * ram + 100 * FitMargin <= 100 * a
  <2>1. k = Holds(m, MergedCtx(m, rec) * m.parallel)
    BY <1>6, <1>7, <1>12 DEF Takes
  <2> QED
    BY <1>4, <1>6, <1>12, <2>1 DEF RecInv, LlamaInv
<1>16. /\ node.limit # Uncapped /\ node.current => a + u <= node.limit
       /\ node.psutil => a + u + node.others <= node.physical
  BY <1>4, <1>6, <1>12 DEF ProbeInv
<1>17. node.limit \in Int /\ node.physical \in Int /\ node.others \in Nat /\ FitMargin \in Nat
  BY <1>6, NodeType, ConstantTypes
<1>18. v <= u + k /\ v \in Nat
  BY <1>13, <1>14
<1>19. 100 * v + 5 * ram + 100 * FitMargin <= 100 * (a + u)
  BY <1>13, <1>15, <1>17, <1>18
<1>20. /\ node.limit # Uncapped /\ node.current => 100 * v + 5 * ram + 100 * FitMargin <= 100 * node.limit
       /\ node.psutil => 100 * v + 5 * ram + 100 * FitMargin + 100 * node.others <= 100 * node.physical
  BY <1>13, <1>16, <1>17, <1>18, <1>19
<1> QED
  BY <1>5, <1>12, <1>20

\* The invariant holds in every behaviour.
LEMMA PreflightInvariant == PreflightSpec => []PreflightInv
<1>1. PreflightInit => PreflightInv
  BY PreflightInitInv
<1>2. PreflightInv /\ [PreflightNext]_preflightVars => PreflightInv'
  BY PreflightStep
<1> QED
  BY <1>1, <1>2, PTL DEF PreflightSpec

(* For any nodes, models and numbers of loads and unloads, a vllm model on  *)
(* a fraction of the GPU finds it free, as long as the fractions sum to 0.9 *)
(* at most and each model before it was given one to keep to                *)
(* (preflight/llama_cpp.py, _fit_margin_mib).                               *)
THEOREM SharesAreKept == PreflightSpec => []SharesFit
<1>1. PreflightInv => SharesFit
  BY InvShares
<1> QED
  BY <1>1, PreflightInvariant, PTL

(* For any nodes and models, what vllm's fraction of RAM on a CPU is        *)
(* computed for is the most that fits, and the fraction covers it           *)
(* (preflight/vllm.py, _recommend_cpu_auto_gmu, _apply_hybrid_fit), where a *)
(* node's limit is memory its host has and its usage can be read.           *)
THEOREM FitsAreLargest ==
  ASSUME LimitsBacked PROVE PreflightSpec => []LargestFit
<1>1. PreflightInv => LargestFit
  BY InvLargest
<1> QED
  BY <1>1, PreflightInvariant, PTL

(* After any loads and unloads, a llama_server model sized on the CPU       *)
(* leaves the reserve of 5 % and the margin free, in a container whose      *)
(* usage can be read and on the host (preflight/llama_cpp.py,               *)
(* _cpu_ram_budget_mib), where a node's limit is memory its host has.       *)
THEOREM LoadsFit ==
  ASSUME LimitsBacked PROVE PreflightSpec => SizedLoadsFit
<1>1. PreflightInv /\ [PreflightNext]_preflightVars =>
        [Sizing("llama_server") /\ job' = NoJob /\ job.m.share = 0 /\ job.hw.available > 0 =>
           LET after == 100 * UsedRam' + 5 * job.hw.ram + 100 * FitMargin
           IN /\ node.limit # Uncapped /\ node.current => after <= 100 * node.limit
              /\ node.psutil => after + 100 * node.others <= 100 * node.physical]_preflightVars
  BY StepSized
<1> QED
  BY <1>1, PreflightInvariant, PTL DEF PreflightSpec, SizedLoadsFit
=============================================================================
