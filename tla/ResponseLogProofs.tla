-------------------------- MODULE ResponseLogProofs --------------------------
(***************************************************************************)
(* The store of /v1/responses settles a response once, and a continuation is *)
(* given the turns it continues (module ResponseLog), for any number of      *)
(* responses, branches and faults.                                           *)
(***************************************************************************)
EXTENDS ResponseLog, TLAPS, FiniteSetTheorems, SequenceTheorems

Entry == [at : Nat, id : Ids, by : Final, base : Position \cup {None}]
TurnSteps == {"new", "resolve", "entries", "resolved", "refused", "unavailable", "answer"}
Turn == [at : TurnSteps, prev : Ids \cup {None}, parent : Position \cup {None},
         cursor : Position \cup {None}, history : Seq(Ids)]
Busy == {"append", "taken", "fork"}

Types ==
  /\ records \in [Ids -> Record \cup {None}] /\ logs \in [Ids -> Seq(Entry)]
  /\ turn \in [Ids -> Turn] /\ lineage \in [Ids -> Seq(Ids)] /\ gone \subseteq Ids
  /\ DOMAIN writer = Ids /\ \A i \in Ids : writer[i] \in [Writers(i) -> Busy \cup {"idle", "done"}]

\* It has been settled: its record has its output, or is gone.
Settled(i) == Stored(i) \/ i \in gone

-----------------------------------------------------------------------------
(* The writers.                                                              *)

\* A response has no record before its request is answered, and none again once it is gone.
RecordLife ==
  \A i \in Ids :
    /\ turn[i].at \notin {"answer", "unavailable"} => records[i] = None /\ i \notin gone
    /\ turn[i].at # "answer" => ~Stored(i)
    /\ records[i] # None => i \notin gone
    /\ i \notin Background => (records[i] # None => Stored(i))
    /\ i \in Background /\ turn[i].at = "answer" => records[i] # None \/ i \in gone

\* A request that reads knows what it reads next.
CursorInv ==
  \A i \in Ids :
    /\ turn[i].at = "resolve" => turn[i].prev # None
    /\ turn[i].at = "entries" => turn[i].cursor # None

\* A first turn has no position to follow, and so it stays once it is resolved.
Blocked(log, i) == Top(logs[log]) >= Depth(i)

(* A writer that was refused lost its place to a sibling, to an entry of      *)
(* another turn or to its own, unless the record itself is gone; and once the *)
(* response is settled every writer under way finds its next place taken.     *)
WriterInv ==
  \A i \in Ids : \A w \in Writers(i) :
    LET s == writer[i][w] IN
    /\ s # "idle" => turn[i].at = "answer"
    /\ i \notin Background /\ s # "done" /\ ~(s = "taken" /\ Own(i)) => records[i] = None /\ i \notin gone
    /\ s \in {"taken", "fork"} =>
         turn[i].parent # None /\ (i \in gone \/ Blocked(turn[i].parent.log, i))
    /\ s \in Busy /\ Stored(i) =>
         IF turn[i].parent = None THEN Blocked(i, i)
         ELSE Blocked(turn[i].parent.log, i) /\ (Own(i) \/ Blocked(i, i))
    /\ s = "fork" => ~Own(i)

WriteInv == Types /\ CursorInv /\ RecordLife /\ WriterInv

\* Where the writer's next write goes.
Home(i, w) ==
  IF writer[i][w] = "append" /\ turn[i].parent # None THEN turn[i].parent.log ELSE i

\* The entry it writes there.
Mark(i, w) ==
  [at |-> Depth(i), id |-> i, by |-> w,
   base |-> IF writer[i][w] = "fork" THEN turn[i].parent ELSE None]

Lands(i, w) ==
  /\ writer[i][w] \in {"append", "fork"} /\ Accepts(i, Home(i, w), Depth(i))
  /\ Write(i, w, Home(i, w), Depth(i), Mark(i, w).base)
  /\ \/ Goes(i, w, "done")
     \/ writer[i][w] = "append" /\ turn[i].parent # None /\ Goes(i, w, "taken")
  /\ UNCHANGED <<turn, lineage, gone, spoiled>>

Misses(i, w) ==
  /\ writer[i][w] \in {"append", "fork"}
  /\ \/ Goes(i, w, "done")
     \/ /\ writer[i][w] = "append" /\ turn[i].parent # None
        /\ ~Accepts(i, turn[i].parent.log, Depth(i)) /\ Goes(i, w, "taken")
  /\ UNCHANGED <<records, logs, turn, lineage, gone, spoiled>>

\* A response has a depth in its lineage of at least one (_store_turn).
LEMMA DepthType ==
  ASSUME Types, NEW i \in Ids
  PROVE  Depth(i) \in Nat /\ Depth(i) >= 1
BY LogAssumption DEF Types, Turn, Position, Depth

\* The entries that read_range returns.
Upto(pos) == {k \in 1..Len(logs[pos.log]) : logs[pos.log][k].at <= pos.depth}

\* What is read of a log is its beginning (_entries, read_range).
LEMMA SegmentIsPrefix ==
  ASSUME Types, NEW pos \in Position
  PROVE  /\ Segment(pos) \in Seq(Entry) /\ Len(Segment(pos)) <= Len(logs[pos.log])
         /\ \A k \in 1..Len(Segment(pos)) : Segment(pos)[k] = logs[pos.log][k]
         /\ IsFiniteSet(Upto(pos)) /\ Len(Segment(pos)) = Cardinality(Upto(pos))
<1> DEFINE log == logs[pos.log]
           read == Upto(pos)
<1>1. log \in Seq(Entry) /\ Len(log) \in Nat
  BY DEF Types, Position
<1>2. \A n \in Nat : IsFiniteSet(1..n) /\ Cardinality(1..n) = n
  BY FS_Interval
<1>3. IsFiniteSet(read) /\ Cardinality(read) \in Nat /\ Cardinality(read) <= Len(log)
  <2>1. read \subseteq 1..Len(log)
    BY DEF Upto
  <2> HIDE DEF log, read
  <2>2. IsFiniteSet(1..Len(log)) /\ Cardinality(1..Len(log)) = Len(log)
    BY <1>1, <1>2
  <2>3. IsFiniteSet(read) /\ Cardinality(read) <= Cardinality(1..Len(log))
    BY <2>1, <2>2, FS_Subset
  <2>4. QED
    BY <2>2, <2>3, FS_CardinalityType
<1>4. Segment(pos) = SubSeq(log, 1, Cardinality(read))
  BY DEF Segment, Upto
<1> HIDE DEF log, read
<1>5. /\ Segment(pos) \in Seq(Entry) /\ Len(Segment(pos)) = Cardinality(read)
      /\ \A k \in 1..Len(Segment(pos)) : Segment(pos)[k] = log[k]
  BY <1>1, <1>3, <1>4
<1>6. QED
  BY <1>3, <1>5 DEF log, read

\* The last position of a log is one (append_and_set).
LEMMA TopType ==
  ASSUME Types, NEW g \in Ids
  PROVE  Top(logs[g]) \in Nat
<1>1. logs[g] \in Seq(Entry)
  BY DEF Types
<1>2. logs[g] # <<>> => logs[g][Len(logs[g])] \in Entry
  BY <1>1
<1>3. logs[g] # <<>> => logs[g][Len(logs[g])].at \in Nat
  BY <1>2 DEF Entry
<1>4. QED
  BY <1>3 DEF Top

\* A writer moves alone (_store_turn, write_terminal_if_not_terminal).
LEMMA WriterMoves ==
  ASSUME Types, NEW i \in Ids, NEW w \in Writers(i), NEW step \in Busy \cup {"idle", "done"},
         Goes(i, w, step)
  PROVE  /\ DOMAIN writer' = Ids
         /\ \A j \in Ids : writer'[j] \in [Writers(j) -> Busy \cup {"idle", "done"}]
         /\ writer'[i][w] = step
         /\ \A j \in Ids : \A v \in Writers(j) : j # i \/ v # w => writer'[j][v] = writer[j][v]
<1>1. /\ DOMAIN writer' = Ids
      /\ \A j \in Ids : writer'[j] = IF j = i THEN [writer[i] EXCEPT ![w] = step] ELSE writer[j]
  BY DEF Types, Goes
<1>2. writer[i] \in [Writers(i) -> Busy \cup {"idle", "done"}]
  BY DEF Types
<1>3. writer'[i] \in [Writers(i) -> Busy \cup {"idle", "done"}]
  BY <1>1, <1>2
<1>4. writer'[i][w] = step /\ \A v \in Writers(i) : v # w => writer'[i][v] = writer[i][v]
  BY <1>1, <1>2
<1>5. QED
  BY <1>1, <1>3, <1>4 DEF Types

\* A write lands or changes no record and no log (append_and_set).
LEMMA WriteKinds ==
  ASSUME Types, NEW i \in Ids, NEW w \in Writers(i),
         writer[i][w] = "fork" => turn[i].parent # None,
         Appends(i, w) \/ Forks(i, w)
  PROVE  Lands(i, w) \/ Misses(i, w)
<1>1. CASE Appends(i, w)
  BY <1>1 DEF Appends, AppendAndSet, Lands, Misses, Home, Mark
<1>2. CASE Forks(i, w)
  BY <1>2 DEF Forks, Base, AppendAndSet, Lands, Misses, Home, Mark
<1>3. QED
  BY <1>1, <1>2

\* A write that lands is the log's new last entry, and the record names it (append_and_set).
LEMMA WriteLands ==
  ASSUME Types, NEW i \in Ids, NEW w \in Writers(i), Lands(i, w)
  PROVE  /\ Home(i, w) \in Ids /\ Mark(i, w) \in Entry /\ logs' \in [Ids -> Seq(Entry)]
         /\ logs'[Home(i, w)] = Append(logs[Home(i, w)], Mark(i, w))
         /\ \A h \in Ids : h # Home(i, w) => logs'[h] = logs[h]
         /\ records' \in [Ids -> Record \cup {None}]
         /\ records'[i] = [status |-> w, log |-> Home(i, w), depth |-> Depth(i)]
         /\ \A j \in Ids : j # i => records'[j] = records[j]
<1>1. w \in Final
  BY DEF Writers, Final
<1>2. Home(i, w) \in Ids
  BY DEF Types, Turn, Position, Home
<1>3. Mark(i, w) \in Entry
  <2>1. turn[i].parent \in Position \cup {None}
    BY DEF Types, Turn
  <2>2. (IF writer[i][w] = "fork" THEN turn[i].parent ELSE None) \in Position \cup {None}
    BY <2>1
  <2>3. QED
    BY <1>1, <2>2, DepthType DEF Mark, Entry
<1>4. logs' = [logs EXCEPT ![Home(i, w)] = Append(@, Mark(i, w))]
  BY DEF Lands, Write, Mark
<1>5. records' = [records EXCEPT ![i] = [status |-> w, log |-> Home(i, w), depth |-> Depth(i)]]
  BY DEF Lands, Write
<1>6. [status |-> w, log |-> Home(i, w), depth |-> Depth(i)] \in Record
  BY <1>1, <1>2, DepthType DEF Record
<1>7. QED
  BY <1>2, <1>3, <1>4, <1>5, <1>6 DEF Types

\* No position of a log is lost to a write (append_and_set).
LEMMA WriteRaises ==
  ASSUME Types, NEW i \in Ids, NEW w \in Writers(i), Lands(i, w), NEW g \in Ids
  PROVE  /\ Len(logs'[g]) = Len(logs[g]) + IF g = Home(i, w) THEN 1 ELSE 0
         /\ \A k \in 1..Len(logs[g]) : logs'[g][k] = logs[g][k]
         /\ g = Home(i, w) => logs'[g][Len(logs[g]) + 1] = Mark(i, w)
         /\ Top(logs[g]) \in Nat /\ Top(logs'[g]) \in Nat /\ Top(logs'[g]) >= Top(logs[g])
         /\ g = Home(i, w) => Top(logs[g]) < Depth(i) /\ Top(logs'[g]) = Depth(i)
<1>1. logs[g] \in Seq(Entry) /\ Len(logs[g]) \in Nat
  BY DEF Types
<1>2. Top(logs[g]) \in Nat
  BY TopType
<1>3. CASE g # Home(i, w)
  <2>1. logs'[g] = logs[g]
    BY <1>3, WriteLands
  <2>2. QED
    BY <1>1, <1>2, <1>3, <2>1
<1>4. CASE g = Home(i, w)
  <2>1. logs'[g] = Append(logs[g], Mark(i, w)) /\ Mark(i, w) \in Entry
    BY <1>4, WriteLands
  <2>2. /\ Len(logs'[g]) = Len(logs[g]) + 1 /\ logs'[g][Len(logs[g]) + 1] = Mark(i, w)
        /\ \A k \in 1..Len(logs[g]) : logs'[g][k] = logs[g][k]
    BY <1>1, <2>1
  <2>3. Top(logs'[g]) = Depth(i)
    <3>1. logs'[g] # <<>>
      BY <1>1, <2>1
    <3>2. Mark(i, w).at = Depth(i)
      BY DEF Mark
    <3>3. QED
      BY <2>2, <3>1, <3>2 DEF Top
  <2>4. Top(logs[g]) < Depth(i)
    BY <1>4 DEF Lands, Accepts
  <2>5. QED
    BY <1>2, <1>4, <2>2, <2>3, <2>4, DepthType
<1>5. QED
  BY <1>3, <1>4

\* A request moves alone (resolve_previous, _entries, create_response).
LEMMA TurnMoves ==
  ASSUME Types, NEW i \in Ids, NEW t \in Turn, turn' = [turn EXCEPT ![i] = t]
  PROVE  turn' \in [Ids -> Turn] /\ turn'[i] = t /\ \A j \in Ids : j # i => turn'[j] = turn[j]
BY DEF Types

\* The turn a step of resolving leaves behind (resolve_previous, _entries).
LEMMA ReadsRecordTo ==
  ASSUME WriteInv, NEW i \in Ids, ReadsRecord(i)
  PROVE  LET p == turn[i].prev
             pos == [log |-> records[p].log, depth |-> records[p].depth]
         IN /\ p \in Ids
            /\ \/ /\ Stored(p) /\ pos \in Position
                  /\ turn' = [turn EXCEPT ![i] =
                       [turn[i] EXCEPT !.at = "entries", !.parent = pos, !.cursor = pos]]
                  /\ [turn[i] EXCEPT !.at = "entries", !.parent = pos, !.cursor = pos] \in Turn
               \/ /\ ~Stored(p) /\ turn' = [turn EXCEPT ![i] = [turn[i] EXCEPT !.at = "refused"]]
                  /\ [turn[i] EXCEPT !.at = "refused"] \in Turn
<1> DEFINE p == turn[i].prev
           pos == [log |-> records[p].log, depth |-> records[p].depth]
<1>1. turn[i] \in Turn /\ p \in Ids
  BY DEF WriteInv, Types, CursorInv, Turn, ReadsRecord
<1>2. CASE Stored(p)
  <2>1. records[p] \in Record
    BY <1>1, <1>2 DEF WriteInv, Types, Stored
  <2>2. pos \in Position
    BY <2>1 DEF Record, Position
  <2>3. turn' = [turn EXCEPT ![i] =
          [turn[i] EXCEPT !.at = "entries", !.parent = pos, !.cursor = pos]]
    BY <1>2 DEF ReadsRecord, WriteInv, Types
  <2> HIDE DEF pos
  <2>4. [turn[i] EXCEPT !.at = "entries", !.parent = pos, !.cursor = pos] \in Turn
    BY <1>1, <2>2 DEF Turn, TurnSteps
  <2>5. QED
    BY <1>1, <1>2, <2>2, <2>3, <2>4 DEF pos
<1>3. CASE ~Stored(p)
  <2>1. turn' = [turn EXCEPT ![i] = [turn[i] EXCEPT !.at = "refused"]]
    BY <1>3 DEF ReadsRecord, WriteInv, Types
  <2>2. [turn[i] EXCEPT !.at = "refused"] \in Turn
    BY <1>1 DEF Turn, TurnSteps
  <2>3. QED
    BY <1>1, <1>3, <2>1, <2>2
<1>4. QED
  BY <1>2, <1>3

\* The responses whose entries were read (_entries).
Named(segment) == [k \in 1..Len(segment) |-> segment[k].id]

\* What one more segment leaves behind (_entries).
LEMMA ReadsSegmentTo ==
  ASSUME WriteInv, NEW i \in Ids, ReadsSegment(i)
  PROVE  LET pos == turn[i].cursor
             segment == Segment(pos)
             t == [turn[i] EXCEPT !.history = Named(segment) \o turn[i].history,
                     !.at = IF segment[1].base = None THEN "resolved" ELSE "entries",
                     !.cursor = segment[1].base]
         IN /\ pos \in Position
            /\ \/ /\ segment # <<>> /\ Whole(segment, pos) /\ Named(segment) \in Seq(Ids)
                  /\ t \in Turn /\ turn' = [turn EXCEPT ![i] = t]
               \/ /\ segment = <<>> \/ ~Whole(segment, pos)
                  /\ turn' = [turn EXCEPT ![i] = [turn[i] EXCEPT !.at = "refused"]]
                  /\ [turn[i] EXCEPT !.at = "refused"] \in Turn
<1> DEFINE pos == turn[i].cursor
           segment == Segment(pos)
           t == [turn[i] EXCEPT !.history = Named(segment) \o turn[i].history,
                   !.at = IF segment[1].base = None THEN "resolved" ELSE "entries",
                   !.cursor = segment[1].base]
<1>1. turn[i] \in Turn /\ pos \in Position /\ turn \in [Ids -> Turn]
  BY DEF WriteInv, Types, CursorInv, Turn, ReadsSegment
<1>2. segment \in Seq(Entry)
  BY <1>1, SegmentIsPrefix DEF WriteInv
<1>3. CASE segment # <<>> /\ Whole(segment, pos)
  <2>1. turn' = [turn EXCEPT ![i] = t]
    BY <1>1, <1>3 DEF ReadsSegment, Named
  <2> HIDE DEF segment
  <2>2. segment[1] \in Entry /\ \A k \in 1..Len(segment) : segment[k] \in Entry
    BY <1>2, <1>3
  <2>3. /\ segment[1].base \in Position \cup {None}
        /\ \A k \in 1..Len(segment) : segment[k].id \in Ids
    BY <2>2 DEF Entry
  <2>4. Named(segment) \in Seq(Ids)
    BY <1>2, <2>3 DEF Named
  <2>5. Named(segment) \o turn[i].history \in Seq(Ids)
    BY <1>1, <2>4 DEF Turn
  <2>6. (IF segment[1].base = None THEN "resolved" ELSE "entries") \in TurnSteps
    BY DEF TurnSteps
  <2>7. t \in Turn
    BY <1>1, <2>3, <2>5, <2>6 DEF Turn
  <2> HIDE DEF t
  <2>8. QED
    BY <1>1, <1>3, <2>1, <2>4, <2>7 DEF segment, t
<1>4. CASE segment = <<>> \/ ~Whole(segment, pos)
  <2>1. turn' = [turn EXCEPT ![i] = [turn[i] EXCEPT !.at = "refused"]]
    BY <1>1, <1>4 DEF ReadsSegment
  <2>2. [turn[i] EXCEPT !.at = "refused"] \in Turn
    BY <1>1 DEF Turn, TurnSteps
  <2>3. QED
    BY <1>1, <1>4, <2>1, <2>2
<1>5. QED
  BY <1>3, <1>4

\* The turn a new request leaves behind (create_response).
LEMMA StartsTo ==
  ASSUME Types, NEW i \in Ids, NEW p \in 1..(i - 1) \cup {None}, Starts(i, p)
  PROVE  LET t == [turn[i] EXCEPT !.at = IF p = None THEN "resolved" ELSE "resolve", !.prev = p] IN
         /\ t \in Turn /\ turn' = [turn EXCEPT ![i] = t]
         /\ p # None => p \in Ids /\ p < i
         /\ lineage' \in [Ids -> Seq(Ids)]
         /\ lineage'[i] = IF p = None THEN <<i>> ELSE Append(lineage[p], i)
         /\ \A j \in Ids : j # i => lineage'[j] = lineage[j]
<1>1. turn[i] \in Turn /\ turn \in [Ids -> Turn] /\ lineage \in [Ids -> Seq(Ids)]
  BY DEF Types
<1>2. p \in Ids \cup {None} /\ (p # None => p \in Ids /\ p < i)
  BY LogAssumption DEF Ids
<1>3. (IF p = None THEN "resolved" ELSE "resolve") \in TurnSteps
  BY DEF TurnSteps
<1>4. [turn[i] EXCEPT !.at = IF p = None THEN "resolved" ELSE "resolve", !.prev = p] \in Turn
  BY <1>1, <1>2, <1>3 DEF Turn
<1>5. turn' = [turn EXCEPT ![i] =
        [turn[i] EXCEPT !.at = IF p = None THEN "resolved" ELSE "resolve", !.prev = p]]
  BY <1>1 DEF Starts
<1>6. (IF p = None THEN <<i>> ELSE Append(lineage[p], i)) \in Seq(Ids)
  BY <1>1, <1>2
<1>7. lineage' = [lineage EXCEPT ![i] = IF p = None THEN <<i>> ELSE Append(lineage[p], i)]
  BY DEF Starts
<1>8. QED
  BY <1>1, <1>2, <1>4, <1>5, <1>6, <1>7

\* A step that only answers a request (create_response, write_background).
LEMMA AnswersTo ==
  ASSUME Types, NEW i \in Ids, ReadFails(i) \/ Answers(i)
  PROVE  \E s \in {"answer", "unavailable"} :
           /\ [turn[i] EXCEPT !.at = s] \in Turn /\ turn' = [turn EXCEPT ![i] = [turn[i] EXCEPT !.at = s]]
           /\ s = "answer" => turn[i].at = "resolved" /\ (i \in Background => records' = Queued(i))
           /\ records' = records \/ (i \in Background /\ turn[i].at = "resolved" /\ records' = Queued(i))
           /\ UNCHANGED <<logs, writer, lineage, gone, spoiled>>
<1>1. turn[i] \in Turn /\ turn \in [Ids -> Turn]
  BY DEF Types
<1>2. \A s \in {"answer", "unavailable"} : [turn[i] EXCEPT !.at = s] \in Turn
  BY <1>1 DEF Turn, TurnSteps
<1>3. QED
  BY <1>1, <1>2 DEF ReadFails, Answers, Queued

\* A queued record is one (write_background).
LEMMA QueuedRecord ==
  ASSUME Types, NEW i \in Ids, records' = Queued(i)
  PROVE  /\ records' \in [Ids -> Record \cup {None}]
         /\ records'[i] # None /\ records'[i].status = "queued"
         /\ \A j \in Ids : j # i => records'[j] = records[j]
<1>1. [status |-> "queued", log |-> i, depth |-> 0] \in Record
  BY DEF Record
<1>2. QED
  BY <1>1, LogAssumption DEF Types, Queued

\* No response has been asked for (the initial state).
LEMMA WriteStart == Init => WriteInv
<1> SUFFICES ASSUME Init PROVE WriteInv
  OBVIOUS
<1>1. Types
  <2>1. [at |-> "new", prev |-> None, parent |-> None, cursor |-> None, history |-> <<>>] \in Turn
    BY DEF Turn, TurnSteps
  <2>2. \A i \in Ids : writer[i] = [w \in Writers(i) |-> "idle"]
    BY DEF Init
  <2>3. QED
    BY <2>1, <2>2 DEF Init, Types
<1>2. \A i \in Ids : records[i] = None /\ turn[i].at = "new" /\ i \notin gone
  BY DEF Init
<1>3. \A i \in Ids : \A w \in Writers(i) : writer[i][w] = "idle"
  BY DEF Init
<1>4. QED
  BY <1>1, <1>2, <1>3 DEF WriteInv, CursorInv, RecordLife, WriterInv, Stored, Busy

\* A request that has not been answered has no writer under way (create_response).
LEMMA RequestKeepsWrites ==
  ASSUME WriteInv, NEW i \in Ids, NEW t \in Turn,
         turn[i].at \in {"new", "resolve", "entries", "resolved"},
         turn' = [turn EXCEPT ![i] = t],
         t.at = "resolve" => t.prev # None, t.at = "entries" => t.cursor # None,
         UNCHANGED <<logs, writer, gone>>, lineage' \in [Ids -> Seq(Ids)],
         \/ records' = records
         \/ i \in Background /\ t.at \in {"answer", "unavailable"} /\ records' = Queued(i),
         t.at = "answer" /\ i \in Background => records' = Queued(i)
  PROVE  WriteInv'
<1>1. turn' \in [Ids -> Turn] /\ turn'[i] = t /\ \A j \in Ids : j # i => turn'[j] = turn[j]
  BY TurnMoves DEF WriteInv
<1>2. records' \in [Ids -> Record \cup {None}] /\ \A j \in Ids : j # i => records'[j] = records[j]
  BY QueuedRecord DEF WriteInv, Types
<1>3. Types'
  BY <1>1, <1>2 DEF WriteInv, Types
<1>4. CursorInv'
  BY <1>1 DEF WriteInv, CursorInv
<1>5. records[i] = None /\ i \notin gone
  BY DEF WriteInv, RecordLife
<1>6. /\ \/ records'[i] = None
         \/ i \in Background /\ t.at \in {"answer", "unavailable"} /\ records' = Queued(i)
      /\ records'[i] # None => records'[i].status = "queued"
      /\ t.at = "answer" /\ i \in Background => records'[i] # None
  BY <1>5, QueuedRecord DEF WriteInv
<1>7. \A j \in Ids : j # i => Stored(j)' = Stored(j)
  BY <1>2 DEF Stored
<1>8. ~Stored(i)'
  BY <1>6 DEF Stored
<1>9. RecordLife'
  BY <1>1, <1>2, <1>5, <1>6, <1>7, <1>8 DEF WriteInv, RecordLife
<1>10. WriterInv'
  <2>1. \A w \in Writers(i) : writer[i][w] = "idle"
    BY DEF WriteInv, WriterInv
  <2>2. \A j \in Ids : j # i => Own(j)' = Own(j) /\ \A g \in Ids : Blocked(g, j)' = Blocked(g, j)
    BY <1>1 DEF Own, Blocked, Depth
  <2>3. \A j \in Ids : turn[j].parent # None => turn[j].parent.log \in Ids
    BY DEF WriteInv, Types, Turn, Position
  <2>4. ASSUME NEW j \in Ids, j # i, NEW w \in Writers(j)
        PROVE  /\ turn'[j] = turn[j] /\ records'[j] = records[j] /\ (j \in gone') = (j \in gone)
               /\ writer'[j][w] = writer[j][w] /\ Stored(j)' = Stored(j) /\ Own(j)' = Own(j)
               /\ Blocked(j, j)' = Blocked(j, j)
               /\ turn[j].parent # None =>
                    Blocked(turn[j].parent.log, j)' = Blocked(turn[j].parent.log, j)
    BY <1>1, <1>2, <1>7, <2>2, <2>3, <2>4 DEF Blocked, Depth
  <2>5. i \notin Background => records'[i] = None /\ i \notin gone'
    BY <1>5, <1>6
  <2>6. QED
    BY <2>1, <2>4, <2>5 DEF WriteInv, WriterInv, Busy
<1>11. QED
  BY <1>3, <1>4, <1>9, <1>10 DEF WriteInv

\* A writer that writes nothing (write_terminal_if_not_terminal, _store_turn).
LEMMA WaitKeepsWrites ==
  ASSUME WriteInv, NEW i \in Ids, NEW w \in Writers(i),
         Begins(i, w) \/ WriterFails(i, w) \/ ReadsTaken(i, w) \/ Misses(i, w)
  PROVE  WriteInv' /\ UNCHANGED <<records, logs, turn, lineage, gone, spoiled>>
<1>1. UNCHANGED <<records, logs, turn, lineage, gone, spoiled>>
  BY DEF Begins, WriterFails, ReadsTaken, Misses, storeVars
<1>2. PICK step \in Busy \cup {"idle", "done"} :
        /\ Goes(i, w, step) /\ step # "idle" /\ turn[i].at = "answer"
        /\ step = "append" => writer[i][w] = "idle" /\ (i \in Background => ~Stored(i))
        /\ step = "taken" => /\ writer[i][w] = "append" /\ turn[i].parent # None
                             /\ ~Accepts(i, turn[i].parent.log, Depth(i))
        /\ step = "fork" => writer[i][w] = "taken" /\ ~Own(i)
  BY DEF Begins, WriterFails, ReadsTaken, Misses, Busy, WriteInv, WriterInv
<1>3. /\ DOMAIN writer' = Ids
      /\ \A j \in Ids : writer'[j] \in [Writers(j) -> Busy \cup {"idle", "done"}]
      /\ writer'[i][w] = step
      /\ \A j \in Ids : \A v \in Writers(j) : j # i \/ v # w => writer'[j][v] = writer[j][v]
  BY <1>2, WriterMoves DEF WriteInv
<1>4. Types' /\ CursorInv' /\ RecordLife'
  BY <1>1, <1>3 DEF WriteInv, Types, CursorInv, RecordLife, Stored
<1>5. \A j \in Ids : /\ turn'[j] = turn[j] /\ records'[j] = records[j] /\ (j \in gone') = (j \in gone)
                     /\ Stored(j)' = Stored(j) /\ Own(j)' = Own(j)
                     /\ \A g \in Ids : Blocked(g, j)' = Blocked(g, j)
  BY <1>1 DEF Stored, Own, Blocked, Depth
<1>6. \A j \in Ids : turn[j].parent # None => turn[j].parent.log \in Ids
  BY DEF WriteInv, Types, Turn, Position
<1>7. step = "taken" => i \in gone \/ Blocked(turn[i].parent.log, i)
  <2> SUFFICES ASSUME step = "taken" PROVE i \in gone \/ Blocked(turn[i].parent.log, i)
    OBVIOUS
  <2>1. Top(logs[turn[i].parent.log]) \in Nat
    BY <1>2, <1>6, TopType DEF WriteInv
  <2>2. QED
    BY <1>2, <2>1, DepthType DEF Accepts, WriteInv, RecordLife, Blocked
<1>8. ASSUME NEW j \in Ids, NEW v \in Writers(j), j # i \/ v # w
      PROVE  /\ writer'[j][v] = writer[j][v] /\ Blocked(j, j)' = Blocked(j, j)
             /\ turn[j].parent # None => Blocked(turn[j].parent.log, j)' = Blocked(turn[j].parent.log, j)
  BY <1>3, <1>5, <1>6, <1>8
<1>9. Blocked(i, i)' = Blocked(i, i)
      /\ (turn[i].parent # None => Blocked(turn[i].parent.log, i)' = Blocked(turn[i].parent.log, i))
  BY <1>5, <1>6
<1>10. WriterInv'
  <2>1. i \notin Background /\ step # "done" => records[i] = None /\ i \notin gone
    BY <1>2 DEF WriteInv, WriterInv, Busy
  <2>2. step \in {"taken", "fork"} => turn[i].parent # None /\ (i \in gone \/ Blocked(turn[i].parent.log, i))
    BY <1>2, <1>7 DEF WriteInv, WriterInv
  <2>3. step \in Busy /\ Stored(i) =>
          IF turn[i].parent = None THEN Blocked(i, i)
          ELSE Blocked(turn[i].parent.log, i) /\ (Own(i) \/ Blocked(i, i))
    <3>1. step # "append" /\ step \in Busy => writer[i][w] \in Busy
      BY <1>2 DEF Busy
    <3>2. step = "append" => ~Stored(i)
      BY <1>2, <2>1 DEF Stored
    <3>3. QED
      BY <3>1, <3>2 DEF WriteInv, WriterInv
  <2>4. QED
    BY <1>1, <1>2, <1>3, <1>5, <1>8, <1>9, <2>1, <2>2, <2>3 DEF WriteInv, WriterInv
<1>11. QED
  BY <1>1, <1>4, <1>10 DEF WriteInv

\* Only a response that is not settled is written (append_and_set, if_exists).
LEMMA OnlyUnsettledLands ==
  ASSUME WriteInv, NEW i \in Ids, NEW w \in Writers(i), Lands(i, w)
  PROVE  /\ ~Settled(i) /\ turn[i].at = "answer"
         /\ i \in Background => records[i] # None /\ records[i].status = "queued"
         /\ i \notin Background => records[i] = None
         /\ turn[i].parent # None => turn[i].parent.log \in Ids
         /\ writer[i][w] = "fork" => turn[i].parent # None /\ Blocked(turn[i].parent.log, i)
<1>1. /\ writer[i][w] \in {"append", "fork"} /\ Accepts(i, Home(i, w), Depth(i))
      /\ writer[i][w] \in Busy /\ turn[i].at = "answer"
  BY DEF Lands, WriteInv, WriterInv, Busy
<1>2. turn[i].parent # None => turn[i].parent.log \in Ids
  BY DEF WriteInv, Types, Turn, Position
<1>3. ~Blocked(Home(i, w), i)
  <2>1. Home(i, w) \in Ids
    BY WriteLands DEF WriteInv
  <2>2. Top(logs[Home(i, w)]) \in Nat /\ Depth(i) \in Nat
    BY <2>1, TopType, DepthType DEF WriteInv
  <2>3. QED
    BY <1>1, <2>2 DEF Blocked, Accepts
<1>4. ~Stored(i)
  BY <1>1, <1>3 DEF WriteInv, WriterInv, Home
<1>5. i \notin gone
  BY <1>1 DEF WriteInv, WriterInv, RecordLife, Accepts
<1>6. /\ i \in Background => records[i] # None /\ records[i].status = "queued"
      /\ i \notin Background => records[i] = None
  BY <1>1, <1>4, <1>5 DEF Accepts, Stored, WriteInv, RecordLife, WriterInv
<1>7. writer[i][w] = "fork" => turn[i].parent # None /\ Blocked(turn[i].parent.log, i)
  BY <1>5 DEF WriteInv, WriterInv
<1>8. QED
  BY <1>1, <1>2, <1>4, <1>5, <1>6, <1>7 DEF Settled

\* The first write settles a response, and leaves its other writers no place (_store_turn).
LEMMA WriteKeepsWrites ==
  ASSUME WriteInv, NEW i \in Ids, NEW w \in Writers(i), Lands(i, w)
  PROVE  WriteInv'
<1> PICK home \in Ids : home = Home(i, w)
  BY WriteLands DEF WriteInv
<1>1. /\ logs' \in [Ids -> Seq(Entry)] /\ records' \in [Ids -> Record \cup {None}]
      /\ records'[i] = [status |-> w, log |-> home, depth |-> Depth(i)]
      /\ \A j \in Ids : j # i => records'[j] = records[j]
  BY WriteLands DEF WriteInv
<1>2. UNCHANGED <<turn, lineage, gone, spoiled>>
  BY DEF Lands
<1>3. /\ DOMAIN writer' = Ids
      /\ \A j \in Ids : writer'[j] \in [Writers(j) -> Busy \cup {"idle", "done"}]
      /\ \/ writer'[i][w] = "done"
         \/ writer[i][w] = "append" /\ turn[i].parent # None /\ writer'[i][w] = "taken"
      /\ \A j \in Ids : \A v \in Writers(j) : j # i \/ v # w => writer'[j][v] = writer[j][v]
  <2>1. CASE Goes(i, w, "done")
    BY <2>1, WriterMoves DEF WriteInv
  <2>2. CASE writer[i][w] = "append" /\ turn[i].parent # None /\ Goes(i, w, "taken")
    <3>1. "taken" \in Busy \cup {"idle", "done"}
      BY DEF Busy
    <3>2. QED
      BY <2>2, <3>1, WriterMoves DEF WriteInv
  <2>3. QED
    BY <2>1, <2>2 DEF Lands
<1>4. Types' /\ CursorInv'
  BY <1>1, <1>2, <1>3 DEF WriteInv, Types, CursorInv
<1>5. w \in Final /\ records'[i] # None /\ records'[i].status = w
  <2>1. w \in Final
    BY DEF Writers, Final
  <2>2. [status |-> w, log |-> home, depth |-> Depth(i)] \in Record
    BY <1>1, <2>1, DepthType DEF Record, WriteInv
  <2>3. QED
    BY <1>1, <2>1, <2>2, LogAssumption
<1>6. Stored(i)' /\ \A j \in Ids : j # i => Stored(j)' = Stored(j)
  BY <1>1, <1>5 DEF Stored, Final
<1>7. ~Settled(i) /\ turn[i].at = "answer" /\ (i \notin Background => records[i] = None)
  BY OnlyUnsettledLands
<1>8. RecordLife'
  BY <1>1, <1>2, <1>5, <1>6, <1>7 DEF WriteInv, RecordLife, Settled
<1>9. \A g \in Ids : Top(logs[g]) \in Nat /\ Top(logs'[g]) \in Nat /\ Top(logs'[g]) >= Top(logs[g])
  BY WriteRaises DEF WriteInv
<1>10. \A j \in Ids : Depth(j)' = Depth(j) /\ Depth(j) \in Nat /\ turn'[j] = turn[j]
  BY <1>2, DepthType DEF Depth, WriteInv
<1>11. \A j, g \in Ids : Blocked(g, j) => Blocked(g, j)'
  BY <1>9, <1>10 DEF Blocked
<1>12. Blocked(home, i)' /\ ~Blocked(home, i) /\ Top(logs'[home]) >= Depth(i)
  <2>1. Top(logs[home]) < Depth(i) /\ Top(logs'[home]) = Depth(i)
    BY <1>1, WriteRaises DEF WriteInv
  <2>2. QED
    BY <1>1, <1>9, <1>10, <2>1 DEF Blocked
<1>13. \A j \in Ids : turn[j].parent # None => turn[j].parent.log \in Ids
  BY DEF WriteInv, Types, Turn, Position
<1>14. ASSUME NEW j \in Ids, turn[j].parent # None
       PROVE  Own(j)' <=> Own(j) \/ (j = i /\ home = turn[j].parent.log)
  <2> DEFINE g == turn[j].parent.log
  <2>1. g \in Ids /\ turn'[j] = turn[j] /\ Depth(j)' = Depth(j)
    BY <1>10, <1>13, <1>14
  <2>2. /\ Len(logs'[g]) = Len(logs[g]) + IF g = home THEN 1 ELSE 0
        /\ \A k \in 1..Len(logs[g]) : logs'[g][k] = logs[g][k]
        /\ g = home => logs'[g][Len(logs[g]) + 1] = Mark(i, w)
    <3>1. \A h \in Ids :
            /\ Len(logs'[h]) = Len(logs[h]) + IF h = home THEN 1 ELSE 0
            /\ \A k \in 1..Len(logs[h]) : logs'[h][k] = logs[h][k]
            /\ h = home => logs'[h][Len(logs[h]) + 1] = Mark(i, w)
      BY WriteRaises, ZenonT(30) DEF WriteInv
    <3>2. QED
      BY <2>1, <3>1
  <2>3. Mark(i, w).at = Depth(i) /\ Mark(i, w).id = i
    BY DEF Mark
  <2>4. logs[g] \in Seq(Entry) /\ Len(logs[g]) \in Nat
    BY <2>1 DEF WriteInv, Types
  <2>5. /\ Own(j)  <=> \E k \in 1..Len(logs[g]) : logs[g][k].at = Depth(j) /\ logs[g][k].id = j
        /\ Own(j)' <=> \E k \in 1..Len(logs'[g]) : logs'[g][k].at = Depth(j) /\ logs'[g][k].id = j
    BY <2>1 DEF Own
  <2> HIDE DEF g
  <2>6. g # home => (Own(j)' <=> Own(j))
    BY <2>2, <2>4, <2>5
  <2>7. g = home => (Own(j)' <=> Own(j) \/ j = i)
    <3> SUFFICES ASSUME g = home PROVE Own(j)' <=> Own(j) \/ j = i
      OBVIOUS
    <3>1. 1..Len(logs'[g]) = 1..Len(logs[g]) \cup {Len(logs[g]) + 1}
      BY <2>2, <2>4
    <3>2. logs'[g][Len(logs[g]) + 1].at = Depth(i) /\ logs'[g][Len(logs[g]) + 1].id = i
      BY <2>2, <2>3
    <3>3. ASSUME Own(j)' PROVE Own(j) \/ j = i
      <4>1. PICK k \in 1..Len(logs'[g]) : logs'[g][k].at = Depth(j) /\ logs'[g][k].id = j
        BY <2>5, <3>3
      <4>2. CASE k \in 1..Len(logs[g])
        BY <2>2, <2>5, <4>1, <4>2
      <4>3. CASE k = Len(logs[g]) + 1
        BY <3>2, <4>1, <4>3
      <4>4. QED
        BY <3>1, <4>2, <4>3
    <3>4. Own(j) => Own(j)'
      BY <2>2, <2>5, <3>1
    <3>5. j = i => Own(j)'
      BY <2>5, <3>1, <3>2
    <3>6. QED
      BY <3>3, <3>4, <3>5
  <2>8. QED
    BY <2>6, <2>7 DEF g
<1>15. WriterInv'
  <2>1. ASSUME NEW j \in Ids, NEW v \in Writers(j), j # i
        PROVE  /\ writer'[j][v] = writer[j][v] /\ Stored(j)' = Stored(j)
               /\ turn[j].parent # None => (Own(j)' <=> Own(j))
    BY <1>3, <1>6, <1>14, <2>1
  <2>2. ASSUME NEW v \in Writers(i), v # w
        PROVE  /\ i \in Background /\ writer'[i][v] = writer[i][v]
               /\ writer[i][v] \in {"taken", "fork"} => Blocked(turn[i].parent.log, i)
               /\ writer[i][v] = "fork" => ~Own(i)'
    <3>1. i \in Background /\ writer'[i][v] = writer[i][v]
      BY <1>3, <2>2 DEF Writers
    <3>2. writer[i][v] \in {"taken", "fork"} => turn[i].parent # None /\ Blocked(turn[i].parent.log, i)
      BY <1>7 DEF WriteInv, WriterInv, Settled
    <3>3. writer[i][v] = "fork" => ~Own(i)'
      BY <1>12, <1>14, <3>2 DEF WriteInv, WriterInv
    <3>4. QED
      BY <3>1, <3>2, <3>3
  <2>3. IF turn[i].parent = None THEN Blocked(i, i)'
        ELSE Top(logs'[turn[i].parent.log]) >= Depth(i) /\ (Own(i)' \/ Blocked(i, i)')
    <3>1. CASE turn[i].parent = None
      BY <1>12, <3>1 DEF Home
    <3>2. CASE turn[i].parent # None /\ writer[i][w] = "append"
      BY <1>12, <1>14, <3>2 DEF Home
    <3>3. CASE turn[i].parent # None /\ writer[i][w] = "fork"
      BY <1>9, <1>10, <1>12, <1>13, <3>3, OnlyUnsettledLands DEF Home, Blocked
    <3>4. QED
      BY <3>1, <3>2, <3>3 DEF Lands
  <2>4. ASSUME NEW j \in Ids
        PROVE  Blocked(j, j) => Blocked(j, j)'
    BY <1>11
  <2>5. ASSUME NEW j \in Ids, turn[j].parent # None
        PROVE  Blocked(turn[j].parent.log, j) => Top(logs'[turn[j].parent.log]) >= Depth(j)
    BY <1>9, <1>10, <1>13, <2>5 DEF Blocked
  <2>6. ASSUME NEW j \in Ids, NEW v \in Writers(j), j # i
        PROVE  LET s == writer'[j][v] IN
               /\ s # "idle" => turn'[j].at = "answer"
               /\ j \notin Background /\ s # "done" /\ ~(s = "taken" /\ Own(j)') =>
                    records'[j] = None /\ j \notin gone'
               /\ s \in {"taken", "fork"} =>
                    turn'[j].parent # None /\ (j \in gone' \/ Top(logs'[turn[j].parent.log]) >= Depth(j))
               /\ s \in Busy /\ Stored(j)' =>
                    IF turn'[j].parent = None THEN Blocked(j, j)'
                    ELSE Top(logs'[turn[j].parent.log]) >= Depth(j) /\ (Own(j)' \/ Blocked(j, j)')
               /\ s = "fork" => ~Own(j)'
    <3>1. /\ writer'[j][v] = writer[j][v] /\ Stored(j)' = Stored(j)
          /\ turn[j].parent # None => (Own(j)' <=> Own(j))
      BY <2>1, <2>6
    <3>2. turn' = turn /\ gone' = gone /\ records'[j] = records[j]
      BY <1>1, <1>2, <2>6
    <3>3. QED
      BY <2>4, <2>5, <3>1, <3>2 DEF WriteInv, WriterInv
  <2>7. ASSUME NEW v \in Writers(i)
        PROVE  LET s == writer'[i][v] IN
               /\ s # "idle" => turn'[i].at = "answer"
               /\ i \notin Background /\ s # "done" /\ ~(s = "taken" /\ Own(i)') =>
                    records'[i] = None /\ i \notin gone'
               /\ s \in {"taken", "fork"} =>
                    turn'[i].parent # None /\ (i \in gone' \/ Top(logs'[turn[i].parent.log]) >= Depth(i))
               /\ s \in Busy /\ Stored(i)' =>
                    IF turn'[i].parent = None THEN Blocked(i, i)'
                    ELSE Top(logs'[turn[i].parent.log]) >= Depth(i) /\ (Own(i)' \/ Blocked(i, i)')
               /\ s = "fork" => ~Own(i)'
    <3>1. CASE v # w
      BY <1>2, <1>3, <1>7, <2>2, <2>3, <2>5, <3>1 DEF WriteInv, WriterInv, Busy
    <3>2. CASE v = w /\ writer'[i][w] = "done"
      BY <1>2, <1>7, <3>2 DEF Busy
    <3>3. CASE v = w /\ writer[i][w] = "append" /\ turn[i].parent # None /\ writer'[i][w] = "taken"
      <4>1. Own(i)'
        BY <1>14, <3>3 DEF Home
      <4>2. QED
        BY <1>2, <1>7, <2>3, <3>3, <4>1
    <3>4. QED
      BY <1>3, <3>1, <3>2, <3>3
  <2>8. \A j \in Ids : Blocked(turn[j].parent.log, j)' <=> Top(logs'[turn[j].parent.log]) >= Depth(j)
    BY <1>2, <1>10 DEF Blocked
  <2>9. QED
    BY <2>6, <2>7, <2>8 DEF WriterInv
<1>16. QED
  BY <1>4, <1>8, <1>15 DEF WriteInv

\* A record goes: DELETE, or the end of its TTL.
Removes(i) ==
  /\ records[i] # None /\ records' = [records EXCEPT ![i] = None] /\ gone' = gone \cup {i}
  /\ UNCHANGED <<logs, turn, writer, lineage, spoiled>>

\* A log reaches the end of its TTL.
LogEnds(i) ==
  /\ \A j \in Ids : \A w \in Writers(j) : writer[j][w] \in {"idle", "done"}
  /\ logs[i] # <<>> /\ logs' = [logs EXCEPT ![i] = <<>>] /\ spoiled'
  /\ UNCHANGED <<records, turn, writer, lineage, gone>>

\* A response that is gone stays so, whoever still writes it (delete, if_exists).
LEMMA RemovalKeepsWrites ==
  ASSUME WriteInv, NEW i \in Ids, Removes(i)
  PROVE  WriteInv'
<1>1. /\ records' \in [Ids -> Record \cup {None}] /\ records'[i] = None
      /\ \A j \in Ids : j # i => records'[j] = records[j]
  BY DEF WriteInv, Types, Removes
<1>2. UNCHANGED <<logs, turn, writer, lineage>> /\ gone' = gone \cup {i} /\ records[i] # None
  BY DEF Removes
<1>3. Types' /\ CursorInv'
  BY <1>1, <1>2 DEF WriteInv, Types, CursorInv
<1>4. ~Stored(i)' /\ \A j \in Ids : j # i => Stored(j)' = Stored(j)
  BY <1>1 DEF Stored
<1>5. RecordLife'
  BY <1>1, <1>2, <1>4 DEF WriteInv, RecordLife
<1>6. \A j \in Ids : /\ turn'[j] = turn[j] /\ Own(j)' = Own(j)
                     /\ Blocked(j, j)' = Blocked(j, j)
                     /\ Blocked(turn[j].parent.log, j)' = Blocked(turn[j].parent.log, j)
  BY <1>2 DEF Own, Blocked, Depth
<1>7. i \notin Background =>
        \A w \in Writers(i) : writer[i][w] = "done" \/ (writer[i][w] = "taken" /\ Own(i))
  BY <1>2 DEF WriteInv, WriterInv
<1>8. WriterInv'
  BY <1>1, <1>2, <1>4, <1>6, <1>7 DEF WriteInv, WriterInv
<1>9. QED
  BY <1>3, <1>5, <1>8 DEF WriteInv

\* No log expires under a writer.
LEMMA ExpiryKeepsWrites ==
  ASSUME WriteInv, NEW i \in Ids, LogEnds(i)
  PROVE  WriteInv'
<1>1. logs' \in [Ids -> Seq(Entry)]
  BY DEF WriteInv, Types, LogEnds
<1>2. UNCHANGED <<records, turn, writer, lineage, gone>>
  BY DEF LogEnds
<1>3. Types' /\ CursorInv' /\ RecordLife'
  BY <1>1, <1>2 DEF WriteInv, Types, CursorInv, RecordLife, Stored
<1>4. WriterInv'
  BY <1>2 DEF WriteInv, WriterInv, Busy, LogEnds
<1>5. QED
  BY <1>3, <1>4 DEF WriteInv

\* The steps of the store, of its writers and of a request, each with what it leaves behind.
LEMMA StepKinds ==
  ASSUME WriteInv, Next
  PROVE  \E i \in Ids :
           \/ \E p \in 1..(i - 1) \cup {None} : Starts(i, p)
           \/ ReadsRecord(i) \/ ReadsSegment(i) \/ ReadFails(i) \/ Answers(i)
           \/ Removes(i) \/ LogEnds(i)
           \/ \E w \in Writers(i) :
                \/ Begins(i, w) \/ WriterFails(i, w) \/ ReadsTaken(i, w) \/ Misses(i, w)
                \/ Lands(i, w)
<1>1. \A i \in Ids : Deletes(i) \/ Expires(i) => Removes(i) \/ LogEnds(i)
  BY DEF Deletes, Expires, Removes, LogEnds
<1>2. \A i \in Ids : \A w \in Writers(i) :
        Appends(i, w) \/ Forks(i, w) => Lands(i, w) \/ Misses(i, w)
  BY WriteKinds DEF WriteInv, WriterInv
<1>3. QED
  BY <1>1, <1>2 DEF Next

\* Whatever a request does before it is answered (create_response).
LEMMA RequestsKeepWrites ==
  ASSUME WriteInv, NEW i \in Ids,
         \/ \E p \in 1..(i - 1) \cup {None} : Starts(i, p)
         \/ ReadsRecord(i) \/ ReadsSegment(i) \/ ReadFails(i) \/ Answers(i)
  PROVE  WriteInv'
<1>1. turn[i].at \in {"new", "resolve", "entries", "resolved"}
  BY DEF Starts, ReadsRecord, ReadsSegment, ReadFails, Answers
<1>2. turn[i] \in Turn
  BY DEF WriteInv, Types
<1>3. ASSUME NEW p \in 1..(i - 1) \cup {None}, Starts(i, p)
      PROVE  WriteInv'
  <2> DEFINE t == [turn[i] EXCEPT !.at = IF p = None THEN "resolved" ELSE "resolve", !.prev = p]
  <2>1. t \in Turn /\ turn' = [turn EXCEPT ![i] = t] /\ lineage' \in [Ids -> Seq(Ids)]
    BY <1>3, StartsTo DEF WriteInv
  <2>2. t.at = (IF p = None THEN "resolved" ELSE "resolve") /\ t.prev = p
    BY <1>2 DEF Turn
  <2>3. UNCHANGED <<records, logs, writer, gone>>
    BY <1>3 DEF Starts
  <2> HIDE DEF t
  <2>4. QED
    BY <1>1, <2>1, <2>2, <2>3, RequestKeepsWrites
<1>4. CASE ReadsRecord(i)
  <2> DEFINE pos == [log |-> records[turn[i].prev].log, depth |-> records[turn[i].prev].depth]
  <2>1. UNCHANGED <<records, logs, writer, gone, lineage>> /\ lineage' \in [Ids -> Seq(Ids)]
    BY <1>4 DEF ReadsRecord, storeVars, WriteInv, Types
  <2>2. \/ pos \in Position /\ [turn[i] EXCEPT !.at = "entries", !.parent = pos, !.cursor = pos] \in Turn
           /\ turn' = [turn EXCEPT ![i] =
                [turn[i] EXCEPT !.at = "entries", !.parent = pos, !.cursor = pos]]
        \/ turn' = [turn EXCEPT ![i] = [turn[i] EXCEPT !.at = "refused"]]
           /\ [turn[i] EXCEPT !.at = "refused"] \in Turn
    BY <1>4, ReadsRecordTo
  <2> HIDE DEF pos
  <2>3. PICK t \in Turn : /\ turn' = [turn EXCEPT ![i] = t]
                          /\ t.at = "refused" \/ (t.at = "entries" /\ t.cursor # None)
    <3> DEFINE t == [turn[i] EXCEPT !.at = "entries", !.parent = pos, !.cursor = pos]
               u == [turn[i] EXCEPT !.at = "refused"]
    <3>1. t.at = "entries" /\ t.cursor = pos /\ u.at = "refused"
      BY <1>2 DEF Turn
    <3>2. pos \in Position => pos # None
      BY LogAssumption
    <3>3. \/ t \in Turn /\ pos \in Position /\ turn' = [turn EXCEPT ![i] = t]
          \/ u \in Turn /\ turn' = [turn EXCEPT ![i] = u]
      BY <2>2
    <3> HIDE DEF t, u
    <3>4. QED
      BY <3>1, <3>2, <3>3
  <2>4. QED
    BY <1>1, <2>1, <2>3, RequestKeepsWrites
<1>5. CASE ReadsSegment(i)
  <2>1. UNCHANGED <<records, logs, writer, gone, lineage>> /\ lineage' \in [Ids -> Seq(Ids)]
    BY <1>5 DEF ReadsSegment, storeVars, WriteInv, Types
  <2>2. PICK t \in Turn : /\ turn' = [turn EXCEPT ![i] = t]
                          /\ \/ t.at \in {"refused", "resolved"}
                             \/ t.at = "entries" /\ t.cursor # None
    <3> DEFINE segment == Segment(turn[i].cursor)
               t == [turn[i] EXCEPT !.history = Named(segment) \o turn[i].history,
                       !.at = IF segment[1].base = None THEN "resolved" ELSE "entries",
                       !.cursor = segment[1].base]
               u == [turn[i] EXCEPT !.at = "refused"]
    <3>1. (t \in Turn /\ turn' = [turn EXCEPT ![i] = t]) \/ (u \in Turn /\ turn' = [turn EXCEPT ![i] = u])
      BY <1>5, ReadsSegmentTo
    <3>2. /\ t.at = (IF segment[1].base = None THEN "resolved" ELSE "entries")
          /\ t.cursor = segment[1].base /\ u.at = "refused"
      BY <1>2 DEF Turn
    <3> HIDE DEF t, u
    <3>3. QED
      BY <3>1, <3>2
  <2>3. QED
    BY <1>1, <2>1, <2>2, RequestKeepsWrites
<1>6. CASE ReadFails(i) \/ Answers(i)
  <2>1. PICK s \in {"answer", "unavailable"} :
           /\ [turn[i] EXCEPT !.at = s] \in Turn /\ turn' = [turn EXCEPT ![i] = [turn[i] EXCEPT !.at = s]]
           /\ s = "answer" => turn[i].at = "resolved" /\ (i \in Background => records' = Queued(i))
           /\ records' = records \/ (i \in Background /\ turn[i].at = "resolved" /\ records' = Queued(i))
           /\ UNCHANGED <<logs, writer, lineage, gone, spoiled>>
    BY <1>6, AnswersTo DEF WriteInv
  <2> DEFINE t == [turn[i] EXCEPT !.at = s]
  <2>2. t.at = s
    BY <1>2 DEF Turn
  <2>3. lineage' \in [Ids -> Seq(Ids)]
    BY <2>1 DEF WriteInv, Types
  <2>4. t \in Turn /\ turn' = [turn EXCEPT ![i] = t]
    BY <2>1
  <2> HIDE DEF t
  <2>5. QED
    BY <1>1, <2>1, <2>2, <2>3, <2>4, RequestKeepsWrites
<1>7. QED
  BY <1>3, <1>4, <1>5, <1>6

\* Every step keeps the writers' invariant.
LEMMA WritesKept == WriteInv /\ [Next]_vars => WriteInv'
<1> SUFFICES ASSUME WriteInv, [Next]_vars PROVE WriteInv'
  OBVIOUS
<1>1. CASE Next
  BY <1>1, StepKinds, RequestsKeepWrites, RemovalKeepsWrites, ExpiryKeepsWrites, WaitKeepsWrites,
     WriteKeepsWrites
<1>2. CASE UNCHANGED vars
  BY <1>2 DEF vars, WriteInv, Types, CursorInv, RecordLife, WriterInv, Stored, Own, Blocked, Depth
<1>3. QED
  BY <1>1, <1>2

-----------------------------------------------------------------------------
(* A response is settled once.                                               *)

\* A step that leaves every record and what is gone alone changes no status.
LEMMA StatusKept == UNCHANGED <<records, gone>> => StatusOf' = StatusOf
BY DEF StatusOf

\* A step that touches one response changes the status of no other.
LEMMA OneStatus ==
  ASSUME NEW i \in Ids, \A j \in Ids : j # i => records'[j] = records[j] /\ (j \in gone' <=> j \in gone)
  PROVE  StatusOf' = [StatusOf EXCEPT ![i] = StatusOf'[i]]
<1>1. \A j \in Ids : j # i => StatusOf'[j] = StatusOf[j]
  BY DEF StatusOf
<1>2. StatusOf' = [j \in Ids |-> StatusOf'[j]] /\ StatusOf = [j \in Ids |-> StatusOf[j]]
  BY DEF StatusOf
<1>3. QED
  BY <1>1, <1>2

\* Every step queues, settles or removes one response, or changes no status (TurnStore).
LEMMA StepSettlesOnce ==
  WriteInv /\ [Next]_vars => [Promise!Next]_StatusOf
<1> SUFFICES ASSUME WriteInv, [Next]_vars PROVE [Promise!Next]_StatusOf
  OBVIOUS
<1>1. CASE UNCHANGED vars
  BY <1>1, StatusKept DEF vars
<1>2. CASE Next
  <2>1. PICK i \in Ids :
          \/ \E p \in 1..(i - 1) \cup {None} : Starts(i, p)
          \/ ReadsRecord(i) \/ ReadsSegment(i) \/ ReadFails(i) \/ Answers(i)
          \/ Removes(i) \/ LogEnds(i)
          \/ \E w \in Writers(i) :
               \/ Begins(i, w) \/ WriterFails(i, w) \/ ReadsTaken(i, w) \/ Misses(i, w)
               \/ Lands(i, w)
    BY <1>2, StepKinds
  <2>2. CASE \/ \E p \in 1..(i - 1) \cup {None} : Starts(i, p)
             \/ ReadsRecord(i) \/ ReadsSegment(i) \/ LogEnds(i)
    BY <2>2, StatusKept DEF Starts, ReadsRecord, ReadsSegment, LogEnds, storeVars
  <2>3. CASE \E w \in Writers(i) :
               Begins(i, w) \/ WriterFails(i, w) \/ ReadsTaken(i, w) \/ Misses(i, w)
    BY <2>3, StatusKept, WaitKeepsWrites
  <2>4. CASE ReadFails(i) \/ Answers(i)
    <3>1. UNCHANGED gone /\
          (records' = records \/ (i \in Background /\ turn[i].at = "resolved" /\ records' = Queued(i)))
      BY <2>4, AnswersTo DEF WriteInv
    <3>2. CASE i \in Background /\ turn[i].at = "resolved" /\ records' = Queued(i)
      <4>1. records[i] = None /\ i \notin gone
        BY <3>2 DEF WriteInv, RecordLife
      <4>2. /\ records'[i] # None /\ records'[i].status = "queued"
            /\ \A j \in Ids : j # i => records'[j] = records[j]
        BY <3>2, QueuedRecord DEF WriteInv
      <4>3. StatusOf[i] = "absent" /\ StatusOf'[i] = "queued"
        BY <4>1, <4>2 DEF StatusOf
      <4>4. StatusOf' = [StatusOf EXCEPT ![i] = StatusOf'[i]]
        BY <3>1, <4>2, OneStatus
      <4>5. Promise!Queue(i)
        BY <3>2, <4>3, <4>4 DEF Promise!Queue
      <4>6. QED
        BY <4>5 DEF Promise!Next
    <3>3. QED
      BY <3>1, <3>2, StatusKept
  <2>5. CASE Removes(i)
    <3>1. /\ records[i] # None /\ records'[i] = None /\ i \in gone'
          /\ \A j \in Ids : j # i => records'[j] = records[j] /\ (j \in gone' <=> j \in gone)
      BY <2>5 DEF Removes, WriteInv, Types
    <3>2. StatusOf[i] = records[i].status /\ StatusOf'[i] = "gone"
      BY <3>1 DEF StatusOf
    <3>3. records[i].status \in {"queued"} \cup Final
      BY <3>1 DEF WriteInv, Types, Record
    <3>4. StatusOf' = [StatusOf EXCEPT ![i] = StatusOf'[i]]
      BY <3>1, OneStatus
    <3>5. Promise!Remove(i)
      BY <3>2, <3>3, <3>4 DEF Promise!Remove, Final
    <3>6. QED
      BY <3>5 DEF Promise!Next
  <2>6. ASSUME NEW w \in Writers(i), Lands(i, w)
        PROVE  [Promise!Next]_StatusOf
    <3>2. w \in Final
      BY DEF Writers, Final
    <3>3. /\ records'[i] = [status |-> w, log |-> Home(i, w), depth |-> Depth(i)]
          /\ Home(i, w) \in Ids /\ Depth(i) \in Nat
          /\ \A j \in Ids : j # i => records'[j] = records[j]
      BY <2>6, WriteLands, DepthType DEF WriteInv
    <3>4. records'[i] # None /\ records'[i].status = w
      <4>1. [status |-> w, log |-> Home(i, w), depth |-> Depth(i)] \in Record
        BY <3>2, <3>3 DEF Record
      <4>2. QED
        BY <3>3, <4>1, LogAssumption
    <3>5. gone' = gone
      BY <2>6 DEF Lands
    <3>6. StatusOf[i] = (IF i \in Background THEN "queued" ELSE "absent") /\ StatusOf'[i] = w
      BY <2>6, <3>4, OnlyUnsettledLands DEF StatusOf, Settled
    <3>7. StatusOf' = [StatusOf EXCEPT ![i] = StatusOf'[i]]
      BY <3>3, <3>5, OneStatus
    <3>8. Promise!Settle(i, w)
      BY <3>6, <3>7 DEF Promise!Settle
    <3>9. QED
      BY <3>2, <3>8 DEF Promise!Next, Promise!Final, Final
  <2>7. QED
    BY <2>1, <2>2, <2>3, <2>4, <2>5, <2>6
<1>3. QED
  BY <1>1, <1>2

\* The store keeps the promise of TurnStore for any number of responses and faults: completion,
\* cancel and failure race to settle a background response, the first one stands, and a response
\* that was deleted or has expired stays gone (write_terminal_if_not_terminal, delete).
THEOREM SettlesOnce == Spec => SettledOnce
<1>1. Init => Promise!Init
  BY DEF Init, Promise!Init, StatusOf
<1>2. QED
  BY <1>1, WriteStart, WritesKept, StepSettlesOnce, PTL DEF Spec, SettledOnce, Promise!Spec

-----------------------------------------------------------------------------
(* The logs.                                                                 *)

\* A log that still begins with the turn that started it has never expired.
Owned(g) == logs[g] # <<>> /\ logs[g][1].id = g

\* Where turn p was stored: in its own log, or after the turns it follows in the log of an earlier one.
Place(pos, p) ==
  /\ turn[p].at = "answer" /\ Settled(p) /\ pos.depth = Depth(p)
  /\ turn[pos.log].at = "answer" /\ Settled(pos.log) /\ pos.depth >= Depth(pos.log) /\ pos.log <= p
  /\ Owned(pos.log) => /\ pos.depth - Depth(pos.log) + 1 \in 1..Len(logs[pos.log])
                       /\ logs[pos.log][pos.depth - Depth(pos.log) + 1].id = p
  /\ ~spoiled => Owned(pos.log)

\* A continuation knows where the turn it continues was stored, from when it has read its record.
ParentInv ==
  \A i \in Ids :
    /\ turn[i].at = "new" => turn[i].prev = None
    /\ turn[i].prev # None => turn[i].prev < i /\ turn[turn[i].prev].at = "answer"
    /\ turn[i].parent # None => turn[i].prev # None /\ turn[i].at \notin {"new", "resolve"}
    /\ turn[i].at \in {"entries", "resolved", "answer"} /\ turn[i].prev # None => turn[i].parent # None
    /\ \A pos \in Position, p \in Ids : turn[i].parent = pos /\ turn[i].prev = p => Place(pos, p)

\* A lineage continues that of the previous response.
LineageInv ==
  \A i \in Ids :
    /\ turn[i].at = "new" => lineage[i] = <<>>
    /\ turn[i].at # "new" =>
         lineage[i] = IF turn[i].prev = None THEN <<i>> ELSE Append(lineage[turn[i].prev], i)
    /\ turn[i].at \in {"entries", "resolved", "answer"} => Len(lineage[i]) = Depth(i)
    /\ \A n \in 1..Len(lineage[i]) :
         LET p == lineage[i][n] IN
         Len(lineage[p]) = n /\ \A m \in 1..n : lineage[p][m] = lineage[i][m]

\* An entry is where its turn belongs: first in its own log, or later in its parent's.
Fits(g, k, e) ==
  /\ turn[e.id].at = "answer" /\ Settled(e.id) /\ e.at = Depth(e.id)
  /\ e.id = g => k = 1 /\ e.base = turn[g].parent
  /\ e.id # g => /\ turn[e.id].parent # None /\ turn[e.id].parent.log = g
                 /\ e.base = None /\ e.at > Depth(g)

EntryInv == \A g \in Ids : \A k \in 1..Len(logs[g]) : Fits(g, k, logs[g][k])

\* Positions rise, and no turn is there twice.
OrderInv ==
  /\ \A g \in Ids : \A k, m \in 1..Len(logs[g]) : k < m => logs[g][k].at < logs[g][m].at
  /\ \A g, h \in Ids : \A k \in 1..Len(logs[g]), m \in 1..Len(logs[h]) :
       logs[g][k].id = logs[h][m].id => g = h /\ k = m

\* A log that has not expired has no gap, and holds the end of the lineage of each of its turns.
OwnedInv ==
  \A g \in Ids : Owned(g) =>
    \A k \in 1..Len(logs[g]) :
      /\ logs[g][k].at = Depth(g) + k - 1
      /\ \A m \in 1..k : lineage[logs[g][k].id][Depth(g) + m - 1] = logs[g][m].id

\* A record says where its turn was stored, and the entry there is the writer's that settled it.
RecordInv ==
  \A i \in Ids, pos \in Position :
    Stored(i) /\ records[i].log = pos.log /\ records[i].depth = pos.depth =>
      /\ Place(pos, i)
      /\ Owned(pos.log) => logs[pos.log][pos.depth - Depth(pos.log) + 1].by = records[i].status

\* What has been read of a history is the end of the lineage, and the cursor is where the rest is.
HistoryInv ==
  \A i \in Ids :
    /\ turn[i].at \in {"resolved", "answer"} => turn[i].history \o <<i>> = lineage[i]
    /\ turn[i].at \in {"new", "resolve"} => turn[i].history = <<>>
    /\ \A pos \in Position, p \in Ids :
         turn[i].at = "entries" /\ turn[i].cursor = pos =>
           /\ pos.depth \in 1..(Len(lineage[i]) - 1)
           /\ lineage[i][pos.depth] = p => Place(pos, p)
           /\ turn[i].history \o <<i>> = SubSeq(lineage[i], pos.depth + 1, Len(lineage[i]))

LogInv ==
  /\ WriteInv /\ ParentInv /\ LineageInv /\ EntryInv /\ OrderInv /\ OwnedInv /\ RecordInv /\ HistoryInv

\* What the logs' invariant does not see.
LEMMA LogQuiet ==
  ASSUME LogInv, WriteInv', UNCHANGED <<records, logs, turn, lineage, gone, spoiled>>
  PROVE  LogInv'
<1>0. \A pos \in Position, p \in Ids : Place(pos, p) <=> Place(pos, p)'
  BY DEF Place, Owned, Settled, Stored, Depth
<1>1. ParentInv'
  BY <1>0 DEF LogInv, ParentInv
<1>2. RecordInv'
  BY <1>0 DEF LogInv, RecordInv, Owned, Stored, Depth
<1>3. HistoryInv'
  <2>1. turn' = turn /\ lineage' = lineage /\ HistoryInv
    BY DEF LogInv
  <2>2. QED
    BY <1>0, <2>1, ZenonT(30) DEF HistoryInv
<1>4. LineageInv'
  BY DEF LogInv, LineageInv, Depth
<1>5. EntryInv' /\ OrderInv'
  BY DEF LogInv, EntryInv, Fits, OrderInv, Settled, Stored, Depth
<1>6. OwnedInv'
  BY DEF LogInv, OwnedInv, Owned, Depth
<1>7. QED
  BY <1>1, <1>2, <1>3, <1>4, <1>5, <1>6 DEF LogInv

\* A parent is the place of the turn before (resolve_previous).
LEMMA ParentPlace ==
  ASSUME WriteInv, ParentInv, NEW i \in Ids, turn[i].parent # None
  PROVE  /\ turn[i].parent \in Position /\ turn[i].parent.log \in Ids /\ turn[i].prev \in Ids
         /\ turn[i].parent.depth \in Nat /\ turn[i].prev < i /\ Place(turn[i].parent, turn[i].prev)
<1>1. turn[i] \in Turn
  BY DEF WriteInv, Types
<1>2. /\ turn[i].parent \in Position /\ turn[i].parent.log \in Ids /\ turn[i].prev \in Ids
      /\ turn[i].parent.depth \in Nat
  BY <1>1 DEF Turn, Position, ParentInv
<1>3. turn[i].prev < i /\ Place(turn[i].parent, turn[i].prev)
  BY <1>2, LogAssumption DEF ParentInv
<1>4. QED
  BY <1>2, <1>3

\* An entry is one, of some response (append_and_set).
LEMMA EntryType ==
  ASSUME Types, NEW g \in Ids, NEW k \in 1..Len(logs[g])
  PROVE  /\ logs[g] \in Seq(Entry) /\ Len(logs[g]) \in Nat /\ logs[g][k] \in Entry
         /\ logs[g][k].id \in Ids /\ logs[g][k].at \in Nat /\ logs[g][k].base \in Position \cup {None}
<1>1. logs[g] \in Seq(Entry) /\ Len(logs[g]) \in Nat /\ logs[g][k] \in Entry
  BY DEF Types
<1>2. QED
  BY <1>1 DEF Entry

\* Nobody appends to the log of a response that is not settled (_store_turn).
LEMMA EmptyUntilSettled ==
  ASSUME WriteInv, ParentInv, EntryInv, NEW g \in Ids, ~Settled(g)
  PROVE  logs[g] = <<>> /\ Len(logs[g]) = 0
<1>1. logs[g] \in Seq(Entry) /\ Len(logs[g]) \in Nat
  BY DEF WriteInv, Types
<1>2. Len(logs[g]) = 0
  <2> SUFFICES ASSUME 1 \in 1..Len(logs[g]) PROVE FALSE
    BY <1>1
  <2> DEFINE e == logs[g][1]
  <2>1. e.id \in Ids
    BY EntryType DEF WriteInv
  <2>2. e.id # g => Place(turn[e.id].parent, turn[e.id].prev) /\ turn[e.id].parent.log = g
    BY <2>1, ParentPlace DEF EntryInv, Fits
  <2>3. e.id # g => Settled(g)
    BY <2>2 DEF Place
  <2>4. QED
    BY <2>3 DEF EntryInv, Fits
<1>3. QED
  BY <1>1, <1>2

\* What a step leaves as it is: an answered request, a settled response, a lineage.
LEMMA StaysSettled ==
  ASSUME WriteInv, Next
  PROVE  /\ \A j \in Ids : /\ turn[j].at = "answer" => turn'[j] = turn[j]
                           /\ Settled(j) => Settled(j)'
                           /\ turn[j].at # "new" => lineage'[j] = lineage[j]
         /\ spoiled => spoiled'
<1>1. PICK i \in Ids :
        \/ \E p \in 1..(i - 1) \cup {None} : Starts(i, p)
        \/ ReadsRecord(i) \/ ReadsSegment(i) \/ ReadFails(i) \/ Answers(i)
        \/ Removes(i) \/ LogEnds(i)
        \/ \E w \in Writers(i) :
             \/ Begins(i, w) \/ WriterFails(i, w) \/ ReadsTaken(i, w) \/ Misses(i, w)
             \/ Lands(i, w)
  BY StepKinds
<1>2. CASE \/ \E p \in 1..(i - 1) \cup {None} : Starts(i, p)
           \/ ReadsRecord(i) \/ ReadsSegment(i)
  <2>1. UNCHANGED <<records, gone, spoiled>> /\ turn[i].at # "answer"
    BY <1>2 DEF Starts, ReadsRecord, ReadsSegment, storeVars
  <2>2. \A j \in Ids : j # i => turn'[j] = turn[j]
    BY <1>2 DEF Starts, ReadsRecord, ReadsSegment, WriteInv, Types
  <2>3. \A j \in Ids : turn[j].at # "new" => lineage'[j] = lineage[j]
    BY <1>2 DEF Starts, ReadsRecord, ReadsSegment, storeVars, WriteInv, Types
  <2>4. QED
    BY <2>1, <2>2, <2>3 DEF Settled, Stored
<1>3. CASE ReadFails(i) \/ Answers(i)
  <2>1. /\ \A j \in Ids : j # i => turn'[j] = turn[j]
        /\ turn[i].at # "answer" /\ UNCHANGED <<lineage, gone, spoiled>>
        /\ records' = records \/ (turn[i].at = "resolved" /\ records' = Queued(i))
    BY <1>3, AnswersTo DEF WriteInv, Types, ReadFails, Answers
  <2>2. \A j \in Ids : Stored(j) => Stored(j)'
    BY <2>1, QueuedRecord DEF WriteInv, RecordLife, Stored
  <2>3. QED
    BY <2>1, <2>2 DEF Settled
<1>4. CASE Removes(i) \/ LogEnds(i)
  BY <1>4 DEF Removes, LogEnds, Settled, Stored, WriteInv, Types
<1>5. CASE \E w \in Writers(i) : Begins(i, w) \/ WriterFails(i, w) \/ ReadsTaken(i, w) \/ Misses(i, w)
  BY <1>5, WaitKeepsWrites DEF Settled, Stored
<1>6. ASSUME NEW w \in Writers(i), Lands(i, w)
      PROVE  /\ UNCHANGED <<turn, lineage, gone, spoiled>> /\ \A j \in Ids : Settled(j) => Settled(j)'
  <2>1. UNCHANGED <<turn, lineage, gone, spoiled>> /\ \A j \in Ids : j # i => records'[j] = records[j]
    BY <1>6, WriteLands DEF WriteInv, Lands
  <2>2. ~Settled(i)
    BY <1>6, OnlyUnsettledLands
  <2>3. QED
    BY <2>1, <2>2 DEF Settled, Stored
<1>7. QED
  BY <1>1, <1>2, <1>3, <1>4, <1>5, <1>6

\* A log changes when a write lands in it, and when it expires (append_and_set).
LEMMA LogMoves ==
  ASSUME WriteInv, Next
  PROVE  \/ (logs' = logs /\ spoiled' = spoiled) \/ \E i \in Ids : LogEnds(i)
         \/ \E i \in Ids : \E w \in Writers(i) : Lands(i, w)
<1>1. PICK i \in Ids :
        \/ \E p \in 1..(i - 1) \cup {None} : Starts(i, p)
        \/ ReadsRecord(i) \/ ReadsSegment(i) \/ ReadFails(i) \/ Answers(i)
        \/ Removes(i) \/ LogEnds(i)
        \/ \E w \in Writers(i) :
             \/ Begins(i, w) \/ WriterFails(i, w) \/ ReadsTaken(i, w) \/ Misses(i, w)
             \/ Lands(i, w)
  BY StepKinds
<1>2. \A w \in Writers(i) : Begins(i, w) \/ WriterFails(i, w) \/ ReadsTaken(i, w) \/ Misses(i, w) =>
        logs' = logs /\ spoiled' = spoiled
  BY WaitKeepsWrites
<1>3. QED
  BY <1>1, <1>2 DEF Starts, ReadsRecord, ReadsSegment, ReadFails, Answers, Removes, storeVars

\* Only its own turn starts a log, and until it expires nothing is taken from it (_store_turn).
LEMMA OwnedStays ==
  ASSUME WriteInv, Next, NEW g \in Ids
  PROVE  /\ Settled(g) /\ Owned(g)' => Owned(g)
         /\ Owned(g) /\ Owned(g)' => /\ Len(logs[g]) <= Len(logs'[g])
                                     /\ \A k \in 1..Len(logs[g]) : logs'[g][k] = logs[g][k]
         /\ Owned(g) /\ ~spoiled' => Owned(g)'
<1>1. logs[g] \in Seq(Entry) /\ Len(logs[g]) \in Nat
  BY DEF WriteInv, Types
<1>2. CASE logs' = logs
  BY <1>1, <1>2 DEF Owned
<1>3. CASE \E i \in Ids : LogEnds(i)
  BY <1>1, <1>3 DEF Owned, LogEnds, WriteInv, Types
<1>4. ASSUME NEW i \in Ids, NEW w \in Writers(i), Lands(i, w)
      PROVE  /\ Settled(g) /\ Owned(g)' => Owned(g)
             /\ Owned(g) => /\ Owned(g)' /\ Len(logs[g]) <= Len(logs'[g])
                            /\ \A k \in 1..Len(logs[g]) : logs'[g][k] = logs[g][k]
  <2>1. /\ Len(logs'[g]) = Len(logs[g]) + IF g = Home(i, w) THEN 1 ELSE 0
        /\ \A k \in 1..Len(logs[g]) : logs'[g][k] = logs[g][k]
        /\ g = Home(i, w) => logs'[g][Len(logs[g]) + 1] = Mark(i, w)
    BY <1>4, WriteRaises DEF WriteInv
  <2>0. Len(logs'[g]) = Len(logs[g]) \/ Len(logs'[g]) = Len(logs[g]) + 1
    <3>1. CASE g = Home(i, w)
      BY <2>1, <3>1
    <3>2. CASE g # Home(i, w)
      BY <1>1, <2>1, <3>2
    <3>3. QED
      BY <3>1, <3>2
  <2>2. logs'[g] \in Seq(Entry)
    BY <1>4, WriteLands DEF WriteInv
  <2>3. logs[g] # <<>> => 1 \in 1..Len(logs[g]) /\ logs'[g] # <<>>
    <3>1. logs[g] # <<>> => Len(logs[g]) >= 1
      BY <1>1
    <3>2. Len(logs[g]) >= 1 => Len(logs'[g]) >= 1
      BY <1>1, <2>0
    <3>3. Len(logs'[g]) >= 1 => logs'[g] # <<>>
      BY <2>2
    <3>4. QED
      BY <1>1, <3>1, <3>2, <3>3
  <2>4. Owned(g) => Owned(g)'
    BY <2>1, <2>3 DEF Owned
  <2>5. Settled(g) => g # i
    BY <1>4, OnlyUnsettledLands
  <2>6. logs[g] = <<>> /\ Settled(g) => ~Owned(g)'
    <3> SUFFICES ASSUME logs[g] = <<>>, Settled(g), logs'[g] # <<>> PROVE logs'[g][1].id # g
      BY DEF Owned
    <3>1. Len(logs[g]) = 0 /\ Len(logs'[g]) > 0
      BY <2>2
    <3>2. g = Home(i, w) /\ logs'[g][1] = Mark(i, w)
      BY <2>1, <3>1
    <3>3. Mark(i, w).id = i
      BY DEF Mark
    <3>4. QED
      BY <2>5, <3>2, <3>3
  <2>7. logs[g] # <<>> /\ Owned(g)' => Owned(g)
    BY <2>1, <2>3 DEF Owned
  <2>8. Len(logs[g]) <= Len(logs'[g])
    BY <1>1, <2>0
  <2>9. Settled(g) /\ Owned(g)' => Owned(g)
    BY <2>6, <2>7
  <2>10. QED
    BY <2>1, <2>4, <2>8, <2>9
<1>5. QED
  BY <1>2, <1>3, <1>4, LogMoves

\* The place of a turn stays its place (_store_turn).
LEMMA PlaceStays ==
  ASSUME WriteInv, Next, NEW pos \in Position, NEW p \in Ids, Place(pos, p)
  PROVE  Place(pos, p)'
<1>1. pos.log \in Ids /\ pos.depth \in Nat
  BY DEF Position
<1>2. turn'[p] = turn[p] /\ turn'[pos.log] = turn[pos.log] /\ Settled(p)' /\ Settled(pos.log)'
  BY <1>1, StaysSettled DEF Place
<1>3. Depth(p)' = Depth(p) /\ Depth(pos.log)' = Depth(pos.log)
  BY <1>2 DEF Depth
<1>4. Depth(pos.log) \in Nat /\ Len(logs[pos.log]) \in Nat
  BY <1>1, DepthType DEF WriteInv, Types
<1>5. /\ Owned(pos.log)' => Owned(pos.log)
      /\ Owned(pos.log) /\ Owned(pos.log)' => /\ Len(logs[pos.log]) <= Len(logs'[pos.log])
                                              /\ \A k \in 1..Len(logs[pos.log]) :
                                                   logs'[pos.log][k] = logs[pos.log][k]
      /\ Owned(pos.log) /\ ~spoiled' => Owned(pos.log)'
  BY <1>1, OwnedStays DEF Place
<1>6. ~spoiled' => ~spoiled
  BY StaysSettled
<1>7. Len(logs'[pos.log]) \in Nat
  BY <1>1, WritesKept DEF WriteInv, Types
<1>8. Owned(pos.log)' => /\ pos.depth - Depth(pos.log) + 1 \in 1..Len(logs'[pos.log])
                         /\ logs'[pos.log][pos.depth - Depth(pos.log) + 1].id = p
  BY <1>1, <1>4, <1>5, <1>7 DEF Place
<1>9. QED
  BY <1>2, <1>3, <1>5, <1>6, <1>8 DEF Place

-----------------------------------------------------------------------------
(* What one step does to one request.                                        *)

\* It continues turn p, or starts a conversation.
Begun(j, p) ==
  /\ turn[j].at = "new" /\ turn'[j].at = IF p = None THEN "resolved" ELSE "resolve"
  /\ p # None => p \in Ids /\ p < j /\ turn[p].at = "answer"
  /\ turn'[j].prev = p /\ turn'[j].parent = turn[j].parent /\ turn'[j].history = turn[j].history
  /\ lineage'[j] = IF p = None THEN <<j>> ELSE Append(lineage[p], j)

\* It finds the record of the turn before.
Found(j, pos) ==
  /\ turn[j].at = "resolve" /\ turn[j].prev \in Ids /\ Stored(turn[j].prev)
  /\ records[turn[j].prev].log = pos.log /\ records[turn[j].prev].depth = pos.depth
  /\ turn'[j].at = "entries" /\ turn'[j].parent = pos /\ turn'[j].cursor = pos
  /\ turn'[j].prev = turn[j].prev /\ turn'[j].history = turn[j].history
  /\ lineage'[j] = lineage[j]

\* It reads a whole segment of its history.
ReadOn(j, segment) ==
  /\ turn[j].at = "entries" /\ turn[j].cursor \in Position /\ segment = Segment(turn[j].cursor)
  /\ segment # <<>> /\ Whole(segment, turn[j].cursor) /\ Named(segment) \in Seq(Ids)
  /\ turn'[j].at = IF segment[1].base = None THEN "resolved" ELSE "entries"
  /\ turn'[j].cursor = segment[1].base /\ turn'[j].history = Named(segment) \o turn[j].history
  /\ turn'[j].prev = turn[j].prev /\ turn'[j].parent = turn[j].parent
  /\ lineage'[j] = lineage[j] /\ logs' = logs

\* It is refused, or answered.
Closed(j) ==
  /\ turn[j].at \in {"resolve", "entries", "resolved"}
  /\ turn'[j].at \in {"refused", "unavailable"} \/ (turn[j].at = "resolved" /\ turn'[j].at = "answer")
  /\ turn'[j].prev = turn[j].prev /\ turn'[j].parent = turn[j].parent
  /\ turn'[j].history = turn[j].history /\ lineage'[j] = lineage[j]

\* A step of one request does one of these to it, and nothing to the others (create_response).
LEMMA TurnKinds ==
  ASSUME WriteInv, Next, NEW j \in Ids
  PROVE  \/ turn'[j] = turn[j] /\ lineage'[j] = lineage[j]
         \/ \E p \in Ids \cup {None} : Begun(j, p)
         \/ \E pos \in Position : Found(j, pos)
         \/ \E segment \in Seq(Entry) : ReadOn(j, segment)
         \/ Closed(j)
<1>1. turn[j] \in Turn
  BY DEF WriteInv, Types
<1>2. ASSUME NEW p \in 1..(j - 1) \cup {None}, Starts(j, p)
      PROVE  p \in Ids \cup {None} /\ Begun(j, p)
  <2> DEFINE t == [turn[j] EXCEPT !.at = IF p = None THEN "resolved" ELSE "resolve", !.prev = p]
  <2>1. /\ turn' = [turn EXCEPT ![j] = t] /\ t \in Turn /\ (p # None => p \in Ids /\ p < j)
        /\ lineage'[j] = IF p = None THEN <<j>> ELSE Append(lineage[p], j)
    BY <1>2, StartsTo DEF WriteInv
  <2>2. /\ t.at = (IF p = None THEN "resolved" ELSE "resolve") /\ t.prev = p
        /\ t.parent = turn[j].parent /\ t.history = turn[j].history
    BY <1>1 DEF Turn
  <2> HIDE DEF t
  <2>3. turn'[j] = t
    BY <2>1, TurnMoves DEF WriteInv
  <2>4. QED
    BY <1>2, <2>1, <2>2, <2>3 DEF Begun, Starts
<1>3. CASE ReadsRecord(j)
  <2> DEFINE pos == [log |-> records[turn[j].prev].log, depth |-> records[turn[j].prev].depth]
             t == [turn[j] EXCEPT !.at = "entries", !.parent = pos, !.cursor = pos]
             u == [turn[j] EXCEPT !.at = "refused"]
  <2>1. /\ turn[j].prev \in Ids
        /\ \/ /\ Stored(turn[j].prev) /\ pos \in Position /\ turn' = [turn EXCEPT ![j] = t] /\ t \in Turn
           \/ turn' = [turn EXCEPT ![j] = u] /\ u \in Turn
    BY <1>3, ReadsRecordTo
  <2>2. lineage'[j] = lineage[j] /\ turn[j].at = "resolve"
    BY <1>3 DEF ReadsRecord, storeVars
  <2>3. records[turn[j].prev].log = pos.log /\ records[turn[j].prev].depth = pos.depth
    OBVIOUS
  <2> HIDE DEF pos
  <2>4. /\ t.at = "entries" /\ t.parent = pos /\ t.cursor = pos
        /\ t.prev = turn[j].prev /\ t.history = turn[j].history
        /\ u.at = "refused" /\ u.parent = turn[j].parent
        /\ u.prev = turn[j].prev /\ u.history = turn[j].history
    BY <1>1 DEF Turn
  <2> HIDE DEF t, u
  <2>5. CASE Stored(turn[j].prev) /\ pos \in Position /\ turn' = [turn EXCEPT ![j] = t] /\ t \in Turn
    <3>1. turn'[j] = t
      BY <2>5, TurnMoves DEF WriteInv
    <3>2. Found(j, pos)
      BY <2>1, <2>2, <2>3, <2>4, <2>5, <3>1 DEF Found
    <3>3. QED
      BY <2>5, <3>2
  <2>6. CASE turn' = [turn EXCEPT ![j] = u] /\ u \in Turn
    <3>1. turn'[j] = u
      BY <2>6, TurnMoves DEF WriteInv
    <3>2. QED
      BY <2>2, <2>4, <3>1 DEF Closed
  <2>7. QED
    BY <2>1, <2>5, <2>6
<1>4. CASE ReadsSegment(j)
  <2> DEFINE segment == Segment(turn[j].cursor)
             t == [turn[j] EXCEPT !.history = Named(segment) \o turn[j].history,
                     !.at = IF segment[1].base = None THEN "resolved" ELSE "entries",
                     !.cursor = segment[1].base]
             u == [turn[j] EXCEPT !.at = "refused"]
  <2>1. /\ turn[j].cursor \in Position
        /\ \/ /\ segment # <<>> /\ Whole(segment, turn[j].cursor) /\ Named(segment) \in Seq(Ids)
              /\ turn' = [turn EXCEPT ![j] = t] /\ t \in Turn
           \/ turn' = [turn EXCEPT ![j] = u] /\ u \in Turn
    BY <1>4, ReadsSegmentTo
  <2>2. lineage'[j] = lineage[j] /\ turn[j].at = "entries" /\ logs' = logs
    BY <1>4 DEF ReadsSegment, storeVars
  <2>3. segment \in Seq(Entry)
    BY <2>1, SegmentIsPrefix DEF WriteInv
  <2>4. segment = Segment(turn[j].cursor)
    OBVIOUS
  <2> HIDE DEF segment
  <2>5. /\ t.at = (IF segment[1].base = None THEN "resolved" ELSE "entries")
        /\ t.cursor = segment[1].base /\ t.history = Named(segment) \o turn[j].history
        /\ t.prev = turn[j].prev /\ t.parent = turn[j].parent
        /\ u.at = "refused" /\ u.parent = turn[j].parent
        /\ u.prev = turn[j].prev /\ u.history = turn[j].history
    BY <1>1 DEF Turn
  <2> HIDE DEF t, u
  <2>6. CASE /\ segment # <<>> /\ Whole(segment, turn[j].cursor) /\ Named(segment) \in Seq(Ids)
             /\ turn' = [turn EXCEPT ![j] = t] /\ t \in Turn
    <3>1. turn'[j] = t
      BY <2>6, TurnMoves DEF WriteInv
    <3>2. ReadOn(j, segment)
      BY <2>1, <2>2, <2>4, <2>5, <2>6, <3>1 DEF ReadOn
    <3>3. QED
      BY <2>3, <3>2
  <2>7. CASE turn' = [turn EXCEPT ![j] = u] /\ u \in Turn
    <3>1. turn'[j] = u
      BY <2>7, TurnMoves DEF WriteInv
    <3>2. QED
      BY <2>2, <2>5, <3>1 DEF Closed
  <2>8. QED
    BY <2>1, <2>6, <2>7
<1>5. CASE ReadFails(j) \/ Answers(j)
  <2>1. PICK s \in {"answer", "unavailable"} :
           /\ [turn[j] EXCEPT !.at = s] \in Turn /\ turn' = [turn EXCEPT ![j] = [turn[j] EXCEPT !.at = s]]
           /\ s = "answer" => turn[j].at = "resolved"
           /\ lineage' = lineage
    BY <1>5, AnswersTo DEF WriteInv
  <2> DEFINE t == [turn[j] EXCEPT !.at = s]
  <2>2. /\ t.at = s /\ t.parent = turn[j].parent /\ t.prev = turn[j].prev
        /\ t.history = turn[j].history
    BY <1>1 DEF Turn
  <2>3. turn'[j] = t
    BY <2>1, TurnMoves DEF WriteInv
  <2>4. turn[j].at \in {"resolve", "entries", "resolved"}
    BY <1>5 DEF ReadFails, Answers
  <2> HIDE DEF t
  <2>5. QED
    BY <2>1, <2>2, <2>3, <2>4 DEF Closed
<1>6. CASE /\ ~ReadsRecord(j) /\ ~ReadsSegment(j) /\ ~ReadFails(j) /\ ~Answers(j)
           /\ ~\E p \in 1..(j - 1) \cup {None} : Starts(j, p)
  <2>1. PICK i \in Ids :
          \/ \E p \in 1..(i - 1) \cup {None} : Starts(i, p)
          \/ ReadsRecord(i) \/ ReadsSegment(i) \/ ReadFails(i) \/ Answers(i)
          \/ Removes(i) \/ LogEnds(i)
          \/ \E w \in Writers(i) :
               \/ Begins(i, w) \/ WriterFails(i, w) \/ ReadsTaken(i, w) \/ Misses(i, w)
               \/ Lands(i, w)
    BY StepKinds
  <2>2. CASE Removes(i) \/ LogEnds(i) \/ \E w \in Writers(i) : Lands(i, w)
    BY <2>2 DEF Removes, LogEnds, Lands
  <2>3. CASE \E w \in Writers(i) : Begins(i, w) \/ WriterFails(i, w) \/ ReadsTaken(i, w) \/ Misses(i, w)
    BY <2>3, WaitKeepsWrites
  <2>4. CASE \/ \E p \in 1..(i - 1) \cup {None} : Starts(i, p)
             \/ ReadsRecord(i) \/ ReadsSegment(i) \/ ReadFails(i) \/ Answers(i)
    <3>1. i # j
      BY <1>6, <2>4
    <3>2. turn'[j] = turn[j]
      BY <2>4, <3>1 DEF Starts, ReadsRecord, ReadsSegment, ReadFails, Answers, WriteInv, Types
    <3>3. lineage'[j] = lineage[j]
      BY <2>4, <3>1 DEF Starts, ReadsRecord, ReadsSegment, ReadFails, Answers, storeVars, WriteInv, Types
    <3>4. QED
      BY <3>2, <3>3
  <2>5. QED
    BY <2>1, <2>2, <2>3, <2>4
<1>7. QED
  BY <1>2, <1>3, <1>4, <1>5, <1>6

\* A continuation keeps the place it follows (resolve_previous).
LEMMA ParentsKept == LogInv /\ Next => ParentInv'
<1> SUFFICES ASSUME LogInv, Next, NEW j \in Ids
             PROVE  (/\ turn[j].at = "new" => turn[j].prev = None
                     /\ turn[j].prev # None => turn[j].prev < j /\ turn[turn[j].prev].at = "answer"
                     /\ turn[j].parent # None => turn[j].prev # None /\ turn[j].at \notin {"new", "resolve"}
                     /\ turn[j].at \in {"entries", "resolved", "answer"} /\ turn[j].prev # None =>
                          turn[j].parent # None
                     /\ \A pos \in Position, p \in Ids :
                          turn[j].parent = pos /\ turn[j].prev = p => Place(pos, p))'
  BY DEF ParentInv
<1>1. WriteInv /\ ParentInv /\ RecordInv
  BY DEF LogInv
<1>2. \A p \in Ids : turn[p].at = "answer" => turn'[p].at = "answer"
  BY <1>1, StaysSettled
<1>3. \A pos \in Position, p \in Ids : Place(pos, p) => Place(pos, p)'
  BY <1>1, PlaceStays
<1>4. turn[j] \in Turn /\ turn[j].prev \in Ids \cup {None}
  BY <1>1 DEF WriteInv, Types, Turn
<1>5. CASE /\ turn'[j].prev = turn[j].prev /\ turn'[j].parent = turn[j].parent
           /\ turn'[j].at = "new" => turn[j].at = "new"
           /\ turn'[j].at \in {"new", "resolve"} => turn[j].at \in {"new", "resolve"}
           /\ turn'[j].at \in {"entries", "resolved", "answer"} =>
                turn[j].at \in {"entries", "resolved", "answer"}
  <2>1. \A pos \in Position, p \in Ids : turn'[j].parent = pos /\ turn'[j].prev = p => Place(pos, p)'
    BY <1>1, <1>3, <1>5 DEF ParentInv
  <2>2. QED
    BY <1>1, <1>2, <1>4, <1>5, <2>1 DEF ParentInv
<1>6. ASSUME NEW p \in Ids \cup {None}, Begun(j, p)
      PROVE  /\ turn'[j].at # "new" /\ turn'[j].prev = p /\ turn'[j].parent = None
             /\ p # None => p < j /\ turn'[p].at = "answer"
             /\ turn'[j].at \in {"entries", "resolved", "answer"} => p = None
  BY <1>1, <1>2, <1>6 DEF Begun, ParentInv
<1>7. ASSUME NEW pos \in Position, Found(j, pos)
      PROVE  /\ turn'[j].at = "entries" /\ turn'[j].prev = turn[j].prev /\ turn'[j].parent = pos
             /\ turn[j].prev \in Ids /\ turn[j].prev < j /\ turn'[turn[j].prev].at = "answer"
             /\ \A p \in Ids : p = turn[j].prev => Place(pos, p)'
  <2>1. turn[j].prev \in Ids /\ turn[j].prev # None
    BY <1>7, LogAssumption DEF Found
  <2>2. Place(pos, turn[j].prev)
    BY <1>1, <1>7, <2>1 DEF Found, RecordInv
  <2>3. \A p \in Ids : p = turn[j].prev => Place(pos, p)'
    BY <1>3, <2>2
  <2>4. QED
    BY <1>1, <1>2, <1>7, <2>1, <2>3 DEF Found, ParentInv
<1>8. CASE \E p \in Ids \cup {None} : Begun(j, p)
  BY <1>6, <1>8, LogAssumption
<1>9. CASE \E pos \in Position : Found(j, pos)
  BY <1>7, <1>9, LogAssumption
<1>10. CASE turn'[j] = turn[j]
  BY <1>5, <1>10
<1>11. CASE \E segment \in Seq(Entry) : ReadOn(j, segment)
  BY <1>5, <1>11 DEF ReadOn
<1>12. CASE Closed(j)
  BY <1>5, <1>12 DEF Closed
<1>13. QED
  BY <1>1, <1>8, <1>9, <1>10, <1>11, <1>12, TurnKinds

\* The last of a lineage is the response itself (create_response).
LEMMA LastOfLineage ==
  ASSUME WriteInv, LineageInv, NEW i \in Ids, turn[i].at # "new"
  PROVE  /\ lineage[i] \in Seq(Ids) /\ Len(lineage[i]) \in Nat /\ Len(lineage[i]) >= 1
         /\ lineage[i][Len(lineage[i])] = i
         /\ turn[i].prev # None =>
              /\ turn[i].prev \in Ids /\ Len(lineage[i]) = Len(lineage[turn[i].prev]) + 1
              /\ Len(lineage[turn[i].prev]) \in Nat
              /\ \A n \in 1..Len(lineage[turn[i].prev]) : lineage[i][n] = lineage[turn[i].prev][n]
<1>1. lineage[i] \in Seq(Ids) /\ Len(lineage[i]) \in Nat
  BY DEF WriteInv, Types
<1>2. turn[i].prev \in Ids \cup {None}
  BY DEF WriteInv, Types, Turn
<1>3. CASE turn[i].prev = None
  <2>1. lineage[i] = <<i>>
    BY <1>3 DEF LineageInv
  <2>2. QED
    BY <1>1, <1>3, <2>1
<1>4. CASE turn[i].prev # None
  <2>1. turn[i].prev \in Ids
    BY <1>2, <1>4
  <2>2. lineage[turn[i].prev] \in Seq(Ids) /\ Len(lineage[turn[i].prev]) \in Nat
    BY <2>1 DEF WriteInv, Types
  <2>3. lineage[i] = Append(lineage[turn[i].prev], i)
    BY <1>4 DEF LineageInv
  <2>4. QED
    BY <1>1, <2>1, <2>2, <2>3
<1>5. QED
  BY <1>3, <1>4

\* A lineage is settled when its request comes (create_response).
LEMMA LineagesKept == LogInv /\ Next => LineageInv'
<1> SUFFICES ASSUME LogInv, Next, NEW j \in Ids
             PROVE  (/\ turn[j].at = "new" => lineage[j] = <<>>
                     /\ turn[j].at # "new" =>
                          lineage[j] = IF turn[j].prev = None THEN <<j>> ELSE Append(lineage[turn[j].prev], j)
                     /\ turn[j].at \in {"entries", "resolved", "answer"} => Len(lineage[j]) = Depth(j)
                     /\ \A n \in 1..Len(lineage[j]) :
                          LET p == lineage[j][n] IN
                          Len(lineage[p]) = n /\ \A m \in 1..n : lineage[p][m] = lineage[j][m])'
  BY DEF LineageInv
<1>1. WriteInv /\ ParentInv /\ LineageInv /\ RecordInv
  BY DEF LogInv
<1>2. \A p \in Ids : turn[p].at # "new" => lineage'[p] = lineage[p]
  BY <1>1, StaysSettled
<1>3. \A p \in Ids : lineage[p] \in Seq(Ids) /\ Len(lineage[p]) \in Nat
  BY <1>1 DEF WriteInv, Types
<1>4. ASSUME NEW p \in Ids, NEW n \in 1..Len(lineage[p])
      PROVE  /\ lineage[p][n] \in Ids /\ lineage'[lineage[p][n]] = lineage[lineage[p][n]]
             /\ Len(lineage[lineage[p][n]]) = n
             /\ \A m \in 1..n : lineage[lineage[p][n]][m] = lineage[p][m]
  <2>1. lineage[p][n] \in Ids
    BY <1>3
  <2>2. /\ Len(lineage[lineage[p][n]]) = n
        /\ \A m \in 1..n : lineage[lineage[p][n]][m] = lineage[p][m]
    BY <1>1 DEF LineageInv
  <2>3. turn[lineage[p][n]].at # "new"
    <3>1. turn[lineage[p][n]].at = "new" => Len(lineage[lineage[p][n]]) = 0
      BY <1>1, <2>1 DEF LineageInv
    <3>2. QED
      BY <1>3, <2>2, <3>1
  <2>4. QED
    BY <1>2, <2>1, <2>2, <2>3
<1>5. ASSUME lineage'[j] = lineage[j]
      PROVE  \A n \in 1..Len(lineage'[j]) :
               LET p == lineage'[j][n] IN
               Len(lineage'[p]) = n /\ \A m \in 1..n : lineage'[p][m] = lineage'[j][m]
  BY <1>4, <1>5
<1>6. ASSUME lineage'[j] = lineage[j], turn[j].at # "new", turn'[j].prev = turn[j].prev
      PROVE  lineage'[j] = IF turn'[j].prev = None THEN <<j>> ELSE Append(lineage'[turn'[j].prev], j)
  <2>1. turn[j].prev # None => turn[j].prev \in Ids /\ turn[turn[j].prev].at = "answer"
    BY <1>1 DEF WriteInv, Types, Turn, ParentInv
  <2>2. turn[j].prev # None => lineage'[turn[j].prev] = lineage[turn[j].prev]
    BY <1>2, <2>1
  <2>3. lineage[j] = IF turn[j].prev = None THEN <<j>> ELSE Append(lineage[turn[j].prev], j)
    BY <1>1, <1>6 DEF LineageInv
  <2>4. QED
    BY <1>6, <2>2, <2>3
<1>7. CASE turn'[j] = turn[j] /\ lineage'[j] = lineage[j]
  <2>1. Depth(j)' = Depth(j)
    BY <1>7 DEF Depth
  <2>2. QED
    BY <1>1, <1>5, <1>6, <1>7, <2>1 DEF LineageInv
<1>8. CASE Closed(j) \/ \E segment \in Seq(Entry) : ReadOn(j, segment)
  <2>1. /\ turn'[j].prev = turn[j].prev /\ turn'[j].parent = turn[j].parent /\ lineage'[j] = lineage[j]
        /\ turn[j].at # "new" /\ turn'[j].at # "new"
        /\ turn'[j].at \in {"entries", "resolved", "answer"} => turn[j].at \in {"entries", "resolved"}
    BY <1>8 DEF Closed, ReadOn
  <2>2. Depth(j)' = Depth(j)
    BY <2>1 DEF Depth
  <2>3. QED
    BY <1>1, <1>5, <1>6, <2>1, <2>2 DEF LineageInv
<1>9. ASSUME NEW pos \in Position, Found(j, pos)
      PROVE  /\ lineage'[j] = lineage[j] /\ turn[j].at # "new" /\ turn'[j].prev = turn[j].prev
             /\ turn'[j].at = "entries" /\ Len(lineage[j]) = Depth(j)'
  <2>1. turn[j].prev \in Ids /\ turn[j].prev # None
    BY <1>9, LogAssumption DEF Found
  <2>2. Place(pos, turn[j].prev)
    BY <1>1, <1>9, <2>1 DEF Found, RecordInv
  <2>3. pos.depth = Len(lineage[turn[j].prev])
    BY <1>1, <2>1, <2>2 DEF Place, LineageInv
  <2>4. Len(lineage[j]) = Len(lineage[turn[j].prev]) + 1
    BY <1>1, <1>9, <2>1, LastOfLineage DEF Found
  <2>5. Depth(j)' = pos.depth + 1
    BY <1>9, LogAssumption DEF Depth, Found
  <2>6. QED
    BY <1>9, <2>3, <2>4, <2>5 DEF Found
<1>10. CASE \E pos \in Position : Found(j, pos)
  BY <1>5, <1>6, <1>9, <1>10
<1>11. ASSUME NEW p \in Ids \cup {None}, Begun(j, p)
       PROVE  /\ turn'[j].at # "new" /\ turn'[j].prev = p
              /\ lineage'[j] = IF p = None THEN <<j>> ELSE Append(lineage'[p], j)
              /\ turn'[j].at \in {"entries", "resolved", "answer"} => Len(lineage'[j]) = Depth(j)'
              /\ \A n \in 1..Len(lineage'[j]) :
                   LET q == lineage'[j][n] IN
                   Len(lineage'[q]) = n /\ \A m \in 1..n : lineage'[q][m] = lineage'[j][m]
  <2>1. /\ turn'[j].at # "new" /\ turn'[j].prev = p /\ turn'[j].parent = None
        /\ turn'[j].at \in {"entries", "resolved", "answer"} => p = None
        /\ lineage'[j] = IF p = None THEN <<j>> ELSE Append(lineage[p], j)
    BY <1>1, <1>11 DEF Begun, ParentInv
  <2>2. CASE p = None
    <3>1. lineage'[j] = <<j>> /\ Len(lineage'[j]) = 1 /\ lineage'[j][1] = j
      BY <2>1, <2>2
    <3>2. Depth(j)' = 1
      BY <2>1 DEF Depth
    <3>3. \A n \in 1..Len(lineage'[j]) : n = 1 /\ lineage'[j][n] = j /\ Len(lineage'[j]) = n
      BY <3>1
    <3>4. \A n \in 1..Len(lineage'[j]) :
            LET q == lineage'[j][n] IN
            Len(lineage'[q]) = n /\ \A m \in 1..n : lineage'[q][m] = lineage'[j][m]
      BY <3>3
    <3>5. QED
      BY <2>1, <2>2, <3>1, <3>2, <3>4
  <2>3. CASE p # None
    <3>1. p \in Ids /\ turn[p].at = "answer" /\ lineage'[p] = lineage[p]
      BY <1>2, <1>11, <2>3 DEF Begun
    <3>2. lineage'[j] = Append(lineage[p], j)
      BY <2>1, <2>3
    <3>3. /\ Len(lineage'[j]) = Len(lineage[p]) + 1 /\ lineage'[j][Len(lineage[p]) + 1] = j
          /\ \A n \in 1..Len(lineage[p]) : lineage'[j][n] = lineage[p][n]
      BY <1>3, <3>1, <3>2
    <3>4. ASSUME NEW n \in 1..Len(lineage'[j])
          PROVE  LET q == lineage'[j][n] IN
                 Len(lineage'[q]) = n /\ \A m \in 1..n : lineage'[q][m] = lineage'[j][m]
      <4>1. CASE n = Len(lineage[p]) + 1
        BY <3>3, <4>1
      <4>2. CASE n \in 1..Len(lineage[p])
        <5>1. lineage'[j][n] = lineage[p][n] /\ \A m \in 1..n : lineage'[j][m] = lineage[p][m]
          BY <1>3, <3>1, <3>3, <4>2
        <5>2. QED
          BY <1>4, <3>1, <4>2, <5>1
      <4>3. QED
        BY <1>3, <3>1, <3>3, <4>1, <4>2
    <3>5. QED
      BY <2>1, <2>3, <3>1, <3>2, <3>4
  <2>4. QED
    BY <2>2, <2>3
<1>12. CASE \E p \in Ids \cup {None} : Begun(j, p)
  BY <1>11, <1>12
<1>13. QED
  BY <1>1, <1>7, <1>8, <1>10, <1>12, TurnKinds

\* An entry stays where it belongs (_store_turn).
LEMMA FitStays ==
  ASSUME WriteInv, ParentInv, Next, NEW g \in Ids, NEW k \in Nat, NEW e \in Entry, Fits(g, k, e)
  PROVE  Fits(g, k, e)'
<1>1. e.id \in Ids
  BY DEF Entry
<1>2. turn'[e.id] = turn[e.id] /\ Settled(e.id)' /\ Depth(e.id)' = Depth(e.id)
  BY <1>1, StaysSettled DEF Fits, Depth
<1>3. turn'[g] = turn[g] /\ Depth(g)' = Depth(g)
  <2>1. e.id # g => Place(turn[e.id].parent, turn[e.id].prev) /\ turn[e.id].parent.log = g
    BY <1>1, ParentPlace DEF Fits
  <2>2. turn[g].at = "answer"
    BY <2>1 DEF Place, Fits
  <2>3. QED
    BY <2>2, StaysSettled DEF Depth
<1>4. QED
  BY <1>2, <1>3 DEF Fits

\* The entry of a write that lands is where its turn belongs (_store_turn).
LEMMA LandsFit ==
  ASSUME WriteInv, ParentInv, EntryInv, NEW i \in Ids, NEW w \in Writers(i), Lands(i, w)
  PROVE  /\ \A g \in Ids, k \in Nat : g = Home(i, w) /\ k = Len(logs[g]) + 1 =>
              \A e \in Entry : e = Mark(i, w) => Fits(g, k, e)'
         /\ Home(i, w) = i <=> (turn[i].parent = None \/ writer[i][w] = "fork")
         /\ Home(i, w) # i => turn[i].parent # None /\ Home(i, w) = turn[i].parent.log
<1>1. /\ ~Settled(i) /\ turn[i].at = "answer" /\ writer[i][w] \in {"append", "fork"}
      /\ turn[i].parent # None => turn[i].parent.log \in Ids
      /\ writer[i][w] = "fork" => turn[i].parent # None
  BY OnlyUnsettledLands DEF Lands
<1>2. turn[i].parent # None =>
        /\ turn[i].parent.log < i /\ turn[i].parent.depth \in Nat
        /\ turn[i].parent.depth >= Depth(turn[i].parent.log)
  <2> SUFFICES ASSUME turn[i].parent # None
               PROVE  /\ turn[i].parent.log < i /\ turn[i].parent.depth \in Nat
                      /\ turn[i].parent.depth >= Depth(turn[i].parent.log)
    OBVIOUS
  <2>1. /\ turn[i].parent.log \in Nat /\ turn[i].prev \in Nat /\ i \in Nat
        /\ turn[i].parent.depth \in Nat /\ turn[i].prev < i /\ Place(turn[i].parent, turn[i].prev)
    BY ParentPlace, LogAssumption DEF Ids
  <2>2. QED
    BY <2>1 DEF Place
<1>3. i \in Nat
  BY LogAssumption DEF Ids
<1>4. /\ Home(i, w) = i <=> (turn[i].parent = None \/ writer[i][w] = "fork")
      /\ Home(i, w) # i => turn[i].parent # None /\ Home(i, w) = turn[i].parent.log
  BY <1>1, <1>2, <1>3, LogAssumption DEF Home, Ids
<1>5. turn' = turn /\ Settled(i)'
  <2>1. /\ records'[i] = [status |-> w, log |-> Home(i, w), depth |-> Depth(i)]
        /\ Home(i, w) \in Ids /\ Depth(i) \in Nat /\ w \in Final
    BY WriteLands, DepthType DEF WriteInv, Writers, Final
  <2>2. [status |-> w, log |-> Home(i, w), depth |-> Depth(i)] \in Record
    BY <2>1 DEF Record
  <2>3. QED
    BY <2>1, <2>2, LogAssumption DEF Settled, Stored, Final, Lands
<1>6. /\ Mark(i, w).at = Depth(i) /\ Mark(i, w).id = i
      /\ Mark(i, w).base = IF writer[i][w] = "fork" THEN turn[i].parent ELSE None
  BY DEF Mark
<1>7. ASSUME NEW g \in Ids, NEW k \in Nat, NEW e \in Entry,
             g = Home(i, w), k = Len(logs[g]) + 1, e = Mark(i, w)
      PROVE  Fits(g, k, e)'
  <2>1. \A j \in Ids : Depth(j)' = Depth(j)
    BY <1>5 DEF Depth
  <2>2. CASE g = i
    <3>1. k = 1
      BY <1>1, <1>7, <2>2, EmptyUntilSettled
    <3>2. e.base = turn[g].parent
      BY <1>1, <1>4, <1>6, <1>7, <2>2
    <3>3. QED
      BY <1>1, <1>5, <1>6, <1>7, <2>1, <2>2, <3>1, <3>2 DEF Fits
  <2>3. CASE g # i
    <3>1. turn[i].parent # None /\ g = turn[i].parent.log /\ writer[i][w] = "append"
      BY <1>1, <1>4, <1>7, <2>3
    <3>2. Depth(i) > Depth(g)
      <4>1. Depth(i) = turn[i].parent.depth + 1 /\ Depth(g) \in Nat
        BY <3>1, DepthType DEF Depth, WriteInv
      <4>2. QED
        BY <1>2, <3>1, <4>1
    <3>3. e.base = None /\ e.id = i /\ e.at = Depth(i)
      BY <1>6, <1>7, <3>1
    <3>4. QED
      BY <1>1, <1>5, <2>1, <2>3, <3>1, <3>2, <3>3 DEF Fits
  <2>4. QED
    BY <2>2, <2>3
<1>8. QED
  BY <1>4, <1>7

\* Every entry is where its turn belongs, and no turn is there twice (_store_turn).
LEMMA EntriesKept == LogInv /\ Next => EntryInv' /\ OrderInv'
<1> SUFFICES ASSUME LogInv, Next PROVE EntryInv' /\ OrderInv'
  OBVIOUS
<1>1. WriteInv /\ ParentInv /\ EntryInv /\ OrderInv /\ Types
  BY DEF LogInv, WriteInv
<1>2. \A g \in Ids : logs[g] \in Seq(Entry) /\ Len(logs[g]) \in Nat
  BY <1>1 DEF Types
<1>3. ASSUME NEW g \in Ids, NEW k \in 1..Len(logs[g]), NEW e \in Entry, e = logs[g][k]
      PROVE  Fits(g, k, e)'
  <2>1. k \in Nat /\ Fits(g, k, e)
    BY <1>1, <1>2, <1>3 DEF EntryInv
  <2>2. QED
    BY <1>1, <2>1, FitStays
<1>4. \A g \in Ids : \A k \in 1..Len(logs[g]) : logs[g][k] \in Entry
  BY <1>1, EntryType
<1>5. CASE logs' = logs
  <2>1. EntryInv'
    BY <1>3, <1>4, <1>5 DEF EntryInv
  <2>2. OrderInv'
    BY <1>1, <1>5 DEF OrderInv
  <2>3. QED
    BY <2>1, <2>2
<1>6. ASSUME NEW i \in Ids, LogEnds(i)
      PROVE  EntryInv' /\ OrderInv'
  <2>1. \A g \in Ids : logs'[g] = IF g = i THEN <<>> ELSE logs[g]
    BY <1>1, <1>6 DEF LogEnds, Types
  <2>2. \A g \in Ids : \A k \in 1..Len(logs'[g]) : g # i /\ logs'[g] = logs[g]
    BY <2>1
  <2>3. EntryInv'
    BY <1>3, <1>4, <2>2 DEF EntryInv
  <2>4. OrderInv'
    <3>1. ASSUME NEW g \in Ids, NEW k \in 1..Len(logs'[g]), NEW m \in 1..Len(logs'[g]), k < m
          PROVE  logs'[g][k].at < logs'[g][m].at
      BY <1>1, <2>2, <3>1 DEF OrderInv
    <3>2. ASSUME NEW g \in Ids, NEW h \in Ids, NEW k \in 1..Len(logs'[g]), NEW m \in 1..Len(logs'[h]),
                 logs'[g][k].id = logs'[h][m].id
          PROVE  g = h /\ k = m
      BY <1>1, <2>2, <3>2 DEF OrderInv
    <3>3. QED
      BY <3>1, <3>2 DEF OrderInv
  <2>5. QED
    BY <2>3, <2>4
<1>7. ASSUME NEW i \in Ids, NEW w \in Writers(i), Lands(i, w)
      PROVE  EntryInv' /\ OrderInv'
  <2>1. PICK home \in Ids : home = Home(i, w)
    BY <1>1, <1>7, WriteLands
  <2>2. PICK mark \in Entry : mark = Mark(i, w) /\ mark.id = i /\ mark.at = Depth(i)
    BY <1>1, <1>7, WriteLands DEF Mark
  <2>3. /\ \A g \in Ids : g # home => logs'[g] = logs[g]
        /\ logs'[home] = Append(logs[home], mark)
    BY <1>1, <1>7, <2>1, <2>2, WriteLands
  <2>4. /\ Len(logs'[home]) = Len(logs[home]) + 1 /\ logs'[home][Len(logs[home]) + 1] = mark
        /\ \A k \in 1..Len(logs[home]) : logs'[home][k] = logs[home][k]
    BY <1>2, <2>3
  <2>5. \A g \in Ids : \A k \in 1..Len(logs'[g]) :
          \/ k \in 1..Len(logs[g]) /\ logs'[g][k] = logs[g][k]
          \/ g = home /\ k = Len(logs[g]) + 1 /\ logs'[g][k] = mark
    <3>1. ASSUME NEW g \in Ids, g # home, NEW k \in 1..Len(logs'[g])
          PROVE  k \in 1..Len(logs[g]) /\ logs'[g][k] = logs[g][k]
      BY <2>3, <3>1
    <3>2. ASSUME NEW k \in 1..Len(logs'[home])
          PROVE  \/ k \in 1..Len(logs[home]) /\ logs'[home][k] = logs[home][k]
                 \/ k = Len(logs[home]) + 1 /\ logs'[home][k] = mark
      BY <1>2, <2>4
    <3>3. QED
      BY <3>1, <3>2
  <2>6. EntryInv'
    <3>1. ASSUME NEW g \in Ids, NEW k \in 1..Len(logs'[g])
          PROVE  \A e \in Entry : e = logs'[g][k] => Fits(g, k, e)'
      <4>1. CASE k \in 1..Len(logs[g]) /\ logs'[g][k] = logs[g][k]
        BY <1>3, <4>1
      <4>2. CASE g = home /\ k = Len(logs[g]) + 1 /\ logs'[g][k] = mark
        <5>1. k \in Nat
          BY <1>2, <4>2
        <5>2. QED
          BY <1>1, <1>7, <2>1, <2>2, <4>2, <5>1, LandsFit
      <4>3. QED
        BY <2>5, <4>1, <4>2
    <3>2. \A g \in Ids : \A k \in 1..Len(logs'[g]) : logs'[g][k] \in Entry
      BY <1>4, <2>5
    <3>3. QED
      BY <3>1, <3>2 DEF EntryInv
  <2>7. \A g \in Ids : \A k \in 1..Len(logs[g]) : logs[g][k].id # i
    <3>1. ~Settled(i)
      BY <1>1, <1>7, OnlyUnsettledLands
    <3>2. QED
      BY <1>1, <3>1 DEF EntryInv, Fits
  <2>8. \A k \in 1..Len(logs[home]) : logs[home][k].at < mark.at
    <3>1. SUFFICES ASSUME NEW k \in 1..Len(logs[home]) PROVE logs[home][k].at < mark.at
      OBVIOUS
    <3>2. Top(logs[home]) < Depth(i) /\ Depth(i) \in Nat
      BY <1>1, <1>7, <2>1, WriteRaises, DepthType
    <3>3. logs[home] # <<>> /\ Len(logs[home]) \in 1..Len(logs[home])
      BY <1>2
    <3>4. Top(logs[home]) = logs[home][Len(logs[home])].at
      BY <3>3 DEF Top
    <3>5. logs[home][k].at \in Nat /\ logs[home][Len(logs[home])].at \in Nat
      BY <1>1, <3>3, EntryType
    <3>6. k = Len(logs[home]) \/ logs[home][k].at < logs[home][Len(logs[home])].at
      BY <1>1, <1>2, <3>3 DEF OrderInv
    <3>7. QED
      BY <2>2, <3>2, <3>4, <3>5, <3>6
  <2>9. OrderInv'
    <3>1. ASSUME NEW g \in Ids, NEW k \in 1..Len(logs'[g]), NEW m \in 1..Len(logs'[g]), k < m
          PROVE  logs'[g][k].at < logs'[g][m].at
      <4>1. k \in 1..Len(logs[g])
        BY <1>2, <2>5, <3>1
      <4>2. logs'[g][k] = logs[g][k]
        BY <1>2, <2>5, <4>1
      <4>3. CASE m \in 1..Len(logs[g]) /\ logs'[g][m] = logs[g][m]
        BY <1>1, <3>1, <4>1, <4>2, <4>3 DEF OrderInv
      <4>4. CASE g = home /\ logs'[g][m] = mark
        BY <2>8, <4>1, <4>2, <4>4
      <4>5. QED
        BY <2>5, <4>3, <4>4
    <3>2. ASSUME NEW g \in Ids, NEW h \in Ids, NEW k \in 1..Len(logs'[g]), NEW m \in 1..Len(logs'[h]),
                 logs'[g][k].id = logs'[h][m].id
          PROVE  g = h /\ k = m
      <4>1. CASE k \in 1..Len(logs[g]) /\ logs'[g][k] = logs[g][k]
        <5>1. logs[g][k].id # i
          BY <2>7, <4>1
        <5>2. m \in 1..Len(logs[h]) /\ logs'[h][m] = logs[h][m]
          BY <2>2, <2>5, <3>2, <4>1, <5>1
        <5>3. QED
          BY <1>1, <3>2, <4>1, <5>2 DEF OrderInv
      <4>2. CASE g = home /\ k = Len(logs[g]) + 1 /\ logs'[g][k] = mark
        <5>1. ~(m \in 1..Len(logs[h]) /\ logs'[h][m] = logs[h][m])
          BY <2>2, <2>7, <3>2, <4>2
        <5>2. h = home /\ m = Len(logs[h]) + 1
          BY <2>5, <5>1
        <5>3. QED
          BY <4>2, <5>2
      <4>3. QED
        BY <2>5, <4>1, <4>2
    <3>3. QED
      BY <3>1, <3>2 DEF OrderInv
  <2>10. QED
    BY <2>6, <2>9
<1>8. QED
  BY <1>1, <1>5, <1>6, <1>7, LogMoves

\* The turn that started a log is answered and settled (_store_turn).
LEMMA OwnerSettled ==
  ASSUME WriteInv, EntryInv, NEW g \in Ids, Owned(g)
  PROVE  turn[g].at = "answer" /\ Settled(g) /\ 1 \in 1..Len(logs[g])
<1>1. logs[g] \in Seq(Entry) /\ logs[g] # <<>>
  BY DEF WriteInv, Types, Owned
<1>2. 1 \in 1..Len(logs[g])
  BY <1>1
<1>3. QED
  BY <1>2 DEF EntryInv, Fits, Owned

\* The turn a write stores comes right after the last one of a log that has not expired (_store_turn).
LEMMA LandsNext ==
  ASSUME LogInv, NEW i \in Ids, NEW w \in Writers(i), Lands(i, w), NEW g \in Ids, g = Home(i, w),
         Owned(g)
  PROVE  /\ g # i /\ Depth(i) = Depth(g) + Len(logs[g])
         /\ \A m \in 1..Len(logs[g]) : lineage[i][Depth(g) + m - 1] = logs[g][m].id
<1>1. /\ WriteInv /\ ParentInv /\ EntryInv /\ OwnedInv /\ LineageInv /\ Types
  BY DEF LogInv, WriteInv
<1>2. ~Settled(i) /\ turn[i].at = "answer"
  BY <1>1, OnlyUnsettledLands
<1>3. g # i /\ turn[i].parent # None /\ g = turn[i].parent.log
  <2>1. Settled(g)
    BY <1>1, OwnerSettled
  <2>2. QED
    BY <1>1, <1>2, <2>1, LandsFit
<1> DEFINE pos == turn[i].parent
           p == turn[i].prev
           n == Len(logs[g])
<1>4. pos \in Position /\ p \in Ids /\ pos.depth \in Nat /\ Place(pos, p)
  BY <1>1, <1>3, ParentPlace
<1>5. n \in Nat /\ Depth(g) \in Nat /\ n \in 1..n
  BY <1>1, OwnerSettled, DepthType DEF Types
<1>6. Depth(i) = pos.depth + 1
  BY <1>3 DEF Depth
<1>7. pos.depth - Depth(g) + 1 \in 1..n /\ logs[g][pos.depth - Depth(g) + 1].id = p
  BY <1>3, <1>4 DEF Place
<1>8. logs[g][n].at = Depth(g) + n - 1
  BY <1>1, <1>5 DEF OwnedInv
<1>9. Top(logs[g]) = Depth(g) + n - 1
  BY <1>8, Zenon DEF Top, Owned
<1>10. Top(logs[g]) < Depth(i)
  BY <1>1, WriteRaises
<1> HIDE DEF pos, p
<1>11. pos.depth = Depth(g) + n - 1 /\ Depth(i) = Depth(g) + n
  BY <1>4, <1>5, <1>6, <1>7, <1>9, <1>10
<1>12. logs[g][n].id = p
  BY <1>5, <1>7, <1>11
<1>13. \A m \in 1..n : lineage[p][Depth(g) + m - 1] = logs[g][m].id
  BY <1>1, <1>5, <1>12 DEF OwnedInv
<1>14. Len(lineage[p]) = pos.depth
  BY <1>1, <1>4 DEF Place, LineageInv
<1>15. p # None
  BY <1>4, LogAssumption
<1>16. \A k \in 1..Len(lineage[p]) : lineage[i][k] = lineage[p][k]
  BY <1>1, <1>2, <1>15, LastOfLineage DEF p
<1>17. Depth(g) >= 1
  BY <1>1, DepthType
<1>18. \A m \in 1..n : Depth(g) + m - 1 \in 1..Len(lineage[p])
  BY <1>4, <1>5, <1>11, <1>14, <1>17
<1>19. QED
  BY <1>3, <1>11, <1>13, <1>16, <1>18

\* A log that has not expired holds the lineage of its turns, without a gap (_store_turn).
LEMMA OwnedKept == LogInv /\ Next => OwnedInv'
<1> SUFFICES ASSUME LogInv, Next, NEW g \in Ids, Owned(g)', NEW k \in 1..Len(logs'[g])
             PROVE  /\ logs'[g][k].at = Depth(g)' + k - 1
                    /\ \A m \in 1..k : lineage'[logs'[g][k].id][Depth(g)' + m - 1] = logs'[g][m].id
  BY DEF OwnedInv
<1>1. WriteInv /\ ParentInv /\ EntryInv /\ OwnedInv /\ LineageInv /\ Types
  BY DEF LogInv, WriteInv
<1>2. logs[g] \in Seq(Entry) /\ Len(logs[g]) \in Nat
  BY <1>1 DEF Types
<1>3. ASSUME Owned(g), k \in 1..Len(logs[g]), \A m \in 1..Len(logs[g]) : logs'[g][m] = logs[g][m]
      PROVE  /\ logs'[g][k].at = Depth(g)' + k - 1
             /\ \A m \in 1..k : lineage'[logs'[g][k].id][Depth(g)' + m - 1] = logs'[g][m].id
  <2>1. Depth(g)' = Depth(g)
    BY <1>1, <1>3, OwnerSettled, StaysSettled DEF Depth
  <2>2. logs[g][k].id \in Ids /\ turn[logs[g][k].id].at = "answer"
    BY <1>1, <1>3, EntryType DEF EntryInv, Fits
  <2>3. lineage'[logs[g][k].id] = lineage[logs[g][k].id]
    BY <1>1, <2>2, StaysSettled
  <2>4. \A m \in 1..k : m \in 1..Len(logs[g])
    BY <1>2, <1>3
  <2>5. logs'[g][k] = logs[g][k] /\ \A m \in 1..k : logs'[g][m] = logs[g][m]
    BY <1>3, <2>4
  <2>6. /\ logs[g][k].at = Depth(g) + k - 1
        /\ \A m \in 1..k : lineage[logs[g][k].id][Depth(g) + m - 1] = logs[g][m].id
    BY <1>1, <1>3 DEF OwnedInv
  <2>7. QED
    BY <2>1, <2>3, <2>5, <2>6
<1>4. CASE logs' = logs
  BY <1>3, <1>4 DEF Owned
<1>5. ASSUME NEW i \in Ids, LogEnds(i)
      PROVE  logs'[g] = logs[g] /\ Owned(g)
  BY <1>1, <1>5 DEF LogEnds, Types, Owned
<1>6. CASE \E i \in Ids : LogEnds(i)
  BY <1>3, <1>5, <1>6
<1>7. ASSUME NEW i \in Ids, NEW w \in Writers(i), Lands(i, w)
      PROVE  /\ logs'[g][k].at = Depth(g)' + k - 1
             /\ \A m \in 1..k : lineage'[logs'[g][k].id][Depth(g)' + m - 1] = logs'[g][m].id
  <2>1. /\ Len(logs'[g]) = Len(logs[g]) + IF g = Home(i, w) THEN 1 ELSE 0
        /\ \A m \in 1..Len(logs[g]) : logs'[g][m] = logs[g][m]
        /\ g = Home(i, w) => logs'[g][Len(logs[g]) + 1] = Mark(i, w)
    BY <1>1, <1>7, WriteRaises
  <2>2. turn' = turn /\ lineage' = lineage /\ Depth(g)' = Depth(g) /\ Depth(g) \in Nat
    BY <1>1, <1>7, DepthType DEF Lands, Depth
  <2>3. Mark(i, w).id = i /\ Mark(i, w).at = Depth(i)
    BY DEF Mark
  <2>4. CASE g # Home(i, w)
    <3>1. logs'[g] = logs[g]
      BY <1>1, <1>7, <2>4, WriteLands
    <3>2. QED
      BY <1>3, <3>1 DEF Owned
  <2>5. CASE g = Home(i, w) /\ Owned(g)
    <3>1. CASE k \in 1..Len(logs[g])
      BY <1>3, <2>1, <2>5, <3>1
    <3>2. CASE k = Len(logs[g]) + 1
      <4>1. logs'[g][k] = Mark(i, w)
        BY <2>1, <2>5, <3>2
      <4>2. /\ Depth(i) = Depth(g) + Len(logs[g])
            /\ \A m \in 1..Len(logs[g]) : lineage[i][Depth(g) + m - 1] = logs[g][m].id
        BY <1>7, <2>5, LandsNext
      <4>3. lineage[i][Depth(i)] = i
        <5>1. turn[i].at = "answer"
          BY <1>1, <1>7, OnlyUnsettledLands
        <5>2. QED
          BY <1>1, <5>1, LastOfLineage DEF LineageInv
      <4>4. logs'[g][k].at = Depth(g) + k - 1
        BY <1>2, <2>2, <2>3, <3>2, <4>1, <4>2
      <4>5. ASSUME NEW m \in 1..k
            PROVE  lineage[i][Depth(g) + m - 1] = logs'[g][m].id
        <5>1. CASE m \in 1..Len(logs[g])
          BY <2>1, <4>2, <5>1
        <5>2. CASE m = Len(logs[g]) + 1
          <6>1. Depth(g) + m - 1 = Depth(i)
            BY <1>2, <2>2, <4>2, <5>2
          <6>2. QED
            BY <2>3, <3>2, <4>1, <4>3, <5>2, <6>1
        <5>3. QED
          BY <1>2, <3>2, <5>1, <5>2
      <4>6. QED
        BY <2>2, <2>3, <4>1, <4>4, <4>5
    <3>3. QED
      BY <1>2, <2>1, <2>5, <3>1, <3>2
  <2>6. CASE g = Home(i, w) /\ ~Owned(g)
    <3>1. ~Settled(g)
      BY <1>1, <2>6, OwnedStays
    <3>2. logs[g] = <<>> /\ Len(logs[g]) = 0
      BY <1>1, <3>1, EmptyUntilSettled
    <3>3. k = 1 /\ logs'[g][1] = Mark(i, w)
      BY <2>1, <2>6, <3>2
    <3>4. g = i
      BY <2>3, <3>3 DEF Owned
    <3>5. lineage[i][Depth(i)] = i
      <4>1. turn[i].at = "answer"
        BY <1>1, <1>7, OnlyUnsettledLands
      <4>2. QED
        BY <1>1, <4>1, LastOfLineage DEF LineageInv
    <3>6. Depth(g) + 1 - 1 = Depth(g)
      BY <2>2
    <3>7. QED
      BY <2>2, <2>3, <3>3, <3>4, <3>5, <3>6
  <2>7. QED
    BY <2>4, <2>5, <2>6
<1>8. QED
  BY <1>1, <1>4, <1>6, <1>7, LogMoves

\* A record has an output when a write has landed, and keeps it (write_terminal_if_not_terminal).
LEMMA StoredKinds ==
  ASSUME WriteInv, Next, NEW j \in Ids, Stored(j)'
  PROVE  (Stored(j) /\ records'[j] = records[j]) \/ \E w \in Writers(j) : Lands(j, w)
<1>1. PICK i \in Ids :
        \/ \E p \in 1..(i - 1) \cup {None} : Starts(i, p)
        \/ ReadsRecord(i) \/ ReadsSegment(i) \/ ReadFails(i) \/ Answers(i)
        \/ Removes(i) \/ LogEnds(i)
        \/ \E w \in Writers(i) :
             \/ Begins(i, w) \/ WriterFails(i, w) \/ ReadsTaken(i, w) \/ Misses(i, w)
             \/ Lands(i, w)
  BY StepKinds
<1>2. CASE records' = records
  BY <1>2 DEF Stored
<1>3. CASE ReadFails(i) \/ Answers(i)
  <2>1. records' = records \/ records' = Queued(i)
    BY <1>3, AnswersTo DEF WriteInv
  <2>2. CASE records' = Queued(i)
    <3>1. records'[i].status = "queued" /\ \A h \in Ids : h # i => records'[h] = records[h]
      BY <2>2, QueuedRecord DEF WriteInv
    <3>2. QED
      BY <3>1 DEF Stored
  <2>3. QED
    BY <1>2, <2>1, <2>2
<1>4. CASE Removes(i)
  BY <1>4 DEF Removes, Stored, WriteInv, Types
<1>5. ASSUME NEW w \in Writers(i), Lands(i, w)
      PROVE  (Stored(j) /\ records'[j] = records[j]) \/ \E v \in Writers(j) : Lands(j, v)
  <2>1. j # i => records'[j] = records[j]
    BY <1>5, WriteLands DEF WriteInv
  <2>2. QED
    BY <1>5, <2>1 DEF Stored
<1>6. \A w \in Writers(i) : Begins(i, w) \/ WriterFails(i, w) \/ ReadsTaken(i, w) \/ Misses(i, w) =>
        records' = records
  BY WaitKeepsWrites
<1>7. QED
  BY <1>1, <1>2, <1>3, <1>4, <1>5, <1>6 DEF Starts, ReadsRecord, ReadsSegment, LogEnds, storeVars

\* A record names the place of its turn and the status it was stored with there (append_and_set).
LEMMA RecordsKept == LogInv /\ Next => RecordInv'
<1> SUFFICES ASSUME LogInv, Next, NEW i \in Ids, NEW pos \in Position, Stored(i)',
                    records'[i].log = pos.log, records'[i].depth = pos.depth
             PROVE  /\ Place(pos, i)'
                    /\ Owned(pos.log)' =>
                         logs'[pos.log][pos.depth - Depth(pos.log)' + 1].by = records'[i].status
  BY DEF RecordInv
<1>1. /\ WriteInv /\ ParentInv /\ EntryInv /\ OwnedInv /\ RecordInv /\ Types
      /\ WriteInv' /\ EntryInv' /\ OwnedInv'
  BY WritesKept, EntriesKept, OwnedKept DEF LogInv, WriteInv
<1>2. pos.log \in Ids /\ pos.depth \in Nat
  BY DEF Position
<1>3. CASE Stored(i) /\ records'[i] = records[i]
  <2>1. /\ Place(pos, i)
        /\ Owned(pos.log) => logs[pos.log][pos.depth - Depth(pos.log) + 1].by = records[i].status
    BY <1>1, <1>3 DEF RecordInv
  <2>2. Place(pos, i)'
    BY <1>1, <2>1, PlaceStays
  <2>3. Depth(pos.log)' = Depth(pos.log)
    BY <1>1, <1>2, <2>1, StaysSettled DEF Place, Depth
  <2>4. Owned(pos.log)' => /\ Owned(pos.log) /\ pos.depth - Depth(pos.log) + 1 \in 1..Len(logs[pos.log])
                           /\ \A k \in 1..Len(logs[pos.log]) : logs'[pos.log][k] = logs[pos.log][k]
    BY <1>1, <1>2, <2>1, OwnedStays DEF Place
  <2>5. QED
    BY <1>3, <2>1, <2>2, <2>3, <2>4
<1>4. ASSUME NEW w \in Writers(i), Lands(i, w)
      PROVE  /\ Place(pos, i)'
             /\ Owned(pos.log)' =>
                  logs'[pos.log][pos.depth - Depth(pos.log)' + 1].by = records'[i].status
  <2> DEFINE g == pos.log
             n == Len(logs[g])
  <2>1. g = Home(i, w) /\ pos.depth = Depth(i) /\ records'[i].status = w
    <3>1. records'[i] = [status |-> w, log |-> Home(i, w), depth |-> Depth(i)]
      BY <1>1, <1>4, WriteLands
    <3>2. /\ records'[i].log = Home(i, w) /\ records'[i].depth = Depth(i)
          /\ records'[i].status = w
      BY <3>1
    <3>3. QED
      BY <3>2
  <2>2. n \in Nat /\ Len(logs'[g]) = n + 1 /\ logs'[g][n + 1] = Mark(i, w)
    <3>1. n \in Nat
      BY <1>1, <1>2 DEF Types
    <3>2. Len(logs'[g]) = Len(logs[g]) + 1 /\ logs'[g][Len(logs[g]) + 1] = Mark(i, w)
      <4>1. /\ Len(logs'[g]) = Len(logs[g]) + IF g = Home(i, w) THEN 1 ELSE 0
            /\ g = Home(i, w) => logs'[g][Len(logs[g]) + 1] = Mark(i, w)
        BY <1>1, <1>2, <1>4, WriteRaises, Zenon
      <4>2. QED
        BY <2>1, <4>1
    <3>3. QED
      BY <3>1, <3>2
  <2>3. Mark(i, w).id = i /\ Mark(i, w).at = Depth(i) /\ Mark(i, w).by = w
    BY DEF Mark
  <2>4. turn' = turn /\ spoiled' = spoiled /\ Depth(i)' = Depth(i) /\ Depth(g)' = Depth(g)
    BY <1>4 DEF Lands, Depth
  <2>5. Depth(i) \in Nat /\ Depth(g) \in Nat /\ i \in Nat /\ g \in Nat
    BY <1>1, <1>2, DepthType, LogAssumption DEF Ids
  <2>6. ~Settled(i) /\ turn[i].at = "answer" /\ Settled(i)'
    BY <1>1, <1>4, OnlyUnsettledLands DEF Settled
  <2>7. Owned(g)' => Depth(i) = Depth(g) + n
    <3>1. Owned(g)' => logs'[g][n + 1].at = Depth(g)' + (n + 1) - 1
      BY <1>1, <1>2, <2>2 DEF OwnedInv
    <3>2. QED
      BY <2>2, <2>3, <2>4, <2>5, <3>1
  <2>8. Owned(g)' => pos.depth - Depth(g) + 1 = n + 1
    BY <2>1, <2>2, <2>5, <2>7
  <2>9. Owned(g)' => /\ pos.depth - Depth(g) + 1 \in 1..Len(logs'[g])
                     /\ logs'[g][pos.depth - Depth(g) + 1].id = i
                     /\ logs'[g][pos.depth - Depth(g) + 1].by = w
    <3>1. n + 1 \in 1..Len(logs'[g]) /\ logs'[g][n + 1].id = i /\ logs'[g][n + 1].by = w
      BY <2>2, <2>3
    <3>2. QED
      BY <2>8, <3>1
  <2>10. /\ turn[g].at = "answer" /\ Settled(g)' /\ pos.depth >= Depth(g) /\ g <= i
         /\ ~spoiled' => Owned(g)'
    <3>1. CASE g = i
      <4>1. n = 0
        BY <1>1, <2>6, <3>1, EmptyUntilSettled
      <4>2. logs'[g] # <<>> /\ logs'[g][1] = Mark(i, w)
        BY <2>2, <4>1
      <4>3. Owned(g)'
        BY <2>3, <3>1, <4>2 DEF Owned
      <4>4. QED
        BY <2>1, <2>5, <2>6, <3>1, <4>3
    <3>2. CASE g # i
      <4>1. turn[i].parent # None /\ g = turn[i].parent.log
        BY <1>1, <1>4, <2>1, <3>2, LandsFit
      <4>2. /\ turn[i].prev \in Ids /\ turn[i].prev < i /\ Place(turn[i].parent, turn[i].prev)
            /\ turn[i].parent.depth \in Nat
        BY <1>1, <4>1, ParentPlace
      <4>3. Depth(i) = turn[i].parent.depth + 1
        BY <4>1 DEF Depth
      <4>4. turn[g].at = "answer" /\ Settled(g) /\ turn[i].parent.depth >= Depth(g) /\ g <= turn[i].prev
        BY <4>1, <4>2 DEF Place
      <4>5. turn[i].prev \in Nat
        BY <4>2, LogAssumption DEF Ids
      <4>6. pos.depth >= Depth(g) /\ g <= i
        BY <2>1, <2>5, <4>2, <4>3, <4>4, <4>5
      <4>7. Settled(g)'
        BY <1>1, <1>2, <4>4, StaysSettled
      <4>8. ~spoiled' => Owned(g)'
        BY <1>1, <1>2, <2>4, <4>1, <4>2, OwnedStays DEF Place
      <4>9. QED
        BY <4>4, <4>6, <4>7, <4>8
    <3>3. QED
      BY <3>1, <3>2
  <2>11. Place(pos, i)'
    BY <2>1, <2>4, <2>6, <2>9, <2>10 DEF Place
  <2>12. QED
    BY <2>1, <2>4, <2>9, <2>11
<1>5. QED
  BY <1>1, <1>3, <1>4, StoredKinds

-----------------------------------------------------------------------------
(* Reading a history.                                                        *)

\* A log that has not expired gives the lineage from its own turn on, whole (_entries).
LEMMA SegmentOfOwned ==
  ASSUME LogInv, NEW pos \in Position, NEW p \in Ids, Place(pos, p), Owned(pos.log)
  PROVE  LET segment == Segment(pos) IN
         /\ Len(segment) = pos.depth - Depth(pos.log) + 1 /\ Len(segment) \in Nat /\ Len(segment) >= 1
         /\ segment # <<>> /\ segment[1].base = turn[pos.log].parent /\ Whole(segment, pos)
         /\ \A m \in 1..Len(segment) : segment[m].id = lineage[p][Depth(pos.log) + m - 1]
<1> DEFINE g == pos.log
           log == logs[g]
           n == pos.depth - Depth(g) + 1
<1>1. WriteInv /\ ParentInv /\ EntryInv /\ OwnedInv /\ Types
  BY DEF LogInv, WriteInv
<1>2. g \in Ids /\ pos.depth \in Nat /\ Depth(g) \in Nat /\ Depth(g) >= 1
  BY <1>1, DepthType DEF Position
<1>3. Len(log) \in Nat /\ n \in 1..Len(log) /\ log[n].id = p
  BY <1>1, <1>2 DEF Types, Place
<1>4. \A k \in 1..Len(log) : log[k].at = Depth(g) + k - 1
  BY <1>1, <1>2 DEF OwnedInv
<1>5. Upto(pos) = 1..n
  <2>1. Upto(pos) = {k \in 1..Len(log) : log[k].at <= pos.depth}
    BY DEF Upto
  <2> HIDE DEF log
  <2>2. \A k \in 1..Len(log) : log[k].at <= pos.depth <=> k \in 1..n
    BY <1>2, <1>3, <1>4
  <2>3. \A k \in 1..n : k \in 1..Len(log)
    BY <1>3
  <2>4. QED
    BY <2>1, <2>2, <2>3
<1>6. Len(Segment(pos)) = n /\ Segment(pos) \in Seq(Entry)
  <2>1. Len(Segment(pos)) = Cardinality(1..n) /\ Segment(pos) \in Seq(Entry)
    BY <1>1, <1>5, SegmentIsPrefix
  <2>2. n \in Nat /\ n >= 1
    BY <1>3
  <2> HIDE DEF n
  <2>3. Cardinality(1..n) = n
    BY <2>2, FS_Interval
  <2>4. QED
    BY <2>1, <2>3
<1>7. \A m \in 1..n : Segment(pos)[m] = log[m]
  BY <1>1, <1>6, SegmentIsPrefix
<1>8. n >= 1 /\ Segment(pos) # <<>>
  BY <1>3, <1>6
<1>9. Segment(pos)[1].base = turn[g].parent
  <2>1. log[1].id = g
    BY DEF Owned
  <2>2. 1 \in 1..Len(log) /\ 1 \in 1..n
    BY <1>3
  <2>3. QED
    BY <1>1, <1>2, <1>7, <2>1, <2>2 DEF EntryInv, Fits
<1>10. Whole(Segment(pos), pos)
  <2>1. turn[g].parent = None => Depth(g) = 1
    BY DEF Depth
  <2>2. turn[g].parent # None => Depth(g) = turn[g].parent.depth + 1 /\ turn[g].parent.depth \in Nat
    BY <1>1, <1>2, ParentPlace DEF Depth
  <2>3. n = pos.depth - IF turn[g].parent = None THEN 0 ELSE turn[g].parent.depth
    BY <1>2, <2>1, <2>2
  <2>4. QED
    BY <1>6, <1>9, <2>3 DEF Whole
<1>11. \A m \in 1..n : log[m].id = lineage[p][Depth(g) + m - 1]
  BY <1>1, <1>2, <1>3 DEF OwnedInv
<1>12. QED
  BY <1>3, <1>6, <1>7, <1>8, <1>9, <1>10, <1>11

\* A log that expired, and that others began again, is not taken for a history (_entries).
LEMMA SegmentOfLost ==
  ASSUME LogInv, NEW pos \in Position, NEW p \in Ids, Place(pos, p), ~Owned(pos.log)
  PROVE  Segment(pos) = <<>> \/ ~Whole(Segment(pos), pos)
<1> SUFFICES ASSUME Segment(pos) # <<>>, Whole(Segment(pos), pos)
             PROVE  FALSE
  OBVIOUS
<1> DEFINE g == pos.log
           log == logs[g]
           d == pos.depth
<1>1. WriteInv /\ ParentInv /\ EntryInv /\ OrderInv /\ Types
  BY DEF LogInv, WriteInv
<1>2. g \in Ids /\ d \in Nat /\ Depth(g) \in Nat /\ Depth(g) >= 1 /\ d >= Depth(g)
  BY <1>1, DepthType DEF Position, Place
<1>3. /\ Segment(pos) \in Seq(Entry) /\ Len(Segment(pos)) <= Len(log) /\ Len(Segment(pos)) \in Nat
      /\ \A k \in 1..Len(Segment(pos)) : Segment(pos)[k] = log[k]
      /\ IsFiniteSet(Upto(pos)) /\ Len(Segment(pos)) = Cardinality(Upto(pos))
  BY <1>1, SegmentIsPrefix
<1>4. Len(log) \in Nat /\ log \in Seq(Entry)
  BY <1>1, <1>2 DEF Types
<1>5. 1 \in 1..Len(Segment(pos)) /\ 1 \in 1..Len(log) /\ log # <<>>
  BY <1>3, <1>4
<1>6. \A k \in 1..Len(log) : log[k].id # g
  <2>1. log[1].id # g
    BY <1>5 DEF Owned
  <2>2. QED
    BY <1>1, <1>2, <2>1 DEF EntryInv, Fits
<1>7. \A k \in 1..Len(log) : log[k].base = None /\ log[k].at > Depth(g) /\ log[k].at \in Nat
  BY <1>1, <1>2, <1>6, EntryType DEF EntryInv, Fits
<1>8. Cardinality(Upto(pos)) = d
  <2>1. Segment(pos)[1].base = None
    BY <1>3, <1>5, <1>7
  <2>2. QED
    BY <1>2, <1>3, <2>1 DEF Whole
<1>9. IsFiniteSet(2..d) /\ Cardinality(2..d) < d
  <2> HIDE DEF d
  <2>1. d >= 1
    BY <1>2
  <2>2. IsFiniteSet(2..d) /\ Cardinality(2..d) = IF 2 > d THEN 0 ELSE d - 2 + 1
    BY <1>2, FS_Interval
  <2>3. QED
    BY <1>2, <2>1, <2>2
<1> DEFINE f == [k \in Upto(pos) |-> log[k].at]
<1>10. \A k \in Upto(pos) : k \in 1..Len(log) /\ log[k].at <= d
  BY DEF Upto
<1>11. f \in [Upto(pos) -> 2..d]
  BY <1>2, <1>7, <1>10
<1>12. \E k, m \in Upto(pos) : k # m /\ f[k] = f[m]
  <2> HIDE DEF f, d
  <2>1. QED
    BY <1>3, <1>8, <1>9, <1>11, FS_PigeonHole
<1>13. \A k, m \in 1..Len(log) : k < m => log[k].at < log[m].at
  BY <1>1, <1>2 DEF OrderInv
<1>14. QED
  BY <1>4, <1>7, <1>10, <1>12, <1>13

\* Two consecutive parts of a lineage make one (_entries joins what it reads).
LEMMA PartsJoin ==
  ASSUME NEW S, NEW s \in Seq(S), NEW t \in Seq(S), NEW a \in Nat, NEW b \in Nat,
         a >= 1, b <= Len(s), Len(t) = b - a + 1, Len(t) >= 1, \A m \in 1..Len(t) : t[m] = s[a + m - 1]
  PROVE  t \o SubSeq(s, b + 1, Len(s)) = SubSeq(s, a, Len(s))
<1>1. Len(s) \in Nat /\ Len(t) \in Nat /\ a <= b /\ a \in 1..(Len(s) + 1) /\ b \in (a - 1)..Len(s)
      /\ Len(s) \in b..Len(s)
  OBVIOUS
<1>2. t = SubSeq(s, a, b)
  <2>1. SubSeq(s, a, b) \in Seq(S) /\ Len(SubSeq(s, a, b)) = Len(t)
    BY <1>1
  <2>2. \A m \in 1..Len(t) : SubSeq(s, a, b)[m] = t[m]
    BY <1>1
  <2>3. QED
    BY <2>1, <2>2, SeqEqual
<1>3. SubSeq(s, a, b) \o SubSeq(s, b + 1, Len(s)) = SubSeq(s, a, Len(s))
  BY <1>1, ConcatAdjacentSubSeq
<1>4. QED
  BY <1>2, <1>3

\* The turn before in a lineage is the one its response continues (create_response).
LEMMA BeforeInLineage ==
  ASSUME WriteInv, ParentInv, LineageInv, NEW j \in Ids, NEW n \in 1..Len(lineage[j]),
         NEW g \in Ids, lineage[j][n] = g, turn[g].at # "new", turn[g].prev # None
  PROVE  n - 1 \in 1..Len(lineage[j]) /\ lineage[j][n - 1] = turn[g].prev
<1>1. Len(lineage[j]) \in Nat
  BY DEF WriteInv, Types
<1>2. Len(lineage[g]) = n /\ \A m \in 1..n : lineage[g][m] = lineage[j][m]
  BY DEF LineageInv
<1> DEFINE p == turn[g].prev
<1>3. /\ p \in Ids /\ Len(lineage[g]) = Len(lineage[p]) + 1 /\ Len(lineage[p]) \in Nat
      /\ \A m \in 1..Len(lineage[p]) : lineage[g][m] = lineage[p][m]
  BY LastOfLineage
<1>4. turn[p].at = "answer"
  BY DEF ParentInv
<1>5. Len(lineage[p]) >= 1 /\ lineage[p][Len(lineage[p])] = p
  BY <1>3, <1>4, LastOfLineage
<1>6. Len(lineage[p]) = n - 1 /\ n - 1 \in 1..n /\ n - 1 \in 1..Len(lineage[j])
  BY <1>1, <1>2, <1>3, <1>5
<1>7. QED
  BY <1>2, <1>3, <1>5, <1>6

\* A whole segment is the next part of the lineage, and its base the place of the turn before that
\* (_entries).
LEMMA SegmentContinues ==
  ASSUME LogInv, NEW j \in Ids, NEW segment \in Seq(Entry), ReadOn(j, segment)
  PROVE  LET pos == turn[j].cursor IN
         \E g \in Ids :
           /\ g = pos.log /\ segment[1].base = turn[g].parent
           /\ Depth(g) \in 1..Len(lineage[j])
           /\ (Named(segment) \o turn[j].history) \o <<j>> =
                SubSeq(lineage[j], Depth(g), Len(lineage[j]))
           /\ turn[g].parent # None =>
                /\ turn[g].parent.depth = Depth(g) - 1
                /\ turn[g].parent.depth \in 1..(Len(lineage[j]) - 1)
                /\ lineage[j][turn[g].parent.depth] = turn[g].prev
<1> DEFINE pos == turn[j].cursor
           g == pos.log
           L == Len(lineage[j])
           q == lineage[j][pos.depth]
<1>1. WriteInv /\ ParentInv /\ EntryInv /\ OwnedInv /\ LineageInv /\ HistoryInv /\ Types
  BY DEF LogInv, WriteInv
<1>2. /\ turn[j].at = "entries" /\ pos \in Position /\ segment = Segment(pos) /\ segment # <<>>
      /\ Whole(segment, pos) /\ Named(segment) \in Seq(Ids)
  BY DEF ReadOn
<1>3. g \in Ids /\ pos.depth \in Nat /\ Depth(g) \in Nat /\ Depth(g) >= 1
  BY <1>1, <1>2, DepthType DEF Position
<1>4. lineage[j] \in Seq(Ids) /\ L \in Nat
  BY <1>1 DEF Types
<1>5. pos.depth \in 1..(L - 1)
  BY <1>1, <1>2, <1>3 DEF HistoryInv
<1>6. q \in Ids
  BY <1>4, <1>5
<1>7. Place(pos, q) /\ turn[j].history \o <<j>> = SubSeq(lineage[j], pos.depth + 1, L)
  BY <1>1, <1>2, <1>6 DEF HistoryInv
<1>8. Owned(g)
  BY <1>2, <1>6, <1>7, SegmentOfLost
<1>9. /\ Len(segment) = pos.depth - Depth(g) + 1 /\ Len(segment) \in Nat /\ Len(segment) >= 1
      /\ segment[1].base = turn[g].parent
      /\ \A m \in 1..Len(segment) : segment[m].id = lineage[q][Depth(g) + m - 1]
  BY <1>2, <1>6, <1>7, <1>8, SegmentOfOwned
<1> DEFINE c == pos.depth
           d == Depth(g)
           n == Len(segment)
<1>a. c \in Nat /\ d \in Nat /\ n \in Nat /\ d >= 1 /\ n >= 1 /\ n = c - d + 1 /\ c \in 1..(L - 1)
  BY <1>3, <1>5, <1>9
<1>10. \A m \in 1..pos.depth : lineage[q][m] = lineage[j][m]
  <2>1. pos.depth \in 1..L
    BY <1>4, <1>5
  <2>2. QED
    BY <1>1, <2>1 DEF LineageInv
<1>11. \A m \in 1..Len(segment) : Depth(g) + m - 1 \in 1..pos.depth
  <2> HIDE DEF c, d, n
  <2>1. \A m \in 1..n : d + m - 1 \in 1..c
    BY <1>a
  <2>2. QED
    BY <2>1 DEF c, d, n
<1>12. /\ Len(Named(segment)) = Len(segment)
       /\ \A m \in 1..Len(segment) : Named(segment)[m] = lineage[j][Depth(g) + m - 1]
  <2>1. \A m \in 1..Len(segment) : segment[m].id = lineage[j][Depth(g) + m - 1]
    BY <1>9, <1>10, <1>11
  <2>2. DOMAIN Named(segment) = 1..Len(segment) /\ Len(segment) \in Nat
    BY <1>9 DEF Named
  <2>3. Len(Named(segment)) = Len(segment)
    BY <1>2, <2>2
  <2>4. \A m \in 1..Len(segment) : Named(segment)[m] = segment[m].id
    BY DEF Named
  <2>5. QED
    BY <2>1, <2>3, <2>4
<1>13. Named(segment) \o (turn[j].history \o <<j>>) = SubSeq(lineage[j], Depth(g), L)
  <2>1. pos.depth <= L
    BY <1>3, <1>4, <1>5
  <2>2. \A a, b \in Nat : \A s, t \in Seq(Ids) :
          /\ a >= 1 /\ b <= Len(s) /\ Len(t) = b - a + 1 /\ Len(t) >= 1
          /\ \A m \in 1..Len(t) : t[m] = s[a + m - 1]
          => t \o SubSeq(s, b + 1, Len(s)) = SubSeq(s, a, Len(s))
    BY PartsJoin
  <2>3. /\ Len(Named(segment)) = pos.depth - Depth(g) + 1 /\ Len(Named(segment)) >= 1
        /\ \A m \in 1..Len(Named(segment)) : Named(segment)[m] = lineage[j][Depth(g) + m - 1]
    BY <1>9, <1>12
  <2>4. Named(segment) \o SubSeq(lineage[j], pos.depth + 1, L) = SubSeq(lineage[j], Depth(g), L)
    BY <1>2, <1>3, <1>4, <2>1, <2>2, <2>3
  <2>5. QED
    BY <1>7, <2>4
<1>14. (Named(segment) \o turn[j].history) \o <<j>> = Named(segment) \o (turn[j].history \o <<j>>)
  <2>1. turn[j].history \in Seq(Ids)
    BY <1>1 DEF Types, Turn
  <2>2. <<j>> \in Seq(Ids)
    OBVIOUS
  <2>3. \A s, t, u \in Seq(Ids) : (s \o t) \o u = s \o (t \o u)
    BY ConcatAssociative, SMTT(20)
  <2>4. QED
    BY <1>2, <2>1, <2>2, <2>3, Zenon
<1>15. Depth(g) \in 1..L
  <2> HIDE DEF c, d, n, L
  <2>1. d \in 1..L
    BY <1>4, <1>a
  <2>2. QED
    BY <2>1 DEF d, L
<1>16. lineage[j][Depth(g)] = g
  <2>1. segment[1] = logs[g][1] /\ 1 \in 1..Len(segment)
    BY <1>1, <1>2, <1>9, SegmentIsPrefix
  <2>2. segment[1].id = lineage[q][Depth(g) + 1 - 1] /\ Depth(g) + 1 - 1 = Depth(g)
    <3>1. segment[1].id = lineage[q][Depth(g) + 1 - 1]
      BY <1>9, <2>1
    <3>2. QED
      BY <1>3, <3>1
  <2>3. Depth(g) \in 1..pos.depth
    <3> HIDE DEF c, d, n
    <3>1. d \in 1..c
      BY <1>a
    <3>2. QED
      BY <3>1 DEF c, d
  <2>4. QED
    BY <1>8, <1>10, <2>1, <2>2, <2>3 DEF Owned
<1>17. turn[g].parent # None =>
         /\ turn[g].parent.depth = Depth(g) - 1 /\ turn[g].parent.depth \in 1..(L - 1)
         /\ lineage[j][turn[g].parent.depth] = turn[g].prev
  <2> SUFFICES ASSUME turn[g].parent # None
               PROVE  /\ turn[g].parent.depth = Depth(g) - 1 /\ turn[g].parent.depth \in 1..(L - 1)
                      /\ lineage[j][turn[g].parent.depth] = turn[g].prev
    OBVIOUS
  <2>1. turn[g].parent.depth \in Nat /\ turn[g].prev \in Ids
    BY <1>1, <1>3, ParentPlace
  <2>2. turn[g].prev # None /\ turn[g].at # "new"
    BY <1>1, <1>3 DEF ParentInv
  <2>3. turn[g].parent.depth = Depth(g) - 1
    <3>1. Depth(g) = turn[g].parent.depth + 1
      BY Zenon DEF Depth
    <3> HIDE DEF g
    <3>2. QED
      BY <2>1, <3>1
  <2>4. Depth(g) - 1 \in 1..L /\ lineage[j][Depth(g) - 1] = turn[g].prev
    BY <1>1, <1>3, <1>15, <1>16, <2>2, BeforeInLineage
  <2>5. Depth(g) - 1 \in 1..(L - 1)
    BY <1>3, <1>4, <1>15, <2>4
  <2>6. QED
    BY <2>3, <2>4, <2>5
<1>18. QED
  BY <1>3, <1>9, <1>13, <1>14, <1>15, <1>17

\* What has been read of a history is the end of the lineage (resolve_previous, _entries).
LEMMA HistoriesKept == LogInv /\ Next => HistoryInv'
<1> SUFFICES ASSUME LogInv, Next, NEW j \in Ids
             PROVE  /\ turn'[j].at \in {"resolved", "answer"} => turn'[j].history \o <<j>> = lineage'[j]
                    /\ turn'[j].at \in {"new", "resolve"} => turn'[j].history = <<>>
                    /\ \A pos \in Position, p \in Ids :
                         turn'[j].at = "entries" /\ turn'[j].cursor = pos =>
                           /\ pos.depth \in 1..(Len(lineage'[j]) - 1)
                           /\ lineage'[j][pos.depth] = p => Place(pos, p)'
                           /\ turn'[j].history \o <<j>> =
                                SubSeq(lineage'[j], pos.depth + 1, Len(lineage'[j]))
  BY DEF HistoryInv
<1>1. WriteInv /\ ParentInv /\ LineageInv /\ RecordInv /\ HistoryInv /\ Types
  BY DEF LogInv, WriteInv
<1>2. \A pos \in Position, p \in Ids : Place(pos, p) => Place(pos, p)'
  BY <1>1, PlaceStays
<1>3. lineage[j] \in Seq(Ids) /\ Len(lineage[j]) \in Nat
  BY <1>1 DEF Types
<1>4. CASE turn'[j] = turn[j] /\ lineage'[j] = lineage[j]
  BY <1>1, <1>2, <1>4 DEF HistoryInv
<1>5. ASSUME NEW p \in Ids \cup {None}, Begun(j, p)
      PROVE  /\ turn'[j].at \in {"resolved", "resolve"} /\ turn'[j].history = <<>>
             /\ turn'[j].at = "resolved" => turn'[j].history \o <<j>> = lineage'[j]
  <2>1. turn'[j].at \in {"resolved", "resolve"} /\ turn'[j].history = <<>>
    BY <1>1, <1>5 DEF Begun, HistoryInv
  <2>2. turn'[j].at = "resolved" => lineage'[j] = <<j>>
    BY <1>5 DEF Begun
  <2>3. <<>> \o <<j>> = <<j>>
    OBVIOUS
  <2>4. QED
    BY <2>1, <2>2, <2>3
<1>6. CASE \E p \in Ids \cup {None} : Begun(j, p)
  BY <1>5, <1>6
<1>7. ASSUME NEW pos \in Position, Found(j, pos)
      PROVE  /\ turn'[j].at = "entries" /\ turn'[j].cursor = pos /\ lineage'[j] = lineage[j]
             /\ pos.depth \in 1..(Len(lineage[j]) - 1)
             /\ \A p \in Ids : lineage[j][pos.depth] = p => Place(pos, p)'
             /\ turn'[j].history \o <<j>> = SubSeq(lineage[j], pos.depth + 1, Len(lineage[j]))
  <2> DEFINE p == turn[j].prev
             L == Len(lineage[j])
  <2>1. /\ turn'[j].at = "entries" /\ turn'[j].cursor = pos /\ lineage'[j] = lineage[j]
        /\ turn'[j].history = turn[j].history /\ turn[j].at = "resolve" /\ p \in Ids /\ Stored(p)
        /\ records[p].log = pos.log /\ records[p].depth = pos.depth
    BY <1>7 DEF Found
  <2>2. p # None /\ turn[j].history = <<>>
    BY <1>1, <2>1, LogAssumption DEF HistoryInv
  <2>3. Place(pos, p)
    BY <1>1, <2>1 DEF RecordInv
  <2>4. /\ L = Len(lineage[p]) + 1 /\ Len(lineage[p]) \in Nat /\ lineage[j][L] = j
        /\ \A n \in 1..Len(lineage[p]) : lineage[j][n] = lineage[p][n]
    BY <1>1, <2>1, <2>2, LastOfLineage
  <2>5. turn[p].at = "answer" /\ pos.depth = Len(lineage[p])
    BY <1>1, <2>1, <2>3 DEF Place, LineageInv
  <2>6. Len(lineage[p]) >= 1 /\ lineage[p][Len(lineage[p])] = p
    BY <1>1, <2>1, <2>5, LastOfLineage
  <2>7. pos.depth \in 1..(L - 1) /\ lineage[j][pos.depth] = p /\ pos.depth + 1 = L
    BY <2>4, <2>5, <2>6
  <2>8. SubSeq(lineage[j], L, L) = <<j>>
    <3>1. L \in 1..L
      BY <2>4, <2>6
    <3> HIDE DEF L
    <3>2. SubSeq(lineage[j], L, L) = <<lineage[j][L]>>
      <4>1. \A t \in Seq(Ids) : \A n \in 1..Len(t) : SubSeq(t, n, n) = <<t[n]>>
        <5> TAKE t \in Seq(Ids)
        <5> TAKE n \in 1..Len(t)
        <5>1. SubSeq(t, n, n) \in Seq(Ids) /\ Len(SubSeq(t, n, n)) = 1 /\ SubSeq(t, n, n)[1] = t[n]
          OBVIOUS
        <5>2. <<t[n]>> \in Seq(Ids) /\ Len(<<t[n]>>) = 1 /\ <<t[n]>>[1] = t[n]
          OBVIOUS
        <5>3. \A i \in 1..1 : SubSeq(t, n, n)[i] = <<t[n]>>[i]
          BY <5>1, <5>2
        <5>4. QED
          BY <5>1, <5>2, <5>3, SeqEqual
      <4>2. QED
        BY <1>3, <3>1, <4>1 DEF L
    <3>3. QED
      BY <2>4, <3>2
  <2>9. turn'[j].history \o <<j>> = SubSeq(lineage[j], pos.depth + 1, L)
    <3>1. <<>> \o <<j>> = <<j>>
      OBVIOUS
    <3>2. QED
      BY <2>1, <2>2, <2>7, <2>8, <3>1
  <2>10. \A h \in Ids : lineage[j][pos.depth] = h => Place(pos, h)'
    BY <1>2, <2>3, <2>7
  <2>11. QED
    BY <2>1, <2>7, <2>9, <2>10
<1>8. CASE \E pos \in Position : Found(j, pos)
  BY <1>7, <1>8
<1>9. ASSUME NEW segment \in Seq(Entry), ReadOn(j, segment)
      PROVE  /\ turn'[j].at \in {"resolved", "entries"} /\ lineage'[j] = lineage[j]
             /\ turn'[j].at = "resolved" => turn'[j].history \o <<j>> = lineage[j]
             /\ \A pos \in Position, p \in Ids :
                  turn'[j].at = "entries" /\ turn'[j].cursor = pos =>
                    /\ pos.depth \in 1..(Len(lineage[j]) - 1)
                    /\ lineage[j][pos.depth] = p => Place(pos, p)'
                    /\ turn'[j].history \o <<j>> = SubSeq(lineage[j], pos.depth + 1, Len(lineage[j]))
  <2>1. PICK g \in Ids :
          /\ segment[1].base = turn[g].parent /\ Depth(g) \in 1..Len(lineage[j])
          /\ (Named(segment) \o turn[j].history) \o <<j>> = SubSeq(lineage[j], Depth(g), Len(lineage[j]))
          /\ turn[g].parent # None =>
               /\ turn[g].parent.depth = Depth(g) - 1
               /\ turn[g].parent.depth \in 1..(Len(lineage[j]) - 1)
               /\ lineage[j][turn[g].parent.depth] = turn[g].prev
    BY <1>9, SegmentContinues
  <2>2. /\ turn'[j].at = (IF segment[1].base = None THEN "resolved" ELSE "entries")
        /\ turn'[j].cursor = segment[1].base /\ turn'[j].history = Named(segment) \o turn[j].history
        /\ lineage'[j] = lineage[j]
    BY <1>9 DEF ReadOn
  <2>3. turn'[j].at = "resolved" => turn'[j].history \o <<j>> = lineage[j]
    <3> SUFFICES ASSUME turn'[j].at = "resolved" PROVE turn'[j].history \o <<j>> = lineage[j]
      OBVIOUS
    <3>1. Depth(g) = 1
      BY <2>1, <2>2 DEF Depth
    <3>2. SubSeq(lineage[j], 1, Len(lineage[j])) = lineage[j]
      BY <1>3
    <3>3. QED
      BY <2>1, <2>2, <3>1, <3>2
  <2>4. ASSUME NEW pos \in Position, NEW p \in Ids, turn'[j].at = "entries", turn'[j].cursor = pos
        PROVE  /\ pos.depth \in 1..(Len(lineage[j]) - 1)
               /\ lineage[j][pos.depth] = p => Place(pos, p)'
               /\ turn'[j].history \o <<j>> = SubSeq(lineage[j], pos.depth + 1, Len(lineage[j]))
    <3>1. turn[g].parent = pos /\ turn[g].parent # None
      BY <2>1, <2>2, <2>4, LogAssumption
    <3>2. /\ pos.depth = Depth(g) - 1 /\ pos.depth \in 1..(Len(lineage[j]) - 1)
          /\ lineage[j][pos.depth] = turn[g].prev
      BY <2>1, <3>1
    <3>3. turn[g].prev \in Ids /\ Place(pos, turn[g].prev)
      BY <1>1, <3>1, ParentPlace
    <3>4. pos.depth + 1 = Depth(g)
      BY <1>1, <3>2, DepthType
    <3>5. lineage[j][pos.depth] = p => Place(pos, p)'
      BY <1>2, <3>2, <3>3
    <3>6. QED
      BY <2>1, <2>2, <3>2, <3>4, <3>5
  <2>5. QED
    BY <2>2, <2>3, <2>4
<1>10. CASE \E segment \in Seq(Entry) : ReadOn(j, segment)
  BY <1>9, <1>10
<1>11. CASE Closed(j)
  BY <1>1, <1>11 DEF Closed, HistoryInv
<1>12. QED
  BY <1>1, <1>4, <1>6, <1>8, <1>10, <1>11, TurnKinds

\* No log has an entry and no request a lineage (the initial state).
LEMMA LogStart == Init => LogInv
<1> SUFFICES ASSUME Init PROVE LogInv
  OBVIOUS
<1>1. WriteInv
  BY WriteStart
<1>2. \A i \in Ids : /\ turn[i].at = "new" /\ turn[i].prev = None /\ turn[i].parent = None
                     /\ turn[i].history = <<>> /\ lineage[i] = <<>> /\ records[i] = None
                     /\ logs[i] = <<>>
  BY DEF Init
<1>3. \A pos \in Position : pos # None
  BY LogAssumption
<1>4. \A i \in Ids : Len(logs[i]) = 0 /\ Len(lineage[i]) = 0
  BY <1>2
<1>5. ParentInv
  BY <1>2, <1>3 DEF ParentInv
<1>6. LineageInv
  BY <1>2, <1>4 DEF LineageInv
<1>7. EntryInv /\ OrderInv
  BY <1>4 DEF EntryInv, OrderInv
<1>8. OwnedInv
  BY <1>2 DEF OwnedInv, Owned
<1>9. RecordInv
  BY <1>2 DEF RecordInv, Stored
<1>10. HistoryInv
  BY <1>2 DEF HistoryInv
<1>11. QED
  BY <1>1, <1>5, <1>6, <1>7, <1>8, <1>9, <1>10 DEF LogInv

\* Every step keeps the logs' invariant.
LEMMA LogKept == LogInv /\ [Next]_vars => LogInv'
<1> SUFFICES ASSUME LogInv, [Next]_vars PROVE LogInv'
  OBVIOUS
<1>1. WriteInv'
  BY WritesKept DEF LogInv
<1>2. CASE Next
  BY <1>1, <1>2, ParentsKept, LineagesKept, EntriesKept, OwnedKept, RecordsKept, HistoriesKept
     DEF LogInv
<1>3. CASE UNCHANGED vars
  BY <1>1, <1>3, LogQuiet DEF vars
<1>4. QED
  BY <1>2, <1>3

\* What the logs' invariant says of the entries (_store_turn).
LEMMA EntriesTold == LogInv => HistoryIsLineage
<1> SUFFICES ASSUME LogInv PROVE HistoryIsLineage
  OBVIOUS
<1>1. WriteInv /\ OrderInv /\ OwnedInv /\ RecordInv /\ HistoryInv /\ Types
  BY DEF LogInv, WriteInv
<1>2. \A i \in Ids : turn[i].at \in {"resolved", "answer"} => turn[i].history \o <<i>> = lineage[i]
  BY <1>1 DEF HistoryInv
<1>3. ASSUME ~spoiled, NEW i \in Ids, Stored(i)
      PROVE  LET log == logs[records[i].log] IN
             \E k \in 1..Len(log) :
               log[k].at = records[i].depth /\ log[k].id = i /\ log[k].by = records[i].status
  <2> DEFINE g == records[i].log
             d == records[i].depth
             pos == [log |-> g, depth |-> d]
             k == d - Depth(g) + 1
  <2>1. g \in Ids /\ d \in Nat /\ Depth(g) \in Nat
    <3>1. records[i] \in Record
      BY <1>1, <1>3 DEF Types, Stored
    <3>2. g \in Ids /\ d \in Nat
      BY <3>1 DEF Record
    <3>3. QED
      BY <1>1, <3>2, DepthType
  <2>2. pos \in Position /\ pos.log = g /\ pos.depth = d
    BY <2>1 DEF Position
  <2> HIDE DEF pos
  <2>3. Place(pos, i) /\ (Owned(g) => logs[g][d - Depth(g) + 1].by = records[i].status)
    BY <1>1, <1>3, <2>2 DEF RecordInv
  <2>4. Owned(g) /\ k \in 1..Len(logs[g]) /\ logs[g][k].id = i
    BY <1>3, <2>2, <2>3 DEF Place
  <2>5. logs[g][k].at = Depth(g) + k - 1
    BY <1>1, <2>1, <2>4 DEF OwnedInv
  <2>6. logs[g][k].at = d
    BY <2>1, <2>5
  <2>7. QED
    BY <2>3, <2>4, <2>6
<1>4. ~spoiled => OneEntryPerTurn
  BY <1>1, <1>3 DEF OneEntryPerTurn, OrderInv
<1>5. QED
  BY <1>2, <1>4 DEF HistoryIsLineage

\* A request that is refused for its entries met a log that has expired (_entries).
LEMMA RefusalMeansLoss ==
  ASSUME LogInv, [Next]_vars, NEW j \in Ids, turn[j].at = "entries", turn'[j].at = "refused"
  PROVE  spoiled
<1>1. WriteInv /\ HistoryInv /\ LineageInv /\ Types
  BY DEF LogInv, WriteInv
<1>2. Next
  BY DEF vars
<1>3. ReadsSegment(j)
  <2>1. PICK i \in Ids :
          \/ \E p \in 1..(i - 1) \cup {None} : Starts(i, p)
          \/ ReadsRecord(i) \/ ReadsSegment(i) \/ ReadFails(i) \/ Answers(i)
          \/ Removes(i) \/ LogEnds(i)
          \/ \E w \in Writers(i) :
               \/ Begins(i, w) \/ WriterFails(i, w) \/ ReadsTaken(i, w) \/ Misses(i, w)
               \/ Lands(i, w)
    BY <1>1, <1>2, StepKinds
  <2>2. turn'[j] # turn[j]
    OBVIOUS
  <2>3. ~(Removes(i) \/ LogEnds(i) \/ \E w \in Writers(i) : Lands(i, w))
    BY <2>2 DEF Removes, LogEnds, Lands
  <2>4. ~\E w \in Writers(i) : Begins(i, w) \/ WriterFails(i, w) \/ ReadsTaken(i, w) \/ Misses(i, w)
    BY <1>1, <2>2, WaitKeepsWrites
  <2>5. i = j
    BY <1>1, <2>1, <2>2, <2>3, <2>4
       DEF Starts, ReadsRecord, ReadsSegment, ReadFails, Answers, Types
  <2>6. ~(ReadFails(i) \/ Answers(i))
    <3>1. ReadFails(i) \/ Answers(i) => turn'[i].at \in {"answer", "unavailable"}
      BY <1>1 DEF ReadFails, Answers, Types, Turn
    <3>2. QED
      BY <2>5, <3>1
  <2>7. QED
    BY <2>1, <2>3, <2>4, <2>5, <2>6 DEF Starts, ReadsRecord
<1> DEFINE pos == turn[j].cursor
           p == lineage[j][pos.depth]
<1>4. pos \in Position /\ (Segment(pos) = <<>> \/ ~Whole(Segment(pos), pos))
  <2> DEFINE segment == Segment(pos)
             t == [turn[j] EXCEPT !.history = Named(segment) \o turn[j].history,
                     !.at = IF segment[1].base = None THEN "resolved" ELSE "entries",
                     !.cursor = segment[1].base]
  <2>1. /\ pos \in Position
        /\ (segment = <<>> \/ ~Whole(segment, pos)) \/ (t \in Turn /\ turn' = [turn EXCEPT ![j] = t])
    BY <1>1, <1>3, ReadsSegmentTo
  <2>2. turn[j] \in Turn /\ turn \in [Ids -> Turn]
    BY <1>1 DEF Types
  <2> HIDE DEF segment
  <2>3. t.at = IF segment[1].base = None THEN "resolved" ELSE "entries"
    BY <2>2 DEF Turn
  <2> HIDE DEF t
  <2>4. turn' = [turn EXCEPT ![j] = t] => turn'[j] = t
    BY <2>2
  <2>5. QED
    BY <2>1, <2>3, <2>4 DEF segment
<1>5. lineage[j] \in Seq(Ids) /\ Len(lineage[j]) \in Nat
  BY <1>1 DEF Types
<1>6. pos.depth \in 1..(Len(lineage[j]) - 1)
  BY <1>1, <1>4 DEF HistoryInv
<1>7. p \in Ids
  BY <1>5, <1>6
<1>8. Place(pos, p)
  BY <1>1, <1>4, <1>7 DEF HistoryInv
<1>9. ~Owned(pos.log)
  BY <1>4, <1>7, <1>8, SegmentOfOwned
<1>10. QED
  BY <1>8, <1>9 DEF Place

\* A model is given exactly the turns that the response it continues built on, and a turn is in one
\* log once, for any number of responses, branches, deletions and expired logs (_entries, _store_turn).
THEOREM HistoriesWhole == Spec => []HistoryIsLineage
BY LogStart, LogKept, EntriesTold, PTL DEF Spec

\* Only a history that was lost is refused, for any number of responses, branches and faults
\* (resolve_previous, _entries).
THEOREM RefusalsEarned == Spec => RefusesOnlyLost
<1>1. LogInv /\ [Next]_vars =>
        [\A i \in Ids : turn[i].at = "entries" /\ turn'[i].at = "refused" => spoiled]_vars
  BY RefusalMeansLoss
<1>2. QED
  BY <1>1, LogStart, LogKept, PTL DEF Spec, RefusesOnlyLost

=============================================================================
