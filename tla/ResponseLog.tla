---------------------------- MODULE ResponseLog -----------------------------
(***************************************************************************)
(* The turn log behind /v1/responses (openai/state/responses.py and the      *)
(* resolving and persisting half of openai/utils/responses.py): records that *)
(* name a position in an append-only log, continuations that append after    *)
(* their parent or fork a log of their own, and the writers that race to     *)
(* settle a background response.                                             *)
(*                                                                           *)
(* One caller identity: keys of two identities never meet.  Every store      *)
(* operation is one step and every await lies between two steps.  An entry   *)
(* is known by the response it belongs to and the status it was stored with. *)
(***************************************************************************)
EXTENDS Naturals, Sequences, FiniteSets

CONSTANTS
  Turns,      \* how many responses are asked for
  Background, \* which of them are background responses
  None,
  Faults,     \* the kinds of fault a behaviour may have
  MaxFaults   \* how many faults a behaviour may have

FaultKinds ==
  {"store",   \* an operation raises StateStoreUnavailableError; it may have happened
   "expire"}  \* a record or a log reaches the end of its TTL

Ids == 1..Turns  \* each id is minted once, when its request comes
Final == {"completed", "failed", "cancelled"}  \* an incomplete response is stored like a completed one
Position == [log : Ids, depth : Nat]
Record == [status : {"queued"} \cup Final, log : Ids, depth : Nat]

ASSUME LogAssumption ==
  /\ Turns \in Nat /\ Background \subseteq Ids
  /\ None \notin Ids /\ None \notin Position /\ None \notin Record
  /\ MaxFaults \in Nat /\ Faults \subseteq FaultKinds

\* The writers of a response, each known by the status it would store.
Writers(i) == IF i \in Background THEN Final ELSE {"completed"}

VARIABLES
  records,  \* the records under responses/
  logs,     \* the logs under responses-log/: entries at rising positions
  turn,     \* each response's request
  writer,   \* where each writer of a response is
  (* history *)
  lineage,  \* the responses a response continues, and itself, oldest first
  gone,     \* responses whose record was deleted or has expired
  spoiled,  \* a log has expired
  faults    \* faults so far

vars == <<records, logs, turn, writer, lineage, gone, spoiled, faults>>

Fault(kind) == kind \in Faults /\ faults < MaxFaults /\ faults' = faults + 1
NoFault == UNCHANGED faults

Stored(i) == records[i] # None /\ records[i].status # "queued"

Init ==
  /\ records = [i \in Ids |-> None] /\ logs = [i \in Ids |-> <<>>]
  /\ turn = [i \in Ids |-> [at |-> "new", prev |-> None, parent |-> None, cursor |-> None,
                            history |-> <<>>]]
  /\ writer = [i \in Ids |-> [w \in Writers(i) |-> "idle"]]
  /\ lineage = [i \in Ids |-> <<>>] /\ gone = {} /\ spoiled = FALSE /\ faults = 0

-----------------------------------------------------------------------------
(* Resolving previous_response_id.                                           *)

storeVars == <<records, logs, lineage, gone, spoiled, faults>>

\* create_response; a client continues a response it was told of, or starts anew.
Starts(i, p) ==
  /\ turn[i].at = "new" /\ (\A j \in 1..(i - 1) : turn[j].at # "new")
  /\ p # None => turn[p].at = "answer"
  /\ turn' = [turn EXCEPT ![i].at = IF p = None THEN "resolved" ELSE "resolve", ![i].prev = p]
  /\ lineage' = [lineage EXCEPT ![i] = IF p = None THEN <<i>> ELSE Append(lineage[p], i)]
  /\ UNCHANGED <<records, logs, writer, gone, spoiled, faults>>

\* resolve_previous refuses a record that is missing or has no output yet.
ReadsRecord(i) ==
  /\ turn[i].at = "resolve"
  /\ LET p == turn[i].prev IN
     IF Stored(p)
     THEN LET pos == [log |-> records[p].log, depth |-> records[p].depth] IN
          turn' = [turn EXCEPT ![i].at = "entries", ![i].parent = pos, ![i].cursor = pos]
     ELSE turn' = [turn EXCEPT ![i].at = "refused"]
  /\ UNCHANGED <<writer, storeVars>>

\* read_range of a log up to a position.
Segment(pos) ==
  LET log == logs[pos.log] IN SubSeq(log, 1, Cardinality({k \in 1..Len(log) : log[k].at <= pos.depth}))

\* Mutant: a segment that lost entries is used as it is.
mut_Whole(segment, pos) == TRUE

\* The entries from the log's base, or from its start, to the position.
Whole(segment, pos) ==
  LET base == segment[1].base IN
  Len(segment) = pos.depth - IF base = None THEN 0 ELSE base.depth

\* One round of _entries.
ReadsSegment(i) ==
  /\ turn[i].at = "entries"
  /\ LET pos == turn[i].cursor
         segment == Segment(pos)
     IN IF segment = <<>> \/ ~Whole(segment, pos)
        THEN turn' = [turn EXCEPT ![i].at = "refused"]
        ELSE turn' = [turn EXCEPT
               ![i].history = [k \in 1..Len(segment) |-> segment[k].id] \o @,
               ![i].at = IF segment[1].base = None THEN "resolved" ELSE "entries",
               ![i].cursor = segment[1].base]
  /\ UNCHANGED <<writer, storeVars>>

\* A read raises: 503 before any model is asked.
ReadFails(i) ==
  /\ Fault("store") /\ turn[i].at \in {"resolve", "entries"}
  /\ turn' = [turn EXCEPT ![i].at = "unavailable"]
  /\ UNCHANGED <<records, logs, writer, lineage, gone, spoiled>>

Queued(i) == [records EXCEPT ![i] = [status |-> "queued", log |-> i, depth |-> 0]]

\* The model is asked; a background response is queued first (write_background).
Answers(i) ==
  /\ turn[i].at = "resolved"
  /\ \/ /\ NoFault /\ turn' = [turn EXCEPT ![i].at = "answer"]
        /\ records' = IF i \in Background THEN Queued(i) ELSE records
     \/ /\ i \in Background /\ Fault("store") /\ turn' = [turn EXCEPT ![i].at = "unavailable"]
        /\ records' \in {records, Queued(i)}
  /\ UNCHANGED <<logs, writer, lineage, gone, spoiled>>

-----------------------------------------------------------------------------
(* Storing the turn.                                                         *)

Goes(i, w, step) == writer' = [writer EXCEPT ![i][w] = step]

\* write_async writes; write_terminal_if_not_terminal reads the record first.
Begins(i, w) ==
  /\ turn[i].at = "answer" /\ writer[i][w] = "idle"
  /\ Goes(i, w, IF i \in Background /\ (records[i] = None \/ Stored(i)) THEN "done" ELSE "append")
  /\ UNCHANGED <<turn, storeVars>>

\* A read of the record, or of the entry in the way, raises.
WriterFails(i, w) ==
  /\ Fault("store") /\ turn[i].at = "answer" /\ Goes(i, w, "done")
  /\ writer[i][w] = "taken" \/ (i \in Background /\ writer[i][w] = "idle")
  /\ UNCHANGED <<turn, records, logs, lineage, gone, spoiled>>

\* The last position of a log.
Top(log) == IF log = <<>> THEN 0 ELSE log[Len(log)].at

\* Mutant: the record is not looked at again.
mut_Accepts(i, log, depth) == Top(logs[log]) < depth

\* append_and_set, if_exists for a background response.
Accepts(i, log, depth) ==
  Top(logs[log]) < depth /\ (i \in Background => records[i] # None)

Write(i, w, log, depth, base) ==
  /\ logs' = [logs EXCEPT ![log] = Append(@, [at |-> depth, id |-> i, by |-> w, base |-> base])]
  /\ records' = [records EXCEPT ![i] = [status |-> w, log |-> log, depth |-> depth]]

\* It is done or refused; or the store fails and it raises, having written or not; or only its reply is
\* lost, and Redis, asked again, refuses it for what it wrote itself (StateStores).
AppendAndSet(i, w, log, depth, base, refused) ==
  /\ \/ /\ NoFault /\ Accepts(i, log, depth) /\ Write(i, w, log, depth, base)
        /\ Goes(i, w, "done")
     \/ /\ NoFault /\ ~Accepts(i, log, depth) /\ UNCHANGED <<logs, records>>
        /\ Goes(i, w, refused)
     \/ /\ Fault("store") /\ Goes(i, w, "done") /\ UNCHANGED <<logs, records>>
     \/ /\ Fault("store") /\ Accepts(i, log, depth) /\ Write(i, w, log, depth, base)
        /\ Goes(i, w, "done") \/ Goes(i, w, refused)
  /\ UNCHANGED <<turn, lineage, gone, spoiled>>

Depth(i) == IF turn[i].parent = None THEN 1 ELSE turn[i].parent.depth + 1

\* _store_turn: a first turn starts its log, a later one follows its parent.
Appends(i, w) ==
  /\ writer[i][w] = "append"
  /\ IF turn[i].parent = None
     THEN AppendAndSet(i, w, i, Depth(i), None, "done")
     ELSE AppendAndSet(i, w, turn[i].parent.log, Depth(i), None, "taken")

Own(i) ==
  LET log == logs[turn[i].parent.log] IN \E k \in 1..Len(log) : log[k].at = Depth(i) /\ log[k].id = i

ReadsTaken(i, w) ==
  /\ writer[i][w] = "taken" /\ Goes(i, w, IF Own(i) THEN "done" ELSE "fork")
  /\ UNCHANGED <<turn, storeVars>>

\* Mutant: the fork does not say where it starts.
mut_Base(i) == None

Base(i) == turn[i].parent

Forks(i, w) ==
  writer[i][w] = "fork" /\ AppendAndSet(i, w, i, Depth(i), Base(i), "done")

-----------------------------------------------------------------------------
\* DELETE drops the record alone; load_record found it, perhaps a while ago.
Deletes(i) ==
  /\ records[i] # None /\ records' = [records EXCEPT ![i] = None] /\ gone' = gone \cup {i}
  /\ UNCHANGED <<logs, turn, writer, lineage, spoiled, faults>>

\* A TTL is hours and a write seconds: no log expires under a writer.
Expires(i) ==
  /\ Fault("expire")
  /\ \/ /\ records[i] # None /\ records' = [records EXCEPT ![i] = None] /\ gone' = gone \cup {i}
        /\ UNCHANGED <<logs, spoiled>>
     \/ /\ \A j \in Ids : \A w \in Writers(j) : writer[j][w] \in {"idle", "done"}
        /\ logs[i] # <<>> /\ logs' = [logs EXCEPT ![i] = <<>>] /\ spoiled' = TRUE
        /\ UNCHANGED <<records, gone>>
  /\ UNCHANGED <<turn, writer, lineage>>

Next ==
  \E i \in Ids :
    \/ \E p \in 1..(i - 1) \cup {None} : Starts(i, p)
    \/ ReadsRecord(i) \/ ReadsSegment(i) \/ ReadFails(i) \/ Answers(i)
    \/ Deletes(i) \/ Expires(i)
    \/ \E w \in Writers(i) :
         Begins(i, w) \/ WriterFails(i, w) \/ Appends(i, w) \/ ReadsTaken(i, w) \/ Forks(i, w)

Spec == Init /\ [][Next]_vars

-----------------------------------------------------------------------------
\* A turn is in one log once, where its record says, however many writers, retries and
\* failed writes it took; GET shows the output its status goes with.
OneEntryPerTurn ==
  /\ \A i, j \in Ids : \A k \in 1..Len(logs[i]), l \in 1..Len(logs[j]) :
       logs[i][k].id = logs[j][l].id => i = j /\ k = l
  /\ \A i \in Ids : Stored(i) =>
       LET log == logs[records[i].log] IN
       \E k \in 1..Len(log) :
         log[k].at = records[i].depth /\ log[k].id = i /\ log[k].by = records[i].status

(* A model is given exactly the turns that the response it continues built    *)
(* on, in order, through forks, deletions of turns in between and expired     *)
(* logs: a history is whole or the request is refused (_entries).  And until  *)
(* a log expires every turn is in one log once, where its record says         *)
(* (_store_turn).                                                             *)
HistoryIsLineage ==
  /\ \A i \in Ids :
       turn[i].at \in {"resolved", "answer"} => turn[i].history \o <<i>> = lineage[i]
  /\ ~spoiled => OneEntryPerTurn

(* Only what was deleted or has expired is refused: a conversation survives   *)
(* the deletion of earlier turns and any number of branches                   *)
(* (docs/production-readiness.md:26).                                         *)
RefusesOnlyLost ==
  [][\A i \in Ids : turn[i].at = "entries" /\ turn'[i].at = "refused" => spoiled]_vars

StatusOf ==
  [i \in Ids |-> IF records[i] # None THEN records[i].status
                 ELSE IF i \in gone THEN "gone" ELSE "absent"]

Promise == INSTANCE TurnStore WITH status <- StatusOf

(* Completion, cancel and failure race to settle a background response, each  *)
(* with a read and up to two writes: the first one stands, and a deleted      *)
(* response stays deleted.                                                    *)
SettledOnce == Promise!Spec
=============================================================================
