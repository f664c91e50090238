------------------------- MODULE BackgroundResponse -------------------------
(***************************************************************************)
(* One background response: the detached task that drains its event stream   *)
(* (openai/utils/responses.py run_background), its heartbeats and their      *)
(* registry (openai/state/responses.py), the buffer of events it keeps for   *)
(* replay, the clients that tail it, and cancel and delete.                  *)
(*                                                                           *)
(* A conditional terminal write is one step, first come first served, which  *)
(* is what TurnStore promises of ResponseLog.  Every other store or actor    *)
(* call is one step too.  Time is counted in heartbeat intervals.  Event n   *)
(* of the stream has sequence number n; a terminal one is told by its end.   *)
(***************************************************************************)
EXTENDS Naturals, Sequences, SequencesExt

CONSTANTS
  Tailers,     \* connections that follow the response
  MaxEvents,   \* events a stream may have before its terminal one
  StaleTicks,  \* stale_seconds in heartbeat intervals
  Faults,      \* the kinds of fault a behaviour may have
  MaxFaults    \* how many faults a behaviour may have

FaultKinds ==
  {"gateway",     \* the gateway process that runs the response dies
   "first_beat",  \* the heartbeat of start_background fails
   "beat",        \* a heartbeat of the loop fails
   "registry",    \* the heartbeat registry restarts
   "signal",      \* a call to the disconnect registry fails
   "write",       \* a write of the record, or a discard, raises and does not happen
   "append",      \* an event cannot be buffered
   "read"}        \* a tailer's read raises

ASSUME BackgroundAssumption ==
  /\ MaxEvents \in Nat /\ StaleTicks \in Nat \ {0, 1}
  /\ Faults \subseteq FaultKinds /\ MaxFaults \in Nat

VARIABLES
  status,    \* the record's status
  run,       \* where run_background is
  next,      \* the sequence number of the next event
  pending,   \* events whose append is chained
  buffer,    \* the log of events under responses-stream/
  beat,      \* ticks until the heartbeat entry expires, 0 when there is none
  youth,     \* ticks until the registry is as old as its TTL
  due,       \* ticks until the heartbeat loop wakes up
  signal,    \* the disconnect registry has the run's req_id
  handler,   \* the cancel or the delete of the response: which it is and where
  tail,      \* each tailer: where it is, the cursor it came with, the next one, its events
  (* history *)
  seeded,    \* the heartbeat of start_background has reached the registry
  gap,       \* an event was not buffered, or the buffer was dropped under the run
  faults     \* faults so far

vars == <<status, run, next, pending, buffer, beat, youth, due, signal, handler, tail, seeded,
          gap, faults>>
registryVars == <<beat, youth, due, signal, seeded>>

Fault(kind) == kind \in Faults /\ faults < MaxFaults /\ faults' = faults + 1
NoFault == UNCHANGED faults

Ops == {"cancel", "delete"}

Live == run \in {"drain", "flush"}
Event(n, end) == [n |-> n, end |-> end]

\* write_terminal_if_not_terminal.
Settled(s) == IF status = "queued" THEN s ELSE status

Init ==
  /\ status = "absent" /\ run = "new" /\ next = 0 /\ pending = <<>> /\ buffer = <<>>
  /\ beat = 0 /\ youth = 0 /\ due = 0 /\ signal = FALSE
  /\ handler \in [op : Ops, at : {"idle"}]
  /\ tail = [t \in Tailers |-> [at |-> "new", from |-> 0, after |-> 0, got |-> <<>>]]
  /\ seeded = FALSE /\ gap = FALSE /\ faults = 0

-----------------------------------------------------------------------------
(* The run.                                                                  *)

onlyRun == <<beat, youth, signal, seeded, handler, tail>>

\* start_background: the placeholder.
Places ==
  /\ run = "new" /\ NoFault /\ status' = "queued" /\ run' = "placed"
  /\ UNCHANGED <<next, pending, buffer, due, gap, onlyRun>>

\* Its heartbeat; then the task is started and the client is told the id.
StartsRun ==
  /\ run = "placed" /\ run' = "drain" /\ due' = 1
  /\ \/ NoFault /\ beat' = StaleTicks /\ seeded' = TRUE
     \/ Fault("first_beat") /\ UNCHANGED <<beat, seeded>>
  /\ UNCHANGED <<status, next, pending, buffer, youth, signal, gap, handler, tail>>

\* An event passes persist_response and buffer_stream_events.
Emits ==
  /\ run = "drain" /\ NoFault /\ next < MaxEvents
  /\ next' = next + 1 /\ pending' = Append(pending, Event(next, "none"))
  /\ UNCHANGED <<status, run, buffer, due, gap, onlyRun>>

\* The terminal event: stored first, or turned into a failure (store_failure_event).
Completes ==
  /\ run = "drain" /\ next > 0
  /\ \/ NoFault /\ status' = Settled("completed")
        /\ pending' = Append(pending, Event(next, "completed"))
     \/ Fault("write") /\ UNCHANGED status /\ pending' = Append(pending, Event(next, "failed"))
  /\ next' = next + 1 /\ run' = "flush"
  /\ UNCHANGED <<buffer, due, gap, onlyRun>>

\* A response.failed event is not persisted as it passes.
StreamFails ==
  /\ run = "drain" /\ NoFault /\ pending' = Append(pending, Event(next, "failed"))
  /\ next' = next + 1 /\ run' = "flush"
  /\ UNCHANGED <<status, buffer, due, gap, onlyRun>>

\* Dispatch fails, the stream raises, or it ends without a terminal event.
StreamBreaks ==
  /\ run = "drain" /\ NoFault /\ run' = "failing"
  /\ UNCHANGED <<status, next, pending, buffer, due, gap, onlyRun>>

Buffered(e) == IF buffer = <<>> \/ Last(buffer).n < e.n THEN Append(buffer, e) ELSE buffer

\* Mutant: the appends are not chained, and the last one may come first.
mut_Buffers ==
  /\ pending # <<>> /\ NoFault /\ UNCHANGED gap
  /\ pending' = Front(pending) /\ buffer' = Buffered(Last(pending))
  /\ UNCHANGED <<status, run, next, due, onlyRun>>

\* _chained_append; the store takes only what comes after the last position.
Buffers ==
  /\ pending # <<>> /\ pending' = Tail(pending)
  /\ \/ NoFault /\ UNCHANGED gap /\ buffer' = Buffered(Head(pending))
     \/ Fault("append") /\ UNCHANGED buffer /\ gap' = TRUE
  /\ UNCHANGED <<status, run, next, due, onlyRun>>

\* discard_stream_buffer, whose callers go on when it fails.
DropsBuffer ==
  \/ NoFault /\ buffer' = <<>>
  \/ Fault("write") /\ UNCHANGED buffer

\* flush_and_discard of the terminal event; the drain ends with what it saw.
Flushes ==
  /\ run = "flush" /\ pending = <<>> /\ DropsBuffer /\ run' = "failing"
  /\ UNCHANGED <<status, next, pending, due, gap, onlyRun>>

\* _write_failed, or the failed response itself; nothing to write after a completion.
WritesFailed ==
  /\ run = "failing" /\ run' = "cleanup"
  /\ \/ NoFault /\ status' = Settled("failed")
     \/ Fault("write") /\ UNCHANGED status
  /\ UNCHANGED <<next, pending, buffer, due, gap, onlyRun>>

\* The finally of run_background.
CleansUp ==
  /\ run = "cleanup" /\ pending = <<>> /\ DropsBuffer /\ run' = "over"
  /\ UNCHANGED <<status, next, pending, due, gap, onlyRun>>

Dies ==
  /\ Fault("gateway") /\ run \in {"drain", "flush", "failing", "cleanup"}
  /\ run' = "dead" /\ pending' = <<>>
  /\ UNCHANGED <<status, next, buffer, due, gap, onlyRun>>

-----------------------------------------------------------------------------
(* Heartbeats.                                                               *)

\* Mutant: the loop only refreshes.
mut_SeesSignal == FALSE

SeesSignal == signal

\* The run stops without a write.  Cancelled in the flush, the appends still
\* chained are cancelled with it and the cleanup is cut short.
Stops ==
  IF run = "flush" /\ pending # <<>> THEN run' = "over" /\ pending' = <<>>
  ELSE run' = "cleanup" /\ UNCHANGED pending

\* One round of _heartbeat_loop.
Beats ==
  /\ Live /\ due = 0
  /\ \/ NoFault /\ beat' = StaleTicks
     \/ Fault("beat") /\ UNCHANGED beat
  /\ \/ SeesSignal /\ Stops /\ UNCHANGED due
     \/ ~SeesSignal /\ due' = 1 /\ UNCHANGED <<run, pending>>
  /\ UNCHANGED <<status, next, buffer, youth, signal, handler, tail, seeded, gap>>

\* A round whose look at the disconnect registry fails.
BeatsBlindly ==
  /\ Live /\ due = 0 /\ signal /\ Fault("signal")
  /\ beat' = StaleTicks /\ due' = 1
  /\ UNCHANGED <<status, run, next, pending, buffer, youth, signal, handler, tail, seeded, gap>>

Less(n) == IF n = 0 THEN 0 ELSE n - 1

\* Mutant: an entry does not expire.
mut_Tick ==
  /\ NoFault /\ ~(Live /\ due = 0) /\ youth + due > 0
  /\ youth' = Less(youth) /\ due' = Less(due)
  /\ UNCHANGED <<status, run, next, pending, buffer, beat, signal, handler, tail, seeded, gap>>

\* The loop of a live process wakes up in time.
Tick ==
  /\ NoFault /\ ~(Live /\ due = 0) /\ beat + youth + due > 0
  /\ beat' = Less(beat) /\ youth' = Less(youth) /\ due' = Less(due)
  /\ UNCHANGED <<status, run, next, pending, buffer, signal, handler, tail, seeded, gap>>

RegistryRestarts ==
  /\ Fault("registry") /\ beat' = 0 /\ youth' = StaleTicks
  /\ UNCHANGED <<status, run, next, pending, buffer, due, signal, handler, tail, seeded, gap>>

\* Mutant: a registry that has just restarted knows of no run.
mut_IsAlive == beat > 0

IsAlive == beat > 0 \/ youth > 0

-----------------------------------------------------------------------------
(* Cancel and delete.                                                        *)

GoesOn(step) == handler' = [handler EXCEPT !.at = step]
onlyHandler == <<run, next, pending, beat, youth, due, tail, seeded>>

\* load_record: only a run that is not settled is cancelled.
LooksUp ==
  /\ handler.at = "idle" /\ NoFault /\ run \notin {"new", "placed"} /\ status # "gone"
  /\ GoesOn(IF status = "queued" THEN "find" ELSE IF handler.op = "delete" THEN "write" ELSE "over")
  /\ UNCHANGED <<status, buffer, signal, gap, onlyHandler>>

\* req_id_for: a run without a heartbeat, or one that cannot be looked up, has no signal.
Finds ==
  /\ handler.at = "find"
  /\ \/ NoFault /\ GoesOn(IF beat > 0 THEN "signal" ELSE "write")
     \/ Fault("signal") /\ GoesOn("write")
  /\ UNCHANGED <<status, buffer, signal, gap, onlyHandler>>

Signals ==
  /\ handler.at = "signal" /\ GoesOn("write")
  /\ \/ NoFault /\ signal' = TRUE
     \/ Fault("signal") /\ UNCHANGED signal
  /\ UNCHANGED <<status, buffer, gap, onlyHandler>>

Writes ==
  /\ handler.at = "write"
  /\ \/ /\ NoFault /\ GoesOn("discard")
        /\ status' = IF handler.op = "delete" THEN "gone" ELSE Settled("cancelled")
     \/ Fault("write") /\ GoesOn("over") /\ UNCHANGED status
  /\ UNCHANGED <<buffer, signal, gap, onlyHandler>>

\* discard_stream_buffer; the run may append after it until it stops.
Discards ==
  /\ handler.at = "discard" /\ DropsBuffer /\ GoesOn("over") /\ gap' = TRUE
  /\ UNCHANGED <<status, signal, onlyHandler>>

-----------------------------------------------------------------------------
(* tail_background_events and reconcile_staleness.                           *)

Tails(t, step) == tail' = [tail EXCEPT ![t].at = step]
onlyTail == <<run, next, pending, registryVars, handler>>

\* create with stream, or GET with stream, fresh or from a cursor the client has seen.
Connects(t) ==
  /\ tail[t].at = "new" /\ NoFault /\ run \notin {"new", "placed"} /\ status # "gone"
  /\ \E n \in 0..next :
       tail' = [tail EXCEPT ![t].at = "read", ![t].from = n, ![t].after = n]
  /\ UNCHANGED <<status, buffer, gap, onlyTail>>

\* The events at and after the cursor (`after` is one more than the code's).
ReadsEvents(t) ==
  /\ tail[t].at = "read" /\ NoFault
  /\ \E k \in 0..Len(buffer) :
       /\ \A i \in DOMAIN buffer : i > k <=> buffer[i].n >= tail[t].after
       /\ LET new == SubSeq(buffer, k + 1, Len(buffer))
          IN IF new = <<>> THEN Tails(t, "record")
             ELSE tail' = [tail EXCEPT
                    ![t].got = @ \o new, ![t].after = Last(new).n + 1,
                    ![t].at = IF Last(new).end = "none" THEN "read" ELSE "ended"]
  /\ UNCHANGED <<status, buffer, gap, onlyTail>>

\* The opening event a fresh tail missed, then the terminal one; none for cancelled.
Synthesised(t) ==
  LET opening == IF tail[t].after = 0 THEN <<Event(0, "none")>> ELSE <<>>
      at == IF tail[t].after = 0 THEN 1 ELSE tail[t].after
  IN opening \o (IF status = "cancelled" THEN <<>> ELSE <<Event(at, status)>>)

Ends(t) ==
  tail' = [tail EXCEPT ![t].got = @ \o Synthesised(t), ![t].at = "ended"]

\* The record; a deleted response ends the tail quietly.
ReadsRecord(t) ==
  /\ tail[t].at = "record" /\ NoFault
  /\ CASE status = "gone" -> Tails(t, "ended")
       [] status = "queued" -> Tails(t, "alive")
       [] OTHER -> Ends(t)
  /\ UNCHANGED <<status, buffer, gap, onlyTail>>

\* is_alive, or a registry that does not answer; then sleep and poll again.
AsksAlive(t) ==
  /\ tail[t].at = "alive"
  /\ \/ NoFault /\ Tails(t, IF IsAlive THEN "read" ELSE "orphan")
     \/ Fault("read") /\ Tails(t, "read")
  /\ UNCHANGED <<status, buffer, gap, onlyTail>>

\* The run is given up: failed, unless something else was stored first.
Orphans(t) ==
  /\ tail[t].at = "orphan" /\ NoFault /\ Tails(t, "discard") /\ status' = Settled("failed")
  /\ UNCHANGED <<buffer, gap, onlyTail>>

\* Then the buffer goes and the record is read again.
Reconciles(t) ==
  /\ tail[t].at = "discard" /\ DropsBuffer /\ gap' = TRUE
  /\ IF status = "gone" THEN Tails(t, "read") ELSE Ends(t)
  /\ UNCHANGED <<status, onlyTail>>

\* A read or a write raises: the stream ends without a word.
TailFails(t) ==
  /\ Fault("read") /\ tail[t].at \in {"read", "record", "orphan", "discard"}
  /\ Tails(t, "ended")
  /\ UNCHANGED <<status, buffer, gap, onlyTail>>

-----------------------------------------------------------------------------
Run == Places \/ StartsRun \/ Flushes \/ WritesFailed \/ CleansUp
Heart == Beats \/ BeatsBlindly
Stream == Emits \/ Completes \/ StreamFails \/ StreamBreaks
Handler == LooksUp \/ Finds \/ Signals \/ Writes \/ Discards
Tailer(t) ==
  \/ ReadsEvents(t) \/ ReadsRecord(t) \/ AsksAlive(t) \/ Orphans(t) \/ Reconciles(t)

Next ==
  \/ Run \/ Stream \/ Buffers \/ Heart \/ Dies \/ Tick \/ RegistryRestarts \/ Handler
  \/ \E t \in Tailers : Connects(t) \/ Tailer(t) \/ TailFails(t)

Spec == Init /\ [][Next]_vars

(* The event loops run what is ready and time passes.  Nothing is assumed of *)
(* the model's stream: it may take for ever.                                 *)
Fairness ==
  /\ WF_vars(Run) /\ WF_vars(Buffers) /\ WF_vars(Heart) /\ WF_vars(Tick)
  /\ \A t \in Tailers : WF_vars(Tailer(t))

FairSpec == Spec /\ Fairness

-----------------------------------------------------------------------------
(* Staleness only settles a run that has stopped: not one whose registry was  *)
(* restarted, nor one that lost StaleTicks - 2 heartbeats; but for one whose  *)
(* first heartbeat, that of start_background, failed (reconcile_staleness).   *)
OrphansOnlyStopped ==
  [][\A t \in Tailers : Orphans(t) /\ status' # status => ~Live \/ ~seeded]_vars

Ended(t) == tail[t].at = "ended"

\* A tail that says how the response ended says what the record says, or will say once
\* the run has written it; but for a cancel that came first, and for a run given up before
\* its first heartbeat (persist_response).
EndsAsRecord(t) ==
  tail[t].got # <<>> =>
    /\ Last(tail[t].got).end = "completed" => status \in {"completed", "cancelled", "gone"} \/ ~seeded
    /\ Last(tail[t].got).end = "failed" => status \in {"failed", "queued", "cancelled", "gone"}

(* What a tail delivers is numbered from its cursor on without a gap or a     *)
(* repetition, the synthesised opening and terminal events included, as long  *)
(* as every event was buffered and nobody dropped the buffer under the run    *)
(* (_StreamBuffer, tail_background_events); and its end is the record's.      *)
TailsInOrder ==
  \A t \in Tailers :
    /\ ~gap => \A k \in DOMAIN tail[t].got : tail[t].got[k].n = tail[t].from + k - 1
    /\ EndsAsRecord(t)

(* A tail ends once the run no longer drains: the process may die, writes may *)
(* fail, the registry may restart, and it still ends (reconcile_staleness).   *)
EveryTailEnds == \A t \in Tailers : []<>(tail[t].at = "new" \/ Ended(t) \/ run = "drain")

(* A cancel or a delete that reached the disconnect registry stops the run,   *)
(* however long the model would go on (_heartbeat_loop).                      *)
SignalStopsRun == signal ~> run \in {"over", "dead"}
=============================================================================
