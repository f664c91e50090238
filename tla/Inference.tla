----------------------------- MODULE Inference -----------------------------
(***************************************************************************)
(* The requests of one model replica (infer/base_infer.py).  A loader's      *)
(* requests either run in an asynchronous engine and are guarded by          *)
(* run_cancellable and run_cancellable_stream, which race the work with the  *)
(* client's disconnect (vllm, llama_server), or block a thread of the pool   *)
(* (whisper.cpp and the image loaders, one at a time under the _exclusive    *)
(* lock; sherpa-onnx, any number) and end early only when Serve cancels them.*)
(*                                                                           *)
(* A disconnect reaches a guarded request through the DisconnectRegistry     *)
(* actor, which one pump per replica polls for all its requests              *)
(* (infer/infer_config.py).  What runs between two awaits is one action.     *)
(***************************************************************************)
EXTENDS Naturals, Sequences, FiniteSets

CONSTANTS
  Requests,
  Streams,    \* the requests that stream
  Watchable,  \* those with a registry and an id: of web sockets and background responses
  None,       \* no request
  MaxItems,   \* how many items a stream may yield: max_tokens
  MaxFaults

ASSUME InferenceAssumption ==
  /\ Streams \subseteq Requests /\ Watchable \subseteq Requests /\ None \notin Requests
  /\ MaxItems \in Nat \ {0} /\ MaxFaults \in Nat

VARIABLES
  loader,     \* what the replica's requests run in
  phase,      \* where each request's handler is
  work,       \* the work it guards or awaits
  thread,     \* its thread in the pool
  stop,       \* the requests whose stop event is set
  items,      \* how many items its stream has yielded
  holder,     \* who holds _exclusive
  waiting,    \* who waits for it, first come first served
  watched,    \* _watched
  fired,      \* the requests whose local event is set
  pump,       \* _pump_task
  asked,      \* the ids in the pump's call to the registry
  registry,   \* the ids set in the DisconnectRegistry
  handle,     \* this process's handle to it
  gone,       \* the requests whose client has gone
  faults      \* faults so far

lockVars == <<holder, waiting>>
pumpVars == <<watched, fired, pump, asked>>
clientVars == <<registry, handle, gone, faults>>
inferenceVars == <<loader, phase, work, thread, stop, items, lockVars, pumpVars, clientVars>>

Loaders == {"engine", "exclusive", "shared"}
\* Awaiting the work, suspended at a yield, unwinding after a disconnect or a cancel.
Active == {"running", "yielded", "aborting", "cancelling"}
Over == {"answered", "aborted", "cancelled", "lost"}

Fault == faults' = faults + 1 /\ faults < MaxFaults
NoFault == UNCHANGED faults

InferenceInit ==
  /\ loader \in Loaders
  /\ phase = [r \in Requests |-> "queued"] /\ work = [r \in Requests |-> "none"]
  /\ thread = [r \in Requests |-> "none"] /\ stop = {} /\ items = [r \in Requests |-> 0]
  /\ holder = None /\ waiting = <<>>
  /\ watched = {} /\ fired = {} /\ pump = "none" /\ asked = {}
  /\ registry = {} /\ handle = "fresh" /\ gone = {} /\ faults = 0

Moves(r, from, to) == phase[r] \in from /\ phase' = [phase EXCEPT ![r] = to]
Works(r, to) == work' = [work EXCEPT ![r] = to]
\* What a request that is over no longer needs.
Forget(r) == items' = [items EXCEPT ![r] = 0] /\ stop' = stop \ {r}

-----------------------------------------------------------------------------
(* The watch set and its pump.                                               *)

\* _watch_disconnect: the first watched request starts the pump, which polls at once.
Watch(r) ==
  IF r \in Watchable
  THEN /\ watched' = watched \cup {r}
       /\ IF pump = "none" THEN pump' = "calling" /\ asked' = watched' ELSE UNCHANGED <<pump, asked>>
       /\ UNCHANGED fired
  ELSE UNCHANGED pumpVars

\* _unwatch_disconnect: the last one cancels it.
Unwatch(r) ==
  /\ watched' = watched \ {r} /\ fired' = fired \ {r}
  /\ IF r \in Watchable /\ watched' = {} THEN pump' = "none" /\ asked' = {}
     ELSE UNCHANGED <<pump, asked>>

OnlyPump == UNCHANGED <<loader, phase, work, thread, stop, items, lockVars, registry, gone>>

\* is_set_many answers; an id no longer watched is passed over.
PumpHears ==
  /\ pump = "calling" /\ handle = "fresh" /\ pump' = "sleeping"
  /\ fired' = fired \cup (asked \cap registry \cap watched)
  /\ NoFault /\ UNCHANGED <<watched, asked, handle>> /\ OnlyPump

\* The call raises, for a dead actor always: nobody is disconnected, and the actor is looked up anew.
PollFails ==
  /\ pump = "calling" /\ pump' = "sleeping" /\ handle' = "fresh"
  /\ IF handle = "stale" THEN NoFault ELSE Fault
  /\ UNCHANGED <<watched, fired, asked>> /\ OnlyPump

PumpWakes ==
  /\ pump = "sleeping" /\ pump' = "calling" /\ asked' = watched
  /\ NoFault /\ UNCHANGED <<watched, fired, handle>> /\ OnlyPump

-----------------------------------------------------------------------------
(* Clients, Serve and the registry.                                          *)

OnlyClient == UNCHANGED <<loader, phase, work, thread, stop, items, lockVars, pumpVars>>

\* The client leaves.  The gateway signals a watchable request's registry, which may be down.
Leaves(r) ==
  /\ r \notin gone /\ phase[r] \notin Over /\ gone' = gone \cup {r}
  /\ \/ registry' = registry \cup (Watchable \cap {r}) /\ NoFault
     \/ r \in Watchable /\ UNCHANGED registry /\ Fault
  /\ UNCHANGED handle /\ OnlyClient

\* A signal outlives 300 seconds of polls, but not a wait in Serve's queue.
Expires(r) ==
  /\ r \in registry /\ phase[r] = "queued" /\ registry' = registry \ {r}
  /\ NoFault /\ UNCHANGED <<handle, gone>> /\ OnlyClient

\* The actor dies with its ids; the handle may or may not reach the restarted one.
RegistryDies ==
  /\ Fault /\ registry' = {} /\ handle' \in {"fresh", "stale"}
  /\ UNCHANGED gone /\ OnlyClient

-----------------------------------------------------------------------------
(* A request's handler.                                                      *)

OnlyHandler == NoFault /\ UNCHANGED <<loader, registry, handle, gone>>

\* run_blocking before its first await: the lock is taken when it is free and nobody waits.
Blocks(r) ==
  IF loader = "exclusive" /\ (holder # None \/ waiting # <<>>)
  THEN Works(r, "waiting") /\ waiting' = Append(waiting, r) /\ UNCHANGED <<holder, thread>>
  ELSE /\ Works(r, "running") /\ thread' = [thread EXCEPT ![r] = "running"]
       /\ holder' = (IF loader = "exclusive" THEN r ELSE holder) /\ UNCHANGED waiting

\* create_chat_completion and its like, up to the await of the work.
Begins(r) ==
  /\ Moves(r, {"queued"}, "running")
  /\ IF loader = "engine"
     THEN Watch(r) /\ Works(r, "running") /\ UNCHANGED <<thread, lockVars>>
     ELSE Blocks(r) /\ UNCHANGED pumpVars
  /\ UNCHANGED <<stop, items>> /\ OnlyHandler

\* The first waiter takes the released lock and starts its thread.
Acquires(r) ==
  /\ holder = None /\ waiting # <<>> /\ Head(waiting) = r /\ work[r] = "waiting"
  /\ holder' = r /\ waiting' = Tail(waiting)
  /\ Works(r, "running") /\ thread' = [thread EXCEPT ![r] = "running"]
  /\ UNCHANGED <<phase, stop, items, pumpVars>> /\ OnlyHandler

\* A verbose transcription blocks a second time, to detect the language.
BlocksAgain(r) ==
  /\ loader = "exclusive" /\ r \notin Streams /\ phase[r] = "running" /\ work[r] = "over"
  /\ items[r] = 0 /\ items' = [items EXCEPT ![r] = 1] /\ Blocks(r)
  /\ UNCHANGED <<phase, stop, pumpVars>> /\ OnlyHandler

\* Mutant: the callback of a stopped thread does not release the lock.
mut_ThreadEnds(r) ==
  /\ thread[r] = "running" /\ thread' = [thread EXCEPT ![r] = "over"]
  /\ holder' = (IF loader = "exclusive" /\ r \notin stop THEN None ELSE holder)
  /\ IF work[r] = "running" THEN Works(r, "over") ELSE UNCHANGED work
  /\ stop' = stop \ {r} /\ UNCHANGED <<phase, items, waiting, pumpVars>> /\ OnlyHandler

\* A native call returns, whether or not anyone still awaits it: its callback releases the lock.
ThreadEnds(r) ==
  /\ thread[r] = "running" /\ thread' = [thread EXCEPT ![r] = "over"]
  /\ holder' = (IF loader = "exclusive" THEN None ELSE holder)
  /\ IF work[r] = "running" THEN Works(r, "over") ELSE UNCHANGED work
  /\ stop' = stop \ {r} /\ UNCHANGED <<phase, items, waiting, pumpVars>> /\ OnlyHandler

\* The engine's result, error or end of stream.
WorkReturns(r) ==
  /\ loader = "engine" /\ work[r] = "running" /\ phase[r] = "running" /\ Works(r, "over")
  /\ UNCHANGED <<phase, thread, stop, items, lockVars, pumpVars>> /\ OnlyHandler

\* The stream yields an item; a thread's items may outlast it in the queue.
Yields(r) ==
  /\ r \in Streams /\ items[r] < MaxItems
  /\ work[r] = "running" \/ (thread[r] = "over" /\ work[r] = "over")
  /\ Moves(r, {"running"}, "yielded") /\ items' = [items EXCEPT ![r] = @ + 1]
  /\ UNCHANGED <<work, thread, stop, lockVars, pumpVars>> /\ OnlyHandler

\* Serve asks for the next item.
Pulls(r) ==
  /\ Moves(r, {"yielded"}, "running")
  /\ UNCHANGED <<work, thread, stop, items, lockVars, pumpVars>> /\ OnlyHandler

\* The work is done: it is preferred to a disconnect seen at the same time.
Answers(r) ==
  /\ work[r] = "over" /\ Moves(r, {"running"}, "answered")
  /\ Unwatch(r) /\ Forget(r)
  /\ UNCHANGED <<work, thread, lockVars>> /\ OnlyHandler

\* The local event fires first: the work is cancelled.
SeesDisconnect(r) ==
  /\ r \in fired /\ work[r] = "running" /\ Moves(r, {"running"}, "aborting")
  /\ Works(r, "cancelling")
  /\ UNCHANGED <<thread, stop, items, lockVars, pumpVars>> /\ OnlyHandler

-----------------------------------------------------------------------------
(* Cancels.                                                                  *)

\* run_blocking is cancelled: it leaves the lock's queue, or tells its thread to stop.
StopThread(r) ==
  /\ waiting' = SelectSeq(waiting, LAMBDA q : q # r)
  /\ stop' = (IF thread[r] = "none" THEN stop ELSE stop \cup {r})
  /\ UNCHANGED <<thread, holder>>

\* Mutant: a cancelled run_cancellable leaves its task running.
mut_CancelEngine(r) ==
  /\ loader = "engine" /\ Moves(r, {"running", "yielded"}, "cancelled")
  /\ UNCHANGED work
  /\ Unwatch(r)
  /\ UNCHANGED <<thread, stop, lockVars>>

\* Serve cancels a request whose client has gone.  A guarded one cancels its work and awaits it; a
\* stream unwatches first.  A cancel at an await of the work that is cancelled already waits for it and
\* is swallowed there; only a stream that is closing its work leaves its disconnect for it.
CancelEngine(r) ==
  /\ loader = "engine"
  /\ Moves(r, {"running", "yielded"} \cup IF r \in Streams THEN {"aborting"} ELSE {}, "cancelling")
  /\ IF work[r] = "over" THEN UNCHANGED work ELSE Works(r, "cancelling")
  /\ IF r \in Streams THEN Unwatch(r) ELSE UNCHANGED pumpVars
  /\ UNCHANGED <<thread, stop, lockVars>>

\* A blocked call ends at once; a stream cancels its worker and does not await it.
CancelBlocked(r) ==
  /\ loader # "engine" /\ Moves(r, {"running", "yielded"}, "cancelled")
  /\ IF r \in Streams /\ work[r] # "over"
     THEN Works(r, "cancelling") /\ UNCHANGED <<thread, stop, lockVars>>
     ELSE Works(r, "over") /\ StopThread(r)
  /\ UNCHANGED pumpVars

Cancelled(r) ==
  /\ r \in gone
  /\ CancelEngine(r) \/ CancelBlocked(r)
  /\ UNCHANGED items /\ OnlyHandler

\* The cancelled work unwinds.
Unwinds(r) ==
  /\ work[r] = "cancelling" /\ Works(r, "over")
  /\ IF loader = "engine" THEN UNCHANGED <<thread, stop, lockVars>> ELSE StopThread(r)
  /\ UNCHANGED <<phase, items, pumpVars>> /\ OnlyHandler

\* The finally blocks end the handler.
Ends(r) ==
  /\ work[r] = "over"
  /\ Moves(r, {"aborting"}, "aborted") \/ Moves(r, {"cancelling"}, "cancelled")
  /\ Unwatch(r) /\ Forget(r)
  /\ UNCHANGED <<work, thread, lockVars>> /\ OnlyHandler

Handles(r) ==
  \/ Begins(r) \/ BlocksAgain(r) \/ Acquires(r) \/ ThreadEnds(r) \/ WorkReturns(r) \/ Yields(r) \/ Pulls(r)
  \/ Answers(r) \/ SeesDisconnect(r) \/ Cancelled(r) \/ Unwinds(r) \/ Ends(r)

Around == PumpHears \/ PollFails \/ PumpWakes \/ RegistryDies
          \/ \E r \in Requests : Leaves(r) \/ Expires(r)

InferenceNext == Around \/ \E r \in Requests : Handles(r)
InferenceSpec == InferenceInit /\ [][InferenceNext]_inferenceVars

-----------------------------------------------------------------------------
(* Properties.                                                               *)

InferenceTypeOK ==
  /\ loader \in Loaders /\ phase \in [Requests -> {"queued"} \cup Active \cup Over]
  /\ work \in [Requests -> {"none", "waiting", "running", "cancelling", "over"}]
  /\ thread \in [Requests -> {"none", "running", "over"}] /\ stop \subseteq Requests
  /\ items \in [Requests -> 0..MaxItems] /\ holder \in Requests \cup {None}
  /\ waiting \in Seq(Requests) /\ watched \subseteq Watchable /\ fired \subseteq watched
  /\ pump \in {"none", "calling", "sleeping"} /\ asked \subseteq Watchable
  /\ registry \subseteq Watchable /\ handle \in {"fresh", "stale"}
  /\ gone \subseteq Requests /\ faults \in 0..MaxFaults

(* Whichever way a handler ends, it leaves no work behind that nobody awaits  *)
(* and nobody has told to stop (the finally blocks of run_cancellable,        *)
(* run_cancellable_stream and stream_blocking).  And a cancelled request's    *)
(* thread may run on, but no other starts before it returns: the engines      *)
(* behind _exclusive are not thread-safe (run_blocking's lock, released by    *)
(* the thread's callback only).                                               *)
NoOrphanWork ==
  /\ \A r \in Requests : phase[r] \in Over =>
       /\ work[r] \in {"over", "cancelling"} /\ (loader = "engine" => work[r] = "over")
       /\ thread[r] = "running" => r \in stop \/ work[r] = "cancelling"
  /\ loader = "exclusive" => Cardinality({r \in Requests : thread[r] = "running"}) <= 1

\* A running request whose disconnect the registry knows of.
Abandoned(r) == r \in registry /\ r \in watched

(* A running request whose disconnect the registry knows of ends, though its  *)
(* engine never answers and polls of the registry fail (_run_pump); and a     *)
(* request that waits for the exclusive engine gets it or ends, although      *)
(* cancelled requests before it keep their threads (run_blocking).            *)
RequestsSettle ==
  \A r \in Requests : []<>(~Abandoned(r) /\ work[r] # "waiting")
=============================================================================
