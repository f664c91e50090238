---------------------------- MODULE StateStores -----------------------------
(***************************************************************************)
(* The two backends of the state store, over one log and one record: the     *)
(* memory:// actor, whose calls run one at a time on a dict that forgets     *)
(* expired keys lazily (state/memory.py), and redis://, whose calls are one  *)
(* or several commands (state/redis.py) between which other callers' run.    *)
(* The client of redis (redis-py, external) resends a command whose          *)
(* connection failed, and raises WatchError for one inside a WATCH.          *)
(***************************************************************************)
EXTENDS Naturals, Sequences, FiniteSets

CONSTANTS Callers, Positions, NoOne, Idle, MaxCalls, MaxFaults

ASSUME StoreAssumption ==
  NoOne \notin Callers /\ Positions \subseteq Nat \ {0} /\ MaxCalls \in Nat /\ MaxFaults \in Nat

VARIABLES
  backend,  \* the URI's scheme
  dict,     \* what is stored: the log, the record, the keys with an expiry, the expired ones among them
  call,     \* each caller's call
  step,     \* how far it is
  intact,   \* redis: the callers for whom nothing they WATCH has changed
  answer,   \* its answer, from the moment that decides it
  calls,    \* calls so far
  faults,   \* faults so far
  cut       \* (* history *) an append failed, or was resent, between XADD and PEXPIRE

vars == <<backend, dict, call, step, intact, answer, calls, faults, cut>>

Keys == {"log", "rec"}
Empty == [log |-> <<>>, rec |-> NoOne, dated |-> {}, lapsed |-> {}]

\* What is left without some keys.
Without(d, K) ==
  [log |-> IF "log" \in K THEN <<>> ELSE d.log, rec |-> IF "rec" \in K THEN NoOne ELSE d.rec,
   dated |-> d.dated \ K, lapsed |-> d.lapsed \ K]

Store ==
  INSTANCE AtomicStore WITH log <- Without(dict, dict.lapsed).log, rec <- Without(dict, dict.lapsed).rec,
                            resends <- backend = "redis"
ASSUME IdleAssumption == Idle \notin Store!Ops

Top(l) == IF l = <<>> THEN 0 ELSE l[Len(l)].pos
Entry(op, c) == [pos |-> op.pos, by |-> c]
Present(d) == {k \in Keys : IF k = "log" THEN d.log # <<>> ELSE d.rec # NoOne}

Init ==
  /\ backend \in {"memory", "redis"} /\ dict = Empty
  /\ call = [c \in Callers |-> Idle] /\ step = [c \in Callers |-> "none"] /\ intact = {}
  /\ answer = [c \in Callers |-> NoOne] /\ calls = 0 /\ faults = 0 /\ cut = FALSE

Fault == faults < MaxFaults /\ faults' = faults + 1
NoFault == UNCHANGED faults
At(c, s) == step' = [step EXCEPT ![c] = s]
Answers(c, a) == answer' = [answer EXCEPT ![c] = a]
Does(c, do, s) == call[c] # Idle /\ call[c].do = do /\ step[c] = s

Calls(c) ==
  /\ call[c] = Idle /\ calls < MaxCalls /\ calls' = calls + 1
  /\ \E op \in Store!Ops : call' = [call EXCEPT ![c] = op]
  /\ At(c, "start") /\ NoFault /\ UNCHANGED <<backend, dict, intact, answer, cut>>

Over(c) ==
  call' = [call EXCEPT ![c] = Idle] /\ At(c, "none") /\ Answers(c, NoOne) /\ intact' = intact \ {c}

Returns(c) == step[c] = "done" /\ Over(c) /\ NoFault /\ UNCHANGED <<backend, dict, calls, cut>>

\* The actor fails, the caller is cancelled, or the connection fails for longer than its client resends:
\* the call raises, whatever it has done by then.
Fails(c) ==
  /\ call[c] # Idle /\ Over(c) /\ cut' = (cut \/ step[c] = "added")
  /\ Fault /\ UNCHANGED <<backend, dict, calls>>

-----------------------------------------------------------------------------
(* memory://: the actor's methods on its dict.                               *)

\* _live: an expired key is dropped when it is looked at.
live(d, key) == IF key \in d.lapsed THEN Without(d, {key}) ELSE d

\* A written key has a new expiry.
Dated(d, key) == [d EXCEPT !.dated = @ \cup {key}, !.lapsed = @ \ {key}]

appended(d, op, c) == Dated([live(d, "log") EXCEPT !.log = Append(@, Entry(op, c))], "log")
set(d, c) == Dated([d EXCEPT !.rec = c], "rec")

\* append's refusal, and append_and_set's.
refused(d, op) ==
  \/ Top(live(d, "log").log) >= op.pos
  \/ op.do = "append_and_set" /\ op.if_exists /\ live(d, "rec").rec = NoOne

\* expire dates a key that is there.
expire(d, key) == IF key \in Present(live(d, key)) THEN Dated(live(d, key), key) ELSE live(d, key)

\* The dict after a call, before any sweep.
After(d, op, c) ==
  CASE op.do = "append" -> IF refused(d, op) THEN live(d, "log") ELSE appended(d, op, c)
    [] op.do = "append_and_set" -> IF refused(d, op) THEN d ELSE set(appended(d, op, c), c)
    [] op.do = "set" -> set(d, c)
    [] op.do = "delete" -> Without(d, {op.key})
    [] op.do = "expire" -> expire(d, op.key)
    [] op.do = "get" -> live(d, "rec")
    [] op.do = "read_range" -> live(d, "log")

Writes(d, op) == op.do = "set" \/ (op.do \in {"append", "append_and_set"} /\ ~refused(d, op))

Answer(d, op) ==
  CASE op.do \in {"append", "append_and_set"} -> ~refused(d, op)
    [] op.do = "get" -> <<live(d, "rec").rec>>
    [] op.do = "read_range" -> live(d, "log").log
    [] OTHER -> TRUE

\* One call; after a write _maybe_sweep drops the expired keys, at most once per interval.
OnMemory(c) ==
  /\ backend = "memory" /\ step[c] = "start" /\ At(c, "done")
  /\ LET next == After(dict, call[c], c) IN
       dict' \in {next} \cup IF Writes(dict, call[c]) THEN {Without(next, next.lapsed)} ELSE {}
  /\ Answers(c, Answer(dict, call[c]))
  /\ NoFault /\ UNCHANGED <<backend, call, intact, calls, cut>>

\* An expiry passes; the key stays in the dict.
MemoryLapses(key) ==
  /\ backend = "memory" /\ key \in dict.dated \ dict.lapsed
  /\ dict' = [dict EXCEPT !.lapsed = @ \cup {key}]
  /\ NoFault /\ UNCHANGED <<backend, call, step, intact, answer, calls, cut>>

\* The actor dies and restarts empty.
MemoryDies ==
  /\ backend = "memory" /\ Fault /\ dict' = Empty
  /\ UNCHANGED <<backend, call, step, intact, answer, calls, cut>>

-----------------------------------------------------------------------------
(* redis://.  A command is one action; a write voids every WATCH on its key. *)

InRedis(c, do, s) == backend = "redis" /\ Does(c, do, s)
Touch == intact' = {}
RedisRest == NoFault /\ UNCHANGED <<backend, call, calls, cut>>

\* XADD refuses a position that is not past the last.
XAdd(c) ==
  /\ InRedis(c, "append", "start")
  /\ IF call[c].pos > Top(dict.log)
     THEN dict' = [dict EXCEPT !.log = Append(@, Entry(call[c], c))] /\ Answers(c, TRUE) /\ At(c, "added") /\ Touch
     ELSE Answers(c, FALSE) /\ At(c, "done") /\ UNCHANGED <<dict, intact>>
  /\ RedisRest

\* PEXPIRE; without a key it does nothing.
pexpire(d, key) == [d EXCEPT !.dated = @ \cup (Present(d) \cap {key})]
\* XRANGE, from the first entry to the last.
xrange(d) == d.log

\* Mutant: an append does not date its log.
mut_PExpire(c) ==
  InRedis(c, "append", "added") /\ At(c, "done") /\ UNCHANGED <<dict, answer, intact>> /\ RedisRest

\* PEXPIRE, a command of its own.
PExpire(c) ==
  /\ InRedis(c, "append", "added") /\ At(c, "done")
  /\ dict' = pexpire(dict, "log") /\ Touch
  /\ UNCHANGED answer /\ RedisRest

\* append_and_set: WATCH both keys, ...
Watches(c) ==
  /\ InRedis(c, "append_and_set", "start") /\ At(c, "watching") /\ intact' = intact \cup {c}
  /\ UNCHANGED <<dict, answer>> /\ RedisRest

\* ... EXISTS on the record, ...
Exists(c) ==
  /\ InRedis(c, "append_and_set", "watching")
  /\ IF call[c].if_exists /\ dict.rec = NoOne THEN Answers(c, FALSE) /\ At(c, "done")
     ELSE At(c, "exists") /\ UNCHANGED answer
  /\ UNCHANGED <<dict, intact>> /\ RedisRest

\* ... XREVRANGE for the last position, ...
ReadsTop(c) ==
  /\ InRedis(c, "append_and_set", "exists")
  /\ IF Top(dict.log) >= call[c].pos THEN Answers(c, FALSE) /\ At(c, "done")
     ELSE At(c, "queued") /\ UNCHANGED answer
  /\ UNCHANGED <<dict, intact>> /\ RedisRest

Committed(c) ==
  /\ dict' = [dict EXCEPT !.log = Append(@, Entry(call[c], c)), !.rec = c, !.dated = Keys]
  /\ Answers(c, TRUE) /\ At(c, "done") /\ Touch

\* Mutant: only the log is watched.
mut_Executes(c) ==
  /\ InRedis(c, "append_and_set", "queued")
  /\ IF c \notin intact /\ call[c].pos <= Top(dict.log)
     THEN At(c, "start") /\ UNCHANGED <<dict, answer, intact>> ELSE Committed(c)
  /\ RedisRest

\* ... and EXEC of XADD, PEXPIRE and SET, or all over again.
Executes(c) ==
  /\ InRedis(c, "append_and_set", "queued")
  /\ IF c \notin intact THEN At(c, "start") /\ UNCHANGED <<dict, answer, intact>> ELSE Committed(c)
  /\ RedisRest

\* The calls of one command.
RedisOne(c) ==
  LET op == call[c] IN
  /\ backend = "redis" /\ step[c] = "start" /\ op.do \in {"set", "delete", "expire", "get", "read_range"}
  /\ dict' = CASE op.do = "set" -> [dict EXCEPT !.rec = c, !.dated = @ \cup {"rec"}]
                [] op.do = "delete" -> Without(dict, {op.key})
                [] op.do = "expire" -> pexpire(dict, op.key)
                [] OTHER -> dict
  /\ IF op.do \in {"get", "read_range"} THEN UNCHANGED intact ELSE Touch
  /\ Answers(c, CASE op.do = "get" -> <<dict.rec>> [] op.do = "read_range" -> xrange(dict) [] OTHER -> TRUE)
  /\ At(c, "done") /\ RedisRest

\* A key expires, which a WATCH sees.
RedisExpires(key) ==
  /\ backend = "redis" /\ key \in dict.dated /\ dict' = Without(dict, {key}) /\ Touch
  /\ NoFault /\ UNCHANGED <<backend, call, step, answer, calls, cut>>

\* The connection fails before EXEC takes effect: a WatchError, and all over again.
ConnectionLost(c) ==
  /\ backend = "redis" /\ step[c] \in {"watching", "exists", "queued"}
  /\ At(c, "start") /\ intact' = intact \ {c}
  /\ Fault /\ UNCHANGED <<backend, dict, call, answer, calls, cut>>

\* An append whose last command was PEXPIRE.
Expired(c) == InRedis(c, "append", "done") /\ answer[c] = TRUE

\* The reply to the command that decided the answer is lost, and the command is sent again: XADD, EXEC
\* and its WATCH, or the only one.
ReplyLost(c) ==
  /\ backend = "redis" /\ step[c] \in {"added", "done"} /\ ~Expired(c)
  /\ At(c, "start") /\ Answers(c, NoOne) /\ intact' = intact \ {c} /\ cut' = (cut \/ step[c] = "added")
  /\ Fault /\ UNCHANGED <<backend, dict, call, calls>>

\* The reply to PEXPIRE is lost; the answer stands.
ExpiryLost(c) ==
  /\ Expired(c) /\ At(c, "added")
  /\ Fault /\ UNCHANGED <<backend, dict, call, intact, answer, calls, cut>>

OnRedis(c) ==
  \/ XAdd(c) \/ PExpire(c) \/ Watches(c) \/ Exists(c) \/ ReadsTop(c) \/ Executes(c) \/ RedisOne(c)
  \/ ConnectionLost(c) \/ ReplyLost(c) \/ ExpiryLost(c)

-----------------------------------------------------------------------------
Next ==
  \/ \E c \in Callers : Calls(c) \/ Returns(c) \/ Fails(c) \/ OnMemory(c) \/ OnRedis(c)
  \/ \E key \in Keys : MemoryLapses(key) \/ RedisExpires(key)
  \/ MemoryDies

Spec == Init /\ [][Next]_vars

-----------------------------------------------------------------------------
(* Properties.                                                               *)

TypeOK ==
  /\ backend \in {"memory", "redis"} /\ dict.rec \in Callers \cup {NoOne}
  /\ \A i \in DOMAIN dict.log : dict.log[i] \in [pos : Positions, by : Callers]
  /\ dict.dated \subseteq Present(dict) /\ dict.lapsed \subseteq dict.dated /\ intact \subseteq Callers
  /\ call \in [Callers -> {Idle} \cup Store!Ops]
  /\ \A c \in Callers : (step[c] = "none") <=> (call[c] = Idle)
  /\ calls \in 0..MaxCalls /\ faults \in 0..MaxFaults

\* Both backends are the store of state/base.py: every call takes effect, and gets its answer, at one
\* instant, append_and_set ("in the same atomic step") and its if_exists included, while others write,
\* delete and let keys expire between its commands.  Only in Redis, and only after a lost reply, is a call
\* done twice: then an append that landed may answer False.
IsAtomicStore == Store!Spec

\* Nothing is kept for ever: once its calls are over, a log has an expiry, unless an append failed
\* between XADD and PEXPIRE or had its XADD resent.
LogsExpire ==
  ("log" \in Present(dict) /\ \A c \in Callers : step[c] # "added") => "log" \in dict.dated \/ cut
=============================================================================
