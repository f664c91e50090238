----------------------------- MODULE StoreProofs -----------------------------
(***************************************************************************)
(* Both backends of the state store implement AtomicStore, and their logs    *)
(* expire (module StateStores), for any callers, positions, calls and faults.*)
(***************************************************************************)
EXTENDS StateStores, TLAPS, SequenceTheorems

Item == [pos : Positions, by : Callers]
Dict == [log : Seq(Item), rec : Callers \cup {NoOne}, dated : SUBSET Keys, lapsed : SUBSET Keys]
Steps == {"none", "start", "added", "watching", "exists", "queued", "done"}

\* What a caller sees of a dict: nothing of an expired key.
LogOf(d) == IF "log" \in d.lapsed THEN <<>> ELSE d.log
RecOf(d) == IF "rec" \in d.lapsed THEN NoOne ELSE d.rec

Types ==
  /\ backend \in {"memory", "redis"} /\ dict \in Dict
  /\ call \in [Callers -> {Idle} \cup Store!Ops] /\ step \in [Callers -> Steps]
  /\ DOMAIN answer = Callers

\* Redis forgets an expired key at once; the actor has no WATCH.
BackendsDiffer ==
  /\ backend = "redis" => dict.lapsed = {}
  /\ backend = "memory" => intact = {}

\* A call has an answer only from the moment that decides it.
AnswersLate ==
  \A c \in Callers :
    /\ step[c] # "none" => call[c] # Idle
    /\ call[c] = Idle \/ step[c] \in {"start", "watching", "exists", "queued"} => answer[c] = NoOne

\* What a transaction has read still holds as long as its WATCH is intact.
WatchHolds ==
  \A c \in intact : c \in Callers =>
    /\ step[c] \in {"exists", "queued"} => ~(call[c].if_exists /\ dict.rec = NoOne)
    /\ step[c] = "queued" => call[c].pos > Top(dict.log)

\* A log without an expiry is one whose append has yet to date it, or could not.
DatedLog(d) == d.log # <<>> => "log" \in d.dated
LogDated == DatedLog(dict) \/ cut \/ \E c \in Callers : step[c] = "added"

StoreInv == Types /\ BackendsDiffer /\ AnswersLate /\ WatchHolds /\ LogDated

-----------------------------------------------------------------------------
(* The operators on a dict.                                                  *)

\* A dict without some keys; what the abstract store's variables are mapped to.
LEMMA WithoutFacts ==
  ASSUME NEW d \in Dict, NEW K \in SUBSET Keys
  PROVE  /\ Without(d, K) \in Dict
         /\ Without(d, K).log = (IF "log" \in K THEN <<>> ELSE d.log)
         /\ Without(d, K).rec = (IF "rec" \in K THEN NoOne ELSE d.rec)
         /\ Without(d, K).dated = d.dated \ K /\ Without(d, K).lapsed = d.lapsed \ K
<1>1. <<>> \in Seq(Item)
  OBVIOUS
<1> QED
  BY <1>1 DEF Without, Dict

\* The mapped log and record are those a caller sees.
LEMMA Mapped ==
  ASSUME NEW d \in Dict
  PROVE  Without(d, d.lapsed).log = LogOf(d) /\ Without(d, d.lapsed).rec = RecOf(d)
BY WithoutFacts DEF Dict, LogOf, RecOf

\* _live changes nothing a caller sees, and shows it.
LEMMA LiveFacts ==
  ASSUME NEW d \in Dict, NEW key \in Keys
  PROVE  /\ live(d, key) \in Dict /\ key \notin live(d, key).lapsed
         /\ LogOf(live(d, key)) = LogOf(d) /\ RecOf(live(d, key)) = RecOf(d)
         /\ key = "log" => live(d, key).log = LogOf(d)
         /\ key = "rec" => live(d, key).rec = RecOf(d)
         /\ live(d, key).lapsed \subseteq d.lapsed
         /\ DatedLog(d) => DatedLog(live(d, key))
<1>1. CASE key \notin d.lapsed
  BY <1>1 DEF live, LogOf, RecOf, Dict
<1>2. CASE key \in d.lapsed
  <2>1. live(d, key) = Without(d, {key}) /\ {key} \in SUBSET Keys
    BY <1>2 DEF live
  <2> QED
    BY <1>2, <2>1, WithoutFacts DEF LogOf, RecOf, DatedLog, Keys
<1> QED
  BY <1>1, <1>2

\* A dated key is seen as it is stored.
LEMMA DatedFacts ==
  ASSUME NEW d \in Dict, NEW key \in Keys
  PROVE  /\ Dated(d, key) \in Dict /\ Dated(d, key).log = d.log /\ Dated(d, key).rec = d.rec
         /\ Dated(d, key).dated = d.dated \cup {key} /\ Dated(d, key).lapsed = d.lapsed \ {key}
BY DEF Dated, Dict
\* append adds its entry to the log a caller sees.
LEMMA AppendedFacts ==
  ASSUME NEW d \in Dict, NEW op, NEW c \in Callers, op.pos \in Positions
  PROVE  /\ appended(d, op, c) \in Dict /\ DatedLog(appended(d, op, c))
         /\ LogOf(appended(d, op, c)) = Append(LogOf(d), Entry(op, c))
         /\ RecOf(appended(d, op, c)) = RecOf(d)
<1> DEFINE l == live(d, "log")
           a == [l EXCEPT !.log = Append(@, Entry(op, c))]
<1>1. "log" \in Keys /\ Entry(op, c) \in Item
  BY DEF Keys, Entry, Item
<1>2. l \in Dict /\ l.log = LogOf(d) /\ RecOf(l) = RecOf(d)
  BY <1>1, LiveFacts
<1> HIDE DEF l
<1>3. a \in Dict /\ a.log = Append(l.log, Entry(op, c)) /\ a.rec = l.rec /\ a.lapsed = l.lapsed
  <2> DEFINE n == Append(l.log, Entry(op, c))
  <2>1. n \in Seq(Item)
    BY <1>1, <1>2, AppendProperties DEF Dict
  <2>2. a = [l EXCEPT !.log = n]
    OBVIOUS
  <2> HIDE DEF n, a
  <2>3. a \in Dict /\ a.log = n /\ a.rec = l.rec /\ a.lapsed = l.lapsed
    BY <1>2, <2>1, <2>2 DEF Dict
  <2> QED
    BY <2>3 DEF n
<1>4. appended(d, op, c) = Dated(a, "log")
  BY DEF appended, l
<1> HIDE DEF a
<1> QED
  BY <1>1, <1>2, <1>3, <1>4, DatedFacts DEF LogOf, RecOf, DatedLog

\* set writes the record.
LEMMA SetFacts ==
  ASSUME NEW d \in Dict, NEW c \in Callers
  PROVE  /\ set(d, c) \in Dict /\ LogOf(set(d, c)) = LogOf(d) /\ RecOf(set(d, c)) = c
         /\ DatedLog(d) => DatedLog(set(d, c))
<1> DEFINE r == [d EXCEPT !.rec = c]
<1>1. r \in Dict /\ r.log = d.log /\ r.rec = c /\ r.lapsed = d.lapsed /\ r.dated = d.dated
  BY DEF Dict
<1>2. set(d, c) = Dated(r, "rec") /\ "rec" \in Keys
  BY DEF set, Keys
<1> HIDE DEF r
<1> QED
  BY <1>1, <1>2, DatedFacts DEF LogOf, RecOf, DatedLog

\* expire changes nothing a caller sees.
LEMMA ExpireFacts ==
  ASSUME NEW d \in Dict, NEW key \in Keys
  PROVE  /\ expire(d, key) \in Dict /\ LogOf(expire(d, key)) = LogOf(d)
         /\ RecOf(expire(d, key)) = RecOf(d)
         /\ DatedLog(d) => DatedLog(expire(d, key))
<1> DEFINE l == live(d, key)
<1>1. /\ l \in Dict /\ key \notin l.lapsed /\ LogOf(l) = LogOf(d) /\ RecOf(l) = RecOf(d)
      /\ DatedLog(d) => DatedLog(l)
  BY LiveFacts
<1>2. expire(d, key) = l \/ expire(d, key) = Dated(l, key)
  BY DEF expire
<1> HIDE DEF l
<1> QED
  BY <1>1, <1>2, DatedFacts DEF LogOf, RecOf, DatedLog

\* A sweep changes nothing a caller sees.
LEMMA SweptFacts ==
  ASSUME NEW d \in Dict
  PROVE  /\ Without(d, d.lapsed) \in Dict /\ LogOf(Without(d, d.lapsed)) = LogOf(d)
         /\ RecOf(Without(d, d.lapsed)) = RecOf(d)
         /\ DatedLog(d) => DatedLog(Without(d, d.lapsed))
<1>1. d.lapsed \in SUBSET Keys
  BY DEF Dict
<1> QED
  BY <1>1, WithoutFacts DEF LogOf, RecOf, DatedLog

-----------------------------------------------------------------------------
(* The calls of state/base.py.                                               *)

Appends == {"append", "append_and_set"}

\* A call is one of these; where it has a position or a key, it is a proper one.
LEMMA OpFacts ==
  ASSUME NEW op \in Store!Ops
  PROVE  /\ op # Idle
         /\ op.do \in Appends \cup {"delete", "expire", "set", "get", "read_range"}
         /\ op.do \in Appends => op.pos \in Positions /\ op.pos \in Nat
         /\ op.do = "append_and_set" => op.if_exists \in BOOLEAN
         /\ op.do \in {"delete", "expire"} => op.key \in Keys
<1>1. op # Idle
  BY IdleAssumption
<1>2. op.do \in Appends \cup {"delete", "expire", "set", "get", "read_range"}
  BY DEF Store!Ops, Appends
<1>3. op.do \in Appends => op.pos \in Positions
  BY DEF Store!Ops, Appends
<1>4. op.do = "append_and_set" => op.if_exists \in BOOLEAN
  BY DEF Store!Ops
<1>5. op.do \in {"delete", "expire"} => op.key \in Keys
  BY DEF Store!Ops, Store!Keys, Keys
<1> QED
  BY <1>1, <1>2, <1>3, <1>4, <1>5, StoreAssumption

\* What a log and a record are told of a call that the store accepts.
Accepts(l, r, op) ==
  op.pos > Top(l) /\ ~(op.do = "append_and_set" /\ op.if_exists /\ r = NoOne)

\* The last position of a log.
LEMMA TopNat ==
  ASSUME NEW l \in Seq(Item)
  PROVE  Top(l) \in Nat
<1>1. CASE l = <<>>
  BY <1>1 DEF Top
<1>2. CASE l # <<>>
  <2>1. Len(l) \in 1..Len(l)
    BY <1>2, EmptySeq, LenProperties
  <2>2. l[Len(l)] \in Item
    BY <2>1
  <2> QED
    BY <1>2, <2>2, StoreAssumption DEF Top, Item
<1> QED
  BY <1>1, <1>2

\* What a caller sees is a log.
LEMMA LogOfType ==
  ASSUME NEW d \in Dict
  PROVE  LogOf(d) \in Seq(Item)
BY DEF LogOf, Dict

\* The actor refuses an append as the store does.
LEMMA RefusedFacts ==
  ASSUME NEW d \in Dict, NEW op \in Store!Ops, op.do \in Appends
  PROVE  refused(d, op) <=> ~Accepts(LogOf(d), RecOf(d), op)
<1>1. live(d, "log").log = LogOf(d) /\ live(d, "rec").rec = RecOf(d)
  BY LiveFacts DEF Keys
<1>2. Top(LogOf(d)) \in Nat /\ op.pos \in Nat
  BY LogOfType, TopNat, OpFacts
<1> QED
  BY <1>1, <1>2 DEF refused, Accepts
-----------------------------------------------------------------------------
(* Steps of the abstract store.                                              *)

\* An append that takes effect, or is refused.
LEMMA AbstractAppend ==
  ASSUME NEW c \in Callers, dict \in Dict, dict' \in Dict, call[c] # Idle, answer[c] = NoOne,
         call' = call, backend' = backend, call[c].do \in Appends,
         IF Accepts(LogOf(dict), RecOf(dict), call[c])
         THEN /\ LogOf(dict') = Append(LogOf(dict), Entry(call[c], c)) /\ Answers(c, TRUE)
              /\ RecOf(dict') = IF call[c].do = "append" THEN RecOf(dict) ELSE c
         ELSE Answers(c, FALSE) /\ LogOf(dict') = LogOf(dict) /\ RecOf(dict') = RecOf(dict)
  PROVE  Store!Next
<1>1. /\ Without(dict, dict.lapsed).log = LogOf(dict) /\ Without(dict, dict.lapsed).rec = RecOf(dict)
      /\ Without(dict', dict'.lapsed).log = LogOf(dict')
      /\ Without(dict', dict'.lapsed).rec = RecOf(dict')
  BY Mapped
<1>2. Store!Append_(c, call[c])
  BY <1>1 DEF Store!Append_, Store!Accepted, Store!Answers, Store!Entry, Store!Top, Accepts, Appends,
              Answers, Entry, Top
<1>3. Store!Effect(c)
  BY <1>2 DEF Store!Effect
<1> QED
  BY <1>3 DEF Store!Next

\* Another call that takes effect.
LEMMA AbstractSimple ==
  ASSUME NEW c \in Callers, dict \in Dict, dict' \in Dict, call[c] # Idle, answer[c] = NoOne,
         call' = call, backend' = backend, call[c] \in Store!Ops, call[c].do \notin Appends,
         LogOf(dict') =
           IF call[c].do = "delete" /\ call[c].key = "log" THEN <<>> ELSE LogOf(dict),
         RecOf(dict') =
           IF call[c].do = "set" THEN c
           ELSE IF call[c].do = "delete" /\ call[c].key = "rec" THEN NoOne ELSE RecOf(dict),
         Answers(c, IF call[c].do = "get" THEN <<RecOf(dict)>>
                    ELSE IF call[c].do = "read_range" THEN LogOf(dict) ELSE TRUE)
  PROVE  Store!Next
<1>1. /\ Without(dict, dict.lapsed).log = LogOf(dict) /\ Without(dict, dict.lapsed).rec = RecOf(dict)
      /\ Without(dict', dict'.lapsed).log = LogOf(dict')
      /\ Without(dict', dict'.lapsed).rec = RecOf(dict')
  BY Mapped
<1> DEFINE op == call[c]
<1>2. (CASE op.do = "set" -> c [] op.do = "delete" /\ op.key = "rec" -> NoOne
         [] OTHER -> RecOf(dict)) = RecOf(dict')
  OBVIOUS
<1>3. (CASE op.do = "get" -> <<RecOf(dict)>> [] op.do = "read_range" -> LogOf(dict) [] OTHER -> TRUE)
      = IF op.do = "get" THEN <<RecOf(dict)>>
        ELSE IF op.do = "read_range" THEN LogOf(dict) ELSE TRUE
  OBVIOUS
<1>4. Store!Simple(c, op)
  BY <1>1, <1>2, <1>3, Zenon DEF Store!Simple, Store!Answers, Appends, Answers
<1>5. Store!Effect(c)
  BY <1>4 DEF Store!Effect
<1> QED
  BY <1>5 DEF Store!Next

\* Keys that expire, or a store that loses them.
LEMMA AbstractLose ==
  ASSUME dict \in Dict, dict' \in Dict, UNCHANGED <<backend, call, answer>>,
         LogOf(dict') = LogOf(dict) \/ LogOf(dict') = <<>>,
         RecOf(dict') = RecOf(dict) \/ RecOf(dict') = NoOne
  PROVE  Store!Next
<1>1. /\ Without(dict, dict.lapsed).log = LogOf(dict) /\ Without(dict, dict.lapsed).rec = RecOf(dict)
      /\ Without(dict', dict'.lapsed).log = LogOf(dict')
      /\ Without(dict', dict'.lapsed).rec = RecOf(dict')
  BY Mapped
<1> DEFINE K == {k \in Keys : IF k = "log" THEN LogOf(dict') = <<>> ELSE RecOf(dict') = NoOne}
<1>2. K \in SUBSET Store!Keys
  BY DEF Store!Keys, Keys
<1>3. ("log" \in K <=> LogOf(dict') = <<>>) /\ ("rec" \in K <=> RecOf(dict') = NoOne)
  BY DEF Keys
<1> HIDE DEF K
<1>4. Store!Lose
  BY <1>1, <1>2, <1>3 DEF Store!Lose
<1> QED
  BY <1>4 DEF Store!Next

\* A reply of Redis that is lost: the call is done once more.
LEMMA AbstractRetry ==
  ASSUME NEW c \in Callers, backend = "redis", backend' = backend, call[c] # Idle, call' = call,
         dict' = dict, Answers(c, NoOne)
  PROVE  Store!Next
<1>1. Store!Retry(c)
  BY DEF Store!Retry, Answers
<1> QED
  BY <1>1 DEF Store!Next

\* A step that changes nothing a caller sees.
LEMMA AbstractStutter ==
  ASSUME dict \in Dict, dict' \in Dict, UNCHANGED <<backend, call, answer>>, LogOf(dict') = LogOf(dict),
         RecOf(dict') = RecOf(dict)
  PROVE  UNCHANGED Store!vars
BY Mapped DEF Store!vars
-----------------------------------------------------------------------------
(* Steps of the backends.                                                    *)

\* An empty store, and nobody calls.
LEMMA InitInv == Init => StoreInv /\ Store!Init
<1> SUFFICES ASSUME Init PROVE StoreInv /\ Store!Init
  OBVIOUS
<1>1. /\ dict \in Dict /\ dict.lapsed = {} /\ dict.log = <<>> /\ dict.rec = NoOne
  <2>1. <<>> \in Seq(Item)
    OBVIOUS
  <2> QED
    BY <2>1 DEF Init, Empty, Dict
<1>2. Types
  BY <1>1 DEF Init, Types, Steps
<1>3. BackendsDiffer /\ AnswersLate /\ WatchHolds /\ LogDated
  BY <1>1 DEF Init, BackendsDiffer, AnswersLate, WatchHolds, LogDated, DatedLog
<1>4. Store!Init
  BY <1>1, Mapped DEF Init, Store!Init, LogOf, RecOf
<1> QED
  BY <1>2, <1>3, <1>4 DEF StoreInv

\* The dict after a call to the actor is what the store's call makes of it.
LEMMA AfterFacts ==
  ASSUME NEW d \in Dict, NEW op \in Store!Ops, NEW c \in Callers
  PROVE  /\ After(d, op, c) \in Dict
         /\ DatedLog(d) => DatedLog(After(d, op, c))
         /\ op.do \in Appends =>
              IF Accepts(LogOf(d), RecOf(d), op)
              THEN /\ LogOf(After(d, op, c)) = Append(LogOf(d), Entry(op, c))
                   /\ RecOf(After(d, op, c)) = IF op.do = "append" THEN RecOf(d) ELSE c
              ELSE LogOf(After(d, op, c)) = LogOf(d) /\ RecOf(After(d, op, c)) = RecOf(d)
         /\ op.do \notin Appends =>
              /\ LogOf(After(d, op, c)) = IF op.do = "delete" /\ op.key = "log" THEN <<>> ELSE LogOf(d)
              /\ RecOf(After(d, op, c)) =
                   IF op.do = "set" THEN c
                   ELSE IF op.do = "delete" /\ op.key = "rec" THEN NoOne ELSE RecOf(d)
<1> DEFINE n == After(d, op, c)
<1> USE DEF Appends
<1>1. CASE op.do = "append"
  <2>1. n = IF refused(d, op) THEN live(d, "log") ELSE appended(d, op, c)
    BY <1>1 DEF After
  <2>2. op.pos \in Positions /\ "log" \in Keys
    BY <1>1, OpFacts DEF Keys
  <2> HIDE DEF n
  <2>3. CASE refused(d, op)
    BY <1>1, <2>1, <2>2, <2>3, RefusedFacts, LiveFacts DEF n
  <2>4. CASE ~refused(d, op)
    BY <1>1, <2>1, <2>2, <2>4, RefusedFacts, AppendedFacts DEF n
  <2> QED
    BY <2>3, <2>4
<1>2. CASE op.do = "append_and_set"
  <2>1. n = IF refused(d, op) THEN d ELSE set(appended(d, op, c), c)
    BY <1>2 DEF After
  <2>2. op.pos \in Positions
    BY <1>2, OpFacts
  <2> HIDE DEF n
  <2>3. CASE refused(d, op)
    BY <1>2, <2>1, <2>3, RefusedFacts DEF n
  <2>4. CASE ~refused(d, op)
    <3>1. /\ appended(d, op, c) \in Dict /\ DatedLog(appended(d, op, c))
          /\ LogOf(appended(d, op, c)) = Append(LogOf(d), Entry(op, c))
      BY <2>2, AppendedFacts
    <3>2. n \in Dict /\ DatedLog(n) /\ LogOf(n) = Append(LogOf(d), Entry(op, c)) /\ RecOf(n) = c
      BY <2>1, <2>4, <3>1, SetFacts
    <3> QED
      BY <1>2, <2>4, <3>2, RefusedFacts DEF n
  <2> QED
    BY <2>3, <2>4
<1>3. CASE op.do = "set"
  <2>1. n = set(d, c)
    BY <1>3 DEF After
  <2> QED
    BY <1>3, <2>1, SetFacts
<1>4. CASE op.do = "delete"
  <2>1. n = Without(d, {op.key}) /\ op.key \in Keys
    BY <1>4, OpFacts DEF After
  <2>2. {op.key} \in SUBSET Keys
    BY <2>1
  <2> HIDE DEF n
  <2> QED
    BY <1>4, <2>1, <2>2, WithoutFacts DEF LogOf, RecOf, DatedLog, Keys, n
<1>5. CASE op.do = "expire"
  <2>1. n = expire(d, op.key) /\ op.key \in Keys
    BY <1>5, OpFacts DEF After
  <2> QED
    BY <1>5, <2>1, ExpireFacts
<1>6. CASE op.do \in {"get", "read_range"}
  <2>1. n = live(d, "rec") \/ n = live(d, "log")
    BY <1>6 DEF After
  <2>2. "rec" \in Keys /\ "log" \in Keys
    BY DEF Keys
  <2> QED
    BY <1>6, <2>1, <2>2, LiveFacts
<1> QED
  BY <1>1, <1>2, <1>3, <1>4, <1>5, <1>6, OpFacts

\* A call to the actor takes effect as a whole.
LEMMA MemoryStep ==
  ASSUME NEW c \in Callers, StoreInv, OnMemory(c)
  PROVE  StoreInv' /\ Store!Next
<1> DEFINE op == call[c]
           n == After(dict, op, c)
<1>1. op \in Store!Ops /\ op # Idle /\ answer[c] = NoOne /\ dict \in Dict
  BY DEF OnMemory, StoreInv, Types, AnswersLate
<1>2. backend = "memory" /\ backend' = backend /\ call' = call /\ intact' = intact /\ cut' = cut
      /\ step[c] = "start" /\ step' = [step EXCEPT ![c] = "done"]
  BY DEF OnMemory, At
<1>3. dict' = n \/ dict' = Without(n, n.lapsed)
  BY DEF OnMemory
<1>4. n \in Dict
  BY <1>1, AfterFacts
<1>5. /\ dict' \in Dict /\ LogOf(dict') = LogOf(n) /\ RecOf(dict') = RecOf(n)
      /\ DatedLog(dict) => DatedLog(dict')
  <2>1. DatedLog(dict) => DatedLog(n)
    BY <1>1, AfterFacts
  <2> HIDE DEF n
  <2> QED
    BY <1>3, <1>4, <2>1, SweptFacts
<1>6. Store!Next
  <2>1. CASE op.do \in Appends
    <3>1. Answer(dict, op) = IF Accepts(LogOf(dict), RecOf(dict), op) THEN TRUE ELSE FALSE
      <4>1. Answer(dict, op) = (~refused(dict, op))
        BY <2>1 DEF Answer, Appends
      <4>2. refused(dict, op) <=> ~Accepts(LogOf(dict), RecOf(dict), op)
        BY <1>1, <2>1, RefusedFacts
      <4> QED
        BY <4>1, <4>2
    <3>2. Answers(c, Answer(dict, op))
      BY DEF OnMemory
    <3> QED
      BY <1>1, <1>2, <1>5, <2>1, <3>1, <3>2, AfterFacts, AbstractAppend
  <2>2. CASE op.do \notin Appends
    <3>1. live(dict, "rec").rec = RecOf(dict) /\ live(dict, "log").log = LogOf(dict)
      BY <1>1, LiveFacts DEF Keys
    <3>2. Answer(dict, op) = IF op.do = "get" THEN <<live(dict, "rec").rec>>
                             ELSE IF op.do = "read_range" THEN live(dict, "log").log ELSE TRUE
      BY <2>2, Zenon DEF Answer, Appends
    <3>3. Answers(c, Answer(dict, op))
      BY DEF OnMemory
    <3>4. Answers(c, IF op.do = "get" THEN <<RecOf(dict)>>
                     ELSE IF op.do = "read_range" THEN LogOf(dict) ELSE TRUE)
      BY <3>1, <3>2, <3>3
    <3> QED
      BY <1>1, <1>2, <1>5, <2>2, <3>4, AfterFacts, AbstractSimple
  <2> QED
    BY <2>1, <2>2
<1>7. StoreInv'
  <2>1. DOMAIN answer' = Callers /\ \A q \in Callers \ {c} : answer'[q] = answer[q]
    BY DEF OnMemory, Answers, StoreInv, Types
  <2>2. Types'
    BY <1>2, <1>5, <2>1 DEF StoreInv, Types, Steps
  <2>3. BackendsDiffer' /\ AnswersLate' /\ WatchHolds'
    BY <1>1, <1>2, <2>1 DEF StoreInv, Types, BackendsDiffer, AnswersLate, WatchHolds
  <2>4. LogDated'
    BY <1>2, <1>5 DEF StoreInv, Types, LogDated
  <2> QED
    BY <2>2, <2>3, <2>4 DEF StoreInv
<1> QED
  BY <1>6, <1>7

\* A call starts, returns or fails: what is stored stays.
LEMMA CallerStep ==
  ASSUME NEW c \in Callers, StoreInv, Calls(c) \/ Returns(c) \/ Fails(c)
  PROVE  StoreInv' /\ Store!Next
<1>1. dict \in Dict /\ dict' = dict /\ backend' = backend
  BY DEF StoreInv, Types, Calls, Returns, Fails
<1>2. Store!Next
  <2>1. CASE Calls(c)
    <3>1. Store!Start(c)
      BY <1>1, <2>1 DEF Store!Start, Calls
    <3> QED
      BY <1>1, <3>1 DEF Store!Next
  <2>2. CASE Returns(c) \/ Fails(c)
    <3>1. call[c] # Idle
      BY <2>2 DEF StoreInv, AnswersLate, Returns, Fails
    <3>2. Store!Return(c)
      BY <1>1, <2>2, <3>1 DEF Store!Return, Returns, Fails, Over, Answers
    <3> QED
      BY <1>1, <3>2 DEF Store!Next
  <2> QED
    BY <2>1, <2>2
<1>3. Types'
  BY <1>1 DEF StoreInv, Types, Steps, Calls, Returns, Fails, Over, At, Answers
<1>4. BackendsDiffer'
  BY <1>1 DEF StoreInv, BackendsDiffer, Calls, Returns, Fails, Over
<1>5. AnswersLate'
  <2>1. CASE Calls(c)
    <3>1. PICK op \in Store!Ops : call' = [call EXCEPT ![c] = op]
      BY <2>1 DEF Calls
    <3>2. op # Idle
      BY OpFacts
    <3>3. call[c] = Idle /\ answer' = answer /\ step' = [step EXCEPT ![c] = "start"]
      BY <2>1 DEF Calls, At
    <3> QED
      BY <3>1, <3>2, <3>3 DEF StoreInv, Types, AnswersLate
  <2>2. CASE Returns(c) \/ Fails(c)
    <3>1. /\ call' = [call EXCEPT ![c] = Idle] /\ step' = [step EXCEPT ![c] = "none"]
          /\ answer' = [answer EXCEPT ![c] = NoOne]
      BY <2>2 DEF Returns, Fails, Over, At, Answers
    <3> QED
      BY <3>1 DEF StoreInv, Types, AnswersLate
  <2> QED
    BY <2>1, <2>2
<1>6. WatchHolds'
  <2>1. /\ \A q \in Callers \ {c} : step'[q] = step[q] /\ call'[q] = call[q]
        /\ step'[c] \in {"start", "none"} /\ intact' \subseteq intact
    BY DEF StoreInv, Types, Calls, Returns, Fails, Over, At
  <2> QED
    BY <1>1, <2>1 DEF StoreInv, WatchHolds
<1>7. LogDated'
  <2>1. CASE Calls(c) \/ Returns(c)
    <3>1. /\ \A q \in Callers \ {c} : step'[q] = step[q]
          /\ step[c] # "added" /\ cut' = cut
      BY <2>1 DEF StoreInv, Types, AnswersLate, Calls, Returns, Over, At
    <3> QED
      BY <1>1, <3>1 DEF StoreInv, LogDated
  <2>2. CASE Fails(c)
    <3>1. /\ \A q \in Callers \ {c} : step'[q] = step[q]
          /\ cut' = (cut \/ step[c] = "added")
      BY <2>2 DEF StoreInv, Types, Fails, Over, At
    <3> QED
      BY <1>1, <3>1 DEF StoreInv, LogDated
  <2> QED
    BY <2>1, <2>2
<1> QED
  BY <1>2, <1>3, <1>4, <1>5, <1>6, <1>7 DEF StoreInv

\* A key expires, or the actor restarts empty: a loss, which voids every WATCH there is.
LEMMA LossStep ==
  ASSUME StoreInv, MemoryDies \/ \E key \in Keys : MemoryLapses(key) \/ RedisExpires(key)
  PROVE  StoreInv' /\ Store!Next
<1>1. dict \in Dict /\ UNCHANGED <<backend, call, step, answer, cut>>
  BY DEF StoreInv, Types, MemoryDies, MemoryLapses, RedisExpires
<1>2. /\ dict' \in Dict
      /\ LogOf(dict') = LogOf(dict) \/ LogOf(dict') = <<>>
      /\ RecOf(dict') = RecOf(dict) \/ RecOf(dict') = NoOne
      /\ DatedLog(dict) => DatedLog(dict')
      /\ backend = "redis" => dict'.lapsed = {}
      /\ intact' = {}
  <2>1. CASE MemoryDies
    <3>1. dict' = Empty /\ <<>> \in Seq(Item) /\ backend = "memory" /\ intact' = intact
      BY <2>1 DEF MemoryDies
    <3>2. dict' \in Dict /\ dict'.log = <<>> /\ dict'.rec = NoOne /\ dict'.lapsed = {}
      BY <3>1 DEF Empty, Dict
    <3> QED
      BY <3>1, <3>2 DEF LogOf, RecOf, DatedLog, StoreInv, BackendsDiffer
  <2>2. ASSUME NEW key \in Keys, MemoryLapses(key)
        PROVE  <1>2!1 /\ <1>2!2 /\ <1>2!3 /\ <1>2!4 /\ <1>2!5 /\ <1>2!6
    <3>1. /\ dict' = [dict EXCEPT !.lapsed = @ \cup {key}]
          /\ backend = "memory" /\ intact' = intact
      BY <2>2 DEF MemoryLapses
    <3>2. /\ dict' \in Dict /\ dict'.log = dict.log /\ dict'.rec = dict.rec
          /\ dict'.dated = dict.dated /\ dict'.lapsed = dict.lapsed \cup {key}
      BY <1>1, <3>1 DEF Dict
    <3> QED
      BY <3>1, <3>2 DEF LogOf, RecOf, DatedLog, StoreInv, BackendsDiffer
  <2>3. ASSUME NEW key \in Keys, RedisExpires(key)
        PROVE  <1>2!1 /\ <1>2!2 /\ <1>2!3 /\ <1>2!4 /\ <1>2!5 /\ <1>2!6
    <3>1. dict' = Without(dict, {key}) /\ backend = "redis" /\ intact' = {} /\ dict.lapsed = {}
      BY <2>3 DEF RedisExpires, Touch, StoreInv, BackendsDiffer
    <3>2. {key} \in SUBSET Keys
      OBVIOUS
    <3> QED
      BY <1>1, <3>1, <3>2, WithoutFacts DEF LogOf, RecOf, DatedLog, Keys
  <2> QED
    BY <2>1, <2>2, <2>3
<1>3. Store!Next
  BY <1>1, <1>2, AbstractLose
<1>4. Types' /\ BackendsDiffer' /\ AnswersLate' /\ WatchHolds'
  BY <1>1, <1>2 DEF StoreInv, Types, BackendsDiffer, AnswersLate, WatchHolds
<1>5. LogDated'
  BY <1>1, <1>2 DEF StoreInv, LogDated
<1> QED
  BY <1>3, <1>4, <1>5 DEF StoreInv

\* In Redis what is stored is what a caller sees.
LEMMA RedisSees ==
  ASSUME NEW d \in Dict, d.lapsed = {}
  PROVE  LogOf(d) = d.log /\ RecOf(d) = d.rec
BY DEF LogOf, RecOf

\* A command, or the loss of its reply, keeps the invariant when it keeps the log dated, owes it an expiry
\* or records that it got none, answers only its own
\* call and only when it ends it, and leaves no WATCH intact that it should have voided.
LEMMA RedisKeeps ==
  ASSUME NEW c \in Callers, NEW s \in Steps \ {"none"}, StoreInv, backend = "redis", call[c] # Idle,
         At(c, s), UNCHANGED <<backend, call>>, dict' \in Dict, dict'.lapsed = {}, WatchHolds',
         DOMAIN answer' = Callers, \A q \in Callers \ {c} : answer'[q] = answer[q],
         s \in {"start", "watching", "exists", "queued"} => answer'[c] = NoOne,
         cut => cut',
         \/ DatedLog(dict') \/ s = "added" \/ cut'
         \/ (DatedLog(dict) => DatedLog(dict')) /\ step[c] # "added"
  PROVE  StoreInv'
<1>1. /\ step' = [step EXCEPT ![c] = s] /\ step \in [Callers -> Steps]
      /\ UNCHANGED <<backend, call>>
  BY DEF At, StoreInv, Types
<1>2. step'[c] = s /\ \A q \in Callers \ {c} : step'[q] = step[q]
  BY <1>1
<1>3. Types'
  BY <1>1 DEF StoreInv, Types
<1>4. BackendsDiffer'
  BY <1>1 DEF BackendsDiffer
<1>5. AnswersLate'
  BY <1>1, <1>2 DEF StoreInv, AnswersLate
<1>6. LogDated'
  BY <1>1, <1>2 DEF StoreInv, LogDated
<1> QED
  BY <1>3, <1>4, <1>5, <1>6 DEF StoreInv

\* The facts every command starts from.
LEMMA RedisFacts ==
  ASSUME NEW c \in Callers, StoreInv, backend = "redis", step[c] # "none"
  PROVE  /\ dict \in Dict /\ dict.lapsed = {} /\ call[c] # Idle /\ call[c] \in Store!Ops
         /\ LogOf(dict) = dict.log /\ RecOf(dict) = dict.rec /\ dict.log \in Seq(Item)
         /\ step[c] \in {"start", "watching", "exists", "queued"} => answer[c] = NoOne
         /\ DOMAIN answer = Callers
BY RedisSees DEF StoreInv, Types, BackendsDiffer, AnswersLate, Dict

\* An entry at the end of a log is a log.
LEMMA LongerLog ==
  ASSUME NEW c \in Callers, NEW op \in Store!Ops, op.do \in Appends, NEW l \in Seq(Item)
  PROVE  Append(l, Entry(op, c)) \in Seq(Item)
<1>1. Entry(op, c) \in Item
  BY OpFacts DEF Entry, Item
<1> QED
  BY <1>1, AppendProperties

\* XADD: the append takes effect, dated or not.
LEMMA XAddStep ==
  ASSUME NEW c \in Callers, StoreInv, XAdd(c)
  PROVE  StoreInv' /\ Store!Next
<1> DEFINE op == call[c]
<1>1. backend = "redis" /\ step[c] = "start" /\ op.do = "append" /\ RedisRest
      /\ UNCHANGED <<backend, call>>
  BY DEF XAdd, InRedis, Does, RedisRest
<1>2. /\ dict \in Dict /\ dict.lapsed = {} /\ op # Idle /\ op \in Store!Ops
      /\ LogOf(dict) = dict.log /\ RecOf(dict) = dict.rec /\ dict.log \in Seq(Item)
      /\ answer[c] = NoOne /\ DOMAIN answer = Callers
  BY <1>1, RedisFacts
<1>3. op.do \in Appends /\ (Accepts(dict.log, dict.rec, op) <=> op.pos > Top(dict.log))
  BY <1>1 DEF Accepts, Appends
<1>4. CASE op.pos > Top(dict.log)
  <2> DEFINE n == Append(dict.log, Entry(op, c))
  <2>1. /\ dict' = [dict EXCEPT !.log = n] /\ Answers(c, TRUE)
        /\ At(c, "added") /\ intact' = {}
    BY <1>4 DEF XAdd, Touch
  <2>2. n \in Seq(Item)
    BY <1>2, <1>3, LongerLog
  <2> HIDE DEF n
  <2>3. dict' \in Dict /\ dict'.lapsed = {} /\ dict'.log = n /\ dict'.rec = dict.rec
    BY <1>2, <2>1, <2>2 DEF Dict
  <2>4. LogOf(dict') = n /\ RecOf(dict') = dict.rec
    BY <2>3, RedisSees
  <2>5. Store!Next
    BY <1>1, <1>2, <1>3, <1>4, <2>1, <2>3, <2>4, AbstractAppend DEF n
  <2>6. StoreInv'
    <3>1. WatchHolds'
      BY <2>1 DEF WatchHolds
    <3>2. DOMAIN answer' = Callers /\ \A q \in Callers \ {c} : answer'[q] = answer[q]
      BY <1>2, <2>1 DEF Answers
    <3> QED
      BY <1>1, <1>2, <2>1, <2>3, <3>1, <3>2, RedisKeeps DEF RedisRest, Steps
  <2> QED
    BY <2>5, <2>6
<1>5. CASE ~(op.pos > Top(dict.log))
  <2>1. Answers(c, FALSE) /\ At(c, "done") /\ dict' = dict /\ intact' = intact
    BY <1>5 DEF XAdd
  <2>2. Store!Next
    BY <1>1, <1>2, <1>3, <1>5, <2>1, AbstractAppend
  <2>3. StoreInv'
    <3>1. WatchHolds'
      BY <1>1, <2>1 DEF StoreInv, Types, WatchHolds, At
    <3>2. DOMAIN answer' = Callers /\ \A q \in Callers \ {c} : answer'[q] = answer[q]
      BY <1>2, <2>1 DEF Answers
    <3> QED
      BY <1>1, <1>2, <2>1, <3>1, <3>2, RedisKeeps DEF RedisRest, Steps
  <2> QED
    BY <2>2, <2>3
<1> QED
  BY <1>4, <1>5

\* PEXPIRE dates the log; nobody sees it.
LEMMA PExpireStep ==
  ASSUME NEW c \in Callers, StoreInv, PExpire(c)
  PROVE  StoreInv' /\ UNCHANGED Store!vars
<1>1. /\ backend = "redis" /\ step[c] = "added" /\ RedisRest /\ UNCHANGED <<backend, call, answer>>
      /\ At(c, "done") /\ dict' = [dict EXCEPT !.dated = @ \cup (Present(dict) \cap {"log"})]
      /\ intact' = {}
  BY DEF PExpire, pexpire, InRedis, Does, RedisRest, Touch
<1>2. /\ dict \in Dict /\ dict.lapsed = {} /\ call[c] # Idle
      /\ LogOf(dict) = dict.log /\ RecOf(dict) = dict.rec /\ DOMAIN answer = Callers
  BY <1>1, RedisFacts
<1>3. dict.log # <<>> => "log" \in Present(dict)
  BY DEF Present, Keys
<1>4. /\ dict' \in Dict /\ dict'.lapsed = {} /\ dict'.log = dict.log /\ dict'.rec = dict.rec
      /\ dict'.dated = dict.dated \cup (Present(dict) \cap {"log"})
  BY <1>1, <1>2 DEF Dict, Present
<1>5. LogOf(dict') = dict.log /\ RecOf(dict') = dict.rec
  BY <1>4, RedisSees
<1>6. UNCHANGED Store!vars
  BY <1>1, <1>2, <1>4, <1>5, AbstractStutter
<1>7. WatchHolds' /\ DatedLog(dict')
  BY <1>1, <1>3, <1>4 DEF WatchHolds, DatedLog
<1>8. StoreInv'
  BY <1>1, <1>2, <1>4, <1>7, RedisKeeps DEF RedisRest, Steps
<1> QED
  BY <1>6, <1>8

\* WATCH and the reads: the transaction goes on, or is refused by what it reads.
LEMMA ReadStep ==
  ASSUME NEW c \in Callers, StoreInv, Watches(c) \/ Exists(c) \/ ReadsTop(c)
  PROVE  StoreInv' /\ (Store!Next \/ UNCHANGED Store!vars)
<1> DEFINE op == call[c]
<1>1. /\ backend = "redis" /\ step[c] \in {"start", "watching", "exists"}
      /\ op.do = "append_and_set" /\ RedisRest /\ UNCHANGED <<backend, call, dict>>
      /\ intact' \subseteq intact \cup {c}
  BY DEF Watches, Exists, ReadsTop, InRedis, Does, RedisRest
<1>2. /\ dict \in Dict /\ dict.lapsed = {} /\ op # Idle /\ op \in Store!Ops
      /\ LogOf(dict) = dict.log /\ RecOf(dict) = dict.rec /\ dict.log \in Seq(Item)
      /\ answer[c] = NoOne /\ DOMAIN answer = Callers
  BY <1>1, RedisFacts
<1>3. op.do \in Appends /\ op.pos \in Nat /\ Top(dict.log) \in Nat
  BY <1>1, <1>2, OpFacts, TopNat DEF Appends
<1>4. ASSUME At(c, "done"), Answers(c, FALSE), ~Accepts(dict.log, dict.rec, op)
      PROVE  StoreInv' /\ Store!Next
  <2>1. Store!Next
    BY <1>1, <1>2, <1>3, <1>4, AbstractAppend
  <2>2. WatchHolds'
    BY <1>1, <1>4 DEF StoreInv, Types, WatchHolds, At
  <2>3. DOMAIN answer' = Callers /\ \A q \in Callers \ {c} : answer'[q] = answer[q]
    BY <1>2, <1>4 DEF Answers
  <2>4. StoreInv'
    BY <1>1, <1>2, <1>4, <2>2, <2>3, RedisKeeps DEF RedisRest, Steps
  <2> QED
    BY <2>1, <2>4
<1>5. ASSUME NEW s \in {"watching", "exists", "queued"}, At(c, s), answer' = answer,
             s \in {"exists", "queued"} /\ c \in intact' => ~(op.if_exists /\ dict.rec = NoOne),
             s = "queued" => op.pos > Top(dict.log)
      PROVE  StoreInv' /\ UNCHANGED Store!vars
  <2>1. UNCHANGED Store!vars
    BY <1>1, <1>2, <1>5, AbstractStutter
  <2>2. step'[c] = s /\ \A q \in Callers \ {c} : step'[q] = step[q]
    BY <1>5 DEF StoreInv, Types, At
  <2>3. WatchHolds'
    BY <1>1, <1>5, <2>2 DEF StoreInv, WatchHolds
  <2>4. StoreInv'
    BY <1>1, <1>2, <1>5, <2>3, RedisKeeps DEF RedisRest, Steps
  <2> QED
    BY <2>1, <2>4
<1>6. CASE Watches(c)
  BY <1>5, <1>6 DEF Watches
<1>7. CASE Exists(c)
  <2>1. CASE op.if_exists /\ dict.rec = NoOne
    <3>1. ~Accepts(dict.log, dict.rec, op)
      BY <1>1, <2>1 DEF Accepts
    <3> QED
      BY <1>4, <1>7, <2>1, <3>1 DEF Exists
  <2>2. CASE ~(op.if_exists /\ dict.rec = NoOne)
    BY <1>5, <1>7, <2>2 DEF Exists
  <2> QED
    BY <2>1, <2>2
<1>8. CASE ReadsTop(c)
  <2>1. CASE Top(dict.log) >= op.pos
    <3>1. ~Accepts(dict.log, dict.rec, op)
      BY <1>3, <2>1 DEF Accepts
    <3> QED
      BY <1>4, <1>8, <2>1, <3>1 DEF ReadsTop
  <2>2. CASE ~(Top(dict.log) >= op.pos)
    <3>1. op.pos > Top(dict.log)
      BY <1>3, <2>2
    <3>2. At(c, "queued") /\ answer' = answer /\ step[c] = "exists" /\ intact' = intact
      BY <1>8, <2>2 DEF ReadsTop, InRedis, Does
    <3>3. c \in intact' => ~(op.if_exists /\ dict.rec = NoOne)
      BY <3>2 DEF StoreInv, WatchHolds
    <3> QED
      BY <1>5, <3>1, <3>2, <3>3
  <2> QED
    BY <2>1, <2>2
<1> QED
  BY <1>6, <1>7, <1>8

\* EXEC: everything the transaction read still holds and all of it takes effect, or none does and it
\* starts again.
LEMMA ExecutesStep ==
  ASSUME NEW c \in Callers, StoreInv, Executes(c)
  PROVE  StoreInv' /\ (Store!Next \/ UNCHANGED Store!vars)
<1> DEFINE op == call[c]
<1>1. /\ backend = "redis" /\ step[c] = "queued" /\ op.do = "append_and_set" /\ RedisRest
      /\ UNCHANGED <<backend, call>>
  BY DEF Executes, InRedis, Does, RedisRest
<1>2. /\ dict \in Dict /\ dict.lapsed = {} /\ op # Idle /\ op \in Store!Ops
      /\ LogOf(dict) = dict.log /\ RecOf(dict) = dict.rec /\ dict.log \in Seq(Item)
      /\ answer[c] = NoOne /\ DOMAIN answer = Callers
  BY <1>1, RedisFacts
<1>3. op.do \in Appends
  BY <1>1 DEF Appends
<1>4. CASE c \notin intact
  <2>1. At(c, "start") /\ UNCHANGED <<dict, answer, intact>>
    BY <1>4 DEF Executes
  <2>2. UNCHANGED Store!vars
    BY <1>1, <1>2, <2>1, AbstractStutter
  <2>3. WatchHolds'
    BY <1>1, <2>1 DEF StoreInv, Types, WatchHolds, At
  <2>4. StoreInv'
    BY <1>1, <1>2, <2>1, <2>3, RedisKeeps DEF RedisRest, Steps
  <2> QED
    BY <2>2, <2>4
<1>5. CASE c \in intact
  <2> DEFINE n == Append(dict.log, Entry(op, c))
  <2>1. /\ dict' = [dict EXCEPT !.log = n, !.rec = c, !.dated = Keys] /\ Answers(c, TRUE)
        /\ At(c, "done") /\ intact' = {}
    BY <1>5 DEF Executes, Committed, Touch
  <2>2. n \in Seq(Item)
    BY <1>2, <1>3, LongerLog
  <2> HIDE DEF n
  <2>3. /\ dict' \in Dict /\ dict'.lapsed = {} /\ dict'.log = n /\ dict'.rec = c
        /\ dict'.dated = Keys
    BY <1>2, <2>1, <2>2 DEF Dict
  <2>4. LogOf(dict') = n /\ RecOf(dict') = c /\ DatedLog(dict')
    BY <2>3, RedisSees DEF DatedLog, Keys
  <2>5. Accepts(dict.log, dict.rec, op)
    BY <1>1, <1>5 DEF StoreInv, WatchHolds, Accepts
  <2>6. Store!Next
    BY <1>1, <1>2, <1>3, <2>1, <2>3, <2>4, <2>5, AbstractAppend DEF n
  <2>7. WatchHolds' /\ DOMAIN answer' = Callers /\ \A q \in Callers \ {c} : answer'[q] = answer[q]
    BY <1>2, <2>1 DEF WatchHolds, Answers
  <2>8. StoreInv'
    BY <1>1, <1>2, <2>1, <2>3, <2>4, <2>7, RedisKeeps DEF RedisRest, Steps
  <2> QED
    BY <2>6, <2>8
<1> QED
  BY <1>4, <1>5

\* A call of one command takes effect with it.
LEMMA RedisOneStep ==
  ASSUME NEW c \in Callers, StoreInv, RedisOne(c)
  PROVE  StoreInv' /\ Store!Next
<1> DEFINE op == call[c]
<1>1. /\ backend = "redis" /\ step[c] = "start" /\ RedisRest /\ UNCHANGED <<backend, call>> /\ At(c, "done")
      /\ op.do \in {"set", "delete", "expire", "get", "read_range"}
  BY DEF RedisOne, pexpire, xrange, RedisRest
<1>2. /\ dict \in Dict /\ dict.lapsed = {} /\ op # Idle /\ op \in Store!Ops
      /\ LogOf(dict) = dict.log /\ RecOf(dict) = dict.rec /\ dict.log \in Seq(Item)
      /\ answer[c] = NoOne /\ DOMAIN answer = Callers
  BY <1>1, RedisFacts
<1>3. op.do \notin Appends
  BY <1>1 DEF Appends
<1>4. Answers(c, IF op.do = "get" THEN <<dict.rec>>
                 ELSE IF op.do = "read_range" THEN dict.log ELSE TRUE)
  <2>1. Answers(c, CASE op.do = "get" -> <<dict.rec>> [] op.do = "read_range" -> dict.log
                     [] OTHER -> TRUE)
    BY DEF RedisOne, pexpire, xrange
  <2>2. (CASE op.do = "get" -> <<dict.rec>> [] op.do = "read_range" -> dict.log [] OTHER -> TRUE)
        = IF op.do = "get" THEN <<dict.rec>> ELSE IF op.do = "read_range" THEN dict.log ELSE TRUE
    BY Zenon
  <2> QED
    BY <2>1, <2>2, Zenon
<1>5. /\ dict' \in Dict /\ dict'.lapsed = {} /\ (DatedLog(dict) => DatedLog(dict'))
      /\ dict'.log = (IF op.do = "delete" /\ op.key = "log" THEN <<>> ELSE dict.log)
      /\ dict'.rec = (IF op.do = "set" THEN c
                      ELSE IF op.do = "delete" /\ op.key = "rec" THEN NoOne ELSE dict.rec)
  <2>1. CASE op.do = "set"
    <3>1. dict' = [dict EXCEPT !.rec = c, !.dated = @ \cup {"rec"}]
      BY <2>1 DEF RedisOne, pexpire, xrange
    <3> QED
      BY <1>2, <2>1, <3>1 DEF Dict, Keys, DatedLog
  <2>2. CASE op.do = "delete"
    <3>1. dict' = Without(dict, {op.key}) /\ op.key \in Keys
      BY <1>2, <2>2, OpFacts DEF RedisOne, pexpire, xrange
    <3>2. {op.key} \in SUBSET Keys
      BY <3>1
    <3> QED
      BY <1>2, <2>2, <3>1, <3>2, WithoutFacts DEF DatedLog, Keys
  <2>3. CASE op.do = "expire"
    <3>1. dict' = [dict EXCEPT !.dated = @ \cup (Present(dict) \cap {op.key})]
      BY <2>3 DEF RedisOne, pexpire, xrange
    <3> QED
      BY <1>2, <2>3, <3>1 DEF Dict, DatedLog, Present
  <2>4. CASE op.do \in {"get", "read_range"}
    <3>1. dict' = dict
      BY <2>4 DEF RedisOne, pexpire, xrange
    <3> QED
      BY <1>2, <2>4, <3>1
  <2> QED
    BY <1>1, <2>1, <2>2, <2>3, <2>4
<1>6. LogOf(dict') = dict'.log /\ RecOf(dict') = dict'.rec
  BY <1>5, RedisSees
<1>7. Store!Next
  BY <1>1, <1>2, <1>3, <1>4, <1>5, <1>6, AbstractSimple
<1>8. WatchHolds'
  <2>1. CASE op.do \in {"get", "read_range"}
    <3>1. dict' = dict /\ intact' = intact
      BY <2>1 DEF RedisOne, pexpire, xrange
    <3> QED
      BY <1>1, <3>1 DEF StoreInv, Types, WatchHolds, At
  <2>2. CASE op.do \notin {"get", "read_range"}
    <3>1. intact' = {}
      BY <2>2 DEF RedisOne, pexpire, xrange, Touch
    <3> QED
      BY <3>1 DEF WatchHolds
  <2> QED
    BY <2>1, <2>2
<1>9. DOMAIN answer' = Callers /\ \A q \in Callers \ {c} : answer'[q] = answer[q]
  BY <1>2, <1>4 DEF Answers
<1>10. StoreInv'
  BY <1>1, <1>2, <1>5, <1>8, <1>9, RedisKeeps DEF RedisRest, Steps
<1> QED
  BY <1>7, <1>10

\* A connection that fails: the call starts again, what is stored and dated stays.
LEMMA LostStep ==
  ASSUME NEW c \in Callers, StoreInv, ConnectionLost(c) \/ ReplyLost(c) \/ ExpiryLost(c)
  PROVE  StoreInv' /\ (Store!Next \/ UNCHANGED Store!vars)
<1>1. /\ backend = "redis" /\ step[c] # "none" /\ UNCHANGED <<backend, dict, call>>
      /\ intact' \subseteq intact
  BY DEF ConnectionLost, ReplyLost, ExpiryLost, Expired, InRedis, Does
<1>2. /\ dict \in Dict /\ dict.lapsed = {} /\ call[c] # Idle /\ DOMAIN answer = Callers
  BY <1>1, RedisFacts
<1>3. ASSUME NEW s \in {"start", "added"}, At(c, s)
      PROVE  WatchHolds'
  <2>1. step'[c] = s /\ \A q \in Callers \ {c} : step'[q] = step[q]
    BY <1>3 DEF StoreInv, Types, At
  <2> QED
    BY <1>1, <2>1 DEF StoreInv, WatchHolds
<1>4. CASE ConnectionLost(c)
  <2>1. /\ At(c, "start") /\ answer' = answer /\ cut' = cut /\ answer[c] = NoOne
        /\ step[c] # "added"
    BY <1>4, <1>1, RedisFacts DEF ConnectionLost
  <2>2. UNCHANGED Store!vars
    BY <1>1, <1>2, <2>1, AbstractStutter
  <2>3. StoreInv'
    BY <1>1, <1>2, <1>3, <2>1, RedisKeeps DEF Steps
  <2> QED
    BY <2>2, <2>3
<1>5. CASE ReplyLost(c)
  <2>1. /\ At(c, "start") /\ Answers(c, NoOne) /\ cut' = (cut \/ step[c] = "added")
    BY <1>5 DEF ReplyLost
  <2>2. Store!Next
    BY <1>1, <1>2, <2>1, AbstractRetry
  <2>3. /\ DOMAIN answer' = Callers /\ answer'[c] = NoOne
        /\ \A q \in Callers \ {c} : answer'[q] = answer[q]
    BY <1>2, <2>1 DEF Answers
  <2>4. StoreInv'
    BY <1>1, <1>2, <1>3, <2>1, <2>3, RedisKeeps DEF Steps
  <2> QED
    BY <2>2, <2>4
<1>6. CASE ExpiryLost(c)
  <2>1. At(c, "added") /\ answer' = answer /\ cut' = cut
    BY <1>6 DEF ExpiryLost
  <2>2. UNCHANGED Store!vars
    BY <1>1, <1>2, <2>1, AbstractStutter
  <2>3. StoreInv'
    BY <1>1, <1>2, <1>3, <2>1, RedisKeeps DEF Steps
  <2> QED
    BY <2>2, <2>3
<1> QED
  BY <1>4, <1>5, <1>6

-----------------------------------------------------------------------------
(* The theorems.                                                             *)

\* Every step of either backend keeps the invariant, and is a step of the abstract store or none.
LEMMA StoreStep ==
  ASSUME StoreInv, [Next]_vars
  PROVE  StoreInv' /\ (Store!Next \/ UNCHANGED Store!vars)
<1>1. CASE UNCHANGED vars
  <2>1. StoreInv'
    BY <1>1 DEF vars, StoreInv, Types, BackendsDiffer, AnswersLate, WatchHolds, LogDated
  <2>2. UNCHANGED Store!vars
    BY <1>1 DEF vars, Store!vars
  <2> QED
    BY <2>1, <2>2
<1>2. CASE \E c \in Callers : Calls(c) \/ Returns(c) \/ Fails(c) \/ OnMemory(c) \/ OnRedis(c)
  <2> PICK c \in Callers : Calls(c) \/ Returns(c) \/ Fails(c) \/ OnMemory(c) \/ OnRedis(c)
    BY <1>2
  <2>1. CASE Calls(c) \/ Returns(c) \/ Fails(c)
    BY <2>1, CallerStep
  <2>2. CASE OnMemory(c)
    BY <2>2, MemoryStep
  <2>3. CASE OnRedis(c)
    BY <2>3, XAddStep, PExpireStep, ReadStep, ExecutesStep, RedisOneStep, LostStep DEF OnRedis
  <2> QED
    BY <2>1, <2>2, <2>3
<1>3. CASE MemoryDies \/ \E key \in Keys : MemoryLapses(key) \/ RedisExpires(key)
  BY <1>3, LossStep
<1> QED
  BY <1>1, <1>2, <1>3 DEF Next

\* Under the invariant, a log whose calls are over has an expiry, unless one failed or was resent after its XADD.
LEMMA InvImplies == StoreInv => LogsExpire
BY DEF StoreInv, LogDated, DatedLog, LogsExpire, Present, Keys

\* Nothing is kept for ever: once its calls are over, a log has an expiry (append in state/memory.py and
\* state/redis.py), unless an append failed between XADD and PEXPIRE or had its XADD resent.
THEOREM LogsDated == Spec => []LogsExpire
<1>1. Init => StoreInv
  BY InitInv
<1>2. StoreInv /\ [Next]_vars => StoreInv'
  BY StoreStep
<1> QED
  BY <1>1, <1>2, InvImplies, PTL DEF Spec

\* Both backends are the store of state/base.py: every call, append_and_set included, takes effect and
\* gets its answer at one instant, whatever others do between its commands; only in Redis, and only after a
\* lost reply (the WatchError of state/redis.py:190), is it done once more.
THEOREM StoreIsAtomic == Spec => IsAtomicStore
<1>1. Init => StoreInv /\ Store!Init
  BY InitInv
<1>2. StoreInv /\ [Next]_vars => StoreInv' /\ [Store!Next]_(Store!vars)
  BY StoreStep
<1> QED
  BY <1>1, <1>2, PTL DEF Spec, IsAtomicStore, Store!Spec
=============================================================================
