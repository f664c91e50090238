---------------------------- MODULE AtomicStore -----------------------------
(***************************************************************************)
(* What state/base.py promises of a state store: an ordered log and a record *)
(* that expire as a whole, and calls that take effect at one instant between *)
(* their start and their return, append_and_set on both at once.  A call may *)
(* fail, before or after its effect.  A store that resends does a call whose *)
(* reply is lost once more: it may then be refused because of what it wrote  *)
(* itself.  StateStores implements it.                                       *)
(***************************************************************************)
EXTENDS Naturals, Sequences

CONSTANTS
  Callers, Positions,
  NoOne,    \* no record, and no answer yet
  Idle      \* no call

VARIABLES
  log,      \* the entries, each with its position and its caller
  rec,      \* who wrote the record
  call,     \* each caller's call
  answer,   \* its answer, once it has taken effect
  resends   \* whether a call whose reply is lost is done once more

vars == <<log, rec, call, answer, resends>>

Keys == {"log", "rec"}

Ops ==
  [do : {"append"}, pos : Positions]
  \cup [do : {"append_and_set"}, pos : Positions, if_exists : BOOLEAN]
  \cup [do : {"delete", "expire"}, key : Keys]
  \cup [do : {"set", "get", "read_range"}]

Top(l) == IF l = <<>> THEN 0 ELSE l[Len(l)].pos
Entry(op, c) == [pos |-> op.pos, by |-> c]

Init ==
  /\ log = <<>> /\ rec = NoOne /\ resends \in BOOLEAN
  /\ call = [c \in Callers |-> Idle] /\ answer = [c \in Callers |-> NoOne]

Answers(c, a) == answer' = [answer EXCEPT ![c] = a]

Start(c) ==
  /\ call[c] = Idle /\ \E op \in Ops : call' = [call EXCEPT ![c] = op]
  /\ UNCHANGED <<log, rec, answer>>

\* An append past the log's last entry, and of a record that is there where it has to be.
Accepted(op) ==
  op.pos > Top(log) /\ ~(op.do = "append_and_set" /\ op.if_exists /\ rec = NoOne)

Append_(c, op) ==
  /\ op.do \in {"append", "append_and_set"}
  /\ IF Accepted(op)
     THEN /\ log' = Append(log, Entry(op, c)) /\ Answers(c, TRUE)
          /\ rec' = IF op.do = "append" THEN rec ELSE c
     ELSE Answers(c, FALSE) /\ UNCHANGED <<log, rec>>

Simple(c, op) ==
  /\ op.do \notin {"append", "append_and_set"}
  /\ rec' = CASE op.do = "set" -> c
              [] op.do = "delete" /\ op.key = "rec" -> NoOne
              [] OTHER -> rec
  /\ log' = IF op.do = "delete" /\ op.key = "log" THEN <<>> ELSE log
  /\ Answers(c, CASE op.do = "get" -> <<rec>> [] op.do = "read_range" -> log [] OTHER -> TRUE)

Effect(c) ==
  /\ call[c] # Idle /\ answer[c] = NoOne
  /\ Append_(c, call[c]) \/ Simple(c, call[c])
  /\ UNCHANGED call

Return(c) ==
  /\ call[c] # Idle /\ call' = [call EXCEPT ![c] = Idle] /\ answer' = [answer EXCEPT ![c] = NoOne]
  /\ UNCHANGED <<log, rec>>

\* The reply is lost, and the call is done once more.
Retry(c) ==
  /\ resends /\ call[c] # Idle /\ answer' = [answer EXCEPT ![c] = NoOne]
  /\ UNCHANGED <<log, rec, call>>

\* A key expires, or the store loses them all.
Lose ==
  /\ \E K \in SUBSET Keys :
       /\ log' = (IF "log" \in K THEN <<>> ELSE log) /\ rec' = (IF "rec" \in K THEN NoOne ELSE rec)
  /\ UNCHANGED <<call, answer>>

Next ==
  /\ Lose \/ \E c \in Callers : Start(c) \/ Effect(c) \/ Retry(c) \/ Return(c)
  /\ UNCHANGED resends

Spec == Init /\ [][Next]_vars
=============================================================================
