--------------------------- MODULE ResponseStream ---------------------------
(***************************************************************************)
(* The translation of one loader turn, a stream of chat chunks, into         *)
(* Responses events (openai/protocol/responses/streaming.py).                *)
(*                                                                           *)
(* A translator is the sequence of the channels it has opened, in which a    *)
(* channel's position is its output index, the names of the tool calls and   *)
(* the next sequence number.  Text is left out: an event tells its type, its *)
(* number, its channel and, for a tool item, the name.                       *)
(***************************************************************************)
EXTENDS Naturals, Sequences, SequencesExt

CONSTANT NoName   \* the name of a tool call that no chunk has told yet

Reasoning == <<"reasoning", 0>>
Message == <<"message", 0>>
Tool(i) == <<"tool", i>>
IsTool(ch) == ch[1] = "tool"
IsChannel(ch) == ch \in {Reasoning, Message} \/ (ch[2] \in Nat /\ ch = Tool(ch[2]))

\* The order of _collect_output and _close_all: reasoning, message, tools by index.
Rank(ch) == IF ch = Reasoning THEN 0 ELSE IF ch = Message THEN 1 ELSE 2 + ch[2]

NewTranslator == [open |-> <<>>, named |-> <<>>, seq |-> 0]

Opened(tr, ch) == ch \in Range(tr.open)

\* The output index _take_oi gave the channel.
IndexOf(tr, ch) == (CHOOSE i \in DOMAIN tr.open : tr.open[i] = ch) - 1

\* A translator and the events it has just made.
Made(tr, events) == [tr |-> tr, events |-> events]

Event(tr, type, ch) ==
  [type |-> type, seq |-> 0, ch |-> ch, oi |-> IndexOf(tr, ch),
   name |-> IF IsTool(ch) THEN tr.named[ch[2] + 1] ELSE NoName]
Events(tr, types, ch) == [i \in DOMAIN types |-> Event(tr, types[i], ch)]

\* _event: numbers the events one after the other.
Numbered(tr, events) ==
  Made([tr EXCEPT !.seq = @ + Len(events)],
       [i \in DOMAIN events |-> [events[i] EXCEPT !.seq = tr.seq + i - 1]])

\* start: the two envelopes, which no consumer but the client's edge looks at.
Started == [NewTranslator EXCEPT !.seq = 2]

Opens(tr, ch) == [tr EXCEPT !.open = Append(@, ch)]

\* _on_reasoning and _on_content.
OnText(tr, ch) ==
  IF Opened(tr, ch) THEN Numbered(tr, Events(tr, <<"delta">>, ch))
  ELSE LET next == Opens(tr, ch)
       IN Numbered(next, Events(next, <<"added", "part_added", "delta">>, ch))

\* _on_tool_call: a name may come with a later chunk, and then no event tells it.
OnToolCall(tr, chunk) ==
  LET ch == chunk.ch
      new == ~Opened(tr, ch)
      named == IF new THEN Append(tr.named, chunk.name)
               ELSE [tr.named EXCEPT ![ch[2] + 1] = IF @ = NoName THEN chunk.name ELSE @]
      known == [(IF new THEN Opens(tr, ch) ELSE tr) EXCEPT !.named = named]
      types == (IF new THEN <<"added">> ELSE <<>>)
                 \o (IF chunk.arguments THEN <<"args_delta">> ELSE <<>>)
  IN Numbered(known, Events(known, types, ch))

\* process.
Process(tr, chunk) ==
  IF IsTool(chunk.ch) THEN OnToolCall(tr, chunk) ELSE OnText(tr, chunk.ch)

\* _collect_output: reasoning, message, then the tools by index.
CollectOutput(tr) ==
  (IF Opened(tr, Reasoning) THEN <<Reasoning>> ELSE <<>>)
    \o (IF Opened(tr, Message) THEN <<Message>> ELSE <<>>)
    \o [i \in DOMAIN tr.named |-> Tool(i - 1)]

\* _close_all: one item after the other.
CloseAll(tr) ==
  LET Closing(ch) ==
        IF Opened(tr, ch) THEN Events(tr, <<"text_done", "part_done", "done">>, ch) ELSE <<>>
  IN Closing(Reasoning) \o Closing(Message)
       \o [i \in 1..(2 * Len(tr.named)) |->
             Event(tr, IF i % 2 = 1 THEN "args_done" ELSE "done", Tool((i - 1) \div 2))]

\* finish and fail: the items are closed and the envelope carries the output.
Ends(tr, type) ==
  Numbered(tr, Append(CloseAll(tr), [type |-> type, seq |-> 0, output |-> CollectOutput(tr)]))
=============================================================================
