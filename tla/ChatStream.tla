----------------------------- MODULE ChatStream -----------------------------
(***************************************************************************)
(* How a replica answers a chat completion: engine_ops.py drives vLLM's      *)
(* engine and its parsers, llama_server_infer.py relays llama-server's       *)
(* stream, and the seams of BaseInfer turn either into chunks or an object.  *)
(*                                                                           *)
(* A choice's text is a sequence of pieces: a word, the marker that closes   *)
(* the reasoning, a tool call.  Of what is emitted only the number of words  *)
(* and of calls is kept.  The engines and vLLM's parsers are external.       *)
(***************************************************************************)
EXTENDS Integers, Sequences, FiniteSets, FiniteSetsExt, SequencesExt

CONSTANTS
  ChoiceIds,     \* the choices of a request, indices from 0 in the code
  Asks,        \* the requests a behaviour may be about
  MaxLines,    \* how many lines llama-server's stream has
  MaxFailures  \* how many failures a behaviour has

\* What a text is made of.
Pieces == {"word", "close", "call"}

\* Only a chat completion has stream_options; it has a choice at least, and each choice a
\* text of pieces.
ASSUME AskAssumption ==
  /\ ChoiceIds # {}
  /\ \A a \in Asks : /\ a.usage => a.op = "chat"
                     /\ a.text \in [ChoiceIds -> Seq(Pieces)] /\ {a.thinks, a.parses} \subseteq BOOLEAN

VARIABLES
  ask,       \* the request: its loader and options, and the text the engine will make of it
  work,      \* where the replica's generator is
  engine,    \* the engine's progress with each choice
  parsers,   \* vLLM's streaming parser of each choice
  out,       \* what stream_chat_completion keeps for each choice
  upstream,  \* llama-server's stream, as _raw_stream_chunks has read it
  wire,      \* the chunk the replica has yielded and the gateway has not taken
  failures   \* failures so far

chatVars == <<ask, work, engine, parsers, out, upstream, wire, failures>>

NoReason == "none"
NoDelta == [content |-> 0, reasoning |-> 0, calls |-> 0]

Words(s) == Cardinality({j \in 1..Len(s) : s[j] = "word"})
Calls(s) == Cardinality({j \in 1..Len(s) : s[j] = "call"})
UpTo(s) == IF Contains(s, "close") THEN Min({j \in 1..Len(s) : s[j] = "close"}) ELSE Len(s)

\* The parsers (vLLM's): reasoning ends at its marker, if the prompt asked for reasoning.
\* A whole text without the marker has none; a stream cannot know that yet, and leaves
\* in the reasoning what it sent as reasoning.
Parse(thinks, s) ==
  LET rest == IF thinks /\ Contains(s, "close") THEN SubSeq(s, UpTo(s) + 1, Len(s)) ELSE s
  IN [content |-> Words(rest), reasoning |-> Words(s) - Words(rest), calls |-> Calls(rest)]

ParseDelta(reasoning, s) ==
  LET k    == IF reasoning THEN UpTo(s) ELSE 0
      rest == SubSeq(s, k + 1, Len(s))
  IN [content |-> Words(rest), reasoning |-> Words(SubSeq(s, 1, k)) + Calls(SubSeq(s, 1, k)),
      calls |-> Calls(rest)]

ChatInit ==
  /\ ask \in Asks
  /\ work = "idle"
  /\ engine = [i \in ChoiceIds |-> [made |-> 0, tokens |-> 0, reason |-> NoReason]]
  /\ parsers = [i \in ChoiceIds |-> [reasoning |-> ask.thinks, held |-> <<>>]]
  /\ out = [i \in ChoiceIds |-> [tokens |-> 0, text |-> <<>>, sent |-> FALSE, tools |-> FALSE,
                               content |-> FALSE, reasoning |-> FALSE]]
  /\ upstream = [lines |-> 0, reasoning |-> 0, told |-> FALSE, done |-> FALSE]
  /\ wire = <<>>
  /\ failures = 0

Fails == failures < MaxFailures /\ failures' = failures + 1
Yield(chunk) == wire = <<>> /\ wire' = <<chunk>>
Refusal(code) == [kind |-> "refusal", code |-> code]
Moves(here, there) == work = here /\ work' = there

Total(f) == FoldSet(LAMBDA i, n : f[i] + n, 0, ChoiceIds)

-----------------------------------------------------------------------------
(* The seams.                                                                *)

\* create_chat_completion, create_response: what fails before generation is an object.
Prepares ==
  /\ work = "called" /\ ask.op \in {"chat", "compact"}
  /\ \/ Moves("called", IF ~ask.stream THEN "blocking"
                        ELSE IF ask.loader = "vllm" THEN "first" ELSE "connecting")
        /\ UNCHANGED <<wire, failures>>
     \/ Moves("called", "ended") /\ Fails /\ Yield(Refusal(400))
     \/ \E how \in {"raised", "raised_value"} : Moves("called", how) /\ Fails /\ UNCHANGED wire
  /\ UNCHANGED <<ask, engine, parsers, out, upstream>>

\* The other operations return one object, or refuse with one of their loader's codes.
Answers(op, codes) ==
  /\ work = "called" /\ ask.op = op /\ ~ask.stream
  /\ \/ Moves("called", "ended") /\ Yield([kind |-> "object"]) /\ UNCHANGED failures
     \/ \E code \in codes : Moves("called", "ended") /\ Fails /\ Yield(Refusal(code))
     \/ \E how \in {"raised", "raised_value"} : Moves("called", how) /\ Fails /\ UNCHANGED wire
  /\ UNCHANGED <<ask, engine, parsers, out, upstream>>

\* Refused with 400 is what cannot be decoded, sized, spoken or served by the loader; what
\* llama-server gives no proper answer to is a 502.
Responds == Answers("response", {400, 502})
Embeds == Answers("embedding", {400, 502})
Transcribes == Answers("transcription", {400})
Translates == Answers("translation", {400})
Speaks == Answers("speech", {400})
DrawsImage == Answers("image", {400})
EditsImage == Answers("image_edit", {400})
VariesImage == Answers("image_variation", {400})

\* A failure of the engine in a stream becomes an error chunk, then the end of the stream.
FailsInStream ==
  /\ work \in {"first", "streaming", "connecting", "relaying"}
  /\ Fails /\ Yield([kind |-> "error"]) /\ work' = "closing"
  /\ UNCHANGED <<ask, engine, parsers, out, upstream>>

Closes ==
  /\ Moves("closing", "ended") /\ Yield([kind |-> "done"])
  /\ UNCHANGED <<ask, engine, parsers, out, upstream, failures>>

ReplicaDies ==
  /\ work \notin {"idle", "ended", "raised", "raised_value"}
  /\ Fails /\ work' = "raised"
  /\ UNCHANGED <<ask, engine, parsers, out, upstream, wire>>

-----------------------------------------------------------------------------
(* vLLM.                                                                     *)

finish_reason_for_choice(has_calls, reason) ==
  IF has_calls /\ ~ask.named THEN "tool_calls" ELSE reason

\* The id of a stop token is counted; its text is dropped.
Ids(n, reason) == n + (IF reason = "stop" THEN 1 ELSE 0)

\* consume_final_output, build_choices: one parse of each whole text.
FinalOutput(reason) ==
  [kind |-> "object", usage |-> Total([i \in ChoiceIds |-> Ids(Len(ask.text[i]), reason)]),
   choices |-> [i \in ChoiceIds |->
     LET p == IF ask.parses THEN Parse(ask.thinks, ask.text[i])
              ELSE [NoDelta EXCEPT !.content = Len(ask.text[i])]
     IN [content |-> p.content, reasoning |-> p.reasoning, calls |-> p.calls,
         reason |-> finish_reason_for_choice(p.calls > 0, reason)]]]

GeneratesAll ==
  /\ work = "blocking" /\ ask.loader = "vllm"
  /\ \/ \E reason \in {"stop", "length"} :
          Moves("blocking", "ended") /\ Yield(FinalOutput(reason)) /\ UNCHANGED failures
     \/ Moves("blocking", "ended") /\ Fails /\ Yield(Refusal(400))
     \/ Moves("blocking", "raised") /\ Fails /\ UNCHANGED wire
  /\ UNCHANGED <<ask, engine, parsers, out, upstream>>

\* The engine's first output makes the role chunk.
Opens ==
  /\ Moves("first", "streaming") /\ Yield([kind |-> "role"])
  /\ UNCHANGED <<ask, engine, parsers, out, upstream, failures>>

\* Mutant: only what is emitted is remembered.
mut_Accumulated(o, pieces, ids, emits) ==
  [o EXCEPT !.tokens = @ + ids, !.text = IF o.content \/ ~emits THEN @ ELSE @ \o pieces]

\* Mutant: only what is emitted is counted.
mut_Counted(o, pieces, ids, emits) ==
  [o EXCEPT !.tokens = IF emits THEN @ + ids ELSE @, !.text = IF o.content THEN @ ELSE @ \o pieces]

\* The text is kept until content was streamed.
Accumulated(o, pieces, ids, emits) ==
  [o EXCEPT !.tokens = @ + ids, !.text = IF o.content THEN @ ELSE @ \o pieces]

Streamed(o, delta) ==
  [o EXCEPT !.content = @ \/ delta.content > 0, !.text = IF delta.content > 0 THEN <<>> ELSE @,
            !.reasoning = @ \/ delta.reasoning > 0, !.tools = @ \/ delta.calls > 0]

\* Everything went out as reasoning: the answer may be in it.
MayBeTrapped(o) == ask.parses /\ o.reasoning /\ ~o.content /\ ~o.tools

\* A parse of the whole text by a new parser, which may raise: then nothing is recovered.
reconcile_trapped_content(o) == IF MayBeTrapped(o) THEN Parse(ask.thinks, o.text).content ELSE 0

\* One output of the engine for choice i: n more pieces, parsed up to the k-th of those
\* the parser has; the last one with a reason.
Output(i, n, k, reason) ==
  LET last   == reason # NoReason
      pieces == SubSeq(ask.text[i], engine[i].made + 1, engine[i].made + n)
      held   == parsers[i].held \o pieces
      taken  == SubSeq(held, 1, k)
      delta  == IF ask.parses THEN ParseDelta(parsers[i].reasoning, taken)
                ELSE [NoDelta EXCEPT !.content = n]
      emits  == last \/ ~ask.parses \/ delta # NoDelta
      o      == Streamed(Accumulated(out[i], pieces, Ids(n, reason), emits), delta)
      found  == IF last THEN reconcile_trapped_content(o) ELSE 0
      chunk(c) == [kind |-> "delta", choice |-> i,
                   delta |-> [delta EXCEPT !.content = @ + c],
                   reason |-> IF last THEN finish_reason_for_choice(o.tools, reason) ELSE NoReason]
  IN /\ work = "streaming" /\ ~out[i].sent /\ wire = <<>>
     /\ engine' = [engine EXCEPT ![i] = [made |-> @.made + n, tokens |-> @.tokens + Ids(n, reason),
                                         reason |-> reason]]
     /\ parsers' = [parsers EXCEPT ![i] =
          [reasoning |-> @.reasoning /\ ~Contains(taken, "close"),
           held |-> IF ask.parses THEN SubSeq(held, k + 1, Len(held)) ELSE <<>>]]
     /\ out' = [out EXCEPT ![i] = [o EXCEPT !.sent = last]]
     /\ \/ emits /\ Yield(chunk(found)) /\ UNCHANGED failures
        \/ ~emits /\ UNCHANGED <<wire, failures>>
        \/ found > 0 /\ Fails /\ Yield(chunk(0))
     /\ UNCHANGED <<ask, work, upstream>>

\* An output without text or ids before the first token (chunked prefill), and one for a
\* choice that has finished, are passed over; the engine ends no choice before its first token.
Outputs ==
  \E i \in ChoiceIds :
    LET left == Len(ask.text[i]) - engine[i].made IN
    \E n \in 0..left, reason \in {NoReason, "stop", "length"} :
      LET held == Len(parsers[i].held) + n IN
      \E k \in 0..held :
        /\ n > 0 \/ (reason # NoReason /\ engine[i].tokens + Ids(n, reason) > 0)
        /\ reason # NoReason => n = left /\ k = held
        /\ Output(i, n, k, reason)

\* The engine has finished: the tokens are counted, and the client told if it asked.
Finishes ==
  /\ work = "streaming" /\ \A i \in ChoiceIds : engine[i].reason # NoReason
  /\ work' = "closing"
  /\ IF ask.usage
     THEN Yield([kind |-> "usage", tokens |-> Total([i \in ChoiceIds |-> out[i].tokens])])
     ELSE UNCHANGED wire
  /\ UNCHANGED <<ask, engine, parsers, out, upstream, failures>>

-----------------------------------------------------------------------------
(* llama-server.                                                             *)

\* _post_chat: its HTTP errors keep their code, all else that is no answer is a 502.
post_chat ==
  /\ work = "blocking" /\ ask.loader = "llama_server"
  /\ work' = "ended"
  /\ \/ Yield([kind |-> "object"]) /\ UNCHANGED failures
     \/ \E code \in {400, 502} : Fails /\ Yield(Refusal(code))
  /\ UNCHANGED <<ask, engine, parsers, out, upstream>>

StreamConnects ==
  /\ Moves("connecting", "relaying")
  /\ UNCHANGED <<ask, engine, parsers, out, upstream, wire, failures>>

Heard(delta) == [upstream EXCEPT !.lines = @ + 1, !.reasoning = @ + delta.reasoning]

\* A line with a chunk; nothing after [DONE] is looked at.
Relays ==
  /\ work = "relaying" /\ ~upstream.done /\ ~upstream.told /\ upstream.lines < MaxLines
  /\ \E delta \in {[NoDelta EXCEPT !.content = 1], [NoDelta EXCEPT !.reasoning = 1]} :
       /\ Yield([kind |-> "relay", delta |-> delta])
       /\ upstream' = Heard(delta)
  /\ UNCHANGED <<ask, work, engine, parsers, out, failures>>

\* What is no JSON object, or comes after [DONE], is passed over.
SkipsLine ==
  /\ work = "relaying" /\ upstream.lines < MaxLines
  /\ upstream' = [upstream EXCEPT !.lines = @ + 1]
  /\ UNCHANGED <<ask, work, engine, parsers, out, wire, failures>>

\* The usage gets the number of reasoning tokens, unless /tokenize fails.
RelaysUsage ==
  /\ work = "relaying" /\ ~upstream.done /\ ask.usage /\ ~upstream.told
  /\ upstream' = [upstream EXCEPT !.told = TRUE]
  /\ \/ Yield([kind |-> "usage", reasoning |-> upstream.reasoning]) /\ UNCHANGED failures
     \/ upstream.reasoning > 0 /\ Fails /\ Yield([kind |-> "usage", reasoning |-> 0])
  /\ UNCHANGED <<ask, work, engine, parsers, out>>

\* llama-server's last line; the rest is read so that the connection can be used again.
ReadsDone ==
  /\ work = "relaying" /\ ~upstream.done /\ (ask.usage => upstream.told)
  /\ upstream' = [upstream EXCEPT !.done = TRUE]
  /\ UNCHANGED <<ask, work, engine, parsers, out, wire, failures>>

\* The lines end, and with them the stream, whether [DONE] was among them or not.
StreamEnds ==
  /\ Moves("relaying", "closing")
  /\ IF upstream.done THEN UNCHANGED failures ELSE Fails
  /\ UNCHANGED <<ask, engine, parsers, out, upstream, wire>>

-----------------------------------------------------------------------------
(* whisper.cpp and sherpa-onnx stream a chunk for each segment, and close    *)
(* with an event of their own.                                               *)

\* An unknown voice is refused; audio that cannot be decoded is an error in the stream.
StartsSegments ==
  /\ work = "called" /\ ask.stream /\ ask.op \in {"transcription", "translation", "speech"}
  /\ \/ Moves("called", "segments") /\ UNCHANGED <<wire, failures>>
     \/ ask.op = "speech" /\ Moves("called", "ended") /\ Fails /\ Yield(Refusal(400))
  /\ UNCHANGED <<ask, engine, parsers, out, upstream>>

EmitsSegment ==
  /\ work = "segments" /\ upstream.lines < MaxLines
  /\ upstream' = Heard(NoDelta) /\ Yield([kind |-> "relay", delta |-> [NoDelta EXCEPT !.content = 1]])
  /\ UNCHANGED <<ask, work, engine, parsers, out, failures>>

SegmentsEnd ==
  /\ Moves("segments", "ended") /\ Yield([kind |-> "done"])
  /\ UNCHANGED <<ask, engine, parsers, out, upstream, failures>>

\* A transcript's failure is told in the stream, speech's is raised.
SegmentsFail ==
  /\ Fails
  /\ \/ ask.op # "speech" /\ Moves("segments", "ended") /\ Yield([kind |-> "error"])
     \/ ask.op = "speech" /\ Moves("segments", "raised") /\ UNCHANGED wire
  /\ UNCHANGED <<ask, engine, parsers, out, upstream>>

ChatNext ==
  \/ Prepares \/ FailsInStream \/ Closes \/ ReplicaDies
  \/ Responds \/ Embeds \/ Transcribes \/ Translates \/ Speaks \/ DrawsImage \/ EditsImage \/ VariesImage
  \/ GeneratesAll \/ Opens \/ Outputs \/ Finishes
  \/ post_chat \/ StreamConnects \/ Relays \/ SkipsLine \/ RelaysUsage \/ ReadsDone \/ StreamEnds
  \/ StartsSegments \/ EmitsSegment \/ SegmentsEnd \/ SegmentsFail
=============================================================================
