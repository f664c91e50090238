---------------------------- MODULE HttpGateway ----------------------------
(***************************************************************************)
(* The gateway's side of a request (openai/api.py): the route, the call to   *)
(* the replica of module ChatStream, the response or stream handed to the    *)
(* client, and the outcome RequestTracker records.                           *)
(***************************************************************************)
EXTENDS ChatStream

VARIABLES
  gate,    \* the handler: its phase, its status, and what it last got from the replica
  client,  \* what was handed to the client, and whether it has left
  metric   \* the outcomes recorded

gatewayVars == <<chatVars, gate, client, metric>>

NoView == [content |-> 0, reasoning |-> 0, calls |-> 0, reasons |-> <<>>]

GatewayInit ==
  /\ ChatInit
  /\ gate = [phase |-> "idle", status |-> "ok", error |-> "none", tries |-> 0]
  /\ client = [code |-> 0, view |-> [i \in ChoiceIds |-> NoView], usage |-> -1, errors |-> 0,
               done |-> FALSE, gone |-> FALSE]
  /\ metric = <<>>

\* RequestTracker.finish: the first one counts.
finish(m, status, error) == IF m = <<>> THEN <<[status |-> status, error |-> error]>> ELSE m
Record(status, error) == metric' = finish(metric, status, error)

\* The error of an exception that carries a status code.
HttpError(code) ==
  CASE code = 400 -> "http_400" [] code = 404 -> "http_404" [] code = 503 -> "http_503"

Replies(code) == gate' = [gate EXCEPT !.phase = "over"] /\ client' = [client EXCEPT !.code = code]

-----------------------------------------------------------------------------
(* The handlers of the endpoints, up to the call.                            *)

\* _get_handle: a model that is not routed.  The exception it raises is recorded again.
NotRouted ==
  /\ gate.phase = "idle" /\ ask.model # "served"
  /\ LET code  == IF ask.model = "expected" THEN 503 ELSE 404
         error == IF ask.model = "expected" THEN "model_not_ready" ELSE "model_not_found"
     IN /\ Replies(code)
        /\ metric' = finish(finish(metric, "error", error), "error", HttpError(code))
  /\ UNCHANGED chatVars

Endpoint(op) == gate.phase = "idle" /\ ask.model = "served" /\ ask.op = op

\* The call to the replica.
Sends ==
  /\ ~ask.unfit
  /\ gate' = [gate EXCEPT !.phase = "first", !.tries = 1]
  /\ work' = "called"
  /\ UNCHANGED <<ask, engine, parsers, out, upstream, wire, failures, client, metric>>

\* What an endpoint itself refuses.
Refuses(codes) ==
  /\ ask.unfit
  /\ \E code \in codes : Replies(code) /\ Record("error", HttpError(code))
  /\ UNCHANGED chatVars

create_chat_completion == Endpoint("chat") /\ Sends

\* A background response that is not to be stored, a conversation that is not found or
\* cannot be read.  Background responses are module BackgroundResponse's.
create_response == Endpoint("response") /\ (Sends \/ Refuses({400, 404, 503}))

\* An empty conversation, too, or one that cannot be summarised.
compact_response ==
  /\ Endpoint("compact")
  /\ \/ Sends \/ Refuses({400, 404, 503})
     \/ ask.unfit /\ Replies(400) /\ Record("error", "validation_error") /\ UNCHANGED chatVars

\* A transcript's format that cannot be streamed.
create_transcriptions == Endpoint("transcription") /\ (Sends \/ Refuses({400}))
create_translations == Endpoint("translation") /\ (Sends \/ Refuses({400}))

create_embeddings == Endpoint("embedding") /\ Sends
create_speech == Endpoint("speech") /\ Sends
create_image == Endpoint("image") /\ Sends
create_image_edit == Endpoint("image_edit") /\ Sends
create_image_variation == Endpoint("image_variation") /\ Sends

-----------------------------------------------------------------------------
(* _await_first and _handle_response.                                        *)

\* compact_response asks once more, without the reasoning effort, after a 400.
Retries(code) == ask.op = "compact" /\ code = 400 /\ gate.tries = 1

AsksAgain ==
  /\ gate.phase = "first"
  /\ \/ wire # <<>> /\ Head(wire).kind = "refusal" /\ Retries(Head(wire).code)
     \/ wire = <<>> /\ work = "raised_value" /\ Retries(400)
  /\ gate' = [gate EXCEPT !.tries = @ + 1]
  /\ work' = "called" /\ wire' = <<>>
  /\ UNCHANGED <<ask, engine, parsers, out, upstream, failures, client, metric>>

\* The generator raised: a ValueError of the replica is the client's fault.
FirstFails ==
  /\ gate.phase = "first" /\ wire = <<>>
  /\ \/ work = "raised_value" /\ ~Retries(400) /\ Replies(400) /\ Record("error", "validation_error")
     \/ work = "raised" /\ Replies(500) /\ Record("error", "unhandled")
  /\ UNCHANGED chatVars

\* An ErrorResponse, or the object: an audio transcript may not render in its format.
FirstIsObject ==
  /\ gate.phase = "first" /\ wire # <<>>
  /\ \/ /\ Head(wire).kind = "refusal" /\ ~Retries(Head(wire).code)
        /\ Replies(Head(wire).code) /\ Record("error", "inference_error")
     \/ Head(wire).kind = "object" /\ Replies(200) /\ Record("ok", "none")
     \/ /\ Head(wire).kind = "object" /\ ask.op \in {"transcription", "translation"}
        /\ Replies(400) /\ Record("error", "invalid_request")
  /\ wire' = <<>>
  /\ UNCHANGED <<ask, work, engine, parsers, out, upstream, failures>>

\* A chunk: the response opens with 200, the body runs later.
FirstIsChunk ==
  /\ gate.phase = "first" /\ wire # <<>> /\ Head(wire).kind \notin {"refusal", "object"}
  /\ gate' = [gate EXCEPT !.phase = "open"]
  /\ client' = [client EXCEPT !.code = 200]
  /\ UNCHANGED <<chatVars, metric>>

-----------------------------------------------------------------------------
(* The body of a stream.                                                     *)

is_failure_chunk(chunk) == chunk.kind = "error"

Viewed(v, chunk) ==
  [content |-> v.content + chunk.delta.content, reasoning |-> v.reasoning + chunk.delta.reasoning,
   calls |-> v.calls + chunk.delta.calls,
   reasons |-> IF chunk.reason = NoReason THEN v.reasons ELSE Append(v.reasons, chunk.reason)]

\* llama-server's chunks are relayed unread: one choice stands for them all.
RelayedTo == CHOOSE i \in ChoiceIds : TRUE

Relayed(c, chunk) ==
  CASE chunk.kind = "delta" -> [c EXCEPT !.view[chunk.choice] = Viewed(@, chunk)]
    [] chunk.kind = "relay" -> [c EXCEPT !.view[RelayedTo] =
                                   Viewed(@, [delta |-> chunk.delta, reason |-> NoReason])]
    [] chunk.kind = "usage" -> [c EXCEPT !.usage = IF ask.loader = "vllm" THEN chunk.tokens
                                                   ELSE chunk.reasoning]
    [] chunk.kind = "error" -> [c EXCEPT !.errors = @ + 1]
    [] chunk.kind = "done" -> [c EXCEPT !.done = TRUE]
    [] OTHER -> c

Passes ==
  /\ gate.phase \in {"open", "body"} /\ wire # <<>>
  /\ gate' = [gate EXCEPT !.phase = "body",
                !.status = IF is_failure_chunk(Head(wire)) THEN "error" ELSE @,
                !.error = IF is_failure_chunk(Head(wire)) THEN "stream_error" ELSE @]
  /\ client' = Relayed(client, Head(wire))
  /\ wire' = <<>>
  /\ UNCHANGED <<ask, work, engine, parsers, out, upstream, failures, metric>>

BodyEnds ==
  /\ gate.phase = "body" /\ wire = <<>> /\ work = "ended"
  /\ gate' = [gate EXCEPT !.phase = "over"]
  /\ Record(gate.status, gate.error)
  /\ UNCHANGED <<chatVars, client>>

\* The replica's failure is told by an error chunk and [DONE]; headers are long sent.
BodyFails ==
  /\ gate.phase = "body" /\ wire = <<>> /\ work \in {"raised", "raised_value"}
  /\ gate' = [gate EXCEPT !.phase = "over", !.status = "error", !.error = "stream_error"]
  /\ client' = [client EXCEPT !.errors = @ + 1, !.done = TRUE]
  /\ Record("error", "stream_error")
  /\ UNCHANGED chatVars

-----------------------------------------------------------------------------
(* The client leaves; what still waits is cancelled.                         *)

Leaves ==
  /\ gate.phase \notin {"idle", "over"} /\ ~client.gone
  /\ client' = [client EXCEPT !.gone = TRUE]
  /\ UNCHANGED <<chatVars, gate, metric>>

\* Mutant: a cancel hides the error before it.
mut_CancelledAs == <<"cancelled", "none">>

\* An error already sent is the outcome.
CancelledAs == IF gate.status = "ok" THEN <<"cancelled", "none">> ELSE <<gate.status, gate.error>>

\* _recorded before the response, the except of _stream in its body; a body that never
\* started records nothing.
Cancels ==
  /\ client.gone /\ gate.phase \in {"first", "open", "body"}
  /\ gate' = [gate EXCEPT !.phase = "over"]
  /\ IF gate.phase = "open" THEN UNCHANGED metric ELSE Record(CancelledAs[1], CancelledAs[2])
  /\ UNCHANGED <<chatVars, client>>

GatewayNext ==
  \/ NotRouted \/ create_chat_completion \/ create_response \/ compact_response \/ create_embeddings
  \/ create_transcriptions \/ create_translations \/ create_speech
  \/ create_image \/ create_image_edit \/ create_image_variation \/ AsksAgain
  \/ FirstFails \/ FirstIsObject \/ FirstIsChunk
  \/ Passes \/ BodyEnds \/ BodyFails \/ Leaves \/ Cancels
  \/ ChatNext /\ UNCHANGED <<gate, client, metric>>

GatewaySpec == GatewayInit /\ [][GatewayNext]_gatewayVars

-----------------------------------------------------------------------------
Complete == gate.phase = "over" /\ client.done /\ client.errors = 0

(* Streaming says what the non-streamed answer would have said               *)
(* (engine_ops.py, _reconcile_trapped_content: "settle the disagreement in    *)
(* favour of the non-streaming answer"): a chat completion streamed by vLLM   *)
(* that ended well, and whose parsers did not raise, has for each choice      *)
(* exactly one finish reason, the content and the tool calls of the parse of  *)
(* its whole text, and the same reason.  What it drops, and the re-parse      *)
(* drops too, is a tool call in reasoning that never closed.                  *)
StreamAgrees ==
  Complete /\ ask.op = "chat" /\ ask.loader = "vllm" /\ failures = 0 =>
    \A i \in ChoiceIds :
      LET v == client.view[i]
          p == FinalOutput(engine[i].reason).choices[i]
          lost == ask.parses /\ ask.thinks /\ Contains(ask.text[i], "call")
                    /\ ~Contains(ask.text[i], "close")
      IN /\ v.content = p.content
         /\ Len(v.reasons) = 1
         /\ ~lost => v.calls = p.calls /\ Last(v.reasons) = p.reason

(* The usage a client asked for counts every token the engine made, the ones  *)
(* of deltas the parser deferred or swallowed included (engine_ops.py,         *)
(* previous_num_tokens); for llama-server its reasoning tokens are those of    *)
(* the reasoning the client was sent, or are left out (_add_reasoning_tokens), *)
(* or no usage comes because llama-server ended its lines early.               *)
UsageCounts ==
  Complete /\ ask.usage =>
    IF ask.loader = "vllm"
    THEN client.usage = Total([i \in ChoiceIds |-> engine[i].tokens])
    ELSE \/ client.usage = client.view[RelayedTo].reasoning
         \/ failures > 0 /\ client.usage \in {0, -1}

(* The recorded outcome is what the client got (api.py, _handle_response and   *)
(* _recorded): one at most, and one exactly unless the client left before the  *)
(* body of a stream began; ok only for an object or a whole stream without an  *)
(* error chunk; an error whenever the client was told one; cancelled only if   *)
(* the client left.                                                            *)
OutcomeMatchesClient ==
  /\ Len(metric) <= 1
  /\ gate.phase = "over" =>
       /\ metric = <<>> => client.gone /\ client.code = 200 /\ ~client.done
       /\ \A i \in 1..Len(metric) :
            LET m == metric[i] IN
            /\ m.status = "ok" => client.code = 200 /\ client.errors = 0
                                    /\ (ask.stream => client.done)
            /\ client.code >= 400 \/ client.errors > 0 => m.status = "error"
            /\ m.status = "error" => client.code >= 400 \/ client.errors > 0
            /\ m.status = "cancelled" => client.gone
            /\ m.error = "model_not_ready" => ask.model = "expected" /\ client.code = 503
            /\ ask.model = "unknown" => m.error = "model_not_found" /\ client.code = 404
=============================================================================
