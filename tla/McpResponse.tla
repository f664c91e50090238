---------------------------- MODULE McpResponse -----------------------------
(***************************************************************************)
(* A conversation over /v1/responses whose requests name one MCP server: the *)
(* gateway's tool loop (openai/mcp/loop.py), the translator of the loader's  *)
(* turns (ResponseStream), the connection to the server (mcp/client.py) and  *)
(* the history that the next request continues.                              *)
(*                                                                           *)
(* An item's id is the response, the turn and the channel that made it;      *)
(* turn 0 is the loop itself.  The bodies of items and the usage sums are    *)
(* left out.  One server: a name clash is one with a tool of the client.     *)
(***************************************************************************)
EXTENDS ResponseStream, FiniteSets, FiniteSetsExt

CONSTANTS
  Guarded,      \* the server's tools that require approval
  ClientTools,  \* the function tools the client runs itself
  Listings,     \* the sets of tools tools/list may return
  Allowed,      \* the allowed_tools a request may name
  Limits,       \* the max_tool_calls a request may name
  NoLimit,      \* no max_tool_calls
  TurnCap,      \* DEFAULT_TURN_CAP
  Chunks,       \* the chunks a loader may stream
  MaxRequests,  \* requests in a conversation
  MaxChunks,    \* chunks in a conversation
  Faults,       \* the kinds of fault a behaviour may have
  MaxFaults     \* how many faults a behaviour may have

McpFaultKinds ==
  {"client",   \* the client goes away
   "server",   \* the MCP server fails a request
   "expiry",   \* the MCP server has dropped the session
   "loader",   \* the loader fails a turn or refuses it
   "store",    \* the finished response cannot be stored
   "unknown"}  \* an answer names an approval request nobody made

ASSUME McpAssumption ==
  /\ TurnCap \in Nat \ {0}
  /\ MaxRequests \in Nat /\ MaxChunks \in Nat
  /\ \A chunk \in Chunks : IsChannel(chunk.ch) /\ chunk.arguments \in BOOLEAN
  /\ \A allowed \in Allowed : NoName \notin allowed
  /\ Faults \subseteq McpFaultKinds /\ MaxFaults \in Nat

VARIABLES
  past,     \* the items stored up to the response the next request continues
  made,     \* requests so far
  req,      \* the request: allowed_tools, max_tool_calls and its own input items
  pc,       \* where the loop is
  tools,    \* the names in tool_index
  out,      \* accumulator: the items at their output index, or Hole
  st,       \* the stitcher
  tr,       \* the loader's translator
  inbox,    \* the events it has made that the loop has not taken
  turn,     \* turns so far
  at,       \* the next input item, or the next pending call, to look at
  calls,    \* executed_call_count
  retried,  \* the request to the server is the one on a new connection
  conn,     \* the connection to the server
  (* history *)
  ran,      \* the executions of tools: item, approval request and name
  grants,   \* the approvals that clients have sent, one by one
  mixed,    \* a turn of the response opened its channels in another order than Rank
  chunks,   \* chunks so far
  faults    \* faults so far

mcpVars == <<past, made, req, pc, tools, out, st, tr, inbox, turn, at, calls, retried, conn, ran,
          grants, mixed, chunks, faults>>
requestVars == <<past, made, req>>
loaderVars == <<tr, inbox>>
loopVars == <<turn, at, calls>>
inputVars == <<grants, mixed, chunks>>
serverVars == <<retried, conn, ran>>

Mishap(kind) == kind \in Faults /\ faults < MaxFaults /\ faults' = faults + 1
NoMishap == UNCHANGED faults

Terminal == {"completed", "incomplete", "failed", "error"}

NoApproval == <<>>
Nobodys == <<0, 0, <<"nobody", 0>>>>

Id(t, ch) == <<made, t, ch>>
Plain(kind, id) == [kind |-> kind, id |-> id]
Hole == Plain("hole", <<>>)
Call(id, name, of, ok) == [kind |-> "call", id |-> id, name |-> name, of |-> of, ok |-> ok]
Approval(id, name) == [kind |-> "approval", id |-> id, name |-> name]
Answer(of, approve) == [kind |-> "answer", of |-> of, approve |-> approve]

Input == past \o req.items   \* original_input_items

NewStitcher ==
  [seq |-> 0, offset |-> 0, buf |-> <<>>, pending |-> <<>>, client |-> FALSE, placed |-> {},
   sent |-> <<>>]

McpInit ==
  /\ past = <<>> /\ made = 0 /\ req = [allowed |-> {}, max |-> NoLimit, items |-> <<>>]
  /\ pc = "idle" /\ tools = {} /\ out = <<>> /\ st = NewStitcher
  /\ tr = NewTranslator /\ inbox = <<>>
  /\ turn = 0 /\ at = 1 /\ calls = 0 /\ retried = FALSE /\ conn = "none"
  /\ ran = <<>> /\ grants = <<>> /\ mixed = FALSE /\ chunks = 0 /\ faults = 0

-----------------------------------------------------------------------------
(* The stitcher.                                                             *)

\* stamped: an envelope.
Envelope(s, type) ==
  [s EXCEPT !.seq = @ + 1, !.sent = Append(@, [type |-> type, seq |-> s.seq])]

\* stamped and _stamp: events of an item at its output index in the response.
Send(s, types, oi, id) ==
  [s EXCEPT !.seq = @ + Len(types),
            !.sent = @ \o [i \in DOMAIN types |->
                             [type |-> types[i], seq |-> s.seq + i - 1, oi |-> oi, id |-> id]]]

\* claim_slot, for an item whose first events follow.
Claim(s, types, id) == Send([s EXCEPT !.offset = @ + 1], types, s.offset, id)

\* _classify.
Class(name) ==
  IF name \notin tools THEN "client" ELSE IF name \in Guarded THEN "mcp_approval" ELSE "mcp"

Buffered(s, ch) == s.buf[ch[2] + 1]

\* _flush: the name is known; what was held back is sent, or dropped.
Flush(s, ch, name) ==
  LET raw == Buffered(s, ch).raw
      class == Class(name)
      oi == raw[1].oi + s.offset
      told == [s EXCEPT !.buf[ch[2] + 1] = [class |-> class, oi |-> oi, raw |-> <<>>]]
  IN IF class = "mcp_approval" THEN told
     ELSE Send(told, [i \in DOMAIN raw |-> raw[i].type], oi, Id(turn, ch))

\* _stamp.
Forward(s, e) == Send(s, <<e.type>>, e.oi + s.offset, Id(turn, e.ch))

\* A call that the loop answers itself.
Ours(s, ch) == IsTool(ch) /\ Buffered(s, ch).class # "client"

\* The items of a turn that are not calls of the loop, placed by their position in its output.
TurnOutput(s, output) ==
  {[oi   |-> s.offset + i - 1,
    item |-> Plain(IF IsTool(output[i]) THEN "function" ELSE output[i][1], Id(turn, output[i]))] :
     i \in {j \in DOMAIN output : ~Ours(s, output[j])}}

\* Mutant: the calls of the loop take no slot of their own.
mut_Placed(s, output) ==
  [s EXCEPT !.placed = TurnOutput(s, output),
            !.client = \E i \in DOMAIN output : IsTool(output[i]) /\ ~Ours(s, output[i]),
            !.offset = @ + Cardinality(TurnOutput(s, output))]

\* The completed or incomplete event of a turn.
Placed(s, output) ==
  [s EXCEPT !.placed = TurnOutput(s, output),
            !.client = \E i \in DOMAIN output : IsTool(output[i]) /\ ~Ours(s, output[i]),
            !.offset = @ + Len(output)]

\* The events of a tool item.
OnToolEvent(s, e) ==
  LET i == e.ch[2] + 1
      opened == [s EXCEPT !.buf = Append(@, [class |-> "unknown", oi |-> 0, raw |-> <<e>>])]
      held == [s EXCEPT !.buf[i].raw = Append(@, e)]
      named == IF Buffered(s, e.ch).class = "unknown" THEN Flush(s, e.ch, e.name) ELSE s
      pended == [named EXCEPT !.pending = Append(@, e.ch)]
  IN CASE e.type = "added" -> IF e.name = NoName THEN opened ELSE Flush(opened, e.ch, e.name)
       [] e.type = "done" ->
            IF Buffered(named, e.ch).class = "client" THEN Forward(named, e) ELSE pended
       [] OTHER ->
            CASE Buffered(s, e.ch).class = "unknown" -> held
              [] Buffered(s, e.ch).class = "mcp_approval" -> s
              [] OTHER -> Forward(s, e)

\* run_turn, one event of an item.
Absorb(s, e) == IF IsTool(e.ch) THEN OnToolEvent(s, e) ELSE Forward(s, e)

-----------------------------------------------------------------------------
(* A request and the discovery of the server's tools.                        *)

\* The approval requests a client may answer: those in the history without an answer.
Unanswered ==
  {past[i].id : i \in {j \in DOMAIN past : past[j].kind = "approval"}}
    \ {past[i].of : i \in {j \in DOMAIN past : past[j].kind = "answer"}}

\* The input of a request: a message of its own, or an answer to an approval request.
MayAsk ==
  {<<Plain("input", <<made + 1, 0, <<"input", 0>>>>)>>, <<Answer(Nobodys, TRUE)>>}
    \cup {<<Answer(id, TRUE)>> : id \in Unanswered} \cup {<<Answer(id, FALSE)>> : id \in Unanswered}

\* create_response up to the first event.  An answer without a response to continue is
\* refused before it.
Starts ==
  /\ pc = "idle" /\ made < MaxRequests /\ made' = made + 1
  /\ \E allowed \in Allowed, max \in Limits, items \in MayAsk :
       /\ req' = [allowed |-> allowed, max |-> max, items |-> items]
       /\ IF items[1].kind = "answer" /\ items[1].of = Nobodys THEN Mishap("unknown") ELSE NoMishap
       /\ grants' = IF items[1].kind = "answer" /\ items[1].approve
                    THEN Append(grants, items[1].of) ELSE grants
       /\ IF items[1].kind = "answer" /\ past = <<>>
          THEN pc' = "idle" /\ st' = Envelope(NewStitcher, "error")
          ELSE pc' = "discover" /\ st' = Envelope(Envelope(NewStitcher, "created"), "in_progress")
  /\ tools' = {} /\ out' = <<>> /\ tr' = NewTranslator /\ inbox' = <<>>
  /\ turn' = 0 /\ at' = 1 /\ calls' = 0 /\ retried' = FALSE /\ conn' = "none"
  /\ mixed' = FALSE
  /\ UNCHANGED <<past, ran, chunks>>

\* The newest listing the conversation stored (_mcp_listings).
Listed == {i \in DOMAIN past : past[i].kind = "list"}
Stored == past[Max(Listed)]

\* _stored_tools: the listing of a tool the request has not changed.
Reusable == Listed # {} /\ Stored.allowed = req.allowed

\* The client's tools are the ones it had when the listing was checked against them.
Reuses ==
  /\ pc = "discover" /\ Reusable /\ NoMishap
  /\ tools' = Stored.tools \cap req.allowed /\ pc' = "resume"
  /\ UNCHANGED <<requestVars, out, st, loaderVars, loopVars, serverVars, inputVars>>

ListId == Id(0, <<"list", 0>>)

Lists ==
  /\ pc = "discover" /\ ~Reusable /\ NoMishap
  /\ st' = Claim(st, <<"added", "list_started">>, ListId)
  /\ conn' = "open" /\ retried' = FALSE /\ pc' = "listing"
  /\ UNCHANGED <<requestVars, tools, out, loaderVars, loopVars, ran, inputVars>>

\* filter_tools and check_collisions.
ListReturns ==
  /\ pc = "listing" /\ conn = "open" /\ NoMishap
  /\ \E listing \in Listings :
       LET filtered == listing \cap req.allowed
           told == Send(st, <<"list_ended", "done">>, 0, ListId)
       IN /\ tools' = filtered
          /\ out' = Append(out, [kind |-> "list", id |-> ListId, tools |-> filtered,
                                 allowed |-> req.allowed])
          /\ IF filtered \cap ClientTools = {}
             THEN pc' = "resume" /\ st' = told /\ UNCHANGED conn
             ELSE pc' = "idle" /\ st' = Envelope(told, "failed") /\ conn' = "closed"
  /\ UNCHANGED <<requestVars, loaderVars, loopVars, retried, ran, inputVars>>

ListFails ==
  /\ pc = "listing" /\ conn = "open" /\ Mishap("server")
  /\ out' = Append(out, Plain("list_failed", ListId))
  /\ st' = Envelope(Send(st, <<"list_ended", "done">>, 0, ListId), "failed")
  /\ pc' = "idle" /\ conn' = "closed"
  /\ UNCHANGED <<requestVars, tools, loaderVars, loopVars, retried, ran, inputVars>>

-----------------------------------------------------------------------------
(* The approvals in the input, each in its turn.                             *)

Answers == {i \in at..Len(Input) : Input[i].kind = "answer"}
This == Input[Min(Answers)]

\* approval_requests_by_id.
Requested == {i \in DOMAIN Input : Input[i].kind = "approval" /\ Input[i].id = This.of}
Known == Requested # {}
Subject == Input[CHOOSE i \in Requested : TRUE]
ResumeId == Id(0, <<"resume", Min(Answers)>>)

ResumesNone ==
  /\ pc = "resume" /\ Answers = {} /\ NoMishap /\ pc' = "turn"
  /\ UNCHANGED <<requestVars, tools, out, st, loaderVars, loopVars, serverVars, inputVars>>

\* An ErrorResponse, after response.created.
ResumesUnknown ==
  /\ pc = "resume" /\ Answers # {} /\ ~Known /\ NoMishap
  /\ st' = Envelope(st, "error") /\ pc' = "idle" /\ conn' = "closed"
  /\ UNCHANGED <<requestVars, tools, out, loaderVars, loopVars, retried, ran, inputVars>>

\* Mutant: the answer is not looked at.
mut_Runs == Known /\ Subject.name \in tools

Runs == Known /\ This.approve /\ Subject.name \in tools

\* An approved call of a tool that is still there.
ResumesCall ==
  /\ pc = "resume" /\ Answers # {} /\ Runs /\ NoMishap
  /\ st' = Claim(st, <<"added", "args_delta", "args_done">>, ResumeId)
  /\ conn' = "open" /\ retried' = FALSE /\ pc' = "resuming"
  /\ UNCHANGED <<requestVars, tools, out, loaderVars, loopVars, ran, inputVars>>

\* A refused call, or one of a tool that is gone.
ResumesRefused ==
  /\ pc = "resume" /\ Answers # {} /\ Known /\ ~Runs /\ NoMishap
  /\ st' = Claim(st, <<"added", "call_started", "call_ended", "done">>, ResumeId)
  /\ out' = Append(out, Call(ResumeId, Subject.name, This.of, FALSE))
  /\ at' = Min(Answers) + 1
  /\ UNCHANGED <<requestVars, pc, tools, loaderVars, turn, calls, serverVars, inputVars>>

-----------------------------------------------------------------------------
(* A turn of the loader.                                                     *)

\* A hole in the input is refused by the loader's adapter (messages_from_input).
StartsTurn ==
  /\ pc = "turn" /\ NoMishap /\ turn' = turn + 1 /\ tr' = Started /\ inbox' = <<>>
  /\ at' = 1
  /\ st' = [st EXCEPT !.buf = <<>>, !.pending = <<>>, !.client = FALSE, !.placed = {}]
  /\ pc' = IF Hole \in Range(out) THEN "refused" ELSE "streaming"
  /\ UNCHANGED <<requestVars, tools, out, calls, serverVars, inputVars>>

\* Which channels a chunk may open: tools by their index.
MayOpen(ch) ==
  IsTool(ch) /\ ch[2] > 0 => Opened(tr, Tool(ch[2] - 1))

OutOfOrder(t) == \E i, j \in DOMAIN t.open : i < j /\ Rank(t.open[i]) > Rank(t.open[j])

\* The loader goes on once the events of its last chunk are taken.
Streams ==
  /\ pc = "streaming" /\ inbox = <<>> /\ chunks < MaxChunks /\ NoMishap /\ chunks' = chunks + 1
  /\ \E chunk \in Chunks :
       /\ Opened(tr, chunk.ch) \/ MayOpen(chunk.ch)
       /\ LET next == Process(tr, chunk)
          IN tr' = next.tr /\ inbox' = next.events /\ mixed' = (mixed \/ OutOfOrder(next.tr))
  /\ UNCHANGED <<requestVars, pc, tools, out, st, loopVars, serverVars, grants>>

\* The end of its stream, by finish or by fail.
StreamEnds ==
  /\ pc = "streaming" /\ inbox = <<>>
  /\ \E type \in {"completed", "failed"} :
       /\ IF type = "failed" THEN Mishap("loader") ELSE NoMishap
       /\ LET next == Ends(tr, type) IN tr' = next.tr /\ inbox' = next.events
  /\ UNCHANGED <<requestVars, pc, tools, out, st, loopVars, serverVars, inputVars>>

Absorbs ==
  /\ pc = "streaming" /\ inbox # <<>> /\ Head(inbox).type \notin Terminal /\ NoMishap
  /\ st' = Absorb(st, Head(inbox)) /\ inbox' = Tail(inbox)
  /\ UNCHANGED <<requestVars, pc, tools, out, tr, loopVars, serverVars, inputVars>>

\* The accumulator gets a slot for every item of the turn, and the placed ones are set.
Extended(o, s) ==
  [i \in 1..(Len(o) + Cardinality(s.placed) + Len(s.pending)) |->
     IF \E p \in s.placed : p.oi + 1 = i
     THEN (CHOOSE p \in s.placed : p.oi + 1 = i).item
     ELSE IF i <= Len(o) THEN o[i] ELSE Hole]

\* The turn's terminal event, completed or incomplete alike.
TurnEnds ==
  /\ pc = "streaming" /\ inbox # <<>> /\ Head(inbox).type = "completed" /\ NoMishap
  /\ LET stitched == Placed(st, Head(inbox).output)
     IN st' = stitched /\ out' = Extended(out, stitched)
  /\ inbox' = <<>> /\ pc' = "calls"
  /\ UNCHANGED <<requestVars, tools, tr, loopVars, serverVars, inputVars>>

\* A turn that fails half way is the end of the response; its calls do not run.
TurnFails ==
  /\ pc = "streaming" /\ inbox # <<>> /\ Head(inbox).type = "failed" /\ NoMishap
  /\ st' = Envelope(st, "failed") /\ inbox' = <<>> /\ pc' = "idle" /\ conn' = "closed"
  /\ UNCHANGED <<requestVars, tools, out, tr, loopVars, retried, ran, inputVars>>

\* An ErrorResponse from the loader instead of a stream.
TurnRefused ==
  /\ \/ pc = "refused" /\ NoMishap
     \/ pc = "streaming" /\ tr = Started /\ Mishap("loader")
  /\ st' = Envelope(st, "error") /\ pc' = "idle" /\ conn' = "closed"
  /\ UNCHANGED <<requestVars, tools, out, loaderVars, loopVars, retried, ran, inputVars>>

-----------------------------------------------------------------------------
(* The calls of a turn, and the calls an approval resumes.                   *)

More == at <= Len(st.pending)
NextCall == st.pending[at]

\* A call that requires approval is handed to the client.
AsksApproval ==
  /\ pc = "calls" /\ More /\ Buffered(st, NextCall).class = "mcp_approval" /\ NoMishap
  /\ LET oi == Buffered(st, NextCall).oi
     IN /\ st' = Send(st, <<"added", "done">>, oi, Id(turn, NextCall))
        /\ out' = [out EXCEPT ![oi + 1] = Approval(Id(turn, NextCall), tr.named[NextCall[2] + 1])]
  /\ at' = at + 1
  /\ UNCHANGED <<requestVars, pc, tools, loaderVars, turn, calls, serverVars, inputVars>>

Executes ==
  /\ pc = "calls" /\ More /\ Buffered(st, NextCall).class = "mcp" /\ NoMishap
  /\ conn' = "open" /\ retried' = FALSE /\ pc' = "calling"
  /\ UNCHANGED <<requestVars, tools, out, st, loaderVars, loopVars, ran, inputVars>>

\* The call in hand.
Current ==
  IF pc = "resuming"
  THEN [id |-> ResumeId, oi |-> Len(out), name |-> Subject.name, of |-> This.of]
  ELSE [id |-> Id(turn, NextCall), oi |-> Buffered(st, NextCall).oi,
        name |-> tr.named[NextCall[2] + 1], of |-> NoApproval]

Ran == Append(ran, [item |-> Current.id, of |-> Current.of, name |-> Current.name])

\* _execute_mcp_call once the server has answered, and what its callers do next.
Reported(ok) ==
  LET item == Call(Current.id, Current.name, Current.of, ok)
  IN /\ st' = Send(st, <<"call_started", "call_ended", "done">>, Current.oi, Current.id)
     /\ IF pc = "resuming"
        THEN /\ out' = Append(out, item) /\ at' = Min(Answers) + 1 /\ pc' = "resume"
             /\ UNCHANGED calls
        ELSE /\ out' = [out EXCEPT ![Current.oi + 1] = item] /\ at' = at + 1 /\ pc' = "calls"
             /\ calls' = calls + 1
     /\ UNCHANGED <<requestVars, tools, loaderVars, turn, inputVars>>

AtServer == pc \in {"resuming", "calling"}

CallReturns ==
  /\ AtServer /\ conn = "open" /\ NoMishap /\ ran' = Ran /\ Reported(TRUE)
  /\ UNCHANGED <<retried, conn>>

\* The server answers with an error, or a timeout or a broken connection ends the wait and
\* the connection: the tool may have run.  It is not called again.
CallFails ==
  /\ AtServer /\ conn = "open" /\ Mishap("server")
  /\ \E closed \in BOOLEAN : conn' = IF closed THEN "closed" ELSE conn
  /\ ran' \in {ran, Ran}
  /\ Reported(FALSE) /\ UNCHANGED retried

\* Mutant: the connection ends without an answer to the request in hand.
mut_Expires ==
  /\ (pc = "listing" \/ AtServer) /\ conn = "open" /\ ~retried /\ Mishap("expiry")
  /\ conn' = "closed"
  /\ UNCHANGED <<requestVars, pc, tools, out, st, loaderVars, loopVars, retried, ran, inputVars>>

\* McpConnections._run: the server has dropped the session and has run nothing; the request
\* is made once more, on a new connection.
Expires ==
  /\ (pc = "listing" \/ AtServer) /\ conn = "open" /\ ~retried /\ Mishap("expiry")
  /\ retried' = TRUE /\ conn' = "open"
  /\ UNCHANGED <<requestVars, pc, tools, out, st, loaderVars, loopVars, ran, inputVars>>

-----------------------------------------------------------------------------
(* The end of a turn and of the response.                                    *)

\* The calls that made the loop hand over to the client.
HandsBack ==
  \/ st.client
  \/ \E i \in DOMAIN st.pending : Buffered(st, st.pending[i]).class = "mcp_approval"

\* No turn follows this one.
Over ==
  \/ HandsBack
  \/ st.pending = <<>>
  \/ req.max # NoLimit /\ calls >= req.max
  \/ turn = TurnCap

Continues ==
  /\ pc = "calls" /\ ~More /\ ~Over /\ NoMishap /\ pc' = "turn"
  /\ UNCHANGED <<requestVars, tools, out, st, loaderVars, loopVars, serverVars, inputVars>>

FinalStatus == IF HandsBack \/ st.pending = <<>> THEN "completed" ELSE "incomplete"

\* The last envelope, stored before it is sent (persist_response); one that cannot be
\* stored goes out as a failure.
Completes ==
  /\ pc = "calls" /\ ~More /\ Over /\ Hole \notin Range(out)
  /\ \/ NoMishap /\ past' = Input \o out /\ st' = Envelope(st, FinalStatus)
     \/ Mishap("store") /\ UNCHANGED past /\ st' = Envelope(st, "failed")
  /\ pc' = "idle" /\ conn' = "closed"
  /\ UNCHANGED <<made, req, tools, out, loaderVars, loopVars, retried, ran, inputVars>>

\* parse_output_item raises on a hole; the edge of the gateway ends the stream.
Breaks ==
  /\ pc = "calls" /\ ~More /\ Over /\ Hole \in Range(out) /\ NoMishap
  /\ st' = Envelope(st, "failed") /\ pc' = "idle" /\ conn' = "closed"
  /\ UNCHANGED <<requestVars, tools, out, loaderVars, loopVars, retried, ran, inputVars>>

\* The client goes away: the generators are closed, and with them the loader's turn and the
\* connection; a call that is out may have run.
Disconnects ==
  /\ pc # "idle" /\ Mishap("client")
  /\ ran' \in (IF AtServer THEN {ran, Ran} ELSE {ran})
  /\ pc' = "idle" /\ conn' = "closed"
  /\ UNCHANGED <<requestVars, tools, out, st, loaderVars, loopVars, retried, inputVars>>

LoopStep ==
  \/ Reuses \/ Lists \/ ListReturns \/ ListFails
  \/ ResumesNone \/ ResumesUnknown \/ ResumesCall \/ ResumesRefused
  \/ StartsTurn \/ Streams \/ StreamEnds \/ Absorbs \/ TurnEnds \/ TurnFails \/ TurnRefused
  \/ AsksApproval \/ Executes \/ CallReturns \/ CallFails \/ Expires
  \/ Continues \/ Completes \/ Breaks

McpNext == Starts \/ Disconnects \/ LoopStep

McpSpec == McpInit /\ [][McpNext]_mcpVars

\* The loop, the loader and the server make progress: a turn has a token limit, a request
\* to the server a timeout.
McpFairSpec == McpSpec /\ WF_mcpVars(LoopStep)

-----------------------------------------------------------------------------
(* Properties.                                                               *)

\* The events of a response carry the numbers 0, 1, 2, ... over the envelopes of the loop,
\* the items it owns and every turn of the loader, and nothing follows a terminal one.
NumberedStream ==
  /\ \A i \in DOMAIN st.sent : st.sent[i].seq = i - 1
  /\ \A i \in DOMAIN st.sent : st.sent[i].type \in Terminal => i = Len(st.sent)

\* The item ids of the events of a type, with their output indices.
Told(type) ==
  {<<st.sent[i].oi, st.sent[i].id>> : i \in {j \in DOMAIN st.sent : st.sent[j].type = type}}

(* The output a client builds from the events is the one that the loop keeps,  *)
(* stores and shows the model: after every turn it holds, at every index, the  *)
(* item that was announced and closed there, over all turns, whoever made it,  *)
(* and no hole (the accumulator of loop.py), as long as the loader has opened  *)
(* its channels in the order in which the output of its turn has them.  The    *)
(* events are numbered without a gap or a double: a background run buffers     *)
(* event n at position n + 1 (append_stream_event).                            *)
OutputMatchesStream ==
  /\ NumberedStream
  /\ pc = "calls" /\ ~More /\ ~mixed =>
       /\ Told("added") = {<<i - 1, out[i].id>> : i \in DOMAIN out}
       /\ Told("done") = Told("added")

(* A tool that requires approval runs only on an approval its client has sent  *)
(* for the request that an earlier response put to it, in whichever response   *)
(* the call runs and whatever else the client answers (_events,                *)
(* requires_approval).  And every call runs at most once, over timeouts,       *)
(* dropped sessions and a client that goes away (client.py retries only what   *)
(* the server has not run).                                                    *)
CallsGrantedOnce ==
  /\ \A i \in DOMAIN ran :
       ran[i].name \in Guarded => \E g \in DOMAIN grants : grants[g] = ran[i].of
  /\ \A i, j \in DOMAIN ran : ran[i].item = ran[j].item => i = j

(* An approval is good for one execution: the loop consumes the answers (a     *)
(* comment of adapter.py).                                                     *)
ApprovalsRunOnce ==
  \A g \in Range(grants) :
    Cardinality({i \in DOMAIN ran : ran[i].of = g})
      <= Cardinality({i \in DOMAIN grants : grants[i] = g})

(* Every response ends, whatever the server and the loader do.                 *)
EveryResponseEnds == []<>(pc = "idle")
=============================================================================
