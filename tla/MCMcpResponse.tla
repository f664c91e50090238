---------------------------- MODULE MCMcpResponse ---------------------------
(* Instances of McpResponse for TLC.                                         *)
EXTENDS McpResponse

CONSTANTS auto, guarded, client

Chunk(ch, name, arguments) == [ch |-> ch, name |-> name, arguments |-> arguments]

\* Text on either channel; a tool call told at once, in two chunks, or named last.
AllChunks ==
  {Chunk(Reasoning, NoName, FALSE), Chunk(Message, NoName, FALSE), Chunk(Tool(0), NoName, TRUE)}
    \cup {Chunk(Tool(0), name, TRUE) : name \in {auto, guarded, client}}
    \cup {Chunk(Tool(1), name, FALSE) : name \in {auto, guarded}}

\* A call that requires approval, or the answer.
FewChunks == {Chunk(Message, NoName, FALSE), Chunk(Tool(0), guarded, TRUE)}
=============================================================================
