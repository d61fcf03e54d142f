------------------------------ MODULE MCWorkers ------------------------------
(* Calls for model checking Workers. *)
EXTENDS Workers

MCCalls == 1 .. 3

\* One more call than the pool has permits; a critic; calls of one MCP client, with a
\* remote agent or a process besides.
MCMixes == {<<"llm", "llm", "llm">>, <<"llm", "url", "critic">>,
            <<"mcp", "mcp", "url">>, <<"mcp", "shell", "llm">>}
=============================================================================
