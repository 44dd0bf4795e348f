-------------------------- MODULE MCH11Connection --------------------------
EXTENDS H11Connection

\* Pipelined requests, one more than the keep alive limit; a body larger than
\* the queue, and garbage after it; a request that ends the connection with
\* another behind it; a host that is not served, alone or behind another request.
MCScripts ==
  { <<"req", "end", "req", "end", "req">>,
    <<"req", "data", "end", "bad">>,
    <<"close", "end", "req">>,
    <<"unknown", "end">>,
    <<"req", "end", "unknown", "data", "end">> }

\* One request at a time.
SingleScripts == { <<"req", "data", "end">>, <<"close", "end">>, <<"req", "bad">> }
=============================================================================
