--------------------------- MODULE MCH2Connection ---------------------------
EXTENDS H2Connection

\* Frames of stream s.
H(s) == <<"headers", s>>
D(s) == <<"data", s>>
E(s) == <<"end", s>>
W(s) == <<"window", s>>
P(s) == <<"priority", s>>
R(s) == <<"reset", s>>
GoAway == <<"goaway", 0>>
Bad == <<"bad", 0>>

\* Two requests at the same time.
TwoRequests == { <<H(1), E(1), H(2), E(2)>> }

\* Updates of both windows, priorities, a reset, the end of the connection.
OneRequest ==
  { <<H(1), E(1), W(1), W(0)>>, <<P(1), H(1), E(1), R(1)>>,
    <<H(1), E(1), GoAway>>, <<H(1), Bad>> }

\* A body larger than the application's queue.
Upload == { <<H(1), D(1), D(1), E(1)>> }

\* A stream that is reset, and prioritised again.
ResetThenPriority == { <<H(1), E(1), R(1), P(1)>> }

\* What makes a task of the server fail.
Failing == Upload \cup ResetThenPriority

\* A client that opens both windows.
WindowUpdates == { <<H(1), W(1), W(0)>> }
=============================================================================
