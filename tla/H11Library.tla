---------------------------- MODULE H11Library ----------------------------
(***************************************************************************)
(* The part of the h11 library that hypercorn/protocol/h11.py relies on:   *)
(* the two state machines of a server side h11.Connection (their_state,    *)
(* our_state and the keep alive flag), what next_event() returns, what     *)
(* send() accepts and start_next_cycle().  h11 is not part of the          *)
(* repository: these operators say what the protocol code expects of it.   *)
(*                                                                         *)
(* Bytes are abstracted to the tokens a client's request is made of:       *)
(*   "req"      a request head, connection kept alive                      *)
(*   "close"    a request head with "connection: close"                    *)
(*   "unknown"  a request head whose host is not in config.server_names    *)
(*   "data"     a chunk of the request body                                *)
(*   "end"      the end of the request                                     *)
(*   "bad"      bytes that are not HTTP/1                                  *)
(***************************************************************************)
EXTENDS Sequences

RequestTokens == {"req", "close", "unknown"}
Tokens == RequestTokens \cup {"data", "end", "bad"}

\* The events a server sends: the head of the response, a chunk, the end.
SendKinds == {"head", "data", "end"}

TheirStates == {"IDLE", "SEND_BODY", "DONE", "MUST_CLOSE", "CLOSED", "ERROR"}
OurStates == {"IDLE", "SEND_RESPONSE", "SEND_BODY", "DONE", "MUST_CLOSE", "ERROR"}

H11Conn == [theirs : TheirStates, ours : OurStates, keep : BOOLEAN]

NewConnection == [theirs |-> "IDLE", ours |-> "IDLE", keep |-> TRUE]

\* The transitions h11 takes by itself once either side has moved.
Settle(h) ==
  [h EXCEPT
     !.theirs = IF @ = "DONE" /\ (~h.keep \/ h.ours = "ERROR")
                THEN "MUST_CLOSE" ELSE @,
     !.ours = IF \/ @ = "DONE" /\ (~h.keep \/ h.theirs \in {"CLOSED", "ERROR"})
                 \/ @ = "IDLE" /\ h.theirs = "CLOSED"
              THEN "MUST_CLOSE" ELSE @]

\* What next_event() returns, given the bytes received and not yet parsed.
NextEvent(h, buf, eof) ==
  CASE h.theirs = "ERROR" -> "error"
    [] h.theirs = "DONE" /\ buf # <<>> -> "paused"
    [] h.theirs \in {"MUST_CLOSE", "CLOSED"} /\ buf # <<>> -> "error"
    [] h.theirs = "IDLE" /\ buf # <<>> ->
         IF Head(buf) \in RequestTokens THEN "request" ELSE "error"
    [] h.theirs = "SEND_BODY" /\ buf # <<>> ->
         IF Head(buf) \in {"data", "end"} THEN Head(buf) ELSE "error"
    [] buf = <<>> /\ h.theirs # "ERROR" ->
         IF ~eof THEN "need_data"
         ELSE IF h.theirs = "SEND_BODY" THEN "error" ELSE "closed"

\* The connection after next_event() has returned (or raised) that event.
AfterEvent(h, event, token) ==
  CASE event = "request" ->
         [theirs |-> "SEND_BODY", ours |-> "SEND_RESPONSE",
          keep |-> h.keep /\ token # "close"]
    [] event = "end" -> Settle([h EXCEPT !.theirs = "DONE"])
    [] event = "closed" -> Settle([h EXCEPT !.theirs = "CLOSED"])
    [] event = "error" -> Settle([h EXCEPT !.theirs = "ERROR"])
    [] OTHER -> h

\* send() accepts an event in these states of ours and raises
\* LocalProtocolError, leaving ours in ERROR, in the others.
CanSend(h, kind) ==
  IF kind = "head" THEN h.ours \in {"IDLE", "SEND_RESPONSE"}
                   ELSE h.ours = "SEND_BODY"

AfterSend(h, kind, close) ==
  CASE kind = "head" ->
         Settle([h EXCEPT !.ours = "SEND_BODY", !.keep = @ /\ ~close])
    [] kind = "end" -> Settle([h EXCEPT !.ours = "DONE"])
    [] OTHER -> h

AfterIllegalSend(h) == Settle([h EXCEPT !.ours = "ERROR"])

\* start_next_cycle(): both sides are DONE, a new request may be read.
NextCycle(h) == [h EXCEPT !.theirs = "IDLE", !.ours = "IDLE"]
============================================================================
