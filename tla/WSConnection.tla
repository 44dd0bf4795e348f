----------------------------- MODULE WSConnection -----------------------------
(***************************************************************************)
(* protocol/ws_stream.py on an HTTP/1 connection: the reader, the          *)
(* application and the ping task.  A task keeps the processor until it     *)
(* waits for a write or for room in the application's queue; what it still *)
(* has to do is a sequence of operations.  handle_ws_ping is TRUE, and a    *)
(* pong, which then does nothing, is left out.                             *)
(***************************************************************************)
EXTENDS Naturals, Sequences

CONSTANTS
  QueueSize,    \* max_app_queue_size
  MaxLength,    \* websocket_max_message_size, in fragments
  MaxFrames     \* bound: frames of the client

ASSUME WSAssumption ==
  QueueSize \in Nat \ {0} /\ MaxLength \in Nat \ {0} /\ MaxFrames \in Nat

VARIABLES
  state,        \* WSStream.state
  closed,       \* WSStream.closed
  stream,       \* H11Protocol.stream is not None
  accepted,     \* handshake.accepted
  response,     \* self.response and trailers_expected: "none", "plain", "trailers"
  conn,         \* state of the wsproto connection, "none" before there is one
  length,       \* WebsocketBuffer.length
  h11,          \* our_state of the h11 connection
  frames,       \* what wsproto has received and not yet made events of
  sent,         \* frames of the client so far
  transport,    \* "open", "closing" or "lost"
  cpu,          \* the task that runs
  todo,         \* what each task has to do
  wait,         \* what it waits for: "drain" (the lock, then the socket), "put",
                \* "gone" (wait_closed) or nothing
  lock,         \* send_lock: the holder, then the waiting
  reader, app, ping,
  queue,        \* messages in the application's queue
  told,         \* history: times websocket.disconnect was put
  wire,         \* history: what the client has been sent
  early,        \* history: data came before the handshake was accepted
  badAccept,    \* history: accept has raised
  tooBig        \* history: a message was too large

streamVars == <<state, closed, stream, accepted, response, conn, length, h11>>
taskVars == <<cpu, todo, wait, lock>>
roleVars == <<reader, app, ping>>
clientVars == <<frames, sent, transport>>
history == <<told, wire, early, badAccept, tooBig>>
vars == <<streamVars, taskVars, roleVars, clientVars, queue, history>>

Tasks == {"reader", "app", "ping"}
Puts == {"connect", "receive", "disconnect"}
\* A fragment, a whole message or its last fragment, one that is too long alone,
\* a ping, a close, and what is no frame.
FrameKinds == {"part", "message", "long", "ping", "close", "garbage"}

TypeOK ==
  /\ state \in {"HANDSHAKE", "CONNECTED", "RESPONSE", "CLOSED", "HTTPCLOSED"}
  /\ closed \in BOOLEAN /\ stream \in BOOLEAN /\ accepted \in BOOLEAN
  /\ response \in {"none", "plain", "trailers"}
  /\ conn \in {"none", "open", "local", "remote", "closed"}
  /\ length \in 0 .. MaxLength + 1
  /\ h11 \in {"response", "body", "done", "switched"}
  /\ frames \in Seq(FrameKinds) /\ sent \in 0 .. MaxFrames
  /\ transport \in {"open", "closing", "lost"}
  /\ cpu \in Tasks \cup {"none"}
  /\ \A t \in Tasks : cpu = t => todo[t] # <<>> /\ wait[t] = "no"
  /\ \A t \in Tasks : wait[t] = "put" => Head(todo[t]) \in Puts
  /\ wait \in [Tasks -> {"no", "drain", "put", "gone"}]
  /\ \A i, j \in 1 .. Len(lock) : i # j => lock[i] # lock[j]
  /\ reader \in {"new", "reading", "ended", "crashed"}
  /\ app \in {"none", "running", "raised", "finishing"}
  /\ ping \in {"none", "on", "ended"}
  /\ queue \in 0 .. QueueSize /\ told \in Nat
  /\ wire \in {"none", "head", "ended", "switched", "closed", "broken"}
  /\ early \in BOOLEAN /\ badAccept \in BOOLEAN /\ tooBig \in BOOLEAN

Init ==
  /\ state = "HANDSHAKE" /\ closed = FALSE /\ stream = TRUE /\ accepted = FALSE
  /\ response = "none" /\ conn = "none" /\ length = 0 /\ h11 = "response"
  /\ frames = <<>> /\ sent = 0 /\ transport = "open"
  /\ cpu = "none" /\ todo = [t \in Tasks |-> <<>>]
  /\ wait = [t \in Tasks |-> "no"] /\ lock = <<>>
  /\ reader = "new" /\ app = "none" /\ ping = "none"
  /\ queue = 0 /\ told = 0 /\ wire = "none"
  /\ early = FALSE /\ badAccept = FALSE /\ tooBig = FALSE

----------------------------------------------------------------------------
(* What a task does at one go.                                             *)

\* A task that waits for nothing starts to do ops.
Idle(t) == cpu = "none" /\ todo[t] = <<>> /\ wait[t] = "no" /\ reader # "crashed"

Begin(t, ops) ==
  /\ todo' = [todo EXCEPT ![t] = ops]
  /\ cpu' = IF ops = <<>> THEN "none" ELSE t

\* The task that runs does op next, and puts more in its place.
Does(t, op) == cpu = t /\ todo[t] # <<>> /\ Head(todo[t]) = op

Goes(t, more) ==
  /\ todo' = [todo EXCEPT ![t] = more \o Tail(@)]
  /\ cpu' = IF todo'[t] = <<>> THEN "none" ELSE t

ErrorResponse == <<"head", "end">>

\* (mutant: a websocket's connection is kept for the next request)
Recycled == <<"closeStream">>

\* H11Protocol.stream_send(StreamClosed): _maybe_recycle never recycles an
\* H11WSConnection.
StreamClosed == <<"closeStream", "closeTransport">>

----------------------------------------------------------------------------
(* Writes.                                                                 *)

OnWire(x) ==
  CASE wire = "none" /\ x = "head" -> "head"
    [] wire = "none" /\ x = "switch" -> "switched"
    [] wire = "head" /\ x = "body" -> "head"
    [] wire = "head" /\ x = "end" -> "ended"
    [] wire = "switched" /\ x = "frame" -> "switched"
    [] wire = "switched" /\ x = "close" -> "closed"
    [] OTHER -> "broken"

\* TCPServer.protocol_send(RawData): the data goes out in the order of the
\* lock, and the task waits for the lock or for the transport to drain.
Write(t, x) ==
  /\ wire' = IF transport = "open" THEN OnWire(x) ELSE wire
  /\ \/ lock = <<>> /\ transport = "open" /\ Goes(t, <<>>) /\ UNCHANGED <<wait, lock>>
     \/ /\ lock' = Append(lock, t) /\ wait' = [wait EXCEPT ![t] = "drain"]
        /\ todo' = [todo EXCEPT ![t] = Tail(@)] /\ cpu' = "none"

Drains(t) == cpu = "none" /\ wait[t] = "drain" /\ Head(lock) = t

Drained(t) ==
  /\ Drains(t) /\ transport # "lost"
  /\ wait' = [wait EXCEPT ![t] = "no"] /\ lock' = Tail(lock)
  /\ cpu' = IF todo[t] = <<>> THEN "none" ELSE t
  /\ UNCHANGED <<streamVars, todo, roleVars, clientVars, queue, history>>

\* The write fails, after write_eof at the latest: H11Protocol.handle(Closed),
\* under the lock.
DrainFails(t) ==
  /\ Drains(t) /\ transport # "open"
  /\ wait' = [wait EXCEPT ![t] = "no"]
  /\ Begin(t, <<"closeStream", "release">> \o todo[t])
  /\ UNCHANGED <<streamVars, lock, roleVars, clientVars, queue, history>>

Release(t) ==
  /\ Does(t, "release") /\ lock' = Tail(lock) /\ Goes(t, <<>>)
  /\ UNCHANGED <<streamVars, wait, roleVars, clientVars, queue, history>>

Closing == IF transport = "open" THEN "closing" ELSE transport

\* An exception: the application's send raises; raised in the reader, in the
\* pings or in the send(None) after the application it ends the task group and
\* so the connection, of which nothing more is modelled.
Raise(t) ==
  /\ UNCHANGED <<frames, sent, queue, ping>> /\ cpu' = "none"
  /\ IF t = "app" /\ app = "running"
     THEN /\ app' = "raised" /\ todo' = [todo EXCEPT ![t] = <<>>]
          /\ UNCHANGED <<wait, lock, transport, reader>>
     ELSE /\ reader' = "crashed" /\ todo' = [s \in Tasks |-> <<>>]
          /\ wait' = [s \in Tasks |-> "no"] /\ lock' = <<>>
          /\ transport' = Closing /\ UNCHANGED app

H11After(op) ==
  CASE h11 = "response" /\ op = "head" -> "body"
    [] h11 = "response" /\ op = "switch" -> "switched"
    [] h11 = "body" /\ op = "body" -> "body"
    [] h11 = "body" /\ op = "end" -> "done"
    [] OTHER -> "error"

\* _send_h11_event
SendH11(t, op) ==
  /\ Does(t, op) /\ op \in {"head", "switch", "body", "end"}
  /\ \/ /\ H11After(op) # "error" /\ h11' = H11After(op) /\ Write(t, op)
        /\ UNCHANGED <<roleVars, clientVars, queue>>
     \/ H11After(op) = "error" /\ Raise(t) /\ UNCHANGED <<h11, wire>>
  /\ UNCHANGED <<state, closed, stream, accepted, response, conn, length, told,
                 early, badAccept, tooBig>>

\* (mutant: a closing connection goes on sending)
SendAlways(op) == TRUE

\* wsproto's Connection.send: only an open connection sends, and a close is
\* answered.
MaySend(op) == conn = "open" \/ (conn = "remote" /\ op = "close")

AfterSend(op) ==
  CASE op # "close" -> conn
    [] op = "close" -> IF conn = "remote" THEN "closed" ELSE "local"

\* _send_wsproto_event: what wsproto refuses is dropped.
SendFrame(t, op) ==
  /\ Does(t, op) /\ op \in {"frame", "close"}
  /\ \/ conn = "none" /\ Raise(t) /\ UNCHANGED <<conn, wire>>
     \/ /\ conn # "none" /\ MaySend(op) /\ conn' = AfterSend(op) /\ Write(t, op)
        /\ UNCHANGED <<roleVars, clientVars, queue>>
     \/ /\ conn # "none" /\ ~MaySend(op) /\ Goes(t, <<>>)
        /\ UNCHANGED <<conn, wait, lock, wire, roleVars, clientVars, queue>>
  /\ UNCHANGED <<state, closed, stream, accepted, response, length, h11, told,
                 early, badAccept, tooBig>>

----------------------------------------------------------------------------
(* The application's queue and the end of the stream.                      *)

HasRoom == queue < QueueSize

\* app_put
Put(t, op) ==
  /\ op \in Puts
  /\ \/ Does(t, op) /\ wait[t] = "no"
     \/ cpu = "none" /\ wait[t] = "put" /\ Head(todo[t]) = op
  /\ HasRoom /\ queue' = queue + 1
  /\ told' = told + (IF op = "disconnect" THEN 1 ELSE 0)
  /\ wait' = [wait EXCEPT ![t] = "no"] /\ Goes(t, <<>>)
  /\ UNCHANGED <<streamVars, lock, roleVars, clientVars, wire, early, badAccept, tooBig>>

PutWaits(t) ==
  /\ cpu = t /\ wait[t] = "no" /\ Head(todo[t]) \in Puts /\ ~HasRoom
  /\ wait' = [wait EXCEPT ![t] = "put"] /\ cpu' = "none"
  /\ UNCHANGED <<streamVars, todo, lock, roleVars, clientVars, queue, history>>

Open == ~closed

\* (mutant: an application that has closed is not told)
TellUnlessClosed == IF app = "none" \/ state = "CLOSED" THEN <<>> ELSE <<"disconnect">>

Tell == IF app = "none" THEN <<>> ELSE <<"disconnect">>

\* H11Protocol._close_stream and WSStream.handle(StreamClosed)
CloseStream(t) ==
  /\ Does(t, "closeStream")
  /\ IF stream /\ Open
     THEN /\ closed' = TRUE
          /\ Goes(t, Tell \o <<"forget">>)
          /\ UNCHANGED stream
     ELSE /\ stream' = FALSE /\ Goes(t, <<>>) /\ UNCHANGED closed
  /\ UNCHANGED <<state, accepted, response, conn, length, h11, wait, lock,
                 roleVars, clientVars, queue, history>>

Forget(t) ==
  /\ Does(t, "forget") /\ stream' = FALSE /\ Goes(t, <<>>)
  /\ UNCHANGED <<state, closed, accepted, response, conn, length, h11, wait, lock,
                 roleVars, clientVars, queue, history>>

\* TCPServer._close, which waits until the transport is closed
CloseTransport(t) ==
  /\ Does(t, "closeTransport") /\ transport' = Closing
  /\ cpu' = "none" /\ wait' = [wait EXCEPT ![t] = "gone"]
  /\ todo' = [todo EXCEPT ![t] = Tail(@)]
  /\ UNCHANGED <<streamVars, lock, roleVars, frames, sent, queue, history>>

Gone(t) ==
  /\ cpu = "none" /\ wait[t] = "gone" /\ transport = "lost"
  /\ wait' = [wait EXCEPT ![t] = "no"]
  /\ cpu' = IF todo[t] = <<>> THEN "none" ELSE t
  /\ UNCHANGED <<streamVars, todo, lock, roleVars, clientVars, queue, history>>

\* An assignment of the stream's state, or of closed, between two writes.
Assign(t) ==
  /\ \/ \E s \in {"RESPONSE", "HTTPCLOSED"} :
          Does(t, s) /\ state' = s /\ UNCHANGED <<closed, length, ping>>
     \/ Does(t, "shut") /\ closed' = TRUE /\ UNCHANGED <<state, length, ping>>
     \/ Does(t, "clear") /\ length' = 0 /\ UNCHANGED <<state, closed, ping>>
     \/ Does(t, "pings") /\ ping' = "on" /\ UNCHANGED <<state, closed, length>>
  /\ Goes(t, <<>>)
  /\ UNCHANGED <<stream, accepted, response, conn, h11, wait, lock, reader, app,
                 clientVars, queue, history>>

----------------------------------------------------------------------------
(* The reader.                                                             *)

\* handle(Request): a host that is not served, a handshake that is not valid,
\* or the application is started.
Request(valid) ==
  /\ reader = "new" /\ reader' = "reading"
  /\ app' = IF valid THEN "running" ELSE app
  /\ Begin("reader", IF valid THEN <<"connect">> ELSE ErrorResponse \o <<"shut">>)
  /\ UNCHANGED <<streamVars, wait, lock, ping, clientVars, queue, history>>

\* H11WSConnection passes the data on, to a stream that is there.
PassesData == stream /\ ~closed

\* handle(Data): frames come one or two at a time.
ReadData(data) ==
  /\ Idle("reader") /\ reader = "reading"
  /\ transport = "open" /\ sent + Len(data) <= MaxFrames
  /\ sent' = sent + Len(data)
  /\ IF ~PassesData
     THEN UNCHANGED <<todo, cpu, frames, early>>
     ELSE IF ~accepted
     THEN /\ early' = TRUE /\ UNCHANGED frames
          /\ Begin("reader", ErrorResponse \o <<"shut">>)
     ELSE frames' = frames \o data /\ Begin("reader", <<"events">>) /\ UNCHANGED early
  /\ UNCHANGED <<streamVars, wait, lock, roleVars, transport, queue, told, wire,
                 badAccept, tooBig>>

\* _read_data ends, at the end of the client's data or by an error:
\* H11Protocol.handle(Closed)
ReadEof ==
  /\ Idle("reader") /\ reader = "reading"
  /\ reader' = "ended" /\ Begin("reader", <<"closeStream">>)
  /\ UNCHANGED <<streamVars, wait, lock, app, ping, clientVars, queue, history>>

\* WebsocketBuffer.extend: a message that is too large stays in the buffer.
Kept(n) == IF n > MaxLength THEN MaxLength + 1 ELSE n

\* _handle_events takes a fragment of a message.
Fragment(t) ==
  LET size == length + (IF Head(frames) = "long" THEN MaxLength + 1 ELSE 1) IN
  /\ Does(t, "events") /\ frames # <<>> /\ Head(frames) \in {"part", "message", "long"}
  /\ frames' = Tail(frames) /\ length' = Kept(size)
  /\ \/ size > MaxLength /\ tooBig' = TRUE /\ Goes(t, <<"close">>)
     \/ /\ size <= MaxLength /\ UNCHANGED tooBig
        /\ Goes(t, IF Head(frames) = "message" THEN <<"receive", "clear", "events">>
                   ELSE <<"events">>)
  /\ UNCHANGED <<state, closed, stream, accepted, response, conn, h11, wait, lock,
                 roleVars, sent, transport, queue, told, wire, early, badAccept>>

\* _handle_events takes any other frame, or ends.
Control(t) ==
  /\ Does(t, "events")
  /\ \/ frames = <<>> /\ Goes(t, <<>>) /\ UNCHANGED <<frames, conn>>
     \/ /\ frames # <<>> /\ frames' = Tail(frames)
        /\ \/ Head(frames) = "ping" /\ Goes(t, <<"frame", "events">>) /\ UNCHANGED conn
           \/ Head(frames) = "garbage" /\ Goes(t, StreamClosed) /\ UNCHANGED conn
           \/ /\ Head(frames) = "close"
              /\ conn' = IF conn = "local" THEN "closed" ELSE "remote"
              /\ Goes(t, (IF conn = "local" THEN <<>> ELSE <<"close">>)
                         \o StreamClosed \o <<"events">>)
  /\ UNCHANGED <<state, closed, stream, accepted, response, length, h11, wait, lock,
                 roleVars, sent, transport, queue, history>>

----------------------------------------------------------------------------
(* The application: app_send.                                              *)

\* A message is looked at when the stream is not closed.
Sends ==
  /\ Idle("app") /\ app = "running" /\ ~closed
  /\ UNCHANGED <<wait, lock, reader, ping, clientVars, queue, told, wire, early, tooBig>>

Receive ==
  /\ Idle("app") /\ app = "running"
  /\ queue > 0 /\ queue' = queue - 1
  /\ UNCHANGED <<streamVars, taskVars, roleVars, clientVars, history>>

\* _accept; a subprotocol that was not offered raises, in the state CONNECTED.
Accept ==
  /\ Sends /\ state = "HANDSHAKE" /\ state' = "CONNECTED"
  /\ \/ /\ accepted' = TRUE /\ conn' = "open" /\ Begin("app", <<"switch", "pings">>)
        /\ UNCHANGED <<app, badAccept>>
     \/ /\ badAccept' = TRUE /\ app' = "raised"
        /\ UNCHANGED <<accepted, conn, todo, cpu>>
  /\ UNCHANGED <<closed, stream, response, length, h11>>

\* websocket.http.response.start
Start ==
  /\ Sends /\ state = "HANDSHAKE" /\ response' \in {"plain", "trailers"}
  /\ UNCHANGED <<state, closed, stream, accepted, conn, length, h11, todo, cpu, app,
                 badAccept>>

\* The head goes out with the first part of the body.
FirstHead == IF state = "HANDSHAKE" THEN <<"head", "RESPONSE">> ELSE <<>>

\* _send_rejection, _send_rejection_zerocopy: the status may suppress the body.
Reject(suppressed, more) ==
  /\ Sends /\ state \in {"HANDSHAKE", "RESPONSE"} /\ response # "none"
  /\ Begin("app", FirstHead
           \o (IF suppressed THEN <<>> ELSE <<"body">>)
           \o (IF more \/ response = "trailers" THEN <<>> ELSE <<"HTTPCLOSED", "end">>))
  /\ UNCHANGED <<streamVars, app, badAccept>>

\* _send_rejection_trailer: h11 has trailers at the end of the message only.
Trailers(more) ==
  /\ Sends /\ state \in {"HANDSHAKE", "RESPONSE"}
  /\ Begin("app", <<"end">> \o (IF more THEN <<>> ELSE <<"HTTPCLOSED">>))
  /\ UNCHANGED <<streamVars, app, badAccept>>

\* websocket.send, websocket.ping, websocket.pong
SendMessage ==
  /\ Sends /\ state = "CONNECTED" /\ Begin("app", <<"frame">>)
  /\ UNCHANGED <<streamVars, app, badAccept>>

\* websocket.close, which no other state refuses
Close ==
  /\ Sends
  /\ IF state = "HANDSHAKE" THEN state' = "HTTPCLOSED" /\ Begin("app", ErrorResponse)
     ELSE state' = "CLOSED" /\ Begin("app", <<"close">>)
  /\ UNCHANGED <<closed, stream, accepted, response, conn, length, h11, app, badAccept>>

\* (mutant: every application that has not closed ends with an error)
ErrorAtEnd == IF state = "CONNECTED" THEN <<"close">>
              ELSE IF state = "CLOSED" THEN <<>> ELSE ErrorResponse

AtEnd == IF state = "HANDSHAKE" THEN ErrorResponse
         ELSE IF state = "CONNECTED" THEN <<"close">> ELSE <<>>

\* app_send(None), when the application has returned or raised
Finish ==
  /\ Idle("app") /\ app \in {"running", "raised"}
  /\ app' = "finishing"
  /\ Begin("app", IF closed THEN <<>> ELSE AtEnd \o StreamClosed)
  /\ UNCHANGED <<streamVars, wait, lock, reader, ping, clientVars, queue, history>>

----------------------------------------------------------------------------
PingsOn == ~closed

\* _send_pings
PingLoop ==
  /\ Idle("ping") /\ ping = "on"
  /\ IF PingsOn THEN Begin("ping", <<"frame">>) /\ UNCHANGED ping
     ELSE ping' = "ended" /\ UNCHANGED <<todo, cpu>>
  /\ UNCHANGED <<streamVars, wait, lock, reader, app, clientVars, queue, history>>

\* TCPServer.run ends when its tasks have.
RunEnds ==
  /\ cpu = "none" /\ reader = "ended" /\ ping # "on" /\ app \in {"none", "finishing"}
  /\ \A t \in Tasks : todo[t] = <<>> /\ wait[t] = "no"
  /\ transport = "open" /\ transport' = "closing"
  /\ UNCHANGED <<streamVars, taskVars, roleVars, frames, sent, queue, history>>

\* The client resets the connection or goes away; a transport that closes is
\* lost in the end.
Lose ==
  /\ transport # "lost" /\ transport' = "lost"
  /\ UNCHANGED <<streamVars, taskVars, roleVars, frames, sent, queue, history>>

Step(t) ==
  \/ Drained(t) \/ DrainFails(t) \/ Release(t) \/ Gone(t)
  \/ \E op \in {"head", "switch", "body", "end"} : SendH11(t, op)
  \/ \E op \in {"frame", "close"} : SendFrame(t, op)
  \/ \E op \in Puts : Put(t, op)
  \/ PutWaits(t) \/ CloseStream(t) \/ Forget(t) \/ CloseTransport(t)
  \/ Assign(t) \/ Fragment(t) \/ Control(t)

Chunks == [1 .. 1 -> FrameKinds] \cup [1 .. 2 -> FrameKinds]

AppStep ==
  \/ Receive \/ Accept \/ Start \/ SendMessage \/ Close \/ Finish
  \/ \E more \in BOOLEAN : Trailers(more)
  \/ \E suppressed, more \in BOOLEAN : Reject(suppressed, more)

Next ==
  \/ \E t \in Tasks : Step(t)
  \/ \E valid \in BOOLEAN : Request(valid)
  \/ \E data \in Chunks : ReadData(data)
  \/ ReadEof \/ AppStep \/ PingLoop \/ RunEnds \/ Lose

Spec == Init /\ [][Next]_vars

\* The event loop comes to every task that is ready, the client reads what it
\* is sent or goes away, and its side of the connection ends one day.  The
\* application need not do anything.
FairSpec ==
  /\ Spec /\ SF_vars(Step("app")) /\ SF_vars(Step("reader") \/ ReadEof)
  /\ SF_vars(Step("ping") \/ PingLoop) /\ WF_vars(transport = "closing" /\ Lose)

----------------------------------------------------------------------------
(* Properties.                                                             *)

\* However many tasks find the connection lost, and whatever closed it, the
\* application is told at most once: WSStream.closed is set before the put
\* waits for room.
DisconnectOnce == told <= 1

Telling == \E t \in Tasks : \E i \in 1 .. Len(todo[t]) : todo[t][i] = "disconnect"

\* A stream is closed for the application by its disconnect: with closed set
\* and nobody on the way to tell it, sends are dropped in silence for ever.
\* The answer to data that comes too early (ws_stream.py:268) breaks this and
\* is left out.
ClosedIsTold ==
  closed /\ app # "none" /\ reader # "crashed" /\ ~early => told = 1 \/ Telling

\* Once, and not only once closed: the disconnect is neither doubled nor lost.
ToldOnce == DisconnectOnce /\ ClosedIsTold

\* What three tasks write is one HTTP response, or a switch followed by frames
\* of which the close is the last: the lock keeps the order in which wsproto
\* and h11 have made the data.
WellFormed == wire = "broken" => early

\* Only an invalid websocket.accept, and data before it, end the connection by
\* an exception: nothing else that the application or the client does.
NoCrash == reader = "crashed" => early \/ badAccept

\* After a message that was too large no more of the client's data reaches the
\* application, though the frames that came with it and after it are read.
NothingAfterTooBig ==
  tooBig => \A i \in 1 .. Len(todo["reader"]) : todo["reader"][i] # "receive"

\* Both directions are one conversation, with every variable in its type.
Conversation == TypeOK /\ WellFormed /\ NothingAfterTooBig

\* The connection is held up for good by an application that does not receive,
\* or has ended by an exception.
Stuck == [](queue = QueueSize \/ reader = "crashed")

\* The application is told of the end of the connection, unless it leaves its
\* queue full.
EndIsTold ==
  reader = "ended" /\ app # "none" ~> told = 1 \/ early \/ Stuck

\* A close that came from the client is answered, and the transport closed.
CloseIsServed ==
  conn \in {"remote", "closed"} ~> transport # "open" \/ Stuck

\* The pings end with the stream: they do not keep the connection's task group.
PingsEnd == closed ~> ping # "on" \/ Stuck

\* Whoever closes first, all three parties come to their end.
AllEnd == EndIsTold /\ CloseIsServed /\ PingsEnd
=============================================================================
