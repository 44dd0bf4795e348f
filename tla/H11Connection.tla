--------------------------- MODULE H11Connection ---------------------------
(***************************************************************************)
(* One HTTP/1 connection of an asyncio worker: TCPServer, its H11Protocol, *)
(* the HTTPStream of each request and the ASGI application task the stream *)
(* spawns.  The tasks that share this state are                            *)
(*   Reader   TCPServer.run: reads the socket and feeds the protocol       *)
(*   r > 0    the application task of the r-th request, which runs the     *)
(*            protocol's code whenever it calls send()                     *)
(* together with the idle task, the client and the worker's shutdown.      *)
(*                                                                         *)
(* A task may be suspended at every await that leaves hypercorn: a write   *)
(* (send_lock and drain), a put on an application queue, can_read.wait(),  *)
(* writer.wait_closed(), the application's own code.  What runs between    *)
(* two of these is one step.  pc says where a task is, wst how far its     *)
(* current write is.                                                       *)
(***************************************************************************)
EXTENDS Naturals, Sequences, FiniteSets, H11Library

CONSTANTS
  MaxReq,              \* bound: requests the client sends on the connection
  QueueSize,           \* config.max_app_queue_size
  KeepAliveMax,        \* config.keep_alive_max_requests
  Scripts,             \* bound: the token sequences the client may send
  ConcurrentReceive    \* the application also receives while it is sending

ASSUME H11Assumption ==
  /\ MaxReq \in Nat \ {0}
  /\ QueueSize \in Nat \ {0}
  /\ KeepAliveMax \in Nat
  /\ Scripts \subseteq Seq(Tokens)
  /\ ConcurrentReceive \in BOOLEAN

VARIABLES
  script,     \* what the client has still to send
  inbox,      \* bytes in the StreamReader
  rx,         \* the StreamReader's end: "no", "eof" or an exception
  buf,        \* bytes h11 received and has not parsed
  eof,        \* h11 received b""
  h11,        \* the h11.Connection
  cur,        \* H11Protocol.stream, 0 is None
  nreq,       \* streams created: the r-th request has stream r
  kareq,      \* H11Protocol.keep_alive_requests
  sstate,     \* HTTPStream.state
  sclosed,    \* HTTPStream.closed
  queued,     \* messages in the stream's application queue
  told,       \* http.disconnect messages put on that queue
  pc, wst,    \* where each task is, and its write
  fin,        \* the application returned: the task is in its send(None)
  aborting,   \* the task group is cancelling its tasks
  tgt,        \* the stream a task is putting a message for
  lockq,      \* send_lock: the holder, then the waiters in order
  canRead,    \* the can_read event
  idle,       \* the idle timer is armed
  net,        \* transport: open, closing (closed by the server) or lost
  terminated, \* context.terminated
  wire        \* the response events written: what, and by which task

clientVars == <<script, inbox, rx>>
parserVars == <<buf, eof>>
streamVars == <<cur, nreq, kareq, sstate, sclosed>>
queueVars == <<queued, told>>
writeVars == <<wst, lockq>>
endVars == <<fin, aborting>>
taskVars == <<pc, writeVars, endVars, tgt>>
serverVars == <<canRead, idle, net, terminated>>
vars == <<clientVars, parserVars, h11, streamVars, queueVars, taskVars,
          serverVars, wire>>

Reader == 0
Apps == 1 .. MaxReq
Tasks == {Reader} \cup Apps

AppPC == {"none", "run", "started", "bodyEnd", "ended", "recycle",
          "waitClosed", "finish", "errEnd", "errDone", "raised", "done"}
ReaderPC == {"read", "loop", "create", "reject", "rejectEnd", "rejected",
             "putBody", "paused", "errEnd", "close", "waitClosed", "closed",
             "join", "finalClose", "finalWait", "raised", "ended"}

TypeOK ==
  /\ script \in Seq(Tokens) /\ inbox \in Seq(Tokens) /\ buf \in Seq(Tokens)
  /\ rx \in {"no", "eof", "exc"} /\ eof \in BOOLEAN
  /\ h11 \in H11Conn
  /\ cur \in 0 .. MaxReq /\ nreq \in 0 .. MaxReq /\ kareq \in Nat
  /\ sstate \in [Apps -> {"REQUEST", "RESPONSE", "CLOSED"}]
  /\ sclosed \in [Apps -> BOOLEAN]
  /\ queued \in [Apps -> 0 .. QueueSize] /\ told \in [Apps -> Nat]
  /\ pc \in [Tasks -> AppPC \cup ReaderPC]
  /\ wst \in [Tasks -> SendKinds \cup {"no", "drain", "put"}]
  /\ fin \in [Apps -> BOOLEAN] /\ aborting \in BOOLEAN
  /\ tgt \in [Tasks -> 0 .. MaxReq]
  /\ lockq \in Seq(Tasks)
  /\ canRead \in BOOLEAN /\ idle \in BOOLEAN /\ terminated \in BOOLEAN
  /\ net \in {"open", "closing", "lost"}
  /\ wire \in Seq([kind : SendKinds, by : Tasks])

\* TCPServer.run up to its first read: the idle timer is armed.
Init ==
  /\ script \in Scripts /\ inbox = <<>> /\ rx = "no"
  /\ buf = <<>> /\ eof = FALSE /\ h11 = NewConnection
  /\ cur = 0 /\ nreq = 0 /\ kareq = 0
  /\ sstate = [r \in Apps |-> "REQUEST"]
  /\ sclosed = [r \in Apps |-> FALSE]
  /\ queued = [r \in Apps |-> 0] /\ told = [r \in Apps |-> 0]
  /\ pc = [t \in Tasks |-> IF t = Reader THEN "read" ELSE "none"]
  /\ wst = [t \in Tasks |-> "no"]
  /\ fin = [r \in Apps |-> FALSE] /\ aborting = FALSE /\ tgt = [t \in Tasks |-> 0]
  /\ lockq = <<>> /\ canRead = FALSE /\ idle = TRUE /\ net = "open"
  /\ terminated = FALSE /\ wire = <<>>

----------------------------------------------------------------------------
(* Building blocks: a task at a label, a write begun, a stream closed.     *)

At(t, label) == pc[t] = label /\ wst[t] = "no"
Goto(t, label) == pc' = [pc EXCEPT ![t] = label]

\* The label at which task t resumes once an exception reaches it: the
\* application's code may catch it, the reader and send(None) do not.
Raised(t) ==
  IF t \in Apps /\ ~fin[t] THEN "run" ELSE "raised"

\* H11Protocol._send_h11_event on connection h: the event goes through h11
\* and its bytes to protocol_send, where the task queues for send_lock.  An
\* event h11 refuses is dropped after a client error and raises otherwise.
SendH11On(h, t, kind, close, next) ==
  IF CanSend(h, kind)
  THEN /\ h11' = AfterSend(h, kind, close)
       /\ wst' = [wst EXCEPT ![t] = kind]
       /\ lockq' = Append(lockq, t)
       /\ Goto(t, next)
  ELSE /\ h11' = AfterIllegalSend(h)
       /\ Goto(t, IF h.theirs = "ERROR" THEN next ELSE Raised(t))
       /\ UNCHANGED writeVars

SendH11(t, kind, close, next) == SendH11On(h11, t, kind, close, next)

\* The "connection: close" stream_send(Response) adds at the limit.
AtKeepAliveLimit == kareq >= KeepAliveMax

HasLock(t) == lockq # <<>> /\ Head(lockq) = t

\* Task t is done with its write, or with a put; it releases send_lock if it
\* has it.
Released(t) ==
  /\ wst' = [wst EXCEPT ![t] = "no"]
  /\ lockq' = IF HasLock(t) THEN Tail(lockq) ELSE lockq

\* (mutant: one message too many)
HasRoomOffByOne(r) == queued[r] <= QueueSize

\* A put on an application's queue is immediate while the queue has room.
HasRoom(r) == queued[r] < QueueSize

\* (mutant: the message is dropped when the queue is full)
PutDisconnectOrDrop(r) ==
  /\ queued' = [queued EXCEPT ![r] = IF HasRoom(r) THEN @ + 1 ELSE @]
  /\ told' = [told EXCEPT ![r] = IF HasRoom(r) THEN @ + 1 ELSE @]

PutDisconnect(r) ==
  /\ HasRoom(r)
  /\ queued' = [queued EXCEPT ![r] = @ + 1]
  /\ told' = [told EXCEPT ![r] = @ + 1]

\* (mutant: HTTPStream.handle does not look at closed)
OpenClosedIgnored(s) == s # 0

\* HTTPStream.handle does something only while the stream is not closed.
Open(s) == s # 0 /\ ~sclosed[s]

\* (mutant: the stream is closed but not forgotten)
CloseStreamRemembered(t, next) ==
  /\ IF Open(cur) THEN PutDisconnect(cur) /\ sclosed' = [sclosed EXCEPT ![cur] = TRUE]
                  ELSE UNCHANGED <<sclosed, queueVars>>
  /\ Released(t) /\ Goto(t, next)
  /\ UNCHANGED <<cur, tgt>>

\* H11Protocol._close_stream, after which task t is at next: the stream is
\* told once and forgotten, and its application is told http.disconnect, for
\* which the task may have to wait.  A stream that is rejecting its request
\* has no app_put yet: HTTPStream.handle fails with an AttributeError.
CloseStream(t, next) ==
  \/ /\ ~Open(cur)
     /\ cur' = 0 /\ Released(t) /\ Goto(t, next)
     /\ UNCHANGED <<sclosed, tgt, queueVars>>
  \/ /\ Open(cur) /\ pc[cur] = "none"
     /\ sclosed' = [sclosed EXCEPT ![cur] = TRUE]
     /\ Released(t) /\ Goto(t, Raised(t))
     /\ UNCHANGED <<cur, tgt, queueVars>>
  \/ /\ Open(cur) /\ pc[cur] # "none" /\ PutDisconnect(cur)
     /\ sclosed' = [sclosed EXCEPT ![cur] = TRUE]
     /\ cur' = 0 /\ Released(t) /\ Goto(t, next)
     /\ UNCHANGED tgt
  \/ /\ Open(cur) /\ pc[cur] # "none" /\ ~HasRoom(cur)
     /\ sclosed' = [sclosed EXCEPT ![cur] = TRUE]
     /\ wst' = [wst EXCEPT ![t] = "put"] /\ tgt' = [tgt EXCEPT ![t] = cur]
     /\ Goto(t, next)
     /\ UNCHANGED <<cur, queueVars, lockq>>

\* ... the put that had to wait.
PutLate(t) ==
  /\ wst[t] = "put"
  /\ PutDisconnect(tgt[t])
  /\ cur' = 0 /\ Released(t)
  /\ UNCHANGED <<clientVars, parserVars, h11, nreq, kareq, sstate, sclosed, pc,
                 endVars, tgt, serverVars, wire>>

\* (mutant: the writer is not closed)
CloseTransportOmitted == UNCHANGED net

\* TCPServer._close up to wait_closed().
CloseTransport == net' = IF net = "open" THEN "closing" ELSE net

----------------------------------------------------------------------------
(* TCPServer.protocol_send(RawData), for the task whose turn it is.        *)

\* writer.write: the bytes are on their way, or discarded by a transport
\* that is closing.  Successive chunks of one response count once.
Write(t) ==
  /\ HasLock(t) /\ wst[t] \in SendKinds /\ net # "lost"
  /\ wst' = [wst EXCEPT ![t] = "drain"]
  /\ LET event == [kind |-> wst[t], by |-> t]
         repeated == event.kind = "data" /\ wire # <<>> /\ wire[Len(wire)] = event
     IN  wire' = IF net = "closing" \/ repeated THEN wire ELSE Append(wire, event)
  /\ UNCHANGED <<clientVars, parserVars, h11, streamVars, queueVars, pc, endVars,
                 tgt, lockq, serverVars>>

Drained(t) ==
  /\ HasLock(t) /\ wst[t] = "drain" /\ net # "lost"
  /\ Released(t)
  /\ UNCHANGED <<clientVars, parserVars, h11, streamVars, queueVars, pc, endVars,
                 tgt, serverVars, wire>>

\* write or drain raises: protocol.handle(Closed()), still holding the lock.
WriteFails(t) ==
  /\ HasLock(t)
  /\ \/ wst[t] \in SendKinds /\ net \in {"closing", "lost"}
     \/ wst[t] = "drain" /\ net = "lost"
  /\ CloseStream(t, pc[t])
  /\ UNCHANGED <<clientVars, parserVars, h11, nreq, kareq, sstate, endVars,
                 serverVars, wire>>

WriteStep(t) == Write(t) \/ Drained(t) \/ WriteFails(t) \/ PutLate(t)

----------------------------------------------------------------------------
(* TCPServer._read_data.                                                   *)

\* (mutant: at_eof() is not looked at)
NextReadAlways == "read"

\* The reader's next label when _handle_events breaks: reader.at_eof()?
NextRead == IF rx = "eof" /\ inbox = <<>> THEN "closed" ELSE "read"

ReadData ==
  /\ At(Reader, "read") /\ inbox # <<>> /\ rx # "exc"
  /\ buf' = buf \o inbox /\ inbox' = <<>>
  /\ Goto(Reader, "loop")
  /\ UNCHANGED <<script, rx, eof, h11, streamVars, queueVars, writeVars, endVars, tgt,
                 serverVars, wire>>

ReadEof ==
  /\ At(Reader, "read") /\ inbox = <<>> /\ rx = "eof"
  /\ eof' = TRUE
  /\ Goto(Reader, "loop")
  /\ UNCHANGED <<clientVars, buf, h11, streamVars, queueVars, writeVars, endVars, tgt,
                 serverVars, wire>>

\* read() raises, or config.read_timeout is over.
ReadFails ==
  /\ At(Reader, "read") /\ (rx = "exc" \/ (rx = "no" /\ inbox = <<>>))
  /\ Goto(Reader, "closed")
  /\ UNCHANGED <<clientVars, parserVars, h11, streamVars, queueVars, writeVars,
                 endVars, tgt, serverVars, wire>>

----------------------------------------------------------------------------
(* H11Protocol._handle_events: one step per event of h11.                  *)

Event == NextEvent(h11, buf, eof)
Parsed(event) ==
  h11' = AfterEvent(h11, event, IF buf = <<>> THEN "" ELSE Head(buf))

\* (mutant: the timer is left running)
StopIdleOmitted == UNCHANGED idle

\* protocol_send(Updated(idle=False)): the idle timer is cancelled.
StopIdle == idle' = FALSE

\* A request: Updated(idle=False) stops the idle timer, then its stream is
\* created, or its host is not one of ours.
RequestEvent ==
  /\ At(Reader, "loop") /\ Event = "request" /\ nreq < MaxReq
  /\ Parsed("request") /\ buf' = Tail(buf)
  /\ StopIdle
  /\ Goto(Reader, IF Head(buf) = "unknown" THEN "reject" ELSE "create")
  /\ UNCHANGED <<clientVars, eof, streamVars, queueVars, writeVars, endVars, tgt,
                 canRead, net, terminated, wire>>

\* _create_stream, whose stream spawns the application.
CreateStream ==
  /\ At(Reader, "create")
  /\ cur' = nreq + 1 /\ nreq' = nreq + 1 /\ kareq' = kareq + 1
  /\ pc' = [pc EXCEPT ![Reader] = "loop", ![nreq + 1] = "run"]
  /\ UNCHANGED <<clientVars, parserVars, h11, sstate, sclosed, queueVars, writeVars,
                 endVars, tgt, serverVars, wire>>

\* _create_stream, whose stream answers 404 and spawns nothing.
RejectRequest ==
  /\ At(Reader, "reject")
  /\ cur' = nreq + 1 /\ nreq' = nreq + 1
  /\ SendH11(Reader, "head", TRUE, "rejectEnd")
  /\ UNCHANGED <<clientVars, parserVars, kareq, sstate, sclosed, queueVars,
                 endVars, tgt, serverVars, wire>>

RejectEnd ==
  /\ At(Reader, "rejectEnd")
  /\ SendH11(Reader, "end", FALSE, "rejected")
  /\ UNCHANGED <<clientVars, parserVars, streamVars, queueVars, endVars, tgt,
                 serverVars, wire>>

Rejected ==
  /\ At(Reader, "rejected")
  /\ sstate' = [sstate EXCEPT ![nreq] = "CLOSED"]
  /\ sclosed' = [sclosed EXCEPT ![nreq] = TRUE]
  /\ kareq' = kareq + 1
  /\ Goto(Reader, "loop")
  /\ UNCHANGED <<clientVars, parserVars, h11, cur, nreq, queueVars, writeVars,
                 endVars, tgt, serverVars, wire>>

\* h11 holds the next request back: wait for _maybe_recycle.
Paused ==
  /\ At(Reader, "loop") /\ Event = "paused"
  /\ canRead' = FALSE
  /\ Goto(Reader, "paused")
  /\ UNCHANGED <<clientVars, parserVars, h11, streamVars, queueVars, writeVars,
                 endVars, tgt, idle, net, terminated, wire>>

Resume ==
  /\ At(Reader, "paused") /\ canRead
  /\ Goto(Reader, "loop")
  /\ UNCHANGED <<clientVars, parserVars, h11, streamVars, queueVars, writeVars,
                 endVars, tgt, serverVars, wire>>

\* Nothing left to parse, or the client has closed its side.
NothingMore ==
  /\ At(Reader, "loop") /\ Event \in {"need_data", "closed"}
  /\ Parsed(Event)
  /\ Goto(Reader, NextRead)
  /\ UNCHANGED <<clientVars, parserVars, streamVars, queueVars, writeVars, endVars, tgt,
                 serverVars, wire>>

\* A part of the body: for the open stream's application, dropped otherwise.
BodyEvent ==
  /\ At(Reader, "loop") /\ Event \in {"data", "end"}
  /\ Parsed(Event) /\ buf' = Tail(buf)
  /\ \/ cur = 0 /\ Goto(Reader, NextRead) /\ UNCHANGED <<queued, tgt>>
     \/ cur # 0 /\ ~Open(cur) /\ Goto(Reader, "loop") /\ UNCHANGED <<queued, tgt>>
     \/ /\ Open(cur) /\ HasRoom(cur)
        /\ queued' = [queued EXCEPT ![cur] = @ + 1]
        /\ Goto(Reader, "loop") /\ UNCHANGED tgt
     \/ /\ Open(cur) /\ ~HasRoom(cur)
        /\ tgt' = [tgt EXCEPT ![Reader] = cur]
        /\ Goto(Reader, "putBody") /\ UNCHANGED queued
  /\ UNCHANGED <<clientVars, eof, streamVars, told, writeVars, endVars,
                 serverVars, wire>>

PutBody ==
  /\ At(Reader, "putBody") /\ HasRoom(tgt[Reader])
  /\ queued' = [queued EXCEPT ![tgt[Reader]] = @ + 1]
  /\ Goto(Reader, "loop")
  /\ UNCHANGED <<clientVars, parserVars, h11, streamVars, told, writeVars, endVars, tgt,
                 serverVars, wire>>

\* An error response is sent only where no response has begun.
MayAnswerError(h) == h.ours \in {"IDLE", "SEND_RESPONSE"}

\* RemoteProtocolError: an error response if none was begun, then Closed.
ProtocolError ==
  /\ At(Reader, "loop") /\ Event = "error"
  /\ LET h == AfterEvent(h11, "error", "")
     IN  IF MayAnswerError(h)
         THEN SendH11On(h, Reader, "head", TRUE, "errEnd")
         ELSE h11' = h /\ Goto(Reader, "close") /\ UNCHANGED writeVars
  /\ UNCHANGED <<clientVars, parserVars, streamVars, queueVars, endVars, tgt,
                 serverVars, wire>>

ErrorEnd ==
  /\ At(Reader, "errEnd")
  /\ SendH11(Reader, "end", FALSE, "close")
  /\ UNCHANGED <<clientVars, parserVars, streamVars, queueVars, endVars, tgt,
                 serverVars, wire>>

ReaderCloses ==
  /\ At(Reader, "close")
  /\ CloseTransport
  /\ Goto(Reader, "waitClosed")
  /\ UNCHANGED <<clientVars, parserVars, h11, streamVars, queueVars, writeVars,
                 endVars, tgt, canRead, idle, terminated, wire>>

ReaderClosed ==
  /\ At(Reader, "waitClosed") /\ net = "lost"
  /\ idle' = FALSE
  /\ Goto(Reader, NextRead)
  /\ UNCHANGED <<clientVars, parserVars, h11, streamVars, queueVars, writeVars,
                 endVars, tgt, canRead, net, terminated, wire>>

----------------------------------------------------------------------------
(* The end of TCPServer.run.                                               *)

\* protocol.handle(Closed()) once reading is over.
HandleClosed ==
  /\ At(Reader, "closed")
  /\ CloseStream(Reader, "join")
  /\ UNCHANGED <<clientVars, parserVars, h11, nreq, kareq, sstate, endVars,
                 serverVars, wire>>

\* The task group waits for the applications and for the idle task.
Join ==
  /\ At(Reader, "join") /\ ~idle
  /\ \A r \in Apps : pc[r] \in {"none", "raised", "done"}
  /\ Goto(Reader, "finalClose")
  /\ UNCHANGED <<clientVars, parserVars, h11, streamVars, queueVars, writeVars,
                 endVars, tgt, serverVars, wire>>

\* What the application task goes back to.
Back(r) == IF fin[r] THEN "done" ELSE "run"

\* Where a cancellation leaves task t: an application goes on to its
\* send(None), unless it was in it, and _close() catches the cancellation.
Cancelled(t) ==
  IF t = Reader
  THEN IF pc[t] = "waitClosed" THEN NextRead ELSE "join"
  ELSE CASE pc[t] \in {"none", "raised", "done"} -> pc[t]
         [] pc[t] = "waitClosed" -> Back(t)
         [] pc[t] \notin {"none", "raised", "done", "waitClosed"} ->
              IF fin[t] THEN "done" ELSE "finish"

\* The first exception that leaves a task: the group cancels the others.
Abort ==
  /\ ~aborting /\ aborting' = TRUE
  /\ \E t \in Tasks : At(t, "raised")
  /\ pc' = [t \in Tasks |-> Cancelled(t)]
  /\ fin' = [r \in Apps |-> fin[r] \/ Cancelled(r) = "finish"]
  /\ wst' = [t \in Tasks |-> "no"] /\ lockq' = <<>>
  /\ idle' = FALSE
  /\ UNCHANGED <<clientVars, parserVars, h11, streamVars, queueVars, tgt,
                 canRead, net, terminated, wire>>

FinalClose ==
  /\ At(Reader, "finalClose")
  /\ CloseTransport
  /\ Goto(Reader, "finalWait")
  /\ UNCHANGED <<clientVars, parserVars, h11, streamVars, queueVars, writeVars,
                 endVars, tgt, canRead, idle, terminated, wire>>

FinalClosed ==
  /\ At(Reader, "finalWait") /\ net = "lost"
  /\ idle' = FALSE
  /\ Goto(Reader, "ended")
  /\ UNCHANGED <<clientVars, parserVars, h11, streamVars, queueVars, writeVars,
                 endVars, tgt, canRead, net, terminated, wire>>

----------------------------------------------------------------------------
(* The application of request r, and HTTPStream.app_send.                  *)

\* receive() returns a message.
Receive(r) ==
  /\ IF ConcurrentReceive THEN pc[r] \notin {"none", "done"} ELSE At(r, "run")
  /\ queued[r] > 0
  /\ queued' = [queued EXCEPT ![r] = @ - 1]
  /\ UNCHANGED <<clientVars, parserVars, h11, streamVars, told, taskVars,
                 serverVars, wire>>

\* (mutant: a second start)
MayStartAgain(r) == At(r, "run")

\* The messages app_send takes in the stream's state; it raises an
\* UnexpectedMessageError, and changes nothing, on the others.
MayStart(r) == At(r, "run") /\ sstate[r] = "REQUEST"
MayRespond(r) == At(r, "run") /\ sstate[r] = "RESPONSE"

\* http.response.start: the state moves once the head is sent.
SendStart(r) ==
  /\ MayStart(r)
  /\ SendH11(r, "head", AtKeepAliveLimit, "started")
  /\ UNCHANGED <<clientVars, parserVars, streamVars, queueVars, endVars, tgt,
                 serverVars, wire>>

Started(r) ==
  /\ At(r, "started")
  /\ sstate' = [sstate EXCEPT ![r] = "RESPONSE"]
  /\ Goto(r, "run")
  /\ UNCHANGED <<clientVars, parserVars, h11, cur, nreq, kareq, sclosed,
                 queueVars, writeVars, endVars, tgt, serverVars, wire>>

\* http.response.body: a chunk that is, or is not, the last.
SendBody(r, last) ==
  /\ MayRespond(r)
  /\ SendH11(r, "data", FALSE, IF last THEN "bodyEnd" ELSE "run")
  /\ UNCHANGED <<clientVars, parserVars, streamVars, queueVars, endVars, tgt,
                 serverVars, wire>>

EndResponse(r) ==
  /\ sstate' = [sstate EXCEPT ![r] = "CLOSED"]
  /\ SendH11(r, "end", FALSE, "ended")
  /\ UNCHANGED <<clientVars, parserVars, cur, nreq, kareq, sclosed, queueVars,
                 endVars, tgt, serverVars, wire>>

\* The end of the response follows the last chunk, or comes at once when that
\* chunk is empty or suppressed.
AfterLastChunk(r) == At(r, "bodyEnd") /\ sstate[r] # "CLOSED" /\ EndResponse(r)
SendEmptyLast(r) == MayRespond(r) /\ EndResponse(r)

\* The application returns or fails; its task goes on to send(None).
Return(r) ==
  /\ At(r, "run")
  /\ fin' = [fin EXCEPT ![r] = TRUE]
  /\ Goto(r, "finish")
  /\ UNCHANGED <<clientVars, parserVars, h11, streamVars, queueVars, writeVars,
                 tgt, aborting, serverVars, wire>>

\* app_send(None).  A stream that has not begun its response answers 500; one
\* that is closed does nothing.
Finish(r) ==
  /\ At(r, "finish")
  /\ \/ /\ sclosed[r]
        /\ Goto(r, "done") /\ UNCHANGED <<h11, writeVars>>
     \/ /\ ~sclosed[r] /\ sstate[r] # "REQUEST"
        /\ Goto(r, "ended") /\ UNCHANGED <<h11, writeVars>>
     \/ /\ ~sclosed[r] /\ sstate[r] = "REQUEST"
        /\ SendH11(r, "head", TRUE, "errEnd")
  /\ UNCHANGED <<clientVars, parserVars, streamVars, queueVars, endVars, tgt,
                 serverVars, wire>>

\* The rest of _send_error_response(500).
ErrorResponseEnd(r) ==
  /\ At(r, "errEnd")
  /\ SendH11(r, "end", FALSE, "errDone")
  /\ UNCHANGED <<clientVars, parserVars, streamVars, queueVars, endVars, tgt,
                 serverVars, wire>>

ErrorResponseDone(r) ==
  /\ At(r, "errDone")
  /\ sstate' = [sstate EXCEPT ![r] = "CLOSED"]
  /\ Goto(r, "ended")
  /\ UNCHANGED <<clientVars, parserVars, h11, cur, nreq, kareq, sclosed,
                 queueVars, writeVars, endVars, tgt, serverVars, wire>>

\* (mutant: the stream is not closed first)
StreamEndedWithoutClosing(r) ==
  /\ At(r, "ended")
  /\ Goto(r, "recycle")
  /\ UNCHANGED <<clientVars, parserVars, h11, streamVars, queueVars, writeVars,
                 endVars, tgt, serverVars, wire>>

\* send(StreamClosed): _maybe_recycle first closes the stream ...
StreamEnded(r) ==
  /\ At(r, "ended")
  /\ CloseStream(r, "recycle")
  /\ UNCHANGED <<clientVars, parserVars, h11, nreq, kareq, sstate, endVars,
                 serverVars, wire>>

CanRecycle == ~terminated /\ h11.ours = "DONE" /\ h11.theirs = "DONE"

\* ... then the connection takes its next request, Updated(idle=True); a group
\* that is aborting takes no new task, not even the timer ...
Recycle(r) ==
  /\ At(r, "recycle") /\ CanRecycle
  /\ h11' = NextCycle(h11)
  /\ canRead' = TRUE
  /\ idle' = ~aborting
  /\ Goto(r, Back(r))
  /\ UNCHANGED <<clientVars, parserVars, streamVars, queueVars, writeVars, endVars, tgt,
                 net, terminated, wire>>

\* ... or is closed.
CloseAfterResponse(r) ==
  /\ At(r, "recycle") /\ ~CanRecycle
  /\ canRead' = TRUE
  /\ CloseTransport
  /\ Goto(r, "waitClosed")
  /\ UNCHANGED <<clientVars, parserVars, h11, streamVars, queueVars, writeVars,
                 endVars, tgt, idle, terminated, wire>>

ClosedAfterResponse(r) ==
  /\ At(r, "waitClosed") /\ net = "lost"
  /\ idle' = FALSE
  /\ Goto(r, Back(r))
  /\ UNCHANGED <<clientVars, parserVars, h11, streamVars, queueVars, writeVars,
                 endVars, tgt, canRead, net, terminated, wire>>

----------------------------------------------------------------------------
(* The idle task, the worker and the client.                               *)

\* keep_alive_timeout is over, or the worker terminates, while the timer is
\* armed: _initiate_server_close.
IdleTimeout ==
  /\ idle /\ pc[Reader] # "ended"
  /\ idle' = FALSE
  /\ CloseTransport
  /\ \/ ~Open(cur) /\ UNCHANGED <<sclosed, queueVars>>
     \/ /\ Open(cur) /\ pc[cur] # "none" /\ PutDisconnect(cur)
        /\ sclosed' = [sclosed EXCEPT ![cur] = TRUE]
  /\ cur' = 0
  /\ UNCHANGED <<clientVars, parserVars, h11, nreq, kareq, sstate, taskVars,
                 canRead, terminated, wire>>

\* The worker shuts down: context.terminated.
Terminate ==
  /\ ~terminated /\ terminated' = TRUE
  /\ UNCHANGED <<clientVars, parserVars, h11, streamVars, queueVars, taskVars,
                 canRead, idle, net, wire>>

ClientSends ==
  /\ net = "open" /\ rx = "no" /\ script # <<>>
  /\ inbox' = Append(inbox, Head(script)) /\ script' = Tail(script)
  /\ UNCHANGED <<rx, parserVars, h11, streamVars, queueVars, taskVars,
                 serverVars, wire>>

\* The client closes its side only.
ClientEof ==
  /\ net = "open" /\ rx = "no" /\ rx' = "eof"
  /\ UNCHANGED <<script, inbox, parserVars, h11, streamVars, queueVars,
                 taskVars, serverVars, wire>>

\* The connection is gone: the client reset it, or the server's close is done.
ConnectionLost ==
  /\ net # "lost" /\ net' = "lost"
  /\ rx' \in IF rx = "no" THEN {"eof", "exc"} ELSE {rx, "exc"}
  /\ UNCHANGED <<script, inbox, parserVars, h11, streamVars, queueVars,
                 taskVars, canRead, idle, terminated, wire>>

ReaderStep ==
  \/ ReadData \/ ReadEof
  \/ RequestEvent \/ CreateStream \/ RejectRequest \/ RejectEnd \/ Rejected
  \/ Paused \/ Resume \/ NothingMore \/ BodyEvent \/ PutBody
  \/ ProtocolError \/ ErrorEnd \/ ReaderCloses \/ ReaderClosed
  \/ HandleClosed \/ Join \/ Abort \/ FinalClose \/ FinalClosed
  \/ WriteStep(Reader)

\* The server's code run by an application task.
StreamStep(r) ==
  \/ Started(r) \/ AfterLastChunk(r)
  \/ Finish(r) \/ ErrorResponseEnd(r) \/ ErrorResponseDone(r)
  \/ StreamEnded(r) \/ Recycle(r) \/ CloseAfterResponse(r)
  \/ ClosedAfterResponse(r) \/ WriteStep(r)

\* The application's own choices.
AppStep(r) ==
  \/ Receive(r) \/ SendStart(r) \/ SendBody(r, TRUE) \/ SendBody(r, FALSE)
  \/ SendEmptyLast(r) \/ Return(r)

Environment == Terminate \/ ClientSends \/ ClientEof \/ ConnectionLost

Next ==
  \/ ReaderStep \/ ReadFails \/ IdleTimeout \/ Environment
  \/ \E r \in Apps : StreamStep(r) \/ AppStep(r)

Spec == Init /\ [][Next]_vars

\* The event loop runs every task that can run, a transport that is being
\* closed is closed in the end, the idle timer expires and every application
\* returns in the end (it is not required to receive, nor to answer).
FairSpec ==
  /\ Spec
  /\ WF_vars(ReaderStep) /\ WF_vars(ReadFails /\ rx = "exc")
  /\ WF_vars(IdleTimeout)
  /\ WF_vars(net = "closing" /\ ConnectionLost)
  /\ \A r \in Apps : WF_vars(StreamStep(r)) /\ SF_vars(Return(r))

----------------------------------------------------------------------------
(* Properties.                                                             *)

Spawned(r) == pc[r] # "none"

\* Every application is told http.disconnect at most once, whichever of the
\* reader, a failed write, the idle timer and its own end closes the stream
\* (docs/discussion/closing.rst, "send it only once").
DisconnectOnce == \A r \in Apps : told[r] <= 1

\* No application loses its disconnect: it is still attached to the
\* connection, it has been told, or a task is waiting to tell it.
DisconnectNotLost ==
  \A r \in Apps :
    Spawned(r) => \/ cur = r /\ ~sclosed[r]
                  \/ told[r] = 1
                  \/ \E t \in Tasks : tgt[t] = r /\ wst[t] = "put"

\* The connection keeps the promises of Exchange to its applications.
Phase(r) ==
  IF ~Spawned(r) THEN "waiting" ELSE IF sclosed[r] THEN "closed" ELSE "open"
Promise == INSTANCE Exchange WITH phase <- [r \in Apps |-> Phase(r)]
ImplementsExchange == Promise!ExchangeSpec

\* What the client sees is a sequence of whole responses, only the last of
\* which may be cut: no byte of one application inside another's response.
Heads(i) == {j \in 1 .. i : wire[j].kind = "head"}
WellFramed ==
  \A i \in 1 .. Len(wire) :
    IF wire[i].kind = "head"
    THEN i > 1 => wire[i - 1].kind = "end"
    ELSE i > 1 /\ wire[i - 1].kind # "end" /\ wire[i - 1].by = wire[i].by

\* The n-th response on the connection answers the n-th request: it comes
\* from that request's application, or from the server in its place.
ResponseMatchesRequest ==
  \A i \in 1 .. Len(wire) :
    wire[i].by # Reader => wire[i].by = Cardinality(Heads(i))

\* The idle timer never runs while a request is processed
\* (docs/discussion/dos_mitigations.rst, "Inactive connection").
IdleBetweenRequests == idle => cur = 0 /\ \A r \in Apps : Spawned(r) => sclosed[r]

\* No more applications are run on a connection than the keep alive limit
\* allows, a limit of 0 included: the last response closes it.
KeepAliveLimit ==
  Cardinality({r \in Apps : Spawned(r)}) <= (IF KeepAliveMax = 0 THEN 1 ELSE KeepAliveMax)

\* The protocol never sends h11 an event it refuses, unless the client broke
\* the protocol first.
LegalSends == h11.ours = "ERROR" => h11.theirs = "ERROR"

\* The responses on the wire are the requests' own, whole and in their order,
\* and h11 has taken every event of which they are made: with pipelining,
\* client errors and responses that are cut at any byte.
Responses == WellFramed /\ ResponseMatchesRequest /\ LegalSends

\* The two limits of docs/discussion/dos_mitigations.rst that one connection
\* has to keep, whatever is pipelined on it.
Mitigations == IdleBetweenRequests /\ KeepAliveLimit

\* A send() blocks its application only while the client does not read or
\* until the connection is closed (docs/discussion/backpressure.rst): under
\* FairSpec, where every write completes or fails, every send returns.
SendReturns ==
  \A r \in Apps : pc[r] \notin {"none", "run", "done"} ~> pc[r] \in {"run", "done"}

\* A request whose response is complete leaves the connection: its stream is
\* closed and forgotten (docs/discussion/closing.rst, "Server disconnection").
AnsweredStreamLeaves ==
  \A r \in Apps : (cur = r /\ sstate[r] = "CLOSED") ~> cur # r

\* The connection's task ends once its client is gone
\* (tests/asyncio/test_tcp_server.py, test_completes_on_closed).
EndsWhenLost == net = "lost" ~> pc[Reader] = "ended"

\* Every application that is run is told http.disconnect.
EventuallyTold == \A r \in Apps : Spawned(r) ~> told[r] > 0

\* No stream stays for ever: it leaves with its response, and its application
\* is told, whoever of the two is first.
StreamsEnd == AnsweredStreamLeaves /\ EventuallyTold
=============================================================================
