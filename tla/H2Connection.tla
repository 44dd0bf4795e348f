---------------------------- MODULE H2Connection ----------------------------
(***************************************************************************)
(* One HTTP/2 connection of an asyncio worker: H2Protocol, its stream      *)
(* buffers and sending task, and the HTTPStream and application of each    *)
(* request.  The tasks that share this state are                           *)
(*   Reader   TCPServer.run: reads the socket and feeds the protocol       *)
(*   Sender   H2Protocol.send_task: moves buffered data to the client      *)
(*   1, 2 ..  the application task of each stream, which runs the          *)
(*            protocol's code whenever it calls send()                     *)
(* together with the idle timer, the client and the worker's shutdown.     *)
(*                                                                         *)
(* A task may be suspended while it flushes (send_lock and drain), while   *)
(* it waits for a buffer, for has_data, for room in an application's queue *)
(* or for the transport, and in the application's own code.  What it runs  *)
(* between two of these is one step, or several that no other task         *)
(* interrupts (Alone).  Every host is served; there is no server push.     *)
(*                                                                         *)
(* The h2 library and the priority tree are external: h2 is the state of   *)
(* each stream and of the connection and the flow control windows, the     *)
(* tree is the set of streams it holds and those it may return next.       *)
(***************************************************************************)
EXTENDS Naturals, Sequences, FiniteSets, FiniteSetsExt

CONSTANTS
  MaxReq,              \* bound: streams the client opens
  Scripts,             \* bound: the frame sequences the client may send
  Faults,              \* bound: what may happen besides, see FaultKinds
  MaxBody,             \* bound: the units of body an application sends
  ChunkSizes,          \* the units in one http.response.body
  Extensions,          \* the keys applications use: subset of {"flush", "headers"}
  QueueSize,           \* config.max_app_queue_size
  KeepAliveMax,        \* config.keep_alive_max_requests
  HighWater, LowWater, \* BUFFER_HIGH_WATER, BUFFER_LOW_WATER
  FrameSize,           \* h2's max_outbound_frame_size
  InitialWindow,       \* the client's initial flow control windows
  WindowIncrement      \* the increment of its WINDOW_UPDATE frames

Streams == 1 .. MaxReq
Reader == 0
Sender == MaxReq + 1
Tasks == 0 .. MaxReq + 1

\* A frame is a kind and a stream; stream 0 is the connection.
Frames ==
  ({"headers", "data", "end", "reset", "window", "priority"} \X Streams)
    \cup ({"window", "goaway", "bad"} \X {0})

\* Frame g after frame f: the streams are opened in their order, each once, and
\* a frame for one that is not yet open is a PRIORITY.  Anything else is an
\* error of the protocol: "bad".
MayFollow(f, g) ==
  g[1] = "headers" =>
    /\ f[2] = g[2] => f[1] = "priority"
    /\ f[1] = "headers" => f[2] < g[2]
Legal(frames) ==
  \A i, j \in 1 .. Len(frames) : i < j => MayFollow(frames[i], frames[j])

\* The worker shuts down, the client closes its side or resets the connection,
\* config.read_timeout is over.
FaultKinds == {"terminate", "eof", "reset", "timeout"}

ASSUME H2Assumption ==
  /\ MaxReq \in Nat \ {0}
  /\ Scripts \subseteq Seq(Frames) /\ \A frames \in Scripts : Legal(frames)
  /\ Faults \subseteq FaultKinds
  /\ MaxBody \in Nat /\ ChunkSizes \subseteq Nat \ {0}
  /\ Extensions \subseteq {"flush", "headers"}
  /\ QueueSize \in Nat \ {0} /\ KeepAliveMax \in Nat
  /\ LowWater \in Nat \ {0} /\ HighWater = 2 * LowWater
  /\ FrameSize \in Nat \ {0}
  /\ InitialWindow \in Nat /\ WindowIncrement \in Nat \ {0}

VARIABLES
  script,     \* what the client has still to send
  inbox,      \* frames in the StreamReader
  eof,        \* the client sends no more
  events,     \* the events of the last read that are not handled yet
  conn,       \* h2's connection: "open", or "closed" by a GOAWAY or an error
  half,       \* our side of each stream in h2
  theirEnd,   \* the client ended its side of the stream
  window,     \* flow control: of each stream, and of the connection (0)
  streams,    \* H2Protocol.streams
  kareq,      \* H2Protocol.keep_alive_requests
  closed,     \* H2Protocol.closed
  buf,        \* the StreamBuffer of each stream; live: it is in stream_buffers
  tree,       \* streams the priority tree holds
  ready,      \* ... those of them that are not blocked
  hasData,    \* the has_data event
  serving,    \* the stream send_task is sending for
  sstate,     \* HTTPStream.state
  queued,     \* messages in the stream's application queue
  told,       \* http.disconnect messages put on that queue
  pc, wst,    \* where each task is, and what it waits for on its way there
  fin,        \* the application returned: the task is in its send(None)
  aborting,   \* the task group is cancelling its tasks
  closing,    \* streams a task has still to close
  lockq,      \* send_lock: the holder, then the waiters in order
  made,       \* units of body the application sent
  sent,       \* units of body given to h2, by their number
  idle,       \* the idle timer is armed
  net,        \* transport: open, closing (closed by the server) or lost
  terminated  \* context.terminated

clientVars == <<script, inbox, eof, events>>
h2Vars == <<conn, half, theirEnd, window, sent>>
protocolVars == <<streams, kareq, closed>>
sendVars == <<buf, tree, ready, hasData, serving>>
appVars == <<sstate, fin, made>>
queueVars == <<queued, told>>
waitVars == <<wst, lockq, closing>>
serverVars == <<idle, net, terminated, aborting>>
vars == <<clientVars, h2Vars, protocolVars, sendVars, appVars, queueVars, pc,
          waitVars, serverVars>>

AppPC == {"none", "run", "started", "push", "pushLast", "bodyEnd", "drain",
          "errEnd", "ended", "left", "update", "finish", "done"}
SenderPC == {"loop", "wait", "sent", "finished", "raised", "done"}
ReaderPC == {"read", "events", "putBody", "window", "close", "waitClosed", "closed", "join", "finalClose", "finalWait",
             "raised", "stopped"}

NewBuffer == [data |-> <<>>, complete |-> FALSE, empty |-> FALSE,
              paused |-> FALSE, live |-> TRUE]
Buffers == [data : Seq(1 .. MaxBody), complete : BOOLEAN, empty : BOOLEAN,
            paused : BOOLEAN, live : BOOLEAN]

\* What h2 tells of a frame: an event, or nothing.
NoEvent == <<"nothing", 0>>
Events == Frames \cup {NoEvent}

TypeOK ==
  /\ script \in Seq(Frames) /\ inbox \in Seq(Frames) /\ events \in Seq(Events)
  /\ eof \in BOOLEAN
  /\ conn \in {"open", "closed"}
  /\ half \in [Streams -> {"idle", "open", "ended", "reset"}]
  /\ theirEnd \in [Streams -> BOOLEAN]
  /\ window \in [0 .. MaxReq -> Nat]
  /\ streams \subseteq Streams /\ kareq \in Nat /\ closed \in BOOLEAN
  /\ buf \in [Streams -> Buffers]
  /\ tree \subseteq Streams /\ ready \subseteq tree /\ hasData \in BOOLEAN
  /\ serving \in 0 .. MaxReq
  /\ sstate \in [Streams -> {"REQUEST", "RESPONSE", "CLOSED"}]
  /\ fin \in [Streams -> BOOLEAN]
  /\ queued \in [Streams -> 0 .. QueueSize] /\ told \in [Streams -> Nat]
  /\ pc \in [Tasks -> AppPC \cup SenderPC \cup ReaderPC]
  /\ pc[Reader] \in ReaderPC /\ pc[Sender] \in SenderPC
  /\ \A s \in Streams : pc[s] \in AppPC
  /\ wst \in [Tasks -> {"no", "flush", "put"}]
  /\ closing \in [Tasks -> SUBSET Streams] /\ lockq \in Seq(Tasks)
  /\ made \in [Streams -> 0 .. MaxBody]
  /\ sent \in [Streams -> Seq(1 .. MaxBody)]
  /\ idle \in BOOLEAN /\ terminated \in BOOLEAN /\ aborting \in BOOLEAN
  /\ net \in {"open", "closing", "lost"}

\* TCPServer.run up to its first read: the preface is sent, send_task runs.
Init ==
  /\ script \in Scripts /\ inbox = <<>> /\ eof = FALSE /\ events = <<>>
  /\ conn = "open" /\ half = [s \in Streams |-> "idle"]
  /\ theirEnd = [s \in Streams |-> FALSE]
  /\ window = [s \in 0 .. MaxReq |-> InitialWindow]
  /\ streams = {} /\ kareq = 0 /\ closed = FALSE
  /\ buf = [s \in Streams |-> [NewBuffer EXCEPT !.live = FALSE]]
  /\ tree = {} /\ ready = {} /\ hasData = FALSE /\ serving = 0
  /\ sstate = [s \in Streams |-> "REQUEST"]
  /\ fin = [s \in Streams |-> FALSE]
  /\ queued = [s \in Streams |-> 0] /\ told = [s \in Streams |-> 0]
  /\ pc = [t \in Tasks |-> CASE t = Reader -> "read" [] t = Sender -> "loop"
                             [] OTHER -> "none"]
  /\ wst = [t \in Tasks |-> "no"]
  /\ closing = [t \in Tasks |-> {}] /\ lockq = <<>>
  /\ made = [s \in Streams |-> 0] /\ sent = [s \in Streams |-> <<>>]
  /\ idle = TRUE /\ net = "open" /\ terminated = FALSE /\ aborting = FALSE

----------------------------------------------------------------------------
(* h2 and the priority tree.                                               *)

\* h2 has forgotten a stream that was reset, or that both sides ended.
Gone(s) == half[s] = "reset" \/ (half[s] = "ended" /\ theirEnd[s])

\* send_headers, send_data and end_stream raise a ProtocolError otherwise.
CanSend(s) == conn = "open" /\ half[s] = "open"

\* What H2Protocol may send for stream s: the window, at most a frame.
Room(s) == Min({window[s], window[0], FrameSize})

\* connection.send_data, accepted.
SendData(s, units) ==
  /\ sent' = [sent EXCEPT ![s] = @ \o units]
  /\ window' = [window EXCEPT ![s] = @ - Len(units), ![0] = @ - Len(units)]

----------------------------------------------------------------------------
(* Building blocks.                                                        *)

At(t, label) == pc[t] = label /\ wst[t] = "no"

\* The event loop runs one task at a time: no task but t is between two
\* suspension points.
Waiting == {"none", "run", "push", "pushLast", "drain", "finish", "raised", "done",
            "wait", "read", "putBody", "waitClosed", "join", "finalClose",
            "finalWait", "stopped"}
Alone(t) == \A u \in Tasks \ {t} : wst[u] # "no" \/ pc[u] \in Waiting
Nobody == \A u \in Tasks : wst[u] # "no" \/ pc[u] \in Waiting

Goto(t, label) == pc' = [pc EXCEPT ![t] = label]

\* H2Protocol._flush with bytes to send: task t queues for send_lock.
Flush(t, next) ==
  /\ wst' = [wst EXCEPT ![t] = "flush"]
  /\ lockq' = Append(lockq, t)
  /\ Goto(t, next)
  /\ UNCHANGED closing

HasLock(t) == lockq # <<>> /\ Head(lockq) = t

\* Task t goes on; it releases send_lock if it holds it.
Released(t) ==
  /\ wst' = [wst EXCEPT ![t] = "no"]
  /\ closing' = [closing EXCEPT ![t] = {}]
  /\ lockq' = IF HasLock(t) THEN Tail(lockq) ELSE lockq

\* (mutant: one message too many)
HasRoomOffByOne(s) == queued[s] <= QueueSize

\* A put on an application's queue is immediate while the queue has room.
HasRoom(s) == queued[s] < QueueSize

\* (mutant: the message of a closure is dropped)
PutUntold(ss, disconnect) ==
  /\ queued' = [s \in Streams |->
                  IF s \in ss /\ ~disconnect THEN queued[s] + 1 ELSE queued[s]]
  /\ UNCHANGED told

\* A message is put on the queues of these streams.
Put(ss, disconnect) ==
  /\ queued' = [s \in Streams |-> IF s \in ss THEN queued[s] + 1 ELSE queued[s]]
  /\ told' = [s \in Streams |->
                IF s \in ss /\ disconnect THEN told[s] + 1 ELSE told[s]]

\* (mutant: a stream that is closed stays in the table)
LeaveOmitted(ss) == UNCHANGED streams

Leave(ss) == streams' = streams \ ss

\* (mutant: the sender is not told)
WakeIfOmitted(some) == UNCHANGED hasData

WakeIf(some) == hasData' = (hasData \/ some)

\* _close_stream for each of ids in turn, by task t: a stream that is still in
\* the table leaves it, its application is told and has_data is set, up to the
\* first whose queue is full, for which t waits.  The streams of "now" have
\* left the table before and are told first.
CloseStreams(t, ids, now) ==
  LET open == ids \cap streams
      full == {s \in open : ~HasRoom(s)}
      before == {s \in open : \A u \in full : s < u}
  IN  /\ Put(now \cup before, TRUE)
      /\ WakeIf(now \cup before # {} \/ full = {})
      /\ Leave({s \in open : \A u \in full : s <= u})
      /\ IF full = {}
         THEN Released(t)
         ELSE /\ wst' = [wst EXCEPT ![t] = "put"]
              /\ closing' = [closing EXCEPT ![t] = open \ before]
              /\ UNCHANGED lockq

\* Task t waits for room to tell the application of stream s.
Telling(t, s) == s \in closing[t] /\ \A u \in closing[t] : s <= u

\* (mutant: the sender is not woken)
WakeOmitted == UNCHANGED hasData

Wake == hasData' = TRUE

\* ... the put that had to wait, and the streams after it.
PutLate(t) ==
  /\ wst[t] = "put"
  /\ \E s \in Streams :
       Telling(t, s) /\ HasRoom(s) /\ CloseStreams(t, closing[t] \ {s}, {s})
  /\ UNCHANGED <<clientVars, h2Vars, kareq, closed, buf, tree, ready, serving,
                 appVars, pc, serverVars>>

CloseTransport == net' = IF net = "open" THEN "closing" ELSE net

----------------------------------------------------------------------------
(* TCPServer.protocol_send(RawData).                                       *)

Flushed(t) ==
  /\ wst[t] = "flush" /\ HasLock(t) /\ net # "lost"
  /\ Released(t)
  /\ UNCHANGED <<clientVars, h2Vars, protocolVars, sendVars, appVars, queueVars,
                 pc, serverVars>>

\* write or drain raises: protocol.handle(Closed()), still holding the lock.
FlushFails(t) ==
  /\ wst[t] = "flush" /\ HasLock(t) /\ net # "open"
  /\ closed' = TRUE
  /\ CloseStreams(t, streams, {})
  /\ UNCHANGED <<clientVars, h2Vars, kareq, buf, tree, ready, serving, appVars,
                 pc, serverVars>>

WriteStep(t) == Flushed(t) \/ FlushFails(t) \/ PutLate(t)

----------------------------------------------------------------------------
(* The reader: TCPServer._read_data and H2Protocol.handle.                 *)

\* The reader's next label when handle returns: reader.at_eof()?
NextRead == IF eof /\ inbox = <<>> THEN "closed" ELSE "read"

Received(kind, s) == \E i \in DOMAIN inbox : inbox[i] = <<kind, s>>
Windows(s) == Cardinality({i \in DOMAIN inbox : inbox[i] = <<"window", s>>})

\* h2 says nothing of the frames of a stream it has forgotten.
Told(frame) == frame[1] \in {"headers", "priority"} \/ frame[2] = 0 \/ ~Gone(frame[2])

\* receive_data: h2 is ahead of the events it returns.
ReadFrames ==
  /\ At(Reader, "read") /\ inbox # <<>> /\ (net # "lost" \/ eof)
  /\ conn = "open" /\ ~Received("bad", 0)
  /\ half' = [s \in Streams |->
       IF Received("reset", s) /\ half[s] # "ended" THEN "reset"
       ELSE IF Received("headers", s) THEN "open" ELSE half[s]]
  /\ theirEnd' = [s \in Streams |->
       theirEnd[s] \/ Received("end", s) \/ Received("reset", s)]
  /\ window' = [s \in 0 .. MaxReq |-> window[s] + WindowIncrement * Windows(s)]
  /\ conn' = IF Received("goaway", 0) THEN "closed" ELSE conn
  /\ events' = [i \in 1 .. Len(inbox) |-> IF Told(inbox[i]) THEN inbox[i] ELSE NoEvent]
  /\ inbox' = <<>>
  /\ Goto(Reader, "events")
  /\ UNCHANGED <<script, eof, sent, protocolVars, sendVars, appVars, queueVars,
                 waitVars, serverVars>>

\* ... or raises a ProtocolError: what h2 has to say is flushed, then Closed.
ReadError ==
  /\ At(Reader, "read") /\ inbox # <<>> /\ (net # "lost" \/ eof)
  /\ conn = "closed" \/ Received("bad", 0)
  /\ conn' = "closed" /\ inbox' = <<>>
  /\ Flush(Reader, "close")
  /\ UNCHANGED <<script, eof, events, half, theirEnd, window, sent, protocolVars,
                 sendVars, appVars, queueVars, serverVars>>

\* read() returns b"" or raises ...
ReadEnds ==
  /\ At(Reader, "read") /\ ((eof /\ inbox = <<>>) \/ net = "lost")
  /\ Goto(Reader, "closed")
  /\ UNCHANGED <<clientVars, h2Vars, protocolVars, sendVars, appVars, queueVars,
                 waitVars, serverVars>>

\* ... or config.read_timeout is over.
ReadTimeout ==
  /\ "timeout" \in Faults /\ At(Reader, "read") /\ inbox = <<>>
  /\ Goto(Reader, "closed")
  /\ UNCHANGED <<clientVars, h2Vars, protocolVars, sendVars, appVars, queueVars,
                 waitVars, serverVars>>

\* H2Protocol._handle_events takes the next event.
Handle(kind) == At(Reader, "events") /\ events # <<>> /\ Head(events)[1] = kind
EventStream == Head(events)[2]
Done == events' = Tail(events)

\* A request while the worker terminates: the stream is reset, which h2
\* refuses on a closed connection or for a stream it has forgotten.
RefuseRequest ==
  /\ Handle("headers") /\ terminated
  /\ \/ /\ conn = "open" /\ half' = [half EXCEPT ![EventStream] = "reset"]
        /\ UNCHANGED pc
     \/ /\ conn = "closed" \/ Gone(EventStream)
        /\ Goto(Reader, "raised") /\ UNCHANGED half
  /\ Done
  /\ UNCHANGED <<script, inbox, eof, conn, theirEnd, window, sent, protocolVars,
                 sendVars, appVars, queueVars, waitVars, serverVars>>

\* _create_stream, Updated(idle=False), and the check of the request limit.
\* PRIORITY may have put the stream in the tree before.
CreateStream ==
  /\ Handle("headers") /\ ~terminated
  /\ LET s == EventStream
     IN  /\ streams' = streams \cup {s}
         /\ buf' = [buf EXCEPT ![s] = NewBuffer]
         /\ tree' = tree \cup {s}
         /\ pc' = [pc EXCEPT ![s] = "run"]
  /\ kareq' = kareq + 1
  /\ conn' = IF kareq + 1 > KeepAliveMax THEN "closed" ELSE conn
  /\ idle' = FALSE
  /\ Done
  /\ UNCHANGED <<script, inbox, eof, half, theirEnd, window, sent, closed, ready,
                 hasData, serving, appVars, queueVars, waitVars, net, terminated,
                 aborting>>

\* A part of the body, or its end, for a stream in the table: a message for
\* its application, for which the reader may have to wait.
BodyReceived ==
  /\ Handle("data") \/ Handle("end")
  /\ EventStream \in streams
  /\ \/ /\ HasRoom(EventStream)
        /\ Put({EventStream}, FALSE) /\ Done /\ UNCHANGED pc
     \/ /\ ~HasRoom(EventStream)
        /\ Goto(Reader, "putBody") /\ UNCHANGED <<events, queueVars>>
  /\ UNCHANGED <<script, inbox, eof, h2Vars, protocolVars, sendVars, appVars,
                 waitVars, serverVars>>

PutBody ==
  /\ At(Reader, "putBody") /\ HasRoom(EventStream)
  /\ Put({EventStream}, FALSE) /\ Done
  /\ Goto(Reader, "events")
  /\ UNCHANGED <<script, inbox, eof, h2Vars, protocolVars, sendVars, appVars,
                 waitVars, serverVars>>

\* ... of a stream that has left it: the KeyError is caught for the end of the
\* body only.
LateBody ==
  /\ Handle("data") \/ Handle("end")
  /\ EventStream \notin streams
  /\ Done
  /\ IF Handle("data") THEN Goto(Reader, "raised") ELSE UNCHANGED pc
  /\ UNCHANGED <<script, inbox, eof, h2Vars, protocolVars, sendVars, appVars,
                 queueVars, waitVars, serverVars>>

\* StreamReset: the stream is closed, then its window is updated.
StreamReset ==
  /\ Handle("reset")
  /\ \/ EventStream \in streams /\ CloseStreams(Reader, {EventStream}, {})
     \/ EventStream \notin streams /\ UNCHANGED <<streams, hasData, queueVars, waitVars>>
  /\ Goto(Reader, "window")
  /\ UNCHANGED <<clientVars, h2Vars, kareq, closed, buf, tree, ready, serving,
                 appVars, serverVars>>

\* (mutant: an update of the connection's window unblocks no stream)
UpdatedOfStreamOnly == {s \in Streams : buf[s].live /\ EventStream = s}

\* The streams _window_updated unblocks.
Updated == {s \in Streams : buf[s].live /\ EventStream \in {0, s}}

WindowUpdated ==
  /\ Handle("window") \/ At(Reader, "window")
  /\ ready' = ready \cup Updated
  /\ Wake /\ Done
  /\ Goto(Reader, "events")
  /\ UNCHANGED <<script, inbox, eof, h2Vars, protocolVars, buf, tree, serving,
                 appVars, queueVars, waitVars, serverVars>>

\* A stream the tree does not hold is inserted, blocked.
PriorityUpdated ==
  /\ Handle("priority")
  /\ tree' = tree \cup {EventStream}
  /\ Wake /\ Done
  /\ UNCHANGED <<script, inbox, eof, h2Vars, protocolVars, buf, ready, serving,
                 appVars, queueVars, pc, waitVars, serverVars>>

NothingTold ==
  /\ Handle("nothing")
  /\ Done
  /\ UNCHANGED <<script, inbox, eof, h2Vars, protocolVars, sendVars, appVars,
                 queueVars, pc, waitVars, serverVars>>

ConnectionTerminated ==
  /\ Handle("goaway")
  /\ Goto(Reader, "close")
  /\ UNCHANGED <<clientVars, h2Vars, protocolVars, sendVars, appVars, queueVars,
                 waitVars, serverVars>>

\* No event is left: what h2 has to say, if anything, is flushed.
EventsHandled ==
  /\ At(Reader, "events") /\ events = <<>>
  /\ \/ Goto(Reader, NextRead) /\ UNCHANGED waitVars
     \/ Flush(Reader, NextRead)
  /\ UNCHANGED <<clientVars, h2Vars, protocolVars, sendVars, appVars, queueVars,
                 serverVars>>

\* protocol_send(Closed()), after an error or a GOAWAY of the client.
ReaderCloses ==
  /\ At(Reader, "close")
  /\ CloseTransport
  /\ Goto(Reader, "waitClosed")
  /\ UNCHANGED <<clientVars, h2Vars, protocolVars, sendVars, appVars, queueVars,
                 waitVars, idle, terminated, aborting>>

\* Where the reader is after protocol_send(Closed()).
AfterClosing == IF events # <<>> THEN "events" ELSE NextRead

ReaderClosed ==
  /\ At(Reader, "waitClosed") /\ net = "lost"
  /\ idle' = FALSE
  /\ events' = IF events # <<>> THEN Tail(events) ELSE events
  /\ Goto(Reader, AfterClosing)
  /\ UNCHANGED <<script, inbox, eof, h2Vars, protocolVars, sendVars, appVars,
                 queueVars, waitVars, net, terminated, aborting>>

----------------------------------------------------------------------------
(* The sender: send_task and _send_data.                                   *)

\* StreamBuffer.complete: all of it is given to h2.
Complete(s) == buf[s].complete /\ buf[s].data = <<>>

\* The sender serves one of the streams that are not blocked.
Serving(s) == At(Sender, "loop") /\ ~closed /\ s \in ready

\* (mutant: what does not fit in a frame is dropped)
PoppedAll(s, n) ==
  [buf[s] EXCEPT !.data = <<>>, !.paused = @ \/ n < LowWater, !.empty = TRUE]

\* StreamBuffer.pop of n units.
Popped(s, n) ==
  LET b == buf[s]
  IN  [data |-> SubSeq(b.data, n + 1, Len(b.data)), complete |-> b.complete,
       empty |-> b.empty \/ n = Len(b.data), paused |-> b.paused \/ n < LowWater,
       live |-> b.live]

\* What a pop of stream s returns.
ToPop(s) == Min({Room(s), Len(buf[s].data)})

\* The except clause: the buffer is closed and forgotten, which wakes whoever
\* waits for it, and the stream leaves the tree.
ForceClose(s) ==
  /\ buf' = [buf EXCEPT ![s] = [data |-> <<>>, complete |-> TRUE, empty |-> TRUE,
                               paused |-> TRUE, live |-> FALSE]]
  /\ tree' = tree \ {s} /\ ready' = ready \ {s}

\* A chunk of the buffer is given to h2 and flushed.
ServeData(s) ==
  /\ Serving(s) /\ half[s] # "idle" /\ buf[s].live /\ ToPop(s) > 0 /\ CanSend(s)
  /\ SendData(s, SubSeq(buf[s].data, 1, ToPop(s)))
  /\ buf' = [buf EXCEPT ![s] = Popped(s, ToPop(s))]
  /\ serving' = s
  /\ Flush(Sender, "sent")
  /\ UNCHANGED <<clientVars, conn, half, theirEnd, protocolVars, tree, ready,
                 hasData, appVars, queueVars, serverVars>>

\* No data, or no window: the stream is blocked.
ServeNothing(s) ==
  /\ Serving(s) /\ half[s] # "idle" /\ buf[s].live /\ ToPop(s) = 0
  /\ ~Complete(s)
  /\ buf' = [buf EXCEPT ![s] = Popped(s, 0)]
  /\ ready' = ready \ {s}
  /\ UNCHANGED <<clientVars, h2Vars, protocolVars, tree, hasData, serving, appVars,
                 queueVars, pc, waitVars, serverVars>>

\* end_stream, once the buffer is complete.
EndStream(s) ==
  /\ CanSend(s)
  /\ half' = [half EXCEPT ![s] = "ended"]
  /\ serving' = s
  /\ Flush(Sender, "finished")
  /\ UNCHANGED <<clientVars, conn, theirEnd, window, sent, protocolVars, tree,
                 hasData, appVars, queueVars, serverVars>>

ServeEnd(s) ==
  /\ Serving(s) /\ half[s] # "idle" /\ buf[s].live /\ Complete(s)
  /\ EndStream(s)
  /\ buf' = [buf EXCEPT ![s] = Popped(s, 0)]
  /\ ready' = ready \ {s}

\* After a chunk: the stream ends, fails to, or its turn is over.
EndAfterData ==
  /\ At(Sender, "sent") /\ Complete(serving)
  /\ EndStream(serving)
  /\ UNCHANGED <<buf, ready>>

TurnOver ==
  /\ At(Sender, "sent") /\ ~Complete(serving)
  /\ Goto(Sender, "loop")
  /\ UNCHANGED <<clientVars, h2Vars, protocolVars, sendVars, appVars, queueVars,
                 waitVars, serverVars>>

\* h2 raises: it has forgotten the stream, or refuses the data or the end.
Refused(s) ==
  \/ half[s] = "idle" \/ Gone(s)
  \/ ~CanSend(s) /\ (ToPop(s) > 0 \/ Complete(s))

ServeFails(s) ==
  /\ \/ Serving(s) /\ Refused(s)
     \/ At(Sender, "sent") /\ s = serving /\ Complete(s) /\ ~CanSend(s)
  /\ buf[s].live
  /\ ForceClose(s)
  /\ Goto(Sender, "loop")
  /\ UNCHANGED <<clientVars, h2Vars, protocolVars, hasData, serving, appVars,
                 queueVars, waitVars, serverVars>>

\* The stream has no buffer: the except clause raises a KeyError too.
ServeCrashes(s) ==
  /\ Serving(s) /\ ~buf[s].live
  /\ Goto(Sender, "raised")
  /\ UNCHANGED <<clientVars, h2Vars, protocolVars, sendVars, appVars, queueVars,
                 waitVars, serverVars>>

\* (mutant: the stream stays in the tree)
FinishedInTree ==
  /\ At(Sender, "finished")
  /\ buf' = [buf EXCEPT ![serving].live = FALSE]
  /\ Goto(Sender, "loop")
  /\ UNCHANGED <<clientVars, h2Vars, protocolVars, tree, ready, hasData, serving,
                 appVars, queueVars, waitVars, serverVars>>

\* The stream has ended: its buffer is forgotten, it leaves the tree.
Finished ==
  /\ At(Sender, "finished")
  /\ buf' = [buf EXCEPT ![serving].live = FALSE]
  /\ tree' = tree \ {serving} /\ ready' = ready \ {serving}
  /\ Goto(Sender, "loop")
  /\ UNCHANGED <<clientVars, h2Vars, protocolVars, hasData, serving, appVars,
                 queueVars, waitVars, serverVars>>

\* DeadlockError, there is no stream to serve: wait for has_data, and clear it.
WaitForData ==
  /\ At(Sender, "loop") /\ ~closed /\ ready = {}
  /\ Goto(Sender, "wait")
  /\ UNCHANGED <<clientVars, h2Vars, protocolVars, sendVars, appVars, queueVars,
                 waitVars, serverVars>>

HasData ==
  /\ At(Sender, "wait") /\ hasData
  /\ hasData' = FALSE
  /\ Goto(Sender, "loop")
  /\ UNCHANGED <<clientVars, h2Vars, protocolVars, buf, tree, ready, serving,
                 appVars, queueVars, waitVars, serverVars>>

SenderEnds ==
  /\ At(Sender, "loop") /\ closed
  /\ Goto(Sender, "done")
  /\ UNCHANGED <<clientVars, h2Vars, protocolVars, sendVars, appVars, queueVars,
                 waitVars, serverVars>>

----------------------------------------------------------------------------
(* The end of TCPServer.run.                                               *)

\* protocol.handle(Closed()) once reading is over.
HandleClosed ==
  /\ At(Reader, "closed")
  /\ closed' = TRUE
  /\ CloseStreams(Reader, streams, {})
  /\ Goto(Reader, "join")
  /\ UNCHANGED <<clientVars, h2Vars, kareq, buf, tree, ready, serving, appVars,
                 serverVars>>

\* The task group waits for the applications, the sender and the idle task.
Join ==
  /\ At(Reader, "join") /\ ~idle
  /\ \A t \in Tasks \ {Reader} : pc[t] \in {"none", "raised", "done"}
  /\ Goto(Reader, "finalClose")
  /\ UNCHANGED <<clientVars, h2Vars, protocolVars, sendVars, appVars, queueVars,
                 waitVars, serverVars>>

\* Where a cancellation leaves task t: an application goes on to its
\* send(None), unless it was in it, and _close() catches the cancellation.
Cancelled(t) ==
  CASE t = Reader -> IF pc[t] = "waitClosed" THEN AfterClosing ELSE "join"
    [] t = Sender -> "done"
    [] t \in Streams ->
         IF pc[t] \in {"none", "raised", "done"} THEN pc[t]
         ELSE IF fin[t] THEN "done" ELSE "finish"

\* The first exception that leaves a task: the group cancels the others.
Abort ==
  /\ ~aborting /\ aborting' = TRUE
  /\ \E t \in Tasks : At(t, "raised")
  /\ pc' = [t \in Tasks |-> Cancelled(t)]
  /\ fin' = [s \in Streams |-> fin[s] \/ Cancelled(s) = "finish"]
  /\ wst' = [t \in Tasks |-> "no"] /\ closing' = [t \in Tasks |-> {}]
  /\ lockq' = <<>> /\ idle' = FALSE
  /\ events' = IF pc[Reader] = "waitClosed" /\ events # <<>> THEN Tail(events) ELSE events
  /\ UNCHANGED <<script, inbox, eof, h2Vars, protocolVars, sendVars, sstate, made,
                 queueVars, net, terminated>>

FinalClose ==
  /\ At(Reader, "finalClose")
  /\ CloseTransport
  /\ Goto(Reader, "finalWait")
  /\ UNCHANGED <<clientVars, h2Vars, protocolVars, sendVars, appVars, queueVars,
                 waitVars, idle, terminated, aborting>>

FinalClosed ==
  /\ At(Reader, "finalWait") /\ net = "lost"
  /\ idle' = FALSE
  /\ Goto(Reader, "stopped")
  /\ UNCHANGED <<clientVars, h2Vars, protocolVars, sendVars, appVars, queueVars,
                 waitVars, net, terminated, aborting>>

----------------------------------------------------------------------------
(* The applications: HTTPStream.app_send and H2Protocol.stream_send.       *)

\* receive() returns a message.
Receive(r) ==
  /\ At(r, "run") /\ queued[r] > 0
  /\ queued' = [queued EXCEPT ![r] = @ - 1]
  /\ UNCHANGED <<clientVars, h2Vars, protocolVars, sendVars, appVars, told, pc,
                 waitVars, serverVars>>

\* The messages app_send takes in the stream's state.
MayStart(r) == At(r, "run") /\ sstate[r] = "REQUEST"
MayRespond(r) == At(r, "run") /\ sstate[r] = "RESPONSE"

\* send_headers and its flush; nothing if h2 refuses.
SendHeaders(r, next) ==
  IF CanSend(r) THEN Flush(r, next) ELSE Goto(r, next) /\ UNCHANGED waitVars

\* http.response.start: the state moves once the headers are flushed.
SendStart(r) ==
  /\ MayStart(r)
  /\ SendHeaders(r, "started")
  /\ UNCHANGED <<clientVars, h2Vars, protocolVars, sendVars, appVars, queueVars,
                 serverVars>>

Started(r) ==
  /\ At(r, "started")
  /\ sstate' = [sstate EXCEPT ![r] = "RESPONSE"]
  /\ Goto(r, "run")
  /\ UNCHANGED <<clientVars, h2Vars, protocolVars, sendVars, fin, made, queueVars,
                 waitVars, serverVars>>

\* The next n units of the application's body.
Chunk(r, n) == [i \in 1 .. n |-> made[r] + i]

Pushed(r, n) == [buf[r] EXCEPT !.data = @ \o Chunk(r, n), !.empty = FALSE]

\* StreamBuffer.push returns at once below the high water mark.
Overfull(r, n) == Len(buf[r].data) + n >= HighWater

\* (mutant: the stream is not unblocked)
UnblockOmitted(r) == UNCHANGED ready

Unblock(r) == ready' = ready \cup {r}

\* http.response.body, of n units: unblock, has_data and push, each of which
\* may find the stream gone; a chunk that is, or is not, the last.
SendBody(r, n, last) ==
  /\ MayRespond(r) /\ made[r] + n <= MaxBody
  /\ made' = [made EXCEPT ![r] = @ + n]
  /\ LET next == IF last THEN "bodyEnd" ELSE "run"
     IN  \/ /\ r \notin tree
            /\ Goto(r, next) /\ UNCHANGED <<buf, ready, hasData>>
         \/ /\ r \in tree /\ ~(buf[r].live /\ ~buf[r].complete)
            /\ Unblock(r) /\ Wake /\ Goto(r, next) /\ UNCHANGED buf
         \/ /\ r \in tree /\ buf[r].live /\ ~buf[r].complete
            /\ Unblock(r) /\ Wake
            /\ buf' = [buf EXCEPT ![r] = Pushed(r, n)]
            /\ Goto(r, IF ~Overfull(r, n) THEN next
                       ELSE IF last THEN "pushLast" ELSE "push")
  /\ UNCHANGED <<clientVars, h2Vars, protocolVars, tree, serving, sstate, fin,
                 queueVars, waitVars, serverVars>>

\* push goes on, and clears the event.
Resumed(r) ==
  /\ At(r, "push") \/ At(r, "pushLast")
  /\ buf[r].paused
  /\ buf' = [buf EXCEPT ![r].paused = FALSE]
  /\ Goto(r, IF pc[r] = "push" THEN "run" ELSE "bodyEnd")
  /\ UNCHANGED <<clientVars, h2Vars, protocolVars, tree, ready, hasData, serving,
                 appVars, queueVars, waitVars, serverVars>>

\* A body with flush goes to h2 at once, if the window and a frame take it.
SendFlush(r, n) ==
  /\ "flush" \in Extensions /\ MayRespond(r) /\ made[r] + n <= MaxBody
  /\ made' = [made EXCEPT ![r] = @ + n]
  /\ IF CanSend(r) /\ n <= Room(r)
     THEN SendData(r, Chunk(r, n)) /\ Flush(r, "run")
     ELSE Goto(r, "run") /\ UNCHANGED <<sent, window, waitVars>>
  /\ UNCHANGED <<clientVars, conn, half, theirEnd, protocolVars, sendVars, sstate,
                 fin, queueVars, serverVars>>

\* EndBody: the buffer is complete, and the task waits until it is empty.
EndBody(r) ==
  /\ IF buf[r].live
     THEN /\ buf' = [buf EXCEPT ![r].complete = TRUE]
          /\ IF r \in tree
             THEN Unblock(r) /\ Wake /\ Goto(r, "drain")
             ELSE Goto(r, "ended") /\ UNCHANGED <<ready, hasData>>
     ELSE Goto(r, "ended") /\ UNCHANGED <<buf, ready, hasData>>
  /\ UNCHANGED <<clientVars, h2Vars, protocolVars, tree, serving, fin, made,
                 queueVars, waitVars, serverVars>>

\* The last http.response.body, after its chunk if it has one.
EndResponse(r) ==
  /\ At(r, "bodyEnd") \/ MayRespond(r)
  /\ sstate' = [sstate EXCEPT ![r] = "CLOSED"]
  /\ EndBody(r)

\* ... with headers: trailers that end the stream at once.
EndWithHeaders(r) ==
  /\ "headers" \in Extensions
  /\ At(r, "bodyEnd") \/ MayRespond(r)
  /\ sstate' = [sstate EXCEPT ![r] = "CLOSED"]
  /\ half' = IF CanSend(r) THEN [half EXCEPT ![r] = "ended"] ELSE half
  /\ SendHeaders(r, "ended")
  /\ UNCHANGED <<clientVars, conn, theirEnd, window, sent, protocolVars, sendVars,
                 fin, made, queueVars, serverVars>>

Drained(r) ==
  /\ At(r, "drain") /\ buf[r].empty
  /\ Goto(r, "ended")
  /\ UNCHANGED <<clientVars, h2Vars, protocolVars, sendVars, appVars, queueVars,
                 waitVars, serverVars>>

\* The application returns or fails; its task goes on to send(None).
Return(r) ==
  /\ At(r, "run")
  /\ fin' = [fin EXCEPT ![r] = TRUE]
  /\ Goto(r, "finish")
  /\ UNCHANGED <<clientVars, h2Vars, protocolVars, sendVars, sstate, made, queueVars,
                 waitVars, serverVars>>

\* What the application task goes back to.
Back(r) == IF fin[r] THEN "done" ELSE "run"

\* app_send(None): nothing if the stream is closed, 500 if it has no response.
Finish(r) ==
  /\ At(r, "finish")
  /\ IF r \in streams /\ sstate[r] = "REQUEST"
     THEN SendHeaders(r, "errEnd")
     ELSE Goto(r, IF r \in streams THEN "ended" ELSE "done") /\ UNCHANGED waitVars
  /\ UNCHANGED <<clientVars, h2Vars, protocolVars, sendVars, appVars, queueVars,
                 serverVars>>

ErrorResponseEnd(r) ==
  /\ At(r, "errEnd") /\ EndBody(r) /\ UNCHANGED sstate

\* send(StreamClosed): _close_stream ...
StreamEnded(r) ==
  /\ At(r, "ended")
  /\ \/ r \in streams /\ CloseStreams(r, {r}, {})
     \/ r \notin streams /\ UNCHANGED <<streams, hasData, queueVars, waitVars>>
  /\ Goto(r, "left")
  /\ UNCHANGED <<clientVars, h2Vars, kareq, closed, buf, tree, ready, serving,
                 appVars, serverVars>>

\* (mutant: the timer is armed whatever other streams there are)
TimerArmed(r) == idle' = ~aborting

\* Updated(idle): the timer is armed or stopped; a group that is aborting takes
\* no new task.
Timer(r) == idle' = (streams = {} /\ ~aborting)

\* ... then the timer is told whether a stream is left ...
StreamLeft(r) ==
  /\ At(r, "left") /\ ~(streams = {} /\ terminated)
  /\ Timer(r)
  /\ Goto(r, Back(r))
  /\ UNCHANGED <<clientVars, h2Vars, protocolVars, sendVars, appVars, queueVars,
                 waitVars, net, terminated, aborting>>

\* ... and the last stream of a terminating worker's connection sends GOAWAY.
LastStreamLeft(r) ==
  /\ At(r, "left") /\ streams = {} /\ terminated
  /\ conn' = "closed"
  /\ Flush(r, "update")
  /\ UNCHANGED <<clientVars, half, theirEnd, window, sent, protocolVars, sendVars,
                 appVars, queueVars, serverVars>>

LastStreamTimer(r) ==
  /\ At(r, "update")
  /\ idle' = ~aborting
  /\ Goto(r, Back(r))
  /\ UNCHANGED <<clientVars, h2Vars, protocolVars, sendVars, appVars, queueVars,
                 waitVars, net, terminated, aborting>>

----------------------------------------------------------------------------
(* The idle task, the worker and the client.                               *)

\* keep_alive_timeout is over, or the worker terminates, while the timer is
\* armed: _initiate_server_close.  There is no stream left then to tell.
IdleTimeout ==
  /\ idle /\ streams = {} /\ pc[Reader] # "stopped"
  /\ idle' = FALSE
  /\ closed' = TRUE /\ Wake
  /\ CloseTransport
  /\ UNCHANGED <<clientVars, h2Vars, streams, kareq, buf, tree, ready, serving,
                 appVars, queueVars, pc, waitVars, terminated, aborting>>

\* The worker shuts down: context.terminated.
Terminate ==
  /\ "terminate" \in Faults /\ ~terminated /\ terminated' = TRUE
  /\ UNCHANGED <<clientVars, h2Vars, protocolVars, sendVars, appVars, queueVars, pc,
                 waitVars, idle, net, aborting>>

ClientSends ==
  /\ net = "open" /\ ~eof /\ script # <<>>
  /\ inbox' = Append(inbox, Head(script)) /\ script' = Tail(script)
  /\ UNCHANGED <<eof, events, h2Vars, protocolVars, sendVars, appVars, queueVars, pc,
                 waitVars, serverVars>>

\* The client closes its side only.
ClientEof ==
  /\ "eof" \in Faults /\ net = "open" /\ ~eof /\ eof' = TRUE
  /\ UNCHANGED <<script, inbox, events, h2Vars, protocolVars, sendVars, appVars,
                 queueVars, pc, waitVars, serverVars>>

\* The connection is gone: read() returns b"" or raises.
ConnectionLost ==
  /\ net = "closing" \/ (net = "open" /\ "reset" \in Faults)
  /\ net' = "lost"
  /\ eof' \in {eof, TRUE}
  /\ UNCHANGED <<script, inbox, events, h2Vars, protocolVars, sendVars, appVars,
                 queueVars, pc, waitVars, idle, terminated, aborting>>

----------------------------------------------------------------------------

ReaderStep ==
  /\ Alone(Reader)
  /\ \/ ReadFrames \/ ReadError \/ ReadEnds
     \/ RefuseRequest \/ CreateStream \/ BodyReceived \/ PutBody \/ LateBody
     \/ StreamReset \/ WindowUpdated \/ PriorityUpdated \/ NothingTold
     \/ ConnectionTerminated
     \/ EventsHandled \/ ReaderCloses \/ ReaderClosed
     \/ HandleClosed \/ Join \/ FinalClose \/ FinalClosed
     \/ WriteStep(Reader)

Serve(s) ==
  /\ Alone(Sender)
  /\ \/ ServeData(s) \/ ServeNothing(s) \/ ServeEnd(s) \/ ServeFails(s)
     \/ ServeCrashes(s)

SenderStep ==
  \/ \E s \in Streams : Serve(s)
  \/ /\ Alone(Sender)
     /\ \/ EndAfterData \/ TurnOver \/ Finished \/ WaitForData \/ HasData
        \/ SenderEnds \/ WriteStep(Sender)

\* The server's code run by an application task.
StreamStep(r) ==
  /\ Alone(r)
  /\ \/ Started(r) \/ Resumed(r) \/ (At(r, "bodyEnd") /\ EndResponse(r))
     \/ Drained(r) \/ Finish(r) \/ ErrorResponseEnd(r) \/ StreamEnded(r)
     \/ StreamLeft(r) \/ LastStreamLeft(r) \/ LastStreamTimer(r) \/ WriteStep(r)

\* The application's own choices.
AppStep(r) ==
  /\ Alone(r)
  /\ \/ Receive(r) \/ SendStart(r) \/ Return(r)
     \/ \E n \in ChunkSizes, last \in BOOLEAN : SendBody(r, n, last)
     \/ \E n \in ChunkSizes : SendFlush(r, n)
     \/ (MayRespond(r) /\ EndResponse(r)) \/ EndWithHeaders(r)

Environment ==
  /\ Nobody
  /\ \/ Abort \/ ReadTimeout \/ IdleTimeout
     \/ Terminate \/ ClientSends \/ ClientEof \/ ConnectionLost

Next ==
  \/ ReaderStep \/ SenderStep \/ Environment
  \/ \E r \in Streams : StreamStep(r) \/ AppStep(r)

Spec == Init /\ [][Next]_vars

\* The event loop runs every task that can run, the priority tree returns every
\* stream that stays unblocked, a transport that is being closed is closed in
\* the end, the idle timer expires and every application returns in the end.
FairSpec ==
  /\ Spec
  /\ SF_vars(ReaderStep) /\ SF_vars(SenderStep)
  /\ SF_vars(Nobody /\ IdleTimeout) /\ SF_vars(Nobody /\ Abort)
  /\ SF_vars(Nobody /\ net = "closing" /\ ConnectionLost)
  /\ \A r \in Streams :
       SF_vars(Serve(r)) /\ SF_vars(StreamStep(r)) /\ SF_vars(Alone(r) /\ Return(r))

----------------------------------------------------------------------------
(* Properties.                                                             *)

Spawned(s) == pc[s] # "none"

\* Every application is told http.disconnect at most once, whichever of the
\* reader, a failed flush, the client's reset and its own end closes the
\* stream (docs/discussion/closing.rst, "send it only once").
DisconnectOnce == \A s \in Streams : told[s] <= 1

\* No application loses its disconnect: its stream is in the table, it has been
\* told, a task waits to tell it, or the tasks have been cancelled.
DisconnectNotLost ==
  \A s \in Streams :
    Spawned(s) => \/ s \in streams \/ told[s] = 1 \/ aborting
                  \/ \E t \in Tasks : Telling(t, s)

\* A stream has four ways to be closed, three of which may wait for room in its
\* queue: its application is told by one of them.
Disconnects == DisconnectOnce /\ DisconnectNotLost

\* The idle timer never runs while a request is processed
\* (docs/discussion/dos_mitigations.rst, "Inactive connection").
IdleBetweenRequests == idle => streams = {}

\* The body of every response is delivered in order and whole before its end,
\* whatever is pushed, popped, blocked, reset or closed in between.
StreamState(s) ==
  IF half[s] = "ended" THEN "ended"
  ELSE IF half[s] = "reset" \/ conn = "closed" THEN "cut" ELSE "open"
Promise == INSTANCE ResponseStream
  WITH MaxUnits <- MaxBody, accepted <- made, delivered <- sent,
       state <- [s \in Streams |-> StreamState(s)]
ImplementsResponses == Promise!ResponseSpec

\* The sender never sleeps over a stream it could serve, nor over the end of
\* the connection: has_data is set before it waits.
SenderAwake ==
  pc[Sender] = "wait" /\ ~hasData =>
    /\ ready = {}
    /\ closed => \E t \in Tasks : wst[t] = "put"

\* A stream with something to send and the window for it is unblocked, or is
\* about to be, by an event the reader has still to handle.
Sendable(s) ==
  /\ buf[s].live /\ CanSend(s)
  /\ Complete(s) \/ (buf[s].data # <<>> /\ Room(s) > 0)
WindowPending(s) ==
  \E i \in DOMAIN events : events[i][1] = "window" /\ events[i][2] \in {0, s}
SendableIsReady ==
  \A s \in Streams :
    Sendable(s) => s \in ready \/ WindowPending(s)

\* The sender is never given a stream without a buffer: it survives every
\* stream that closes while it waits to send
\* (src/hypercorn/protocol/h2.py, "not a problem - just force close it").
ReadyHasBuffer == \A s \in ready : buf[s].live

\* The sending task, its event, the priority tree and the windows agree:
\* whatever can be sent wakes it and is given to it.
SenderInStep == SenderAwake /\ SendableIsReady

\* A client that goes away is a Closed event for the protocol, never an
\* exception in the server's own tasks (docs/discussion/closing.rst, "Client
\* disconnection").
NoTaskFails == \A t \in Tasks : pc[t] # "raised"

\* Streams that close while others work on them take no task along.
TasksSurvive == ReadyHasBuffer /\ NoTaskFails

\* A terminating worker closes no connection before the responses its
\* applications completed are sent whole (docs/how_to_guides/configuring.rst,
\* graceful_timeout).  The code does not keep to it (README, section 4).
WholeAtShutdown ==
  terminated /\ conn = "closed" =>
    \A s \in Streams : sstate[s] = "CLOSED" => half[s] \in {"ended", "reset"}

\* What can be sent is sent in the end, or can no longer be.
SendableIsSent ==
  \A s \in Streams : Sendable(s) ~> (~Sendable(s) \/ closed)

\* The sending task ends once the connection is closed.
SenderStops == closed ~> pc[Sender] = "done"

\* A send() blocks its application only while the client holds back or until
\* the connection is closed (docs/discussion/backpressure.rst).  The code does
\* not keep to it (README, section 4).
ClosedSendReturns ==
  \A r \in Streams : (closed /\ pc[r] # "none") ~> pc[r] \in {"run", "done"}
=============================================================================
