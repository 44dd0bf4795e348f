# Verification of hypercorn

TLA+ modules, TLC configurations and TLAPS proofs kept beside the ASGI server in
`src/src/hypercorn`. Paths below are relative to that directory; `closing.rst`,
`backpressure.rst`, `dos_mitigations.rst` and `configuring.rst` are the files of
`src/docs/`. Every definition of a module is tied to the lines it translates by
the `map` of `PROJECT.json`.

## 1. Inventory

| Component | State it keeps | Operations | What makes it hard |
|---|---|---|---|
| TCP server (`asyncio/tcp_server.py`) | transport, `send_lock`, idle task handle | read loop, `protocol_send`, `_close`, idle timeout | writes of several tasks, a write that fails inside another's handler |
| HTTP/1 protocol (`protocol/h11.py`) | h11 machine, the current stream, `can_read`, `keep_alive_requests` | one handler per h11 event, `stream_send` per stream event, `_maybe_recycle`, `_close_stream` | pipelining, recycling while the reader sleeps, closing from four places |
| HTTP stream (`protocol/http_stream.py`) | `state`, `closed`, `app_put` | `handle`, `app_send` per ASGI message | the state moves after an await; errors before the application exists |
| Task group (`asyncio/task_group.py`) | one bounded queue per application | `spawn_app`, `send(None)` at the end | a full queue suspends the putter, which may be the application itself |
| HTTP/2 protocol (`protocol/h2.py`) | stream table, stream buffers, priority tree, flow control windows, `has_data` | frame handlers, `stream_send`, `send_task`, push, reset, GOAWAY | the sending task against the pushing tasks, windows, resets |
| WebSocket stream (`protocol/ws_stream.py`) | handshake state, message buffer, wsproto machine | `handle`, `app_send`, ping task | both sides close, rejections, pings after the end |
| HTTP/3, QUIC (`protocol/h3.py`, `quic.py`) | connection identifiers, timers, streams | datagram handling, timers | identifiers retired while in use; no notice of closure |
| Protocol selection (`protocol/__init__.py`) | the current protocol | upgrade from HTTP/1 to HTTP/2 | bytes and tasks of the old protocol |
| Lifespan (`asyncio/lifespan.py`, `trio/lifespan.py`) | `startup`, `shutdown`, `supported`, queue | startup, shutdown, failure messages, timeouts | application that fails, returns, hangs or does not support it |
| Worker (`asyncio/run.py`, `trio/run.py`, `*/worker_context.py`) | server tasks, `terminate`, `terminated`, request count | serve, drain, graceful timeout | shutdown while requests run, `max_requests` |
| Process manager (`run.py`) | worker processes, `shutdown_event`, `active` | populate, reload, shutdown, join | signals at any point, workers that die |
| Application wrappers (`app_wrappers.py`) | body, environ, `response_started` of one request | collect the body, run the application in a thread | the thread outlives its task, partial failures |
| Middleware (`middleware/`) | `startup_complete`, `shutdown_complete` and a queue per mount | lifespan fan-out, mounts, forwarded headers, redirect | many applications behind one lifespan; headers the client controls |
| Pure helpers (`utils.py`) | none | server names, header filters, body suppression | boundaries |
| Configuration, command line, logging, statistics | none a request changes | parsing, formatting | out of scope |

Interactions. The TCP server feeds bytes to a protocol with `handle(RawData)` and
tells it of the end with `handle(Closed)`; the protocol answers with
`protocol_send`. A protocol hands events to its streams with `stream.handle`; a
stream hands events back with `stream_send`. A stream spawns the application
through the task group and puts ASGI messages on its queue; the application's
`send` runs the stream's and the protocol's code in the application's own task.
The worker's `terminated` event is read by the protocols and the idle task; its
`graceful_timeout` bounds what happens then.

What must hold, per component:

* connection, streams: one open stream at a time, whole responses in the order of
  the requests, `http.disconnect` once and never lost, an idle timer that runs
  only between requests, every send returns, the connection ends;
* HTTP/2 send path: bytes in order and none lost, no more than the window, a
  pusher blocks exactly while its buffer is above the mark and never after the
  connection is closed;
* WebSocket: one answer to the handshake, one disconnect, nothing after the close;
* lifespan and worker: startup precedes serving, shutdown follows the last
  request or the graceful timeout, a failing application stops the worker;
* HTTP/3, QUIC: one timer per connection, one view of its identifiers, data in
  order, and a connection that closes is forgotten;
* process manager: the number of workers, a reason for every stop, and all of them
  told at the end;
* wrappers and middlewares: one whole response for a whole body, the user's own
  address and path, and one lifespan answer for all mounts.

## 2. Modules

| Module | Models | Uses |
|---|---|---|
| `H11Library` | the h11 state machines as `protocol/h11.py` uses them (external) | |
| `H11Connection` | TCP server, HTTP/1 protocol, HTTP streams, task group of one connection | `H11Library`, `Exchange` |
| `Exchange` | what a connection promises its applications (abstract) | |
| `MCH11Connection` | the clients' scripts of the TLC runs | `H11Connection` |
| `H11ConnectionProofs` | theorems about `H11Connection`: types, one disconnect | `H11Connection` |
| `ExchangeProofs` | theorems about `H11Connection`: its exchanges, its limits, what h11 accepts, the responses on the wire | `H11ConnectionProofs` |
| `H2Connection` | reader, sending task, stream buffers, streams and applications of one HTTP/2 connection | `ResponseStream` |
| `ResponseStream` | what a multiplexed connection promises of each response's body (abstract) | |
| `MCH2Connection` | the clients' scripts of the TLC runs | `H2Connection` |
| `H2ConnectionProofs` | theorems about `H2Connection`: all its safety properties | `H2Connection` |
| `WSConnection` | reader, application and pings of one WebSocket on HTTP/1 | |
| `WSConnectionProofs` | theorems about `WSConnection`: all its safety properties | `WSConnection` |
| `QuicServer` | UDP server, QUIC connection, its timer tasks, one HTTP/3 request | |
| `QuicServerProofs` | theorems about `QuicServer`: all its safety properties | `QuicServer` |
| `Worker` | what both backends' workers share: lifespan task, server tasks, signals | |
| `AsyncioWorker`, `TrioWorker` | `worker_serve` and the end of `handle_lifespan` of each backend | `Worker` |
| `Service` | what a worker promises of its requests (abstract) | |
| `MCWorker` | either backend, chosen by the variable `backend`, and the refinement of `Service` | `AsyncioWorker`, `TrioWorker`, `Service` |
| `WorkerProofs` | theorems about `MCWorker` | `MCWorker` |
| `ProcessManager` | the parent process, its signal handlers and the reloader | |
| `ManagerProofs` | theorems about `ProcessManager` | `ProcessManager` |
| `LifespanApp` | what the worker expects of an application's lifespan (abstract) | |
| `Dispatcher` | the lifespan of the applications behind a dispatcher | `LifespanApp` |
| `Middleware` | server names, mounts, forwarded headers, redirect and environ, as operators on scopes | |
| `WsgiWrapper` | one request: task, thread and stream of a WSGI application behind the middlewares | `Middleware` |
| `MCApps` | the scopes of the TLC run, a lifespan or a request | `Dispatcher`, `WsgiWrapper` |
| `AppsProofs` | theorems about `Dispatcher`, `WsgiWrapper` and `MCApps` | `MCApps` |

A definition marked `(mutant: ...)` is a plausible bug of the definition that
follows it. `PROJECT.json` pairs each checked property with one that breaks it.

### H11Connection

The tasks are the reader (task 0, `TCPServer.run` with everything the protocol
does for it) and one task per request that has an application (task r, the
application with everything the protocol does inside its `send`). The idle timer,
the worker's shutdown and the client are actions of their own.

An await that stays inside hypercorn does not suspend a task; the ones that do are
a write (`send_lock`, then `drain`), a put on a full application queue,
`can_read.wait()`, `writer.wait_closed()` and the application's own code. Code
between two such points is one action. `pc[t]` is the place where task `t`
resumes, `wst[t]` the state of its write (waiting for the lock or its turn,
draining, waiting to put) and `lockq` the lock's holder and its waiters in order.

Data is abstracted to what the protocol tells apart. A client sends a script of
tokens (`H11Library`); request bodies, headers and status codes have no value;
successive chunks of a response count once; messages on an application's queue
are counted; only `http.disconnect` is told apart (`told`).

Transport pause and resume are a drain that takes arbitrarily long. A transport
that is closing discards what is written to it, or fails the write, as asyncio
may; one that is lost fails it.

An application may do anything its API allows in any order (start, chunks, end,
return or fail early, receive or not). `ConcurrentReceive` lets it receive while
one of its sends is suspended, as an application with a second task does.

Properties, and what they would catch, are stated at the end of the module.
`ImplementsExchange` shows that the connection implements `Exchange`, mapping a
request to `waiting`, `open` or `closed` by its task and its stream's `closed`.

An exception that leaves one of the connection's tasks makes the task group cancel
the others (`Abort`). A cancelled application leaves whatever it waited for and
runs the `send(None)` of its `finally` clause; the reader leaves its loop; a task
group that is aborting takes no new idle task (`aborting`).

### H2Connection

The tasks are the reader (`TCPServer.run`), the sending task
(`H2Protocol.send_task`) and one task per stream, which runs the protocol's code
whenever its application calls `send`. Most of the code between two suspension
points is one action; where it is several, `Alone` keeps the other tasks out, as
the event loop does: an action of a task is enabled only while every other task
is suspended (`Waiting`), and the environment acts only while all of them are
(`Nobody`). The suspension points are a flush (`send_lock`, then `drain`), a put on a
full application queue, `has_data.wait()`, the waits of `StreamBuffer.push` and
`drain`, the socket, and the application's own code. An event that is already set
does not suspend.

The state of `H2Protocol` is kept as it is: the stream table, the buffers
(`data`, `complete`, `empty`, `paused`, and `live` while the dictionary holds
them), `has_data`, `closed`. The h2 library is external and represented by what the
protocol can observe: our side and the client's side of each stream, the flow
control windows, whether the connection is closed, and the exceptions. h2 is ahead
of the events it returns: `ReadFrames` updates it for a whole read, and the events
are handled one at a time, with suspensions between them; of a frame for a stream it
has forgotten it tells nothing (`NothingTold`). `Legal` says which frames may follow
one another: streams are opened once and in their order, anything else is "bad". The priority tree is
the set of its streams and of those it may return; its weights are abstracted to a
free choice among the latter.

A unit of body is a number, so that loss, duplication and order can be told;
`FrameSize`, the windows and the water marks count units. `HighWater` is
`2 * LowWater` as in the code.

`ImplementsResponses` shows that a response's body reaches h2 in order, each unit
once, and that a stream ends only with all of it, mapping the units sent by
the application, the units given to h2 and the state of the stream in h2 to the
three variables of `ResponseStream`. The applications of `h2_stream` use neither
`flush` nor trailers, for which it does not hold (section 4).

### WSConnection and QuicServer

Both give the processor to one task at a time: `cpu` is the task that runs,
`todo[t]` the operations it has still to do before it is finished, `wait[t]` what
it waits for. An operation may put more operations in front of the rest
(`closeStream` becomes `disconnect`, `forget`), as a call does; a write, a put on a
full queue, a lock that is taken or a task that is awaited suspends the task.

`WSConnection` has the handshake, messages, the HTTP response extension with its
trailers, pings and both closing handshakes. wsproto and h11 are external: `conn` is
wsproto's connection state, `h11` is `our_state`, and what they refuse is dropped
or raises as `ws_stream.py` and `h11.py` have it. Fragments have a size only
relative to `websocket_max_message_size`. What the client sees is folded into
`wire`, which is `"broken"` as soon as the bytes are no conversation.
Two histories mark cases a property excepts: `early` (data before the handshake was
accepted) and `badAccept` (an accept that raised in the state `CONNECTED`).

`QuicServer` has one connection with identifiers `original`, `host` and one that is
issued and retired, one request whose body comes in three parts, and timers that
the server, the application and the timers themselves restart and stop. A timer's
task cancels and awaits the one before it, itself included, under the lock of
`AsyncioSingleTask`. aioquic is external: a datagram adds events to `events`, the
timer of a closing connection ends it. `full` notes that a put had to wait and
`refused` that a request came after the shutdown.

### Worker, AsyncioWorker, TrioWorker

`main` is where `worker_serve` is, between two awaits that suspend it. A connection
goes from `pending` (accepted, no server task yet) to `idle`, `busy`, `orphan` (its
transport is lost and its request runs on), `cut` (cancelled) and `done`; what it does
meanwhile is the business of the connections' modules. `Worker` holds the lifespan's
application, the connections and the request count; the backends differ in how a
failure of the lifespan and of a server task spreads (exceptions of tasks that are
awaited one by one, or nurseries that cancel everything), in how servers are
closed, and in what ends the drain. `WaitsForConnections` says what
`asyncio.Server.wait_closed` does: it waits for the transports from Python 3.12.1 on.

`ImplementsService` maps both to `Service`: no request begins before the startup is
complete nor after the application has been told to shut down, and none is cut off
without an excuse, which is the end of `graceful_timeout` or the failure of a task.

### ProcessManager

`run` is a sequence of places (`main`), and the signal handlers are actions that
may interrupt it at any of them, and each other: `reload` sets the event, joins the
processes and clears the event, `reloads` counts the calls that have not returned,
and `run` goes on when there are none. A worker is a slot with the state of its
process; `process.start()` and `processes.append()` are two actions. Files have a
version; `files_to_watch` notes it, `check_for_updates` compares.

### Dispatcher, Middleware, WsgiWrapper

`Dispatcher` follows the lifespan from the worker's queue to the queues of the
mounts, put by put, and back through `startup_complete` and `shutdown_complete`; each
application completes, gives up (returns, sends a failed event, or is a WSGI
application) or raises. It is the same for asyncio and trio, whose dispatchers differ
in their task groups only. `DispatcherIsAnApp` maps it to `LifespanApp`.

`Middleware` has no state: a header is a name with a list of elements, a path is a
sequence of characters. `WsgiWrapper` sends a scope through `valid_server_name`,
`ProxyFixMiddleware`, `HTTPToHTTPSRedirectMiddleware`, `DispatcherMiddleware` and
`WSGIWrapper`, the order in which one would stack them, and then runs
`handle_http` in the application's task and `run_app` in a thread of its own; the
steps of both interleave at every `send`, and the task may be cancelled while the
thread runs on (`cut`). The request's body is counted in parts, and the limit with it.

## 3. Runs

The clients of the `h11` and `h2` runs send scripts of tokens or frames, so that the
case a run is about happens within a few requests.

`H11Safety` has pipelined requests one more than the keep alive limit, a body
larger than the queue with garbage behind it, a request that ends the connection with
another behind it, and hosts that are not served. Two requests that run are the
smallest number for which recycling, pausing and crossed responses exist; the
third shows that the limit holds. A queue of one message is the smallest that fills.
`h11_progress` takes one request.

The `h2` runs add disturbances from `Faults` (shutdown, half close, loss, read
timeout), so that each run has the interleavings of one question and stays small.
Windows and frames are one unit (or empty, opened by WINDOW_UPDATE frames), the marks
two and one: the smallest numbers for which a buffer fills, a frame splits a chunk,
and a window closes and opens again. Two streams meet in `h2_safety`, where the
second is the one that the keep alive limit announces as the last; the others follow
one stream, whose second actor is the sending task.

| Run | Question | Answer |
|---|---|---|
| `h11_safety` | do streams, disconnects, responses, the limits and the idle timer stay in step under every interleaving, and do the applications see an `Exchange`? | yes (1.6 M states) |
| `h11_progress` | does everything end, with one request whose body fits the queue and an application that also receives while it sends? | yes (0.2 M states) |
| `h2_safety` | two concurrent streams with queues of one message: disconnects, idle timer, `has_data` | they stay in step (0.7 M states) |
| `h2_stream` | is the body in order and whole, is what can be sent never left blocked, does every task survive windows, priorities, resets, GOAWAY, errors and loss? | yes (0.3 M states) |
| `h2_cancel` | disconnects and the send path when tasks fail and are cancelled, at a read timeout, a half close and shutdown, with `flush` and `headers` | they stay in step (2.2 M states) |
| `h2_progress` | is what the windows allow sent in the end, and does the sending task end with the connection? | yes |
| `worker` | is either backend's worker a `Service`, does it end without leftovers, and does it end at all? | yes (46 k states) |
| `manager` | does the parent stop only for a reason and leave no worker, does a shutdown end it, do reloads and exits leave current workers? | yes (34 k states) |
| `manager_exit_code` | does `run` return the exit code of a worker that failed? | no (section 4) |
| `ws` | is what three tasks write one conversation, is the application told once, and do all three end? | yes, with the exceptions of section 4 (151 k states) |
| `quic` | one timer and one view of the identifiers; is the body delivered in order, and is a closed connection forgotten? | yes, while the queue has room (45 k states) |
| `apps` | is a dispatcher one application; does a WSGI application see the user's request and whole body, and the client one whole response? | yes (60 k states) |

Bounds of the newer runs. `worker`: two connections on two servers, since the
servers are closed one after another and the second connection can be at any stage when
the first ends or fails; `MaxRequests` 1, so that the second request exceeds it; a
lifespan queue of 2, which holds all the messages there are. `manager`: two workers, of
which one is left when the other ends; two SIGHUPs, so that one interrupts another;
one edit. `ws`: two frames, which come in one read or two; a message of two fragments
exceeds `MaxLength` 1; a queue of two, which the `websocket.connect` and one message
fill. `quic`: three timers, one that sleeps, one that is being cancelled and one that is
new (a task's identity is used again once it is dead); a queue of one. `apps`: three
mounts, so that an answer may come before, between and after two others; a body limit
of one part of three; two chunks, one before and one after the start of the response; up
to two proxies (`MaxHops`) with headers of either kind, joined or apart, with and
without forged ones.

Several checked properties are conjunctions of named parts, each with its own comment
in the module (`Responses` is `WellFramed`, `ResponseMatchesRequest` and `LegalSends`,
for example).

Deadlock is not checked: a connection, a worker and a request end, and the model with
them. Tasks that are stuck for ever are what the liveness runs look for.

Fairness. In `H11Connection` the event loop runs every task that can run (weak fairness
of the reader and of each stream's steps); the idle timer expires; a transport
that is closing is closed in the end; a read that raises is delivered; every
application returns in the end (strong fairness, because the application may
alternate between running and sending for as long as it likes, yet is a finite
program). Nothing is assumed of the client, nor that an application receives or
answers. `H2Connection` states the same
assumptions as strong fairness: a task that is ready stays in the event loop's
queue while others run, but the model's guard `Alone` disables it meanwhile, so
weak fairness would assume less than the loop gives; `SF(Serve(s))` says that the
priority tree returns every stream that stays unblocked. The same holds of `cpu` in
`WSConnection` and `QuicServer`, whose tasks have strong fairness each. There a
closing transport is lost in the end, a WebSocket's client closes its side one day, and
the timer of a closing QUIC connection fires in the end. `MCWorker`: `worker_serve`,
the lifespan's task and cancelled tasks run, the timeouts among their steps expire, and
with asyncio clients leave in the end, because `wait_closed` waits for them without
a bound (section 4). `ProcessManager`: the parent and its handlers run, workers load,
poll the event, and end when they are told to or killed. `MCApps`: tasks, threads and
queues make progress, an application that is called comes to an end, and a client ends
its request or leaves.

Exceptions the properties name. `Stuck` (`ws`, `quic`): an application that never
receives and whose queue stays full holds up what waits for it, which is the back
pressure the design chooses, and a connection that has crashed does nothing more.
`ClientStops` (`quic`): packets restart the timer, so a client that never stops sending
keeps a closing connection. `early`, `badAccept`, `full`, `refused` and `cut` are the
cases of section 4.

## 4. Where the code does not do what it says

One run of kind `violation` is kept, with a finding in `PROJECT.json`:
`manager_exit_code`. A worker fails, its exit code is collected, and `run` takes the
exit code again from the processes that are left (run.py:110): it returns 0 although
`CHANGELOG.rst:53` says that it returns the worker's.

TLC showed the following in the same models, with a property of one line each or with a
constant or an exception changed as stated; no run is kept for them.

HTTP/1:

* an application waits for room in its own full queue for its own disconnect, and its
  `send` never returns (http_stream.py:144);
* a paused reader is not resumed when its connection is lost (h11.py:216);
* closing a stream that is writing its 404 raises `AttributeError`: `app_put` is not
  assigned yet (http_stream.py:143);
* the stream of a request answered 404 is never closed (http_stream.py:128);
* when the worker terminates, a reader paused on a pipelined request is resumed
  without a new cycle and pauses for ever (h11.py:332).

HTTP/2:

* nobody closes the buffers of a closed connection: a `send` that drains one never
  returns (h2.py:203; `ClosedSendReturns`);
* body that comes for a stream that has left the table raises `KeyError` (h2.py:287);
* a PRIORITY frame puts a stream that has ended back into the tree, without a buffer
  (h2.py:185);
* GOAWAY overtakes the end of a response when the worker terminates (h2.py:257;
  `WholeAtShutdown`);
* a pop of nothing resumes an application whose buffer is full (h2.py:75);
* a client that half closes does not get its responses (tcp_server.py:140);
* requests of one read are run beyond the keep alive limit (h2.py:284);
* a part with `flush` overtakes the parts before it (h2.py:217);
* trailers end the stream before what is in its buffer is sent (h2.py:227).

WebSockets:

* data before the handshake is accepted is answered with a 400 while the application
  runs: it is never told, and its accept or response then meets an h11 that has begun
  another response (ws_stream.py:268). Without the exception `early` TLC refutes
  `ClosedIsTold`, `WellFormed` and `NoCrash`;
* when the write of a pong fails in the middle of a read, a `websocket.receive` may
  follow the `websocket.disconnect` (ws_stream.py:273);
* after a 400 or a 404 the connection stays open until the client leaves
  (ws_stream.py:262).

HTTP/3:

* two tasks handle one connection's events when one of them waits for room in an
  application's queue: without the exception `full` data is lost (first, third) or
  changes places (first, third, end, second) (quic.py:149);
* data for a stream the application has left raises `KeyError` and ends the UDP server
  (h3.py:65; `FailsLate` says that nothing else does);
* the end of a connection is not passed to its streams (quic.py:122);
* a server that is told to stop waits for one more packet (udp_server.py:64);
* with trio, a timer's task that restarts itself cancels its own scope, so that no new
  timer is set (trio/worker_context.py:33; by reading, not in the model).

Worker and process manager:

* with `WaitsForConnections = FALSE` (Python before 3.12.1) TLC refutes
  `ImplementsService`: a connection that is still in its handshake is served after
  `lifespan.shutdown` (asyncio/run.py:166). With `TRUE`, `graceful_timeout` does not
  bound the wait for the clients;
* with `QueueSize = 1` TLC refutes `WorkerEnds`: the put of `lifespan.shutdown` waits
  for ever for an application that never received `lifespan.startup`
  (asyncio/lifespan.py:102);
* a shutdown is lost when a reload clears the event while no process is listed
  (run.py:66); `ShutdownEnds` is about the shutdowns whose event no reload clears;
* `files_to_watch` notes the times again after every restart, so an edit since the last
  look is missed (run.py:90); `EditIsServed` starts where the edit is seen;
* the second worker is killed within `graceful_timeout` as soon as the first has ended
  (run.py:107; configuring.rst:101).

Wrappers and middlewares:

* the thread of a cancelled WSGI task sends a second response after the error that
  ended the request (app_wrappers.py:83; the exception `cut` of `OneResponse`);
* a client that leaves in the middle of its body ends the body, and the application
  runs on what has arrived (app_wrappers.py:75);
* a WSGI application that yields nothing never sends its start, and the client gets a
  500 (app_wrappers.py:84);
* a mounted application that fails its startup, returns, or is a WSGI application, is
  never reported: the worker waits for its timeout (dispatcher.py:63);
* mounts are string prefixes: `/a` takes `/ab`, and `/` leaves `PATH_INFO` without its
  slash; with `config.root_path` set and no prefix of the path, WSGI is always 404; a
  WebSocket that no mount takes is answered with HTTP messages, which raises
  (dispatcher.py:26);
* a WebSocket whose proxy says `x-forwarded-proto: http` is not redirected.

Where one of these stands in the way of a `pass` run, the run's script or one of the
exceptions named above leaves the case out and nothing else: `h11_progress` pipelines
nothing and fits its queue, `h2_stream` sends no body that can come late and no PRIORITY
after a reset, and its application uses neither `flush` nor `headers`.

## 5. Proofs

`H11ConnectionProofs` proves for every value of the constants

* `TypeCorrect`: `Spec => []TypeOK`. The types alone are not inductive: a task
  that waits to put a message must be waiting for a stream that exists
  (`PutInv`), and the reader creates a stream only below the bound on requests
  (`CreateInv`). `TypeInv` adds both. The only facts about h11 that are needed
  are that its operators map connections to connections (`H11Type`), and what a
  send or the closing of a stream does to a task is factored into `SendType` and
  `CloseStreamType`.
* `DisconnectSentOnce`: `Spec => []DisconnectOnce`. The strengthening is
  `TellInv`: a stream that has been told is closed; a task that waits to tell a
  stream is the only one, its stream is closed and has not been told. Most steps
  are `Quiet` (they tell nobody and start no put); the four that are not close
  the open stream now (`TellNow`), later (`TellLater`), or complete a put.

`ExchangeProofs` goes on from these two and proves, again for every value of the
constants and whatever the client sends,

* `NotLost`: `Spec => []DisconnectNotLost`;
* `Exchanges`: `Spec => ImplementsExchange`, the refinement of `Exchange`;
* `Mitigated`: `Spec => []Mitigations`, the idle timer and the keep alive limit;
* `Accepted`: `Spec => []LegalSends`.

None of the four is inductive. Whether a second application can be open depends on when
h11 lets a request through, which depends on who has recycled the connection, which
depends on how far the last response is. `ExchangeInv` ties the three together: only
the application of the last request can have anything left to do (`Past`); h11 takes
a request, and the reader creates a stream, only when every exchange is settled
(`Fresh`); an open stream is the connection's (`Current`); h11's side of a complete
response is DONE only while its owner has not recycled the connection (`Recycling`); as
long as the client keeps to the protocol, h11 is ready for what the last application
may still send (`Legal`). The server's own responses, which have no application, need
a part of their own (`Errors`, `Failures`), and so do the tasks that are waiting for
room in a queue (`Waiting`, `Telling`). `Limited` says that a connection at its limit
is no longer kept alive once its head is sent, and `Counted` that no application runs
uncounted. `ExchangeStep` shows that every step keeps the invariant, `Effect` what
a step is to the applications: nothing, a new one, or the closing or telling of one;
`PromisedStep` maps each to a step of `Exchange` or to a stutter.

It goes on from `ExchangeInv` to the wire and proves

* `ResponsesInOrder`: `Spec => []Responses`, that is `WellFramed`,
  `ResponseMatchesRequest` and `LegalSends`.

The wire alone says nothing of what comes next: an event passes from h11 to the queue for
`send_lock` and then to the wire, and h11 has gone on before it arrives. `Orderly`
follows it. `Latest` is the last event that h11 has taken, written or not. While the
transport is open, nobody ever waits for the lock (`Alone`); the event in between fits
the wire (`Fits`); between two responses nobody writes or has one to go on with
(`Between`), during one its owner alone does (`During`), and a new cycle begins only
when the owner of the last has written its end (`After`); the responses are counted by
the requests (`Answered`). This also holds after a client error, when the reader and an
application compete for the one response that h11 still takes. Once the transport is
closing nothing is written, so that `Orderly` is needed only before; that no exception
leaves a task before, and the group aborts nothing in the middle of a write, is a part
of it (`Calm`).

`H2ConnectionProofs` proves for any number of streams, any frames h2 accepts, and any
sizes of queues, buffers, frames and windows

* `TypeCorrect`: `Spec => []TypeOK`. `TypeInv` adds which event the reader is in the
  middle of (`HeadInv`), that the sender serves a stream (`ServingInv`), and that every
  buffer of the dictionary is in the priority tree (`TreeInv`);
* `DisconnectsCorrect`: `Spec => []Disconnects`. A task may have several streams to
  close, and waits for room for the first whose queue is full; the others are still in the
  table, where any other task may close them meanwhile. `Waits` says that no two tasks
  are telling one application, and that whom a task is telling has left the table untold.
  That a stream is created once needs `OpenedOnce`: no HEADERS is on its way twice, in the
  client's script, the socket, or the events of a read (`Ordered(LegalPairs)`);
* `TimerCorrect`: `Spec => []IdleBetweenRequests`. A terminating worker's GOAWAY is flushed
  between the test of the stream table and the update of the timer; `TimerInv` says that the
  table stays empty, because no stream is created once the worker terminates;
* `SenderCorrect`: `Spec => []SenderInStep`. `Wakes` shows of every step that whatever it
  adds to `ready`, or the closing of the connection, sets `has_data`; the other half is about
  the windows: `ReadFrames` opens them before the event that unblocks the stream is handled
  (`WindowPending`), and nothing but `pop` lessens what is in the buffer (`Lessens`);
* `SurviveCorrect`: `Calm` implies `Spec => []TasksSurvive`. `Calm` leaves out just what
  makes the code raise (section 4): request bodies, which may come for a stream that has left
  the table; PRIORITY for a stream that has been opened, which puts it in the tree without a
  buffer; and a shutdown, at which `RefuseRequest` may reset a stream h2 has forgotten. The
  scripts of `h2_stream` satisfy it. `SurviveInv` ties the tree to the dictionary;
* `ResponsesCorrect`: `Extensions = {}` implies `Spec => ImplementsResponses`, the refinement
  of `ResponseStream`; with `flush` or trailers it does not hold (section 4). `BodyInv` says
  that what the application sent is what h2 has, followed by what the buffer has, while the
  stream may go on (`InOrder`, `Whole`), and `AppInv` how far the task of an application is
  with its response, so that nothing is pushed once the buffer is complete. `BodyStep` is what
  a step may do to the buffers, `LibraryStep` what it may do to the streams in h2, and each
  case of the latter is a step of `ResponseStream` or a stutter.

`QuicServerProofs` proves for any number of timers' tasks and any size of the
application's queue

* `OneViewCorrect`: `Spec => []OneView`. What a task does next depends on what it has
  still to do, so the invariant says what that can be: each `todo[t]` is a `Program`,
  in which every operation is followed by one of `After`. `WaitInv` says at which
  operation each waits, `LockInv` that who has the timer's lock or waits for it is at
  one that needs it. `TimerInv` is the heart of it: the timer that sleeps is the one that
  the connection knows (`Sleepers`); between the end of the old timer and the new one the
  holder of the lock is alone (`Holding`), and a timer that another has replaced, or that
  stopped itself, waits for nothing any more (`Replaced`, `Alive`), so that nobody awaits
  a task that is not cancelled. `EndInv` (`ConnectionTerminated` is the last event, and
  nothing is left while it is handled) is what keeps a timer that has stopped itself from
  setting a new one;
* `DeliveredCorrect`: `Spec => []Delivered`. For the failures, `ComingInv` and `StreamInv`
  follow the request's events: data comes after the headers, and once these are handled
  there is a stream, unless the application has left it or the request was refused. For
  the order, `OrderInv` holds as long as no put has waited: only the task that has the
  processor has events to handle or messages to put (`Prompt`), hence a timer that is
  cancelled takes none with it; what aioquic has still to give is the end of the client's
  script (`Untaken`), what the task has still to put is at most the two messages of one
  event (`Lag`), and the two and what has been put add up to what the client sent
  (`Whole`).

Both assume of `Timers` that it does not have exactly one element (`QuicAssumption`):
a timer's task that restarts itself goes on while the new one sleeps, and with one
identity there would be none for it.

`WSConnectionProofs` proves for any size of the application's queue, any limit on the size
of messages and any number of frames

* `ConversationCorrect`: `Spec => []Conversation`;
* `ToldOnceCorrect`: `Spec => []ToldOnce`;
* `NoCrashCorrect`: `Spec => []NoCrash`.

The three need each other's facts, so there is one inductive invariant, `ConvInv`
(`ConvAlways`). Its first part, `TaskInv`, is about the tasks alone: what each has still to
do is a `Program`, in which every operation is followed by those that `Later` allows (no
head after a body, no frame behind anything else, a `release` behind nothing but the
telling of the application); a task that waits for a write has only `Rest` left; and
who stands in `send_lock` drains or has to release it, once. Every action is taken
apart once, into how it changes the programs (`Did`, `Started`: which operation went, which
came), and all that follows uses only this. `TellInv` says who tells the application:
with the stream closed, exactly one task is on the way or has done so, though any of the
three may find the connection lost while another waits for room in the queue. `HeadInv`,
`FrameInv` and `WireInv` are about what is sent. h11's state decides what it takes, so
`HeadInv` says which operations can be left in which state: between `_accept`'s change of
the stream's state and its 101 the application alone runs, a head is due only while h11
has sent none, and an end only after one. `WireInv` says that the bytes, while the transport is
open, are those of h11's and wsproto's states, which is why the order of the
lock is the order of the conversation. `NoCrash` follows from `FrameInv` and from these:
whatever the reader, the pings or the end of the application send is accepted by h11,
and `conn` exists before anybody sends a frame. What data before the handshake does
(section 4) refutes `HeadInv` and `WireInv`, and an accept that raises leaves the state
`CONNECTED` without a connection and refutes `FrameInv`: each is claimed until then and
the rest of `ConvInv` always. `CloseInv` (a close that came from the client is followed
by that of the transport) keeps a second close from being made into a frame, and
`BigInv` holds `websocket.receive` back after a message that was too large.

`ManagerProofs` proves for any number of workers, signals and edits

* `TypeCorrect`: `Spec => []TypeOK`;
* `Reasonable`: `Spec => []Justified`;
* `AllTold`: `Spec => []NoWorkerLeft`.

The inductive invariant `Inv` adds to these why `active` is off and the exit code is
not 0 (`Reasons`), that processes are killed only at the end (`Kills`), and which
processes the list may lack at each place of `run` (`Listed`): only the one between
`process.start()` and `processes.append()`. Signals may come between any two steps,
and keep all of it.

`AppsProofs` proves, for any set of mounts and any queue with room for a message
(`DispatcherAssumption`),

* `DispatcherImplements`: `LifespanSpec => DispatcherIsAnApp`, a refinement: each step
  maps to a step of `LifespanApp` or to a stutter;
* `LifespanSafety`, the invariant under it: the types (`StateInv`); the startup comes
  before the shutdown (`InboxInv`); an application has received, or may still receive,
  only what the dispatcher has taken (`QueueInv`); and the worker has been told only what
  all applications have completed, which is what makes an answer pass on at the last
  of them and once (`ToldInv`);

and of a request, for any limit of the body, any number of its parts and of the
application's chunks, and any queue size (`RequestAssumption`: they are natural numbers,
and the queue has room for one message),

* `BodyCorrect`: `RequestSpec => []BodyWhole`;
* `ResponseCorrect`: `MCSpec => []ResponseRight`;
* `PathCorrect`: `RequestSpec /\ PathTypes(L) => []PathKept`, for any mounts and any path, of
  any set `L` of characters;
* `ScopeCorrect`: `MCSpec => []ScopeKept`, for any number of proxies (`MaxHops`), which
  `MCApps` bounds for TLC only;
* `FirstProxyCounts`, about the operators: whatever values of a forwarded header the client
  made up, any number of them, in a header of its own or in the one the proxies add to,
  `TrustedValue` is what the first of the trusted proxies added.

The first two properties follow from `RequestInv` (`RequestSafety`). Neither property is inductive:
`BodyWhole` says nothing before the thread starts, so `BodyInv` counts the parts still
in the queue and says that the end is the last message of one; `OneResponse` looks at a
list of events of any length, so `OutInv` says which form it has for each state of the
stream (nothing, an open response, one that has ended, one cut short), and the lemmas
`Open...`, `Forms` and `FormsAreOne` say how `Start`, `Chunk`, `End` and `Handled` lead from
one to the next. Both need `ThreadInv`: where the thread may be for each place of the
task that awaits it. All of it has to be said of what happens until the task is cut,
because its thread goes on and begins a response of its own (section 4). `PathInv` keeps,
beside the types of the paths, which mount the dispatcher chose, as the end of the
`root_path`; that the environ's two halves make up the path again, and that the mount is
the end of the first, are lemmas about sequences (`JoinedSuffix`, `PathOfEnviron`).

`ScopeKept` says nothing before the middlewares have run, so `UserInv` says before them
what `ProxyFix` will make of the scope (`Seen`), and after them that the scope has it.
`Request` keeps that because the headers it changes, those of HTTP/2, are not those of
proxies; the user's scheme then follows the branch that `Enter` takes. The rest is about
lists: `Values` and `Others` are loops over the headers, concatenations that `FlattenSeq`
defines by recursion. The library's induction theorems cannot be used (they take an
operator), so `NatSet` and `SeqSet` state induction for a set: one that holds `<<>>` and
with each sequence all it can be extended to holds every sequence, since a least
number outside it would have a predecessor (`Least`). `JoinsExist` and `JoinsAgree` show
by it that the recursive function exists and depends on the first elements only, and
hence what `FlattenSeq` makes of a list with one more element (`FlattenAppend`);
from there `ValuesJoined`, `ValuesOfOthers`, `ValuesOfEach` and `OthersType` say what the
loops give for headers joined, of other names, one for each value, and left out.
`AddedValues` and `ProxiedForwarded` put them together for the headers of the proxies.
Assumed is that Python's `None` is none of the values a header has (`NoneAssumption`).

`WorkerProofs` proves for any number of connections, servers and requests, of either
backend, assuming `WaitsForConnections` (without it the second is refuted, section 4),

* `Clean`: `MCSpec => []EndsClean`;
* `Serves`: `MCSpec => ImplementsService`, the refinement of `Service`.

Both follow from one invariant (`AsyncioInv` or `TrioInv`), and every step proves at
once that it keeps the invariant and which step of `Service` it is. For asyncio the
invariant follows the shutdown: the servers are closed in their order, and a connection
with a transport belongs to one not yet closed or being closed; hence none has a
transport when the tasks are gathered, every task that is left is gathered
(`ServerTasks \subseteq gathered`), none can begin a request, and when the application
is told to shut down what is left was cancelled (`Over`) or a task has failed
(`broken`). Without it `EndsClean` is not inductive: nothing would keep a task that is
not awaited from running at the end. For trio it is shorter: outside the places where the
server nursery exists it holds no task, a failure of the lifespan's task is the
worker's outcome, and the nursery ends only after that task. Fairness plays no part
(`Safe`).

Left to TLC: liveness, everywhere, which is out of the prover's reach. Every safety
property that a run checks, and every refinement, is proved.

## 6. Plan

Done: every component of the inventory with its core, ten of them with proofs. What
would add most next, in this order:

1. HTTP/1: trailers, early hints, sendfile, 100-continue, upgrades; HTTP/2: server
   push, `http.response.trailers`, negative windows.
2. WebSockets over HTTP/2 and HTTP/3; several QUIC connections on one server; the
   trio worker's connection, where it differs.
3. Proofs of what is added.

## 7. Not modelled

Configuration, command line, logging and statistics: no property of the running
server depends on them (`__main__.py:277`, which takes `max_requests_jitter` from
`args.max_requests`, was found by reading). TLS handshakes, header contents and the
bytes of bodies are below the abstraction. Protocol selection is one step of one task
before any stream exists. Trio's version of a connection runs the same protocols over
channels and cancel scopes; only its worker and lifespan are modelled.

In `H2Connection`: server push, informational responses, `http.response.trailers`,
CONNECT (WebSocket) streams, hosts that are not served (the HTTP/1 module shows what
happens to their streams), changes of SETTINGS, windows below zero, and the count of
requests, which is the worker's. In `WSConnection`: `handle_ws_ping = False` and
pongs, which change nothing. In `QuicServer`: server push, WebSockets, several
connections. In `ProcessManager`: Windows, sockets, `workers = 0` (which is the worker
alone). In `WsgiWrapper`: header names that differ only in `-` and `_`, which the
environ merges. `utils.py`: loading of applications, addresses and TLS information.
`PROJECT.json` lists each part with its status, and each hazard with the properties
that cover it or the reason why none does.
