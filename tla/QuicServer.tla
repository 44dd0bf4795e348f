------------------------------ MODULE QuicServer ------------------------------
(***************************************************************************)
(* asyncio/udp_server.py, protocol/quic.py and protocol/h3.py with the     *)
(* AsyncioSingleTask of the connection's timer: one QUIC connection with   *)
(* one request.  The server's loop, the timers' tasks and the application  *)
(* handle the connection's events and send; a task keeps the processor     *)
(* until it waits for the lock of the timer, for a task it has cancelled,  *)
(* or for room in the application's queue.  aioquic is external: it makes  *)
(* events of datagrams and of its timer.                                   *)
(***************************************************************************)
EXTENDS Naturals, Sequences, FiniteSets

CONSTANTS
  QueueSize,    \* max_app_queue_size
  Timers        \* identities of the timers' tasks

\* A timer that restarts itself is awake while the new one is made.
ASSUME QuicAssumption ==
  /\ QueueSize \in Nat \ {0}
  /\ IsFiniteSet(Timers) /\ \A n \in Timers : Timers # {n}
  /\ Timers # {} /\ Timers \cap {"server", "app", "none"} = {}

VARIABLES
  quic,         \* the QuicConnection: "none", "open", "closing" or "done"
  events,       \* events it has not given yet
  sent,         \* events of the client so far
  table,        \* keys of QuicProtocol.connections
  cids,         \* _Connection.cids
  h3,           \* _Connection.h3 is not None
  stream,       \* H3Protocol.streams has the request
  handle,       \* AsyncioSingleTask._handle, "none" without one
  lock,         \* AsyncioSingleTask._lock: the holder, then the waiting
  timer,        \* the timers' tasks: "dead", "sleeping" or "awake"
  cpu, todo, wait,
  server,       \* UDPServer.run: "running", "ended" or "crashed"
  app,          \* the application: "none", "running" or "done"
  terminated,   \* context.terminated
  queue,        \* messages in the application's queue
  put,          \* history: what was put, in order
  full,         \* history: a put has waited for room
  refused       \* history: a request came too late and was ignored

quicVars == <<quic, events, sent>>
connVars == <<table, cids, h3, stream>>
timerVars == <<handle, lock, timer>>
taskVars == <<cpu, todo, wait>>
queueVars == <<queue, put, full>>
roleVars == <<server, app, terminated, refused>>
vars == <<quicVars, connVars, timerVars, taskVars, queueVars, roleVars>>

Tasks == Timers \cup {"server", "app"}
Cids == {"original", "host", "issued"}
Puts == {"first", "second", "third", "end"}

\* What the client's stream brings: "last" is data that ends it.
Script == <<"negotiated", "headers", "first", "second", "last">>
Events == {"negotiated", "headers", "first", "second", "last", "issued", "retired",
           "terminated"}

TypeOK ==
  /\ quic \in {"none", "open", "closing", "done"}
  /\ events \in Seq(Events) /\ sent \in 0 .. Len(Script)
  /\ table \subseteq Cids /\ cids \subseteq Cids /\ h3 \in BOOLEAN /\ stream \in BOOLEAN
  /\ handle \in Timers \cup {"none"}
  /\ lock \in Seq(Tasks) /\ \A i, j \in 1 .. Len(lock) : i # j => lock[i] # lock[j]
  /\ timer \in [Timers -> {"dead", "sleeping", "awake"}]
  /\ cpu \in Tasks \cup {"none"} /\ (cpu # "none" => wait[cpu] = "no")
  /\ wait \in [Tasks -> {"no", "lock", "tick", "put"}]
  /\ \A t \in Tasks : wait[t] \in {"no", "tick"} \/ todo[t] # <<>>
  /\ server \in {"running", "ended", "crashed"} /\ app \in {"none", "running", "done"}
  /\ terminated \in BOOLEAN /\ queue \in 0 .. QueueSize
  /\ put \in Seq(Puts) /\ full \in BOOLEAN /\ refused \in BOOLEAN

Init ==
  /\ quic = "none" /\ events = <<>> /\ sent = 0
  /\ table = {} /\ cids = {} /\ h3 = FALSE /\ stream = FALSE
  /\ handle = "none" /\ lock = <<>> /\ timer = [n \in Timers |-> "dead"]
  /\ cpu = "none" /\ todo = [t \in Tasks |-> <<>>] /\ wait = [t \in Tasks |-> "no"]
  /\ server = "running" /\ app = "none" /\ terminated = FALSE
  /\ queue = 0 /\ put = <<>> /\ full = FALSE /\ refused = FALSE

----------------------------------------------------------------------------
(* What a task does at one go.                                             *)

Idle(t) == cpu = "none" /\ todo[t] = <<>> /\ wait[t] = "no" /\ server # "crashed"

Begin(t, ops) == todo' = [todo EXCEPT ![t] = ops] /\ cpu' = t

Does(t, op) == cpu = t /\ todo[t] # <<>> /\ Head(todo[t]) = op

Goes(t, more) == todo' = [todo EXCEPT ![t] = more \o Tail(@)] /\ UNCHANGED cpu

Suspends(t, what) == cpu' = "none" /\ wait' = [wait EXCEPT ![t] = what]

\* A task that has nothing to do ends, or goes back to wait.
Ends(t) ==
  /\ cpu = t /\ todo[t] = <<>> /\ cpu' = "none"
  /\ timer' = IF t \in Timers THEN [timer EXCEPT ![t] = "dead"] ELSE timer
  /\ UNCHANGED <<quicVars, connVars, handle, lock, todo, wait, queueVars, roleVars>>

\* _handle_events: one event, then the next.
Handling(ops) == ops \o <<"next">>

----------------------------------------------------------------------------
(* AsyncioSingleTask.                                                      *)

\* The lock is free, or is t's.
Mine(t) == lock # <<>> => Head(lock) = t

\* What comes after the old task has ended.
Then(op) == IF op = "restart" THEN "arm" ELSE "disarm"

WaitsForLock(t, op) ==
  /\ Does(t, op) /\ ~Mine(t) /\ lock' = Append(lock, t) /\ Suspends(t, "lock")
  /\ UNCHANGED <<quicVars, connVars, handle, timer, todo, queueVars, roleVars>>

Handed(t) ==
  /\ cpu = "none" /\ wait[t] = "lock" /\ Head(lock) = t
  /\ cpu' = t /\ wait' = [wait EXCEPT ![t] = "no"]
  /\ UNCHANGED <<quicVars, connVars, timerVars, todo, queueVars, roleVars>>

\* (mutant: the old task is not cancelled)
Nobody(t) == {}

Cancelled(t) == {handle} \ {"none", t}

\* The lock, which n holds or waits for no more.
Without(n) ==
  IF \E i \in 1 .. Len(lock) : lock[i] = n
  THEN LET i == CHOOSE i \in 1 .. Len(lock) : lock[i] = n
       IN  SubSeq(lock, 1, i - 1) \o SubSeq(lock, i + 1, Len(lock))
  ELSE lock

\* The old task is cancelled and awaited: it ends where it waits, and what it
\* was doing is lost.  A task that cancels itself catches the CancelledError.
Cancels(t, op) ==
  /\ Does(t, op) /\ Mine(t)
  /\ LET killed == Cancelled(t) IN
     /\ lock' = IF lock = <<>> THEN <<t>> ELSE IF killed = {} THEN lock ELSE Without(handle)
     /\ todo' = [s \in Tasks |-> IF s = t THEN <<Then(op)>> \o Tail(todo[t])
                                 ELSE IF s \in killed THEN <<>> ELSE todo[s]]
     /\ timer' = [n \in Timers |-> IF n \in killed THEN "dead" ELSE timer[n]]
     /\ IF handle # "none" /\ timer[handle] # "dead"
        THEN /\ cpu' = "none"
             /\ wait' = [s \in Tasks |-> IF s = t THEN "tick"
                                         ELSE IF s \in killed THEN "no" ELSE wait[s]]
        ELSE UNCHANGED <<cpu, wait>>
  /\ UNCHANGED <<quicVars, connVars, handle, queueVars, roleVars>>

Ticks(t) ==
  /\ cpu = "none" /\ wait[t] = "tick"
  /\ cpu' = t /\ wait' = [wait EXCEPT ![t] = "no"]
  /\ UNCHANGED <<quicVars, connVars, timerVars, todo, queueVars, roleVars>>

Arm(t) ==
  /\ Does(t, "arm") /\ Goes(t, <<>>) /\ lock' = Tail(lock)
  /\ LET n == CHOOSE n \in Timers : timer[n] = "dead" IN
     handle' = n /\ timer' = [timer EXCEPT ![n] = "sleeping"]
  /\ UNCHANGED <<quicVars, connVars, wait, queueVars, roleVars>>

Disarm(t) ==
  /\ Does(t, "disarm") /\ Goes(t, <<>>) /\ lock' = Tail(lock) /\ handle' = "none"
  /\ UNCHANGED <<quicVars, connVars, timer, wait, queueVars, roleVars>>

----------------------------------------------------------------------------
(* QuicProtocol.                                                           *)

\* (mutant: datagrams are sent and the timer left as it is)
NoTimer == <<>>

\* send_all: get_timer is None once the connection is done.
SetTimer == IF quic = "done" THEN <<>> ELSE <<"restart">>

SendAll(t) ==
  /\ Does(t, "send") /\ Goes(t, SetTimer)
  /\ UNCHANGED <<quicVars, connVars, timerVars, wait, queueVars, roleVars>>

RetiredCids == cids \ {"issued"}

\* (mutant: the end is given before the data that came with it)
EndFirst == <<"end", "third">>

\* DataReceived with stream_ended
LastData == <<"third", "end">>

\* QuicProtocol._handle_events
TakeEvent(t) ==
  /\ Does(t, "next") /\ events # <<>> /\ events' = Tail(events)
  /\ \/ /\ Head(events) = "terminated" /\ Goes(t, Handling(<<"stop", "forget">>))
        /\ UNCHANGED <<table, cids, h3>>
     \/ /\ Head(events) = "negotiated" /\ h3' = TRUE /\ Goes(t, Handling(<<>>))
        /\ UNCHANGED <<table, cids>>
     \/ /\ Head(events) = "issued" /\ Goes(t, Handling(<<>>))
        /\ table' = table \cup {"issued"} /\ cids' = cids \cup {"issued"}
        /\ UNCHANGED h3
     \/ /\ Head(events) = "retired" /\ Goes(t, Handling(<<>>))
        /\ table' = table \ {"issued"} /\ cids' = RetiredCids /\ UNCHANGED h3
  /\ UNCHANGED <<quic, sent, stream, timerVars, wait, queueVars, roleVars>>

\* H3Protocol.handle
TakeH3Event(t) ==
  /\ Does(t, "next") /\ events # <<>> /\ events' = Tail(events) /\ h3
  /\ \/ /\ Head(events) = "headers" /\ ~terminated /\ Goes(t, Handling(<<>>))
        /\ stream' = TRUE /\ app' = "running" /\ UNCHANGED refused
     \/ /\ Head(events) = "headers" /\ terminated /\ Goes(t, Handling(<<>>))
        /\ refused' = TRUE /\ UNCHANGED <<stream, app>>
     \/ /\ Head(events) \in {"first", "second"} /\ Goes(t, Handling(<<Head(events)>>))
        /\ UNCHANGED <<stream, app, refused>>
     \/ /\ Head(events) = "last" /\ Goes(t, Handling(LastData))
        /\ UNCHANGED <<stream, app, refused>>
  /\ UNCHANGED <<quic, sent, table, cids, h3, timerVars, wait, queueVars, server,
                 terminated>>

NoMoreEvents(t) ==
  /\ Does(t, "next") /\ events = <<>> /\ Goes(t, <<"send">>)
  /\ UNCHANGED <<quicVars, connVars, timerVars, wait, queueVars, roleVars>>

\* The rest of ConnectionTerminated.
Forget(t) ==
  /\ Does(t, "forget") /\ Goes(t, <<>>)
  /\ table' = table \ cids /\ cids' = {}
  /\ UNCHANGED <<quicVars, h3, stream, timerVars, wait, queueVars, roleVars>>

HasRoom == queue < QueueSize

\* HTTPStream.handle(Body), handle(EndBody)
Put(t, op) ==
  /\ Does(t, op) \/ (cpu = "none" /\ wait[t] = "put" /\ Head(todo[t]) = op)
  /\ stream \/ wait[t] = "put"
  /\ HasRoom /\ queue' = queue + 1 /\ put' = Append(put, op)
  /\ wait' = [wait EXCEPT ![t] = "no"]
  /\ todo' = [todo EXCEPT ![t] = Tail(@)] /\ cpu' = t
  /\ UNCHANGED <<quicVars, connVars, timerVars, full, roleVars>>

PutWaits(t, op) ==
  /\ Does(t, op) /\ stream /\ ~HasRoom /\ Suspends(t, "put") /\ full' = TRUE
  /\ UNCHANGED <<quicVars, connVars, timerVars, todo, queue, put, roleVars>>

\* self.streams[stream_id] raises KeyError, which ends the server.
KeyError(t, op) ==
  /\ Does(t, op) /\ ~stream /\ server' = "crashed" /\ cpu' = "none"
  /\ UNCHANGED <<quicVars, connVars, timerVars, todo, wait, queueVars, app, terminated,
                 refused>>

----------------------------------------------------------------------------
(* The server's loop.                                                      *)

Serves == Idle("server") /\ server = "running"

\* A first Initial packet.
Connect ==
  /\ Serves /\ quic = "none" /\ ~terminated /\ quic' = "open"
  /\ table' = {"original", "host"} /\ cids' = {"original", "host"}
  /\ Begin("server", <<"next", "loop">>)
  /\ UNCHANGED <<events, sent, h3, stream, timerVars, wait, queueVars, roleVars>>

\* A packet for a known identifier, of which aioquic makes events.
Datagram ==
  /\ Serves /\ table # {} /\ Begin("server", <<"next", "loop">>)
  /\ \/ UNCHANGED quicVars
     \/ \E n \in 1 .. 2 :
          /\ quic = "open" /\ sent + n <= Len(Script) /\ sent' = sent + n
          /\ events' = events \o SubSeq(Script, sent + 1, sent + n) /\ UNCHANGED quic
     \/ /\ quic = "open" /\ sent > 0 /\ "issued" \notin cids /\ events = <<>>
        /\ events' = <<"issued">> /\ UNCHANGED <<quic, sent>>
     \/ /\ quic = "open" /\ "issued" \in cids /\ events = <<>>
        /\ events' = <<"retired">> /\ UNCHANGED <<quic, sent>>
     \/ quic = "open" /\ quic' = "closing" /\ UNCHANGED <<events, sent>>
  /\ UNCHANGED <<connVars, timerVars, wait, queueVars, roleVars>>

\* Any other packet, and the loop's condition.
OtherDatagram ==
  /\ Serves /\ table = {} /\ Begin("server", <<"loop">>)
  /\ UNCHANGED <<quicVars, connVars, timerVars, wait, queueVars, roleVars>>

Loop ==
  /\ Does("server", "loop") /\ Goes("server", <<>>)
  /\ server' = IF terminated /\ table = {} THEN "ended" ELSE server
  /\ UNCHANGED <<quicVars, connVars, timerVars, wait, queueVars, app, terminated, refused>>

\* A task that has been given the lock takes it before a new timer, which
\* yields at least once, has slept.
NoHandOver == lock # <<>> => wait[Head(lock)] # "lock"

\* _handle_timer: the sleep ends, and aioquic may end the connection.
Fire(n) ==
  /\ Idle(n) /\ NoHandOver /\ timer[n] = "sleeping" /\ timer' = [timer EXCEPT ![n] = "awake"]
  /\ Begin(n, <<"next">>)
  /\ \/ UNCHANGED quicVars
     \/ /\ quic \in {"open", "closing"} /\ quic' = "done"
        /\ events' = Append(events, "terminated") /\ UNCHANGED sent
  /\ UNCHANGED <<connVars, handle, lock, wait, queueVars, roleVars>>

----------------------------------------------------------------------------
(* The application.                                                        *)

Receive ==
  /\ Idle("app") /\ app = "running" /\ queue > 0 /\ queue' = queue - 1
  /\ UNCHANGED <<quicVars, connVars, timerVars, taskVars, put, full, roleVars>>

Sending == <<"send">>

\* stream_send of a part of the response
Send ==
  /\ Idle("app") /\ app = "running" /\ Begin("app", Sending)
  /\ UNCHANGED <<quicVars, connVars, timerVars, wait, queueVars, roleVars>>

\* The application ends: the end of the response and StreamClosed.
Finish ==
  /\ Idle("app") /\ app = "running" /\ app' = "done" /\ Begin("app", <<"send", "pop">>)
  /\ UNCHANGED <<quicVars, connVars, timerVars, wait, queueVars, server, terminated, refused>>

Pop ==
  /\ Does("app", "pop") /\ Goes("app", <<>>) /\ stream' = FALSE
  /\ UNCHANGED <<quicVars, table, cids, h3, timerVars, wait, queueVars, roleVars>>

Terminate ==
  /\ ~terminated /\ terminated' = TRUE
  /\ UNCHANGED <<quicVars, connVars, timerVars, taskVars, queueVars, server, app, refused>>

Step(t) ==
  /\ server # "crashed"
  /\ \/ Ends(t) \/ Handed(t) \/ Ticks(t) \/ Arm(t) \/ Disarm(t) \/ SendAll(t)
     \/ TakeEvent(t) \/ TakeH3Event(t) \/ NoMoreEvents(t) \/ Forget(t)
     \/ \E op \in {"restart", "stop"} : WaitsForLock(t, op) \/ Cancels(t, op)
     \/ \E op \in Puts : Put(t, op) \/ PutWaits(t, op) \/ KeyError(t, op)

Next ==
  \/ \E t \in Tasks : Step(t)
  \/ \E n \in Timers : Fire(n)
  \/ Connect \/ Datagram \/ OtherDatagram \/ Loop
  \/ Receive \/ Send \/ Finish \/ Pop \/ Terminate

Spec == Init /\ [][Next]_vars

\* The event loop comes to every task that is ready, and a connection that
\* closes ends at one of its timers: they are set for the same instant however
\* often they are restarted.  The client and the application need do nothing.
FairSpec ==
  /\ Spec /\ SF_vars(Step("server") \/ Loop) /\ SF_vars(Step("app") \/ Pop)
  /\ \A n \in Timers : SF_vars(Step(n))
  /\ SF_vars(\E n \in Timers : Fire(n) /\ quic' = "done")

----------------------------------------------------------------------------
(* Properties.                                                             *)

\* QuicProtocol.connections and the connection's own cids say the same of
\* every identifier, whichever task handled its issue, its retirement and the
\* end: a packet finds its connection, and none is found that has ended.
CidsAgree == table = cids

\* Server, application and timer all restart the timer, the timer's task even
\* itself: never do two tasks of one connection sleep (CHANGELOG.rst:45).
OneTimer == Cardinality({n \in Timers : timer[n] = "sleeping"}) <= 1

\* The tasks that handle one connection in turns, and that cancel each other,
\* keep one view of it.
OneView == TypeOK /\ CidsAgree /\ OneTimer

\* While the application's queue has room, its messages come whole and in
\* order although a timer that is cancelled loses what it was doing: no task
\* waits between taking an event and handling it.
InOrder == ~full => put = SubSeq(<<"first", "second", "third", "end">>, 1, Len(put))

\* Only data for a stream the application has left, or that was refused at the
\* shutdown, makes the server fail (h3.py:65).
FailsLate == server = "crashed" => app = "done" \/ refused

\* What the client sends is delivered, or too late to be.
Delivered == InOrder /\ FailsLate

\* The server waits for ever for an application that does not receive.
Stuck == [](queue = QueueSize \/ server = "crashed")

\* The client's packets, which restart the timer, end one day.
ClientStops == <>[][~Datagram]_vars

\* A connection that closes is forgotten: its timer is set again by whoever
\* cancelled it, and the ConnectionTerminated is not lost with a timer's task.
ClosedIsForgotten ==
  ClientStops => (quic \in {"closing", "done"} ~> table = {} \/ Stuck)
=============================================================================
