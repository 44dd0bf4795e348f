---------------------------- MODULE AsyncioWorker ----------------------------
(***************************************************************************)
(* asyncio/run.py and asyncio/lifespan.py: worker_serve, one action per    *)
(* stretch between two awaits that suspend it, and the end of              *)
(* handle_lifespan.  asyncio.Server.wait_closed returns when the server's  *)
(* transports are closed if WaitsForConnections (Python 3.12.1 and later), *)
(* and at once otherwise.                                                  *)
(***************************************************************************)
EXTENDS Worker

CONSTANT WaitsForConnections

----------------------------------------------------------------------------
(* handle_lifespan                                                         *)

\* The finally clause: whoever waits for an event goes on.
LifespanEnds(how) ==
  /\ lifespan' = how /\ startup' = TRUE /\ shutdown' = TRUE
  /\ UNCHANGED <<mainVars, queue, received, connVars, trigger>>

\* asgi_send: lifespan.startup.failed, lifespan.shutdown.failed.  The event is
\* set, then the exception makes its way through the application.
Fail(m) ==
  /\ lifespan = "run" /\ m \in received
  /\ startup' = (startup \/ m = "startup")
  /\ shutdown' = (shutdown \/ m = "shutdown")
  /\ lifespan' = "failing"
  /\ UNCHANGED <<mainVars, supported, queue, received, connVars, trigger>>

LifespanFails == lifespan = "failing" /\ LifespanEnds("failed") /\ UNCHANGED supported

\* The application returns, also one that swallows a failure or a cancellation.
LifespanReturns ==
  /\ lifespan \in {"run", "failing", "cancelling"}
  /\ LifespanEnds("returned") /\ UNCHANGED supported

\* It raises anything else: it has no lifespan support.
LifespanRaises ==
  /\ lifespan \in {"run", "failing", "cancelling"}
  /\ LifespanEnds("returned") /\ supported' = FALSE

LifespanCancelled ==
  /\ lifespan = "cancelling" /\ LifespanEnds("cancelled") /\ UNCHANGED supported

\* (lifespan_task.done())
LifespanDone == lifespan \in {"returned", "failed", "cancelled"}

----------------------------------------------------------------------------
(* worker_serve                                                            *)

Goto(place) ==
  /\ main' = place
  /\ UNCHANGED <<outcome, terminated, listening, gathered, graceOver, broken>>

\* An exception leaves worker_serve; the Runner cancels what is left.
Raise(error) ==
  /\ main' = "ended" /\ outcome' = error /\ listening' = {}
  /\ UNCHANGED <<terminated, gathered, graceOver, broken>>

Put(m) ==
  /\ Len(queue) < QueueSize /\ queue' = Append(queue, m)
  /\ UNCHANGED <<lifespan, startup, shutdown, supported, received>>

\* wait_for_startup: once _started is set, the message is put.
AskStartup ==
  /\ main = "boot" /\ lifespan # "new"
  /\ Goto("startup")
  /\ IF supported THEN Put("startup") ELSE UNCHANGED lifespanVars
  /\ UNCHANGED <<connVars, trigger>>

\* The startup is over: the sockets are served, unless the task has failed.
StartupDone ==
  /\ main = "startup" /\ startup
  /\ IF lifespan = "failed" THEN Raise("LifespanFailure")
     ELSE /\ main' = "serve" /\ listening' = 1 .. Servers
          /\ UNCHANGED <<outcome, terminated, gathered, graceOver, broken>>
  /\ UNCHANGED <<lifespanVars, connVars, trigger>>

StartupTimeout ==
  /\ main = "startup" /\ ~startup
  /\ Raise("LifespanTimeout")
  /\ UNCHANGED <<lifespanVars, connVars, trigger>>

\* raise_shutdown of the trigger or of context.terminate ends the task group.
ShutdownBegins ==
  /\ main = "serve" /\ (trigger \/ terminate)
  /\ main' = "closing" /\ terminated' = TRUE /\ listening' = listening \ {1}
  /\ UNCHANGED <<outcome, gathered, graceOver, broken, lifespanVars, connVars,
                 trigger>>

\* The server that is being closed: the servers are closed in their order.
Closing == CHOOSE s \in 1 .. Servers : listening = s + 1 .. Servers

HasTransport(c) == conns[c] \in {"pending", "idle", "busy"}

\* wait_closed() of one server returns, and the next one is closed.  After
\* the last one the tasks that are left are gathered.
WaitClosed ==
  /\ main = "closing"
  /\ WaitsForConnections => \A c \in Conns : at[c] = Closing => ~HasTransport(c)
  /\ listening' = listening \ {Closing + 1}
  /\ IF Closing < Servers THEN UNCHANGED <<main, gathered>>
     ELSE main' = "drain" /\ gathered' = ServerTasks
  /\ UNCHANGED <<outcome, terminated, graceOver, broken, lifespanVars, connVars,
                 trigger>>

\* (mutant: the server tasks are not awaited)
NotAwaited == TRUE

AllDone == gathered \cap ServerTasks = {}

Drained ==
  /\ main = "drain" /\ AllDone
  /\ Goto("stopping")
  /\ UNCHANGED <<lifespanVars, connVars, trigger>>

\* The tasks of C are cancelled; one that is not under way never is.
Cut(C) ==
  conns' = [c \in Conns |-> IF c \in C /\ conns[c] \in Running THEN "cut"
                            ELSE conns[c]]

\* wait_for gives up and cancels what it gathered ...
GraceExpires ==
  /\ main = "drain" /\ ~AllDone
  /\ main' = "cutting" /\ graceOver' = TRUE
  /\ gathered' = gathered \cap ServerTasks /\ Cut(gathered)
  /\ UNCHANGED <<outcome, terminated, listening, broken, lifespanVars, at, requests,
                 terminate, trigger>>

\* ... and goes on when the first of them has ended.
GraceOver ==
  /\ main = "cutting" /\ \E c \in gathered : conns[c] = "done"
  /\ Goto("stopping")
  /\ UNCHANGED <<lifespanVars, connVars, trigger>>

\* The task of a connection raises; gather passes it on at once.
TaskFails(c) ==
  /\ main # "ended" /\ conns[c] \in Requesting
  /\ Becomes(c, "done")
  /\ IF main = "drain" /\ c \in gathered
     THEN /\ main' = "stopping" /\ outcome' = "TaskError"
          /\ broken' = TRUE
          /\ UNCHANGED <<terminated, listening, gathered, graceOver>>
     ELSE UNCHANGED mainVars
  /\ UNCHANGED <<lifespanVars, at, requests, terminate, trigger>>

\* wait_for_shutdown, while the application has lifespan support.
AskShutdown ==
  /\ main = "stopping"
  /\ \/ supported /\ Put("shutdown") /\ Goto("shutdown")
     \/ ~supported /\ UNCHANGED lifespanVars /\ Goto("join")
  /\ UNCHANGED <<connVars, trigger>>

ShutdownDone ==
  /\ main = "shutdown" /\ shutdown
  /\ Goto("join")
  /\ UNCHANGED <<lifespanVars, connVars, trigger>>

ShutdownTimeout ==
  /\ main = "shutdown" /\ ~shutdown
  /\ Raise("LifespanTimeout")
  /\ UNCHANGED <<lifespanVars, connVars, trigger>>

\* lifespan_task.cancel()
CancelLifespan ==
  /\ main = "join"
  /\ Goto("joining")
  /\ lifespan' = IF LifespanDone THEN lifespan ELSE "cancelling"
  /\ UNCHANGED <<startup, shutdown, supported, queue, received, connVars, trigger>>

\* (mutant: the task is not awaited)
JoinIgnored == outcome

\* await lifespan_task: what it raised leaves worker_serve.
JoinOutcome ==
  CASE lifespan = "failed" -> "LifespanFailure"
    [] lifespan = "cancelled" -> "Cancelled"
    [] lifespan = "returned" -> outcome

JoinLifespan ==
  /\ main = "joining" /\ LifespanDone
  /\ Raise(JoinOutcome)
  /\ UNCHANGED <<lifespanVars, connVars, trigger>>

MainStep ==
  \/ AskStartup \/ StartupDone \/ StartupTimeout \/ ShutdownBegins
  \/ WaitClosed \/ Drained \/ GraceExpires \/ GraceOver
  \/ AskShutdown \/ ShutdownDone \/ ShutdownTimeout
  \/ CancelLifespan \/ JoinLifespan

\* A task that fails or is cancelled ends, whatever it does on the way.
LifespanEnding ==
  lifespan \in {"failing", "cancelling"}
  /\ (LifespanFails \/ LifespanReturns \/ LifespanRaises \/ LifespanCancelled)

Next ==
  \/ SharedStep \/ MainStep
  \/ \E m \in Messages : Fail(m)
  \/ LifespanFails \/ LifespanReturns \/ LifespanRaises \/ LifespanCancelled
  \/ \E c \in Conns : TaskFails(c)
=============================================================================
