------------------------------ MODULE TrioWorker ------------------------------
(***************************************************************************)
(* trio/run.py and trio/lifespan.py.  The lifespan's task and the servers  *)
(* live in nested nurseries: an exception in either cancels everything     *)
(* within, and worker_serve ends with it.                                  *)
(***************************************************************************)
EXTENDS Worker

\* What the server nursery holds.
Tasks == {c \in Conns : conns[c] \in Running \cup {"pending"}}

\* Its cancellation.
CutAll == conns' = [c \in Conns |-> IF c \in Tasks THEN "cut" ELSE conns[c]]

----------------------------------------------------------------------------
(* handle_lifespan                                                         *)

\* The finally clause: the events are set and the channel is closed, which
\* lets other tasks run before this one ends.
LifespanCloses(place) ==
  /\ lifespan' = place /\ startup' = TRUE /\ shutdown' = TRUE
  /\ UNCHANGED <<mainVars, queue, received, connVars, trigger>>

\* asgi_send: lifespan.startup.failed, lifespan.shutdown.failed
Fail(m) ==
  /\ lifespan = "run" /\ m \in received
  /\ lifespan' = "failing"
  /\ UNCHANGED <<mainVars, startup, shutdown, supported, queue, received,
                 connVars, trigger>>

LifespanFails ==
  lifespan = "failing" /\ LifespanCloses("closingFailed") /\ UNCHANGED supported

LifespanReturns ==
  /\ lifespan \in {"run", "failing"}
  /\ LifespanCloses("closing") /\ UNCHANGED supported

LifespanRaises ==
  /\ lifespan \in {"run", "failing"}
  /\ LifespanCloses("closing") /\ supported' = FALSE

LifespanEnds ==
  /\ lifespan = "closing" /\ lifespan' = "returned"
  /\ UNCHANGED <<mainVars, startup, shutdown, supported, queue, received,
                 connVars, trigger>>

\* Everything in the nursery is cancelled, and worker_serve with it.
Cancel(error) ==
  /\ main' = "cancelled" /\ outcome' = error /\ broken' = TRUE
  /\ terminated' = (terminated \/ main = "serve") /\ listening' = {}
  /\ UNCHANGED <<gathered, graceOver>>

\* The failure leaves the task.
LifespanFailed ==
  /\ lifespan = "closingFailed" /\ lifespan' = "failed"
  /\ IF main = "ended" THEN UNCHANGED <<mainVars, conns>>
     ELSE Cancel("LifespanFailure") /\ CutAll
  /\ UNCHANGED <<startup, shutdown, supported, queue, received, at, requests,
                 terminate, trigger>>

\* A task that was cancelled passes through the finally clause.
LifespanCancelled ==
  /\ lifespan = "cancelling" /\ lifespan' = "cancelled"
  /\ startup' = TRUE /\ shutdown' = TRUE
  /\ UNCHANGED <<mainVars, supported, queue, received, connVars, trigger>>

----------------------------------------------------------------------------
(* worker_serve                                                            *)

Goto(place) ==
  /\ main' = place
  /\ UNCHANGED <<outcome, terminated, listening, gathered, graceOver, broken>>

\* The body of the lifespan's nursery is left, which cancels the application,
\* also one whose failure is on its way: the finally clause awaits.
Raise(error) ==
  /\ main' = "joining" /\ outcome' = error
  /\ lifespan' = IF lifespan \in {"returned", "failed"} THEN lifespan
                 ELSE "cancelling"
  /\ UNCHANGED <<terminated, listening, gathered, graceOver, broken, startup,
                 shutdown, supported, queue, received>>

ChannelOpen == lifespan \in {"run", "failing"}

\* wait_for_startup, wait_for_shutdown: the message is sent, unless the
\* application is not supported; the channel may be closed already.
Ask(m, next, skip) ==
  \/ ~supported /\ Goto(skip) /\ UNCHANGED lifespanVars
  \/ supported /\ ~ChannelOpen /\ Raise("ClosedResource")
  \/ /\ supported /\ ChannelOpen /\ Len(queue) < QueueSize
     /\ queue' = Append(queue, m) /\ Goto(next)
     /\ UNCHANGED <<lifespan, startup, shutdown, supported, received>>

AskStartup ==
  /\ main = "boot" /\ lifespan # "new"
  /\ Ask("startup", "startup", "startup")
  /\ UNCHANGED <<connVars, trigger>>

StartupDone ==
  /\ main = "startup" /\ startup
  /\ main' = "serve" /\ listening' = 1 .. Servers
  /\ UNCHANGED <<outcome, terminated, gathered, graceOver, broken, lifespanVars,
                 connVars, trigger>>

StartupTimeout ==
  /\ main = "startup" /\ ~startup
  /\ Raise("LifespanTimeout")
  /\ UNCHANGED <<connVars, trigger>>

\* raise_shutdown cancels the nursery of the listeners; the deadline of the
\* server nursery is set.
ShutdownBegins ==
  /\ main = "serve" /\ (trigger \/ terminate)
  /\ main' = "drain" /\ terminated' = TRUE /\ listening' = {}
  /\ UNCHANGED <<outcome, gathered, graceOver, broken, lifespanVars, connVars,
                 trigger>>

\* The deadline of the server nursery.
GraceExpires ==
  /\ main = "drain" /\ Tasks # {} /\ ~graceOver
  /\ graceOver' = TRUE /\ CutAll
  /\ UNCHANGED <<main, outcome, terminated, listening, gathered, broken,
                 lifespanVars, at, requests, terminate, trigger>>

\* The server nursery ends with the last of its tasks.
Drained ==
  /\ main = "drain" /\ Tasks = {}
  /\ Goto("stopping")
  /\ UNCHANGED <<lifespanVars, connVars, trigger>>

\* A connection's task raises: the server nursery is cancelled.
TaskFails(c) ==
  /\ main \in {"serve", "drain"} /\ conns[c] \in Requesting
  /\ Cancel("TaskError")
  /\ conns' = [d \in Conns |-> IF d = c THEN "done"
                               ELSE IF d \in Tasks THEN "cut" ELSE conns[d]]
  /\ UNCHANGED <<lifespanVars, at, requests, terminate, trigger>>

AskShutdown ==
  /\ main = "stopping"
  /\ Ask("shutdown", "shutdown", "join")
  /\ UNCHANGED <<connVars, trigger>>

ShutdownDone ==
  /\ main = "shutdown" /\ shutdown
  /\ Goto("join")
  /\ UNCHANGED <<lifespanVars, connVars, trigger>>

ShutdownTimeout ==
  /\ main = "shutdown" /\ ~shutdown
  /\ Raise("LifespanTimeout")
  /\ UNCHANGED <<connVars, trigger>>

\* lifespan_nursery.cancel_scope.cancel()
CancelLifespan ==
  /\ main = "join" /\ Raise(outcome)
  /\ UNCHANGED <<connVars, trigger>>

\* The server nursery that was cancelled is empty: the application is
\* cancelled in its turn.
Unwound ==
  /\ main = "cancelled" /\ Tasks = {}
  /\ Raise(outcome)
  /\ UNCHANGED <<connVars, trigger>>

\* The lifespan's nursery ends with its task.
JoinLifespan ==
  /\ main = "joining" /\ lifespan \in {"returned", "failed", "cancelled"}
  /\ Goto("ended")
  /\ UNCHANGED <<lifespanVars, connVars, trigger>>

MainStep ==
  \/ AskStartup \/ StartupDone \/ StartupTimeout \/ ShutdownBegins
  \/ GraceExpires \/ Drained \/ AskShutdown \/ ShutdownDone \/ ShutdownTimeout
  \/ CancelLifespan \/ Unwound \/ JoinLifespan

LifespanEnding ==
  \/ LifespanEnds \/ LifespanFailed \/ LifespanCancelled
  \/ lifespan = "failing" /\ (LifespanFails \/ LifespanReturns \/ LifespanRaises)

Next ==
  \/ SharedStep \/ MainStep
  \/ \E m \in Messages : Fail(m)
  \/ LifespanFails \/ LifespanReturns \/ LifespanRaises
  \/ LifespanEnds \/ LifespanFailed \/ LifespanCancelled
  \/ \E c \in Conns : TaskFails(c)
=============================================================================
