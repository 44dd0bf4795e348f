------------------------------- MODULE Worker -------------------------------
(***************************************************************************)
(* What the asyncio and the trio worker share: the application's lifespan  *)
(* task, the server tasks (one per connection) with the request count of   *)
(* WorkerContext, and the signals that stop the worker.                    *)
(***************************************************************************)
EXTENDS Naturals, Sequences

CONSTANTS
  Conns,        \* the connections
  Servers,      \* number of listening sockets
  QueueSize,    \* max_app_queue_size of the lifespan's queue
  MaxRequests   \* max_requests with its jitter

ASSUME WorkerAssumption ==
  /\ Servers \in Nat \ {0} /\ QueueSize \in Nat \ {0} /\ MaxRequests \in Nat

VARIABLES
  main,         \* where worker_serve is
  outcome,      \* what leaves it: "ok" or an exception
  trigger,      \* the shutdown trigger has returned
  terminate,    \* context.terminate
  terminated,   \* context.terminated
  listening,    \* the servers that accept connections
  gathered,     \* the server tasks whose end is awaited
  graceOver,    \* graceful_timeout has expired
  broken,       \* a task that worker_serve waits for has failed
  lifespan,     \* the task of handle_lifespan
  startup,      \* Lifespan.startup
  shutdown,     \* Lifespan.shutdown
  supported,    \* Lifespan.supported
  queue,        \* messages on their way to the lifespan's application
  received,     \* those it has received
  conns,        \* the server task of each connection
  at,           \* the server that accepted it
  requests      \* context.requests

lifespanVars == <<lifespan, startup, shutdown, supported, queue, received>>
connVars == <<conns, at, requests, terminate>>
mainVars == <<main, outcome, terminated, listening, gathered, graceOver, broken>>
vars == <<mainVars, lifespanVars, connVars, trigger>>

Messages == {"startup", "shutdown"}

\* A connection is accepted, its task runs between requests or in one, its
\* transport is gone while the request runs on, or its task is cancelled.
Running == {"idle", "busy", "orphan", "cut"}
Requesting == {"busy", "orphan"}
ServerTasks == {c \in Conns : conns[c] \in Running}

TypeOK ==
  /\ main \in {"boot", "startup", "serve", "closing", "drain", "cutting",
               "stopping", "shutdown", "join", "joining", "cancelled", "ended"}
  /\ outcome \in {"ok", "LifespanFailure", "LifespanTimeout", "ClosedResource",
                  "TaskError", "Cancelled"}
  /\ trigger \in BOOLEAN /\ terminate \in BOOLEAN /\ terminated \in BOOLEAN
  /\ listening \subseteq 1 .. Servers /\ gathered \subseteq Conns
  /\ graceOver \in BOOLEAN /\ broken \in BOOLEAN
  /\ lifespan \in {"new", "run", "failing", "closing", "closingFailed",
                   "cancelling", "returned", "failed", "cancelled"}
  /\ startup \in BOOLEAN /\ shutdown \in BOOLEAN /\ supported \in BOOLEAN
  /\ queue \in Seq(Messages) /\ Len(queue) <= QueueSize
  /\ received \subseteq Messages
  /\ conns \in [Conns -> {"none", "pending", "done"} \cup Running]
  /\ at \in [Conns -> 0 .. Servers]
  /\ requests \in Nat

Init ==
  /\ main = "boot" /\ outcome = "ok" /\ trigger = FALSE
  /\ terminate = FALSE /\ terminated = FALSE
  /\ listening = {} /\ gathered = {} /\ graceOver = FALSE /\ broken = FALSE
  /\ lifespan = "new" /\ startup = FALSE /\ shutdown = FALSE /\ supported = TRUE
  /\ queue = <<>> /\ received = {}
  /\ conns = [c \in Conns |-> "none"] /\ at = [c \in Conns |-> 0] /\ requests = 0

----------------------------------------------------------------------------
(* The lifespan's application (external): it receives, completes, fails,   *)
(* raises or returns whenever it likes, once it has been asked.            *)

LifespanStarts ==
  /\ lifespan = "new" /\ lifespan' = "run"
  /\ UNCHANGED <<mainVars, startup, shutdown, supported, queue, received,
                 connVars, trigger>>

\* asgi_receive
Receive ==
  /\ lifespan = "run" /\ queue # <<>>
  /\ received' = received \cup {Head(queue)} /\ queue' = Tail(queue)
  /\ UNCHANGED <<mainVars, lifespan, startup, shutdown, supported, connVars, trigger>>

\* asgi_send: lifespan.startup.complete, lifespan.shutdown.complete
Complete(m) ==
  /\ lifespan = "run" /\ m \in received
  /\ startup' = (startup \/ m = "startup")
  /\ shutdown' = (shutdown \/ m = "shutdown")
  /\ UNCHANGED <<mainVars, lifespan, supported, queue, received, connVars, trigger>>

----------------------------------------------------------------------------
(* The connections.                                                        *)

Becomes(c, state) == conns' = [conns EXCEPT ![c] = state]

\* A server accepts a connection; its task has yet to run (and a TLS
\* handshake may come first).
Accept(c, s) ==
  /\ main # "ended" /\ s \in listening /\ conns[c] = "none"
  /\ Becomes(c, "pending") /\ at' = [at EXCEPT ![c] = s]
  /\ UNCHANGED <<mainVars, lifespanVars, requests, terminate, trigger>>

\* _server_callback: from now on the task is one of server_tasks.
Callback(c) ==
  /\ main # "ended" /\ conns[c] = "pending"
  /\ Becomes(c, "idle")
  /\ UNCHANGED <<mainVars, lifespanVars, at, requests, terminate, trigger>>

\* (mutant: the limit is never reached)
NeverTooMany(n) == FALSE

TooMany(n) == n > MaxRequests

\* A request arrives: context.mark_request()
MarkRequest ==
  /\ requests' = requests + 1
  /\ terminate' = (terminate \/ TooMany(requests + 1))

Begin(c) ==
  /\ main # "ended" /\ conns[c] = "idle" /\ requests <= MaxRequests
  /\ Becomes(c, "busy") /\ MarkRequest
  /\ UNCHANGED <<mainVars, lifespanVars, at, trigger>>

\* A request ends.  The connection is kept for another unless it has lost
\* its transport or the worker terminates.
EndRequest(c) ==
  /\ main # "ended" /\ conns[c] \in Requesting
  /\ \/ Becomes(c, "done")
     \/ conns[c] = "busy" /\ ~terminated /\ Becomes(c, "idle")
  /\ UNCHANGED <<mainVars, lifespanVars, at, requests, terminate, trigger>>

\* The client leaves: between requests, before the first, or during one,
\* whose application runs on.
ClientLeaves(c) ==
  /\ main # "ended" /\ conns[c] \in {"pending", "idle", "busy"}
  /\ Becomes(c, IF conns[c] = "busy" THEN "orphan" ELSE "done")
  /\ UNCHANGED <<mainVars, lifespanVars, at, requests, terminate, trigger>>

\* The idle task: keep_alive_timeout is over, or the worker has terminated.
IdleClose(c) ==
  /\ main # "ended" /\ conns[c] = "idle"
  /\ Becomes(c, "done")
  /\ UNCHANGED <<mainVars, lifespanVars, at, requests, terminate, trigger>>

\* A task that was cancelled ends.
CutEnds(c) ==
  /\ conns[c] = "cut"
  /\ Becomes(c, "done")
  /\ UNCHANGED <<mainVars, lifespanVars, at, requests, terminate, trigger>>

\* The signal, or the manager's shutdown event.
Trigger ==
  /\ main # "ended" /\ ~trigger /\ trigger' = TRUE
  /\ UNCHANGED <<mainVars, lifespanVars, connVars>>

ConnStep(c) ==
  \/ \E s \in 1 .. Servers : Accept(c, s)
  \/ Callback(c) \/ Begin(c) \/ EndRequest(c) \/ ClientLeaves(c)
  \/ IdleClose(c) \/ CutEnds(c)

SharedStep ==
  \/ LifespanStarts \/ Receive \/ \E m \in Messages : Complete(m)
  \/ \E c \in Conns : ConnStep(c)
  \/ Trigger
=============================================================================
