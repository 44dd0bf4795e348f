------------------------------ MODULE MCWorker ------------------------------
(***************************************************************************)
(* The worker of either backend, and what both must do.                    *)
(***************************************************************************)
EXTENDS Worker

CONSTANT WaitsForConnections   \* of AsyncioWorker

ASSUME AsyncioAssumption == WaitsForConnections \in BOOLEAN

VARIABLE backend   \* config.worker_class

Asyncio == INSTANCE AsyncioWorker
Trio == INSTANCE TrioWorker

MCVars == <<vars, backend>>

MCInit == Init /\ backend \in {"asyncio", "trio"}

MCNext ==
  \/ backend = "asyncio" /\ Asyncio!Next /\ UNCHANGED backend
  \/ backend = "trio" /\ Trio!Next /\ UNCHANGED backend

Safe == MCInit /\ [][MCNext]_MCVars

\* The event loop runs what can run, timeouts expire and tasks that are
\* cancelled end.  An asyncio.Server that waits for its connections waits for
\* its clients: they leave in the end.
MCSpec ==
  /\ Safe
  /\ WF_MCVars(LifespanStarts /\ UNCHANGED backend)
  /\ WF_MCVars(backend = "asyncio" /\ Asyncio!MainStep /\ UNCHANGED backend)
  /\ WF_MCVars(backend = "asyncio" /\ Asyncio!LifespanEnding /\ UNCHANGED backend)
  /\ WF_MCVars(backend = "trio" /\ Trio!MainStep /\ UNCHANGED backend)
  /\ WF_MCVars(backend = "trio" /\ Trio!LifespanEnding /\ UNCHANGED backend)
  /\ \A c \in Conns :
       /\ WF_MCVars((CutEnds(c) \/ Callback(c)) /\ UNCHANGED backend)
       /\ WF_MCVars(backend = "asyncio" /\ ClientLeaves(c) /\ UNCHANGED backend)

\* A worker that ends without an error leaves no request running, but those
\* that the grace period cut, and its application did not fail (run.py waits
\* for the server tasks, then for lifespan_task).
CleanEnd ==
  main = "ended" /\ outcome = "ok" =>
    /\ lifespan # "failed"
    /\ \A c \in Conns : conns[c] \in {"none", "done"} \/ (conns[c] = "cut" /\ graceOver)

\* ... and so it is on both backends, with every variable in its type.
EndsClean == TypeOK /\ CleanEnd

\* Once it is told to, or max_requests is exceeded, a worker ends: startup
\* and shutdown have their timeouts, the requests their grace period.
WorkerEnds == (trigger \/ requests > MaxRequests) ~> main = "ended"

\* The worker is a Service: requests run between the startup and the shutdown
\* of the application, and are cut off only when the grace period is over or
\* a task of the worker has failed.
Phase ==
  CASE main \in {"boot", "startup"} -> "starting"
    [] main = "serve" -> "serving"
    [] main \in {"closing", "drain", "cutting", "stopping"} -> "stopping"
    [] main \in {"shutdown", "join"} -> "told"
    [] main = "joining" -> IF backend = "asyncio" THEN "told" ELSE "ended"
    [] main \in {"cancelled", "ended"} -> "ended"

Active == IF main = "ended" THEN {} ELSE {c \in Conns : conns[c] \in Requesting}

Excuse == graceOver \/ broken

Promise == INSTANCE Service WITH phase <- Phase, active <- Active, excuse <- Excuse

ImplementsService == Promise!Spec
=============================================================================
