---------------------------- MODULE WorkerProofs ----------------------------
(***************************************************************************)
(* A worker of either backend ends cleanly and is a Service, for any       *)
(* number of connections, servers and requests.                            *)
(*                                                                         *)
(* asyncio: the servers are closed one after another, so the transports    *)
(* that are left belong to those not closed yet; when the tasks are        *)
(* gathered no other can begin, and what is left of them when the          *)
(* application is told to shut down was cancelled.  trio: the nursery that *)
(* holds the servers and the tasks is only left when it is empty.          *)
(***************************************************************************)
EXTENDS MCWorker, TLAPS

MainTypes ==
  /\ main \in {"boot", "startup", "serve", "closing", "drain", "cutting",
               "stopping", "shutdown", "join", "joining", "cancelled", "ended"}
  /\ outcome \in {"ok", "LifespanFailure", "LifespanTimeout", "ClosedResource",
                  "TaskError", "Cancelled"}
  /\ terminated \in BOOLEAN
  /\ listening \subseteq 1 .. Servers /\ gathered \subseteq Conns
  /\ graceOver \in BOOLEAN /\ broken \in BOOLEAN

LifespanTypes ==
  /\ lifespan \in {"new", "run", "failing", "closing", "closingFailed",
                   "cancelling", "returned", "failed", "cancelled"}
  /\ startup \in BOOLEAN /\ shutdown \in BOOLEAN /\ supported \in BOOLEAN
  /\ queue \in Seq(Messages) /\ Len(queue) <= QueueSize
  /\ received \subseteq Messages

ConnTypes ==
  /\ conns \in [Conns -> {"none", "pending", "done"} \cup Running]
  /\ at \in [Conns -> 0 .. Servers]
  /\ requests \in Nat /\ terminate \in BOOLEAN

Types == MainTypes /\ LifespanTypes /\ ConnTypes /\ trigger \in BOOLEAN

LEMMA TypesOK == Types <=> TypeOK
BY DEF Types, MainTypes, LifespanTypes, ConnTypes, TypeOK

\* Nothing runs but what the grace period has cut.
Over == \A c \in Conns : conns[c] \in {"none", "done"} \/ (conns[c] = "cut" /\ graceOver)

\* Before the startup is over nothing is accepted.
NotYet == main \in {"boot", "startup"} => listening = {} /\ \A c \in Conns : conns[c] = "none"

AsyncioInv ==
  /\ NotYet
  /\ \A c \in Conns : Asyncio!HasTransport(c) => at[c] \in 1 .. Servers
  /\ main = "serve" => listening = 1 .. Servers
  /\ main = "closing" =>
       \E k \in 1 .. Servers :
         /\ listening = k + 1 .. Servers
         /\ \A c \in Conns : Asyncio!HasTransport(c) => k <= at[c]
  /\ main \in {"drain", "cutting", "stopping", "shutdown", "join", "joining"} =>
       listening = {} /\ \A c \in Conns : ~Asyncio!HasTransport(c)
  /\ main = "drain" => ServerTasks \subseteq gathered
  /\ main = "cutting" => Over /\ graceOver
  /\ main \in {"stopping", "shutdown", "join", "joining"} => broken \/ Over
  /\ broken => outcome # "ok"
  /\ main = "ended" /\ outcome = "ok" => Over /\ lifespan = "returned"
  /\ main # "cancelled"

TrioInv ==
  /\ NotYet
  /\ main # "serve" => listening = {}
  /\ main \notin {"serve", "drain", "cancelled"} => Trio!Tasks = {}
  /\ main = "cancelled" => broken /\ \A c \in Conns : conns[c] \in {"none", "done", "cut"}
  /\ lifespan = "failed" \/ main = "cancelled" => outcome # "ok"
  /\ main = "ended" => lifespan \in {"returned", "failed", "cancelled"}

Inv ==
  /\ Types
  /\ \/ backend = "asyncio" /\ AsyncioInv
     \/ backend = "trio" /\ TrioInv

LEMMA InitInv == MCInit => Inv
<1> SUFFICES ASSUME MCInit PROVE Inv
  OBVIOUS
<1>1. MainTypes
  BY DEF MCInit, Init, MainTypes
<1>2. LifespanTypes
  <2>1. /\ lifespan = "new" /\ startup = FALSE /\ shutdown = FALSE /\ supported = TRUE
        /\ queue = <<>> /\ received = {}
    BY DEF MCInit, Init
  <2>2. queue \in Seq(Messages) /\ Len(queue) = 0
    BY <2>1
  <2>3. Len(queue) <= QueueSize /\ received \subseteq Messages
    BY <2>1, <2>2, WorkerAssumption
  <2> QED BY <2>1, <2>2, <2>3 DEF LifespanTypes
<1>3. ConnTypes /\ trigger \in BOOLEAN
  <2>1. conns \in [Conns -> {"none", "pending", "done"} \cup Running]
    BY DEF MCInit, Init
  <2>2. at \in [Conns -> 0 .. Servers]
    BY WorkerAssumption DEF MCInit, Init
  <2> QED BY <2>1, <2>2 DEF MCInit, Init, ConnTypes
<1>4. AsyncioInv
  BY DEF MCInit, Init, AsyncioInv, NotYet, Asyncio!HasTransport
<1>5. TrioInv
  <2>1. /\ main = "boot" /\ listening = {} /\ lifespan = "new"
        /\ \A c \in Conns : conns[c] = "none"
    BY DEF MCInit, Init
  <2>2. Trio!Tasks = {}
    BY <2>1 DEF Trio!Tasks, Trio!Running
  <2> QED BY <2>1, <2>2 DEF TrioInv, NotYet
<1> QED BY <1>1, <1>2, <1>3, <1>4, <1>5 DEF MCInit, Inv, Types

(***************************************************************************)
(* What both backends do.                                                  *)
(***************************************************************************)

\* The lifespan's application: only the lifespan's variables change.
LEMMA SharedLifespan ==
  ASSUME Types, LifespanStarts \/ Receive \/ (\E m \in Messages : Complete(m))
  PROVE  /\ Types' /\ UNCHANGED <<mainVars, connVars>>
         /\ lifespan' # lifespan => lifespan' = "run" /\ lifespan = "new"
<1>1. UNCHANGED <<mainVars, connVars, trigger>>
  BY DEF LifespanStarts, Receive, Complete
<1>2. LifespanTypes'
  <2>1. CASE LifespanStarts
    BY <2>1 DEF LifespanStarts, Types, LifespanTypes
  <2>2. CASE Receive
    <3>1. /\ Tail(queue) \in Seq(Messages) /\ Len(Tail(queue)) <= QueueSize
          /\ Head(queue) \in Messages
      BY <2>2, WorkerAssumption DEF Receive, Types, LifespanTypes
    <3> QED BY <2>2, <3>1 DEF Receive, Types, LifespanTypes
  <2>3. ASSUME NEW m \in Messages, Complete(m) PROVE LifespanTypes'
    BY <2>3 DEF Complete, Types, LifespanTypes
  <2> QED BY <2>1, <2>2, <2>3
<1>3. lifespan' # lifespan => lifespan' = "run" /\ lifespan = "new"
  BY DEF LifespanStarts, Receive, Complete
<1> QED BY <1>1, <1>2, <1>3 DEF Types, MainTypes, ConnTypes, mainVars, connVars

\* How the task of a connection moves on.
Moves(c) ==
  \/ conns[c] = "none" /\ conns'[c] = "pending" /\ at'[c] \in listening
  \/ conns[c] = "pending" /\ conns'[c] \in {"idle", "done"}
  \/ conns[c] = "idle" /\ conns'[c] \in {"busy", "done"}
  \/ conns[c] = "busy" /\ conns'[c] \in {"orphan", "done"}
  \/ conns[c] = "busy" /\ conns'[c] = "idle"
  \/ conns[c] \in {"orphan", "cut"} /\ conns'[c] = "done"

LEMMA SharedConn ==
  ASSUME Types, NEW c \in Conns, ConnStep(c)
  PROVE  /\ Types' /\ UNCHANGED <<mainVars, lifespanVars>>
         /\ main = "ended" => conns[c] = "cut"
         /\ Moves(c)
         /\ \A d \in Conns \ {c} : conns'[d] = conns[d] /\ at'[d] = at[d]
         /\ conns[c] # "none" => at'[c] = at[c]
<1> USE WorkerAssumption
<1>1. UNCHANGED <<mainVars, lifespanVars, trigger>>
  BY DEF ConnStep, Accept, Callback, Begin, EndRequest, ClientLeaves, IdleClose, CutEnds
<1>2. ASSUME NEW s \in 1 .. Servers, Accept(c, s)
      PROVE  /\ ConnTypes' /\ Moves(c) /\ main # "ended"
             /\ \A d \in Conns \ {c} : conns'[d] = conns[d] /\ at'[d] = at[d]
             /\ conns[c] # "none" => at'[c] = at[c]
  BY <1>2 DEF Accept, Becomes, Types, ConnTypes, Moves
<1>3. ASSUME Callback(c) \/ EndRequest(c) \/ ClientLeaves(c) \/ IdleClose(c) \/ CutEnds(c)
      PROVE  /\ ConnTypes' /\ Moves(c) /\ at' = at /\ (main = "ended" => conns[c] = "cut")
             /\ \A d \in Conns \ {c} : conns'[d] = conns[d]
  BY <1>3 DEF Callback, EndRequest, ClientLeaves, IdleClose, CutEnds, Becomes, Types,
       ConnTypes, Moves, Running, Requesting
<1>4. ASSUME Begin(c)
      PROVE  /\ ConnTypes' /\ Moves(c) /\ at' = at /\ main # "ended"
             /\ \A d \in Conns \ {c} : conns'[d] = conns[d]
  BY <1>4 DEF Begin, MarkRequest, TooMany, Becomes, Types, ConnTypes, Moves, Running
<1>5. MainTypes' /\ LifespanTypes' /\ trigger' \in BOOLEAN
  BY <1>1 DEF Types, MainTypes, LifespanTypes, mainVars, lifespanVars
<1> QED BY <1>1, <1>2, <1>3, <1>4, <1>5 DEF ConnStep, Types

\* The names that both backends share mean the same.
LEMMA AsyncioShares ==
  /\ Asyncio!SharedStep <=> SharedStep
  /\ Asyncio!ServerTasks = ServerTasks /\ Asyncio!Running = Running
  /\ Asyncio!Requesting = Requesting
BY DEF Asyncio!SharedStep, SharedStep, Asyncio!LifespanStarts, LifespanStarts,
   Asyncio!Receive, Receive, Asyncio!Complete, Complete, Asyncio!ConnStep, ConnStep,
   Asyncio!Accept, Accept, Asyncio!Callback, Callback, Asyncio!Begin, Begin,
   Asyncio!EndRequest, EndRequest, Asyncio!ClientLeaves, ClientLeaves,
   Asyncio!IdleClose, IdleClose, Asyncio!CutEnds, CutEnds, Asyncio!Trigger, Trigger,
   Asyncio!Becomes, Becomes, Asyncio!MarkRequest, MarkRequest, Asyncio!TooMany, TooMany,
   Asyncio!Messages, Messages, Asyncio!Requesting, Requesting, Asyncio!Running, Running,
   Asyncio!ServerTasks, ServerTasks, Asyncio!mainVars, mainVars,
   Asyncio!lifespanVars, lifespanVars, Asyncio!connVars, connVars

LEMMA TrioShares ==
  /\ Trio!SharedStep <=> SharedStep
  /\ Trio!Running = Running /\ Trio!Requesting = Requesting
BY DEF Trio!SharedStep, SharedStep, Trio!LifespanStarts, LifespanStarts,
   Trio!Receive, Receive, Trio!Complete, Complete, Trio!ConnStep, ConnStep,
   Trio!Accept, Accept, Trio!Callback, Callback, Trio!Begin, Begin,
   Trio!EndRequest, EndRequest, Trio!ClientLeaves, ClientLeaves,
   Trio!IdleClose, IdleClose, Trio!CutEnds, CutEnds, Trio!Trigger, Trigger,
   Trio!Becomes, Becomes, Trio!MarkRequest, MarkRequest, Trio!TooMany, TooMany,
   Trio!Messages, Messages, Trio!Requesting, Requesting, Trio!Running, Running,
   Trio!mainVars, mainVars, Trio!lifespanVars, lifespanVars, Trio!connVars, connVars

(***************************************************************************)
(* The step of the Service that a step of the worker is.                   *)
(***************************************************************************)

Promised == [Promise!Next]_(Promise!vars)

Requests == {c \in Conns : conns[c] \in Requesting}

\* A step that leaves the requests and the place alone is a stutter.
LEMMA Stutter ==
  ASSUME UNCHANGED <<main, backend, graceOver, broken>>,
         \A c \in Conns : conns'[c] \in Requesting <=> conns[c] \in Requesting
  PROVE  Promised
<1>1. Requests' = Requests
  BY DEF Requests
<1>2. UNCHANGED <<Phase, Active, Excuse>>
  BY <1>1 DEF Phase, Active, Excuse, Requests
<1> QED BY <1>2 DEF Promised, Promise!vars

\* A connection that moves on begins its request, ends it, or does not matter.
LEMMA ConnPromised ==
  ASSUME NEW c \in Conns, Moves(c), UNCHANGED <<main, backend, graceOver, broken>>,
         \A d \in Conns \ {c} : conns'[d] = conns[d],
         main = "ended" => conns[c] = "cut",
         conns[c] = "idle" => main \in {"serve", "closing", "drain"}
  PROVE  Promised
<1>1. UNCHANGED <<Phase, Excuse>>
  BY DEF Phase, Excuse
<1>2. CASE conns[c] = "idle" /\ conns'[c] = "busy"
  <2>1. Requests' = Requests \cup {c}
    BY <1>2 DEF Requests, Requesting
  <2>2. main \in {"serve", "closing", "drain"}
    BY <1>2
  <2>3. Active = Requests /\ Active' = Requests' /\ Phase \in {"serving", "stopping"}
    BY <2>2 DEF Active, Requests, Phase
  <2>4. Promise!Begin(c)
    BY <1>1, <2>1, <2>3 DEF Promise!Begin
  <2> QED BY <2>4 DEF Promised, Promise!Next
<1>3. CASE conns[c] \in Requesting /\ conns'[c] \notin Requesting
  <2>1. Requests' = Requests \ {c} /\ c \in Requests
    BY <1>3 DEF Requests
  <2>2. main # "ended"
    BY <1>3 DEF Requesting
  <2>3. Active = Requests /\ Active' = Requests'
    BY <2>2 DEF Active, Requests
  <2>4. Promise!End(c)
    BY <1>1, <2>1, <2>3 DEF Promise!End
  <2> QED BY <2>4 DEF Promised, Promise!Next
<1>4. CASE conns[c] \in Requesting <=> conns'[c] \in Requesting
  <2>1. \A d \in Conns : conns'[d] \in Requesting <=> conns[d] \in Requesting
    BY <1>4
  <2> QED BY <2>1, Stutter
<1> QED BY <1>2, <1>3, <1>4 DEF Moves, Requesting

(***************************************************************************)
(* asyncio.                                                                *)
(***************************************************************************)

\* No other component moves but worker_serve.
LEMMA AsyncioLifespan ==
  ASSUME Types, AsyncioInv, Types', UNCHANGED <<mainVars, connVars, backend>>,
         lifespan = "returned" => lifespan' = "returned"
  PROVE  AsyncioInv' /\ Promised
<1>1. AsyncioInv'
  BY DEF AsyncioInv, NotYet, Over, Asyncio!HasTransport, ServerTasks, mainVars, connVars
<1>2. Promised
  BY Stutter DEF mainVars, connVars
<1> QED BY <1>1, <1>2

LEMMA AsyncioConn ==
  ASSUME Types, AsyncioInv, backend = "asyncio", UNCHANGED <<mainVars, lifespanVars, backend>>,
         Types', NEW c \in Conns, Moves(c), main = "ended" => conns[c] = "cut",
         \A d \in Conns \ {c} : conns'[d] = conns[d] /\ at'[d] = at[d],
         conns[c] # "none" => at'[c] = at[c]
  PROVE  AsyncioInv' /\ Promised
<1>1. /\ UNCHANGED <<main, outcome, listening, gathered, graceOver, broken, lifespan>>
      /\ listening \subseteq 1 .. Servers
  BY DEF mainVars, lifespanVars, Types, MainTypes
<1>2. conns[c] = "none" => main \in {"serve", "closing", "cancelled", "ended"}
  BY DEF AsyncioInv, NotYet, Moves, Types, MainTypes
<1>3. Asyncio!HasTransport(c)' =>
        \/ Asyncio!HasTransport(c) /\ at'[c] = at[c]
        \/ conns[c] = "none" /\ at'[c] \in listening
  BY DEF Moves, Asyncio!HasTransport
<1>4. \A d \in Conns \ {c} : Asyncio!HasTransport(d)' <=> Asyncio!HasTransport(d)
  BY DEF Asyncio!HasTransport
<1>5. NotYet'
  BY <1>1 DEF AsyncioInv, NotYet, Moves
<1>6. \A d \in Conns : Asyncio!HasTransport(d)' => at'[d] \in 1 .. Servers
  BY <1>1, <1>3, <1>4 DEF AsyncioInv
<1>7. ASSUME main = "closing"
      PROVE  \E k \in 1 .. Servers :
               /\ listening' = k + 1 .. Servers
               /\ \A d \in Conns : Asyncio!HasTransport(d)' => k <= at'[d]
  <2>1. PICK k \in 1 .. Servers :
               /\ listening = k + 1 .. Servers
               /\ \A d \in Conns : Asyncio!HasTransport(d) => k <= at[d]
    BY <1>7 DEF AsyncioInv
  <2>2. \A d \in Conns : Asyncio!HasTransport(d)' => k <= at'[d]
    BY <2>1, <1>3, <1>4, WorkerAssumption
  <2> QED BY <2>1, <2>2, <1>1
<1>8. main \in {"drain", "cutting", "stopping", "shutdown", "join", "joining"} =>
       listening' = {} /\ \A d \in Conns : ~Asyncio!HasTransport(d)'
  BY <1>1, <1>3, <1>4 DEF AsyncioInv
<1>9. main = "drain" => ServerTasks' \subseteq gathered
  BY <1>1, <1>8 DEF AsyncioInv, ServerTasks, Asyncio!HasTransport, Moves, Running
<1>10. Over /\ conns[c] # "none" => Over'
  BY <1>1 DEF Over, Moves
<1>11. main = "ended" /\ outcome = "ok" => Over' /\ lifespan = "returned"
  BY <1>10 DEF AsyncioInv
<1>12. AsyncioInv'
  BY <1>1, <1>2, <1>5, <1>6, <1>7, <1>8, <1>9, <1>10, <1>11 DEF AsyncioInv
<1>13. conns[c] = "idle" => main \in {"serve", "closing"}
  BY DEF AsyncioInv, NotYet, Asyncio!HasTransport, Types, MainTypes
<1>14. Promised
  BY <1>1, <1>13, ConnPromised
<1> QED BY <1>12, <1>14

\* The end of the lifespan's task.
LEMMA AsyncioEnding ==
  ASSUME Types, AsyncioInv, UNCHANGED backend,
         \/ \E m \in Messages : Asyncio!Fail(m)
         \/ Asyncio!LifespanFails \/ Asyncio!LifespanReturns
         \/ Asyncio!LifespanRaises \/ Asyncio!LifespanCancelled
  PROVE  Types' /\ AsyncioInv' /\ Promised
<1> USE DEF Asyncio!Fail, Asyncio!LifespanFails, Asyncio!LifespanReturns,
        Asyncio!LifespanRaises, Asyncio!LifespanCancelled, Asyncio!LifespanEnds,
        Asyncio!mainVars, Asyncio!connVars
<1>1. UNCHANGED <<mainVars, connVars, backend, trigger>>
  BY DEF mainVars, connVars
<1>2. LifespanTypes'
  BY DEF Types, LifespanTypes
<1>3. lifespan = "returned" => lifespan' = "returned"
  OBVIOUS
<1>4. Types'
  BY <1>1, <1>2 DEF Types, MainTypes, ConnTypes, mainVars, connVars
<1> QED BY <1>1, <1>3, <1>4, AsyncioLifespan

\* The lifespan's variables in a step of worker_serve.
LEMMA AsyncioPut ==
  ASSUME Types, NEW m \in Messages, Asyncio!Put(m)
  PROVE  LifespanTypes' /\ lifespan' = lifespan
<1>1. Append(queue, m) \in Seq(Messages) /\ Len(Append(queue, m)) = Len(queue) + 1
  BY DEF Types, LifespanTypes
<1>2. Len(queue) \in Nat /\ Len(queue) < QueueSize
  BY DEF Types, LifespanTypes, Asyncio!Put
<1>3. Len(queue) + 1 <= QueueSize
  BY <1>2, WorkerAssumption
<1> QED BY <1>1, <1>3 DEF Types, LifespanTypes, Asyncio!Put

\* From one place to another, when what the places say does not change.
LEMMA AsyncioGoto ==
  ASSUME Types, AsyncioInv, backend = "asyncio", UNCHANGED <<connVars, trigger, backend>>,
         LifespanTypes', NEW place, Asyncio!Goto(place),
         \/ main = "boot" /\ place = "startup"
         \/ main = "drain" /\ place = "stopping" /\ Asyncio!AllDone
         \/ main = "cutting" /\ place = "stopping"
         \/ main = "stopping" /\ place \in {"shutdown", "join"}
         \/ main = "shutdown" /\ place = "join"
         \/ main = "join" /\ place = "joining"
  PROVE  Types' /\ AsyncioInv' /\ Promised
<1>1. /\ main' = place /\ UNCHANGED <<outcome, terminated, listening, gathered, graceOver, broken>>
      /\ UNCHANGED <<conns, at>>
  BY DEF Asyncio!Goto, connVars
<1>2. Types'
  BY <1>1 DEF Types, MainTypes, ConnTypes, connVars
<1>3. main = "drain" => Over
  <2> SUFFICES ASSUME main = "drain", NEW c \in Conns PROVE conns[c] \in {"none", "done"}
    BY DEF Over
  <2>1. Asyncio!AllDone /\ ServerTasks \subseteq gathered /\ ~Asyncio!HasTransport(c)
    BY DEF AsyncioInv
  <2>2. c \notin ServerTasks
    BY <2>1, AsyncioShares DEF Asyncio!AllDone
  <2> QED BY <2>1, <2>2 DEF ServerTasks, Running, Asyncio!HasTransport, Types, ConnTypes
<1>4. main \in {"stopping", "shutdown", "join"} => broken \/ Over
  BY DEF AsyncioInv
<1>5. AsyncioInv'
  BY <1>1, <1>3, <1>4 DEF AsyncioInv, NotYet, Over, Asyncio!HasTransport
<1>6. Active' = Active /\ Excuse' = Excuse
  BY <1>1 DEF Active, Excuse
<1>7. CASE main = "stopping"
  <2>1. Phase = "stopping" /\ Phase' = "told"
    BY <1>1, <1>7 DEF Phase
  <2>2. Active = {} \/ Excuse
    BY <1>4, <1>7 DEF Active, Excuse, Over, Requesting
  <2>3. Promise!Tell
    BY <2>1, <2>2, <1>6 DEF Promise!Tell
  <2> QED BY <1>2, <1>5, <2>3 DEF Promised, Promise!Next
<1>8. CASE main # "stopping"
  <2>1. Phase' = Phase
    BY <1>1, <1>8 DEF Phase
  <2> QED BY <1>2, <1>5, <1>6, <2>1 DEF Promised, Promise!vars
<1> QED BY <1>7, <1>8

\* An exception leaves worker_serve, or it ends.
LEMMA AsyncioRaise ==
  ASSUME Types, AsyncioInv, backend = "asyncio",
         UNCHANGED <<lifespanVars, connVars, trigger, backend>>, NEW error, Asyncio!Raise(error),
         error \in {"ok", "LifespanFailure", "LifespanTimeout", "TaskError", "Cancelled",
                   "ClosedResource"},
         main \in {"startup", "shutdown", "joining"},
         error = "ok" => main = "joining" /\ outcome = "ok" /\ lifespan = "returned"
  PROVE  Types' /\ AsyncioInv' /\ Promised
<1>1. /\ main' = "ended" /\ outcome' = error /\ listening' = {}
      /\ UNCHANGED <<terminated, gathered, graceOver, broken>>
      /\ UNCHANGED <<conns, at, lifespan>>
  BY DEF Asyncio!Raise, connVars, lifespanVars
<1>2. Types'
  BY <1>1 DEF Types, MainTypes, ConnTypes, LifespanTypes, connVars, lifespanVars
<1>3. broken \/ Over
  BY DEF AsyncioInv, NotYet, Over
<1>4. broken => error # "ok"
  BY DEF AsyncioInv
<1>5. AsyncioInv'
  BY <1>1, <1>3, <1>4 DEF AsyncioInv, NotYet, Over, Asyncio!HasTransport
<1>6. Active' = {} /\ Excuse' = Excuse /\ Phase' = "ended"
  BY <1>1 DEF Active, Excuse, Phase
<1>7. Active = {} \/ Excuse
  BY <1>3 DEF Active, Excuse, Over, Requesting
<1>8. Promise!Close
  BY <1>6, <1>7 DEF Promise!Close
<1> QED BY <1>2, <1>5, <1>8 DEF Promised, Promise!Next

\* The startup is over.
LEMMA AsyncioServes ==
  ASSUME Types, AsyncioInv, backend = "asyncio", UNCHANGED backend, Asyncio!StartupDone
  PROVE  Types' /\ AsyncioInv' /\ Promised
<1>1. UNCHANGED <<lifespanVars, connVars, trigger>>
  BY DEF Asyncio!StartupDone, Asyncio!lifespanVars, Asyncio!connVars, lifespanVars, connVars
<1>2. CASE lifespan = "failed"
  BY <1>1, <1>2, AsyncioRaise DEF Asyncio!StartupDone
<1>3. CASE lifespan # "failed"
  <2>1. /\ main = "startup" /\ main' = "serve" /\ listening' = 1 .. Servers
        /\ UNCHANGED <<outcome, terminated, gathered, graceOver, broken, conns, at, lifespan>>
    BY <1>1, <1>3 DEF Asyncio!StartupDone, lifespanVars, connVars
  <2>2. Types'
    BY <1>1, <2>1 DEF Types, MainTypes, ConnTypes, LifespanTypes, connVars, lifespanVars
  <2>3. AsyncioInv'
    BY <2>1 DEF AsyncioInv, NotYet, Asyncio!HasTransport
  <2>4. Phase = "starting" /\ Phase' = "serving" /\ UNCHANGED <<Active, Excuse>>
    BY <2>1 DEF Phase, Active, Excuse
  <2>5. Promise!Open
    BY <2>4 DEF Promise!Open
  <2> QED BY <2>2, <2>3, <2>5 DEF Promised, Promise!Next
<1> QED BY <1>2, <1>3

LEMMA AsyncioShutdown ==
  ASSUME Types, AsyncioInv, backend = "asyncio", UNCHANGED backend, Asyncio!ShutdownBegins
  PROVE  Types' /\ AsyncioInv' /\ Promised
<1>1. /\ UNCHANGED <<lifespanVars, connVars, trigger>>
      /\ main = "serve" /\ main' = "closing" /\ terminated' = TRUE
      /\ listening' = listening \ {1}
      /\ UNCHANGED <<outcome, gathered, graceOver, broken>>
  BY DEF Asyncio!ShutdownBegins, Asyncio!lifespanVars, Asyncio!connVars, lifespanVars, connVars
<1>2. Types'
  BY <1>1 DEF Types, MainTypes, ConnTypes, LifespanTypes, connVars, lifespanVars
<1>3. UNCHANGED <<conns, at, lifespan>>
  BY <1>1 DEF connVars, lifespanVars
<1>4. listening' = 1 + 1 .. Servers /\ 1 \in 1 .. Servers
  BY <1>1, WorkerAssumption DEF AsyncioInv
<1>5. \A c \in Conns : Asyncio!HasTransport(c)' => at'[c] \in 1 .. Servers /\ 1 <= at'[c]
  BY <1>3, WorkerAssumption DEF AsyncioInv, Asyncio!HasTransport
<1>6. AsyncioInv'
  BY <1>1, <1>3, <1>4, <1>5 DEF AsyncioInv, NotYet
<1>7. Promise!Stop
  BY <1>1, <1>3 DEF Promise!Stop, Phase, Active, Excuse
<1> QED BY <1>2, <1>6, <1>7 DEF Promised, Promise!Next

\* The server that is being closed is the one before those that listen.
LEMMA ClosingIs ==
  ASSUME NEW k \in 1 .. Servers, listening = k + 1 .. Servers
  PROVE  Asyncio!Closing = k
<1>1. \A s \in 1 .. Servers : listening = s + 1 .. Servers => s = k
  <2> SUFFICES ASSUME NEW s \in 1 .. Servers, s + 1 .. Servers = k + 1 .. Servers
               PROVE  s = k
    OBVIOUS
  <2>1. s < k => s + 1 \in s + 1 .. Servers /\ s + 1 \notin k + 1 .. Servers
    BY WorkerAssumption
  <2>2. k < s => k + 1 \in k + 1 .. Servers /\ k + 1 \notin s + 1 .. Servers
    BY WorkerAssumption
  <2> QED BY <2>1, <2>2, WorkerAssumption
<1> QED BY <1>1 DEF Asyncio!Closing

\* One server less.  After the last no connection has a transport, and every
\* task that is left is gathered.
LEMMA AsyncioCloses ==
  ASSUME Types, AsyncioInv, backend = "asyncio", UNCHANGED backend,
         WaitsForConnections, Asyncio!WaitClosed
  PROVE  Types' /\ AsyncioInv' /\ Promised
<1>1. PICK k \in 1 .. Servers :
        /\ listening = k + 1 .. Servers
        /\ \A c \in Conns : Asyncio!HasTransport(c) => k <= at[c]
  BY DEF Asyncio!WaitClosed, AsyncioInv
<1>2. Asyncio!Closing = k
  BY <1>1, ClosingIs
<1>3. /\ main = "closing" /\ listening' = listening \ {k + 1}
      /\ \A c \in Conns : at[c] = k => ~Asyncio!HasTransport(c)
      /\ k < Servers => UNCHANGED <<main, gathered>>
      /\ ~(k < Servers) => main' = "drain" /\ gathered' = ServerTasks
      /\ UNCHANGED <<outcome, terminated, graceOver, broken>>
      /\ UNCHANGED <<lifespanVars, connVars, trigger>>
  BY <1>2, AsyncioShares DEF Asyncio!WaitClosed, Asyncio!lifespanVars, Asyncio!connVars,
     lifespanVars, connVars
<1>4. UNCHANGED <<conns, at, lifespan>>
  BY <1>3 DEF connVars, lifespanVars
<1>5. Types'
  <2>1. listening' \subseteq 1 .. Servers /\ gathered' \subseteq Conns
    BY <1>3 DEF Types, MainTypes, ServerTasks
  <2> QED BY <1>3, <2>1 DEF Types, MainTypes, ConnTypes, LifespanTypes, connVars, lifespanVars
<1>6. \A c \in Conns : Asyncio!HasTransport(c) => k + 1 <= at[c] /\ at[c] \in 1 .. Servers
  BY <1>1, <1>3, WorkerAssumption DEF AsyncioInv
<1>7. CASE k < Servers
  <2>1. listening' = (k + 1) + 1 .. Servers /\ k + 1 \in 1 .. Servers
    BY <1>1, <1>3, <1>7, WorkerAssumption
  <2>2. \A c \in Conns : Asyncio!HasTransport(c)' => k + 1 <= at'[c]
    BY <1>4, <1>6 DEF Asyncio!HasTransport
  <2>3. main' = "closing"
    BY <1>3, <1>7
  <2>4. AsyncioInv'
    BY <1>3, <1>4, <2>1, <2>2, <2>3 DEF AsyncioInv, NotYet, Asyncio!HasTransport
  <2>5. Promised
    BY <1>3, <1>4, <1>7, Stutter
  <2> QED BY <1>5, <2>4, <2>5
<1>8. CASE ~(k < Servers)
  <2>1. listening' = {}
    BY <1>1, <1>3, <1>8, WorkerAssumption
  <2>2. \A c \in Conns : ~Asyncio!HasTransport(c)
    BY <1>6, <1>8, WorkerAssumption
  <2>3. main' = "drain" /\ gathered' = ServerTasks /\ ServerTasks' = ServerTasks
    BY <1>3, <1>4, <1>8 DEF ServerTasks
  <2>4. AsyncioInv'
    BY <1>3, <1>4, <2>1, <2>2, <2>3 DEF AsyncioInv, NotYet, Asyncio!HasTransport
  <2>5. UNCHANGED <<Phase, Active, Excuse>>
    BY <1>3, <1>4, <2>3 DEF Phase, Active, Excuse
  <2> QED BY <1>5, <2>4, <2>5 DEF Promised, Promise!vars
<1> QED BY <1>7, <1>8

\* The grace period is over: every task that is left is cancelled.
LEMMA AsyncioGrace ==
  ASSUME Types, AsyncioInv, backend = "asyncio", UNCHANGED backend, Asyncio!GraceExpires
  PROVE  Types' /\ AsyncioInv' /\ Promised
<1>1. /\ main = "drain" /\ main' = "cutting" /\ graceOver' = TRUE
      /\ gathered' = gathered \cap ServerTasks
      /\ conns' = [c \in Conns |-> IF c \in gathered /\ conns[c] \in Running THEN "cut"
                                   ELSE conns[c]]
      /\ UNCHANGED <<outcome, terminated, listening, broken, lifespanVars, at, requests,
                     terminate, trigger>>
  BY AsyncioShares DEF Asyncio!GraceExpires, Asyncio!Cut, Asyncio!lifespanVars, lifespanVars
<1>2. UNCHANGED lifespan
  BY <1>1 DEF lifespanVars
<1>3. \A c \in Conns : conns'[c] \in {"none", "done", "cut"}
  <2> SUFFICES ASSUME NEW c \in Conns PROVE conns'[c] \in {"none", "done", "cut"}
    OBVIOUS
  <2>1. ServerTasks \subseteq gathered /\ ~Asyncio!HasTransport(c)
    BY <1>1 DEF AsyncioInv
  <2>2. conns[c] \in Running => c \in gathered
    BY <2>1 DEF ServerTasks
  <2> QED BY <1>1, <2>1, <2>2 DEF Types, ConnTypes, Running, Asyncio!HasTransport
<1>4. Types'
  <2>1. conns' \in [Conns -> {"none", "pending", "done"} \cup Running]
    BY <1>1 DEF Types, ConnTypes, Running
  <2> QED BY <1>1, <2>1 DEF Types, MainTypes, ConnTypes, LifespanTypes, lifespanVars
<1>5. AsyncioInv'
  BY <1>1, <1>2, <1>3 DEF AsyncioInv, NotYet, Over, Asyncio!HasTransport
<1>6. Active' = Active \ Active /\ Excuse' = TRUE /\ Phase' = Phase
  BY <1>1, <1>3 DEF Active, Excuse, Phase, Requesting
<1>7. Active \in SUBSET Conns /\ Promise!CutOff(Active)
  BY <1>6 DEF Promise!CutOff, Active
<1> QED BY <1>4, <1>5, <1>7 DEF Promised, Promise!Next

\* The task of a connection raises, which ends the wait for the others.
LEMMA AsyncioTaskFails ==
  ASSUME Types, AsyncioInv, backend = "asyncio", UNCHANGED backend,
         NEW c \in Conns, Asyncio!TaskFails(c)
  PROVE  Types' /\ AsyncioInv' /\ Promised
<1>1. /\ main # "ended" /\ conns[c] \in Requesting
      /\ conns' = [conns EXCEPT ![c] = "done"]
      /\ UNCHANGED <<lifespanVars, at, requests, terminate, trigger>>
  BY AsyncioShares DEF Asyncio!TaskFails, Asyncio!Becomes, Asyncio!lifespanVars, lifespanVars
<1>2. /\ conns'[c] = "done" /\ \A d \in Conns \ {c} : conns'[d] = conns[d]
      /\ ConnTypes' /\ LifespanTypes' /\ trigger' \in BOOLEAN
  BY <1>1 DEF Types, ConnTypes, LifespanTypes, lifespanVars
<1>3. CASE main = "drain" /\ c \in gathered
  <2>1. /\ main' = "stopping" /\ outcome' = "TaskError" /\ broken' = TRUE
        /\ UNCHANGED <<terminated, listening, gathered, graceOver>>
    BY <1>3 DEF Asyncio!TaskFails
  <2>2. Types'
    BY <1>2, <2>1 DEF Types, MainTypes
  <2>3. AsyncioInv'
    <3>1. \A d \in Conns : Asyncio!HasTransport(d)' => Asyncio!HasTransport(d)
      BY <1>2 DEF Asyncio!HasTransport
    <3> QED BY <1>1, <1>3, <2>1, <3>1 DEF AsyncioInv, NotYet
  <2>4. Requests' = Requests \ {c} /\ Active = Requests /\ Active' = Requests'
    BY <1>1, <1>2, <2>1 DEF Requests, Active, Requesting
  <2>5. Excuse' = TRUE /\ Phase' = Phase
    BY <1>3, <2>1 DEF Excuse, Phase
  <2>6. {c} \in SUBSET Conns /\ Promise!CutOff({c})
    BY <2>4, <2>5 DEF Promise!CutOff
  <2> QED BY <2>2, <2>3, <2>6 DEF Promised, Promise!Next
<1>4. CASE ~(main = "drain" /\ c \in gathered)
  <2>1. UNCHANGED mainVars
    BY <1>4 DEF Asyncio!TaskFails, Asyncio!mainVars, mainVars
  <2>2. Types'
    BY <1>2, <2>1 DEF Types, MainTypes, mainVars
  <2>3. Moves(c) /\ conns[c] # "idle"
    BY <1>1, <1>2 DEF Moves, Requesting
  <2> QED BY <1>1, <1>2, <2>1, <2>2, <2>3, AsyncioConn
<1> QED BY <1>3, <1>4

LEMMA AsyncioMain ==
  ASSUME Types, AsyncioInv, backend = "asyncio", UNCHANGED backend,
         WaitsForConnections, Asyncio!MainStep
  PROVE  Types' /\ AsyncioInv' /\ Promised
<1> USE DEF Asyncio!connVars, Asyncio!lifespanVars
<1>1. CASE Asyncio!AskStartup
  <2>1. LifespanTypes'
    BY <1>1, AsyncioPut DEF Asyncio!AskStartup, Types, LifespanTypes, Messages
  <2> QED BY <1>1, <2>1, AsyncioGoto DEF Asyncio!AskStartup, connVars
<1>2. CASE Asyncio!StartupDone
  BY <1>2, AsyncioServes
<1>3. CASE Asyncio!StartupTimeout \/ Asyncio!ShutdownTimeout
  BY <1>3, AsyncioRaise DEF Asyncio!StartupTimeout, Asyncio!ShutdownTimeout,
     connVars, lifespanVars
<1>4. CASE Asyncio!ShutdownBegins
  BY <1>4, AsyncioShutdown
<1>5. CASE Asyncio!WaitClosed
  BY <1>5, AsyncioCloses
<1>6. CASE Asyncio!Drained \/ Asyncio!GraceOver \/ Asyncio!ShutdownDone
  <2>1. LifespanTypes'
    BY <1>6 DEF Asyncio!Drained, Asyncio!GraceOver, Asyncio!ShutdownDone, Types, LifespanTypes
  <2> QED BY <1>6, <2>1, AsyncioGoto DEF Asyncio!Drained, Asyncio!GraceOver,
          Asyncio!ShutdownDone, connVars
<1>7. CASE Asyncio!GraceExpires
  BY <1>7, AsyncioGrace
<1>8. CASE Asyncio!AskShutdown
  <2>1. LifespanTypes'
    BY <1>8, AsyncioPut DEF Asyncio!AskShutdown, Types, LifespanTypes, Messages
  <2> QED BY <1>8, <2>1, AsyncioGoto DEF Asyncio!AskShutdown, connVars
<1>9. CASE Asyncio!CancelLifespan
  <2>1. LifespanTypes'
    BY <1>9 DEF Asyncio!CancelLifespan, Types, LifespanTypes
  <2> QED BY <1>9, <2>1, AsyncioGoto DEF Asyncio!CancelLifespan, connVars
<1>10. CASE Asyncio!JoinLifespan
  <2>1. lifespan \in {"returned", "failed", "cancelled"} /\ main = "joining"
    BY <1>10 DEF Asyncio!JoinLifespan, Asyncio!LifespanDone
  <2>2. /\ lifespan = "failed" => Asyncio!JoinOutcome = "LifespanFailure"
        /\ lifespan = "cancelled" => Asyncio!JoinOutcome = "Cancelled"
        /\ lifespan = "returned" => Asyncio!JoinOutcome = outcome
    BY <2>1 DEF Asyncio!JoinOutcome
  <2> QED BY <1>10, <2>1, <2>2, AsyncioRaise DEF Asyncio!JoinLifespan, connVars, lifespanVars,
          Types, MainTypes
<1> QED BY <1>1, <1>2, <1>3, <1>4, <1>5, <1>6, <1>7, <1>8, <1>9, <1>10 DEF Asyncio!MainStep

LEMMA AsyncioNext ==
  ASSUME Types, AsyncioInv, backend = "asyncio", UNCHANGED backend,
         WaitsForConnections, Asyncio!Next
  PROVE  Types' /\ AsyncioInv' /\ Promised
<1>1. CASE SharedStep
  <2>1. CASE LifespanStarts \/ Receive \/ \E m \in Messages : Complete(m)
    BY <2>1, SharedLifespan, AsyncioLifespan
  <2>2. ASSUME NEW c \in Conns, ConnStep(c) PROVE Types' /\ AsyncioInv' /\ Promised
    BY <2>2, SharedConn, AsyncioConn
  <2>3. CASE Trigger
    <3>1. UNCHANGED <<mainVars, lifespanVars, connVars>> /\ trigger' = TRUE
      BY <2>3 DEF Trigger
    <3>2. Types' /\ lifespan' = lifespan
      BY <3>1 DEF Types, MainTypes, ConnTypes, LifespanTypes, mainVars, connVars, lifespanVars
    <3> QED BY <3>1, <3>2, AsyncioLifespan
  <2> QED BY <1>1, <2>1, <2>2, <2>3 DEF SharedStep
<1>2. CASE Asyncio!MainStep
  BY <1>2, AsyncioMain
<1>3. CASE \/ \E m \in Messages : Asyncio!Fail(m)
           \/ Asyncio!LifespanFails \/ Asyncio!LifespanReturns
           \/ Asyncio!LifespanRaises \/ Asyncio!LifespanCancelled
  BY <1>3, AsyncioEnding
<1>4. ASSUME NEW c \in Conns, Asyncio!TaskFails(c) PROVE Types' /\ AsyncioInv' /\ Promised
  BY <1>4, AsyncioTaskFails
<1> QED BY <1>1, <1>2, <1>3, <1>4, AsyncioShares DEF Asyncio!Next, Asyncio!Messages, Messages

(***************************************************************************)
(* trio.                                                                   *)
(***************************************************************************)

LEMMA TrioLifespan ==
  ASSUME Types, TrioInv, Types', UNCHANGED <<mainVars, connVars, backend>>,
         lifespan' = "failed" => lifespan = "failed",
         lifespan \in {"returned", "failed", "cancelled"} => lifespan' = lifespan
  PROVE  TrioInv' /\ Promised
<1>1. TrioInv'
  BY DEF TrioInv, NotYet, Trio!Tasks, mainVars, connVars
<1>2. Promised
  BY Stutter DEF mainVars, connVars
<1> QED BY <1>1, <1>2

\* The lifespan's task, but for a failure that leaves it.
LEMMA TrioEnding ==
  ASSUME Types, TrioInv, UNCHANGED backend,
         \/ \E m \in Messages : Trio!Fail(m)
         \/ Trio!LifespanFails \/ Trio!LifespanReturns \/ Trio!LifespanRaises
         \/ Trio!LifespanEnds \/ Trio!LifespanCancelled
  PROVE  Types' /\ TrioInv' /\ Promised
<1> USE DEF Trio!Fail, Trio!LifespanFails, Trio!LifespanReturns, Trio!LifespanRaises,
        Trio!LifespanEnds, Trio!LifespanCancelled, Trio!LifespanCloses,
        Trio!mainVars, Trio!connVars
<1>1. UNCHANGED <<mainVars, connVars, backend, trigger>>
  BY DEF mainVars, connVars
<1>2. LifespanTypes'
  BY DEF Types, LifespanTypes
<1>3. /\ lifespan' # "failed"
      /\ lifespan \notin {"returned", "failed", "cancelled"}
  OBVIOUS
<1>4. Types'
  BY <1>1, <1>2 DEF Types, MainTypes, ConnTypes, mainVars, connVars
<1> QED BY <1>1, <1>3, <1>4, TrioLifespan

LEMMA TrioConn ==
  ASSUME Types, TrioInv, backend = "trio", UNCHANGED <<mainVars, lifespanVars, backend>>,
         Types', NEW c \in Conns, Moves(c), main = "ended" => conns[c] = "cut",
         \A d \in Conns \ {c} : conns'[d] = conns[d] /\ at'[d] = at[d]
  PROVE  TrioInv' /\ Promised
<1>1. UNCHANGED <<main, outcome, listening, gathered, graceOver, broken, lifespan>>
  BY DEF mainVars, lifespanVars
<1>2. main \notin {"serve", "drain", "cancelled"} => conns[c] \notin Running \cup {"pending"}
  BY TrioShares DEF TrioInv, Trio!Tasks
<1>3. conns[c] = "none" => main = "serve"
  BY DEF TrioInv, Moves
<1>4. main \in {"serve", "drain", "cancelled"}
  BY <1>2, <1>3 DEF Moves, Running
<1>5. main = "cancelled" => conns[c] = "cut" /\ conns'[c] = "done"
  BY <1>3 DEF TrioInv, Moves
<1>6. TrioInv'
  BY <1>1, <1>4, <1>5 DEF TrioInv, NotYet
<1>7. conns[c] = "idle" => main \in {"serve", "closing", "drain"}
  BY <1>4, <1>5
<1>8. Promised
  BY <1>1, <1>7, ConnPromised
<1> QED BY <1>6, <1>8

\* Nothing requests where there is no task.
LEMMA TrioIdle ==
  ASSUME Trio!Tasks = {}
  PROVE  Active = {}
BY TrioShares DEF Trio!Tasks, Active, Requesting, Running

LEMMA TrioGoto ==
  ASSUME Types, TrioInv, backend = "trio", UNCHANGED <<connVars, trigger, backend, lifespan>>,
         LifespanTypes', NEW place, Trio!Goto(place),
         \/ main = "boot" /\ place = "startup"
         \/ main = "drain" /\ place = "stopping" /\ Trio!Tasks = {}
         \/ main = "stopping" /\ place \in {"shutdown", "join"}
         \/ main = "shutdown" /\ place = "join"
         \/ /\ main = "joining" /\ place = "ended"
            /\ lifespan \in {"returned", "failed", "cancelled"}
  PROVE  Types' /\ TrioInv' /\ Promised
<1>1. /\ main' = place /\ UNCHANGED <<outcome, terminated, listening, gathered, graceOver, broken>>
      /\ UNCHANGED <<conns, lifespan, backend>>
  BY DEF Trio!Goto, connVars
<1>2. Types'
  BY <1>1 DEF Types, MainTypes, ConnTypes, connVars
<1>3. Trio!Tasks = {} /\ Trio!Tasks' = {}
  BY <1>1 DEF TrioInv, Trio!Tasks
<1>4. TrioInv'
  BY <1>1, <1>3 DEF TrioInv, NotYet
<1>5. Active = {} /\ Active' = {} /\ Excuse' = Excuse
  BY <1>1, <1>3, TrioIdle DEF Active, Excuse
<1>6. Promised
  <2>1. CASE main = "stopping"
    <3>1. Promise!Tell
      BY <1>1, <1>5, <2>1 DEF Promise!Tell, Phase
    <3> QED BY <3>1 DEF Promised, Promise!Next
  <2>2. CASE main # "stopping"
    <3>1. Phase' = Phase
      BY <1>1, <2>2 DEF Phase
    <3> QED BY <1>5, <3>1 DEF Promised, Promise!vars
  <2> QED BY <2>1, <2>2
<1> QED BY <1>2, <1>4, <1>6

\* The body of the lifespan's nursery is left.
LEMMA TrioRaise ==
  ASSUME Types, TrioInv, backend = "trio", UNCHANGED <<connVars, trigger, backend>>,
         NEW error, Trio!Raise(error),
         main \in {"boot", "startup", "stopping", "shutdown", "join", "cancelled"},
         main = "cancelled" => Trio!Tasks = {},
         error = outcome \/ error \in {"ClosedResource", "LifespanTimeout"}
  PROVE  Types' /\ TrioInv' /\ Promised
<1>1. /\ main' = "joining" /\ outcome' = error
      /\ lifespan' \in {lifespan, "cancelling"}
      /\ UNCHANGED <<terminated, listening, gathered, graceOver, broken, startup,
                     shutdown, supported, queue, received>>
      /\ UNCHANGED <<conns, backend>>
  BY DEF Trio!Raise, connVars
<1>2. Types'
  BY <1>1 DEF Types, MainTypes, ConnTypes, LifespanTypes, connVars
<1>3. Trio!Tasks = {} /\ Trio!Tasks' = {}
  BY <1>1 DEF TrioInv, Trio!Tasks
<1>4. TrioInv'
  BY <1>1, <1>3 DEF TrioInv, NotYet
<1>5. Promise!Close
  <2>1. Active = {} /\ Active' = {} /\ Excuse' = Excuse /\ Phase' = "ended"
    BY <1>1, <1>3, TrioIdle DEF Active, Excuse, Phase
  <2> QED BY <2>1 DEF Promise!Close
<1> QED BY <1>2, <1>4, <1>5 DEF Promised, Promise!Next

\* A failure cancels everything in the nursery.
LEMMA TrioCancel ==
  ASSUME Types, TrioInv, backend = "trio", UNCHANGED <<at, requests, terminate, trigger, backend>>,
         LifespanTypes', ConnTypes', main # "ended",
         NEW error \in {"LifespanFailure", "TaskError"}, Trio!Cancel(error),
         \A c \in Conns : \/ conns'[c] \in {"cut", "done"}
                          \/ c \notin Trio!Tasks /\ conns'[c] = conns[c]
  PROVE  Types' /\ TrioInv' /\ Promised
<1>1. /\ main' = "cancelled" /\ outcome' = error /\ broken' = TRUE /\ listening' = {}
      /\ terminated' \in BOOLEAN /\ UNCHANGED <<gathered, graceOver>>
  BY DEF Trio!Cancel, Types, MainTypes
<1>2. Types'
  BY <1>1 DEF Types, MainTypes
<1>3. \A c \in Conns : conns'[c] \in {"none", "done", "cut"}
  BY TrioShares DEF Trio!Tasks, Types, ConnTypes
<1>4. TrioInv'
  BY <1>1, <1>3 DEF TrioInv, NotYet
<1>5. Active' = {} /\ Excuse' = TRUE /\ Phase' = "ended"
  BY <1>1, <1>3 DEF Active, Excuse, Phase, Requesting
<1>6. Promise!Close
  BY <1>5 DEF Promise!Close
<1> QED BY <1>2, <1>4, <1>6 DEF Promised, Promise!Next

\* The cancellation of the nursery gives every task another state.
LEMMA TrioCut ==
  ASSUME Types, Trio!CutAll
  PROVE  /\ conns' \in [Conns -> {"none", "pending", "done"} \cup Running]
         /\ \A c \in Conns : conns'[c] = IF c \in Trio!Tasks THEN "cut" ELSE conns[c]
BY DEF Trio!CutAll, Types, ConnTypes, Running

\* The nursery that holds the servers and the tasks.
LEMMA TrioServing ==
  ASSUME Types, TrioInv, backend = "trio", UNCHANGED backend,
         Trio!StartupDone \/ Trio!ShutdownBegins \/ Trio!GraceExpires
  PROVE  Types' /\ TrioInv' /\ Promised
<1> USE DEF Trio!connVars, Trio!lifespanVars
<1>1. CASE Trio!StartupDone
  <2>1. /\ main = "startup" /\ main' = "serve" /\ listening' = 1 .. Servers
        /\ UNCHANGED <<outcome, terminated, gathered, graceOver, broken, lifespanVars,
                       connVars, trigger, conns, lifespan>>
    BY <1>1 DEF Trio!StartupDone, lifespanVars, connVars
  <2>2. Types'
    BY <2>1 DEF Types, MainTypes, ConnTypes, LifespanTypes, connVars, lifespanVars
  <2>3. TrioInv'
    BY <2>1 DEF TrioInv, NotYet
  <2>4. Promise!Open
    BY <2>1 DEF Promise!Open, Phase, Active, Excuse
  <2> QED BY <2>2, <2>3, <2>4 DEF Promised, Promise!Next
<1>2. CASE Trio!ShutdownBegins
  <2>1. /\ main = "serve" /\ main' = "drain" /\ terminated' = TRUE /\ listening' = {}
        /\ UNCHANGED <<outcome, gathered, graceOver, broken, lifespanVars,
                       connVars, trigger, conns, lifespan>>
    BY <1>2 DEF Trio!ShutdownBegins, lifespanVars, connVars
  <2>2. Types'
    BY <2>1 DEF Types, MainTypes, ConnTypes, LifespanTypes, connVars, lifespanVars
  <2>3. TrioInv'
    BY <2>1 DEF TrioInv, NotYet
  <2>4. Promise!Stop
    BY <2>1 DEF Promise!Stop, Phase, Active, Excuse
  <2> QED BY <2>2, <2>3, <2>4 DEF Promised, Promise!Next
<1>3. CASE Trio!GraceExpires
  <2>1. /\ main = "drain" /\ Trio!CutAll /\ graceOver' = TRUE
        /\ UNCHANGED <<main, outcome, terminated, listening, gathered, broken,
                       lifespanVars, at, requests, terminate, trigger, lifespan>>
    BY <1>3 DEF Trio!GraceExpires, lifespanVars
  <2>2. Types'
    BY <2>1, TrioCut DEF Types, MainTypes, ConnTypes, LifespanTypes, lifespanVars
  <2>3. TrioInv'
    BY <2>1 DEF TrioInv, NotYet
  <2>4. Active' = Active \ Active
    BY <2>1, TrioCut, TrioShares DEF Active, Requesting, Trio!Tasks, Running
  <2>5. Active \in SUBSET Conns /\ Promise!CutOff(Active)
    BY <2>1, <2>4 DEF Promise!CutOff, Active, Phase, Excuse
  <2> QED BY <2>2, <2>3, <2>5 DEF Promised, Promise!Next
<1> QED BY <1>1, <1>2, <1>3

LEMMA TrioAsk ==
  ASSUME Types, TrioInv, backend = "trio", UNCHANGED <<connVars, trigger, backend>>,
         NEW m \in Messages, NEW place, NEW skip, Trio!Ask(m, place, skip),
         \/ main = "boot" /\ place = "startup" /\ skip = "startup"
         \/ main = "stopping" /\ place = "shutdown" /\ skip = "join"
  PROVE  Types' /\ TrioInv' /\ Promised
<1> USE DEF Trio!lifespanVars
<1>1. CASE ~supported /\ Trio!Goto(skip) /\ UNCHANGED Trio!lifespanVars
  <2>1. LifespanTypes' /\ lifespan' = lifespan
    BY <1>1 DEF Types, LifespanTypes
  <2> QED BY <1>1, <2>1, TrioGoto
<1>2. CASE Trio!Raise("ClosedResource")
  BY <1>2, TrioRaise
<1>3. CASE /\ Len(queue) < QueueSize /\ queue' = Append(queue, m) /\ Trio!Goto(place)
           /\ UNCHANGED <<lifespan, startup, shutdown, supported, received>>
  <2>1. Append(queue, m) \in Seq(Messages) /\ Len(Append(queue, m)) = Len(queue) + 1
    BY DEF Types, LifespanTypes
  <2>2. Len(queue) + 1 <= QueueSize
    BY <1>3, WorkerAssumption DEF Types, LifespanTypes
  <2>3. LifespanTypes'
    BY <1>3, <2>1, <2>2 DEF Types, LifespanTypes
  <2> QED BY <1>3, <2>3, TrioGoto
<1> QED BY <1>1, <1>2, <1>3 DEF Trio!Ask

LEMMA TrioMain ==
  ASSUME Types, TrioInv, backend = "trio", UNCHANGED backend, Trio!MainStep
  PROVE  Types' /\ TrioInv' /\ Promised
<1> USE DEF Trio!connVars, Trio!lifespanVars
<1>1. CASE Trio!AskStartup \/ Trio!AskShutdown
  BY <1>1, TrioAsk DEF Trio!AskStartup, Trio!AskShutdown, connVars, Messages
<1>2. CASE Trio!StartupDone \/ Trio!ShutdownBegins \/ Trio!GraceExpires
  BY <1>2, TrioServing
<1>3. CASE \/ Trio!StartupTimeout \/ Trio!ShutdownTimeout \/ Trio!CancelLifespan
           \/ Trio!Unwound
  BY <1>3, TrioRaise DEF Trio!StartupTimeout, Trio!ShutdownTimeout, Trio!CancelLifespan,
     Trio!Unwound, connVars
<1>4. CASE Trio!Drained \/ Trio!ShutdownDone \/ Trio!JoinLifespan
  <2>1. LifespanTypes' /\ lifespan' = lifespan
    BY <1>4 DEF Trio!Drained, Trio!ShutdownDone, Trio!JoinLifespan, Types, LifespanTypes
  <2> QED BY <1>4, <2>1, TrioGoto DEF Trio!Drained, Trio!ShutdownDone, Trio!JoinLifespan,
          connVars
<1> QED BY <1>1, <1>2, <1>3, <1>4 DEF Trio!MainStep

\* What leaves the lifespan's task or the task of a connection.
LEMMA TrioFails ==
  ASSUME Types, TrioInv, backend = "trio", UNCHANGED backend,
         Trio!LifespanFailed \/ \E c \in Conns : Trio!TaskFails(c)
  PROVE  Types' /\ TrioInv' /\ Promised
<1>1. CASE Trio!LifespanFailed
  <2>1. LifespanTypes'
    BY <1>1 DEF Trio!LifespanFailed, Types, LifespanTypes
  <2>2. main # "ended"
    BY <1>1 DEF Trio!LifespanFailed, TrioInv
  <2>3. /\ Trio!Cancel("LifespanFailure") /\ Trio!CutAll
        /\ UNCHANGED <<at, requests, terminate, trigger>>
    BY <1>1, <2>2 DEF Trio!LifespanFailed
  <2>4. ConnTypes'
    BY <2>3, TrioCut DEF Types, ConnTypes
  <2> QED BY <2>1, <2>2, <2>3, <2>4, TrioCut, TrioCancel
<1>2. ASSUME NEW c \in Conns, Trio!TaskFails(c) PROVE Types' /\ TrioInv' /\ Promised
  <2>1. /\ main # "ended" /\ Trio!Cancel("TaskError")
        /\ conns' = [d \in Conns |-> IF d = c THEN "done"
                                     ELSE IF d \in Trio!Tasks THEN "cut" ELSE conns[d]]
        /\ UNCHANGED <<lifespanVars, at, requests, terminate, trigger>>
    BY <1>2 DEF Trio!TaskFails, Trio!lifespanVars, lifespanVars
  <2>2. LifespanTypes'
    BY <2>1 DEF Types, LifespanTypes, lifespanVars
  <2>3. ConnTypes'
    BY <2>1 DEF Types, ConnTypes, Running
  <2>4. \A d \in Conns : \/ conns'[d] \in {"cut", "done"}
                         \/ d \notin Trio!Tasks /\ conns'[d] = conns[d]
    BY <2>1
  <2> QED BY <2>1, <2>2, <2>3, <2>4, TrioCancel
<1> QED BY <1>1, <1>2

LEMMA TrioNext ==
  ASSUME Types, TrioInv, backend = "trio", UNCHANGED backend, Trio!Next
  PROVE  Types' /\ TrioInv' /\ Promised
<1>1. CASE SharedStep
  <2>1. CASE LifespanStarts \/ Receive \/ \E m \in Messages : Complete(m)
    BY <2>1, SharedLifespan, TrioLifespan
  <2>2. ASSUME NEW c \in Conns, ConnStep(c) PROVE Types' /\ TrioInv' /\ Promised
    BY <2>2, SharedConn, TrioConn
  <2>3. CASE Trigger
    <3>1. UNCHANGED <<mainVars, lifespanVars, connVars>> /\ trigger' = TRUE
      BY <2>3 DEF Trigger
    <3>2. Types' /\ lifespan' = lifespan
      BY <3>1 DEF Types, MainTypes, ConnTypes, LifespanTypes, mainVars, connVars, lifespanVars
    <3> QED BY <3>1, <3>2, TrioLifespan
  <2> QED BY <1>1, <2>1, <2>2, <2>3 DEF SharedStep
<1>2. CASE Trio!MainStep
  BY <1>2, TrioMain
<1>3. CASE \/ \E m \in Messages : Trio!Fail(m)
           \/ Trio!LifespanFails \/ Trio!LifespanReturns \/ Trio!LifespanRaises
           \/ Trio!LifespanEnds \/ Trio!LifespanCancelled
  BY <1>3, TrioEnding
<1>4. CASE Trio!LifespanFailed \/ \E c \in Conns : Trio!TaskFails(c)
  BY <1>4, TrioFails
<1> QED BY <1>1, <1>2, <1>3, <1>4, TrioShares DEF Trio!Next, Trio!Messages, Messages

(***************************************************************************)
(* Either backend.                                                         *)
(***************************************************************************)

LEMMA NextInv ==
  ASSUME Inv, [MCNext]_MCVars, WaitsForConnections
  PROVE  Inv' /\ Promised
<1>1. CASE backend = "asyncio" /\ Asyncio!Next /\ UNCHANGED backend
  BY <1>1, AsyncioNext DEF Inv
<1>2. CASE backend = "trio" /\ Trio!Next /\ UNCHANGED backend
  BY <1>2, TrioNext DEF Inv
<1>3. CASE UNCHANGED MCVars
  <2>1. UNCHANGED <<mainVars, lifespanVars, connVars, trigger, backend, lifespan>>
    BY <1>3 DEF MCVars, vars, lifespanVars
  <2>2. Types'
    BY <2>1 DEF Inv, Types, MainTypes, ConnTypes, LifespanTypes, mainVars, connVars, lifespanVars
  <2> QED BY <2>1, <2>2, AsyncioLifespan, TrioLifespan DEF Inv
<1> QED BY <1>1, <1>2, <1>3 DEF MCNext

LEMMA InvEndsClean == Inv => EndsClean
<1> SUFFICES ASSUME Inv PROVE EndsClean
  OBVIOUS
<1>1. TypeOK
  BY TypesOK DEF Inv
<1>2. ASSUME main = "ended", outcome = "ok"
      PROVE  /\ lifespan # "failed"
             /\ \A c \in Conns : conns[c] \in {"none", "done"} \/ (conns[c] = "cut" /\ graceOver)
  <2>1. CASE AsyncioInv
    BY <1>2, <2>1 DEF AsyncioInv, Over
  <2>2. CASE TrioInv
    BY <1>2, <2>2, TrioShares DEF TrioInv, Trio!Tasks, Running, Inv, Types, ConnTypes
  <2> QED BY <2>1, <2>2 DEF Inv
<1> QED BY <1>1, <1>2 DEF EndsClean, CleanEnd

\* A worker that ends without an error has not lost a request and its
\* application did not fail (worker_serve of both backends; asyncio with a
\* Server.wait_closed that waits).
THEOREM Clean == ASSUME WaitsForConnections PROVE MCSpec => []EndsClean
<1>1. MCInit => Inv
  BY InitInv
<1>2. Inv /\ [MCNext]_MCVars => Inv'
  BY NextInv
<1>3. Inv => EndsClean
  BY InvEndsClean
<1>4. Safe => []EndsClean
  BY <1>1, <1>2, <1>3, PTL DEF Safe
<1>5. MCSpec => Safe
  BY PTL DEF MCSpec
<1> QED BY <1>4, <1>5, PTL

\* Both backends keep what the Service promises an application: requests run
\* between its startup and its shutdown, and none is cut off without an excuse.
THEOREM Serves == ASSUME WaitsForConnections PROVE MCSpec => ImplementsService
<1>1. MCInit => Inv
  BY InitInv
<1>2. Inv /\ [MCNext]_MCVars => Inv' /\ [Promise!Next]_(Promise!vars)
  BY NextInv DEF Promised
<1>3. MCInit => Promise!Init
  BY DEF MCInit, Init, Promise!Init, Phase, Active, Excuse, Requesting
<1>4. Safe => ImplementsService
  BY <1>1, <1>2, <1>3, PTL DEF Safe, ImplementsService, Promise!Spec
<1>5. MCSpec => Safe
  BY PTL DEF MCSpec
<1> QED BY <1>4, <1>5, PTL
=============================================================================
