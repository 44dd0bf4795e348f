----------------------------- MODULE Dispatcher -----------------------------
(***************************************************************************)
(* The lifespan of the applications behind a DispatcherMiddleware: each    *)
(* message of the worker goes to every application, and the worker is told *)
(* that one is complete when all have completed it (asyncio and trio).     *)
(***************************************************************************)
EXTENDS Naturals, Sequences

CONSTANTS
  MountPoints,    \* the keys of mounts
  MaxQueueSize    \* MAX_QUEUE_SIZE

ASSUME DispatcherAssumption == MaxQueueSize \in Nat \ {0}

VARIABLES
  inbox,              \* the worker's messages, not yet received
  taken,              \* those the dispatcher has received
  left,               \* the applications the last one has yet to be put to
  queues,             \* app_queues
  apps,               \* where each application is
  startup_complete,
  shutdown_complete,
  told,               \* what the worker was told
  group               \* the task group that runs the applications

lifespanVars == <<inbox, taken, left, queues, apps, startup_complete,
                  shutdown_complete, told, group>>

LifespanMessages == {"startup", "shutdown"}

\* An application that "gaveUp" has returned without an answer, like one that
\* sends a failed event (which the dispatcher drops) or a WSGIWrapper.
AppStates == {"called", "starting", "started", "stopping", "stopped",
              "returned", "gaveUp", "raised", "cancelled"}
Finished == {"returned", "gaveUp", "raised", "cancelled"}

LifespanTypeOK ==
  /\ inbox \in Seq(LifespanMessages) /\ taken \in Seq(LifespanMessages)
  /\ left \subseteq MountPoints
  /\ queues \in [MountPoints -> Seq(LifespanMessages)]
  /\ \A m \in MountPoints : Len(queues[m]) <= MaxQueueSize
  /\ apps \in [MountPoints -> AppStates]
  /\ startup_complete \in [MountPoints -> BOOLEAN]
  /\ shutdown_complete \in [MountPoints -> BOOLEAN]
  /\ told \in Seq(LifespanMessages)
  /\ group \in {"running", "failing", "raised", "ended"}

LifespanInit ==
  /\ inbox = <<>> /\ taken = <<>> /\ left = {}
  /\ queues = [m \in MountPoints |-> <<>>]
  /\ apps = [m \in MountPoints |-> "called"]
  /\ startup_complete = [m \in MountPoints |-> FALSE]
  /\ shutdown_complete = startup_complete
  /\ told = <<>> /\ group = "running"

Running == group \in {"running", "failing"}
Moves(m, from, to) == apps[m] = from /\ apps' = [apps EXCEPT ![m] = to]
Shutdown == taken # <<>> /\ taken[Len(taken)] = "shutdown"

----------------------------------------------------------------------------
(* The dispatcher and the worker.                                          *)

\* Lifespan.wait_for_startup, and wait_for_shutdown once startup is complete
Ask ==
  /\ inbox = <<>>
  /\ \/ taken = <<>> /\ inbox' = <<"startup">>
     \/ taken = <<"startup">> /\ told # <<>> /\ inbox' = <<"shutdown">>
  /\ UNCHANGED <<taken, left, queues, apps, startup_complete, shutdown_complete,
                 told, group>>

\* message = await receive()
TakeMessage ==
  /\ group = "running" /\ left = {} /\ ~Shutdown /\ inbox # <<>>
  /\ taken' = Append(taken, Head(inbox)) /\ inbox' = Tail(inbox)
  /\ left' = MountPoints
  /\ UNCHANGED <<queues, apps, startup_complete, shutdown_complete, told, group>>

\* (mutant: the message goes to one application only)
PutToOne(m) ==
  /\ group = "running" /\ m \in left /\ Len(queues[m]) < MaxQueueSize
  /\ queues' = [queues EXCEPT ![m] = Append(@, taken[Len(taken)])]
  /\ left' = {}
  /\ UNCHANGED <<inbox, taken, apps, startup_complete, shutdown_complete, told, group>>

\* await queue.put(message), for one application after another
PutTo(m) ==
  /\ group = "running" /\ m \in left /\ Len(queues[m]) < MaxQueueSize
  /\ queues' = [queues EXCEPT ![m] = Append(@, taken[Len(taken)])]
  /\ left' = left \ {m}
  /\ UNCHANGED <<inbox, taken, apps, startup_complete, shutdown_complete, told, group>>

\* (mutant: the first application answers for all)
AnyComplete(flags) == \E m \in MountPoints : flags[m]

AllComplete(flags) == \A m \in MountPoints : flags[m]

\* send(path, ...): an event is passed on when every application has sent it.
SendComplete(m, event) ==
  /\ startup_complete' = [startup_complete EXCEPT ![m] = @ \/ event = "startup"]
  /\ shutdown_complete' = [shutdown_complete EXCEPT ![m] = @ \/ event = "shutdown"]
  /\ told' = IF AllComplete(IF event = "startup" THEN startup_complete'
                                                 ELSE shutdown_complete')
             THEN Append(told, event) ELSE told

\* The task group ends with its last task, or fails: the others are cancelled.
GroupEnds ==
  /\ \/ /\ group = "running" /\ Shutdown /\ left = {}
        /\ \A m \in MountPoints : apps[m] \in Finished
        /\ group' = "ended" /\ UNCHANGED apps
     \/ /\ group = "failing" /\ group' = "raised"
        /\ apps' = [m \in MountPoints |->
                      IF apps[m] \in Finished THEN apps[m] ELSE "cancelled"]
  /\ UNCHANGED <<inbox, taken, left, queues, startup_complete,
                 shutdown_complete, told>>

----------------------------------------------------------------------------
(* The applications (external).  One step may still run after the group    *)
(* has failed.                                                             *)

AppReceives(m) ==
  /\ Running /\ queues[m] # <<>>
  /\ \/ Moves(m, "called", "starting") \/ Moves(m, "started", "stopping")
  /\ queues' = [queues EXCEPT ![m] = Tail(@)]
  /\ UNCHANGED <<inbox, taken, left, startup_complete, shutdown_complete, told, group>>

AppCompletes(m) ==
  /\ Running
  /\ \/ Moves(m, "starting", "started") /\ SendComplete(m, "startup")
     \/ Moves(m, "stopping", "stopped") /\ SendComplete(m, "shutdown")
  /\ UNCHANGED <<inbox, taken, left, queues, group>>

AppReturns(m) ==
  /\ Running /\ Moves(m, "stopped", "returned")
  /\ UNCHANGED <<inbox, taken, left, queues, startup_complete,
                 shutdown_complete, told, group>>

AppGivesUp(m) ==
  /\ Running
  /\ \E s \in {"called", "starting", "stopping"} : Moves(m, s, "gaveUp")
  /\ UNCHANGED <<inbox, taken, left, queues, startup_complete,
                 shutdown_complete, told, group>>

AppRaises(m) ==
  /\ Running /\ apps[m] \notin Finished
  /\ apps' = [apps EXCEPT ![m] = "raised"] /\ group' = "failing"
  /\ UNCHANGED <<inbox, taken, left, queues, startup_complete,
                 shutdown_complete, told>>

LifespanNext ==
  \/ Ask \/ TakeMessage \/ GroupEnds
  \/ \E m \in MountPoints :
       PutTo(m) \/ AppReceives(m) \/ AppCompletes(m) \/ AppReturns(m)
       \/ AppGivesUp(m) \/ AppRaises(m)

LifespanSpec == LifespanInit /\ [][LifespanNext]_lifespanVars

----------------------------------------------------------------------------
\* A dispatcher is to the worker what one application is: it answers each
\* message once, in their order, and returns after the shutdown only.
App == INSTANCE LifespanApp WITH
  received <- taken, answered <- Len(told), over <- group \in {"raised", "ended"}

DispatcherIsAnApp == App!Spec

\* Applications that answer are answered for: each message the worker sends
\* is completed, and after the shutdown the dispatcher returns, unless an
\* application has given up or raised.  (With one that gives up the worker
\* waits for its timeout.)
GaveUp == \E m \in MountPoints : apps[m] \in {"gaveUp", "raised"}
MessagesAnswered ==
  /\ (inbox # <<>>) ~> (GaveUp \/ (inbox = <<>> /\ Len(told) = Len(taken)))
  /\ (Shutdown /\ Len(told) = 2) ~> (GaveUp \/ group = "ended")
=============================================================================
