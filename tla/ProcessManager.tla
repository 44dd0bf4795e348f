---------------------------- MODULE ProcessManager ----------------------------
(***************************************************************************)
(* run.py: the parent process that keeps config.workers processes running, *)
(* its signal handlers, which interrupt it anywhere and each other, and    *)
(* the reloader that watches the files.                                    *)
(***************************************************************************)
EXTENDS Naturals, FiniteSets

CONSTANTS
  Workers,      \* config.workers slots for worker processes
  MaxReloads,   \* bound: SIGHUPs
  MaxEdits      \* bound: times a watched file is written

ASSUME ManagerAssumption ==
  /\ IsFiniteSet(Workers) /\ Workers # {}
  /\ MaxReloads \in Nat /\ MaxEdits \in Nat

VARIABLES
  reloader,     \* config.use_reloader
  main,         \* where run() is
  missing,      \* processes _populate has yet to start
  processes,    \* the list of processes
  state,        \* each worker process
  loaded,       \* the version of the files it has loaded
  event,        \* shutdown_event
  active,
  reloads,      \* calls of reload that have not returned
  installed,    \* the handlers are installed
  hups,         \* SIGHUPs so far
  mtime,        \* when the watched files were written last
  watched,      \* the times that files_to_watch has noted
  exitcode,     \* of run, 0 or not
  asked,        \* history: the shutdown handler has run
  failed        \* history: a worker has exited with an error of its own

fileVars == <<mtime, watched>>
workerVars == <<state, loaded>>
signalVars == <<reloads, installed, hups, asked>>
vars == <<reloader, main, missing, processes, workerVars, event, active,
          signalVars, fileVars, exitcode, failed>>

Alive == {w \in Workers : state[w] \in {"starting", "running", "stopping", "dying"}}
Exited == {w \in Workers : state[w] \in {"ok", "failed", "killed"}}
NonZero == {w \in Workers : state[w] \in {"failed", "killed"}}

TypeOK ==
  /\ reloader \in BOOLEAN /\ active \in BOOLEAN /\ event \in BOOLEAN
  /\ main \in {"populate", "start", "append", "install", "watch", "wait", "check",
               "exited", "terminate", "final", "returned", "ended"}
  /\ missing \in 0 .. Cardinality(Workers) /\ processes \subseteq Workers
  /\ state \in [Workers -> {"none", "starting", "running", "stopping", "dying",
                            "ok", "failed", "killed"}]
  /\ loaded \in [Workers -> 0 .. MaxEdits]
  /\ hups \in 0 .. MaxReloads /\ reloads \in 0 .. hups + 1
  /\ installed \in BOOLEAN /\ asked \in BOOLEAN /\ failed \in BOOLEAN
  /\ mtime \in 0 .. MaxEdits /\ watched \in 0 .. MaxEdits
  /\ exitcode \in {0, 1}

Init ==
  /\ reloader \in BOOLEAN
  /\ main = "populate" /\ missing = 0 /\ processes = {}
  /\ state = [w \in Workers |-> "none"] /\ loaded = [w \in Workers |-> 0]
  /\ event = FALSE /\ active = TRUE
  /\ reloads = 0 /\ installed = FALSE /\ hups = 0 /\ asked = FALSE
  /\ mtime = 0 /\ watched = 0 /\ exitcode = 0 /\ failed = FALSE

----------------------------------------------------------------------------
(* A worker process.                                                       *)

Becomes(w, s) == state' = [state EXCEPT ![w] = s]

WorkerOnly ==
  UNCHANGED <<reloader, main, missing, processes, event, active, signalVars,
              fileVars, exitcode>>

\* load_application
Load(w) ==
  /\ state[w] = "starting" /\ Becomes(w, "running")
  /\ loaded' = [loaded EXCEPT ![w] = mtime]
  /\ WorkerOnly /\ UNCHANGED failed

\* check_multiprocess_shutdown_event sees the event.
SeesEvent(w) ==
  /\ state[w] = "running" /\ event /\ Becomes(w, "stopping")
  /\ WorkerOnly /\ UNCHANGED <<loaded, failed>>

\* A worker ends when it was told to, or after max_requests.
Ends(w) ==
  /\ state[w] \in {"running", "stopping"} /\ Becomes(w, "ok")
  /\ WorkerOnly /\ UNCHANGED <<loaded, failed>>

Fails(w) ==
  /\ state[w] \in {"starting", "running", "stopping"}
  /\ Becomes(w, "failed") /\ failed' = TRUE
  /\ WorkerOnly /\ UNCHANGED loaded

\* SIGTERM: a worker has no handler for it.
Dies(w) ==
  /\ state[w] = "dying" /\ Becomes(w, "killed")
  /\ WorkerOnly /\ UNCHANGED <<loaded, failed>>

\* A file is written.
Edit ==
  /\ reloader /\ mtime < MaxEdits /\ mtime' = mtime + 1
  /\ UNCHANGED <<reloader, main, missing, processes, workerVars, event, active,
                 signalVars, watched, exitcode, failed>>

----------------------------------------------------------------------------
(* The signal handlers of the parent.                                      *)

\* shutdown.  SIGINT is ignored while the processes are created, SIGTERM is not.
Shutdown ==
  /\ installed /\ main # "ended"
  /\ event' = TRUE /\ active' = FALSE /\ asked' = TRUE
  /\ UNCHANGED <<reloader, main, missing, processes, workerVars, reloads,
                 installed, hups, fileVars, exitcode, failed>>

\* reload is called ...
Reload ==
  /\ installed /\ main # "ended" /\ hups < MaxReloads
  /\ hups' = hups + 1 /\ reloads' = reloads + 1 /\ event' = TRUE
  /\ UNCHANGED <<reloader, main, missing, processes, workerVars, active,
                 installed, asked, fileVars, exitcode, failed>>

\* (mutant: the processes are not joined)
Unjoined == TRUE

Joined == processes \subseteq Exited

\* ... and returns when it has joined the processes.
ReloadEnds ==
  /\ reloads > 0 /\ Joined
  /\ reloads' = reloads - 1 /\ event' = FALSE
  /\ UNCHANGED <<reloader, main, missing, processes, workerVars, active,
                 installed, hups, asked, fileVars, exitcode, failed>>

----------------------------------------------------------------------------
(* run, which goes on when no handler runs.                                *)

At(place) == main = place /\ reloads = 0

\* (mutant: one process too many)
MissingOffByOne == Cardinality(Workers) - Cardinality(processes) + 1

Missing == Cardinality(Workers) - Cardinality(processes)

\* _populate starts what is missing, one process at a time.
Populate ==
  /\ At("populate") /\ main' = "start"
  /\ missing' = Missing
  /\ UNCHANGED <<reloader, processes, workerVars, event, active, signalVars,
                 fileVars, exitcode, failed>>

Start(w) ==
  /\ At("start") /\ missing > 0 /\ w \notin processes
  /\ main' = "append" /\ missing' = missing - 1
  /\ Becomes(w, "starting")
  /\ UNCHANGED <<reloader, processes, loaded, event, active, signalVars,
                 fileVars, exitcode, failed>>

\* (mutant: a process that has failed at once is not listed)
StartedRunning == {w \in Workers : state[w] = "running"}

Started == {w \in Workers : state[w] # "none"}

Append ==
  /\ At("append") /\ main' = "start"
  /\ processes' = processes \cup Started
  /\ UNCHANGED <<reloader, missing, workerVars, event, active, signalVars,
                 fileVars, exitcode, failed>>

Populated ==
  /\ At("start") /\ missing = 0 /\ main' = "install"
  /\ UNCHANGED <<reloader, missing, processes, workerVars, event, active,
                 signalVars, fileVars, exitcode, failed>>

Install ==
  /\ At("install") /\ installed' = TRUE
  /\ main' = IF reloader THEN "watch" ELSE "wait"
  /\ UNCHANGED <<reloader, missing, processes, workerVars, event, active,
                 reloads, hups, asked, fileVars, exitcode, failed>>

\* files_to_watch
Watch ==
  /\ At("watch") /\ watched' = mtime /\ main' = "wait"
  /\ UNCHANGED <<reloader, missing, processes, workerVars, event, active,
                 signalVars, mtime, exitcode, failed>>

\* wait: a process has exited, or the reloader's timeout of a second is over
\* (with nothing to see, the loop starts again).
Wait ==
  /\ At("wait")
  /\ \/ processes \cap Exited # {} /\ main' = IF reloader THEN "check" ELSE "exited"
     \/ reloader /\ watched < mtime /\ main' = "check"
  /\ UNCHANGED <<reloader, missing, processes, workerVars, event, active,
                 signalVars, fileVars, exitcode, failed>>

\* check_for_updates
Updated == watched < mtime

CheckForUpdates ==
  /\ At("check") /\ main' = "exited"
  /\ IF Updated THEN reloads' = reloads + 1 /\ event' = TRUE
     ELSE UNCHANGED <<reloads, event>>
  /\ UNCHANGED <<reloader, missing, processes, workerVars, active, installed,
                 hups, asked, fileVars, exitcode, failed>>

\* _join_exited: the exited processes leave the list.
JoinExited ==
  /\ processes' = processes \ Exited
  /\ state' = [w \in Workers |-> IF w \in processes \cap Exited THEN "none" ELSE state[w]]

ExitCode == IF processes \cap NonZero = {} THEN 0 ELSE 1

Collect ==
  /\ At("exited") /\ JoinExited /\ exitcode' = ExitCode
  /\ IF ExitCode # 0 THEN event' = TRUE /\ active' = FALSE
     ELSE UNCHANGED <<event, active>>
  /\ main' = IF active' THEN "populate" ELSE "terminate"
  /\ UNCHANGED <<reloader, missing, loaded, signalVars, fileVars, failed>>

\* process.terminate() for those that are left
Terminate ==
  /\ At("terminate") /\ main' = "final"
  /\ state' = [w \in Workers |-> IF w \in processes \cap Alive THEN "dying" ELSE state[w]]
  /\ UNCHANGED <<reloader, missing, processes, loaded, event, active,
                 signalVars, fileVars, exitcode, failed>>

\* (mutant: the exit code is always taken again)
LastCodeAlways == ExitCode

\* The exit code is taken again if it was not 0.
LastCode == IF exitcode # 0 THEN ExitCode ELSE exitcode

Return ==
  /\ At("final") /\ main' = "returned"
  /\ exitcode' = LastCode
  /\ IF exitcode # 0 THEN JoinExited ELSE UNCHANGED <<processes, state>>
  /\ UNCHANGED <<reloader, missing, loaded, event, active, signalVars,
                 fileVars, failed>>

\* The interpreter ends: it joins its processes.
Exit ==
  /\ At("returned") /\ Alive = {} /\ main' = "ended"
  /\ UNCHANGED <<reloader, missing, processes, workerVars, event, active,
                 signalVars, fileVars, exitcode, failed>>

MainStep ==
  \/ Populate \/ \E w \in Workers : Start(w)
  \/ Append \/ Populated \/ Install \/ Watch \/ Wait \/ CheckForUpdates
  \/ Collect \/ Terminate \/ Return \/ Exit

Next ==
  \/ MainStep \/ Shutdown \/ Reload \/ ReloadEnds \/ Edit
  \/ \E w \in Workers : Load(w) \/ SeesEvent(w) \/ Ends(w) \/ Fails(w) \/ Dies(w)

Spec == Init /\ [][Next]_vars

Stops(w) == state[w] = "stopping" /\ (Ends(w) \/ Fails(w))

\* The parent runs, and so do the workers: they poll the event, and end when
\* they are told to or killed.
FairSpec ==
  /\ Spec /\ WF_vars(MainStep) /\ WF_vars(ReloadEnds)
  /\ \A w \in Workers : WF_vars(Load(w)) /\ WF_vars(SeesEvent(w))
                        /\ WF_vars(Stops(w)) /\ WF_vars(Dies(w))

----------------------------------------------------------------------------
\* The parent stops, and kills its workers, only when it was asked to or a
\* worker has failed: reloads and max_requests never end it (run.py's active).
StopsForAReason ==
  (main \in {"terminate", "final", "returned", "ended"} \/ \E w \in Workers :
     state[w] \in {"dying", "killed"}) => asked \/ failed

\* run returns an error only if a worker failed; the SIGTERMs that it sends
\* itself at the end do not count (run.py:110).
NoFalseAlarm == exitcode # 0 => failed

\* Neither the end of run nor its error comes without a cause.
Justified == StopsForAReason /\ NoFalseAlarm

\* When run returns, every worker that is still alive has been told to end:
\* none is missing in the list when the processes are terminated.
NoWorkerLeft ==
  main \in {"final", "returned", "ended"} => \A w \in Alive : state[w] = "dying"

\* run returns the exit code of a worker that has failed (CHANGELOG.rst:53).
ExitCodeReturned == main \in {"returned", "ended"} /\ failed /\ ~asked => exitcode # 0

\* A shutdown whose event no reload clears ends the parent, wherever run was
\* when the signal came.
ShutdownEnds == (event /\ ~active /\ [](reloads = 0)) ~> main = "ended"

\* Once the reloader looks at a file that has been edited, every worker that
\* runs will have loaded it (check_for_updates; reload joins the old ones).
EditIsServed ==
  (main = "check" /\ watched < mtime) ~>
     (~active \/ \A w \in Workers : state[w] = "running" => loaded[w] = mtime)

\* A worker that has exited is replaced while the parent is active.
WorkersReplaced == (active /\ Exited # {}) ~> (~active \/ Exited = {})

\* While the parent is active its workers are there, and run what is on disk.
WorkersCurrent == EditIsServed /\ WorkersReplaced
=============================================================================
