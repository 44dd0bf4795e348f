---------------------------- MODULE ManagerProofs ----------------------------
(***************************************************************************)
(* The parent process stops, kills its workers and returns an error only   *)
(* for a reason, and leaves no worker behind, for any number of workers,   *)
(* signals and edits.                                                      *)
(***************************************************************************)
EXTENDS ProcessManager, FiniteSetTheorems, TLAPS

Last == {"final", "returned", "ended"}

\* The flags that a reason leaves.
Reasons ==
  /\ ~active => asked \/ failed
  /\ main \in {"terminate"} \cup Last => ~active
  /\ exitcode # 0 => failed

\* Only the end of run kills; a worker that failed is remembered.
Kills ==
  /\ \A w \in Workers : state[w] \in {"dying", "killed"} => main \in Last
  /\ \A w \in Workers : state[w] = "failed" => failed

\* A worker that runs is in the list, but for the moment it is started in.
Listed == main # "append" => Alive \subseteq processes

Inv == TypeOK /\ Reasons /\ Kills /\ Listed /\ NoWorkerLeft

LEMMA Count == Cardinality(Workers) \in Nat
BY ManagerAssumption, FS_CardinalityType

LEMMA InitInv == Init => Inv
<1> SUFFICES ASSUME Init PROVE Inv
  OBVIOUS
<1>1. TypeOK
  <2>1. MaxReloads \in Nat /\ MaxEdits \in Nat
    BY ManagerAssumption
  <2>2. state \in [Workers -> {"none", "starting", "running", "stopping", "dying",
                             "ok", "failed", "killed"}]
    BY DEF Init
  <2>3. loaded \in [Workers -> 0 .. MaxEdits]
    BY <2>1 DEF Init
  <2>4. missing \in 0 .. Cardinality(Workers) /\ processes \subseteq Workers
    BY Count DEF Init
  <2>5. hups \in 0 .. MaxReloads /\ reloads \in 0 .. hups + 1
    BY <2>1 DEF Init
  <2>6. mtime \in 0 .. MaxEdits /\ watched \in 0 .. MaxEdits
    BY <2>1 DEF Init
  <2>7. /\ reloader \in BOOLEAN /\ active \in BOOLEAN /\ event \in BOOLEAN
        /\ installed \in BOOLEAN /\ asked \in BOOLEAN /\ failed \in BOOLEAN
        /\ main = "populate" /\ exitcode = 0
    BY DEF Init
  <2> QED BY <2>2, <2>3, <2>4, <2>5, <2>6, <2>7 DEF TypeOK
<1>2. Reasons /\ Kills /\ Listed /\ NoWorkerLeft
  BY DEF Init, Reasons, Kills, Listed, NoWorkerLeft, Last, Alive
<1> QED BY <1>1, <1>2 DEF Inv

\* The steps of a worker change its state, and nothing that run looks at.
LEMMA WorkerStep ==
  ASSUME Inv, NEW w \in Workers, Load(w) \/ SeesEvent(w) \/ Ends(w) \/ Fails(w) \/ Dies(w)
  PROVE  Inv'
<1>1. TypeOK'
  <2>1. state' \in [Workers -> {"none", "starting", "running", "stopping", "dying",
                              "ok", "failed", "killed"}]
    BY DEF Inv, TypeOK, Load, SeesEvent, Ends, Fails, Dies, Becomes
  <2>2. loaded' \in [Workers -> 0 .. MaxEdits]
    BY DEF Inv, TypeOK, Load, SeesEvent, Ends, Fails, Dies
  <2>3. failed' \in BOOLEAN
    BY DEF Inv, TypeOK, Load, SeesEvent, Ends, Fails, Dies
  <2> QED BY <2>1, <2>2, <2>3 DEF Inv, TypeOK, Load, SeesEvent, Ends, Fails, Dies,
          WorkerOnly, signalVars, fileVars
<1>2. Reasons'
  BY DEF Inv, Reasons, Last, Load, SeesEvent, Ends, Fails, Dies, WorkerOnly, signalVars
<1>3. Kills'
  BY DEF Inv, TypeOK, Kills, Last, Load, SeesEvent, Ends, Fails, Dies, Becomes, WorkerOnly
<1>4. Alive' \subseteq Alive
  BY DEF Inv, TypeOK, Alive, Load, SeesEvent, Ends, Fails, Dies, Becomes
<1>5. Listed'
  BY <1>4 DEF Inv, Listed, Load, SeesEvent, Ends, Fails, Dies, WorkerOnly
<1>6. NoWorkerLeft'
  BY DEF Inv, TypeOK, NoWorkerLeft, Alive, Load, SeesEvent, Ends, Fails, Dies,
         Becomes, WorkerOnly
<1> QED BY <1>1, <1>2, <1>3, <1>5, <1>6 DEF Inv

\* The handlers and the editor change no process and no place of run.
LEMMA SignalStep ==
  ASSUME Inv, Shutdown \/ Reload \/ ReloadEnds \/ Edit
  PROVE  Inv'
<1>1. TypeOK'
  <2>0. MaxReloads \in Nat /\ MaxEdits \in Nat
    BY ManagerAssumption
  <2>1. CASE Shutdown
    BY <2>1 DEF Inv, TypeOK, Shutdown, workerVars, fileVars
  <2>2. CASE Reload
    <3>1. hups' \in 0 .. MaxReloads /\ reloads' \in 0 .. hups' + 1
      BY <2>0, <2>2 DEF Inv, TypeOK, Reload
    <3> QED BY <2>2, <3>1 DEF Inv, TypeOK, Reload, workerVars, fileVars
  <2>3. CASE ReloadEnds
    <3>1. hups \in Nat /\ reloads \in 0 .. hups + 1 /\ reloads > 0
      BY <2>0, <2>3 DEF Inv, TypeOK, ReloadEnds
    <3>2. reloads - 1 \in 0 .. hups + 1
      BY <3>1
    <3> QED BY <2>3, <3>2 DEF Inv, TypeOK, ReloadEnds, workerVars, fileVars
  <2>4. CASE Edit
    <3>1. mtime' \in 0 .. MaxEdits
      BY <2>0, <2>4 DEF Inv, TypeOK, Edit
    <3> QED BY <2>4, <3>1 DEF Inv, TypeOK, Edit, workerVars, signalVars
  <2> QED BY <2>1, <2>2, <2>3, <2>4
<1>2. Reasons'
  BY DEF Inv, Reasons, Last, Shutdown, Reload, ReloadEnds, Edit, signalVars
<1>3. Kills' /\ Listed' /\ NoWorkerLeft'
  BY DEF Inv, Kills, Listed, NoWorkerLeft, Alive, Last, Shutdown, Reload,
         ReloadEnds, Edit, workerVars
<1> QED BY <1>1, <1>2, <1>3 DEF Inv

\* What _populate may start, and what it does.
LEMMA Populating ==
  ASSUME Inv, Populate \/ (\E w \in Workers : Start(w)) \/ Append \/ Populated
  PROVE  Inv'
<1>0. Cardinality(processes) \in Nat /\ Cardinality(processes) <= Cardinality(Workers)
  BY ManagerAssumption, FS_Subset, FS_CardinalityType DEF Inv, TypeOK
<1>1. Missing \in 0 .. Cardinality(Workers)
  BY <1>0, Count DEF Missing
<1>2. CASE Populate
  <2>1. TypeOK'
    BY <1>1, <1>2 DEF Inv, TypeOK, Populate, At, workerVars, signalVars, fileVars
  <2>2. Reasons' /\ Kills' /\ Listed' /\ NoWorkerLeft'
    BY <1>2 DEF Inv, Populate, At, Reasons, Kills, Listed, NoWorkerLeft, Alive,
                Last, workerVars, signalVars
  <2> QED BY <2>1, <2>2 DEF Inv
<1>3. ASSUME NEW w \in Workers, Start(w) PROVE Inv'
  <2>1. TypeOK'
    BY <1>3, Count DEF Inv, TypeOK, Start, At, Becomes, signalVars, fileVars
  <2>2. Reasons' /\ Listed' /\ NoWorkerLeft'
    BY <1>3 DEF Inv, Start, At, Reasons, Listed, NoWorkerLeft, Last, signalVars
  <2>3. Kills'
    BY <1>3 DEF Inv, TypeOK, Start, At, Becomes, Kills, Last
  <2> QED BY <2>1, <2>2, <2>3 DEF Inv
<1>4. CASE Append
  <2>1. TypeOK'
    BY <1>4 DEF Inv, TypeOK, Append, At, Started, workerVars, signalVars, fileVars
  <2>2. Alive' \subseteq processes'
    BY <1>4 DEF Append, Started, Alive, workerVars
  <2>3. Reasons' /\ Kills' /\ Listed' /\ NoWorkerLeft'
    BY <1>4, <2>2 DEF Inv, Append, At, Reasons, Kills, Listed, NoWorkerLeft,
                      Last, workerVars, signalVars
  <2> QED BY <2>1, <2>3 DEF Inv
<1>5. CASE Populated
  <2>1. TypeOK'
    BY <1>5 DEF Inv, TypeOK, Populated, At, workerVars, signalVars, fileVars
  <2>2. Reasons' /\ Kills' /\ Listed' /\ NoWorkerLeft'
    BY <1>5 DEF Inv, Populated, At, Reasons, Kills, Listed, NoWorkerLeft, Alive,
                Last, workerVars, signalVars
  <2> QED BY <2>1, <2>2 DEF Inv
<1> QED BY <1>2, <1>3, <1>4, <1>5

\* The loop's wait.
LEMMA Waiting ==
  ASSUME Inv, Install \/ Watch \/ Wait \/ CheckForUpdates
  PROVE  Inv'
<1>1. TypeOK'
  <2>1. CASE Install
    BY <2>1 DEF Inv, TypeOK, Install, workerVars, fileVars
  <2>2. CASE Watch
    BY <2>2 DEF Inv, TypeOK, Watch, workerVars, signalVars
  <2>3. CASE Wait
    BY <2>3 DEF Inv, TypeOK, Wait, workerVars, signalVars, fileVars
  <2>4. CASE CheckForUpdates
    <3>1. hups \in Nat
      BY ManagerAssumption DEF Inv, TypeOK
    <3>2. reloads = 0 /\ reloads' \in {0, 1} /\ event' \in BOOLEAN
      <4>1. CASE Updated
        BY <2>4, <4>1 DEF CheckForUpdates, At
      <4>2. CASE ~Updated
        BY <2>4, <4>2 DEF Inv, TypeOK, CheckForUpdates, At
      <4> QED BY <4>1, <4>2
    <3>3. reloads' \in 0 .. hups + 1
      BY <3>1, <3>2
    <3> QED BY <2>4, <3>2, <3>3 DEF Inv, TypeOK, CheckForUpdates, workerVars, fileVars
  <2> QED BY <2>1, <2>2, <2>3, <2>4
<1>2. Reasons'
  BY DEF Inv, Reasons, Last, Install, Watch, Wait, CheckForUpdates, At, signalVars
<1>3. Kills' /\ Listed' /\ NoWorkerLeft'
  BY DEF Inv, Kills, Listed, NoWorkerLeft, Alive, Last, Install, Watch, Wait,
         CheckForUpdates, At, workerVars
<1> QED BY <1>1, <1>2, <1>3 DEF Inv

\* A code that is not 0 before the end of run is that of a failure.
LEMMA CodeIsFailure ==
  ASSUME Inv, main \notin Last, ExitCode # 0
  PROVE  failed
<1>1. PICK w \in Workers : state[w] \in {"failed", "killed"}
  BY DEF Inv, TypeOK, ExitCode, NonZero
<1> QED BY <1>1 DEF Inv, Kills

\* The exited processes leave the list.
LEMMA Joining ==
  ASSUME Inv, JoinExited
  PROVE  /\ processes' \subseteq Workers
         /\ state' \in [Workers -> {"none", "starting", "running", "stopping",
                                   "dying", "ok", "failed", "killed"}]
         /\ \A w \in Workers : state'[w] \in {state[w], "none"}
         /\ Alive' \subseteq Alive
         /\ Alive \subseteq processes => Alive' \subseteq processes'
<1>1. /\ processes' \subseteq Workers
      /\ \A w \in Workers : state'[w] \in {state[w], "none"}
  BY DEF Inv, TypeOK, JoinExited
<1>2. state' \in [Workers -> {"none", "starting", "running", "stopping",
                             "dying", "ok", "failed", "killed"}]
  BY DEF Inv, TypeOK, JoinExited
<1>3. Alive' \subseteq Alive
  BY <1>1 DEF Alive
<1>4. Alive \subseteq processes => Alive' \subseteq processes'
  BY <1>3 DEF JoinExited, Exited, Alive
<1> QED BY <1>1, <1>2, <1>3, <1>4

LEMMA Collecting == ASSUME Inv, Collect PROVE Inv'
<1>1. TypeOK'
  <2>1. active' \in BOOLEAN /\ event' \in BOOLEAN /\ exitcode' \in {0, 1}
    BY DEF Inv, TypeOK, Collect, ExitCode
  <2> QED BY <2>1, Joining DEF Inv, TypeOK, Collect, At, signalVars, fileVars
<1>2. main' \in {"populate", "terminate"} /\ main = "exited"
  BY DEF Collect, At
<1>3. ExitCode # 0 => failed
  BY <1>2, CodeIsFailure DEF Last
<1>4. Reasons'
  BY <1>2, <1>3 DEF Inv, Reasons, Last, Collect, signalVars
<1>5. Kills'
  BY <1>2, Joining DEF Inv, Kills, Last, Collect
<1>6. Listed' /\ NoWorkerLeft'
  BY <1>2, Joining DEF Inv, Listed, NoWorkerLeft, Collect
<1> QED BY <1>1, <1>4, <1>5, <1>6 DEF Inv

\* Every worker that runs is in the list, and is told to end.
LEMMA Terminating == ASSUME Inv, Terminate PROVE Inv'
<1>1. Alive \subseteq processes
  BY DEF Inv, Listed, Terminate, At
<1>2. TypeOK'
  BY DEF Inv, TypeOK, Terminate, At, signalVars, fileVars
<1>3. \A w \in Workers : state'[w] = IF w \in Alive THEN "dying" ELSE state[w]
  BY <1>1 DEF Terminate
<1>4. Alive' = Alive
  BY <1>3 DEF Alive
<1>5. Reasons'
  BY DEF Inv, Reasons, Last, Terminate, At, signalVars
<1>6. Kills'
  BY <1>3 DEF Inv, Kills, Last, Terminate
<1>7. Listed'
  BY <1>1, <1>4 DEF Listed, Terminate
<1>8. NoWorkerLeft'
  BY <1>3, <1>4 DEF NoWorkerLeft, Alive
<1> QED BY <1>2, <1>5, <1>6, <1>7, <1>8 DEF Inv

LEMMA Returning == ASSUME Inv, Return PROVE Inv'
<1>1. CASE exitcode # 0
  <2>1. JoinExited /\ main' = "returned" /\ main = "final" /\ failed /\ failed' = failed
    BY <1>1 DEF Inv, Reasons, Return, At
  <2>2. TypeOK'
    BY <2>1, Joining DEF Inv, TypeOK, Return, LastCode, ExitCode, signalVars, fileVars
  <2>3. Reasons'
    BY <2>1 DEF Inv, Reasons, Last, Return, signalVars
  <2>4. Kills' /\ Listed'
    BY <2>1, Joining DEF Inv, Kills, Listed, Last
  <2>5. NoWorkerLeft'
    <3> SUFFICES ASSUME NEW w \in Alive' PROVE state'[w] = "dying"
      BY DEF NoWorkerLeft
    <3>1. w \in Workers /\ w \in Alive /\ state'[w] # "none"
      BY <2>1, Joining DEF Alive
    <3> QED BY <3>1, <2>1, Joining DEF Inv, NoWorkerLeft
  <2> QED BY <2>2, <2>3, <2>4, <2>5 DEF Inv
<1>2. CASE exitcode = 0
  <2>1. TypeOK'
    BY <1>2 DEF Inv, TypeOK, Return, At, LastCode, signalVars, fileVars
  <2>2. Reasons' /\ Kills' /\ Listed' /\ NoWorkerLeft'
    BY <1>2 DEF Inv, Reasons, Kills, Listed, NoWorkerLeft, Alive, Last, Return,
                At, LastCode, signalVars
  <2> QED BY <2>1, <2>2 DEF Inv
<1> QED BY <1>1, <1>2

LEMMA Exiting == ASSUME Inv, Exit PROVE Inv'
<1>1. TypeOK'
  BY DEF Inv, TypeOK, Exit, At, workerVars, signalVars, fileVars
<1>2. Reasons' /\ Kills' /\ Listed' /\ NoWorkerLeft'
  BY DEF Inv, Reasons, Kills, Listed, NoWorkerLeft, Alive, Last, Exit, At,
         workerVars, signalVars
<1> QED BY <1>1, <1>2 DEF Inv

LEMMA NextInv == Inv /\ [Next]_vars => Inv'
<1> SUFFICES ASSUME Inv, [Next]_vars PROVE Inv'
  OBVIOUS
<1>1. CASE MainStep
  BY <1>1, Populating, Waiting, Collecting, Terminating, Returning, Exiting DEF MainStep
<1>2. CASE Shutdown \/ Reload \/ ReloadEnds \/ Edit
  BY <1>2, SignalStep
<1>3. CASE \E w \in Workers : Load(w) \/ SeesEvent(w) \/ Ends(w) \/ Fails(w) \/ Dies(w)
  BY <1>3, WorkerStep
<1>4. CASE UNCHANGED vars
  BY <1>4 DEF Inv, TypeOK, Reasons, Kills, Listed, NoWorkerLeft, Alive, Last, vars,
              workerVars, signalVars, fileVars
<1> QED BY <1>1, <1>2, <1>3, <1>4 DEF Next

LEMMA Always == Spec => []Inv
BY InitInv, NextInv, PTL DEF Spec

\* The variables of run.py keep their types; _populate starts no more than
\* config.workers processes.
THEOREM TypeCorrect == Spec => []TypeOK
<1>1. Inv => TypeOK
  BY DEF Inv
<1> QED BY <1>1, Always, PTL

\* The parent stops and kills only when it was asked to or a worker failed, and
\* run returns an error only if a worker failed.
THEOREM Reasonable == Spec => []Justified
<1>1. Inv => StopsForAReason
  BY DEF Inv, Reasons, Kills, Last, StopsForAReason
<1>2. Inv => NoFalseAlarm
  BY DEF Inv, Reasons, NoFalseAlarm
<1>3. Inv => Justified
  BY <1>1, <1>2 DEF Justified
<1> QED BY <1>3, Always, PTL

\* Every worker that is alive when run returns has been told to end.
THEOREM AllTold == Spec => []NoWorkerLeft
<1>1. Inv => NoWorkerLeft
  BY DEF Inv
<1> QED BY <1>1, Always, PTL
=============================================================================
