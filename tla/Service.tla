------------------------------- MODULE Service -------------------------------
(***************************************************************************)
(* What a worker promises its application: requests run only between the   *)
(* lifespan's startup and its shutdown, and a request that has begun is    *)
(* cut off only with an excuse.                                            *)
(***************************************************************************)
CONSTANT Conns

VARIABLES
  phase,    \* "starting", "serving", "stopping", "told" to shut down, "ended"
  active,   \* the connections with a request that runs
  excuse    \* the grace period is over, or a task of the worker has failed

vars == <<phase, active, excuse>>

TypeOK ==
  /\ phase \in {"starting", "serving", "stopping", "told", "ended"}
  /\ active \subseteq Conns /\ excuse \in BOOLEAN

Init == phase = "starting" /\ active = {} /\ excuse = FALSE

Open == phase = "starting" /\ phase' = "serving" /\ UNCHANGED <<active, excuse>>

Begin(c) ==
  /\ phase \in {"serving", "stopping"} \/ (phase = "told" /\ excuse)
  /\ active' = active \cup {c} /\ UNCHANGED <<phase, excuse>>

End(c) == c \in active /\ active' = active \ {c} /\ UNCHANGED <<phase, excuse>>

Stop == phase = "serving" /\ phase' = "stopping" /\ UNCHANGED <<active, excuse>>

\* The requests of C are cut off.
CutOff(C) ==
  /\ excuse' = TRUE /\ active' = active \ C /\ UNCHANGED phase

\* The application is told to shut down.
Tell ==
  /\ phase = "stopping" /\ (active = {} \/ excuse)
  /\ phase' = "told" /\ UNCHANGED <<active, excuse>>

\* The worker ends, by itself or because it fails.
Close ==
  /\ phase' = "ended" /\ active' = {}
  /\ excuse' \in {excuse, TRUE} /\ (active = {} \/ excuse')

Next ==
  \/ Open \/ Stop \/ Tell \/ Close
  \/ \E c \in Conns : Begin(c) \/ End(c)
  \/ \E C \in SUBSET Conns : CutOff(C)

Spec == Init /\ [][Next]_vars
=============================================================================
