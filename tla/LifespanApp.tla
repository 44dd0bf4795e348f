----------------------------- MODULE LifespanApp -----------------------------
(***************************************************************************)
(* What the worker expects of an application in its lifespan: it answers   *)
(* the messages in their order, each once, and does not return before it   *)
(* has received lifespan.shutdown.  It may raise at any time.              *)
(***************************************************************************)
EXTENDS Naturals, Sequences

VARIABLES
  received,   \* the messages the application has received
  answered,   \* how many of them it has completed
  over        \* it has returned or raised

vars == <<received, answered, over>>

Messages == <<"startup", "shutdown">>

Init == received = <<>> /\ answered = 0 /\ over = FALSE

Receive ==
  /\ ~over /\ Len(received) < Len(Messages)
  /\ received' = Append(received, Messages[Len(received) + 1])
  /\ UNCHANGED <<answered, over>>

Complete ==
  /\ ~over /\ answered < Len(received)
  /\ answered' = answered + 1 /\ UNCHANGED <<received, over>>

Return ==
  /\ ~over /\ received = Messages
  /\ over' = TRUE /\ UNCHANGED <<received, answered>>

Raise == ~over /\ over' = TRUE /\ UNCHANGED <<received, answered>>

Next == Receive \/ Complete \/ Return \/ Raise

Spec == Init /\ [][Next]_vars
=============================================================================
