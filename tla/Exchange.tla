------------------------------ MODULE Exchange ------------------------------
(***************************************************************************)
(* What one HTTP/1 connection promises to the applications it runs, one    *)
(* per request: they are opened one after the other, each is closed once,  *)
(* and each is told of the closure (http.disconnect) once, after it.       *)
(***************************************************************************)
EXTENDS Naturals

CONSTANT Apps      \* the applications, numbered in the order of the requests

VARIABLES phase, told

exchangeVars == <<phase, told>>

ExchangeInit ==
  /\ phase = [r \in Apps |-> "waiting"]
  /\ told = [r \in Apps |-> 0]

\* A request: no other application is open, and none of a later request was.
OpenApp(r) ==
  /\ phase[r] = "waiting"
  /\ \A q \in Apps : phase[q] # "open" /\ (q > r => phase[q] = "waiting")
  /\ phase' = [phase EXCEPT ![r] = "open"]
  /\ UNCHANGED told

CloseApp(r) ==
  /\ phase[r] = "open"
  /\ phase' = [phase EXCEPT ![r] = "closed"]
  /\ UNCHANGED told

\* The application is told, in the step that closes it or later.
TellApp(r) ==
  /\ phase[r] \in {"open", "closed"} /\ told[r] = 0
  /\ phase' = [phase EXCEPT ![r] = "closed"]
  /\ told' = [told EXCEPT ![r] = 1]

ExchangeNext == \E r \in Apps : OpenApp(r) \/ CloseApp(r) \/ TellApp(r)

ExchangeSpec == ExchangeInit /\ [][ExchangeNext]_exchangeVars
=============================================================================
