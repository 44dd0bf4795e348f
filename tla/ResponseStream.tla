--------------------------- MODULE ResponseStream ---------------------------
(***************************************************************************)
(* What a multiplexed connection promises of the body of each response:    *)
(* the client gets the units the application sent, in order, each once, and *)
(* sees the end of the stream only when it has them all.  A stream may be  *)
(* cut at any time, by either side or with the connection.                 *)
(***************************************************************************)
EXTENDS Naturals, Sequences

CONSTANTS Streams, MaxUnits

VARIABLES
  accepted,   \* units of body the application sent
  delivered,  \* units the client is sent, in their order
  state       \* "open", "ended" or "cut"

responseVars == <<accepted, delivered, state>>

ResponseInit ==
  /\ accepted = [s \in Streams |-> 0]
  /\ delivered = [s \in Streams |-> <<>>]
  /\ state = [s \in Streams |-> "open"]

\* The application sends a part of its body, of a response that has not ended.
Accept(s) ==
  /\ state[s] # "ended"
  /\ \E n \in 1 .. (MaxUnits - accepted[s]) :
       accepted' = [accepted EXCEPT ![s] = @ + n]
  /\ UNCHANGED <<delivered, state>>

\* The client is sent the next units.
Deliver(s) ==
  /\ state[s] = "open"
  /\ \E n \in 1 .. (accepted[s] - Len(delivered[s])) :
       delivered' = [delivered EXCEPT ![s] =
                       @ \o [i \in 1 .. n |-> Len(delivered[s]) + i]]
  /\ UNCHANGED <<accepted, state>>

End(s) ==
  /\ state[s] = "open" /\ Len(delivered[s]) = accepted[s]
  /\ state' = [state EXCEPT ![s] = "ended"]
  /\ UNCHANGED <<accepted, delivered>>

Cut(ss) ==
  /\ state' = [s \in Streams |-> IF s \in ss /\ state[s] = "open" THEN "cut" ELSE state[s]]
  /\ UNCHANGED <<accepted, delivered>>

ResponseNext ==
  \/ \E s \in Streams : Accept(s) \/ Deliver(s) \/ End(s)
  \/ \E ss \in SUBSET Streams : Cut(ss)

ResponseSpec == ResponseInit /\ [][ResponseNext]_responseVars
=============================================================================
