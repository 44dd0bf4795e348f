------------------------------ MODULE AppsProofs ------------------------------
(***************************************************************************)
(* Theorems about MCApps and its parts, for any number of applications and *)
(* proxies, any sizes of queues and bodies: a dispatcher is an             *)
(* application, a WSGI application is given the whole body, the right path *)
(* and the address, scheme and host of the user, and its client one        *)
(* response, complete only if the application's is.                        *)
(***************************************************************************)
EXTENDS MCApps, SequenceTheorems, WellFoundedInduction, TLAPS

----------------------------------------------------------------------------
(* The request: the inductive invariants.                                  *)

\* Where the application's task is before there is a thread, and for good
\* without one.
Before == {"stream", "enter", "body", "refused", "close", "redirect", "400", "404", "answered"}

ThreadInv ==
  /\ task \in Before => thread = "none"
  /\ thread \in {"none", "call"} => chunks = 0
  /\ thread \notin {"done", "failed"} => closes = 0
  /\ thread = "done" => closes = 1
  /\ thread = "failed" => closes = 1 \/ (closes = 0 /\ chunks = 0)
  /\ ~cut => /\ task = "thread" => thread # "none"
             /\ task # "thread" => thread \in {"none", "done", "failed"}
             /\ task = "final" => thread = "done"

\* What the client has sent is in the body or in the queue.
AllParts(q, n) == \A i \in 1 .. n : q[i] = "part"
BodyInv ==
  /\ task = "body" => body <= MaxBodySize
  /\ task \in {"stream", "enter"} => body = 0
  /\ client = "sends" =>
       thread = "none" /\ AllParts(queue, Len(queue)) /\ body + Len(queue) = parts
  /\ client = "sent" =>
       \/ queue = <<>> /\ body = parts
       \/ /\ thread = "none" /\ queue # <<>> /\ queue[Len(queue)] = "end"
          /\ AllParts(queue, Len(queue) - 1) /\ body + Len(queue) = parts + 1
  /\ thread # "none" => body <= MaxBodySize

\* How far the response is: begun, ended, refused, or cut short.
Begun(o, n) == n >= 1 /\ o[1] = "Response" /\ \A i \in 2 .. n : o[i] = "Body"
Ended(o) ==
  /\ Len(o) >= 3 /\ Begun(o, Len(o) - 2)
  /\ o[Len(o) - 1] = "EndBody" /\ o[Len(o)] = "StreamClosed"
CutShort(o) == Len(o) >= 2 /\ Begun(o, Len(o) - 1) /\ o[Len(o)] = "StreamClosed"
NoBody(o) == \A i \in 1 .. Len(o) : o[i] # "Body"
Open(o) == Len(o) >= 1 /\ Begun(o, Len(o))

OutInv ==
  /\ thread = "none" => NoBody(out)
  /\ task = "stream" => state = "REQUEST"
  /\ task = "refused" => out = ErrorResponse
  /\ ~cut /\ task \notin {"refused", "handled"} =>
       /\ state = "REQUEST" => out = <<>>
       /\ state = "RESPONSE" => Open(out)
       /\ state = "CLOSED" => closed /\ Ended(out)
  /\ ~cut /\ task = "handled" =>
       out = <<>> \/ Open(out) \/ Ended(out) \/ CutShort(out)
  /\ ~cut /\ Ended(out) /\ ~NoBody(out) => thread = "done"

RequestInv == RequestTypeOK /\ ThreadInv /\ BodyInv /\ OutInv

\* Where the application is mounted: the first mount that the path begins with.
First(i) ==
  /\ i \in 1 .. Len(setup.mounts) /\ IsPrefix(setup.mounts[i], scope.path)
  /\ \A j \in 1 .. i - 1 : ~IsPrefix(setup.mounts[j], scope.path)
\* The paths and mounts are lists of characters of L.
PathTypes(L) ==
  /\ setup.mounts \in Seq(Seq(L))
  /\ {"path", "root_path"} \subseteq DOMAIN scope
  /\ scope.path \in Seq(L) /\ scope.root_path \in Seq(L)
PathInv(L) ==
  /\ PathTypes(L)
  /\ task \in {"stream", "enter"} => environ = None
  /\ task = "body" \/ environ # None =>
       \E i \in 1 .. Len(setup.mounts), r \in Seq(L) :
         First(i) /\ scope.root_path = r \o setup.mounts[i]
  /\ environ # None => environ = Environ(scope)

\* What a scope says of the user, and the host of a proxied request.
Seen(s) ==
  /\ s.client = "user" /\ s.scheme = setup.user
  /\ setup.hops > 0 =>
       /\ Values("host", s.headers) = <<"site">>
       /\ "host" \in {s.headers[i].name : i \in DOMAIN s.headers}
UserInv ==
  /\ {"type", "client", "scheme", "version", "headers"} \subseteq DOMAIN scope
  /\ setup.user \in {"http", "https"}
  /\ scope.type = "http" =>
       /\ ~Fixed => Seen(ProxyFix(setup.mode, setup.hops, scope))
       /\ Fixed => Seen(scope)
       /\ task = "stream" /\ scope.version = "2" => setup.hops = 0
       /\ task = "body" \/ thread # "none" => setup.user = "https"
       /\ task = "redirect" => setup.user = "http"

----------------------------------------------------------------------------
(* What the stream gives the protocol.                                     *)

LEMMA JoinedSeq ==
  ASSUME NEW S, NEW s \in Seq(S), NEW t \in Seq(S)
  PROVE  /\ s \o t \in Seq(S) /\ Len(s \o t) = Len(s) + Len(t)
         /\ \A i \in 1 .. Len(s) : (s \o t)[i] = s[i]
         /\ \A i \in 1 .. Len(t) : (s \o t)[Len(s) + i] = t[i]
<1>1. Len(s) \in Nat /\ Len(t) \in Nat
  BY LenProperties
<1>2. s \o t \in Seq(S) /\ Len(s \o t) = Len(s) + Len(t)
      /\ \A i \in 1 .. Len(s) + Len(t) :
           (s \o t)[i] = IF i <= Len(s) THEN s[i] ELSE t[i - Len(s)]
  BY ConcatProperties
<1>3. \A i \in 1 .. Len(s) : (s \o t)[i] = s[i]
  BY <1>1, <1>2
<1>4. ASSUME NEW i \in 1 .. Len(t)
      PROVE  (s \o t)[Len(s) + i] = t[i]
  <2>1. Len(s) + i \in 1 .. Len(s) + Len(t) /\ ~(Len(s) + i <= Len(s)) /\ Len(s) + i - Len(s) = i
    BY <1>1
  <2> QED BY <1>2, <2>1
<1> QED BY <1>2, <1>3, <1>4

LEMMA OpenFirst ==
  /\ Append(<<>>, "Response") \in Seq(Sent) /\ Open(Append(<<>>, "Response"))
  /\ NoBody(Append(<<>>, "Response"))
<1>1. Append(<<>>, "Response") = <<"Response">>
  OBVIOUS
<1>2. Len(<<"Response">>) = 1 /\ <<"Response">>[1] = "Response" /\ <<"Response">> \in Seq(Sent)
  BY DEF Sent
<1> QED BY <1>1, <1>2 DEF Open, Begun, NoBody

LEMMA OpenMore ==
  ASSUME NEW o \in Seq(Sent), Open(o)
  PROVE  Append(o, "Body") \in Seq(Sent) /\ Open(Append(o, "Body"))
<1>1. "Body" \in Sent /\ Len(o) \in Nat /\ Len(o) >= 1
  BY LenProperties DEF Sent, Open
<1>2. /\ Append(o, "Body") \in Seq(Sent) /\ Len(Append(o, "Body")) = Len(o) + 1
      /\ \A i \in 1 .. Len(o) : Append(o, "Body")[i] = o[i]
      /\ Append(o, "Body")[Len(o) + 1] = "Body"
  BY <1>1, AppendProperties
<1>3. \A i \in 2 .. Len(o) + 1 : Append(o, "Body")[i] = "Body"
  BY <1>1, <1>2 DEF Open, Begun
<1>4. Append(o, "Body")[1] = "Response"
  BY <1>1, <1>2 DEF Open, Begun
<1> QED BY <1>1, <1>2, <1>3, <1>4 DEF Open, Begun

LEMMA OpenEnds ==
  ASSUME NEW o \in Seq(Sent), Open(o)
  PROVE  /\ o \o <<"EndBody", "StreamClosed">> \in Seq(Sent)
         /\ Ended(o \o <<"EndBody", "StreamClosed">>)
         /\ NoBody(o) => NoBody(o \o <<"EndBody", "StreamClosed">>)
<1> DEFINE t == <<"EndBody", "StreamClosed">>
           r == o \o t
<1>1. t \in Seq(Sent) /\ Len(t) = 2 /\ t[1] = "EndBody" /\ t[2] = "StreamClosed"
      /\ 1 \in 1 .. 2 /\ 2 \in 1 .. 2
  BY DEF Sent
<1>2. Len(o) \in Nat /\ Len(o) >= 1
  BY LenProperties DEF Open
<1> HIDE DEF t
<1>3. /\ r \in Seq(Sent) /\ Len(r) = Len(o) + 2 /\ \A i \in 1 .. Len(o) : r[i] = o[i]
      /\ r[Len(o) + 1] = "EndBody" /\ r[Len(o) + 2] = "StreamClosed"
  <2>1. /\ r \in Seq(Sent) /\ Len(r) = Len(o) + Len(t) /\ \A i \in 1 .. Len(o) : r[i] = o[i]
        /\ \A i \in 1 .. Len(t) : r[Len(o) + i] = t[i]
    <3>1. o \in Seq(Sent) /\ t \in Seq(Sent)
      BY <1>1
    <3> HIDE <1>1
    <3> QED BY <3>1, JoinedSeq
  <2> HIDE DEF r
  <2>2. r[Len(o) + 1] = t[1] /\ r[Len(o) + 2] = t[2]
    BY <1>1, <2>1
  <2> QED BY <1>1, <2>1, <2>2
<1> HIDE DEF r
<1>4. Len(r) >= 3 /\ Len(r) - 2 = Len(o) /\ Len(r) - 1 = Len(o) + 1
  BY <1>2, <1>3
<1>5. Begun(r, Len(o))
  BY <1>2, <1>3 DEF Open, Begun
<1>6. Ended(r)
  BY <1>3, <1>4, <1>5 DEF Ended
<1>7. ASSUME NoBody(o)
      PROVE  NoBody(r)
  <2>1. \A i \in 1 .. Len(r) : i \in 1 .. Len(o) \/ i = Len(o) + 1 \/ i = Len(o) + 2
    BY <1>2, <1>3
  <2> QED BY <1>3, <1>7, <2>1 DEF NoBody
<1> QED BY <1>3, <1>6, <1>7 DEF r, t

LEMMA OpenCut ==
  ASSUME NEW o \in Seq(Sent), Open(o)
  PROVE  /\ (o \o <<>>) \o <<"StreamClosed">> \in Seq(Sent)
         /\ CutShort((o \o <<>>) \o <<"StreamClosed">>)
         /\ NoBody(o) => NoBody((o \o <<>>) \o <<"StreamClosed">>)
<1> DEFINE t == <<"StreamClosed">>
           p == o \o <<>>
           r == p \o t
<1>1. t \in Seq(Sent) /\ Len(t) = 1 /\ t[1] = "StreamClosed"
  BY DEF Sent
<1>2. Len(o) \in Nat /\ Len(o) >= 1 /\ <<>> \in Seq(Sent) /\ Len(<<>>) = 0
  BY LenProperties, EmptySeq DEF Open
<1> HIDE DEF t
<1>3. p \in Seq(Sent) /\ Len(p) = Len(o) /\ \A i \in 1 .. Len(o) : p[i] = o[i]
  BY <1>2, JoinedSeq
<1> HIDE DEF p
<1>4. /\ r \in Seq(Sent) /\ Len(r) = Len(o) + 1 /\ \A i \in 1 .. Len(o) : r[i] = o[i]
      /\ r[Len(o) + 1] = "StreamClosed"
  BY <1>1, <1>3, JoinedSeq
<1> HIDE DEF r
<1>5. CutShort(r)
  <2>1. Len(r) >= 2 /\ Len(r) - 1 = Len(o)
    BY <1>2, <1>4
  <2>2. Begun(r, Len(o))
    BY <1>2, <1>4 DEF Open, Begun
  <2> QED BY <1>4, <2>1, <2>2 DEF CutShort
<1>6. ASSUME NoBody(o)
      PROVE  NoBody(r)
  <2>1. \A i \in 1 .. Len(r) : i \in 1 .. Len(o) \/ i = Len(o) + 1
    BY <1>2, <1>4
  <2> QED BY <1>4, <1>6, <2>1 DEF NoBody
<1> QED BY <1>4, <1>5, <1>6 DEF r, p, t

LEMMA ErrorEnds ==
  /\ ErrorResponse \in Seq(Sent) /\ NoBody(ErrorResponse)
  /\ (<<>> \o ErrorResponse) \o <<"StreamClosed">> \in Seq(Sent)
  /\ Ended((<<>> \o ErrorResponse) \o <<"StreamClosed">>)
  /\ NoBody((<<>> \o ErrorResponse) \o <<"StreamClosed">>)
<1> DEFINE e == ErrorResponse
           t == <<"StreamClosed">>
           p == <<>> \o e
           r == p \o t
<1>1. t \in Seq(Sent) /\ Len(t) = 1 /\ t[1] = "StreamClosed"
  BY DEF Sent
<1>2. e \in Seq(Sent) /\ Len(e) = 2 /\ e[1] = "Response" /\ e[2] = "EndBody"
  BY DEF Sent, ErrorResponse
<1>3. NoBody(ErrorResponse)
  <2>1. \A i \in 1 .. 2 : i = 1 \/ i = 2
    OBVIOUS
  <2> QED BY <1>2, <2>1 DEF NoBody
<1>4. <<>> \in Seq(Sent) /\ Len(<<>>) = 0
  BY EmptySeq
<1> HIDE DEF t, e
<1>5. p \in Seq(Sent) /\ Len(p) = 2 /\ p[0 + 1] = "Response" /\ p[0 + 2] = "EndBody"
  <2>1. p = e
    BY <1>2, ConcatEmptySeq
  <2> QED BY <1>2, <2>1
<1> HIDE DEF p
<1>6. r \in Seq(Sent) /\ Len(r) = 3 /\ r[1] = "Response" /\ r[2] = "EndBody"
      /\ r[2 + 1] = "StreamClosed"
  <2>1. /\ r \in Seq(Sent) /\ Len(r) = Len(p) + Len(t)
        /\ \A i \in 1 .. Len(p) : r[i] = p[i]
        /\ \A i \in 1 .. Len(t) : r[Len(p) + i] = t[i]
    <3>1. p \in Seq(Sent) /\ t \in Seq(Sent)
      BY <1>1, <1>5
    <3> QED BY <3>1, JoinedSeq
  <2> HIDE DEF r
  <2>2. 1 \in 1 .. 2 /\ 2 \in 1 .. 2 /\ 1 \in 1 .. 1
    OBVIOUS
  <2> QED BY <1>1, <1>5, <2>1, <2>2
<1> HIDE DEF r
<1>7. Ended(r)
  BY <1>6 DEF Ended, Begun
<1>8. NoBody(r)
  <2>1. \A i \in 1 .. 3 : i = 1 \/ i = 2 \/ i = 3
    OBVIOUS
  <2> QED BY <1>6, <2>1 DEF NoBody
<1> QED BY <1>2, <1>3, <1>6, <1>7, <1>8 DEF r, p, t, e

\* The forms exclude one another, and each is one response.
LEMMA Forms ==
  ASSUME NEW o \in Seq(Sent)
  PROVE  /\ Open(o) => ~Ended(o) /\ o # <<>>
         /\ CutShort(o) => ~Ended(o)
         /\ o = <<>> => NoBody(o) /\ ~Ended(o)
<1>1. Len(o) \in Nat /\ DOMAIN o = 1 .. Len(o)
  BY LenProperties
<1>2. ASSUME Open(o), Ended(o)
      PROVE  FALSE
  <2>1. Len(o) \in 2 .. Len(o)
    BY <1>1, <1>2 DEF Ended
  <2> QED BY <1>2, <2>1 DEF Open, Ended, Begun
<1>3. ASSUME CutShort(o), Ended(o)
      PROVE  FALSE
  <2>1. Len(o) - 1 \in 2 .. Len(o) - 1
    BY <1>1, <1>3 DEF Ended
  <2> QED BY <1>3, <2>1 DEF CutShort, Ended, Begun
<1>4. o = <<>> => Len(o) = 0
  BY EmptySeq
<1> QED BY <1>1, <1>2, <1>3, <1>4 DEF NoBody, Ended, Open

OneIn(o) ==
  \A i \in DOMAIN o :
    /\ o[i] = "Response" <=> i = 1
    /\ o[i] = "EndBody" => i >= Len(o) - 1
    /\ o[i] = "StreamClosed" => i = Len(o)

LEMMA Positions ==
  ASSUME NEW n \in Nat
  PROVE  /\ n >= 3 => \A i \in 1 .. n : i = 1 \/ i \in 2 .. n - 2 \/ i = n - 1 \/ i = n
         /\ n >= 2 => \A i \in 1 .. n : i = 1 \/ i \in 2 .. n - 1 \/ i = n
OBVIOUS

LEMMA FormsAreOne ==
  ASSUME NEW o \in Seq(Sent), o = <<>> \/ Open(o) \/ Ended(o) \/ CutShort(o) \/ o = ErrorResponse
  PROVE  OneIn(o)
<1>1. Len(o) \in Nat /\ DOMAIN o = 1 .. Len(o)
  BY LenProperties
<1>2. CASE o = <<>>
  <2>1. Len(o) = 0
    BY <1>2, EmptySeq
  <2> QED BY <1>1, <2>1 DEF OneIn
<1>3. CASE Open(o)
  <2>1. \A i \in 1 .. Len(o) : i = 1 \/ i \in 2 .. Len(o)
    BY <1>1
  <2> QED BY <1>1, <1>3, <2>1 DEF OneIn, Open, Begun
<1>4. CASE Ended(o)
  <2>0. Len(o) >= 3
    BY <1>4 DEF Ended
  <2>1. /\ \A i \in 1 .. Len(o) : i = 1 \/ i \in 2 .. Len(o) - 2 \/ i = Len(o) - 1 \/ i = Len(o)
        /\ Len(o) >= 3
    BY <1>1, <2>0, Positions
  <2>2. ASSUME NEW i \in 1 .. Len(o)
        PROVE  /\ o[i] = "Response" <=> i = 1
               /\ o[i] = "EndBody" => i >= Len(o) - 1
               /\ o[i] = "StreamClosed" => i = Len(o)
    <3>1. CASE i = 1
      BY <1>4, <3>1 DEF Ended, Begun
    <3>2. CASE i \in 2 .. Len(o) - 2
      BY <1>4, <3>2 DEF Ended, Begun
    <3>3. CASE i = Len(o) - 1
      <4>1. o[i] = "EndBody"
        BY <1>4, <3>3 DEF Ended
      <4> QED BY <1>1, <2>0, <3>3, <4>1
    <3>4. CASE i = Len(o)
      <4>1. o[i] = "StreamClosed"
        BY <1>4, <3>4 DEF Ended
      <4> QED BY <1>1, <2>0, <3>4, <4>1
    <3> QED BY <2>1, <3>1, <3>2, <3>3, <3>4
  <2> QED BY <1>1, <2>2 DEF OneIn
<1>5. CASE CutShort(o)
  <2>0. Len(o) >= 2
    BY <1>5 DEF CutShort
  <2>1. \A i \in 1 .. Len(o) : i = 1 \/ i \in 2 .. Len(o) - 1 \/ i = Len(o)
    BY <1>1, <2>0, Positions
  <2> QED BY <1>1, <1>5, <2>0, <2>1 DEF OneIn, CutShort, Begun
<1>6. CASE o = ErrorResponse
  <2>1. Len(o) = 2 /\ o[1] = "Response" /\ o[2] = "EndBody" /\ \A i \in 1 .. 2 : i = 1 \/ i = 2
    BY <1>6 DEF ErrorResponse
  <2> QED BY <1>1, <2>1 DEF OneIn
<1> QED BY <1>2, <1>3, <1>4, <1>5, <1>6

----------------------------------------------------------------------------
(* Every step of a request.                                                *)

LEMMA ThreadNext ==
  ASSUME RequestTypeOK, ThreadInv, RequestNext
  PROVE  ThreadInv'
<1>1. CASE Request
  BY <1>1, RequestAssumption DEF Request, ThreadInv, Before, RequestTypeOK,
     scopeVars, clientVars, threadVars, streamVars
<1>2. CASE Enter
  BY <1>2, RequestAssumption DEF Enter, Goto, Redirect, ThreadInv, Before, RequestTypeOK,
     scopeVars, clientVars, threadVars, streamVars
<1>3. CASE TakeBody
  BY <1>3, RequestAssumption DEF TakeBody, ThreadInv, Before, RequestTypeOK,
     scopeVars, clientVars, threadVars, streamVars
<1>4. CASE Answer
  BY <1>4, RequestAssumption DEF Answer, Goto, Start, ThreadInv, Before, RequestTypeOK,
     scopeVars, clientVars, threadVars, streamVars
<1>5. CASE EndAnswer
  BY <1>5, RequestAssumption DEF EndAnswer, Goto, End, ThreadInv, Before, RequestTypeOK,
     scopeVars, clientVars, threadVars, streamVars
<1>6. CASE Joined
  BY <1>6, RequestAssumption DEF Joined, Goto, AfterThread, ThreadInv, Before, RequestTypeOK,
     scopeVars, clientVars, threadVars, streamVars
<1>7. CASE FinalBody
  BY <1>7, RequestAssumption DEF FinalBody, Goto, End, ThreadInv, Before, RequestTypeOK,
     scopeVars, clientVars, threadVars, streamVars
<1>8. CASE Handled
  BY <1>8, RequestAssumption DEF Handled, ThreadInv, Before, RequestTypeOK,
     scopeVars, clientVars, threadVars, streamVars
<1>9. CASE AppCalled
  BY <1>9, RequestAssumption DEF AppCalled, Thread, ThreadInv, Before, RequestTypeOK,
     scopeVars, clientVars, threadVars, streamVars
<1>10. CASE AppYields
  BY <1>10, RequestAssumption DEF AppYields, Thread, ThreadInv, Before, RequestTypeOK,
     scopeVars, clientVars, threadVars, streamVars
<1>11. CASE AppEnds
  BY <1>11, RequestAssumption DEF AppEnds, Thread, ThreadInv, Before, RequestTypeOK,
     scopeVars, clientVars, threadVars, streamVars
<1>12. CASE AppFails
  BY <1>12, RequestAssumption DEF AppFails, Thread, FailsAfterClose, ThreadInv, Before, RequestTypeOK,
     scopeVars, clientVars, threadVars, streamVars
<1>13. CASE SendStart
  BY <1>13, RequestAssumption DEF SendStart, Thread, Start, ThreadInv, Before, RequestTypeOK,
     scopeVars, clientVars, threadVars, streamVars
<1>14. CASE SendChunk
  BY <1>14, RequestAssumption DEF SendChunk, Thread, Chunk, ThreadInv, Before, RequestTypeOK,
     scopeVars, clientVars, threadVars, streamVars
<1>15. CASE CloseBody
  BY <1>15, RequestAssumption DEF CloseBody, Thread, ThreadInv, Before, RequestTypeOK,
     scopeVars, clientVars, threadVars, streamVars
<1>16. CASE Cut
  BY <1>16, RequestAssumption DEF Cut, ThreadInv, Before, RequestTypeOK,
     scopeVars, clientVars, threadVars, streamVars
<1>17. CASE ClientSends
  BY <1>17, RequestAssumption DEF ClientSends, Sends, Listening, ThreadInv, Before, RequestTypeOK,
     scopeVars, clientVars, threadVars, streamVars
<1>18. CASE ClientEnds
  BY <1>18, RequestAssumption DEF ClientEnds, Sends, Listening, ThreadInv, Before, RequestTypeOK,
     scopeVars, clientVars, threadVars, streamVars
<1>19. CASE ClientLeaves
  BY <1>19, RequestAssumption DEF ClientLeaves, Sends, Listening, ThreadInv, Before, RequestTypeOK,
     scopeVars, clientVars, threadVars, streamVars
<1> QED BY <1>1, <1>2, <1>3, <1>4, <1>5, <1>6, <1>7, <1>8, <1>9, <1>10,
       <1>11, <1>12, <1>13, <1>14, <1>15, <1>16, <1>17, <1>18, <1>19
    DEF RequestNext, TaskStep, ThreadStep

\* What a step gives the protocol.
Given(o) ==
  \/ o = out
  \/ state = "REQUEST" /\ o = Append(out, "Response")
  \/ state = "RESPONSE" /\ o = Append(out, "Body")
  \/ state = "RESPONSE" /\ o = out \o <<"EndBody", "StreamClosed">>
  \/ o = ErrorResponse
  \/ state = "REQUEST" /\ o = (out \o ErrorResponse) \o <<"StreamClosed">>
  \/ state # "REQUEST" /\ o = (out \o <<>>) \o <<"StreamClosed">>

LEMMA OutNextSeq ==
  ASSUME RequestTypeOK, NEW o, Given(o)
  PROVE  o \in Seq(Sent)
<1>1. out \in Seq(Sent) /\ "Response" \in Sent /\ "Body" \in Sent /\ <<>> \in Seq(Sent)
  BY EmptySeq DEF RequestTypeOK, Sent
<1>2. <<"EndBody", "StreamClosed">> \in Seq(Sent) /\ <<"StreamClosed">> \in Seq(Sent)
      /\ ErrorResponse \in Seq(Sent)
  BY DEF Sent, ErrorResponse
<1>3. out \o ErrorResponse \in Seq(Sent) /\ out \o <<>> \in Seq(Sent)
      /\ out \o <<"EndBody", "StreamClosed">> \in Seq(Sent)
  BY <1>1, <1>2, JoinedSeq
<1>4. /\ (out \o ErrorResponse) \o <<"StreamClosed">> \in Seq(Sent)
      /\ (out \o <<>>) \o <<"StreamClosed">> \in Seq(Sent)
  BY <1>2, <1>3, JoinedSeq
<1>5. Append(out, "Response") \in Seq(Sent) /\ Append(out, "Body") \in Seq(Sent)
  BY <1>1, AppendProperties
<1> QED BY <1>1, <1>2, <1>3, <1>4, <1>5 DEF Given

LEMMA TypeNext ==
  ASSUME RequestTypeOK, ThreadInv, BodyInv, RequestNext
  PROVE  RequestTypeOK'
<1>1. CASE Request
  <2>1. Given(out')
    BY <1>1 DEF Request, Given, streamVars
  <2>2. out' \in Seq(Sent)
    BY <2>1, OutNextSeq
  <2> QED BY <1>1, <2>2 DEF Request, RequestTypeOK, Tasks, ThreadStates,
        scopeVars, clientVars, threadVars, streamVars
<1>2. CASE Enter
  BY <1>2, RequestAssumption DEF Enter, Goto, Redirect, RequestTypeOK, Tasks, ThreadStates,
     scopeVars, clientVars, threadVars, streamVars
<1>3. CASE TakeBody
  <2>1. queue \in Seq({"part", "end", "disconnect"}) /\ queue # <<>> /\ Len(queue) <= QueueSize
        /\ body <= MaxBodySize /\ body \in 0 .. MaxBodySize + 1
    BY <1>3 DEF TakeBody, RequestTypeOK, BodyInv
  <2>2. /\ Tail(queue) \in Seq({"part", "end", "disconnect"})
        /\ Len(Tail(queue)) = Len(queue) - 1 /\ Len(queue) \in Nat
    BY <2>1, HeadTailProperties, EmptySeq
  <2>3. Len(Tail(queue)) <= QueueSize
    BY <2>1, <2>2, RequestAssumption
  <2>4. body' \in 0 .. MaxBodySize + 1
    <3>1. body' = body + 1 \/ body' = body
      BY <1>3, <2>1, RequestAssumption DEF TakeBody
    <3> QED BY <2>1, <3>1, RequestAssumption
  <2>5. queue' = Tail(queue)
    BY <1>3 DEF TakeBody
  <2>6. task' \in Tasks /\ thread' \in ThreadStates
    BY <1>3 DEF TakeBody, RequestTypeOK, Tasks, ThreadStates
  <2> QED BY <1>3, <2>2, <2>3, <2>4, <2>5, <2>6 DEF TakeBody, RequestTypeOK, streamVars
<1>4. CASE Answer
  <2>1. Given(out')
    BY <1>4 DEF Answer, Goto, Start, Given, streamVars
  <2>2. out' \in Seq(Sent)
    BY <2>1, OutNextSeq
  <2> QED BY <1>4, <2>2 DEF Answer, Goto, Start, RequestTypeOK, Tasks, ThreadStates,
        scopeVars, clientVars, threadVars, streamVars
<1>5. CASE EndAnswer
  <2>1. Given(out')
    BY <1>5 DEF EndAnswer, Goto, End, Given, streamVars
  <2>2. out' \in Seq(Sent)
    BY <2>1, OutNextSeq
  <2> QED BY <1>5, <2>2 DEF EndAnswer, Goto, End, RequestTypeOK, Tasks, ThreadStates,
        scopeVars, clientVars, threadVars, streamVars
<1>6. CASE Joined
  BY <1>6, RequestAssumption DEF Joined, Goto, AfterThread, RequestTypeOK, Tasks, ThreadStates,
     scopeVars, clientVars, threadVars, streamVars
<1>7. CASE FinalBody
  <2>1. Given(out')
    BY <1>7 DEF FinalBody, Goto, End, Given, streamVars
  <2>2. out' \in Seq(Sent)
    BY <2>1, OutNextSeq
  <2> QED BY <1>7, <2>2 DEF FinalBody, Goto, End, RequestTypeOK, Tasks, ThreadStates,
        scopeVars, clientVars, threadVars, streamVars
<1>8. CASE Handled
  <2>1. Given(out')
    BY <1>8 DEF Handled, Given, streamVars
  <2>2. out' \in Seq(Sent)
    BY <2>1, OutNextSeq
  <2> QED BY <1>8, <2>2 DEF Handled, RequestTypeOK, Tasks, ThreadStates,
        scopeVars, clientVars, threadVars, streamVars
<1>9. CASE AppCalled
  BY <1>9, RequestAssumption DEF AppCalled, Thread, RequestTypeOK, Tasks, ThreadStates,
     scopeVars, clientVars, threadVars, streamVars
<1>10. CASE AppYields
  <2>1. chunks \in 0 .. MaxChunks /\ chunks < MaxChunks /\ chunks' = chunks + 1
    BY <1>10 DEF AppYields, RequestTypeOK
  <2>2. chunks' \in 0 .. MaxChunks
    BY <2>1, RequestAssumption
  <2>3. thread' \in ThreadStates /\ started' \in BOOLEAN
    BY <1>10 DEF AppYields, Thread, ThreadStates, RequestTypeOK
  <2> QED BY <1>10, <2>2, <2>3 DEF AppYields, Thread, RequestTypeOK, scopeVars, clientVars, streamVars
<1>11. CASE AppEnds
  BY <1>11, RequestAssumption DEF AppEnds, Thread, RequestTypeOK, Tasks, ThreadStates,
     scopeVars, clientVars, threadVars, streamVars
<1>12. CASE AppFails
  BY <1>12, RequestAssumption DEF AppFails, Thread, FailsAfterClose, RequestTypeOK, Tasks, ThreadStates,
     scopeVars, clientVars, threadVars, streamVars
<1>13. CASE SendStart
  <2>1. Given(out')
    BY <1>13 DEF SendStart, Thread, Start, Given, streamVars
  <2>2. out' \in Seq(Sent)
    BY <2>1, OutNextSeq
  <2> QED BY <1>13, <2>2 DEF SendStart, Thread, Start, RequestTypeOK, Tasks, ThreadStates,
        scopeVars, clientVars, threadVars, streamVars
<1>14. CASE SendChunk
  <2>1. Given(out')
    BY <1>14 DEF SendChunk, Thread, Chunk, Given, streamVars
  <2>2. out' \in Seq(Sent)
    BY <2>1, OutNextSeq
  <2> QED BY <1>14, <2>2 DEF SendChunk, Thread, Chunk, RequestTypeOK, Tasks, ThreadStates,
        scopeVars, clientVars, threadVars, streamVars
<1>15. CASE CloseBody
  BY <1>15, RequestAssumption DEF CloseBody, Thread, RequestTypeOK, Tasks, ThreadStates,
     scopeVars, clientVars, threadVars, streamVars
<1>16. CASE Cut
  BY <1>16, RequestAssumption DEF Cut, RequestTypeOK, Tasks, ThreadStates,
     scopeVars, clientVars, threadVars, streamVars
<1>17. CASE ClientSends
  <2>1. queue \in Seq({"part", "end", "disconnect"}) /\ Len(queue) < QueueSize
        /\ queue' = Append(queue, "part")
    BY <1>17 DEF ClientSends, Sends, Listening, RequestTypeOK
  <2>2. queue' \in Seq({"part", "end", "disconnect"}) /\ Len(queue') = Len(queue) + 1
        /\ Len(queue) \in Nat
    BY <2>1, AppendProperties, LenProperties
  <2>3. Len(queue') <= QueueSize
    BY <2>1, <2>2, RequestAssumption
  <2> QED BY <1>17, <2>2, <2>3, RequestAssumption
      DEF ClientSends, RequestTypeOK, scopeVars, threadVars
<1>18. CASE ClientEnds
  <2>1. queue \in Seq({"part", "end", "disconnect"}) /\ Len(queue) < QueueSize
        /\ queue' = Append(queue, "end")
    BY <1>18 DEF ClientEnds, Sends, Listening, RequestTypeOK
  <2>2. queue' \in Seq({"part", "end", "disconnect"}) /\ Len(queue') = Len(queue) + 1
        /\ Len(queue) \in Nat
    BY <2>1, AppendProperties, LenProperties
  <2>3. Len(queue') <= QueueSize
    BY <2>1, <2>2, RequestAssumption
  <2> QED BY <1>18, <2>2, <2>3, RequestAssumption
      DEF ClientEnds, RequestTypeOK, scopeVars, threadVars
<1>19. CASE ClientLeaves
  <2>1. queue \in Seq({"part", "end", "disconnect"}) /\ Len(queue) < QueueSize
        /\ queue' = Append(queue, "disconnect")
    BY <1>19 DEF ClientLeaves, Sends, Listening, RequestTypeOK
  <2>2. queue' \in Seq({"part", "end", "disconnect"}) /\ Len(queue') = Len(queue) + 1
        /\ Len(queue) \in Nat
    BY <2>1, AppendProperties, LenProperties
  <2>3. Len(queue') <= QueueSize
    BY <2>1, <2>2, RequestAssumption
  <2> QED BY <1>19, <2>2, <2>3, RequestAssumption
      DEF ClientLeaves, RequestTypeOK, scopeVars, threadVars
<1> QED BY <1>1, <1>2, <1>3, <1>4, <1>5, <1>6, <1>7, <1>8, <1>9, <1>10,
       <1>11, <1>12, <1>13, <1>14, <1>15, <1>16, <1>17, <1>18, <1>19
    DEF RequestNext, TaskStep, ThreadStep

LEMMA BodyNext ==
  ASSUME RequestTypeOK, ThreadInv, BodyInv, RequestNext
  PROVE  BodyInv'
<1>1. CASE Request
  BY <1>1, RequestAssumption DEF Request, BodyInv, Before, ThreadInv, RequestTypeOK,
     scopeVars, clientVars, threadVars, streamVars
<1>2. CASE Enter
  BY <1>2, RequestAssumption DEF Enter, Goto, Redirect, BodyInv, Before, ThreadInv, RequestTypeOK,
     scopeVars, clientVars, threadVars, streamVars
<1>3. CASE TakeBody
  <2>1. queue \in Seq({"part", "end", "disconnect"}) /\ queue # <<>> /\ thread = "none"
        /\ body \in Nat /\ parts \in Nat /\ body <= MaxBodySize /\ task = "body"
        /\ queue' = Tail(queue) /\ UNCHANGED <<client, parts>>
        /\ body' = body + (IF Head(queue) = "part" THEN 1 ELSE 0)
    BY <1>3, RequestAssumption DEF TakeBody, RequestTypeOK, ThreadInv, Before, BodyInv
  <2>2. /\ Len(queue) \in Nat \ {0} /\ Head(queue) = queue[1]
        /\ Len(Tail(queue)) = Len(queue) - 1
        /\ \A i \in 1 .. Len(queue) - 1 : Tail(queue)[i] = queue[i + 1]
    BY <2>1, HeadTailProperties, EmptySeq
  <2> DEFINE n == Len(queue)
  <2>3. n \in Nat /\ n > 0 /\ Len(queue) = n
    BY <2>2
  <2>4. thread' # "none" \/ task' = "body" => body' <= MaxBodySize
    <3>1. body' \in Nat
      BY <2>1
    <3>2. thread' # "none" \/ task' = "body" => ~TooLarge(body')
      BY <1>3, <2>1 DEF TakeBody
    <3> QED BY <3>1, <3>2, RequestAssumption DEF TooLarge
  <2>5. task' \notin {"stream", "enter"}
    BY <1>3 DEF TakeBody
  <2> HIDE DEF n
  <2>6. \A k \in 0 .. n : AllParts(queue, k) => AllParts(queue', k - 1)
    <3>1. ASSUME NEW k \in 0 .. n, AllParts(queue, k), NEW i \in 1 .. k - 1
          PROVE  queue'[i] = "part"
      <4>1. i + 1 \in 1 .. k /\ i \in 1 .. n - 1
        BY <2>3
      <4> QED BY <2>1, <2>2, <2>3, <3>1, <4>1 DEF AllParts
    <3> QED BY <3>1 DEF AllParts
  <2>7. CASE client = "sends"
    <3>1. AllParts(queue, n) /\ body + n = parts
      BY <2>3, <2>7 DEF BodyInv
    <3>2. Head(queue) = "part"
      BY <2>2, <2>3, <3>1 DEF AllParts
    <3>3. body' + Len(queue') = parts /\ Len(queue') = n - 1 /\ body' = body + 1
      BY <2>1, <2>2, <2>3, <3>1, <3>2
    <3>4. AllParts(queue', Len(queue'))
      <4>1. n \in 0 .. n
        BY <2>3
      <4> QED BY <2>6, <3>1, <3>3, <4>1
    <3>5. thread' = "none"
      BY <1>3, <2>1, <3>2 DEF TakeBody, EndsBody
    <3> QED BY <2>1, <2>4, <2>5, <2>7, <3>3, <3>4, <3>5 DEF BodyInv
  <2>8. CASE client = "sent"
    <3>1. queue[n] = "end" /\ AllParts(queue, n - 1) /\ body + n = parts + 1
      BY <2>1, <2>3, <2>8 DEF BodyInv
    <3>2. CASE n = 1
      <4>1. Head(queue) = "end" /\ queue' = <<>>
        <5>1. Len(queue') = 0 /\ queue' \in Seq({"part", "end", "disconnect"})
          BY <2>1, <2>2, <2>3, <3>2, HeadTailProperties
        <5> QED BY <2>2, <2>3, <3>1, <3>2, <5>1, EmptySeq
      <4>2. body' = parts /\ body' = body
        BY <2>1, <3>1, <3>2, <4>1
      <4> QED BY <2>1, <2>4, <2>5, <2>8, <4>1, <4>2 DEF BodyInv
    <3>3. CASE n > 1
      <4>1. Head(queue) = "part"
        <5>1. 1 \in 1 .. n - 1
          BY <2>3, <3>3
        <5> QED BY <2>2, <3>1, <5>1 DEF AllParts
      <4>2. body' = body + 1 /\ Len(queue') = n - 1 /\ body' + Len(queue') = parts + 1
        BY <2>1, <2>2, <2>3, <3>1, <4>1
      <4>3. queue' # <<>> /\ queue'[Len(queue')] = "end"
        <5>1. Len(queue') # 0 /\ n - 1 \in 1 .. n - 1 /\ n - 1 + 1 = n
          BY <2>3, <3>3, <4>2
        <5> QED BY <2>1, <2>2, <2>3, <3>1, <4>2, <5>1, EmptySeq
      <4>4. AllParts(queue', Len(queue') - 1)
        <5>1. n - 1 \in 0 .. n /\ Len(queue') - 1 = n - 1 - 1
          BY <2>3, <3>3, <4>2
        <5> QED BY <2>6, <3>1, <5>1
      <4>5. thread' = "none"
        BY <1>3, <2>1, <4>1 DEF TakeBody, EndsBody
      <4> QED BY <2>1, <2>4, <2>5, <2>8, <4>2, <4>3, <4>4, <4>5 DEF BodyInv
    <3> QED BY <2>3, <3>2, <3>3
  <2>9. CASE client = "gone"
    BY <2>1, <2>4, <2>5, <2>9 DEF BodyInv
  <2> QED BY <2>7, <2>8, <2>9 DEF RequestTypeOK
<1>4. CASE Answer
  BY <1>4, RequestAssumption DEF Answer, Goto, Start, BodyInv, Before, ThreadInv, RequestTypeOK,
     scopeVars, clientVars, threadVars, streamVars
<1>5. CASE EndAnswer
  BY <1>5, RequestAssumption DEF EndAnswer, Goto, End, BodyInv, Before, ThreadInv, RequestTypeOK,
     scopeVars, clientVars, threadVars, streamVars
<1>6. CASE Joined
  BY <1>6, RequestAssumption DEF Joined, Goto, AfterThread, BodyInv, Before, ThreadInv, RequestTypeOK,
     scopeVars, clientVars, threadVars, streamVars
<1>7. CASE FinalBody
  BY <1>7, RequestAssumption DEF FinalBody, Goto, End, BodyInv, Before, ThreadInv, RequestTypeOK,
     scopeVars, clientVars, threadVars, streamVars
<1>8. CASE Handled
  BY <1>8, RequestAssumption DEF Handled, BodyInv, Before, ThreadInv, RequestTypeOK,
     scopeVars, clientVars, threadVars, streamVars
<1>9. CASE AppCalled
  BY <1>9, RequestAssumption DEF AppCalled, Thread, BodyInv, Before, ThreadInv, RequestTypeOK,
     scopeVars, clientVars, threadVars, streamVars
<1>10. CASE AppYields
  BY <1>10, RequestAssumption DEF AppYields, Thread, BodyInv, Before, ThreadInv, RequestTypeOK,
     scopeVars, clientVars, threadVars, streamVars
<1>11. CASE AppEnds
  BY <1>11, RequestAssumption DEF AppEnds, Thread, BodyInv, Before, ThreadInv, RequestTypeOK,
     scopeVars, clientVars, threadVars, streamVars
<1>12. CASE AppFails
  BY <1>12, RequestAssumption DEF AppFails, Thread, FailsAfterClose, BodyInv, Before, ThreadInv, RequestTypeOK,
     scopeVars, clientVars, threadVars, streamVars
<1>13. CASE SendStart
  BY <1>13, RequestAssumption DEF SendStart, Thread, Start, BodyInv, Before, ThreadInv, RequestTypeOK,
     scopeVars, clientVars, threadVars, streamVars
<1>14. CASE SendChunk
  BY <1>14, RequestAssumption DEF SendChunk, Thread, Chunk, BodyInv, Before, ThreadInv, RequestTypeOK,
     scopeVars, clientVars, threadVars, streamVars
<1>15. CASE CloseBody
  BY <1>15, RequestAssumption DEF CloseBody, Thread, BodyInv, Before, ThreadInv, RequestTypeOK,
     scopeVars, clientVars, threadVars, streamVars
<1>16. CASE Cut
  BY <1>16, RequestAssumption DEF Cut, BodyInv, Before, ThreadInv, RequestTypeOK,
     scopeVars, clientVars, threadVars, streamVars
<1>17. CASE ClientSends
  <2>1. queue \in Seq({"part", "end", "disconnect"}) /\ queue' = Append(queue, "part")
        /\ body \in Nat /\ parts \in Nat /\ client = "sends" /\ UNCHANGED <<task, body, thread>>
    BY <1>17, RequestAssumption DEF ClientSends, Sends, Listening, RequestTypeOK, threadVars
  <2>2. Len(queue) \in Nat /\ AllParts(queue, Len(queue)) /\ body + Len(queue) = parts
        /\ thread = "none"
    BY <2>1, LenProperties DEF BodyInv
  <2>3. /\ Len(queue') = Len(queue) + 1 /\ queue'[Len(queue) + 1] = "part" /\ queue' # <<>>
        /\ \A i \in 1 .. Len(queue) : queue'[i] = queue[i]
    <3>1. "part" \in {"part", "end", "disconnect"}
      OBVIOUS
    <3>2. /\ Len(queue') = Len(queue) + 1 /\ queue'[Len(queue) + 1] = "part"
          /\ \A i \in 1 .. Len(queue) : queue'[i] = queue[i]
      BY <2>1, <3>1, AppendProperties
    <3> QED BY <2>2, <3>2, EmptySeq
  <2>4. client' = "sends" /\ parts' = parts + 1
    BY <1>17, <2>1 DEF ClientSends
  <2>5. AllParts(queue', Len(queue'))
    <3>1. \A i \in 1 .. Len(queue) + 1 : i \in 1 .. Len(queue) \/ i = Len(queue) + 1
      BY <2>2
    <3> QED BY <2>2, <2>3, <3>1 DEF AllParts
  <2>6. body' + Len(queue') = parts'
    BY <2>1, <2>2, <2>3, <2>4
  <2> QED BY <2>1, <2>2, <2>4, <2>5, <2>6 DEF BodyInv
<1>18. CASE ClientEnds
  <2>1. queue \in Seq({"part", "end", "disconnect"}) /\ queue' = Append(queue, "end")
        /\ body \in Nat /\ parts \in Nat /\ client = "sends" /\ UNCHANGED <<task, body, thread>>
    BY <1>18, RequestAssumption DEF ClientEnds, Sends, Listening, RequestTypeOK, threadVars
  <2>2. Len(queue) \in Nat /\ AllParts(queue, Len(queue)) /\ body + Len(queue) = parts
        /\ thread = "none"
    BY <2>1, LenProperties DEF BodyInv
  <2>3. /\ Len(queue') = Len(queue) + 1 /\ queue'[Len(queue) + 1] = "end" /\ queue' # <<>>
        /\ \A i \in 1 .. Len(queue) : queue'[i] = queue[i]
    <3>1. "end" \in {"part", "end", "disconnect"}
      OBVIOUS
    <3>2. /\ Len(queue') = Len(queue) + 1 /\ queue'[Len(queue) + 1] = "end"
          /\ \A i \in 1 .. Len(queue) : queue'[i] = queue[i]
      BY <2>1, <3>1, AppendProperties
    <3> QED BY <2>2, <3>2, EmptySeq
  <2>4. client' = "sent" /\ parts' = parts
    BY <1>18, <2>1 DEF ClientEnds
  <2>5. AllParts(queue', Len(queue') - 1) /\ queue'[Len(queue')] = "end"
    <3>1. Len(queue') - 1 = Len(queue)
      BY <2>2, <2>3
    <3> QED BY <2>2, <2>3, <3>1 DEF AllParts
  <2>6. body' + Len(queue') = parts' + 1
    BY <2>1, <2>2, <2>3, <2>4
  <2> QED BY <2>1, <2>2, <2>3, <2>4, <2>5, <2>6 DEF BodyInv
<1>19. CASE ClientLeaves
  BY <1>19, RequestAssumption DEF ClientLeaves, Sends, Listening, BodyInv, Before, ThreadInv, RequestTypeOK,
     scopeVars, clientVars, threadVars, streamVars
<1> QED BY <1>1, <1>2, <1>3, <1>4, <1>5, <1>6, <1>7, <1>8, <1>9, <1>10,
       <1>11, <1>12, <1>13, <1>14, <1>15, <1>16, <1>17, <1>18, <1>19
    DEF RequestNext, TaskStep, ThreadStep

\* Nothing that the task gives the protocol itself is a part of a body.
LEMMA MoreNoBody ==
  ASSUME NEW o \in Seq(Sent), NoBody(o)
  PROVE  /\ NoBody(o \o <<"EndBody", "StreamClosed">>)
         /\ NoBody((o \o ErrorResponse) \o <<"StreamClosed">>)
         /\ NoBody((o \o <<>>) \o <<"StreamClosed">>)
<1>1. ASSUME NEW s \in Seq(Sent), NEW t \in Seq(Sent), NoBody(s), NoBody(t)
      PROVE  s \o t \in Seq(Sent) /\ NoBody(s \o t)
  <2>1. /\ s \o t \in Seq(Sent) /\ Len(s \o t) = Len(s) + Len(t)
        /\ \A i \in 1 .. Len(s) : (s \o t)[i] = s[i]
        /\ \A i \in 1 .. Len(t) : (s \o t)[Len(s) + i] = t[i]
    BY JoinedSeq
  <2>2. ASSUME NEW i \in 1 .. Len(s) + Len(t)
        PROVE  (s \o t)[i] # "Body"
    <3>1. Len(s) \in Nat /\ Len(t) \in Nat
      BY LenProperties
    <3>2. CASE i \in 1 .. Len(s)
      BY <1>1, <2>1, <3>2 DEF NoBody
    <3>3. CASE i \notin 1 .. Len(s)
      <4>1. i - Len(s) \in 1 .. Len(t) /\ Len(s) + (i - Len(s)) = i
        BY <3>1, <3>3
      <4> QED BY <1>1, <2>1, <4>1 DEF NoBody
    <3> QED BY <3>2, <3>3
  <2> QED BY <2>1, <2>2 DEF NoBody
<1>2. <<"EndBody", "StreamClosed">> \in Seq(Sent) /\ NoBody(<<"EndBody", "StreamClosed">>)
  <2>1. \A i \in 1 .. 2 : <<"EndBody", "StreamClosed">>[i] # "Body"
    OBVIOUS
  <2> QED BY <2>1 DEF NoBody, Sent
<1>3. <<"StreamClosed">> \in Seq(Sent) /\ NoBody(<<"StreamClosed">>)
  BY DEF NoBody, Sent
<1>4. <<>> \in Seq(Sent) /\ NoBody(<<>>)
  BY DEF NoBody
<1>5. o \o ErrorResponse \in Seq(Sent) /\ NoBody(o \o ErrorResponse)
      /\ o \o <<>> \in Seq(Sent) /\ NoBody(o \o <<>>)
  BY <1>1, <1>4, ErrorEnds
<1> QED BY <1>1, <1>2, <1>3, <1>5

LEMMA OutNext ==
  ASSUME RequestTypeOK, ThreadInv, OutInv, RequestNext
  PROVE  OutInv'
<1>1. CASE Request
  <2>1. CASE task' = "enter" /\ out' = out
    BY <1>1, <2>1 DEF Request, OutInv, Before, ThreadInv, RequestTypeOK,
       scopeVars, clientVars, threadVars, streamVars
  <2>2. CASE task' = "refused" /\ out' = ErrorResponse
    <3>1. ~Ended(ErrorResponse)
      <4>1. Len(ErrorResponse) = 2
        BY DEF ErrorResponse
      <4> QED BY <4>1 DEF Ended
    <3> QED BY <1>1, <2>2, <3>1, ErrorEnds DEF Request, OutInv, Before, ThreadInv, RequestTypeOK,
        scopeVars, clientVars, threadVars, streamVars
  <2> QED BY <1>1, <2>1, <2>2 DEF Request
<1>2. CASE Enter
  BY <1>2, RequestAssumption DEF Enter, Goto, Redirect, OutInv, Before, ThreadInv, RequestTypeOK,
     scopeVars, clientVars, threadVars, streamVars
<1>3. CASE TakeBody
  BY <1>3, RequestAssumption DEF TakeBody, OutInv, Before, ThreadInv, RequestTypeOK,
     scopeVars, clientVars, threadVars, streamVars
<1>4. CASE Answer
  <2>1. /\ out' = Append(out, "Response") /\ state = "REQUEST" /\ state' = "RESPONSE"
        /\ task \in {"redirect", "400", "404"} /\ task' = "answered" /\ UNCHANGED <<thread, cut, closed>>
        /\ thread = "none"
    BY <1>4 DEF Answer, Goto, Start, ThreadInv, Before, threadVars
  <2>2. CASE ~cut
    <3>1. out = <<>>
      BY <2>1, <2>2 DEF OutInv
    <3>2. Open(out') /\ NoBody(out')
      BY <2>1, <3>1, OpenFirst
    <3> QED BY <2>1, <3>2 DEF OutInv
  <2>3. CASE cut
    <3>1. NoBody(out')
      <4>1. out \in Seq(Sent) /\ NoBody(out) /\ "Response" \in Sent
        BY <2>1 DEF OutInv, RequestTypeOK, Sent
      <4>2. Len(out) \in Nat /\ Len(out') = Len(out) + 1 /\ out'[Len(out) + 1] = "Response"
            /\ \A i \in 1 .. Len(out) : out'[i] = out[i]
        BY <2>1, <4>1, AppendProperties, LenProperties
      <4>3. \A i \in 1 .. Len(out) + 1 : i \in 1 .. Len(out) \/ i = Len(out) + 1
        BY <4>2
      <4> QED BY <4>1, <4>2, <4>3 DEF NoBody
    <3> QED BY <2>1, <2>3, <3>1 DEF OutInv
  <2> QED BY <2>2, <2>3
<1>5. CASE EndAnswer
  <2>1. CASE End /\ task' = "over"
    <3>1. /\ out' = out \o <<"EndBody", "StreamClosed">> /\ state = "RESPONSE" /\ state' = "CLOSED"
          /\ closed' = TRUE /\ task \in {"answered", "final"} /\ UNCHANGED <<thread, cut>>
          /\ thread \in {"none", "done"} \/ cut
      BY <1>5, <2>1 DEF EndAnswer, Goto, End, ThreadInv, Before, threadVars
    <3>2. CASE ~cut
      <4>1. Open(out) /\ out \in Seq(Sent) /\ (thread = "none" => NoBody(out))
        BY <3>1, <3>2 DEF OutInv, RequestTypeOK
      <4>2. Ended(out') /\ (thread = "none" => NoBody(out'))
        BY <3>1, <4>1, OpenEnds
      <4> QED BY <2>1, <3>1, <3>2, <4>2 DEF OutInv
    <3>3. CASE cut
      <4>1. thread = "none" => NoBody(out')
        BY <3>1, MoreNoBody DEF OutInv, RequestTypeOK
      <4> QED BY <2>1, <3>1, <3>3, <4>1 DEF OutInv
    <3> QED BY <3>2, <3>3
  <2> QED BY <1>5, <2>1 DEF EndAnswer, Goto
<1>6. CASE Joined
  BY <1>6, RequestAssumption DEF Joined, Goto, AfterThread, OutInv, Before, ThreadInv, RequestTypeOK,
     scopeVars, clientVars, threadVars, streamVars
<1>7. CASE FinalBody
  <2>1. CASE UNCHANGED streamVars
    BY <1>7, <2>1 DEF FinalBody, Goto, End, OutInv, Before, ThreadInv, RequestTypeOK,
       scopeVars, clientVars, threadVars, streamVars
  <2>2. CASE End /\ task' = "over"
    <3>1. /\ out' = out \o <<"EndBody", "StreamClosed">> /\ state = "RESPONSE" /\ state' = "CLOSED"
          /\ closed' = TRUE /\ task \in {"answered", "final"} /\ UNCHANGED <<thread, cut>>
          /\ thread \in {"none", "done"} \/ cut
      BY <1>7, <2>2 DEF FinalBody, Goto, End, ThreadInv, Before, threadVars
    <3>2. CASE ~cut
      <4>1. Open(out) /\ out \in Seq(Sent) /\ (thread = "none" => NoBody(out))
        BY <3>1, <3>2 DEF OutInv, RequestTypeOK
      <4>2. Ended(out') /\ (thread = "none" => NoBody(out'))
        BY <3>1, <4>1, OpenEnds
      <4> QED BY <2>2, <3>1, <3>2, <4>2 DEF OutInv
    <3>3. CASE cut
      <4>1. thread = "none" => NoBody(out')
        BY <3>1, MoreNoBody DEF OutInv, RequestTypeOK
      <4> QED BY <2>2, <3>1, <3>3, <4>1 DEF OutInv
    <3> QED BY <3>2, <3>3
  <2> QED BY <1>7, <2>1, <2>2 DEF FinalBody, Goto
<1>8. CASE Handled
  <2>1. task \in {"raised", "over"} /\ task' = "handled" /\ UNCHANGED <<thread, cut, state>>
    BY <1>8 DEF Handled, threadVars
  <2>2. CASE cut
    <3>1. thread = "none" => NoBody(out')
      <4>1. CASE out' = out
        BY <4>1 DEF OutInv
      <4>2. CASE out' = (out \o ErrorResponse) \o <<"StreamClosed">>
        BY <4>2, MoreNoBody DEF OutInv, RequestTypeOK
      <4>3. CASE out' = (out \o <<>>) \o <<"StreamClosed">>
        BY <4>3, MoreNoBody DEF OutInv, RequestTypeOK
      <4> QED BY <1>8, <4>1, <4>2, <4>3 DEF Handled
    <3> QED BY <2>1, <2>2, <3>1 DEF OutInv
  <2>3. CASE ~cut
    <3>1. /\ state = "REQUEST" => out = <<>>
          /\ state = "RESPONSE" => Open(out)
          /\ state = "CLOSED" => closed /\ Ended(out)
          /\ out \in Seq(Sent) /\ state \in {"REQUEST", "RESPONSE", "CLOSED"}
          /\ thread = "none" => NoBody(out)
      BY <2>1, <2>3 DEF OutInv, RequestTypeOK
    <3>2. CASE closed
      <4>1. out' = out
        BY <1>8, <3>2 DEF Handled
      <4> QED BY <2>1, <2>3, <3>1, <4>1 DEF OutInv
    <3>3. CASE ~closed /\ state = "REQUEST"
      <4>1. out' = (<<>> \o ErrorResponse) \o <<"StreamClosed">>
        BY <1>8, <3>1, <3>3 DEF Handled
      <4>2. Ended(out') /\ NoBody(out')
        BY <4>1, ErrorEnds
      <4> QED BY <2>1, <2>3, <4>2 DEF OutInv
    <3>4. CASE ~closed /\ state = "RESPONSE"
      <4>1. out' = (out \o <<>>) \o <<"StreamClosed">>
        BY <1>8, <3>4 DEF Handled
      <4>2. CutShort(out') /\ (thread = "none" => NoBody(out')) /\ out' \in Seq(Sent)
        BY <3>1, <3>4, <4>1, OpenCut
      <4>3. ~Ended(out')
        BY <4>2, Forms
      <4> QED BY <2>1, <2>3, <4>2, <4>3 DEF OutInv
    <3> QED BY <3>1, <3>2, <3>3, <3>4
  <2> QED BY <2>2, <2>3
<1>9. CASE AppCalled
  BY <1>9, RequestAssumption DEF AppCalled, Thread, OutInv, Before, ThreadInv, RequestTypeOK,
     scopeVars, clientVars, threadVars, streamVars
<1>10. CASE AppYields
  BY <1>10, RequestAssumption DEF AppYields, Thread, OutInv, Before, ThreadInv, RequestTypeOK,
     scopeVars, clientVars, threadVars, streamVars
<1>11. CASE AppEnds
  BY <1>11, RequestAssumption DEF AppEnds, Thread, OutInv, Before, ThreadInv, RequestTypeOK,
     scopeVars, clientVars, threadVars, streamVars
<1>12. CASE AppFails
  BY <1>12, RequestAssumption DEF AppFails, Thread, FailsAfterClose, OutInv, Before, ThreadInv, RequestTypeOK,
     scopeVars, clientVars, threadVars, streamVars
<1>13. CASE SendStart
  <2>1. CASE UNCHANGED streamVars
    BY <1>13, <2>1 DEF SendStart, Thread, Start, OutInv, Before, ThreadInv, RequestTypeOK,
       scopeVars, clientVars, threadVars, streamVars
  <2>2. CASE Start
    <3>1. /\ out' = Append(out, "Response") /\ state = "REQUEST" /\ state' = "RESPONSE"
          /\ UNCHANGED <<task, cut, closed>> /\ thread' # "none" /\ thread \notin {"none", "done", "failed"}
      BY <1>13, <2>2 DEF SendStart, Thread, Start
    <3>2. task \notin Before /\ (~cut => task = "thread")
      BY <3>1 DEF ThreadInv
    <3>3. ~cut => Open(out') /\ out' \in Seq(Sent)
      BY <3>1, <3>2, OpenFirst, OpenMore DEF OutInv, RequestTypeOK
    <3>4. ~cut => ~Ended(out')
      BY <3>3, Forms
    <3> QED BY <3>1, <3>2, <3>3, <3>4 DEF OutInv, Before
  <2> QED BY <1>13, <2>1, <2>2 DEF SendStart
<1>14. CASE SendChunk
  <2>1. CASE UNCHANGED streamVars
    BY <1>14, <2>1 DEF SendChunk, Thread, Chunk, OutInv, Before, ThreadInv, RequestTypeOK,
       scopeVars, clientVars, threadVars, streamVars
  <2>2. CASE Chunk
    <3>1. /\ out' = Append(out, "Body") /\ state = "RESPONSE" /\ state' = "RESPONSE"
          /\ UNCHANGED <<task, cut, closed>> /\ thread' # "none" /\ thread \notin {"none", "done", "failed"}
      BY <1>14, <2>2 DEF SendChunk, Thread, Chunk
    <3>2. task \notin Before /\ (~cut => task = "thread")
      BY <3>1 DEF ThreadInv
    <3>3. ~cut => Open(out') /\ out' \in Seq(Sent)
      BY <3>1, <3>2, OpenFirst, OpenMore DEF OutInv, RequestTypeOK
    <3>4. ~cut => ~Ended(out')
      BY <3>3, Forms
    <3> QED BY <3>1, <3>2, <3>3, <3>4 DEF OutInv, Before
  <2> QED BY <1>14, <2>1, <2>2 DEF SendChunk
<1>15. CASE CloseBody
  BY <1>15, RequestAssumption DEF CloseBody, Thread, OutInv, Before, ThreadInv, RequestTypeOK,
     scopeVars, clientVars, threadVars, streamVars
<1>16. CASE Cut
  BY <1>16, RequestAssumption DEF Cut, OutInv, Before, ThreadInv, RequestTypeOK,
     scopeVars, clientVars, threadVars, streamVars
<1>17. CASE ClientSends
  BY <1>17, RequestAssumption DEF ClientSends, Sends, Listening, OutInv, Before, ThreadInv, RequestTypeOK,
     scopeVars, clientVars, threadVars, streamVars
<1>18. CASE ClientEnds
  BY <1>18, RequestAssumption DEF ClientEnds, Sends, Listening, OutInv, Before, ThreadInv, RequestTypeOK,
     scopeVars, clientVars, threadVars, streamVars
<1>19. CASE ClientLeaves
  BY <1>19, RequestAssumption DEF ClientLeaves, Sends, Listening, OutInv, Before, ThreadInv, RequestTypeOK,
     scopeVars, clientVars, threadVars, streamVars
<1> QED BY <1>1, <1>2, <1>3, <1>4, <1>5, <1>6, <1>7, <1>8, <1>9, <1>10,
       <1>11, <1>12, <1>13, <1>14, <1>15, <1>16, <1>17, <1>18, <1>19
    DEF RequestNext, TaskStep, ThreadStep

LEMMA RequestStart ==
  ASSUME RequestInit
  PROVE  RequestInv
<1>1. RequestTypeOK
  <2>1. <<>> \in Seq({"part", "end", "disconnect"}) /\ <<>> \in Seq(Sent) /\ Len(<<>>) = 0
    BY EmptySeq
  <2>2. parts \in 0 .. MaxParts /\ body \in 0 .. MaxBodySize + 1 /\ chunks \in 0 .. MaxChunks
    BY RequestAssumption DEF RequestInit
  <2>3. Len(queue) <= QueueSize /\ closes \in Nat
    BY <2>1, RequestAssumption DEF RequestInit
  <2> QED BY <2>1, <2>2, <2>3 DEF RequestInit, RequestTypeOK, Tasks, ThreadStates
<1>2. ThreadInv
  BY DEF RequestInit, ThreadInv, Before
<1>3. BodyInv
  <2>1. Len(queue) = 0 /\ queue = <<>>
    BY EmptySeq DEF RequestInit
  <2>2. AllParts(queue, Len(queue)) /\ body + Len(queue) = parts
    BY <2>1 DEF RequestInit, AllParts
  <2> QED BY <2>2 DEF RequestInit, BodyInv
<1>4. OutInv
  <2>1. NoBody(out) /\ ~Ended(out)
    BY Forms, EmptySeq DEF RequestInit
  <2> QED BY <2>1 DEF RequestInit, OutInv
<1> QED BY <1>1, <1>2, <1>3, <1>4 DEF RequestInv

LEMMA RequestStep == RequestInv /\ [RequestNext]_requestVars => RequestInv'
<1>1. CASE RequestNext
  BY <1>1, TypeNext, ThreadNext, BodyNext, OutNext DEF RequestInv
<1>2. CASE UNCHANGED requestVars
  BY <1>2 DEF RequestInv, RequestTypeOK, ThreadInv, BodyInv, OutInv,
     requestVars, scopeVars, clientVars, threadVars, streamVars
<1> QED BY <1>1, <1>2

\* In every state of a request the task, the thread, the client and the
\* stream agree on how far it is (app_wrappers.py, WSGIWrapper).
THEOREM RequestSafety == RequestSpec => []RequestInv
BY RequestStart, RequestStep, PTL DEF RequestSpec

\* The WSGI application is given the whole body that the client has sent, and
\* no more than the limit (app_wrappers.py, WSGIWrapper.handle_http).
THEOREM BodyCorrect == RequestSpec => []BodyWhole
<1>1. RequestInv => BodyWhole
  BY DEF RequestInv, RequestTypeOK, BodyInv, BodyWhole
<1> QED BY <1>1, RequestSafety, PTL

LEMMA OneForm ==
  ASSUME RequestInv, ~cut
  PROVE  out = <<>> \/ Open(out) \/ Ended(out) \/ CutShort(out) \/ out = ErrorResponse
<1>1. state \in {"REQUEST", "RESPONSE", "CLOSED"}
  BY DEF RequestInv, RequestTypeOK
<1> QED BY <1>1 DEF RequestInv, OutInv

LEMMA ResponseOne == RequestInv => CompleteIsDone /\ ClosedOnce /\ OneResponse
<1> SUFFICES ASSUME RequestInv PROVE CompleteIsDone /\ ClosedOnce /\ OneResponse
  OBVIOUS
<1>1. out \in Seq(Sent) /\ Len(out) \in Nat /\ DOMAIN out = 1 .. Len(out)
  BY LenProperties DEF RequestInv, RequestTypeOK
<1>2. OneResponse
  BY <1>1, OneForm, FormsAreOne DEF OneIn, OneResponse
<1>3. ClosedOnce
  <2>1. chunks > 0 => chunks # 0
    BY RequestAssumption DEF RequestInv, RequestTypeOK
  <2> QED BY <2>1 DEF RequestInv, ThreadInv, ClosedOnce
<1>4. CompleteIsDone
  <2> SUFFICES ASSUME ~cut, {"Body", "EndBody"} \subseteq {out[i] : i \in DOMAIN out}
               PROVE  thread = "done"
    BY DEF CompleteIsDone
  <2>1. PICK b \in 1 .. Len(out), e \in 1 .. Len(out) : out[b] = "Body" /\ out[e] = "EndBody"
    BY <1>1
  <2>2. ~NoBody(out) /\ out # <<>>
    BY <1>1, <2>1, EmptySeq DEF NoBody
  <2>3. ~Open(out)
    <3>1. e = 1 \/ e \in 2 .. Len(out)
      BY <1>1, <2>1
    <3> QED BY <2>1, <3>1 DEF Open, Begun
  <2>4. ~CutShort(out)
    <3>1. ASSUME CutShort(out) PROVE FALSE
      <4>1. Len(out) >= 2
        BY <3>1 DEF CutShort
      <4>2. e = 1 \/ e \in 2 .. Len(out) - 1 \/ e = Len(out)
        BY <1>1, <4>1, <2>1, Positions
      <4> QED BY <2>1, <3>1, <4>2 DEF CutShort, Begun
    <3> QED BY <3>1
  <2>5. out # ErrorResponse
    BY <2>2, ErrorEnds
  <2>6. Ended(out)
    BY <2>2, <2>3, <2>4, <2>5, OneForm
  <2> QED BY <2>2, <2>6 DEF RequestInv, OutInv
<1> QED BY <1>2, <1>3, <1>4

----------------------------------------------------------------------------
(* A dispatcher of any number of applications is an application.  The      *)
(* messages the dispatcher has put to an application are those the         *)
(* application has received or has in its queue, so an application that    *)
(* stops shows that the shutdown was taken; and an event is passed on by   *)
(* the last application's answer, whose flag was not set before.           *)

\* The worker's messages are the lifespan's, in their order.
InboxInv ==
  \/ inbox = <<>> /\ taken \in {<<>>, <<"startup">>, <<"startup", "shutdown">>}
  \/ inbox = <<"startup">> /\ taken = <<>>
  \/ inbox = <<"shutdown">> /\ taken = <<"startup">>

\* What an application has received or may still receive was taken.
Due(m) == Len(queues[m]) + (IF m \in left THEN 1 ELSE 0)
QueueInv ==
  /\ left # {} => taken # <<>>
  /\ \A m \in MountPoints :
       /\ apps[m] = "called" => Due(m) <= Len(taken)
       /\ apps[m] \in {"starting", "started"} => Due(m) + 1 <= Len(taken)
       /\ apps[m] \in {"stopping", "stopped"} => Len(taken) = 2

\* The worker was told what all applications have completed, no more.
ToldInv ==
  /\ Len(taken) = 2 \/ inbox = <<"shutdown">> => Len(told) >= 1
  /\ Len(told) <= 2
  /\ Len(told) >= 1 => \A m \in MountPoints : startup_complete[m]
  /\ Len(told) = 2 => \A m \in MountPoints : shutdown_complete[m]
  /\ \A m \in MountPoints :
       /\ apps[m] \in {"called", "starting"} => ~startup_complete[m]
       /\ apps[m] \in {"called", "starting", "started", "stopping"}
            => ~shutdown_complete[m]

StateInv ==
  /\ left \subseteq MountPoints
  /\ queues \in [MountPoints -> Seq(LifespanMessages)]
  /\ apps \in [MountPoints -> AppStates]
  /\ startup_complete \in [MountPoints -> BOOLEAN]
  /\ shutdown_complete \in [MountPoints -> BOOLEAN]
  /\ told \in Seq(LifespanMessages)
  /\ group \in {"running", "failing", "raised", "ended"}

LifespanInv == StateInv /\ InboxInv /\ QueueInv /\ ToldInv

LEMMA Both == Append(<<"startup">>, "shutdown") = <<"startup", "shutdown">>
<1> DEFINE s == Append(<<"startup">>, "shutdown")
           t == <<"startup", "shutdown">>
<1>1. /\ <<"startup">> \in Seq(LifespanMessages) /\ t \in Seq(LifespanMessages)
      /\ "shutdown" \in LifespanMessages
  BY DEF LifespanMessages
<1>2. Len(<<"startup">>) = 1 /\ Len(t) = 2
  OBVIOUS
<1>3. /\ s \in Seq(LifespanMessages) /\ Len(s) = Len(<<"startup">>) + 1
      /\ \A i \in 1 .. Len(<<"startup">>) : s[i] = <<"startup">>[i]
      /\ s[Len(<<"startup">>) + 1] = "shutdown"
  BY <1>1, AppendProperties
<1>4. Len(s) = 2 /\ s[1] = "startup" /\ s[2] = "shutdown"
  <2>1. s[1] = <<"startup">>[1] /\ <<"startup">>[1] = "startup"
    BY <1>2, <1>3
  <2> QED BY <1>2, <1>3, <2>1
<1>5. t[1] = "startup" /\ t[2] = "shutdown"
  OBVIOUS
<1>6. \A i \in 1 .. Len(s) : s[i] = t[i]
  <2>1. \A i \in 1 .. Len(s) : i = 1 \/ i = 2
    BY <1>4
  <2> QED BY <1>4, <1>5, <2>1
<1> HIDE DEF s, t
<1>7. s = t
  BY <1>1, <1>2, <1>3, <1>4, <1>6, SeqEqual
<1> QED BY <1>7 DEF s, t

LEMMA OneOfTwo == ASSUME NEW n \in Nat, n >= 1, n <= 2, n # 2 PROVE n = 1
OBVIOUS

LEMMA Two == ASSUME NEW d \in Nat, d >= 1, NEW n \in 0 .. 2, d + 1 <= n PROVE n = 2
OBVIOUS

LEMMA LifespanStart == LifespanInit => LifespanInv
<1> SUFFICES ASSUME LifespanInit PROVE LifespanInv
  OBVIOUS
<1>1. StateInv
  BY DEF LifespanInit, StateInv, AppStates
<1>2. InboxInv
  BY DEF LifespanInit, InboxInv
<1>3. QueueInv
  <2>1. left = {} /\ Len(taken) = 0
    BY DEF LifespanInit
  <2>2. ASSUME NEW m \in MountPoints PROVE apps[m] = "called" /\ Due(m) = 0
    <3>1. apps[m] = "called" /\ queues[m] = <<>>
      BY DEF LifespanInit
    <3>2. Len(queues[m]) = 0
      BY <3>1
    <3> QED BY <2>1, <3>1, <3>2 DEF Due
  <2> QED BY <2>1, <2>2 DEF QueueInv
<1>4. ToldInv
  BY DEF LifespanInit, ToldInv
<1> QED BY <1>1, <1>2, <1>3, <1>4 DEF LifespanInv

\* The worker's messages are three sequences: what their lengths and heads are.
LEMMA Taken ==
  ASSUME InboxInv
  PROVE  /\ Len(taken) \in 0 .. 2
         /\ Shutdown <=> taken = <<"startup", "shutdown">>
         /\ Shutdown <=> Len(taken) = 2
BY DEF InboxInv, Shutdown

\* send(): the answer of application m is passed on once, and after that of
\* the startup.
LEMMA Passed ==
  ASSUME LifespanInv, NEW m \in MountPoints, NEW event \in LifespanMessages,
         apps[m] = (IF event = "startup" THEN "starting" ELSE "stopping"),
         SendComplete(m, event)
  PROVE  told' = told \/ (told' = Append(told, event) /\ Len(told) < Len(taken)
                         /\ Len(told) = (IF event = "startup" THEN 0 ELSE 1))
<1>1. CASE event = "startup"
  <2>1. ~startup_complete[m] /\ Len(told) \in Nat
    BY <1>1 DEF LifespanInv, ToldInv, StateInv
  <2>2. Len(told) = 0
    BY <2>1 DEF LifespanInv, ToldInv
  <2>3. Due(m) + 1 <= Len(taken) /\ Due(m) \in Nat
    BY <1>1 DEF LifespanInv, QueueInv, StateInv, Due
  <2>4. 0 < Len(taken)
    BY <2>3, Taken DEF LifespanInv
  <2> QED BY <1>1, <2>2, <2>4 DEF SendComplete
<1>2. CASE event = "shutdown"
  <2>1. ~shutdown_complete[m] /\ Len(told) \in Nat /\ Len(taken) = 2
    BY <1>2 DEF LifespanInv, ToldInv, StateInv, QueueInv
  <2>2. Len(told) = 1
    <3>1. Len(told) >= 1 /\ Len(told) <= 2
      BY <2>1 DEF LifespanInv, ToldInv
    <3>2. Len(told) # 2
      BY <2>1 DEF LifespanInv, ToldInv
    <3>3. Len(told) \in Nat
      BY <2>1
    <3> HIDE DEF LifespanInv
    <3> QED BY <3>1, <3>2, <3>3, OneOfTwo
  <2> QED BY <1>2, <2>1, <2>2 DEF SendComplete
<1> QED BY <1>1, <1>2 DEF LifespanMessages

LEMMA LifespanStep == LifespanInv /\ [LifespanNext]_lifespanVars => LifespanInv'
<1> SUFFICES ASSUME LifespanInv, [LifespanNext]_lifespanVars PROVE LifespanInv'
  OBVIOUS
<1> USE DEF LifespanInv
<1>1. CASE Ask
  <2>1. StateInv' /\ QueueInv'
    BY <1>1 DEF Ask, StateInv, QueueInv, Due
  <2>2. InboxInv'
    BY <1>1 DEF Ask, InboxInv
  <2>3. ToldInv'
    <3>1. Len(told) \in Nat /\ (told # <<>> => Len(told) >= 1)
      BY DEF StateInv
    <3> QED BY <1>1, <3>1 DEF Ask, ToldInv, InboxInv
  <2> QED BY <2>1, <2>2, <2>3
<1>2. CASE TakeMessage
  <2>1. /\ taken' = Append(taken, Head(inbox)) /\ inbox' = <<>>
        /\ Len(taken') = Len(taken) + 1
        /\ taken' \in {<<"startup">>, <<"startup", "shutdown">>}
        /\ Len(taken') = 2 => inbox = <<"shutdown">>
    <3>1. taken' = Append(taken, Head(inbox)) /\ inbox' = Tail(inbox) /\ inbox # <<>>
      BY <1>2 DEF TakeMessage
    <3>2. CASE inbox = <<"startup">> /\ taken = <<>>
      BY <3>1, <3>2
    <3>3. CASE inbox = <<"shutdown">> /\ taken = <<"startup">>
      <4>1. taken' = Append(<<"startup">>, "shutdown") /\ inbox' = Tail(<<"shutdown">>)
        BY <3>1, <3>3
      <4>2. Append(<<"startup">>, "shutdown") = <<"startup", "shutdown">>
        BY Both
      <4>3. Tail(<<"shutdown">>) = <<>>
        OBVIOUS
      <4>4. Len(<<"startup">>) = 1 /\ Len(<<"startup", "shutdown">>) = 2
        OBVIOUS
      <4>5. taken' = <<"startup", "shutdown">> /\ inbox' = <<>>
        BY <4>1, <4>2, <4>3
      <4>6. Len(taken') = Len(taken) + 1
        BY <3>3, <4>4, <4>5
      <4> QED BY <3>1, <3>3, <4>5, <4>6
    <3> QED BY <3>1, <3>2, <3>3 DEF InboxInv
  <2>2. StateInv'
    BY <1>2 DEF TakeMessage, StateInv
  <2>3. InboxInv'
    BY <2>1 DEF InboxInv
  <2>4. QueueInv'
    <3>1. \A m \in MountPoints : Due(m) = Len(queues[m]) /\ Due(m) \in Nat
                                /\ Due(m)' = Due(m) + 1
      BY <1>2 DEF TakeMessage, StateInv, Due
    <3>2. Len(taken) < 2 /\ Len(taken) \in Nat
      <4>1. Len(taken) \in 0 .. 2 /\ Len(taken) # 2
        BY <1>2, Taken DEF TakeMessage
      <4> QED BY <4>1
    <3>3. left' # {} => taken' # <<>>
      BY <2>1
    <3> QED BY <1>2, <2>1, <3>1, <3>2, <3>3 DEF TakeMessage, QueueInv
  <2>5. ToldInv'
    BY <1>2, <2>1 DEF TakeMessage, ToldInv
  <2> QED BY <2>2, <2>3, <2>4, <2>5
<1>3. ASSUME NEW m \in MountPoints, PutTo(m) PROVE LifespanInv'
  <2>1. /\ taken[Len(taken)] \in LifespanMessages
        /\ queues[m] \in Seq(LifespanMessages)
    <3>1. taken # <<>> /\ queues[m] \in Seq(LifespanMessages)
      BY <1>3 DEF PutTo, QueueInv, StateInv
    <3>2. taken = <<"startup">> \/ taken = <<"startup", "shutdown">>
      BY <3>1 DEF InboxInv
    <3> QED BY <3>1, <3>2 DEF LifespanMessages
  <2>2. StateInv'
    BY <1>3, <2>1 DEF PutTo, StateInv
  <2>3. InboxInv' /\ ToldInv'
    BY <1>3 DEF PutTo, InboxInv, ToldInv
  <2>4. QueueInv'
    <3>1. ASSUME NEW n \in MountPoints PROVE Due(n)' = Due(n)
      <4>1. CASE n = m
        <5>1. Len(queues[m]') = Len(queues[m]) + 1 /\ Len(queues[m]) \in Nat
          BY <1>3, <2>1 DEF PutTo, StateInv
        <5>2. m \in left /\ m \notin left'
          BY <1>3 DEF PutTo
        <5> QED BY <4>1, <5>1, <5>2 DEF Due
      <4>2. CASE n # m
        BY <1>3, <4>2 DEF PutTo, Due, StateInv
      <4> QED BY <4>1, <4>2
    <3>2. left' # {} => taken' # <<>>
      BY <1>3 DEF PutTo, QueueInv
    <3> QED BY <1>3, <3>1, <3>2 DEF PutTo, QueueInv
  <2> QED BY <2>2, <2>3, <2>4
<1>4. CASE GroupEnds
  <2>1. StateInv'
    BY <1>4 DEF GroupEnds, StateInv, AppStates, Finished
  <2>2. \A m \in MountPoints : apps'[m] = apps[m] \/ apps'[m] = "cancelled"
    BY <1>4 DEF GroupEnds, StateInv
  <2>3. InboxInv' /\ ToldInv'
    BY <1>4, <2>2 DEF GroupEnds, InboxInv, ToldInv
  <2>4. QueueInv'
    BY <1>4, <2>2 DEF GroupEnds, QueueInv, Due
  <2> QED BY <2>1, <2>3, <2>4
<1>5. ASSUME NEW m \in MountPoints, AppReceives(m) PROVE LifespanInv'
  <2>1. queues[m] \in Seq(LifespanMessages) /\ queues[m] # <<>>
    BY <1>5 DEF AppReceives, StateInv
  <2>2. /\ Tail(queues[m]) \in Seq(LifespanMessages)
        /\ Len(Tail(queues[m])) = Len(queues[m]) - 1 /\ Len(queues[m]) \in Nat
    BY <2>1
  <2>3. /\ apps' \in [MountPoints -> AppStates]
        /\ \A n \in MountPoints : n # m => apps'[n] = apps[n]
        /\ \/ apps[m] = "called" /\ apps'[m] = "starting"
           \/ apps[m] = "started" /\ apps'[m] = "stopping"
    BY <1>5 DEF AppReceives, Moves, StateInv, AppStates
  <2>4. StateInv'
    BY <1>5, <2>2, <2>3 DEF AppReceives, StateInv
  <2>5. InboxInv' /\ ToldInv'
    BY <1>5, <2>3 DEF AppReceives, InboxInv, ToldInv
  <2>6. Due(m)' = Due(m) - 1 /\ Due(m) \in Nat /\ Due(m) >= 1
    <3>1. Len(queues[m]) >= 1
      BY <2>1
    <3>2. Len(queues'[m]) = Len(queues[m]) - 1 /\ left' = left
      BY <1>5, <2>2 DEF AppReceives, StateInv
    <3>3. Due(m)' = Len(queues'[m]) + (IF m \in left THEN 1 ELSE 0)
      BY <3>2 DEF Due
    <3>4. Due(m) = Len(queues[m]) + (IF m \in left THEN 1 ELSE 0)
      BY DEF Due
    <3> HIDE DEF LifespanInv, Due
    <3>5. CASE m \in left
      BY <2>2, <3>1, <3>2, <3>3, <3>4, <3>5
    <3>6. CASE m \notin left
      BY <2>2, <3>1, <3>2, <3>3, <3>4, <3>6
    <3> QED BY <3>5, <3>6
  <2>7. QueueInv'
    <3>1. Len(taken) \in 0 .. 2 /\ taken' = taken /\ left' = left
      BY <1>5, Taken DEF AppReceives
    <3>2. ASSUME NEW n \in MountPoints, n # m PROVE Due(n)' = Due(n)
      BY <1>5, <3>2 DEF AppReceives, Due, StateInv
    <3>3. apps[m] = "called" => Due(m)' + 1 <= Len(taken)
      BY <2>6 DEF QueueInv
    <3>4. apps[m] = "started" => Len(taken) = 2
      <4>1. apps[m] = "started" => Due(m) + 1 <= Len(taken)
        BY DEF QueueInv
      <4>2. CASE apps[m] = "started"
        <5>1. Due(m) + 1 <= Len(taken)
          BY <4>1, <4>2
        <5> HIDE DEF Due, LifespanInv
        <5> QED BY <2>6, <3>1, <5>1, Two
      <4> QED BY <4>2
    <3> QED BY <2>3, <3>1, <3>2, <3>3, <3>4 DEF QueueInv
  <2> QED BY <2>4, <2>5, <2>7
<1>6. ASSUME NEW m \in MountPoints, AppCompletes(m) PROVE LifespanInv'
  <2>1. PICK event \in LifespanMessages :
          /\ SendComplete(m, event)
          /\ apps[m] = (IF event = "startup" THEN "starting" ELSE "stopping")
          /\ apps' = [apps EXCEPT ![m] = IF event = "startup" THEN "started" ELSE "stopped"]
    BY <1>6 DEF AppCompletes, Moves, LifespanMessages
  <2>2. told' = told \/ (told' = Append(told, event) /\ Len(told) < Len(taken)
                        /\ Len(told) = (IF event = "startup" THEN 0 ELSE 1))
    BY <2>1, Passed
  <2>3. told \in Seq(LifespanMessages) /\ Len(told) \in Nat
    BY DEF StateInv
  <2>4. told' \in Seq(LifespanMessages)
        /\ (Len(told') = Len(told) \/ Len(told') = Len(told) + 1)
    BY <2>2, <2>3
  <2>5. /\ startup_complete' = [startup_complete EXCEPT ![m] = @ \/ event = "startup"]
        /\ shutdown_complete' = [shutdown_complete EXCEPT ![m] = @ \/ event = "shutdown"]
    BY <2>1 DEF SendComplete
  <2>6. StateInv'
    BY <1>6, <2>1, <2>4, <2>5 DEF AppCompletes, StateInv, AppStates
  <2>7. InboxInv'
    BY <1>6 DEF AppCompletes, InboxInv
  <2>8. QueueInv'
    <3>1. \A n \in MountPoints : Due(n)' = Due(n)
      BY <1>6 DEF AppCompletes, Due
    <3>2. \A n \in MountPoints :
            apps'[n] = IF n = m THEN (IF event = "startup" THEN "started" ELSE "stopped")
                       ELSE apps[n]
      BY <2>1 DEF StateInv
    <3> QED BY <1>6, <2>1, <3>1, <3>2 DEF AppCompletes, QueueInv
  <2>9. ToldInv'
    <3>1. /\ startup_complete' \in [MountPoints -> BOOLEAN]
          /\ \A n \in MountPoints : startup_complete[n] => startup_complete'[n]
          /\ \A n \in MountPoints : shutdown_complete[n] => shutdown_complete'[n]
          /\ event = "startup" => shutdown_complete' = shutdown_complete
          /\ \A n \in MountPoints : n # m => /\ startup_complete'[n] = startup_complete[n]
                                            /\ shutdown_complete'[n] = shutdown_complete[n]
      BY <2>5 DEF StateInv
    <3>2. inbox' = inbox /\ taken' = taken
      BY <1>6 DEF AppCompletes
    <3>3. \A n \in MountPoints :
            apps'[n] = IF n = m THEN (IF event = "startup" THEN "started" ELSE "stopped")
                       ELSE apps[n]
      BY <2>1 DEF StateInv
    <3>4. \A n \in MountPoints :
            /\ apps'[n] \in {"called", "starting"} => ~startup_complete'[n]
            /\ apps'[n] \in {"called", "starting", "started", "stopping"}
                 => ~shutdown_complete'[n]
      BY <2>1, <3>1, <3>3 DEF ToldInv, LifespanMessages
    <3>5. CASE told' = told
      BY <3>1, <3>2, <3>4, <3>5 DEF ToldInv
    <3>6. CASE told' # told
      <4>1. Len(told') = Len(told) + 1 /\ Len(told) = (IF event = "startup" THEN 0 ELSE 1)
        BY <2>2, <2>3, <3>6
      <4>2. AllComplete(IF event = "startup" THEN startup_complete' ELSE shutdown_complete')
        BY <2>1, <3>6 DEF SendComplete
      <4>3. Len(told') = 1 \/ Len(told') = 2
        BY <4>1
      <4>4. \A n \in MountPoints : startup_complete'[n]
        <5>1. CASE event = "startup"
          BY <4>2, <5>1 DEF AllComplete
        <5>2. CASE event # "startup"
          BY <3>1, <4>1, <5>2 DEF ToldInv
        <5> QED BY <5>1, <5>2
      <4>5. CASE Len(told') = 1
        BY <3>4, <4>4, <4>5 DEF ToldInv
      <4>6. CASE Len(told') = 2
        <5>1. event # "startup"
          BY <4>1, <4>6
        <5>2. \A n \in MountPoints : shutdown_complete'[n]
          BY <4>2, <5>1 DEF AllComplete
        <5> QED BY <3>4, <4>4, <4>6, <5>2 DEF ToldInv
      <4> QED BY <4>3, <4>5, <4>6
    <3> QED BY <3>5, <3>6
  <2> QED BY <2>6, <2>7, <2>8, <2>9
<1>7. ASSUME NEW m \in MountPoints, AppReturns(m) \/ AppGivesUp(m) \/ AppRaises(m)
      PROVE  LifespanInv'
  <2>1. /\ StateInv' /\ UNCHANGED <<inbox, taken, left, queues, startup_complete,
                                    shutdown_complete, told>>
        /\ \A n \in MountPoints : apps'[n] = apps[n] \/ apps'[n] \in Finished
    BY <1>7 DEF AppReturns, AppGivesUp, AppRaises, Moves, StateInv, AppStates, Finished
  <2>2. InboxInv' /\ ToldInv'
    BY <2>1 DEF InboxInv, ToldInv, Finished
  <2>3. QueueInv'
    BY <2>1 DEF QueueInv, Due, Finished
  <2> QED BY <2>1, <2>2, <2>3
<1>8. CASE UNCHANGED lifespanVars
  BY <1>8 DEF lifespanVars, StateInv, InboxInv, QueueInv, ToldInv, Due
<1> QED BY <1>1, <1>2, <1>3, <1>4, <1>5, <1>6, <1>7, <1>8 DEF LifespanNext

\* In every state the dispatcher has told no more than it was asked, and what
\* it told all its applications have completed.
THEOREM LifespanSafety == LifespanSpec => []LifespanInv
BY LifespanStart, LifespanStep, PTL DEF LifespanSpec

\* A dispatcher implements the application that the worker expects
\* (middleware/dispatcher.py, asyncio/lifespan.py): the messages answered in
\* their order, each once, and no return before the shutdown.
THEOREM DispatcherImplements == LifespanSpec => DispatcherIsAnApp
<1> USE DEF App!Messages
<1>1. LifespanInit => App!Init
  BY DEF LifespanInit, App!Init
<1>2. LifespanInv /\ [LifespanNext]_lifespanVars => [App!Next]_App!vars
  <2> SUFFICES ASSUME LifespanInv, [LifespanNext]_lifespanVars PROVE [App!Next]_App!vars
    OBVIOUS
  <2>1. CASE TakeMessage
    <3>1. /\ inbox # <<>> /\ taken' = Append(taken, Head(inbox)) /\ group = "running"
          /\ UNCHANGED <<told, group>>
      BY <2>1 DEF TakeMessage
    <3>2. CASE inbox = <<"startup">> /\ taken = <<>>
      <4>1. Len(taken) = 0 /\ Head(inbox) = "startup"
        BY <3>2
      <4>2. Len(<<"startup", "shutdown">>) = 2 /\ <<"startup", "shutdown">>[0 + 1] = "startup"
        OBVIOUS
      <4> QED BY <3>1, <4>1, <4>2 DEF App!Next, App!Receive
    <3>3. CASE inbox = <<"shutdown">> /\ taken = <<"startup">>
      <4>1. Len(taken) = 1 /\ Head(inbox) = "shutdown"
        BY <3>3
      <4>2. Len(<<"startup", "shutdown">>) = 2 /\ <<"startup", "shutdown">>[1 + 1] = "shutdown"
        OBVIOUS
      <4> QED BY <3>1, <4>1, <4>2 DEF App!Next, App!Receive
    <3> QED BY <3>1, <3>2, <3>3 DEF LifespanInv, InboxInv
  <2>2. CASE GroupEnds
    <3>1. Shutdown => taken = <<"startup", "shutdown">>
      BY Taken DEF LifespanInv
    <3> QED BY <2>2, <3>1 DEF GroupEnds, App!Next, App!Return, App!Raise
  <2>3. ASSUME NEW m \in MountPoints, AppCompletes(m) PROVE [App!Next]_App!vars
    <3>1. PICK event \in LifespanMessages :
            /\ SendComplete(m, event)
            /\ apps[m] = (IF event = "startup" THEN "starting" ELSE "stopping")
      BY <2>3 DEF AppCompletes, Moves, LifespanMessages
    <3>2. told' = told \/ (told' = Append(told, event) /\ Len(told) < Len(taken))
      BY <3>1, Passed
    <3>3. UNCHANGED <<taken, group>> /\ group \in {"running", "failing"}
      BY <2>3 DEF AppCompletes, Running
    <3>4. CASE told' = told
      BY <3>3, <3>4 DEF App!vars
    <3>5. CASE told' = Append(told, event) /\ Len(told) < Len(taken)
      <4>1. Len(told') = Len(told) + 1
        BY <3>5 DEF LifespanInv, StateInv
      <4> QED BY <3>3, <3>5, <4>1 DEF App!Next, App!Complete
    <3> QED BY <3>2, <3>4, <3>5
  <2>4. ASSUME NEW m \in MountPoints,
               PutTo(m) \/ AppReceives(m) \/ AppReturns(m) \/ AppGivesUp(m) \/ AppRaises(m)
        PROVE  [App!Next]_App!vars
    <3>1. UNCHANGED <<taken, told>> /\ group \notin {"raised", "ended"}
          /\ group' \notin {"raised", "ended"}
      BY <2>4 DEF PutTo, AppReceives, AppReturns, AppGivesUp, AppRaises, Running
    <3> QED BY <3>1 DEF App!vars
  <2>5. CASE Ask \/ UNCHANGED lifespanVars
    BY <2>5 DEF Ask, lifespanVars, App!vars
  <2> QED BY <2>1, <2>2, <2>3, <2>4, <2>5 DEF LifespanNext
<1> QED BY <1>1, <1>2, LifespanSafety, PTL DEF LifespanSpec, DispatcherIsAnApp, App!Spec

\* An application's queue is within its size.
QueuesFit == \A m \in MountPoints : Len(queues[m]) <= MaxQueueSize

LEMMA QueuesStep == LifespanInv /\ QueuesFit /\ [LifespanNext]_lifespanVars => QueuesFit'
<1> SUFFICES ASSUME LifespanInv, QueuesFit, [LifespanNext]_lifespanVars PROVE QueuesFit'
  OBVIOUS
<1>0. queues \in [MountPoints -> Seq(LifespanMessages)]
  BY DEF LifespanInv, StateInv
<1>1. ASSUME NEW m \in MountPoints, PutTo(m) PROVE QueuesFit'
  <2>1. queues' = [queues EXCEPT ![m] = Append(@, taken[Len(taken)])]
        /\ Len(queues[m]) < MaxQueueSize /\ Len(queues[m]) \in Nat
    BY <1>0, <1>1, LenProperties DEF PutTo
  <2>2. Len(queues'[m]) = Len(queues[m]) + 1
    <3>1. taken = <<"startup">> \/ taken = <<"startup", "shutdown">>
      BY <1>1 DEF PutTo, LifespanInv, QueueInv, InboxInv
    <3>2. taken[Len(taken)] \in LifespanMessages
      BY <3>1 DEF LifespanMessages
    <3> QED BY <1>0, <2>1, <3>2, AppendProperties
  <2>3. \A n \in MountPoints : n # m => queues'[n] = queues[n]
    BY <1>0, <2>1
  <2>4. Len(queues'[m]) <= MaxQueueSize
    BY <2>1, <2>2, DispatcherAssumption
  <2> QED BY <2>3, <2>4 DEF QueuesFit
<1>2. ASSUME NEW m \in MountPoints, AppReceives(m) PROVE QueuesFit'
  <2>1. queues' = [queues EXCEPT ![m] = Tail(@)] /\ queues[m] # <<>>
    BY <1>2 DEF AppReceives
  <2>2. Len(Tail(queues[m])) = Len(queues[m]) - 1 /\ Len(queues[m]) \in Nat
    BY <1>0, <2>1, HeadTailProperties
  <2>3. \A n \in MountPoints : n # m => queues'[n] = queues[n]
    BY <1>0, <2>1
  <2>4. Len(queues'[m]) <= MaxQueueSize
    <3>1. Len(queues[m]) <= MaxQueueSize /\ Len(queues'[m]) = Len(queues[m]) - 1
      BY <1>0, <2>1, <2>2 DEF QueuesFit
    <3> QED BY <2>2, <3>1, DispatcherAssumption
  <2> QED BY <2>3, <2>4 DEF QueuesFit
<1>3. CASE UNCHANGED queues
  BY <1>3 DEF QueuesFit
<1> QED BY <1>1, <1>2, <1>3 DEF LifespanNext, lifespanVars, Ask, TakeMessage, GroupEnds,
        AppCompletes, AppReturns, AppGivesUp, AppRaises

LEMMA LifespanTypes == LifespanSpec => []LifespanTypeOK
<1>1. LifespanInit => QueuesFit
  <2> SUFFICES ASSUME LifespanInit, NEW m \in MountPoints PROVE Len(queues[m]) <= MaxQueueSize
    BY DEF QueuesFit
  <2>1. queues[m] = <<>>
    BY DEF LifespanInit
  <2>2. Len(queues[m]) = 0 /\ 0 <= MaxQueueSize
    BY <2>1, DispatcherAssumption
  <2> QED BY <2>2
<1>2. LifespanInv /\ QueuesFit => LifespanTypeOK
  <2> SUFFICES ASSUME LifespanInv, QueuesFit PROVE LifespanTypeOK
    OBVIOUS
  <2>1. /\ <<>> \in Seq(LifespanMessages) /\ <<"startup">> \in Seq(LifespanMessages)
        /\ <<"shutdown">> \in Seq(LifespanMessages)
        /\ <<"startup", "shutdown">> \in Seq(LifespanMessages)
    BY DEF LifespanMessages
  <2>2. inbox \in Seq(LifespanMessages) /\ taken \in Seq(LifespanMessages)
    BY <2>1 DEF LifespanInv, InboxInv
  <2> QED BY <2>2 DEF LifespanInv, StateInv, QueuesFit, LifespanTypeOK
<1> QED BY <1>1, <1>2, LifespanStart, LifespanStep, QueuesStep, LifespanSafety, PTL DEF LifespanSpec

----------------------------------------------------------------------------
(* The composition.                                                        *)

LEMMA Parts ==
  /\ MCInit => LifespanInit /\ RequestInit
  /\ [MCNext]_appVars => [LifespanNext]_lifespanVars /\ [RequestNext]_requestVars
<1>1. MCInit => LifespanInit /\ RequestInit
  BY DEF MCInit
<1>2. ASSUME MCNext PROVE [LifespanNext]_lifespanVars /\ [RequestNext]_requestVars
  BY <1>2 DEF MCNext, InLifespan, InRequest
<1>3. ASSUME UNCHANGED appVars PROVE UNCHANGED lifespanVars /\ UNCHANGED requestVars
  BY <1>3 DEF appVars
<1> QED BY <1>1, <1>2, <1>3

LEMMA PartsOfAll == MCSpec => LifespanSpec /\ RequestSpec
BY Parts, PTL DEF MCSpec, LifespanSpec, RequestSpec

OnePart == part \in {"lifespan", "request"}

LEMMA PartIs == MCSpec => []OnePart
<1>1. MCInit => OnePart
  BY DEF MCInit, OnePart
<1>2. OnePart /\ [MCNext]_appVars => OnePart'
  BY DEF MCNext, InLifespan, InRequest, appVars, OnePart
<1> QED BY <1>1, <1>2, PTL DEF MCSpec

\* A request has one response at most, and one that ends well is that of an
\* application that came to its end and was closed, once (app_wrappers.py,
\* WSGIWrapper.run_app, and protocol/http_stream.py).
THEOREM ResponseCorrect == MCSpec => []ResponseRight
<1>1. LifespanTypeOK /\ RequestInv /\ OnePart => ResponseRight
  BY ResponseOne DEF OnePart, RequestInv, TypeOK, ResponseRight
<1> QED BY <1>1, PartsOfAll, PartIs, LifespanTypes, RequestSafety, PTL

----------------------------------------------------------------------------
(* Recursion over a sequence: what FlattenSeq makes of a list of lists.    *)

LEMMA Least ==
  ASSUME NEW T, T \subseteq Nat, T # {}
  PROVE  Min(T) \in T /\ \A y \in T : Min(T) <= y
<1>1. PICK x \in T : \A y \in T : ~ (<<y, x>> \in OpToRel(<, Nat))
  BY WFMin, NatLessThanWellFounded, Zenon
<1>2. \A y \in T : x <= y
  <2>1. ASSUME NEW y \in T PROVE x <= y
    <3>1. ~ (y < x) /\ x \in Nat /\ y \in Nat
      BY <1>1 DEF OpToRel
    <3> QED BY <3>1
  <2> QED BY <2>1
<1> QED BY <1>2 DEF Min

LEMMA NatSet ==
  ASSUME NEW T, T \subseteq Nat, 0 \in T, \A n \in T : n + 1 \in T
  PROVE  T = Nat
<1> SUFFICES ASSUME Nat \ T # {} PROVE FALSE
  OBVIOUS
<1> DEFINE m == Min(Nat \ T)
<1>1. m \in Nat \ T /\ \A y \in Nat \ T : m <= y
  BY Least
<1> HIDE DEF m
<1>2. m # 0 /\ m - 1 \in Nat /\ ~(m <= m - 1)
  BY <1>1
<1>3. m - 1 \in T
  BY <1>1, <1>2
<1>4. m - 1 + 1 = m
  BY <1>1
<1> QED BY <1>1, <1>3, <1>4

LEMMA SeqSet ==
  ASSUME NEW S, NEW T, T \subseteq Seq(S), <<>> \in T,
         \A s \in T : \A x \in S : Append(s, x) \in T
  PROVE  T = Seq(S)
<1> DEFINE N == {n \in Nat : \A s \in Seq(S) : Len(s) = n => s \in T}
<1>1. 0 \in N
  <2>1. \A s \in Seq(S) : Len(s) = 0 => s = <<>>
    BY EmptySeq
  <2> QED BY <2>1
<1>2. ASSUME NEW n \in N PROVE n + 1 \in N
  <2>1. ASSUME NEW s \in Seq(S), Len(s) = n + 1 PROVE s \in T
    <3> DEFINE u == SubSeq(s, 1, n)
    <3>1. n \in Nat /\ Len(s) \in Nat /\ n + 1 \in 1 .. Len(s) /\ (n + 1) - 1 = n
      BY <2>1, LenProperties
    <3>2. \A i \in 1 .. n : s[i] \in S
      BY <3>1, <2>1, ElementOfSeq
    <3>3. u \in Seq(S) /\ Len(u) = n /\ \A i \in 1 .. n : u[i] = s[i]
      <4>1. /\ u \in Seq(S) /\ Len(u) = IF 1 <= n THEN n - 1 + 1 ELSE 0
            /\ \A i \in 1 .. n - 1 + 1 : u[i] = s[1 + i - 1]
        BY <3>1, <3>2, SubSeqProperties
      <4> HIDE DEF u
      <4>2. n - 1 + 1 = n /\ \A i \in 1 .. n : 1 + i - 1 = i
        BY <3>1
      <4>3. Len(u) = n
        BY <3>1, <4>1
      <4>4. \A i \in 1 .. n : u[i] = s[i]
        BY <4>1, <4>2
      <4> QED BY <4>1, <4>3, <4>4
    <3>4. s[n + 1] \in S
      BY <3>1, ElementOfSeq
    <3> HIDE DEF u
    <3>5. u \in T
      BY <3>3
    <3>6. Append(u, s[n + 1]) \in T
      BY <3>4, <3>5
    <3>7. Append(u, s[n + 1]) = s
      <4> DEFINE a == Append(u, s[n + 1])
      <4>1. a \in Seq(S) /\ Len(a) = n + 1 /\ (\A i \in 1 .. n : a[i] = u[i]) /\ a[n + 1] = s[n + 1]
        <5>1. u \in Seq(S) /\ s[n + 1] \in S
          BY <3>3, <3>4
        <5>2. /\ a \in Seq(S) /\ Len(a) = Len(u) + 1
              /\ (\A i \in 1 .. Len(u) : a[i] = u[i]) /\ a[Len(u) + 1] = s[n + 1]
          BY <5>1, AppendProperties
        <5> HIDE DEF a
        <5> QED BY <3>3, <5>2
      <4> HIDE DEF a
      <4>2. \A i \in 1 .. n + 1 : i \in 1 .. n \/ i = n + 1
        BY <3>1
      <4>3. \A i \in 1 .. Len(a) : a[i] = s[i]
        BY <3>3, <4>1, <4>2
      <4>4. a = s
        BY <2>1, <4>1, <4>3, SeqEqual
      <4> QED BY <4>4 DEF a
    <3> QED BY <3>6, <3>7
  <2> QED BY <2>1
<1>3. N = Nat
  <2> HIDE DEF N
  <2>1. N \subseteq Nat
    BY DEF N
  <2> QED BY <1>1, <1>2, <2>1, NatSet
<1>4. \A s \in Seq(S) : Len(s) \in N
  BY <1>3, LenProperties
<1> QED BY <1>4

\* The function that FlattenSeq defines by recursion exists, and is unique.
Joins(s, n, g) ==
  g = [i \in 1 .. n |-> IF i = 1 THEN s[i] ELSE g[i - 1] \o s[i]]

LEMMA JoinsExist == ASSUME NEW s, NEW n \in Nat PROVE \E g : Joins(s, n, g)
<1> DEFINE T == {k \in Nat : \E g : Joins(s, k, g)}
<1>1. 0 \in T
  <2> DEFINE g == [i \in 1 .. 0 |-> s[i]]
  <2>1. Joins(s, 0, g)
    BY DEF Joins
  <2> QED BY <2>1
<1>2. ASSUME NEW k \in T PROVE k + 1 \in T
  <2>1. PICK g : Joins(s, k, g)
    OBVIOUS
  <2> DEFINE last == IF k + 1 = 1 THEN s[k + 1] ELSE g[k] \o s[k + 1]
             h == [i \in 1 .. k + 1 |-> IF i = k + 1 THEN last ELSE g[i]]
  <2>2. k \in Nat
    OBVIOUS
  <2>3. ASSUME NEW i \in 1 .. k + 1
        PROVE  h[i] = IF i = 1 THEN s[i] ELSE h[i - 1] \o s[i]
    <3>1. CASE i = k + 1
      <4>1. h[i] = last
        BY <3>1
      <4>2. CASE k = 0
        <5>1. i = 1 /\ k + 1 = 1
          BY <3>1, <4>2
        <5> QED BY <4>1, <5>1
      <4>3. CASE k # 0
        <5>1. i - 1 = k /\ i # 1 /\ k + 1 # 1 /\ k \in 1 .. k + 1 /\ k # k + 1
          BY <2>2, <3>1, <4>3
        <5>2. h[k] = g[k]
          BY <5>1
        <5> HIDE DEF h
        <5> QED BY <3>1, <4>1, <5>1, <5>2
      <4> QED BY <4>2, <4>3
    <3>2. CASE i # k + 1
      <4>1. i \in 1 .. k /\ h[i] = g[i]
        BY <2>2, <3>2
      <4>2. g[i] = IF i = 1 THEN s[i] ELSE g[i - 1] \o s[i]
        BY <2>1, <4>1 DEF Joins
      <4>3. i # 1 => i - 1 \in 1 .. k + 1 /\ i - 1 # k + 1
        BY <2>2, <4>1
      <4>4. i # 1 => h[i - 1] = g[i - 1]
        BY <4>3
      <4> HIDE DEF h
      <4> QED BY <4>1, <4>2, <4>4
    <3> QED BY <3>1, <3>2
  <2>4. h = [i \in 1 .. k + 1 |-> h[i]]
    OBVIOUS
  <2>5. Joins(s, k + 1, h)
    <3> HIDE DEF h
    <3> QED BY <2>3, <2>4 DEF Joins
  <2> QED BY <2>2, <2>5
<1>3. T = Nat
  <2> HIDE DEF T
  <2>1. T \subseteq Nat
    BY DEF T
  <2> QED BY <1>1, <1>2, <2>1, NatSet
<1> QED BY <1>3

LEMMA JoinsAt ==
  ASSUME NEW s, NEW n, NEW g, Joins(s, n, g), NEW i \in 1 .. n
  PROVE  g[i] = IF i = 1 THEN s[i] ELSE g[i - 1] \o s[i]
BY DEF Joins

LEMMA JoinsAgree ==
  ASSUME NEW s, NEW t, NEW n \in Nat, NEW m \in Nat, NEW g, NEW h,
         Joins(s, n, g), Joins(t, m, h),
         n <= m, \A i \in 1 .. n : s[i] = t[i]
  PROVE  \A i \in 1 .. n : g[i] = h[i]
<1> DEFINE T == {k \in Nat : k \in 1 .. n => g[k] = h[k]}
<1>1. 0 \in T
  OBVIOUS
<1>2. ASSUME NEW k \in T PROVE k + 1 \in T
  <2> SUFFICES ASSUME k + 1 \in 1 .. n PROVE g[k + 1] = h[k + 1]
    OBVIOUS
  <2>1. k + 1 \in 1 .. m /\ s[k + 1] = t[k + 1] /\ (k + 1) - 1 = k /\ k \in Nat
    OBVIOUS
  <2>2. g[k + 1] = IF k + 1 = 1 THEN s[k + 1] ELSE g[k] \o s[k + 1]
    BY <2>1, JoinsAt
  <2>3. h[k + 1] = IF k + 1 = 1 THEN t[k + 1] ELSE h[k] \o t[k + 1]
    BY <2>1, JoinsAt
  <2>4. k + 1 # 1 => g[k] = h[k]
    BY <2>1
  <2> QED BY <2>1, <2>2, <2>3, <2>4
<1>3. T = Nat
  <2> HIDE DEF T
  <2>1. T \subseteq Nat
    BY DEF T
  <2> QED BY <1>1, <1>2, <2>1, NatSet
<1> QED BY <1>3

LEMMA FlattenJoins ==
  ASSUME NEW s, Len(s) \in Nat, Len(s) # 0
  PROVE  \E g : Joins(s, Len(s), g) /\ FlattenSeq(s) = g[Len(s)]
<1>1. PICK g : Joins(s, Len(s), g)
  BY JoinsExist
<1> DEFINE f == CHOOSE f : f = [i \in 1 .. Len(s) |->
                                  IF i = 1 THEN s[i] ELSE f[i - 1] \o s[i]]
<1>2. f = [i \in 1 .. Len(s) |-> IF i = 1 THEN s[i] ELSE f[i - 1] \o s[i]]
  BY <1>1, Zenon DEF Joins
<1>3. FlattenSeq(s) = f[Len(s)]
  BY Zenon DEF FlattenSeq
<1> HIDE DEF f
<1> QED BY <1>2, <1>3 DEF Joins

LEMMA FlattenEmpty == FlattenSeq(<<>>) = <<>>
BY EmptySeq DEF FlattenSeq

LEMMA FlattenAppend ==
  ASSUME NEW X, NEW s \in Seq(Seq(X)), NEW x \in Seq(X), FlattenSeq(s) \in Seq(X)
  PROVE  FlattenSeq(Append(s, x)) = FlattenSeq(s) \o x
<1> DEFINE a == Append(s, x)
           n == Len(s)
<1>1. n \in Nat /\ Len(a) = n + 1 /\ a[n + 1] = x /\ \A i \in 1 .. n : s[i] = a[i]
  BY LenProperties, AppendProperties
<1> HIDE DEF a
<1>2. PICK h : Joins(a, n + 1, h) /\ FlattenSeq(a) = h[n + 1]
  <2>1. Len(a) \in Nat /\ Len(a) # 0
    BY <1>1
  <2> QED BY <1>1, <2>1, FlattenJoins
<1>3. h[n + 1] = IF n + 1 = 1 THEN x ELSE h[n] \o x
  <2>1. n + 1 \in 1 .. n + 1 /\ n + 1 - 1 = n
    BY <1>1
  <2>2. h[n + 1] = IF n + 1 = 1 THEN a[n + 1] ELSE h[n + 1 - 1] \o a[n + 1]
    BY <1>2, <2>1, JoinsAt
  <2> QED BY <1>1, <2>1, <2>2
<1>4. CASE n = 0
  <2>1. s = <<>>
    BY <1>4, EmptySeq
  <2>2. FlattenSeq(s) \o x = x
    BY <2>1, FlattenEmpty, ConcatEmptySeq
  <2> QED BY <1>2, <1>3, <1>4, <2>2 DEF a
<1>5. CASE n # 0
  <2>1. PICK g : Joins(s, n, g) /\ FlattenSeq(s) = g[n]
    BY <1>1, <1>5, FlattenJoins
  <2>2. \A i \in 1 .. n : g[i] = h[i]
    <3>1. n + 1 \in Nat /\ n <= n + 1
      BY <1>1
    <3>2. ASSUME NEW m \in Nat, Joins(a, m, h), n <= m
          PROVE  \A i \in 1 .. n : g[i] = h[i]
      <4>1. n \in Nat /\ \A i \in 1 .. n : s[i] = a[i]
        BY <1>1
      <4>2. Joins(s, n, g)
        BY <2>1
      <4> HIDE DEF n
      <4> QED BY <3>2, <4>1, <4>2, JoinsAgree, SMTT(30)
    <3> HIDE DEF n
    <3> QED BY <1>2, <3>1, <3>2
  <2>3. n \in 1 .. n /\ n + 1 # 1
    BY <1>1, <1>5
  <2> QED BY <1>2, <1>3, <2>1, <2>2, <2>3 DEF a
<1> QED BY <1>4, <1>5

LEMMA FlattenType ==
  ASSUME NEW X, NEW s \in Seq(Seq(X))
  PROVE  FlattenSeq(s) \in Seq(X)
<1> DEFINE T == {t \in Seq(Seq(X)) : FlattenSeq(t) \in Seq(X)}
<1>1. <<>> \in T
  BY FlattenEmpty, EmptySeq
<1>2. ASSUME NEW t \in T, NEW x \in Seq(X) PROVE Append(t, x) \in T
  <2>1. Append(t, x) \in Seq(Seq(X))
    BY AppendProperties
  <2>2. FlattenSeq(Append(t, x)) = FlattenSeq(t) \o x
    BY FlattenAppend
  <2>3. FlattenSeq(t) \o x \in Seq(X)
    BY ConcatProperties
  <2> QED BY <2>1, <2>2, <2>3
<1>3. T = Seq(Seq(X))
  <2> HIDE DEF T
  <2>1. T \subseteq Seq(Seq(X))
    BY DEF T
  <2> QED BY <1>1, <1>2, <2>1, SeqSet
<1> QED BY <1>3

----------------------------------------------------------------------------
(* The path of a request.                                                  *)

LEMMA MountIsFirst ==
  ASSUME NEW L, PathTypes(L), MountOf(setup.mounts, scope.path) # 0
  PROVE  First(MountOf(setup.mounts, scope.path))
<1> DEFINE I == {i \in 1 .. Len(setup.mounts) : IsPrefix(setup.mounts[i], scope.path)}
<1>1. MountOf(setup.mounts, scope.path) = IF I # {} THEN Min(I) ELSE 0
  BY DEF MountOf, SelectInSeq
<1>2. I # {} /\ I \subseteq Nat /\ Len(setup.mounts) \in Nat
  BY <1>1, LenProperties DEF PathTypes
<1>3. Min(I) \in I /\ \A y \in I : Min(I) <= y
  <2> HIDE DEF I
  <2> QED BY <1>2, Least
<1>4. \A j \in 1 .. Min(I) - 1 : ~IsPrefix(setup.mounts[j], scope.path)
  <2> SUFFICES ASSUME NEW j \in 1 .. Min(I) - 1, j \in I PROVE FALSE
    BY <1>2, <1>3
  <2> DEFINE k == Min(I)
  <2>1. j \in 1 .. k - 1 /\ k \in Nat /\ k <= j
    BY <1>2, <1>3
  <2> HIDE DEF k
  <2> QED BY <2>1
<1> QED BY <1>1, <1>2, <1>3, <1>4 DEF First

\* The middlewares before the dispatcher leave the path and the root path.
LEMMA FixKeeps ==
  ASSUME NEW L, PathTypes(L)
  PROVE  LET fixed == ProxyFix(setup.mode, setup.hops, scope)
         IN /\ fixed.path = scope.path /\ fixed.root_path = scope.root_path
            /\ DOMAIN fixed = DOMAIN scope
<1>1. /\ "path" \in DOMAIN scope /\ "root_path" \in DOMAIN scope
  BY DEF PathTypes
<1> QED BY <1>1 DEF ProxyFix

LEMMA PathStep ==
  ASSUME NEW L
  PROVE  PathInv(L) /\ [RequestNext]_requestVars => PathInv(L)'
<1> SUFFICES ASSUME PathInv(L), [RequestNext]_requestVars PROVE PathInv(L)'
  OBVIOUS
<1>0. /\ "path" \in DOMAIN scope /\ "root_path" \in DOMAIN scope
      /\ scope.path \in Seq(L) /\ scope.root_path \in Seq(L)
      /\ setup.mounts \in Seq(Seq(L))
  BY DEF PathInv, PathTypes
<1>1. CASE Request
  <2>1. /\ scope'.path = scope.path /\ scope'.root_path = scope.root_path
        /\ DOMAIN scope' = DOMAIN scope
    BY <1>0, <1>1 DEF Request
  <2>2. environ = None /\ environ' = None /\ task' \in {"enter", "refused"} /\ setup' = setup
    BY <1>1 DEF Request, PathInv
  <2>3. PathTypes(L)'
    BY <1>0, <2>1, <2>2 DEF PathTypes
  <2> QED BY <2>2, <2>3 DEF PathInv
<1>2. CASE Enter
  <2> DEFINE fixed == ProxyFix(setup.mode, setup.hops, scope)
             mount == MountOf(setup.mounts, scope.path)
  <2>1. /\ fixed.path = scope.path /\ fixed.root_path = scope.root_path
        /\ DOMAIN fixed = DOMAIN scope
    BY FixKeeps DEF PathInv
  <2>2. environ = None /\ environ' = None /\ setup' = setup
    BY <1>2 DEF Enter, Goto, PathInv
  <2>3. CASE scope' = fixed /\ task' # "body" /\ task' \notin {"stream", "enter"}
    <3>1. PathTypes(L)'
      BY <1>0, <2>1, <2>2, <2>3 DEF PathTypes
    <3> QED BY <2>2, <2>3, <3>1 DEF PathInv
  <2>4. CASE scope' = Mounted(setup.mounts[mount], fixed) /\ mount # 0
    <3>1. First(mount)
      BY <2>4, MountIsFirst DEF PathInv
    <3>2. setup.mounts[mount] \in Seq(L) /\ mount \in 1 .. Len(setup.mounts)
      BY <1>0, <3>1, ElementOfSeq DEF First
    <3> HIDE DEF fixed, mount
    <3>3. /\ scope'.root_path = scope.root_path \o setup.mounts[mount]
          /\ scope'.path = scope.path /\ DOMAIN scope' = DOMAIN scope
      BY <1>0, <2>1, <2>4 DEF Mounted
    <3>4. scope'.root_path \in Seq(L)
      BY <1>0, <3>2, <3>3, ConcatProperties
    <3>5. PathTypes(L)'
      BY <1>0, <2>2, <3>3, <3>4 DEF PathTypes
    <3>6. mount \in 1 .. Len(setup'.mounts) /\ IsPrefix(setup'.mounts[mount], scope'.path)
          /\ \A j \in 1 .. mount - 1 : ~IsPrefix(setup'.mounts[j], scope'.path)
      BY <2>2, <3>1, <3>3 DEF First
    <3>7. \E i \in 1 .. Len(setup'.mounts), r \in Seq(L) :
            First(i)' /\ scope'.root_path = r \o setup'.mounts[i]
      BY <1>0, <2>2, <3>2, <3>3, <3>6 DEF First
    <3>8. task' \notin {"stream", "enter"} \/ environ' = None
      BY <2>2
    <3> QED BY <2>2, <3>5, <3>7 DEF PathInv
  <2> HIDE DEF fixed
  <2> QED BY <1>2, <2>3, <2>4 DEF Enter, Goto, Redirect, fixed
<1>3. CASE TakeBody
  <2>1. UNCHANGED <<setup, scope>> /\ task = "body"
        /\ (environ' = environ \/ environ' = Environ(scope)) /\ task' \notin {"stream", "enter"}
    BY <1>3 DEF TakeBody, scopeVars
  <2>2. PathTypes(L)'
    BY <2>1 DEF PathInv, PathTypes
  <2>3. \E i \in 1 .. Len(setup.mounts), r \in Seq(L) :
          First(i) /\ scope.root_path = r \o setup.mounts[i]
    BY <2>1 DEF PathInv
  <2>4. \E i \in 1 .. Len(setup'.mounts), r \in Seq(L) :
          First(i)' /\ scope'.root_path = r \o setup'.mounts[i]
    BY <2>1, <2>3 DEF First
  <2>5. environ' # None => environ' = Environ(scope')
    BY <2>1 DEF PathInv
  <2> QED BY <2>1, <2>2, <2>4, <2>5 DEF PathInv
<1>4. CASE UNCHANGED <<setup, scope, environ>> /\ (task' = task \/ task' \notin {"stream", "enter", "body"})
  <2>1. PathTypes(L)'
    BY <1>4 DEF PathInv, PathTypes
  <2>2. task' = "body" \/ environ' # None =>
          \E i \in 1 .. Len(setup'.mounts), r \in Seq(L) :
            First(i)' /\ scope'.root_path = r \o setup'.mounts[i]
    <3>1. task' = "body" \/ environ' # None => task = "body" \/ environ # None
      BY <1>4
    <3>2. task' = "body" \/ environ' # None =>
            \E i \in 1 .. Len(setup.mounts), r \in Seq(L) :
              First(i) /\ scope.root_path = r \o setup.mounts[i]
      BY <3>1 DEF PathInv
    <3> QED BY <1>4, <3>2 DEF First
  <2>3. (task' \in {"stream", "enter"} => environ' = None)
        /\ (environ' # None => environ' = Environ(scope'))
    BY <1>4 DEF PathInv
  <2> QED BY <2>1, <2>2, <2>3 DEF PathInv
<1>5. RequestNext /\ ~Request /\ ~Enter /\ ~TakeBody
        => UNCHANGED <<setup, scope, environ>> /\ (task' = task \/ task' \notin {"stream", "enter", "body"})
  BY DEF RequestNext, TaskStep, ThreadStep, Answer, EndAnswer, Joined, FinalBody, Handled, Cut, Goto,
     ClientSends, ClientEnds, ClientLeaves, AppCalled, AppYields, AppEnds, AppFails, SendStart,
     SendChunk, CloseBody, Thread, AfterThread, scopeVars
<1>6. UNCHANGED requestVars => UNCHANGED <<setup, scope, environ, task>>
  BY DEF requestVars, scopeVars
<1> QED BY <1>1, <1>2, <1>3, <1>4, <1>5, <1>6

LEMMA JoinedSuffix ==
  ASSUME NEW S, NEW r \in Seq(S), NEW s \in Seq(S)
  PROVE  IsSuffix(s, r \o s)
<1> DEFINE t == r \o s
           u == Reverse(s)
           v == Reverse(t)
<1>1. Len(r) \in Nat /\ Len(s) \in Nat
  BY LenProperties
<1>2. t \in Seq(S) /\ Len(t) = Len(r) + Len(s) /\ \A i \in 1 .. Len(s) : t[Len(r) + i] = s[i]
  BY JoinedSeq
<1>3. \A i \in 1 .. Len(s) : s[i] \in S
  BY ElementOfSeq
<1>4. \A i \in 1 .. Len(t) : t[i] \in S
  BY <1>2, ElementOfSeq
<1> HIDE DEF t
<1>5. u \in Seq(S) /\ Len(u) = Len(s) /\ \A i \in 1 .. Len(s) : u[i] = s[Len(s) - i + 1]
  <2>1. u = [i \in 1 .. Len(s) |-> s[Len(s) - i + 1]]
    BY DEF Reverse
  <2>2. \A i \in 1 .. Len(s) : s[Len(s) - i + 1] \in S
    BY <1>1, <1>3
  <2> HIDE DEF u
  <2> QED BY <1>1, <2>1, <2>2
<1>6. v \in Seq(S) /\ Len(v) = Len(t) /\ \A i \in 1 .. Len(t) : v[i] = t[Len(t) - i + 1]
  <2>1. v = [i \in 1 .. Len(t) |-> t[Len(t) - i + 1]]
    BY DEF Reverse
  <2>2. \A i \in 1 .. Len(t) : t[Len(t) - i + 1] \in S
    BY <1>1, <1>2, <1>4
  <2> HIDE DEF v
  <2> QED BY <1>1, <1>2, <2>1, <2>2
<1>7. ASSUME NEW i \in 1 .. Len(s) PROVE u[i] = v[i]
  <2>1. i \in 1 .. Len(t) /\ Len(s) - i + 1 \in 1 .. Len(s)
        /\ Len(t) - i + 1 = Len(r) + (Len(s) - i + 1)
    BY <1>1, <1>2
  <2> QED BY <1>2, <1>5, <1>6, <2>1
<1> HIDE DEF u, v
<1>8. SubSeq(u, 1, Len(u)) = SubSeq(v, 1, Len(u))
  <2> DEFINE a == SubSeq(u, 1, Len(s))
             b == SubSeq(v, 1, Len(s))
  <2>1. a \in Seq(S) /\ Len(a) = Len(s) /\ \A i \in 1 .. Len(s) : a[i] = u[i]
    <3>1. \A i \in 1 .. Len(s) : u[i] \in S
      BY <1>5, ElementOfSeq
    <3> QED BY <1>1, <3>1, SubSeqProperties
  <2>2. b \in Seq(S) /\ Len(b) = Len(s) /\ \A i \in 1 .. Len(s) : b[i] = v[i]
    <3>1. \A i \in 1 .. Len(s) : v[i] \in S
      BY <1>5, <1>7, ElementOfSeq
    <3> QED BY <1>1, <3>1, SubSeqProperties
  <2> HIDE DEF a, b
  <2>3. a = b
    BY <1>7, <2>1, <2>2, SeqEqual
  <2> QED BY <1>5, <2>3 DEF a, b
<1>9. Len(u) <= Len(v)
  BY <1>1, <1>2, <1>5, <1>6
<1> QED BY <1>8, <1>9 DEF IsSuffix, IsPrefix, t, u, v

LEMMA PathOfEnviron == ASSUME NEW L PROVE PathInv(L) => PathKept
<1> SUFFICES ASSUME PathInv(L), environ # None PROVE PathKept
  BY DEF PathKept
<1> DEFINE p == scope.path
           q == scope.root_path
           n == Len(q)
<1>1. p \in Seq(L) /\ q \in Seq(L) /\ setup.mounts \in Seq(Seq(L))
      /\ n \in Nat /\ Len(p) \in Nat
  BY LenProperties DEF PathInv, PathTypes
<1>2. IsPrefix(q, p) /\ environ.SCRIPT_NAME = q
      /\ environ.PATH_INFO = (IF Rest(scope) = <<>> THEN <<"/">> ELSE Rest(scope))
  BY DEF PathInv, Environ
<1>3. n <= Len(p) /\ SubSeq(q, 1, n) = SubSeq(p, 1, n) /\ q = SubSeq(p, 1, n)
  BY <1>1, <1>2, SubSeqFull DEF IsPrefix
<1>4. q \o Rest(scope) = p
  <2>1. 1 \in 1 .. Len(p) + 1 /\ n \in 1 - 1 .. Len(p) /\ Len(p) \in n .. Len(p)
    BY <1>1, <1>3
  <2>2. SubSeq(p, 1, n) \o SubSeq(p, n + 1, Len(p)) = SubSeq(p, 1, Len(p))
    <3> HIDE DEF n, p
    <3> QED BY <1>1, <2>1, ConcatAdjacentSubSeq
  <2> QED BY <1>1, <1>3, <2>2, SubSeqFull DEF Rest
<1>5. q \o environ.PATH_INFO \in {p, p \o <<"/">>}
  <2>1. CASE Rest(scope) = <<>>
    <3>1. q = p
      BY <1>1, <1>4, <2>1, ConcatEmptySeq
    <3> QED BY <1>2, <2>1, <3>1
  <2>2. CASE Rest(scope) # <<>>
    BY <1>2, <1>4, <2>2
  <2> QED BY <2>1, <2>2
<1>6. PICK i \in 1 .. Len(setup.mounts), r \in Seq(L) :
        First(i) /\ q = r \o setup.mounts[i]
  BY DEF PathInv
<1>7. IsSuffix(setup.mounts[i], q)
  <2>1. setup.mounts[i] \in Seq(L)
    BY <1>1, ElementOfSeq
  <2> QED BY <1>6, <2>1, JoinedSuffix
<1>8. DOMAIN setup.mounts = 1 .. Len(setup.mounts)
  BY <1>1, LenProperties
<1> QED BY <1>2, <1>5, <1>6, <1>7, <1>8 DEF PathKept, First

\* The characters of the requests of MCInit.
Letters == {"/", "a", "b"}

LEMMA PathStart == MCInit => PathInv(Letters)
<1> SUFFICES ASSUME MCInit PROVE PathInv(Letters)
  OBVIOUS
<1>1. /\ \A p \in Paths : p \in Seq(Letters)
      /\ <<>> \in Seq(Letters) /\ <<"/", "a">> \in Seq(Letters) /\ <<"b">> \in Seq(Letters)
      /\ Path1 \in Seq(Letters)
  <2>1. "/" \in Letters /\ "a" \in Letters /\ "b" \in Letters
    BY DEF Letters
  <2>2. ASSUME NEW S, NEW a \in S, NEW b \in S, NEW c \in S, NEW d \in S
        PROVE  /\ <<>> \in Seq(S) /\ <<a>> \in Seq(S) /\ <<a, b>> \in Seq(S)
               /\ <<a, b, c>> \in Seq(S) /\ <<a, b, c, d>> \in Seq(S)
    OBVIOUS
  <2> QED BY <2>1, <2>2, Zenon DEF Paths, Path1
<1>2. \A l \in MountLists : l \in Seq(Seq(Letters))
  <2>1. ASSUME NEW s \in Seq(Letters), NEW t \in Seq(Letters)
        PROVE  <<s, t>> \in Seq(Seq(Letters))
    OBVIOUS
  <2>2. /\ <<"/", "a", "/", "b">> \in Seq(Letters) /\ <<"/", "a">> \in Seq(Letters)
        /\ <<"/">> \in Seq(Letters)
    BY <1>1, Zenon DEF Paths, Path1
  <2> QED BY <2>1, <2>2, Zenon DEF MountLists
<1>3. Mounts1 \in MountLists
  BY DEF Mounts1, MountLists
<1>4. ASSUME NEW names, NEW mode, NEW hops, NEW host, NEW mounts, NEW user, NEW type, NEW denial,
             NEW scheme, NEW version, NEW headers, NEW path, NEW root,
             setup = Setup(names, mode, hops, host, mounts, user),
             scope = Scope(type, denial, scheme, version, headers, path, root)
      PROVE  setup.mounts = mounts /\ scope.path = path /\ scope.root_path = root
             /\ {"path", "root_path"} \subseteq DOMAIN scope
  BY <1>4 DEF Setup, Scope
<1>5. PathTypes(Letters)
  <2>1. CASE part = "lifespan"
    BY <1>1, <1>2, <1>3, <1>4, <2>1 DEF MCInit, PathTypes
  <2>2. CASE ThroughProxies
    <3>1. PICK mode \in {"legacy", "modern"}, hops \in 0 .. MaxHops, own \in BOOLEAN,
               joined \in BOOLEAN, user \in {"http", "https"} :
            /\ setup = Setup({}, mode, hops, None, Mounts1, user)
            /\ scope = Scope("http", FALSE, IF hops = 0 THEN user ELSE "http", "1.1",
                             <<Header("host", <<"inner">>)>>
                               \o Proxied(mode, user, hops, own, joined),
                             Path1, <<>>)
      BY <2>2 DEF ThroughProxies
    <3>2. setup.mounts = Mounts1 /\ scope.path = Path1 /\ scope.root_path = <<>>
          /\ {"path", "root_path"} \subseteq DOMAIN scope
      BY <3>1 DEF Setup, Scope
    <3> QED BY <1>1, <1>2, <1>3, <3>2 DEF PathTypes
  <2>3. CASE OfEveryKind
    <3>1. PICK path \in {Path1, <<"b">>} :
            setup.mounts = Mounts1 /\ scope.path = path /\ scope.root_path = <<>>
            /\ {"path", "root_path"} \subseteq DOMAIN scope
      BY <2>3 DEF OfEveryKind, Setup, Scope
    <3> QED BY <1>1, <1>2, <1>3, <3>1 DEF PathTypes
  <2>4. CASE ForEveryPath
    <3>1. PICK mounts \in MountLists, path \in Paths, root \in {<<>>, <<"/", "a">>} :
            setup.mounts = mounts /\ scope.path = path /\ scope.root_path = root
            /\ {"path", "root_path"} \subseteq DOMAIN scope
      BY <2>4 DEF ForEveryPath, Setup, Scope
    <3> QED BY <1>1, <1>2, <3>1 DEF PathTypes
  <2> QED BY <2>1, <2>2, <2>3, <2>4 DEF MCInit
<1>6. task = "stream" /\ environ = None
  BY DEF MCInit, RequestInit
<1> QED BY <1>5, <1>6 DEF PathInv

\* For any mounts and any path, of any characters L, and behind any
\* middlewares, the application is the first that is mounted where the path
\* begins, and SCRIPT_NAME and PATH_INFO make up the path
\* (middleware/dispatcher.py, app_wrappers.py, _build_environ).
THEOREM PathCorrect == ASSUME NEW L PROVE RequestSpec /\ PathTypes(L) => []PathKept
<1>1. RequestInit /\ PathTypes(L) => PathInv(L)
  BY DEF RequestInit, PathInv
<1> QED BY <1>1, PathStep, PathOfEnviron, PTL DEF RequestSpec

----------------------------------------------------------------------------
(* What the loops over the headers collect.                                *)

\* What one header adds to Values and Others.
ValuesIn(name, h) == IF h.name = name THEN h.value ELSE <<>>
KeptOf(names, h) == IF h.name \in names THEN <<>> ELSE <<h>>

Each(f, s) == [i \in DOMAIN s |-> f[s[i]]]

LEMMA EachType ==
  ASSUME NEW H, NEW X, NEW f, NEW s, f \in [H -> Seq(X)], s \in Seq(H)
  PROVE  /\ Each(f, s) \in Seq(Seq(X)) /\ Len(Each(f, s)) = Len(s)
         /\ \A i \in 1 .. Len(s) : Each(f, s)[i] = f[s[i]]
<1> DEFINE fs == Each(f, s)
           n == Len(s)
<1>1. n \in Nat /\ DOMAIN s = 1 .. n /\ \A i \in 1 .. n : s[i] \in H
  BY LenProperties, ElementOfSeq
<1> HIDE DEF n
<1>2. fs \in [1 .. n -> Seq(X)] /\ \A i \in 1 .. n : fs[i] = f[s[i]]
  BY <1>1 DEF Each
<1> HIDE DEF fs
<1>3. fs \in Seq(Seq(X)) /\ Len(fs) = n
  BY <1>1, <1>2
<1> QED BY <1>2, <1>3 DEF fs, n

LEMMA EachAppended ==
  ASSUME NEW H, NEW X, NEW f \in [H -> Seq(X)], NEW s \in Seq(H), NEW x \in H
  PROVE  Each(f, Append(s, x)) = Append(Each(f, s), f[x])
<1> DEFINE a == Append(s, x)
           fs == Each(f, s)
           fa == Each(f, a)
           n == Len(s)
<1>1. n \in Nat /\ DOMAIN s = 1 .. n /\ \A i \in 1 .. n : s[i] \in H
  BY LenProperties, ElementOfSeq
<1>2. a \in Seq(H) /\ Len(a) = n + 1 /\ (\A i \in 1 .. n : a[i] = s[i]) /\ a[n + 1] = x
  BY AppendProperties
<1> HIDE DEF a
<1>3. DOMAIN a = 1 .. n + 1 /\ \A i \in 1 .. n + 1 : a[i] \in H
  BY <1>2, LenProperties, ElementOfSeq
<1> HIDE DEF n
<1>4. fs \in Seq(Seq(X)) /\ Len(fs) = n /\ \A i \in 1 .. n : fs[i] = f[s[i]]
  BY EachType DEF n
<1>5. fa \in Seq(Seq(X)) /\ Len(fa) = n + 1 /\ \A i \in 1 .. n + 1 : fa[i] = f[a[i]]
  <2>1. fa \in Seq(Seq(X)) /\ Len(fa) = Len(a) /\ \A i \in 1 .. Len(a) : fa[i] = f[a[i]]
    BY <1>2, EachType
  <2> QED BY <1>2, <2>1
<1> HIDE DEF fs, fa
<1> DEFINE b == Append(fs, f[x])
<1>6. b \in Seq(Seq(X)) /\ Len(b) = n + 1 /\ (\A i \in 1 .. n : b[i] = fs[i]) /\ b[n + 1] = f[x]
  <2>1. fs \in Seq(Seq(X)) /\ f[x] \in Seq(X)
    BY <1>4
  <2>2. /\ b \in Seq(Seq(X)) /\ Len(b) = Len(fs) + 1
        /\ (\A i \in 1 .. Len(fs) : b[i] = fs[i]) /\ b[Len(fs) + 1] = f[x]
    BY <2>1, AppendProperties
  <2> HIDE DEF b
  <2> QED BY <1>4, <2>2
<1> HIDE DEF b
<1>7. \A i \in 1 .. n + 1 : i \in 1 .. n \/ i = n + 1
  BY <1>1
<1>8. \A i \in 1 .. n : i \in 1 .. n + 1
  BY <1>1
<1>9. \A i \in 1 .. n + 1 : fa[i] = b[i]
  <2>1. ASSUME NEW i \in 1 .. n PROVE fa[i] = b[i]
    <3>1. i \in 1 .. n + 1 /\ a[i] = s[i] /\ b[i] = fs[i]
      BY <1>2, <1>6, <1>8
    <3>2. fa[i] = f[a[i]] /\ fs[i] = f[s[i]]
      BY <1>4, <1>5, <3>1
    <3> QED BY <3>1, <3>2
  <2>2. n + 1 \in 1 .. n + 1
    BY <1>1
  <2>3. fa[n + 1] = b[n + 1]
    BY <1>2, <1>5, <1>6, <2>2
  <2> QED BY <1>7, <2>1, <2>3
<1>10. fa = b
  BY <1>5, <1>6, <1>9, SeqEqual
<1> QED BY <1>10 DEF fa, fs, b, a

\* The list f makes of the elements of H, in a loop.
Loops(H, X, f) ==
  /\ FlattenSeq(Each(f, <<>>)) = <<>>
  /\ \A s \in Seq(H) : FlattenSeq(Each(f, s)) \in Seq(X)
  /\ \A s \in Seq(H), x \in H :
       FlattenSeq(Each(f, Append(s, x))) = FlattenSeq(Each(f, s)) \o f[x]

LEMMA FlattenEach ==
  ASSUME NEW H, NEW X, NEW f, f \in [H -> Seq(X)]
  PROVE  Loops(H, X, f)
<1>1. FlattenSeq(Each(f, <<>>)) = <<>>
  <2>1. Each(f, <<>>) = <<>>
    BY DEF Each
  <2> QED BY <2>1, FlattenEmpty
<1>2. ASSUME NEW s \in Seq(H)
      PROVE  /\ FlattenSeq(Each(f, s)) \in Seq(X)
             /\ \A x \in H :
                  FlattenSeq(Each(f, Append(s, x))) = FlattenSeq(Each(f, s)) \o f[x]
  <2>1. Each(f, s) \in Seq(Seq(X))
    BY EachType
  <2>2. FlattenSeq(Each(f, s)) \in Seq(X)
    BY <2>1, FlattenType
  <2>3. ASSUME NEW x \in H
        PROVE  FlattenSeq(Each(f, Append(s, x))) = FlattenSeq(Each(f, s)) \o f[x]
    <3>1. Each(f, Append(s, x)) = Append(Each(f, s), f[x])
      BY EachAppended
    <3>2. f[x] \in Seq(X)
      OBVIOUS
    <3>3. FlattenSeq(Append(Each(f, s), f[x])) = FlattenSeq(Each(f, s)) \o f[x]
      BY <2>1, <2>2, <3>2, FlattenAppend
    <3> QED BY <3>1, <3>3
  <2> QED BY <2>2, <2>3
<1> QED BY <1>1, <1>2 DEF Loops

\* The headers of H have values of V.
Valued(H, V) == \A h \in H : h.value \in Seq(V)

ValuesLoop(H, V, name) ==
  /\ Values(name, <<>>) = <<>>
  /\ \A s \in Seq(H) : Values(name, s) \in Seq(V)
  /\ \A s \in Seq(H), x \in H :
       Values(name, Append(s, x)) = Values(name, s) \o ValuesIn(name, x)

LEMMA ValuesAppend ==
  ASSUME NEW V, NEW H, Valued(H, V), NEW name
  PROVE  ValuesLoop(H, V, name)
<1> DEFINE f == [h \in H |-> ValuesIn(name, h)]
<1>1. f \in [H -> Seq(V)] /\ \A h \in H : f[h] = ValuesIn(name, h)
  BY EmptySeq DEF ValuesIn, Valued
<1> HIDE DEF f
<1>2. ASSUME NEW t \in Seq(H) PROVE Values(name, t) = FlattenSeq(Each(f, t))
  <2>1. \A i \in DOMAIN t : f[t[i]] = ValuesIn(name, t[i])
    BY <1>1, LenProperties, ElementOfSeq
  <2>2. Each(f, t) = [i \in DOMAIN t |-> IF t[i].name = name THEN t[i].value ELSE <<>>]
    BY <2>1 DEF Each, ValuesIn
  <2> QED BY <2>2, Zenon DEF Values
<1>3. <<>> \in Seq(H) /\ \A s \in Seq(H), x \in H : Append(s, x) \in Seq(H)
  BY EmptySeq, AppendProperties
<1>4. Loops(H, V, f)
  BY <1>1, FlattenEach
<1> QED BY <1>1, <1>2, <1>3, <1>4 DEF Loops, ValuesLoop

OthersLoop(H, names) ==
  /\ Others(names, <<>>) = <<>>
  /\ \A s \in Seq(H) : Others(names, s) \in Seq(H)
  /\ \A s \in Seq(H), x \in H :
       Others(names, Append(s, x)) = Others(names, s) \o KeptOf(names, x)

LEMMA OthersAppend ==
  ASSUME NEW H, NEW names
  PROVE  OthersLoop(H, names)
<1> DEFINE f == [h \in H |-> KeptOf(names, h)]
<1>1. f \in [H -> Seq(H)] /\ \A h \in H : f[h] = KeptOf(names, h)
  BY EmptySeq DEF KeptOf
<1> HIDE DEF f
<1>2. ASSUME NEW t \in Seq(H) PROVE Others(names, t) = FlattenSeq(Each(f, t))
  <2>1. \A i \in DOMAIN t : f[t[i]] = KeptOf(names, t[i])
    BY <1>1, LenProperties, ElementOfSeq
  <2>2. Each(f, t) = [i \in DOMAIN t |-> IF t[i].name \in names THEN <<>> ELSE <<t[i]>>]
    BY <2>1 DEF Each, KeptOf
  <2> QED BY <2>2, Zenon DEF Others
<1>3. <<>> \in Seq(H) /\ \A s \in Seq(H), x \in H : Append(s, x) \in Seq(H)
  BY EmptySeq, AppendProperties
<1>4. Loops(H, H, f)
  BY <1>1, FlattenEach
<1> QED BY <1>1, <1>2, <1>3, <1>4 DEF Loops, OthersLoop

----------------------------------------------------------------------------
(* What headers joined, left out or made in a loop come to.                *)

LEMMA AppendJoins ==
  ASSUME NEW S, NEW s \in Seq(S), NEW x \in S
  PROVE  Append(s, x) = s \o <<x>> /\ <<x>> \in Seq(S)
<1>1. <<x>> \in Seq(S) /\ Len(<<x>>) = 1 /\ <<x>>[1] = x
  OBVIOUS
<1> DEFINE u == <<x>>
           a == Append(s, x)
           b == s \o u
           n == Len(s)
<1>2. n \in Nat
  BY LenProperties
<1> HIDE DEF u
<1>3. a \in Seq(S) /\ Len(a) = n + 1 /\ (\A i \in 1 .. n : a[i] = s[i]) /\ a[n + 1] = x
  BY AppendProperties
<1>4. b \in Seq(S) /\ Len(b) = n + 1
      /\ \A i \in 1 .. n + 1 : b[i] = IF i <= n THEN s[i] ELSE u[i - n]
  BY <1>1, ConcatProperties DEF u
<1> HIDE DEF a, b, n
<1>5. b[n + 1] = x /\ \A i \in 1 .. n : b[i] = s[i]
  <2>1. n + 1 \in 1 .. n + 1 /\ ~(n + 1 <= n) /\ n + 1 - n = 1
    BY <1>2
  <2>2. b[n + 1] = u[1]
    BY <1>2, <1>4, <2>1
  <2>3. \A i \in 1 .. n : i \in 1 .. n + 1 /\ i <= n
    BY <1>2
  <2> QED BY <1>1, <1>4, <2>2, <2>3 DEF u
<1>6. \A i \in 1 .. n + 1 : i \in 1 .. n \/ i = n + 1
  BY <1>2
<1>7. \A i \in 1 .. n + 1 : a[i] = b[i]
  BY <1>3, <1>5, <1>6
<1>8. a = b
  BY <1>3, <1>4, <1>7, SeqEqual
<1> QED BY <1>1, <1>8 DEF a, b, u

LEMMA ValuesJoined ==
  ASSUME NEW V, NEW H, Valued(H, V), NEW name,
         NEW g, NEW t, g \in Seq(H), t \in Seq(H)
  PROVE  /\ g \o t \in Seq(H)
         /\ Values(name, g \o t) = Values(name, g) \o Values(name, t)
<1>0. /\ Values(name, <<>>) = <<>>
      /\ \A u \in Seq(H) : Values(name, u) \in Seq(V)
      /\ \A u \in Seq(H), x \in H :
           Values(name, Append(u, x)) = Values(name, u) \o ValuesIn(name, x)
  <2>1. ValuesLoop(H, V, name)
    BY ValuesAppend
  <2> QED BY <2>1 DEF ValuesLoop
<1> DEFINE T == {u \in Seq(H) : Values(name, g \o u) = Values(name, g) \o Values(name, u)}
<1>1. <<>> \in T
  <2>1. Values(name, <<>>) = <<>> /\ Values(name, g) \in Seq(V)
    BY <1>0
  <2>2. g \o <<>> = g /\ Values(name, g) \o <<>> = Values(name, g)
    BY <2>1, ConcatEmptySeq
  <2> QED BY <2>1, <2>2, EmptySeq
<1>2. ASSUME NEW u \in T, NEW x \in H PROVE Append(u, x) \in T
  <2> DEFINE v == ValuesIn(name, x)
  <2>0. g \o u \in Seq(H) /\ Append(u, x) \in Seq(H)
    BY ConcatProperties, AppendProperties
  <2>1. v \in Seq(V)
    BY EmptySeq DEF ValuesIn, Valued
  <2> HIDE DEF v
  <2>2. Values(name, Append(u, x)) = Values(name, u) \o v
    BY <1>0 DEF v
  <2>3. Values(name, Append(g \o u, x)) = Values(name, g \o u) \o v
    BY <2>0, <1>0 DEF v
  <2>4. Append(g \o u, x) = g \o Append(u, x)
    <3>1. Append(g \o u, x) = (g \o u) \o <<x>> /\ Append(u, x) = u \o <<x>> /\ <<x>> \in Seq(H)
      BY <2>0, AppendJoins
    <3> QED BY <3>1, ConcatAssociative
  <2>5. Values(name, g) \in Seq(V) /\ Values(name, u) \in Seq(V)
    BY <1>0
  <2>6. (Values(name, g) \o Values(name, u)) \o v = Values(name, g) \o (Values(name, u) \o v)
    <3>1. ASSUME NEW a \in Seq(V), NEW b \in Seq(V), NEW c \in Seq(V)
          PROVE  (a \o b) \o c = a \o (b \o c)
      BY ConcatAssociative
    <3> QED BY <2>1, <2>5, <3>1
  <2> QED BY <2>0, <2>2, <2>3, <2>4, <2>6
<1>3. T = Seq(H)
  <2> HIDE DEF T
  <2>1. T \subseteq Seq(H)
    BY DEF T
  <2> QED BY <1>1, <1>2, <2>1, SeqSet
<1> QED BY <1>3, ConcatProperties

\* No value comes from headers of other names.
LEMMA ValuesOfOthers ==
  ASSUME NEW V, NEW H, Valued(H, V), NEW name,
         \A h \in H : h.name # name, NEW t \in Seq(H)
  PROVE  Values(name, t) = <<>>
<1>0. /\ Values(name, <<>>) = <<>>
      /\ \A u \in Seq(H) : Values(name, u) \in Seq(V)
      /\ \A u \in Seq(H), x \in H :
           Values(name, Append(u, x)) = Values(name, u) \o ValuesIn(name, x)
  <2>1. ValuesLoop(H, V, name)
    BY ValuesAppend
  <2> QED BY <2>1 DEF ValuesLoop
<1> DEFINE T == {u \in Seq(H) : Values(name, u) = <<>>}
<1>1. <<>> \in T
  BY <1>0, EmptySeq
<1>2. ASSUME NEW u \in T, NEW x \in H PROVE Append(u, x) \in T
  <2>1. ValuesIn(name, x) = <<>> /\ Append(u, x) \in Seq(H)
    BY AppendProperties DEF ValuesIn
  <2>2. Values(name, Append(u, x)) = Values(name, u) \o <<>>
    BY <2>1, <1>0
  <2>3. Values(name, u) \o <<>> = <<>>
    BY EmptySeq, ConcatEmptySeq
  <2> QED BY <2>1, <2>2, <2>3
<1>3. T = Seq(H)
  <2> HIDE DEF T
  <2>1. T \subseteq Seq(H)
    BY DEF T
  <2> QED BY <1>1, <1>2, <2>1, SeqSet
<1> QED BY <1>3

LEMMA ValuesOfOne ==
  ASSUME NEW V, NEW H, Valued(H, V), NEW name, NEW h \in H
  PROVE  Values(name, <<h>>) = IF h.name = name THEN h.value ELSE <<>>
<1>0. /\ Values(name, <<>>) = <<>>
      /\ \A u \in Seq(H) : Values(name, u) \in Seq(V)
      /\ \A u \in Seq(H), x \in H :
           Values(name, Append(u, x)) = Values(name, u) \o ValuesIn(name, x)
  <2>1. ValuesLoop(H, V, name)
    BY ValuesAppend
  <2> QED BY <2>1 DEF ValuesLoop
<1>1. <<>> \in Seq(H) /\ Append(<<>>, h) = <<>> \o <<h>> /\ <<h>> \in Seq(H)
  BY EmptySeq, AppendJoins
<1>2. Append(<<>>, h) = <<h>>
  BY <1>1, ConcatEmptySeq
<1>3. Values(name, <<h>>) = <<>> \o ValuesIn(name, h)
  BY <1>1, <1>2, <1>0
<1>4. ValuesIn(name, h) \in Seq(V)
  BY EmptySeq DEF ValuesIn, Valued
<1>5. <<>> \o ValuesIn(name, h) = ValuesIn(name, h)
  BY <1>4, ConcatEmptySeq
<1> QED BY <1>3, <1>5 DEF ValuesIn

\* A header for each of some values has them all.
LEMMA ValuesOfEach ==
  ASSUME NEW V, NEW name, NEW v \in Seq(V)
  PROVE  Values(name, [i \in DOMAIN v |-> Header(name, <<v[i]>>)]) = v
<1> DEFINE f == [x \in V |-> <<x>>]
           T == {u \in Seq(V) : FlattenSeq(Each(f, u)) = u}
<1>1. f \in [V -> Seq(V)] /\ \A x \in V : f[x] = <<x>>
  <2>1. \A x \in V : <<x>> \in Seq(V)
    OBVIOUS
  <2> QED BY <2>1
<1> HIDE DEF f
<1>0. /\ FlattenSeq(Each(f, <<>>)) = <<>>
      /\ \A u \in Seq(V), x \in V :
           FlattenSeq(Each(f, Append(u, x))) = FlattenSeq(Each(f, u)) \o f[x]
  <2>1. Loops(V, V, f)
    BY <1>1, FlattenEach
  <2> QED BY <2>1 DEF Loops
<1>2. <<>> \in T
  BY <1>0, EmptySeq
<1>3. ASSUME NEW u \in T, NEW x \in V PROVE Append(u, x) \in T
  <2>1. FlattenSeq(Each(f, Append(u, x))) = FlattenSeq(Each(f, u)) \o f[x]
    BY <1>0
  <2>2. Append(u, x) = u \o <<x>> /\ Append(u, x) \in Seq(V)
    BY AppendJoins, AppendProperties
  <2> QED BY <1>1, <2>1, <2>2
<1>4. T = Seq(V)
  <2> HIDE DEF T
  <2>1. T \subseteq Seq(V)
    BY DEF T
  <2> QED BY <1>2, <1>3, <2>1, SeqSet
<1>5. FlattenSeq(Each(f, v)) = v
  BY <1>4
<1> DEFINE hs == [i \in DOMAIN v |-> Header(name, <<v[i]>>)]
<1>6. DOMAIN hs = DOMAIN v /\ \A i \in DOMAIN v : hs[i].name = name /\ hs[i].value = <<v[i]>>
  BY DEF Header
<1> HIDE DEF hs
<1>7. \A i \in DOMAIN v : f[v[i]] = <<v[i]>>
  BY <1>1, LenProperties, ElementOfSeq
<1>8. [i \in DOMAIN hs |-> IF hs[i].name = name THEN hs[i].value ELSE <<>>] = Each(f, v)
  BY <1>6, <1>7 DEF Each
<1>9. Values(name, hs) = FlattenSeq(Each(f, v))
  BY <1>8, Zenon DEF Values
<1> QED BY <1>5, <1>9 DEF hs

LEMMA OthersType ==
  ASSUME NEW H, NEW s \in Seq(H), NEW names
  PROVE  Others(names, s) \in Seq({h \in H : h.name \notin names})
<1> DEFINE K == {h \in H : h.name \notin names}
           T == {u \in Seq(H) : Others(names, u) \in Seq(K)}
<1>0. /\ Others(names, <<>>) = <<>>
      /\ \A u \in Seq(H), x \in H :
           Others(names, Append(u, x)) = Others(names, u) \o KeptOf(names, x)
  <2>1. OthersLoop(H, names)
    BY OthersAppend
  <2> QED BY <2>1 DEF OthersLoop
<1>1. <<>> \in T
  BY <1>0, EmptySeq
<1>2. ASSUME NEW u \in T, NEW x \in H PROVE Append(u, x) \in T
  <2>1. KeptOf(names, x) \in Seq(K)
    <3>1. x.name \notin names => <<x>> \in Seq(K)
      OBVIOUS
    <3> QED BY <3>1, EmptySeq DEF KeptOf
  <2>2. Others(names, Append(u, x)) = Others(names, u) \o KeptOf(names, x)
    BY <1>0
  <2>3. Append(u, x) \in Seq(H) /\ Others(names, u) \in Seq(K)
    BY AppendProperties
  <2> HIDE DEF K
  <2>4. Others(names, u) \o KeptOf(names, x) \in Seq(K)
    BY <2>1, <2>3, ConcatProperties
  <2> QED BY <2>2, <2>3, <2>4
<1>3. T = Seq(H)
  <2> HIDE DEF T
  <2>1. T \subseteq Seq(H)
    BY DEF T
  <2> QED BY <1>1, <1>2, <2>1, SeqSet
<1> QED BY <1>3

----------------------------------------------------------------------------
(* The headers of the proxies.                                             *)

HeadersOf(N, V) == [name : N, value : Seq(V)]

LEMMA HeadersValued == ASSUME NEW N, NEW V PROVE Valued(HeadersOf(N, V), V)
BY DEF Valued, HeadersOf

\* Headers of one name give nothing to the values of another.
LEMMA ValuesOfName ==
  ASSUME NEW V, NEW m, NEW n, m # n, NEW t \in Seq(HeadersOf({m}, V))
  PROVE  Values(n, t) = <<>>
<1> DEFINE H == HeadersOf({m}, V)
<1>1. Valued(H, V)
  BY HeadersValued
<1>2. \A h \in H : h.name # n
  BY DEF HeadersOf
<1> HIDE DEF H
<1>3. t \in Seq(H)
  BY DEF H
<1> QED BY <1>1, <1>2, <1>3, ValuesOfOthers

\* The proxies' headers of a name have the client's values, then their own.
HasAdded(V, name, own, values, joined) ==
  /\ Added(name, own, values, joined) \in Seq(HeadersOf({name}, V))
  /\ Values(name, Added(name, own, values, joined)) = own \o values

LEMMA AddedValues ==
  ASSUME NEW V, NEW name, NEW own \in Seq(V), NEW values \in Seq(V), NEW joined
  PROVE  HasAdded(V, name, own, values, joined)
<1> DEFINE H == HeadersOf({name}, V)
           both == own \o values
           each == [i \in DOMAIN values |-> Header(name, <<values[i]>>)]
<1>1. Valued(H, V)
  BY HeadersValued
<1>2. ASSUME NEW v \in Seq(V)
      PROVE  Header(name, v) \in H /\ Header(name, v).name = name /\ Header(name, v).value = v
  BY DEF Header, HeadersOf
<1> HIDE DEF H
<1>3. ASSUME NEW v \in Seq(V)
      PROVE  <<Header(name, v)>> \in Seq(H) /\ Values(name, <<Header(name, v)>>) = v
  <2> DEFINE h == Header(name, v)
  <2>1. h \in H /\ h.name = name /\ h.value = v
    BY <1>2
  <2> HIDE DEF h
  <2>2. <<h>> \in Seq(H)
    BY <2>1
  <2>3. Values(name, <<h>>) = IF h.name = name THEN h.value ELSE <<>>
    BY <1>1, <2>1, ValuesOfOne
  <2> QED BY <2>1, <2>2, <2>3 DEF h
<1>4. both \in Seq(V)
  BY ConcatProperties
<1> HIDE DEF both
<1>5. each \in Seq(H) /\ Values(name, each) = values
  <2>1. \A i \in 1 .. Len(values) : Header(name, <<values[i]>>) \in H
    <3>1. \A x \in V : <<x>> \in Seq(V)
      OBVIOUS
    <3> QED BY <1>2, <3>1, ElementOfSeq
  <2>2. DOMAIN values = 1 .. Len(values) /\ Len(values) \in Nat
    BY LenProperties
  <2>3. each \in [1 .. Len(values) -> H]
    BY <2>1, <2>2
  <2>4. Values(name, each) = values
    BY ValuesOfEach
  <2> HIDE DEF each
  <2>5. each \in Seq(H)
    BY <2>2, <2>3
  <2> QED BY <2>4, <2>5
<1> HIDE DEF each
<1>6. CASE joined
  <2>1. Added(name, own, values, joined) = <<Header(name, both)>>
    BY <1>6 DEF Added, both
  <2>2. <<Header(name, both)>> \in Seq(H) /\ Values(name, <<Header(name, both)>>) = both
    BY <1>3, <1>4
  <2> QED BY <2>1, <2>2 DEF both, H, HasAdded
<1>7. CASE ~joined /\ own = <<>>
  <2>1. Added(name, own, values, joined) = <<>> \o each
    BY <1>7 DEF Added, each
  <2>2. <<>> \o each = each
    BY <1>5, ConcatEmptySeq
  <2>3. both = values
    BY <1>7, ConcatEmptySeq DEF both
  <2> QED BY <1>5, <2>1, <2>2, <2>3 DEF both, H, HasAdded
<1>8. CASE ~joined /\ own # <<>>
  <2> DEFINE first == <<Header(name, own)>>
  <2>1. Added(name, own, values, joined) = first \o each
    BY <1>8 DEF Added, each
  <2>2. first \in Seq(H) /\ Values(name, first) = own
    BY <1>3
  <2> HIDE DEF first
  <2>3. /\ first \o each \in Seq(H)
        /\ Values(name, first \o each) = Values(name, first) \o Values(name, each)
    <3>1. first \in Seq(H) /\ each \in Seq(H)
      BY <1>5, <2>2
    <3> QED BY <1>1, <3>1, ValuesJoined
  <2> QED BY <1>5, <2>1, <2>2, <2>3 DEF both, H, HasAdded
<1> QED BY <1>6, <1>7, <1>8

\* With as many trusted hops as proxies, the value of the first proxy counts.
Carries(headers, name, own, values) == Values(name, headers) = own \o values
Trusts(headers, name, values, hops) ==
  hops \in Nat \ {0} /\ Len(values) = hops => TrustedValue(name, headers, hops) = values[1]

LEMMA FirstIsTrusted ==
  ASSUME NEW V, NEW own \in Seq(V), NEW values \in Seq(V), NEW hops,
         NEW name, NEW headers, Carries(headers, name, own, values)
  PROVE  Trusts(headers, name, values, hops)
<1> SUFFICES ASSUME hops \in Nat \ {0}, Len(values) = hops
             PROVE  TrustedValue(name, headers, hops) = values[1]
  BY DEF Trusts
<1> DEFINE v == own \o values
           n == Len(own)
<1>1. n \in Nat
  BY LenProperties
<1>2. Len(v) = n + Len(values) /\ \A i \in 1 .. Len(values) : v[n + i] = values[i]
  <2>1. v \in Seq(V) /\ Len(v) = Len(own) + Len(values)
        /\ \A i \in 1 .. Len(own) + Len(values) :
             v[i] = IF i <= Len(own) THEN own[i] ELSE values[i - Len(own)]
    BY ConcatProperties
  <2> QED BY <2>1
<1>3. TrustedValue(name, headers, hops)
        = IF hops = 0 \/ Len(v) < hops THEN None ELSE v[Len(v) - hops + 1]
  BY Zenon DEF TrustedValue, TrustedHop, Carries
<1> HIDE DEF v, n
<1>4. hops # 0 /\ ~(Len(v) < hops) /\ Len(v) - hops + 1 = n + 1 /\ 1 \in 1 .. Len(values)
  BY <1>1, <1>2
<1>5. v[n + 1] = values[1]
  BY <1>2, <1>4
<1> QED BY <1>3, <1>4, <1>5

WithHost(s, h) == Others({"host"}, s) \o <<[name |-> "host", value |-> <<h>>]>>
OneHost(hs, h) ==
  /\ Values("host", hs) = <<h>> /\ "host" \in {hs[i].name : i \in DOMAIN hs}

LEMMA HostReplaced ==
  ASSUME NEW V, NEW N, "host" \in N, NEW s \in Seq(HeadersOf(N, V)), NEW h \in V
  PROVE  OneHost(WithHost(s, h), h)
<1> DEFINE hs == WithHost(s, h)
           H == HeadersOf(N, V)
           o == Others({"host"}, s)
           last == [name |-> "host", value |-> <<h>>]
<1>1. Valued(H, V)
  BY HeadersValued
<1>2. <<h>> \in Seq(V) /\ last.name = "host" /\ last.value = <<h>>
  OBVIOUS
<1>3. last \in H
  BY <1>2 DEF HeadersOf
<1> DEFINE K == {x \in H : x.name \notin {"host"}}
<1>4. o \in Seq(K)
  BY OthersType
<1>5. Valued(K, V) /\ (\A x \in K : x.name # "host") /\ K \subseteq H
  BY <1>1 DEF Valued
<1>0. hs = o \o <<last>>
  BY DEF WithHost
<1> HIDE DEF K, H, o, last, hs
<1>6. o \in Seq(H)
  BY <1>4, <1>5, SeqMonotonic
<1>7. Values("host", o) = <<>>
  BY <1>4, <1>5, ValuesOfOthers
<1>8. <<last>> \in Seq(H)
  BY <1>3
<1>9. Values("host", <<last>>) = <<h>>
  BY <1>1, <1>2, <1>3, ValuesOfOne
<1>10. Values("host", hs) = <<>> \o <<h>>
  <2> DEFINE l == <<last>>
  <2>1. l \in Seq(H) /\ hs = o \o l
    BY <1>0, <1>8
  <2>2. Values("host", l) = <<h>>
    BY <1>9
  <2> HIDE DEF l
  <2>3. /\ o \o l \in Seq(H)
        /\ Values("host", o \o l) = Values("host", o) \o Values("host", l)
    <3>1. o \in Seq(H) /\ l \in Seq(H)
      BY <1>6, <2>1
    <3> QED BY <1>1, <3>1, ValuesJoined
  <2> QED BY <1>7, <2>1, <2>2, <2>3
<1>11. Values("host", hs) = <<h>>
  BY <1>2, <1>10, ConcatEmptySeq
<1>12. Len(o) + 1 \in DOMAIN hs /\ hs[Len(o) + 1] = last
  <2> DEFINE l == <<last>>
             j == o \o l
  <2>1. l \in Seq(H) /\ Len(l) = 1 /\ l[1] = last /\ Len(o) \in Nat
    BY <1>6, <1>8, LenProperties
  <2> HIDE DEF l
  <2>2. j \in Seq(H) /\ Len(j) = Len(o) + Len(l)
        /\ \A i \in 1 .. Len(l) : j[Len(o) + i] = l[i]
    <3>1. l \in Seq(H)
      BY <2>1
    <3> QED BY <1>6, <3>1, JoinedSeq
  <2> HIDE DEF j
  <2>3. DOMAIN j = 1 .. Len(o) + 1 /\ 1 \in 1 .. Len(l) /\ Len(o) + 1 \in 1 .. Len(o) + 1
    BY <2>1, <2>2, LenProperties
  <2>4. hs = j
    BY <1>0 DEF j, l
  <2> QED BY <2>1, <2>2, <2>3, <2>4
<1> QED BY <1>2, <1>11, <1>12 DEF OneHost, hs

\* However many values of a header the client made up itself, in a header of
\* its own or in the one the proxies add to, _get_trusted_value gives what the
\* first of the trusted proxies has added (middleware/proxy_fix.py).
THEOREM FirstProxyCounts ==
  ASSUME NEW V, NEW name, NEW own \in Seq(V), NEW values \in Seq(V), NEW joined,
         Len(values) # 0
  PROVE  TrustedValue(name, Added(name, own, values, joined), Len(values)) = values[1]
<1> DEFINE headers == Added(name, own, values, joined)
           n == Len(values)
<1>1. HasAdded(V, name, own, values, joined)
  BY AddedValues
<1>2. Carries(headers, name, own, values)
  BY <1>1 DEF HasAdded, Carries
<1>3. n \in Nat \ {0}
  BY LenProperties
<1> HIDE DEF headers, n
<1>4. Trusts(headers, name, values, n)
  BY <1>2, FirstIsTrusted
<1>5. TrustedValue(name, headers, n) = values[1]
  BY <1>3, <1>4 DEF Trusts, n
<1> QED BY <1>5 DEF headers, n

HeaderNames ==
  {"host", "forwarded", "x-forwarded-for", "x-forwarded-proto", "x-forwarded-host"}
HeaderValues == Words \cup ForwardedElements
Headers == HeadersOf(HeaderNames, HeaderValues)

LEMMA ValuesBeside ==
  ASSUME NEW n, NEW p, NEW q, p \in Seq(Headers), q \in Seq(Headers)
  PROVE  /\ p \o q \in Seq(Headers)
         /\ Values(n, p) = <<>> => Values(n, p \o q) = Values(n, q)
         /\ Values(n, q) = <<>> => Values(n, p \o q) = Values(n, p)
<1>1. Valued(Headers, HeaderValues)
  BY HeadersValued DEF Headers
<1>2. p \o q \in Seq(Headers) /\ Values(n, p \o q) = Values(n, p) \o Values(n, q)
  BY <1>1, ValuesJoined
<1>3. ValuesLoop(Headers, HeaderValues, n)
  BY <1>1, ValuesAppend
<1>4. Values(n, p) \in Seq(HeaderValues) /\ Values(n, q) \in Seq(HeaderValues)
  BY <1>3 DEF ValuesLoop
<1>5. <<>> \o Values(n, q) = Values(n, q) /\ Values(n, p) \o <<>> = Values(n, p)
  BY <1>4, ConcatEmptySeq
<1> QED BY <1>2, <1>5

\* The headers that the proxies add under a name.
LEMMA AddedHeaders ==
  ASSUME NEW name \in HeaderNames, NEW own \in Seq(HeaderValues),
         NEW values \in Seq(HeaderValues), NEW joined
  PROVE  /\ Added(name, own, values, joined) \in Seq(Headers)
         /\ Values(name, Added(name, own, values, joined)) = own \o values
         /\ \A n : n # name => Values(n, Added(name, own, values, joined)) = <<>>
<1> DEFINE a == Added(name, own, values, joined)
<1>1. a \in Seq(HeadersOf({name}, HeaderValues)) /\ Values(name, a) = own \o values
  <2>1. HasAdded(HeaderValues, name, own, values, joined)
    BY AddedValues
  <2> QED BY <2>1 DEF HasAdded
<1> HIDE DEF a
<1>2. HeadersOf({name}, HeaderValues) \subseteq Headers
  BY DEF HeadersOf, Headers
<1>3. a \in Seq(Headers)
  BY <1>1, <1>2, SeqMonotonic
<1>4. ASSUME NEW n, n # name PROVE Values(n, a) = <<>>
  BY <1>1, <1>4, ValuesOfName
<1> QED BY <1>1, <1>3, <1>4 DEF a

LEMMA HostHeader ==
  /\ <<Header("host", <<"inner">>)>> \in Seq(Headers)
  /\ \A n : n # "host" => Values(n, <<Header("host", <<"inner">>)>>) = <<>>
<1> DEFINE h == Header("host", <<"inner">>)
<1>1. h \in HeadersOf({"host"}, HeaderValues) /\ h \in Headers
  <2>1. <<"inner">> \in Seq(HeaderValues)
    BY DEF HeaderValues, Words
  <2> QED BY <2>1 DEF Header, HeadersOf, Headers, HeaderNames
<1> HIDE DEF h
<1>2. <<h>> \in Seq(HeadersOf({"host"}, HeaderValues)) /\ <<h>> \in Seq(Headers)
  BY <1>1
<1>3. ASSUME NEW n, n # "host" PROVE Values(n, <<h>>) = <<>>
  <2> DEFINE l == <<h>>
  <2>1. l \in Seq(HeadersOf({"host"}, HeaderValues))
    BY <1>2
  <2> HIDE DEF l
  <2>2. Values(n, l) = <<>>
    BY <1>3, <2>1, ValuesOfName
  <2> QED BY <2>2 DEF l
<1> QED BY <1>2, <1>3 DEF h

LEMMA ProxyTypes ==
  ASSUME NEW user \in {"http", "https"}, NEW hops \in Nat \ {0}
  PROVE  /\ Peers(hops) \in Seq(HeaderValues) /\ Len(Peers(hops)) = hops
         /\ Peers(hops)[1] = "user"
         /\ Schemes(user, hops) \in Seq(HeaderValues) /\ Len(Schemes(user, hops)) = hops
         /\ Schemes(user, hops)[1] = user
         /\ Hosts(hops) \in Seq(HeaderValues) /\ Len(Hosts(hops)) = hops
         /\ Hosts(hops)[1] = "site"
         /\ Elements(user, hops) \in Seq(HeaderValues) /\ Len(Elements(user, hops)) = hops
         /\ Elements(user, hops)[1] = [for |-> "user", proto |-> user, host |-> "site"]
<1>1. 1 \in 1 .. hops
  OBVIOUS
<1>2. Peers(hops) \in [1 .. hops -> Words] /\ Peers(hops)[1] = "user"
  BY <1>1 DEF Peers, Words
<1>3. Schemes(user, hops) \in [1 .. hops -> Words] /\ Schemes(user, hops)[1] = user
  BY <1>1 DEF Schemes, Words
<1>4. Hosts(hops) \in [1 .. hops -> Words] /\ Hosts(hops)[1] = "site"
  BY <1>1 DEF Hosts, Words
<1>5. /\ Elements(user, hops) \in [1 .. hops -> ForwardedElements]
      /\ Elements(user, hops)[1] = [for |-> "user", proto |-> user, host |-> "site"]
  BY <1>1, <1>2, <1>3, <1>4 DEF Elements, ForwardedElements
<1>6. ASSUME NEW X, X \subseteq HeaderValues, NEW f \in [1 .. hops -> X]
      PROVE  f \in Seq(HeaderValues) /\ Len(f) = hops
  <2>1. f \in [1 .. hops -> HeaderValues]
    BY <1>6
  <2> QED BY <2>1
<1>7. Words \subseteq HeaderValues /\ ForwardedElements \subseteq HeaderValues
  BY DEF HeaderValues
<1> QED BY <1>2, <1>3, <1>4, <1>5, <1>6, <1>7

\* With as many trusted hops as proxies, the element of the first proxy is
\* the one that counts, in either mode and whatever the client sent itself.
ProxiedHeaders(mode, user, hops, own, joined) ==
  <<Header("host", <<"inner">>)>> \o Proxied(mode, user, hops, own, joined)
FirstCounts(mode, user, hops, headers) ==
  /\ headers \in Seq(Headers)
  /\ Forwarded(mode, headers, hops) = [for |-> "user", proto |-> user, host |-> "site"]

LEMMA ProxiedForwarded ==
  ASSUME NEW mode \in {"legacy", "modern"}, NEW user \in {"http", "https"},
         NEW hops \in Nat \ {0}, NEW own \in BOOLEAN, NEW joined
  PROVE  FirstCounts(mode, user, hops, ProxiedHeaders(mode, user, hops, own, joined))
<1> DEFINE headers == ProxiedHeaders(mode, user, hops, own, joined)
<1>0. headers = <<Header("host", <<"inner">>)>> \o Proxied(mode, user, hops, own, joined)
  BY DEF ProxiedHeaders
<1> HIDE DEF headers
<1> SUFFICES FirstCounts(mode, user, hops, headers)
  BY DEF headers
<1> DEFINE first == <<Header("host", <<"inner">>)>>
           none == [for |-> "own", proto |-> None, host |-> None]
<1>1. first \in Seq(Headers) /\ \A n : n # "host" => Values(n, first) = <<>>
  BY HostHeader
<1>2. <<>> \in Seq(HeaderValues) /\ <<"own">> \in Seq(HeaderValues)
      /\ <<none>> \in Seq(HeaderValues)
  <2>1. "own" \in HeaderValues /\ none \in HeaderValues
    BY DEF HeaderValues, Words, ForwardedElements
  <2> HIDE DEF none
  <2>2. ASSUME NEW x \in HeaderValues PROVE <<x>> \in Seq(HeaderValues)
    OBVIOUS
  <2> QED BY <2>1, <2>2, EmptySeq
<1>3. /\ Peers(hops) \in Seq(HeaderValues) /\ Len(Peers(hops)) = hops
      /\ Peers(hops)[1] = "user"
      /\ Schemes(user, hops) \in Seq(HeaderValues) /\ Len(Schemes(user, hops)) = hops
      /\ Schemes(user, hops)[1] = user
      /\ Hosts(hops) \in Seq(HeaderValues) /\ Len(Hosts(hops)) = hops
      /\ Hosts(hops)[1] = "site"
      /\ Elements(user, hops) \in Seq(HeaderValues) /\ Len(Elements(user, hops)) = hops
      /\ Elements(user, hops)[1] = [for |-> "user", proto |-> user, host |-> "site"]
  BY ProxyTypes
<1>4. None # [for |-> "user", proto |-> user, host |-> "site"]
  BY NoneAssumption DEF ForwardedElements, Words
<1>5. CASE mode = "modern"
  <2> DEFINE ownValues == IF own THEN <<none>> ELSE <<>>
             a == Added("forwarded", ownValues, Elements(user, hops), joined)
  <2>1. headers = first \o a
    BY <1>0, <1>5 DEF Proxied
  <2>2. ownValues \in Seq(HeaderValues)
    BY <1>2
  <2> HIDE DEF ownValues, first
  <2>3. a \in Seq(Headers) /\ Values("forwarded", a) = ownValues \o Elements(user, hops)
    BY <1>3, <2>2, AddedHeaders DEF HeaderNames
  <2> HIDE DEF a
  <2>4. headers \in Seq(Headers) /\ Values("forwarded", headers) = Values("forwarded", a)
    <3> DEFINE l == first \o a
    <3>1. first \in Seq(Headers) /\ a \in Seq(Headers) /\ Values("forwarded", first) = <<>>
      BY <1>1, <2>3
    <3>2. l \in Seq(Headers) /\ Values("forwarded", l) = Values("forwarded", a)
      BY <3>1, ValuesBeside
    <3> QED BY <2>1, <3>2
  <2>5. TrustedValue("forwarded", headers, hops) = Elements(user, hops)[1]
    <3>1. Carries(headers, "forwarded", ownValues, Elements(user, hops))
      BY <2>3, <2>4 DEF Carries
    <3>2. ownValues \in Seq(HeaderValues) /\ Elements(user, hops) \in Seq(HeaderValues)
      BY <1>3, <2>2
    <3>3. Trusts(headers, "forwarded", Elements(user, hops), hops)
      BY <3>1, <3>2, FirstIsTrusted
    <3> QED BY <1>3, <3>3 DEF Trusts
  <2> QED BY <1>3, <1>4, <1>5, <2>4, <2>5 DEF Forwarded, FirstCounts
<1>6. CASE mode = "legacy"
  <2> DEFINE ownValues == IF own THEN <<"own">> ELSE <<>>
             a == Added("x-forwarded-for", ownValues, Peers(hops), joined)
             nothing == <<>>
             b == Added("x-forwarded-proto", nothing, Schemes(user, hops), joined)
             c == Added("x-forwarded-host", nothing, Hosts(hops), joined)
  <2>1. headers = first \o ((a \o b) \o c)
    BY <1>0, <1>6 DEF Proxied
  <2>2. ownValues \in Seq(HeaderValues) /\ nothing \in Seq(HeaderValues)
    BY <1>2
  <2> HIDE DEF ownValues, first, nothing
  <2>3. /\ a \in Seq(Headers) /\ Values("x-forwarded-for", a) = ownValues \o Peers(hops)
        /\ Values("x-forwarded-proto", a) = <<>> /\ Values("x-forwarded-host", a) = <<>>
    BY <1>3, <2>2, AddedHeaders DEF HeaderNames
  <2>4. /\ b \in Seq(Headers) /\ Values("x-forwarded-proto", b) = nothing \o Schemes(user, hops)
        /\ Values("x-forwarded-for", b) = <<>> /\ Values("x-forwarded-host", b) = <<>>
    BY <1>3, <2>2, AddedHeaders DEF HeaderNames
  <2>5. /\ c \in Seq(Headers) /\ Values("x-forwarded-host", c) = nothing \o Hosts(hops)
        /\ Values("x-forwarded-for", c) = <<>> /\ Values("x-forwarded-proto", c) = <<>>
    BY <1>3, <2>2, AddedHeaders DEF HeaderNames
  <2> DEFINE ab == a \o b
             abc == ab \o c
  <2> HIDE DEF a, b, c
  <2>6. /\ ab \in Seq(Headers)
        /\ Values("x-forwarded-for", ab) = Values("x-forwarded-for", a)
        /\ Values("x-forwarded-proto", ab) = Values("x-forwarded-proto", b)
        /\ Values("x-forwarded-host", ab) = Values("x-forwarded-host", b)
    BY <2>3, <2>4, ValuesBeside
  <2> HIDE DEF ab
  <2>7. /\ abc \in Seq(Headers)
        /\ Values("x-forwarded-for", abc) = Values("x-forwarded-for", ab)
        /\ Values("x-forwarded-proto", abc) = Values("x-forwarded-proto", ab)
        /\ Values("x-forwarded-host", abc) = Values("x-forwarded-host", c)
    BY <2>4, <2>5, <2>6, ValuesBeside
  <2> HIDE DEF abc
  <2>8. headers \in Seq(Headers) /\ \A n : n # "host" => Values(n, headers) = Values(n, abc)
    <3> DEFINE l == first \o abc
    <3>1. headers = l
      BY <2>1 DEF abc, ab
    <3>2. first \in Seq(Headers) /\ abc \in Seq(Headers)
      BY <1>1, <2>7
    <3>3. l \in Seq(Headers)
      BY <3>2, ValuesBeside
    <3>4. ASSUME NEW n, n # "host" PROVE Values(n, l) = Values(n, abc)
      <4>1. Values(n, first) = <<>>
        BY <1>1, <3>4
      <4> QED BY <3>2, <4>1, ValuesBeside
    <3> QED BY <3>1, <3>3, <3>4
  <2>9. TrustedValue("x-forwarded-for", headers, hops) = Peers(hops)[1]
    <3>1. Carries(headers, "x-forwarded-for", ownValues, Peers(hops))
      BY <2>3, <2>6, <2>7, <2>8 DEF Carries
    <3>2. ownValues \in Seq(HeaderValues) /\ Peers(hops) \in Seq(HeaderValues)
      BY <1>3, <2>2
    <3>3. Trusts(headers, "x-forwarded-for", Peers(hops), hops)
      BY <3>1, <3>2, FirstIsTrusted
    <3> QED BY <1>3, <3>3 DEF Trusts
  <2>10. TrustedValue("x-forwarded-proto", headers, hops) = Schemes(user, hops)[1]
    <3>1. Carries(headers, "x-forwarded-proto", nothing, Schemes(user, hops))
      BY <2>4, <2>6, <2>7, <2>8 DEF Carries
    <3>2. nothing \in Seq(HeaderValues) /\ Schemes(user, hops) \in Seq(HeaderValues)
      BY <1>3, <2>2
    <3>3. Trusts(headers, "x-forwarded-proto", Schemes(user, hops), hops)
      BY <3>1, <3>2, FirstIsTrusted
    <3> QED BY <1>3, <3>3 DEF Trusts
  <2>11. TrustedValue("x-forwarded-host", headers, hops) = Hosts(hops)[1]
    <3>1. Carries(headers, "x-forwarded-host", nothing, Hosts(hops))
      BY <2>5, <2>7, <2>8 DEF Carries
    <3>2. nothing \in Seq(HeaderValues) /\ Hosts(hops) \in Seq(HeaderValues)
      BY <1>3, <2>2
    <3>3. Trusts(headers, "x-forwarded-host", Hosts(hops), hops)
      BY <3>1, <3>2, FirstIsTrusted
    <3> QED BY <1>3, <3>3 DEF Trusts
  <2> QED BY <1>3, <1>6, <2>8, <2>9, <2>10, <2>11 DEF Forwarded, FirstCounts
<1> QED BY <1>5, <1>6

----------------------------------------------------------------------------
(* The user of a request.                                                  *)

\* Without proxies ProxyFix leaves the scope.
LEMMA FixNothing ==
  ASSUME NEW mode, NEW s, {"client", "scheme", "headers", "type"} \subseteq DOMAIN s
  PROVE  LET fixed == ProxyFix(mode, 0, s)
         IN fixed.client = s.client /\ fixed.scheme = s.scheme /\ fixed.headers = s.headers
<1> DEFINE f == Forwarded(mode, s.headers, 0)
<1>1. \A n, headers : TrustedValue(n, headers, 0) = None
  BY Zenon DEF TrustedValue
<1>2. f.for = None /\ f.proto = None /\ f.host = None
  BY <1>1 DEF Forwarded
<1> HIDE DEF f
<1> QED BY <1>2 DEF ProxyFix, f

LEMMA PlainStart ==
  ASSUME NEW user, NEW type, NEW denial, NEW scheme, NEW version, NEW headers, NEW path, NEW root,
         \A i \in DOMAIN headers : headers[i].name \in {"host", ":authority"},
         scope = Scope(type, denial, scheme, version, headers, path, root),
         setup.user = user, setup.hops = 0, scheme = user \/ type # "http"
  PROVE  /\ {"type", "client", "scheme", "version", "headers"} \subseteq DOMAIN scope
         /\ scope.type = "http" => Seen(ProxyFix(setup.mode, setup.hops, scope))
<1>1. /\ {"type", "client", "scheme", "version", "headers"} \subseteq DOMAIN scope
      /\ scope.type = type /\ scope.scheme = scheme /\ scope.client = "user"
  BY DEF Scope
<1>2. /\ ProxyFix(setup.mode, 0, scope).client = scope.client
      /\ ProxyFix(setup.mode, 0, scope).scheme = scope.scheme
  BY <1>1, FixNothing
<1> QED BY <1>1, <1>2 DEF Seen

LEMMA ProxiedStart ==
  ASSUME ThroughProxies
  PROVE  /\ {"type", "client", "scheme", "version", "headers"} \subseteq DOMAIN scope
         /\ setup.user \in {"http", "https"} /\ scope.version = "1.1"
         /\ Seen(ProxyFix(setup.mode, setup.hops, scope))
<1>1. PICK mode \in {"legacy", "modern"}, hops \in 0 .. MaxHops, own \in BOOLEAN,
           joined \in BOOLEAN, user \in {"http", "https"} :
        /\ setup = Setup({}, mode, hops, None, Mounts1, user)
        /\ scope = Scope("http", FALSE, IF hops = 0 THEN user ELSE "http", "1.1",
                         <<Header("host", <<"inner">>)>> \o Proxied(mode, user, hops, own, joined),
                         Path1, <<>>)
  BY DEF ThroughProxies
<1> DEFINE headers == ProxiedHeaders(mode, user, hops, own, joined)
<1>2. setup.mode = mode /\ setup.hops = hops /\ setup.user = user
  BY <1>1 DEF Setup
<1>3. /\ {"type", "client", "scheme", "version", "headers"} \subseteq DOMAIN scope
      /\ scope.type = "http" /\ scope.version = "1.1" /\ scope.headers = headers
      /\ scope.scheme = (IF hops = 0 THEN user ELSE "http")
  BY <1>1 DEF Scope, ProxiedHeaders
<1>4. CASE hops = 0
  <2> DEFINE first == <<Header("host", <<"inner">>)>>
  <2>1. Proxied(mode, user, hops, own, joined) = <<>>
    BY <1>4 DEF Proxied
  <2>2. headers = first
    <3>1. first \o <<>> = first
      BY HostHeader, ConcatEmptySeq
    <3> QED BY <2>1, <3>1 DEF ProxiedHeaders
  <2>3. \A i \in DOMAIN headers : headers[i].name = "host"
    BY <2>2 DEF Header
  <2> HIDE DEF headers
  <2>4. scope.client = "user" /\ scope.scheme = user
    <3>1. scope.client = IF \E i \in DOMAIN headers :
                               headers[i].name \in {"x-forwarded-for", "forwarded"}
                         THEN "proxy" ELSE "user"
      BY <1>1 DEF Scope, headers, ProxiedHeaders
    <3> QED BY <1>3, <1>4, <2>3, <3>1
  <2>5. /\ ProxyFix(mode, 0, scope).client = scope.client
        /\ ProxyFix(mode, 0, scope).scheme = scope.scheme
    BY <1>3, FixNothing
  <2> QED BY <1>2, <1>3, <1>4, <2>4, <2>5 DEF Seen
<1>5. CASE hops # 0
  <2> DEFINE fixed == ProxyFix(mode, hops, scope)
             hs == WithHost(headers, "site")
  <2>1. hops \in Nat \ {0}
    BY <1>5, HopsAssumption
  <2>2. /\ headers \in Seq(Headers)
        /\ Forwarded(mode, headers, hops) = [for |-> "user", proto |-> user, host |-> "site"]
    <3>1. FirstCounts(mode, user, hops, headers)
      BY <2>1, ProxiedForwarded
    <3> QED BY <3>1 DEF FirstCounts
  <2>3. None # "user" /\ None # user /\ None # "site"
    BY NoneAssumption DEF Words
  <2> HIDE DEF headers
  <2>4. fixed.client = "user" /\ fixed.scheme = user /\ fixed.headers = hs
    BY <1>3, <2>2, <2>3 DEF ProxyFix, WithHost
  <2>5. Values("host", hs) = <<"site">> /\ "host" \in {hs[i].name : i \in DOMAIN hs}
    <3>1. "site" \in HeaderValues /\ "host" \in HeaderNames
      BY DEF HeaderValues, Words, HeaderNames
    <3>2. headers \in Seq(HeadersOf(HeaderNames, HeaderValues))
      BY <2>2 DEF Headers
    <3>3. OneHost(hs, "site")
      BY <3>1, <3>2, HostReplaced
    <3> QED BY <3>3 DEF OneHost
  <2> HIDE DEF hs, fixed
  <2>6. Seen(fixed)
    BY <1>2, <2>4, <2>5 DEF Seen
  <2> QED BY <1>2, <1>3, <2>6 DEF fixed
<1> QED BY <1>4, <1>5

LEMMA UserStart == MCInit => UserInv
<1> SUFFICES ASSUME MCInit PROVE UserInv
  OBVIOUS
<1>1. task = "stream" /\ thread = "none" /\ ~Fixed
  BY DEF MCInit, RequestInit, Fixed
<1>2. CASE part = "lifespan" /\ setup = Setup({}, "legacy", 0, None, Mounts1, "http")
           /\ scope = Scope("http", FALSE, "http", "1.1", <<>>, Path1, <<>>)
  <2>1. setup.hops = 0 /\ setup.user = "http"
    BY <1>2 DEF Setup
  <2>2. ASSUME NEW headers, headers = <<>>, NEW root, NEW path,
               scope = Scope("http", FALSE, "http", "1.1", headers, path, root)
        PROVE  /\ {"type", "client", "scheme", "version", "headers"} \subseteq DOMAIN scope
               /\ scope.type = "http" => Seen(ProxyFix(setup.mode, setup.hops, scope))
    <3>1. \A i \in DOMAIN headers : headers[i].name \in {"host", ":authority"}
      BY <2>2
    <3> QED BY <2>1, <2>2, <3>1, PlainStart
  <2>3. /\ {"type", "client", "scheme", "version", "headers"} \subseteq DOMAIN scope
        /\ scope.type = "http" => Seen(ProxyFix(setup.mode, setup.hops, scope))
    BY <1>2, <2>2
  <2> QED BY <1>1, <2>1, <2>3 DEF UserInv
<1>3. CASE ThroughProxies
  BY <1>1, <1>3, ProxiedStart DEF UserInv
<1>4. CASE OfEveryKind
  <2>1. PICK type \in {"http", "websocket"}, denial \in BOOLEAN, secure \in BOOLEAN,
             version \in {"1.1", "2"}, names \in {{}, {"inner"}}, host \in {None, "site"},
             headers \in {<<>>, <<Header("host", <<"inner">>)>>, <<Header("host", <<"other">>)>>,
                          <<Header("host", <<"other">>), Header(":authority", <<"inner">>)>>},
             path \in {Path1, <<"b">>} :
          /\ setup = Setup(names, "legacy", 0, host, Mounts1, IF secure THEN "https" ELSE "http")
          /\ scope = Scope(type, denial, IF type = "http" THEN setup.user
                                         ELSE IF secure THEN "wss" ELSE "ws",
                           version, headers, path, <<>>)
    BY <1>4 DEF OfEveryKind
  <2>2. setup.hops = 0 /\ setup.user \in {"http", "https"}
    BY <2>1 DEF Setup
  <2>3. \A i \in DOMAIN headers : headers[i].name \in {"host", ":authority"}
    BY DEF Header
  <2>4. /\ {"type", "client", "scheme", "version", "headers"} \subseteq DOMAIN scope
        /\ scope.type = "http" => Seen(ProxyFix(setup.mode, setup.hops, scope))
    <3> DEFINE scheme == IF type = "http" THEN setup.user ELSE IF secure THEN "wss" ELSE "ws"
    <3>1. scope = Scope(type, denial, scheme, version, headers, path, <<>>)
      BY <2>1
    <3>2. scheme = setup.user \/ type # "http"
      OBVIOUS
    <3> HIDE DEF scheme
    <3> QED BY <2>2, <2>3, <3>1, <3>2, PlainStart
  <2> QED BY <1>1, <2>2, <2>4 DEF UserInv
<1>5. CASE ForEveryPath
  <2>1. PICK mounts \in MountLists, path \in Paths, root \in {<<>>, <<"/", "a">>} :
          /\ setup = Setup({}, "legacy", 0, None, mounts, "https")
          /\ scope = Scope("http", FALSE, "https", "1.1", <<Header("host", <<"site">>)>>, path, root)
    BY <1>5 DEF ForEveryPath
  <2>2. setup.hops = 0 /\ setup.user = "https"
    BY <2>1 DEF Setup
  <2> DEFINE headers == <<Header("host", <<"site">>)>>
  <2>3. \A i \in DOMAIN headers : headers[i].name \in {"host", ":authority"}
    BY DEF Header
  <2>4. scope = Scope("http", FALSE, "https", "1.1", headers, path, root)
    BY <2>1
  <2> HIDE DEF headers
  <2>5. /\ {"type", "client", "scheme", "version", "headers"} \subseteq DOMAIN scope
        /\ scope.type = "http" => Seen(ProxyFix(setup.mode, setup.hops, scope))
    BY <2>2, <2>3, <2>4, PlainStart
  <2> QED BY <1>1, <2>2, <2>5 DEF UserInv
<1> QED BY <1>2, <1>3, <1>4, <1>5 DEF MCInit

LEMMA UserStep == UserInv /\ [RequestNext]_requestVars => UserInv'
<1> SUFFICES ASSUME UserInv, [RequestNext]_requestVars PROVE UserInv'
  OBVIOUS
<1> DEFINE fixed == ProxyFix(setup.mode, setup.hops, scope)
<1>0. {"type", "client", "scheme", "version", "headers"} \subseteq DOMAIN scope
  BY DEF UserInv
<1>1. CASE Request
  <2> DEFINE headers == IF scope.version = "2" THEN FilterPseudoHeaders(scope.headers)
                        ELSE scope.headers
  <2>1. /\ setup' = setup /\ thread' = thread /\ task = "stream"
        /\ task' \in {"enter", "refused"} /\ scope' = [scope EXCEPT !.headers = headers]
    BY <1>1 DEF Request, threadVars
  <2> HIDE DEF headers
  <2>2. /\ scope'.headers = headers /\ scope'.client = scope.client
        /\ scope'.scheme = scope.scheme /\ scope'.type = scope.type
        /\ DOMAIN scope' = DOMAIN scope
    BY <1>0, <2>1
  <2>3. ASSUME scope.type = "http" PROVE Seen(ProxyFix(setup.mode, setup.hops, scope'))
    <3>1. Seen(fixed)
      BY <2>1, <2>3 DEF UserInv, Fixed
    <3>2. CASE setup.hops = 0
      <4>1. /\ ProxyFix(setup.mode, 0, scope).client = scope.client
            /\ ProxyFix(setup.mode, 0, scope).scheme = scope.scheme
        BY <1>0, FixNothing
      <4>2. /\ ProxyFix(setup.mode, 0, scope').client = scope'.client
            /\ ProxyFix(setup.mode, 0, scope').scheme = scope'.scheme
        BY <1>0, <2>2, FixNothing
      <4> QED BY <2>2, <3>1, <3>2, <4>1, <4>2 DEF Seen
    <3>3. CASE setup.hops # 0
      <4>1. headers = scope.headers
        BY <2>1, <2>3, <3>3 DEF UserInv, headers
      <4>2. /\ ProxyFix(setup.mode, setup.hops, scope').client = fixed.client
            /\ ProxyFix(setup.mode, setup.hops, scope').scheme = fixed.scheme
            /\ ProxyFix(setup.mode, setup.hops, scope').headers = fixed.headers
        BY <1>0, <2>2, <4>1 DEF ProxyFix
      <4> QED BY <3>1, <4>2 DEF Seen
    <3> QED BY <3>2, <3>3
  <2>4. scope.type = "http" => (thread # "none" => setup.user = "https")
    BY DEF UserInv
  <2> QED BY <1>0, <2>1, <2>2, <2>3, <2>4 DEF UserInv, Fixed, Seen
<1>2. CASE Enter
  <2>1. setup' = setup /\ thread' = thread /\ task = "enter"
    BY <1>2 DEF Enter, Goto, threadVars
  <2>2. fixed.type = scope.type /\ DOMAIN fixed = DOMAIN scope
    BY <1>0 DEF ProxyFix
  <2>3. /\ scope'.client = fixed.client /\ scope'.scheme = fixed.scheme
        /\ scope'.headers = fixed.headers /\ scope'.type = fixed.type
        /\ DOMAIN scope' = DOMAIN fixed
    <3>1. \A m : LET s == Mounted(m, fixed)
                 IN /\ s.client = fixed.client /\ s.scheme = fixed.scheme
                    /\ s.headers = fixed.headers /\ s.type = fixed.type
                    /\ DOMAIN s = DOMAIN fixed
      BY <1>0, <2>2 DEF Mounted
    <3>2. \/ scope' = fixed
          \/ scope' = Mounted(setup.mounts[MountOf(setup.mounts, scope.path)], fixed)
      BY <1>2 DEF Enter
    <3> QED BY <3>1, <3>2
  <2>4. task' \notin {"stream", "refused", "enter"}
    BY <1>2 DEF Enter, Goto, Redirect
  <2>5. /\ task' = "body" => ~Insecure(fixed)
        /\ task' = "redirect" => Insecure(fixed)
    BY <1>2 DEF Enter, Goto, Redirect
  <2> HIDE DEF fixed
  <2>6. ASSUME scope.type = "http"
        PROVE  /\ Seen(fixed)
               /\ task' = "body" => setup.user = "https"
               /\ task' = "redirect" => setup.user = "http"
    <3>1. Seen(fixed)
      BY <2>1, <2>6 DEF UserInv, Fixed, fixed
    <3>2. fixed.scheme = setup.user /\ fixed.type = "http"
      BY <2>2, <2>6, <3>1 DEF Seen
    <3>3. setup.user \in {"http", "https"}
      BY DEF UserInv
    <3> QED BY <2>5, <3>1, <3>2, <3>3 DEF Insecure
  <2>7. scope.type = "http" => (thread # "none" => setup.user = "https")
    BY DEF UserInv
  <2> QED BY <1>0, <2>1, <2>2, <2>3, <2>4, <2>6, <2>7 DEF UserInv, Fixed, Seen
<1>3. CASE TakeBody
  <2>1. UNCHANGED <<setup, scope>> /\ task = "body" /\ task' \notin {"stream", "refused", "enter", "redirect"}
    BY <1>3 DEF TakeBody, scopeVars
  <2>2. scope.type = "http" => Seen(scope) /\ setup.user = "https"
    BY <2>1 DEF UserInv, Fixed
  <2> QED BY <1>0, <2>1, <2>2 DEF UserInv, Fixed, Seen
<1>4. CASE /\ UNCHANGED <<setup, scope>>
           /\ task' = task \/ (Fixed /\ task' \notin {"stream", "refused", "enter", "body", "redirect"})
           /\ thread' = thread \/ thread # "none"
  <2>1. UNCHANGED <<setup, scope>> /\ Fixed' = Fixed
    BY <1>4 DEF Fixed
  <2>2. /\ task' \in {"stream", "body", "redirect"} => task' = task
        /\ thread' # "none" => thread # "none"
    BY <1>4
  <2>3. \A s : Seen(s)' = Seen(s)
    BY <2>1 DEF Seen
  <2> QED BY <2>1, <2>2 DEF UserInv, Seen
<1>5. RequestNext /\ ~Request /\ ~Enter /\ ~TakeBody
        => /\ UNCHANGED <<setup, scope>>
           /\ task' = task \/ (Fixed /\ task' \notin {"stream", "refused", "enter", "body", "redirect"})
           /\ thread' = thread \/ thread # "none"
  BY DEF RequestNext, TaskStep, ThreadStep, Answer, EndAnswer, Joined, FinalBody, Handled, Cut, Goto,
     ClientSends, ClientEnds, ClientLeaves, AppCalled, AppYields, AppEnds, AppFails, SendStart,
     SendChunk, CloseBody, Thread, AfterThread, scopeVars, threadVars, Fixed
<1>6. UNCHANGED requestVars => UNCHANGED <<setup, scope, task, thread>>
  BY DEF requestVars, scopeVars, threadVars
<1> QED BY <1>1, <1>2, <1>3, <1>4, <1>5, <1>6

LEMMA UserOfScope == PathInv(Letters) /\ UserInv => ScopeKept
<1> SUFFICES ASSUME PathInv(Letters), UserInv PROVE ScopeKept
  OBVIOUS
<1>1. PathKept
  BY PathOfEnviron
<1>2. TrustedIsUser
  <2> SUFFICES ASSUME Fixed, scope.type = "http"
               PROVE  /\ scope.client = "user" /\ scope.scheme = setup.user
                      /\ environ # None /\ setup.hops > 0 => environ.HTTP["host"] = <<"site">>
    BY DEF TrustedIsUser
  <2>1. Seen(scope)
    BY DEF UserInv
  <2>2. ASSUME environ # None, setup.hops > 0 PROVE environ.HTTP["host"] = <<"site">>
    <3> DEFINE names == {scope.headers[i].name : i \in DOMAIN scope.headers}
    <3>1. environ.HTTP = [name \in names |-> Values(name, scope.headers)]
      BY <2>2 DEF PathInv, Environ
    <3>2. "host" \in names /\ Values("host", scope.headers) = <<"site">>
      BY <2>1, <2>2 DEF Seen
    <3> HIDE DEF names
    <3> QED BY <3>1, <3>2
  <2> QED BY <2>1, <2>2 DEF Seen
<1>3. SecureOnly
  BY DEF UserInv, SecureOnly
<1> QED BY <1>1, <1>2, <1>3 DEF ScopeKept

\* The WSGI application is given the address, scheme and host that the first
\* of the trusted proxies saw of the user, never over HTTP when the redirect
\* is before it, and at the right path (middleware/proxy_fix.py,
\* http_to_https.py, dispatcher.py; app_wrappers.py, _build_environ).
THEOREM ScopeCorrect == MCSpec => []ScopeKept
<1>1. PathInv(Letters) /\ [RequestNext]_requestVars => PathInv(Letters)'
  BY PathStep
<1> QED BY <1>1, PathStart, UserStart, UserStep, Parts, UserOfScope, PTL DEF MCSpec
=============================================================================
