-------------------------- MODULE ExchangeProofs --------------------------
(***************************************************************************)
(* Theorems about the exchanges of an HTTP/1 connection, for any number of *)
(* requests, any queue size, any keep alive limit and whatever the client  *)
(* sends: they follow one another as Exchange says, every application      *)
(* whose stream is closed is told, the idle timer and the keep alive limit *)
(* are kept, h11 refuses nothing while the client keeps to HTTP/1, and the *)
(* wire is a sequence of whole responses, in the order of the requests.    *)
(***************************************************************************)
EXTENDS H11ConnectionProofs, FiniteSetTheorems

----------------------------------------------------------------------------
(* The inductive invariant.                                                *)

\* The exchange of request r is over, but for what its application does alone.
Settled(r) ==
  /\ sclosed[r] /\ sstate[r] = "CLOSED" /\ wst[r] = "no"
  /\ pc[r] \in {"run", "finish", "done"}

\* Only the application of the last request has an exchange to go on with.
Acting(r) == Spawned(r) /\ ~Settled(r)

Creating == pc[Reader] \in {"create", "reject"}
Rejecting == pc[Reader] \in {"rejectEnd", "rejected"}

\* Streams are numbered in the order of the requests.
Numbered ==
  /\ cur \in {0, nreq}
  /\ \A r \in Apps :
       r > nreq => ~Spawned(r) /\ ~sclosed[r] /\ sstate[r] = "REQUEST"
  /\ \A r \in Apps : ~Spawned(r) => wst[r] = "no"

\* A request follows a settled exchange ...
Past == \A r \in Apps : Acting(r) => r = nreq

\* ... h11 takes it, and its stream is created, once every one is settled.
Fresh ==
  /\ h11.theirs = "IDLE" \/ Creating => cur = 0 /\ \A r \in Apps : ~Acting(r)
  /\ Creating => h11.theirs = "SEND_BODY" /\ h11.ours = "SEND_RESPONSE"

\* An open stream is the connection's.
Current == \A r \in Apps : Spawned(r) /\ ~sclosed[r] => cur = r

\* A put that waits is for the stream that is still the connection's, if any.
Waiting ==
  \A t \in Tasks : wst[t] = "put" => cur \in {0, tgt[t]} /\ Spawned(tgt[t])

\* The owner of a complete response recycles the connection.
Recycling ==
  /\ \A r \in Apps : pc[r] = "recycle" => cur = 0 \/ wst[r] = "put"
  /\ \A r \in Apps :
       pc[r] \in {"ended", "recycle", "waitClosed"} => sstate[r] = "CLOSED" \/ fin[r]
  /\ \A r \in Apps : pc[r] = "finish" => fin[r]
  /\ \A r \in Apps : pc[r] = "started" => sstate[r] = "REQUEST"
  /\ h11.ours = "DONE" => nreq # 0 /\ sstate[nreq] = "CLOSED" /\ h11.keep

\* What the application of r has still to send: its response, or the rest.
Unanswered(r) == sstate[r] = "REQUEST" /\ pc[r] \in {"run", "finish"}
Answering(r) ==
  \/ pc[r] \in {"started", "errEnd", "bodyEnd"}
  \/ pc[r] = "run" /\ sstate[r] = "RESPONSE"

\* h11 is ready for it, unless the client broke the protocol.
Legal ==
  h11.theirs # "ERROR" =>
    /\ h11.ours # "ERROR"
    /\ \A r \in Apps : Unanswered(r) => h11.ours = "SEND_RESPONSE"
    /\ \A r \in Apps : Answering(r) => h11.ours = "SEND_BODY"

\* The server's own responses close the connection.
Errors ==
  /\ \A r \in Apps : pc[r] = "errEnd" => ~h11.keep \/ h11.ours = "ERROR"
  /\ Rejecting => /\ h11.theirs = "SEND_BODY" /\ ~h11.keep
                  /\ nreq # 0 /\ ~Spawned(nreq)
  /\ pc[Reader] = "rejectEnd" => h11.ours = "SEND_BODY"
  /\ pc[Reader] \in {"errEnd", "close"} => h11.theirs = "ERROR"

\* Only the reader fails, and only while it is rejecting a request.
Failures ==
  /\ \A r \in Apps : pc[r] # "raised"
  /\ pc[Reader] = "raised" => nreq # 0 /\ ~Spawned(nreq)

\* An application whose stream is closed has been told, or is about to be.
Told(r) == told[r] = 1 \/ \E t \in Tasks : tgt[t] = r /\ wst[t] = "put"
Telling == \A r \in Apps : Spawned(r) /\ sclosed[r] => Told(r)

\* A connection at its limit is not kept alive.
BelowLimit == kareq = 0 \/ kareq < KeepAliveMax
Limited ==
  /\ h11.ours \in {"SEND_BODY", "DONE"} /\ h11.keep => kareq < KeepAliveMax
  /\ h11.theirs = "IDLE" \/ Creating \/ Rejecting => BelowLimit
  /\ kareq <= 1 \/ kareq <= KeepAliveMax

\* The idle timer runs between requests.
Idling ==
  idle => cur = 0 /\ ~Creating /\ \A r \in Apps : Spawned(r) => sclosed[r]

ExchangeInv ==
  /\ Numbered /\ Past /\ Fresh /\ Current /\ Waiting /\ Recycling /\ Legal
  /\ Errors /\ Failures /\ Telling /\ Limited /\ Idling

----------------------------------------------------------------------------
(* What h11 does to the two sides.                                         *)

\* An event that is parsed does not begin a request nor end a response.
H11Calm ==
  /\ h11' \in H11Conn /\ h11'.keep = h11.keep
  /\ h11'.theirs = "IDLE" => h11.theirs = "IDLE"
  /\ h11.theirs = "ERROR" => h11'.theirs = "ERROR"
  /\ \/ h11'.ours = h11.ours
     \/ h11'.ours = "MUST_CLOSE" /\ h11.ours \in {"IDLE", "DONE"}

\* What Settle does, to both sides of h.
SettledSides(h, g) ==
  /\ g \in H11Conn /\ g.keep = h.keep
  /\ g.theirs = h.theirs \/ (h.theirs = "DONE" /\ g.theirs = "MUST_CLOSE")
  /\ g.ours = h.ours \/ (h.ours \in {"IDLE", "DONE"} /\ g.ours = "MUST_CLOSE")
  /\ g.ours = "DONE" => h.keep /\ h.theirs # "ERROR"

LEMMA SettleEffect == ASSUME NEW h \in H11Conn PROVE SettledSides(h, Settle(h))
BY SettleType DEF SettledSides, Settle, H11Conn

LEMMA ParsedEffect ==
  ASSUME h11 \in H11Conn, NEW event \in {"data", "end", "closed", "error", "need_data"},
         NEW token, h11' = AfterEvent(h11, event, token),
         h11.theirs = "ERROR" => event = "error"
  PROVE  H11Calm /\ (event = "error" => h11'.theirs = "ERROR")
<1> DEFINE g(s) == [h11 EXCEPT !.theirs = s]
<1>1. \A s \in TheirStates :
        /\ g(s) \in H11Conn /\ g(s).theirs = s
        /\ g(s).ours = h11.ours /\ g(s).keep = h11.keep
  BY DEF H11Conn
<1>2. CASE event \in {"data", "need_data"}
  <2>1. h11' = h11
    BY <1>2 DEF AfterEvent
  <2> QED BY <1>2, <2>1 DEF H11Calm
<1>3. CASE event = "end"
  <2>1. h11' = Settle(g("DONE")) /\ "DONE" \in TheirStates
    BY <1>3 DEF AfterEvent, TheirStates
  <2>2. SettledSides(g("DONE"), h11')
    BY <1>1, <2>1, SettleEffect
  <2> QED BY <1>1, <1>3, <2>1, <2>2 DEF H11Calm, SettledSides
<1>4. CASE event = "closed"
  <2>1. h11' = Settle(g("CLOSED")) /\ "CLOSED" \in TheirStates
    BY <1>4 DEF AfterEvent, TheirStates
  <2>2. SettledSides(g("CLOSED"), h11')
    BY <1>1, <2>1, SettleEffect
  <2> QED BY <1>1, <1>4, <2>1, <2>2 DEF H11Calm, SettledSides
<1>5. CASE event = "error"
  <2>1. h11' = Settle(g("ERROR")) /\ "ERROR" \in TheirStates
    BY <1>5 DEF AfterEvent, TheirStates
  <2>2. SettledSides(g("ERROR"), h11')
    BY <1>1, <2>1, SettleEffect
  <2> QED BY <1>1, <1>5, <2>1, <2>2 DEF H11Calm, SettledSides
<1> QED BY <1>2, <1>3, <1>4, <1>5

\* The sides of h after an event that is sent, or refused.
SentSides(h, g, kind, close) ==
  /\ g \in H11Conn
  /\ g.theirs = h.theirs \/ (h.theirs = "DONE" /\ g.theirs = "MUST_CLOSE")
  /\ CanSend(h, kind) =>
       /\ kind = "head" => g.ours = "SEND_BODY" /\ (g.keep => h.keep /\ ~close)
       /\ kind = "data" => g = h
       /\ kind = "end" => /\ g.ours \in {"DONE", "MUST_CLOSE"} /\ g.keep = h.keep
                          /\ g.ours = "DONE" => h.keep /\ h.theirs # "ERROR"
  /\ ~CanSend(h, kind) => g.ours = "ERROR" /\ g.keep = h.keep

\* A send that h11 takes, or that follows a client error.
LEMMA SendEffect ==
  ASSUME TypeOK, NEW h \in H11Conn, NEW t \in Tasks, NEW kind \in SendKinds,
         NEW close \in BOOLEAN, NEW next, SendH11On(h, t, kind, close, next),
         CanSend(h, kind) \/ h.theirs = "ERROR"
  PROVE  /\ SentSides(h, h11', kind, close)
         /\ Goto(t, next)
         /\ \A u \in Tasks \ {t} : wst'[u] = wst[u]
         /\ wst'[t] \in {wst[t]} \cup SendKinds
<1>1. Goto(t, next)
  BY DEF SendH11On
<1>2. /\ \A u \in Tasks \ {t} : wst'[u] = wst[u]
      /\ wst'[t] \in {wst[t]} \cup SendKinds
  BY DEF SendH11On, writeVars, TypeOK
<1>3. ASSUME CanSend(h, kind) PROVE SentSides(h, h11', kind, close)
  <2>1. h11' = AfterSend(h, kind, close)
    BY <1>3 DEF SendH11On
  <2>2. CASE kind = "head"
    <3> DEFINE g == [h EXCEPT !.ours = "SEND_BODY", !.keep = @ /\ ~close]
    <3>1. /\ g \in H11Conn /\ g.ours = "SEND_BODY" /\ (g.keep => h.keep /\ ~close)
          /\ g.theirs = h.theirs
      BY DEF H11Conn, OurStates
    <3>2. h11' = Settle(g)
      BY <2>1, <2>2 DEF AfterSend
    <3>3. SettledSides(g, h11')
      BY <3>1, <3>2, SettleEffect
    <3> HIDE DEF g
    <3> QED BY <1>3, <2>2, <3>1, <3>3 DEF SentSides, SettledSides
  <2>3. CASE kind = "data"
    <3>1. h11' = h
      BY <2>1, <2>3 DEF AfterSend
    <3> QED BY <1>3, <2>3, <3>1 DEF SentSides
  <2>4. CASE kind = "end"
    <3> DEFINE g == [h EXCEPT !.ours = "DONE"]
    <3>1. g \in H11Conn /\ g.ours = "DONE" /\ g.keep = h.keep /\ g.theirs = h.theirs
      BY DEF H11Conn, OurStates
    <3>2. h11' = Settle(g)
      BY <2>1, <2>4 DEF AfterSend
    <3>3. SettledSides(g, h11')
      BY <3>1, <3>2, SettleEffect
    <3> HIDE DEF g
    <3> QED BY <1>3, <2>4, <3>1, <3>3 DEF SentSides, SettledSides
  <2> QED BY <2>2, <2>3, <2>4 DEF SendKinds
<1>4. ASSUME ~CanSend(h, kind) PROVE SentSides(h, h11', kind, close)
  <2> DEFINE g == [h EXCEPT !.ours = "ERROR"]
  <2>1. g \in H11Conn /\ g.ours = "ERROR" /\ g.keep = h.keep /\ g.theirs = h.theirs
    BY DEF H11Conn, OurStates
  <2>2. h11' = Settle(g)
    BY <1>4 DEF SendH11On, AfterIllegalSend
  <2>3. SettledSides(g, h11')
    BY <2>1, <2>2, SettleEffect
  <2> HIDE DEF g
  <2> QED BY <1>4, <2>1, <2>3 DEF SentSides, SettledSides
<1> QED BY <1>1, <1>2, <1>3, <1>4

----------------------------------------------------------------------------
(* Steps that take no exchange further.                                    *)

LEMMA TaskSets == Apps \subseteq Tasks /\ Reader \in Tasks /\ Reader \notin Apps
BY DEF Tasks, Apps, Reader

LEMMA LastApp == ASSUME TypeOK, nreq # 0 PROVE nreq \in Apps
BY H11Assumption DEF TypeOK, Apps

\* Nobody is put a message to, nor waits to put another one.
SamePuts ==
  /\ told' = told
  /\ \A t \in Tasks : /\ wst'[t] = "put" <=> wst[t] = "put"
                      /\ wst[t] = "put" => tgt'[t] = tgt[t]

LEMMA TellingKept ==
  ASSUME Telling, SamePuts,
         \A r \in Apps : Spawned(r)' /\ sclosed'[r] => Spawned(r) /\ sclosed[r]
  PROVE  Telling'
<1> SUFFICES ASSUME NEW r \in Apps, Spawned(r), sclosed[r] PROVE Told(r)'
  BY DEF Telling
<1>1. Told(r)
  BY DEF Telling
<1>2. CASE told[r] = 1
  BY <1>2 DEF SamePuts, Told
<1>3. ASSUME NEW t \in Tasks, tgt[t] = r, wst[t] = "put" PROVE Told(r)'
  <2>1. wst'[t] = "put" /\ tgt'[t] = r
    BY <1>3 DEF SamePuts
  <2> QED BY <2>1 DEF Told
<1> QED BY <1>1, <1>2, <1>3 DEF Told

\* Where the reader goes without having created a stream, or rejected one.
Elsewhere ==
  /\ pc'[Reader] \notin {"create", "reject", "rejectEnd", "rejected", "raised"}
  /\ pc'[Reader] \in {"errEnd", "close"} => h11'.theirs = "ERROR"

LEMMA CalmStep ==
  ASSUME TypeOK, TypeOK', PutInv, ExchangeInv, SamePuts,
         UNCHANGED <<cur, nreq, kareq, sstate, sclosed, fin>>,
         \A r \in Apps : pc'[r] = pc[r],
         \A t \in Tasks : wst[t] = "no" => wst'[t] = "no",
         idle' => idle,
         \/ Elsewhere /\ H11Calm
         \/ pc'[Reader] = pc[Reader] /\ h11' = h11
  PROVE  ExchangeInv'
<1>1. \A r \in Apps : Spawned(r)' = Spawned(r) /\ (Settled(r) => Settled(r)')
  BY TaskSets DEF Spawned, Settled
<1>2. \A r \in Apps : Acting(r)' => Acting(r)
  BY <1>1 DEF Acting
<1>3. /\ Creating' => Creating /\ h11' = h11
      /\ Rejecting' => Rejecting /\ h11' = h11
      /\ pc'[Reader] \in {"rejectEnd", "raised"} => pc'[Reader] = pc[Reader]
  BY DEF Elsewhere, Creating, Rejecting
<1>4. /\ h11'.theirs = "IDLE" => h11.theirs = "IDLE"
      /\ h11.theirs = "ERROR" => h11'.theirs = "ERROR"
      /\ h11'.keep = h11.keep
      /\ \/ h11'.ours = h11.ours
         \/ h11'.ours = "MUST_CLOSE" /\ h11.ours \in {"IDLE", "DONE"}
  BY DEF H11Calm
<1>5. Numbered'
  BY <1>1, TaskSets DEF ExchangeInv, Numbered
<1>6. Past'
  BY <1>2 DEF ExchangeInv, Past
<1>7. Fresh'
  BY <1>2, <1>3, <1>4 DEF ExchangeInv, Fresh
<1>8. Current'
  BY <1>1 DEF ExchangeInv, Current
<1>9. Waiting'
  <2> SUFFICES ASSUME NEW t \in Tasks, wst'[t] = "put"
               PROVE  cur' \in {0, tgt'[t]} /\ Spawned(tgt[t])'
    BY DEF Waiting, SamePuts
  <2>1. wst[t] = "put" /\ tgt'[t] = tgt[t]
    BY DEF SamePuts
  <2>2. cur \in {0, tgt[t]} /\ Spawned(tgt[t]) /\ tgt[t] \in Apps
    BY <2>1 DEF ExchangeInv, Waiting, PutInv
  <2> QED BY <1>1, <2>1, <2>2 DEF Spawned
<1>10. Recycling'
  BY <1>4, TaskSets DEF ExchangeInv, Recycling, SamePuts
<1>11. Legal'
  BY <1>4 DEF ExchangeInv, Legal, Unanswered, Answering
<1>12. Errors'
  BY <1>1, <1>3, <1>4, LastApp DEF ExchangeInv, Errors, Rejecting, Elsewhere
<1>13. Failures'
  BY <1>1, <1>3, LastApp DEF ExchangeInv, Failures
<1>14. Telling'
  BY <1>1, TellingKept DEF ExchangeInv
<1>15. Limited'
  BY <1>3, <1>4 DEF ExchangeInv, Limited, BelowLimit
<1>16. Idling'
  BY <1>1, <1>3 DEF ExchangeInv, Idling
<1> QED
  BY <1>5, <1>6, <1>7, <1>8, <1>9, <1>10, <1>11, <1>12, <1>13, <1>14, <1>15, <1>16
  DEF ExchangeInv

----------------------------------------------------------------------------
(* Steps of the application whose exchange is going on.                    *)

\* While an application acts, no request is taken and none is rejected.
LEMMA ActingLast ==
  ASSUME ExchangeInv, NEW r \in Apps, Acting(r)
  PROVE  /\ r = nreq /\ ~Creating /\ ~Rejecting /\ h11.theirs # "IDLE"
         /\ pc[Reader] # "raised" /\ pc[r] # "raised"
         /\ \A q \in Apps \ {r} : ~Acting(q)
BY DEF ExchangeInv, Past, Fresh, Errors, Failures, Acting

\* A settled exchange has nothing left to send.
LEMMA SettledSilent ==
  ASSUME NEW r \in Apps, ~Acting(r)
  PROVE  /\ pc[r] \in {"none", "run", "finish", "done"}
         /\ ~Unanswered(r) /\ ~Answering(r)
BY DEF Acting, Settled, Spawned, Unanswered, Answering

\* What the state of an exchange has to be once its application, at label l,
\* has taken a step.
ActedWell(r, l) ==
  /\ l \notin {"none", "raised", "recycle"}
  /\ l \in {"ended", "waitClosed"} => sstate'[r] = "CLOSED" \/ fin'[r]
  /\ l = "finish" => fin'[r]
  /\ l = "started" => sstate'[r] = "REQUEST"
  /\ l = "errEnd" => ~h11'.keep \/ h11'.ours = "ERROR"
  /\ h11'.theirs # "ERROR" =>
       /\ h11'.ours # "ERROR"
       /\ sstate'[r] = "REQUEST" /\ l \in {"run", "finish"} => h11'.ours = "SEND_RESPONSE"
       /\ l \in {"started", "errEnd", "bodyEnd"} => h11'.ours = "SEND_BODY"
       /\ l = "run" /\ sstate'[r] = "RESPONSE" => h11'.ours = "SEND_BODY"

\* ... and that of h11.
SidesWell(r) ==
  /\ h11'.theirs = "IDLE" => h11.theirs = "IDLE"
  /\ h11'.theirs = "ERROR" <=> h11.theirs = "ERROR"
  /\ h11'.ours = "DONE" => sstate'[r] = "CLOSED" /\ h11'.keep
  /\ h11'.ours \in {"SEND_BODY", "DONE"} /\ h11'.keep => kareq < KeepAliveMax

LEMMA ActStep ==
  ASSUME TypeOK, TypeOK', PutInv, ExchangeInv, SamePuts,
         NEW r \in Apps, Acting(r), NEW l, Goto(r, l), ActedWell(r, l), SidesWell(r),
         UNCHANGED <<cur, nreq, kareq, sclosed>>,
         \A q \in Apps \ {r} : sstate'[q] = sstate[q] /\ fin'[q] = fin[q],
         fin[r] => fin'[r],
         \A t \in Tasks \ {r} : wst'[t] = wst[t],
         idle' => idle
  PROVE  ExchangeInv'
<1>1. /\ pc'[r] = l /\ \A t \in Tasks \ {r} : pc'[t] = pc[t]
      /\ l # "none" /\ pc[r] # "none"
  BY TaskSets DEF Goto, TypeOK, Acting, Spawned, ActedWell
<1>2. \A q \in Apps : Spawned(q)' = Spawned(q)
  BY <1>1, TaskSets DEF Spawned
<1>3. \A q \in Apps \ {r} : pc'[q] = pc[q] /\ (Settled(q) => Settled(q)')
  BY <1>1, TaskSets DEF Settled
<1>4. /\ r = nreq /\ ~Creating /\ ~Rejecting /\ h11.theirs # "IDLE"
      /\ pc[Reader] # "raised" /\ \A q \in Apps \ {r} : ~Acting(q)
  BY ActingLast
<1>5. \A q \in Apps \ {r} : ~Acting(q)'
  BY <1>2, <1>3, <1>4 DEF Acting
<1>6. pc'[Reader] = pc[Reader] /\ ~Creating' /\ ~Rejecting'
  BY <1>1, <1>4, TaskSets DEF Creating, Rejecting
<1>7. Numbered'
  <2>1. \A q \in Apps : q > nreq => q # r
    BY <1>4, LastApp DEF Apps
  <2>2. \A q \in Apps : ~Spawned(q)' => q # r
    BY <1>1, <1>2 DEF Spawned
  <2> QED BY <1>2, <2>1, <2>2, TaskSets DEF ExchangeInv, Numbered
<1>8. Past'
  BY <1>4, <1>5 DEF Past
<1>9. Fresh'
  BY <1>4, <1>6 DEF Fresh, SidesWell
<1>10. Current'
  BY <1>2 DEF ExchangeInv, Current
<1>11. Waiting'
  <2> SUFFICES ASSUME NEW t \in Tasks, wst'[t] = "put"
               PROVE  cur' \in {0, tgt'[t]} /\ Spawned(tgt[t])'
    BY DEF Waiting, SamePuts
  <2>1. wst[t] = "put" /\ tgt'[t] = tgt[t]
    BY DEF SamePuts
  <2>2. cur \in {0, tgt[t]} /\ Spawned(tgt[t]) /\ tgt[t] \in Apps
    BY <2>1 DEF ExchangeInv, Waiting, PutInv
  <2> QED BY <1>2, <2>1, <2>2 DEF Spawned
<1>12. \A q \in Apps \ {r} : pc'[q] \in {"none", "run", "finish", "done"}
  BY <1>3, <1>4, SettledSilent
<1>13. Recycling'
  <2>1. \A q \in Apps : pc'[q] \notin {"recycle"}
    BY <1>1, <1>12 DEF ActedWell
  <2>2. \A q \in Apps :
          pc'[q] \in {"ended", "recycle", "waitClosed"} => sstate'[q] = "CLOSED" \/ fin'[q]
    BY <1>1, <1>12 DEF ActedWell
  <2>3. \A q \in Apps : pc'[q] = "finish" => fin'[q]
    BY <1>1, <1>3 DEF ActedWell, ExchangeInv, Recycling
  <2>4. \A q \in Apps : pc'[q] = "started" => sstate'[q] = "REQUEST"
    BY <1>1, <1>12 DEF ActedWell
  <2>5. h11'.ours = "DONE" => nreq' # 0 /\ sstate'[nreq'] = "CLOSED" /\ h11'.keep
    BY <1>4, TaskSets DEF SidesWell, Reader
  <2> QED BY <2>1, <2>2, <2>3, <2>4, <2>5 DEF Recycling
<1>14. Legal'
  <2>1. \A q \in Apps \ {r} : sstate'[q] = sstate[q]
    OBVIOUS
  <2>2. \A q \in Apps \ {r} : ~Answering(q)' /\ ~Unanswered(q)'
    BY <1>3, <1>4, <2>1, SettledSilent DEF Answering, Unanswered, Spawned
  <2> QED BY <1>1, <2>2 DEF Legal, ActedWell, Unanswered, Answering
<1>15. Errors'
  BY <1>1, <1>6, <1>12 DEF ExchangeInv, Errors, Rejecting, ActedWell, SidesWell
<1>16. Failures'
  BY <1>1, <1>4, <1>6, <1>12 DEF Failures, ActedWell
<1>17. Telling'
  BY <1>2, TellingKept DEF ExchangeInv
<1>18. Limited'
  BY <1>4, <1>6 DEF ExchangeInv, Limited, BelowLimit, SidesWell
<1>19. Idling'
  BY <1>2, <1>6 DEF ExchangeInv, Idling
<1> QED
  BY <1>7, <1>8, <1>9, <1>10, <1>11, <1>13, <1>14, <1>15, <1>16, <1>17, <1>18, <1>19
  DEF ExchangeInv

\* The application of a settled exchange comes to its end.
LEMMA SettledStep ==
  ASSUME TypeOK, TypeOK', PutInv, ExchangeInv, SamePuts,
         NEW r \in Apps, Settled(r), NEW l \in {"finish", "done"}, Goto(r, l),
         l = "finish" => fin'[r],
         \A q \in Apps \ {r} : fin'[q] = fin[q],
         UNCHANGED <<cur, nreq, kareq, sstate, sclosed, h11, wst>>,
         idle' => idle
  PROVE  ExchangeInv'
<1>1. /\ pc'[r] = l /\ \A t \in Tasks \ {r} : pc'[t] = pc[t]
      /\ pc[r] \in {"run", "finish", "done"} /\ sstate[r] = "CLOSED"
  BY TaskSets DEF Goto, TypeOK, Settled
<1>2. \A q \in Apps : Spawned(q)' = Spawned(q) /\ (Settled(q) => Settled(q)')
  BY <1>1, TaskSets DEF Spawned, Settled
<1>3. \A q \in Apps : Acting(q)' => Acting(q)
  BY <1>2 DEF Acting
<1>4. pc'[Reader] = pc[Reader]
  BY <1>1, TaskSets
<1>5. Numbered'
  BY <1>2 DEF ExchangeInv, Numbered
<1>6. Past'
  BY <1>3 DEF ExchangeInv, Past
<1>7. Fresh'
  BY <1>3, <1>4 DEF ExchangeInv, Fresh, Creating
<1>8. Current'
  BY <1>2 DEF ExchangeInv, Current
<1>9. Waiting'
  <2> SUFFICES ASSUME NEW t \in Tasks, wst'[t] = "put"
               PROVE  cur' \in {0, tgt'[t]} /\ Spawned(tgt[t])'
    BY DEF Waiting, SamePuts
  <2>1. wst[t] = "put" /\ tgt'[t] = tgt[t]
    BY DEF SamePuts
  <2>2. cur \in {0, tgt[t]} /\ Spawned(tgt[t]) /\ tgt[t] \in Apps
    BY <2>1 DEF ExchangeInv, Waiting, PutInv
  <2> QED BY <1>2, <2>1, <2>2 DEF Spawned
<1>10. Recycling'
  BY <1>1, TaskSets DEF ExchangeInv, Recycling
<1>11. Legal'
  BY <1>1, TaskSets DEF ExchangeInv, Legal, Unanswered, Answering
<1>12. Errors'
  BY <1>1, <1>2, <1>4, TaskSets, LastApp DEF ExchangeInv, Errors, Rejecting
<1>13. Failures'
  BY <1>1, <1>2, <1>4, TaskSets, LastApp DEF ExchangeInv, Failures
<1>14. Telling'
  BY <1>2, TellingKept DEF ExchangeInv
<1>15. Limited'
  BY <1>4 DEF ExchangeInv, Limited, BelowLimit, Creating, Rejecting
<1>16. Idling'
  BY <1>2, <1>4 DEF ExchangeInv, Idling, Creating
<1> QED
  BY <1>5, <1>6, <1>7, <1>8, <1>9, <1>10, <1>11, <1>12, <1>13, <1>14, <1>15, <1>16
  DEF ExchangeInv

----------------------------------------------------------------------------
(* The reader's own steps: a request, its stream, its rejection, an error. *)

LEMMA RequestStep ==
  ASSUME TypeOK, TypeOK', TypeInv, ExchangeInv, RequestEvent PROVE ExchangeInv'
<1>1. h11.theirs = "IDLE"
  BY DEF RequestEvent, Event, NextEvent, TypeOK, H11Conn, TheirStates
<1>2. /\ h11'.theirs = "SEND_BODY" /\ h11'.ours = "SEND_RESPONSE"
      /\ (h11'.keep => h11.keep)
  BY DEF RequestEvent, Parsed, AfterEvent
<1>3. cur = 0 /\ (\A r \in Apps : ~Acting(r)) /\ BelowLimit
  BY <1>1 DEF ExchangeInv, Fresh, Limited
<1>4. /\ pc'[Reader] \in {"create", "reject"}
      /\ \A t \in Tasks \ {Reader} : pc'[t] = pc[t]
  BY TaskSets DEF RequestEvent, Goto, TypeOK
<1>5. /\ UNCHANGED <<cur, nreq, kareq, sstate, sclosed, told, fin, wst, tgt>>
      /\ idle' = FALSE
  BY DEF RequestEvent, streamVars, queueVars, writeVars, endVars, StopIdle
<1>6. \A r \in Apps : pc'[r] = pc[r] /\ Spawned(r)' = Spawned(r) /\ Acting(r)' = Acting(r)
  BY <1>4, <1>5, TaskSets DEF Spawned, Acting, Settled
<1>7. /\ \A r \in Apps : pc[r] \in {"none", "run", "finish", "done"}
      /\ \A r \in Apps : ~Unanswered(r)' /\ ~Answering(r)'
  BY <1>3, <1>5, <1>6, SettledSilent DEF Unanswered, Answering
<1>8. Numbered' /\ Past' /\ Current'
  BY <1>5, <1>6 DEF ExchangeInv, Numbered, Past, Current
<1>9. Fresh'
  BY <1>2, <1>3, <1>5, <1>6 DEF Fresh
<1>10. Waiting'
  <2>1. \A t \in Tasks : wst[t] = "put" => tgt[t] \in Apps
    BY DEF TypeInv, PutInv
  <2> QED BY <1>5, <1>6, <2>1 DEF ExchangeInv, Waiting
<1>11. Recycling'
  BY <1>2, <1>5, <1>6, <1>7 DEF ExchangeInv, Recycling
<1>12. Legal'
  BY <1>2, <1>7 DEF Legal
<1>13. Errors' /\ Failures'
  BY <1>4, <1>6, <1>7 DEF Errors, Failures, Rejecting
<1>14. Telling'
  BY <1>5, <1>6, TellingKept DEF ExchangeInv, SamePuts
<1>15. Limited'
  BY <1>2, <1>3, <1>5 DEF ExchangeInv, Limited, BelowLimit
<1>16. Idling'
  BY <1>5 DEF Idling
<1> QED
  BY <1>8, <1>9, <1>10, <1>11, <1>12, <1>13, <1>14, <1>15, <1>16 DEF ExchangeInv

LEMMA CreateStep ==
  ASSUME TypeOK, TypeOK', TypeInv, ExchangeInv, CreateStream PROVE ExchangeInv'
<1>1. nreq + 1 \in Apps /\ nreq \in Nat
  BY H11Assumption DEF CreateStream, At, TypeInv, CreateInv, TypeOK, Apps
<1>2. /\ pc'[Reader] = "loop" /\ pc'[nreq + 1] = "run"
      /\ \A r \in Apps \ {nreq + 1} : pc'[r] = pc[r]
  BY <1>1, TaskSets DEF CreateStream, TypeOK
<1>3. /\ cur' = nreq + 1 /\ nreq' = nreq + 1 /\ kareq' = kareq + 1
      /\ UNCHANGED <<h11, sstate, sclosed, told, fin, wst, tgt, idle>>
  BY DEF CreateStream, queueVars, writeVars, endVars, serverVars
<1>4. Creating /\ wst[Reader] = "no"
  BY DEF CreateStream, At, Creating
<1>5. /\ h11.theirs = "SEND_BODY" /\ h11.ours = "SEND_RESPONSE"
      /\ cur = 0 /\ (\A r \in Apps : ~Acting(r)) /\ BelowLimit
  BY <1>4 DEF ExchangeInv, Fresh, Limited
<1>6. /\ \A r \in Apps : pc[r] \in {"none", "run", "finish", "done"} /\ wst[r] = "no"
      /\ \A r \in Apps : ~Unanswered(r) /\ ~Answering(r)
  <2>1. \A r \in Apps : wst[r] = "no"
    BY <1>5 DEF Acting, Settled, ExchangeInv, Numbered
  <2> QED BY <1>5, <2>1, SettledSilent
<1>7. ~Spawned(nreq + 1) /\ ~sclosed[nreq + 1] /\ sstate[nreq + 1] = "REQUEST"
  BY <1>1 DEF ExchangeInv, Numbered
<1>8. \A r \in Apps \ {nreq + 1} :
        /\ Spawned(r)' = Spawned(r) /\ Acting(r)' = Acting(r)
        /\ ~Unanswered(r)' /\ ~Answering(r)'
  BY <1>2, <1>3, <1>6 DEF Spawned, Acting, Settled, Unanswered, Answering
<1>9. Numbered'
  <2>1. \A r \in Apps : r > nreq + 1 => r # nreq + 1 /\ r > nreq
    BY <1>1 DEF Apps
  <2>2. \A r \in Apps : ~Spawned(r)' => wst'[r] = "no"
    BY <1>3, <1>6
  <2> QED BY <1>3, <1>8, <2>1, <2>2 DEF ExchangeInv, Numbered
<1>10. Past'
  BY <1>3, <1>5, <1>8 DEF Past
<1>11. Fresh'
  BY <1>2, <1>3, <1>5 DEF Fresh, Creating
<1>12. Current'
  BY <1>3, <1>5, <1>8 DEF Current, Acting, Settled
<1>13. \A t \in Tasks : wst[t] # "put"
  BY <1>4, <1>6 DEF Tasks
<1>14. Waiting'
  BY <1>3, <1>13 DEF Waiting
<1>15. \A r \in Apps : pc'[r] \in {"none", "run", "finish", "done"}
  BY <1>2, <1>6
<1>16. Recycling'
  BY <1>2, <1>3, <1>5, <1>15 DEF ExchangeInv, Recycling
<1>17. Legal'
  <2>1. \A r \in Apps : r = nreq + 1 => ~Answering(r)'
    BY <1>2, <1>3, <1>7 DEF Answering
  <2> QED BY <1>3, <1>5, <1>8, <2>1 DEF Legal
<1>18. Errors' /\ Failures'
  BY <1>2, <1>15 DEF Errors, Failures, Rejecting
<1>19. Telling'
  BY <1>1, <1>3, <1>7, <1>8, TellingKept DEF ExchangeInv, SamePuts
<1>20. Limited'
  BY <1>2, <1>3, <1>5, H11Assumption
  DEF Limited, BelowLimit, Creating, Rejecting, TypeOK
<1>21. Idling'
  BY <1>3, <1>4 DEF ExchangeInv, Idling
<1> QED
  BY <1>9, <1>10, <1>11, <1>12, <1>14, <1>16, <1>17, <1>18, <1>19, <1>20, <1>21
  DEF ExchangeInv

\* While the reader is rejecting the last request no application acts.
LEMMA RejectingAlone ==
  ASSUME TypeOK, ExchangeInv, Creating \/ Rejecting
  PROVE  \A r \in Apps : ~Acting(r)
BY LastApp DEF ExchangeInv, Fresh, Past, Errors, Acting

\* A step of the reader that rejects request n.
LEMMA RejectStep ==
  ASSUME TypeOK, TypeOK', ExchangeInv, Creating \/ Rejecting, wst[Reader] = "no",
         NEW n \in Apps, n >= nreq, ~Spawned(n), nreq' = n, cur' \in {0, n},
         \A t \in Tasks \ {Reader} : pc'[t] = pc[t] /\ wst'[t] = wst[t],
         wst'[Reader] # "put", UNCHANGED <<told, fin, tgt>>,
         idle' => idle /\ cur' = cur,
         \A r \in Apps \ {n} : sclosed'[r] = sclosed[r] /\ sstate'[r] = sstate[r],
         pc'[Reader] \in {"rejectEnd", "rejected", "loop"},
         h11'.theirs = "SEND_BODY", h11'.ours \notin {"DONE", "ERROR"}, ~h11'.keep,
         pc'[Reader] = "rejectEnd" => h11'.ours = "SEND_BODY",
         Rejecting' => BelowLimit', kareq' <= 1 \/ kareq' <= KeepAliveMax
  PROVE  ExchangeInv'
<1>1. \A r \in Apps : pc'[r] = pc[r] /\ wst'[r] = wst[r] /\ Spawned(r)' = Spawned(r)
  BY TaskSets DEF Spawned
<1>2. \A r \in Apps : ~Acting(r)
  BY RejectingAlone
<1>3. \A r \in Apps : Spawned(r) => /\ Settled(r) /\ r # n
                                    /\ sclosed'[r] = sclosed[r] /\ sstate'[r] = sstate[r]
  BY <1>2 DEF Acting
<1>4. \A r \in Apps : ~Acting(r)' /\ ~Unanswered(r)' /\ ~Answering(r)'
  BY <1>1, <1>3 DEF Acting, Settled, Unanswered, Answering, Spawned
<1>5. \A r \in Apps : pc'[r] \in {"none", "run", "finish", "done"}
  BY <1>1, <1>2, SettledSilent
<1>6. \A t \in Tasks : wst[t] # "put" /\ wst'[t] # "put"
  <2>1. \A r \in Apps : wst[r] = "no"
    BY <1>3 DEF Settled, ExchangeInv, Numbered
  <2> QED BY <1>1, <2>1 DEF Tasks
<1>7. Numbered'
  <2>1. \A r \in Apps : r > n => r # n /\ r > nreq
    BY DEF Apps, TypeOK
  <2> QED BY <1>1, <2>1 DEF ExchangeInv, Numbered
<1>8. Past' /\ Fresh' /\ Legal'
  BY <1>4 DEF Past, Fresh, Legal, Creating
<1>9. Current' /\ Waiting'
  BY <1>1, <1>3, <1>6 DEF Current, Waiting, Settled
<1>10. Recycling'
  BY <1>1, <1>5 DEF ExchangeInv, Recycling
<1>11. Errors' /\ Failures'
  <2>1. ~Spawned(n)' /\ n # 0
    BY <1>1, TaskSets DEF Reader
  <2> QED BY <1>5, <2>1 DEF Errors, Failures, Rejecting, Spawned
<1>12. Telling'
  BY <1>1, <1>3, <1>6, TellingKept DEF ExchangeInv, SamePuts
<1>13. Limited'
  BY DEF Limited, Creating
<1>14. Idling'
  BY <1>1, <1>3 DEF ExchangeInv, Idling, Creating
<1> QED
  BY <1>7, <1>8, <1>9, <1>10, <1>11, <1>12, <1>13, <1>14 DEF ExchangeInv

LEMMA RejectRequestStep ==
  ASSUME TypeOK, TypeOK', TypeInv, ExchangeInv, RejectRequest PROVE ExchangeInv'
<1>1. nreq + 1 \in Apps /\ nreq \in Nat
  BY H11Assumption DEF RejectRequest, At, TypeInv, CreateInv, TypeOK, Apps
<1>2. Creating /\ wst[Reader] = "no"
  BY DEF RejectRequest, At, Creating
<1>3. /\ h11.theirs = "SEND_BODY" /\ h11.ours = "SEND_RESPONSE" /\ ~idle /\ BelowLimit
  BY <1>2 DEF ExchangeInv, Fresh, Idling, Limited
<1>4. /\ ~Spawned(nreq + 1) /\ CanSend(h11, "head")
      /\ SendH11On(h11, Reader, "head", TRUE, "rejectEnd")
  <2>1. ~Spawned(nreq + 1)
    BY <1>1 DEF ExchangeInv, Numbered
  <2> QED BY <1>3, <2>1 DEF CanSend, RejectRequest, SendH11
<1>5. /\ SentSides(h11, h11', "head", TRUE) /\ Goto(Reader, "rejectEnd")
      /\ \A u \in Tasks \ {Reader} : wst'[u] = wst[u]
      /\ wst'[Reader] \in {wst[Reader]} \cup SendKinds
  BY <1>4, SendEffect, TaskSets DEF TypeOK, SendKinds
<1>6. /\ pc'[Reader] = "rejectEnd" /\ wst'[Reader] # "put"
      /\ \A t \in Tasks \ {Reader} : pc'[t] = pc[t] /\ wst'[t] = wst[t]
  BY <1>2, <1>5, TaskSets DEF Goto, TypeOK, SendKinds
<1>7. /\ h11'.theirs = "SEND_BODY" /\ h11'.ours = "SEND_BODY" /\ ~h11'.keep
  BY <1>3, <1>4, <1>5 DEF SentSides
<1>8. /\ cur' = nreq + 1 /\ nreq' = nreq + 1 /\ nreq + 1 >= nreq
      /\ UNCHANGED <<told, fin, tgt, kareq, sstate, sclosed, idle>>
  BY <1>1 DEF RejectRequest, queueVars, endVars, serverVars
<1>9. BelowLimit' /\ (kareq' <= 1 \/ kareq' <= KeepAliveMax)
  BY <1>3, <1>8 DEF ExchangeInv, Limited, BelowLimit
<1> QED BY <1>1, <1>2, <1>3, <1>4, <1>6, <1>7, <1>8, <1>9, RejectStep

LEMMA RejectEndStep ==
  ASSUME TypeOK, TypeOK', TypeInv, ExchangeInv, RejectEnd PROVE ExchangeInv'
<1>1. Rejecting /\ pc[Reader] = "rejectEnd" /\ wst[Reader] = "no"
  BY DEF RejectEnd, At, Rejecting
<1>2. /\ h11.theirs = "SEND_BODY" /\ h11.ours = "SEND_BODY" /\ ~h11.keep
      /\ nreq \in Apps /\ nreq \in Nat /\ ~Spawned(nreq) /\ cur \in {0, nreq} /\ BelowLimit
  <2>1. /\ h11.theirs = "SEND_BODY" /\ h11.ours = "SEND_BODY" /\ ~h11.keep
        /\ nreq # 0 /\ ~Spawned(nreq)
    BY <1>1 DEF ExchangeInv, Errors
  <2>2. cur \in {0, nreq} /\ BelowLimit
    BY <1>1 DEF ExchangeInv, Numbered, Limited
  <2>3. nreq \in Nat
    BY DEF TypeOK
  <2> QED BY <2>1, <2>2, <2>3, LastApp
<1>3. CanSend(h11, "end") /\ SendH11On(h11, Reader, "end", FALSE, "rejected")
  BY <1>2 DEF CanSend, RejectEnd, SendH11
<1>4. /\ SentSides(h11, h11', "end", FALSE) /\ Goto(Reader, "rejected")
      /\ \A u \in Tasks \ {Reader} : wst'[u] = wst[u]
      /\ wst'[Reader] \in {wst[Reader]} \cup SendKinds
  BY <1>3, SendEffect, TaskSets DEF TypeOK, SendKinds
<1>5. /\ pc'[Reader] = "rejected" /\ wst'[Reader] # "put"
      /\ \A t \in Tasks \ {Reader} : pc'[t] = pc[t] /\ wst'[t] = wst[t]
  BY <1>1, <1>4, TaskSets DEF Goto, TypeOK, SendKinds
<1>6. /\ h11'.theirs = "SEND_BODY" /\ h11'.ours = "MUST_CLOSE" /\ ~h11'.keep
  BY <1>2, <1>3, <1>4 DEF SentSides
<1>7. UNCHANGED <<cur, nreq, told, fin, tgt, kareq, sstate, sclosed, idle>>
  BY DEF RejectEnd, streamVars, queueVars, endVars, serverVars
<1>8. BelowLimit' /\ (kareq' <= 1 \/ kareq' <= KeepAliveMax)
  BY <1>2, <1>7 DEF ExchangeInv, Limited, BelowLimit
<1> QED BY <1>1, <1>2, <1>5, <1>6, <1>7, <1>8, RejectStep

LEMMA RejectedStep ==
  ASSUME TypeOK, TypeOK', TypeInv, ExchangeInv, Rejected PROVE ExchangeInv'
<1>1. Rejecting /\ wst[Reader] = "no"
  BY DEF Rejected, At, Rejecting
<1>2. /\ h11.theirs = "SEND_BODY" /\ ~h11.keep /\ h11.ours # "ERROR" /\ h11.ours # "DONE"
      /\ nreq \in Apps /\ nreq \in Nat /\ ~Spawned(nreq) /\ cur \in {0, nreq} /\ BelowLimit
  <2>1. h11.theirs = "SEND_BODY" /\ ~h11.keep /\ nreq # 0 /\ ~Spawned(nreq)
    BY <1>1 DEF ExchangeInv, Errors
  <2>2. h11.ours # "ERROR" /\ h11.ours # "DONE"
    BY <2>1 DEF ExchangeInv, Legal, Recycling
  <2>3. cur \in {0, nreq} /\ BelowLimit
    BY <1>1 DEF ExchangeInv, Numbered, Limited
  <2>4. nreq \in Nat
    BY DEF TypeOK
  <2> QED BY <2>1, <2>2, <2>3, <2>4, LastApp
<1>3. /\ pc'[Reader] = "loop" /\ ~Rejecting'
      /\ \A t \in Tasks \ {Reader} : pc'[t] = pc[t]
  BY TaskSets DEF Rejected, Goto, TypeOK, Rejecting
<1>4. /\ UNCHANGED <<h11, cur, nreq, told, fin, tgt, wst, idle>> /\ kareq' = kareq + 1
      /\ \A r \in Apps \ {nreq} : sclosed'[r] = sclosed[r] /\ sstate'[r] = sstate[r]
  BY DEF Rejected, queueVars, writeVars, endVars, serverVars, TypeOK
<1>5. kareq' <= 1 \/ kareq' <= KeepAliveMax
  BY <1>2, <1>4, H11Assumption DEF BelowLimit, TypeOK
<1> QED BY <1>1, <1>2, <1>3, <1>4, <1>5, RejectStep

\* A client error, and the response the reader gives to it.
LEMMA ErrorStep ==
  ASSUME TypeOK, TypeOK', PutInv, ExchangeInv, SamePuts,
         UNCHANGED <<cur, nreq, kareq, sstate, sclosed, fin>>,
         \A t \in Tasks \ {Reader} : pc'[t] = pc[t] /\ wst'[t] = wst[t],
         pc'[Reader] \in {"errEnd", "close"}, idle' => idle,
         h11'.theirs = "ERROR", h11'.ours # "DONE",
         h11'.keep => h11.keep /\ h11'.ours # "SEND_BODY",
         h11.ours = "ERROR" => h11'.ours = "ERROR"
  PROVE  ExchangeInv'
<1>1. \A r \in Apps : /\ pc'[r] = pc[r] /\ wst'[r] = wst[r]
                      /\ Spawned(r)' = Spawned(r) /\ Acting(r)' = Acting(r)
  BY TaskSets DEF Spawned, Acting, Settled
<1>2. ~Creating' /\ ~Rejecting'
  BY DEF Creating, Rejecting
<1>3. Numbered' /\ Past' /\ Current'
  BY <1>1 DEF ExchangeInv, Numbered, Past, Current
<1>4. Fresh' /\ Legal'
  BY <1>2 DEF Fresh, Legal
<1>5. Waiting'
  <2> SUFFICES ASSUME NEW t \in Tasks, wst'[t] = "put"
               PROVE  cur' \in {0, tgt'[t]} /\ Spawned(tgt[t])'
    BY DEF Waiting, SamePuts
  <2>1. wst[t] = "put" /\ tgt'[t] = tgt[t]
    BY DEF SamePuts
  <2>2. cur \in {0, tgt[t]} /\ Spawned(tgt[t]) /\ tgt[t] \in Apps
    BY <2>1 DEF ExchangeInv, Waiting, PutInv
  <2> QED BY <1>1, <2>1, <2>2 DEF Spawned
<1>6. Recycling'
  BY <1>1 DEF ExchangeInv, Recycling
<1>7. Errors' /\ Failures'
  BY <1>1, <1>2 DEF ExchangeInv, Errors, Failures
<1>8. Telling'
  BY <1>1, TellingKept DEF ExchangeInv
<1>9. Limited'
  BY <1>2 DEF ExchangeInv, Limited
<1>10. Idling'
  BY <1>1, <1>2 DEF ExchangeInv, Idling
<1> QED
  BY <1>3, <1>4, <1>5, <1>6, <1>7, <1>8, <1>9, <1>10 DEF ExchangeInv

----------------------------------------------------------------------------
(* The next cycle, and the end of the task group.                          *)

LEMMA RecycleStep ==
  ASSUME TypeOK, TypeOK', TypeInv, ExchangeInv, NEW r \in Apps, Recycle(r)
  PROVE  ExchangeInv'
<1>1. /\ pc[r] = "recycle" /\ wst[r] = "no"
      /\ h11.ours = "DONE" /\ h11.theirs = "DONE"
  BY DEF Recycle, At, CanRecycle
<1>2. Acting(r)
  BY <1>1 DEF Acting, Settled, Spawned
<1>3. /\ r = nreq /\ ~Creating /\ ~Rejecting /\ pc[Reader] # "raised"
      /\ \A q \in Apps \ {r} : ~Acting(q)
  BY <1>2, ActingLast
<1>4. cur = 0 /\ sstate[r] = "CLOSED" /\ h11.keep /\ kareq < KeepAliveMax
  BY <1>1, <1>3 DEF ExchangeInv, Recycling, Limited
<1>5. /\ h11'.theirs = "IDLE" /\ h11'.ours = "IDLE" /\ h11'.keep = h11.keep
  BY DEF Recycle, NextCycle, TypeOK, H11Conn
<1>6. /\ pc'[r] \in {"run", "done"} /\ \A t \in Tasks \ {r} : pc'[t] = pc[t]
  BY TaskSets DEF Recycle, Goto, Back, TypeOK
<1>7. UNCHANGED <<cur, nreq, kareq, sstate, sclosed, told, fin, wst, tgt>>
  BY DEF Recycle, streamVars, queueVars, writeVars, endVars
<1>8. \A q \in Apps : Spawned(q)' = Spawned(q)
  BY <1>1, <1>6, TaskSets DEF Spawned
<1>9. sclosed[r]
  BY <1>1, <1>4, TaskSets DEF ExchangeInv, Current, Spawned, Reader
<1>10. \A q \in Apps : ~Acting(q)'
  <2>1. Settled(r)'
    BY <1>1, <1>4, <1>6, <1>7, <1>9 DEF Settled
  <2>2. \A q \in Apps \ {r} : ~Acting(q)'
    BY <1>3, <1>6, <1>7, TaskSets DEF Acting, Settled, Spawned
  <2> QED BY <2>1, <2>2 DEF Acting
<1>11. \A q \in Apps : /\ pc'[q] \in {"none", "run", "finish", "done"}
                       /\ ~Unanswered(q)' /\ ~Answering(q)'
                       /\ Spawned(q) => sclosed[q]
  BY <1>7, <1>8, <1>10 DEF Acting, Settled, Spawned, Unanswered, Answering
<1>12. pc'[Reader] = pc[Reader] /\ ~Creating' /\ ~Rejecting'
  BY <1>3, <1>6, TaskSets DEF Creating, Rejecting
<1>13. Numbered' /\ Past' /\ Current'
  BY <1>7, <1>8, <1>10 DEF ExchangeInv, Numbered, Past, Current
<1>14. Fresh' /\ Legal'
  BY <1>4, <1>5, <1>7, <1>10, <1>11, <1>12 DEF Fresh, Legal
<1>15. Waiting'
  <2>1. \A t \in Tasks : wst[t] = "put" => tgt[t] \in Apps
    BY DEF TypeInv, PutInv
  <2> QED BY <1>7, <1>8, <2>1 DEF ExchangeInv, Waiting
<1>16. Recycling'
  BY <1>5, <1>6, <1>7, <1>11, TaskSets DEF ExchangeInv, Recycling
<1>17. Errors' /\ Failures'
  BY <1>1, <1>3, <1>11, <1>12 DEF ExchangeInv, Errors, Failures
<1>18. Telling'
  BY <1>7, <1>8, TellingKept DEF ExchangeInv, SamePuts
<1>19. Limited'
  BY <1>4, <1>5, <1>7, <1>12 DEF ExchangeInv, Limited, BelowLimit
<1>20. Idling'
  BY <1>4, <1>7, <1>8, <1>11, <1>12 DEF Idling
<1> QED
  BY <1>13, <1>14, <1>15, <1>16, <1>17, <1>18, <1>19, <1>20 DEF ExchangeInv

\* The reader fails while it is rejecting a request: no application waits for
\* anything, and none loses what it has been put.
LEMMA AbortStep ==
  ASSUME TypeOK, TypeOK', TypeInv, ExchangeInv, Abort PROVE ExchangeInv'
<1>1. At(Reader, "raised")
  <2>1. PICK t \in Tasks : At(t, "raised")
    BY DEF Abort
  <2> QED BY <2>1 DEF ExchangeInv, Failures, At, Tasks
<1>2. nreq # 0 /\ ~Spawned(nreq) /\ wst[Reader] = "no"
  BY <1>1 DEF ExchangeInv, Failures, At
<1>3. \A r \in Apps : ~Acting(r)
  BY <1>2, LastApp DEF ExchangeInv, Past, Acting
<1>4. \A t \in Tasks : wst[t] = "no"
  BY <1>2, <1>3 DEF Tasks, Acting, Settled, ExchangeInv, Numbered
<1>5. \A t \in Tasks : wst'[t] = "no"
  BY DEF Abort
<1>6. /\ UNCHANGED <<h11, cur, nreq, kareq, sstate, sclosed, told, tgt>>
      /\ idle' = FALSE
  BY DEF Abort, streamVars, queueVars
<1>7. pc'[Reader] = "join"
  BY <1>1, TaskSets DEF Abort, Cancelled, At
<1>8. \A r \in Apps : pc'[r] = Cancelled(r)
  BY TaskSets DEF Abort
<1>9. \A r \in Apps : /\ pc[r] \in {"none", "run", "finish", "done"}
                      /\ pc[r] = "none" => pc'[r] = "none"
                      /\ pc[r] # "none" => pc'[r] \in {"finish", "done"}
                      /\ pc'[r] = "finish" => fin'[r]
  <2> SUFFICES ASSUME NEW r \in Apps
               PROVE  /\ pc[r] \in {"none", "run", "finish", "done"}
                      /\ pc[r] = "none" => pc'[r] = "none"
                      /\ pc[r] # "none" => pc'[r] \in {"finish", "done"}
                      /\ pc'[r] = "finish" => fin'[r]
    OBVIOUS
  <2>1. pc[r] \in {"none", "run", "finish", "done"}
    BY <1>3, SettledSilent
  <2>2. /\ pc[r] \in {"none", "done"} => Cancelled(r) = pc[r]
        /\ pc[r] \in {"run", "finish"} => Cancelled(r) \in {"finish", "done"}
    BY TaskSets DEF Cancelled
  <2>3. Cancelled(r) = "finish" => fin'[r]
    BY DEF Abort
  <2> QED BY <1>8, <2>1, <2>2, <2>3
<1>10. \A r \in Apps : Spawned(r)' = Spawned(r) /\ ~Acting(r)'
  <2>1. \A r \in Apps : Spawned(r)' = Spawned(r)
    BY <1>9 DEF Spawned
  <2>2. \A r \in Apps : Spawned(r) => Settled(r)'
    BY <1>3, <1>5, <1>6, <1>9, TaskSets DEF Spawned, Acting, Settled
  <2> QED BY <2>1, <2>2 DEF Acting
<1>11. \A r \in Apps : ~Unanswered(r)' /\ ~Answering(r)'
  BY <1>3, <1>6, <1>9 DEF Unanswered, Answering, Acting, Settled, Spawned
<1>12. ~Creating' /\ ~Rejecting'
  BY <1>7 DEF Creating, Rejecting
<1>13. Numbered' /\ Past' /\ Current' /\ Waiting'
  BY <1>5, <1>6, <1>10, TaskSets DEF ExchangeInv, Numbered, Past, Current, Waiting
<1>14. Fresh' /\ Legal'
  BY <1>6, <1>10, <1>11, <1>12 DEF ExchangeInv, Fresh, Legal
<1>15. Recycling' /\ Errors' /\ Failures'
  BY <1>6, <1>7, <1>9, <1>12 DEF ExchangeInv, Recycling, Errors, Failures
<1>16. Telling'
  BY <1>4, <1>5, <1>6, <1>10, TellingKept DEF ExchangeInv, SamePuts
<1>17. Limited' /\ Idling'
  BY <1>6, <1>12 DEF ExchangeInv, Limited, BelowLimit, Idling
<1> QED BY <1>13, <1>14, <1>15, <1>16, <1>17 DEF ExchangeInv

----------------------------------------------------------------------------
(* A stream leaves the connection.                                         *)

\* Application c is told, or about to be, and nothing changes for the others.
LEMMA TellingGrows ==
  ASSUME Telling, NEW c \in Apps, Told(c)',
         \A r \in Apps \ {c} :
           /\ told'[r] = told[r]
           /\ Spawned(r)' /\ sclosed'[r] => Spawned(r) /\ sclosed[r],
         \A t \in Tasks : wst[t] = "put" /\ tgt[t] # c =>
           wst'[t] = "put" /\ tgt'[t] = tgt[t]
  PROVE  Telling'
<1> SUFFICES ASSUME NEW r \in Apps \ {c}, Spawned(r), sclosed[r] PROVE Told(r)'
  BY DEF Telling
<1>1. Told(r)
  BY DEF Telling
<1>2. CASE told[r] = 1
  BY <1>2 DEF Told
<1>3. ASSUME NEW t \in Tasks, tgt[t] = r, wst[t] = "put" PROVE Told(r)'
  <2>1. wst'[t] = "put" /\ tgt'[t] = r
    BY <1>3
  <2> QED BY <2>1 DEF Told
<1> QED BY <1>1, <1>2, <1>3 DEF Told

\* Task t, or nobody, takes the stream away, or begins to.
LEMMA LeaveStep ==
  ASSUME TypeOK, TypeOK', PutInv, ExchangeInv, NEW t \in Tasks, Telling',
         UNCHANGED <<h11, nreq, kareq, sstate, fin>>, idle' => idle,
         cur' \in {0, cur},
         \A r \in Apps : sclosed[r] => sclosed'[r],
         \A r \in Apps : r # nreq => sclosed'[r] = sclosed[r],
         \A r \in Apps : Spawned(r) /\ ~sclosed'[r] => cur' = cur,
         \A u \in Tasks \ {t} : pc'[u] = pc[u] /\ wst'[u] = wst[u] /\ tgt'[u] = tgt[u],
         t \in Apps => /\ Acting(t)
                       /\ pc'[t] = pc[t] \/ (pc[t] = "ended" /\ pc'[t] = "recycle")
                       /\ pc'[t] = "recycle" => cur' = 0 \/ wst'[t] = "put",
         t = Reader => \/ pc'[t] \in {pc[t], "join"}
                       \/ pc'[t] = "raised" /\ nreq # 0 /\ ~Spawned(nreq),
         wst'[t] = "put" =>
           cur' \in {0, tgt'[t]} /\ tgt'[t] \in Apps /\ Spawned(tgt'[t]),
         wst[t] = "put" => cur' = 0
  PROVE  ExchangeInv'
<1>1. \A r \in Apps : Spawned(r)' = Spawned(r)
  BY TaskSets DEF Spawned, Acting
<1>2. \A r \in Apps : Acting(r)' => Acting(r)
  BY <1>1, TaskSets DEF Acting, Settled
<1>3. \A r \in Apps : pc'[r] = pc[r] \/ (pc[r] = "ended" /\ pc'[r] = "recycle")
  BY TaskSets
<1>4. /\ pc'[Reader] \in {pc[Reader], "join", "raised"}
      /\ pc'[Reader] = "raised" => pc[Reader] = "raised" \/ (nreq # 0 /\ ~Spawned(nreq))
  BY TaskSets
<1>5. /\ Creating' => Creating
      /\ Rejecting' => Rejecting
  BY <1>4 DEF Creating, Rejecting
<1>6. Numbered'
  <2>1. \A r \in Apps : r > nreq => r # nreq
    BY DEF TypeOK, Apps
  <2>2. \A r \in Apps : ~Spawned(r) => wst'[r] = wst[r]
    BY TaskSets DEF Acting
  <2> QED BY <1>1, <2>1, <2>2 DEF ExchangeInv, Numbered
<1>7. Past'
  BY <1>2 DEF ExchangeInv, Past
<1>8. Fresh'
  BY <1>2, <1>5 DEF ExchangeInv, Fresh
<1>9. Current'
  BY <1>1 DEF ExchangeInv, Current
<1>10. Waiting'
  <2> SUFFICES ASSUME NEW u \in Tasks, wst'[u] = "put"
               PROVE  cur' \in {0, tgt'[u]} /\ Spawned(tgt[u])'
    BY DEF Waiting
  <2>1. CASE u = t
    BY <1>1, <2>1 DEF Spawned
  <2>2. CASE u # t
    <3>1. wst[u] = "put" /\ tgt'[u] = tgt[u]
      BY <2>2
    <3>2. cur \in {0, tgt[u]} /\ Spawned(tgt[u]) /\ tgt[u] \in Apps
      BY <3>1 DEF ExchangeInv, Waiting, PutInv
    <3> QED BY <1>1, <3>1, <3>2 DEF Spawned
  <2> QED BY <2>1, <2>2
<1>11. Recycling'
  <2>1. \A r \in Apps : pc'[r] = "recycle" => cur' = 0 \/ wst'[r] = "put"
    BY TaskSets DEF ExchangeInv, Recycling
  <2> QED BY <1>3, <2>1 DEF ExchangeInv, Recycling
<1>12. Legal'
  BY <1>3 DEF ExchangeInv, Legal, Unanswered, Answering
<1>13. Errors'
  BY <1>1, <1>3, <1>4, <1>5, LastApp DEF ExchangeInv, Errors, Rejecting
<1>14. Failures'
  BY <1>1, <1>3, <1>4, LastApp DEF ExchangeInv, Failures
<1>15. Limited'
  BY <1>5 DEF ExchangeInv, Limited, BelowLimit
<1>16. Idling'
  BY <1>1, <1>5 DEF ExchangeInv, Idling
<1> QED
  BY <1>6, <1>7, <1>8, <1>9, <1>10, <1>11, <1>12, <1>13, <1>14, <1>15, <1>16
  DEF ExchangeInv

\* What one task of the server does when it closes the stream.
LEMMA CloseStep ==
  ASSUME TypeOK, TypeOK', TypeInv, TellInv, ExchangeInv,
         NEW t \in Tasks, NEW next, CloseStream(t, next),
         UNCHANGED <<h11, nreq, kareq, sstate, fin, idle>>,
         wst[t] # "put",
         t \in Apps => Acting(t) /\ (next = pc[t] \/ (pc[t] = "ended" /\ next = "recycle")),
         t = Reader => next \in {pc[t], "join"}
  PROVE  ExchangeInv'
<1>1. PutInv /\ Telling
  BY DEF TypeInv, ExchangeInv
<1>2. Open(cur) => /\ cur \in Apps /\ cur = nreq /\ nreq # 0
                   /\ ~sclosed[cur] /\ told[cur] = 0
                   /\ \A u \in Tasks : wst[u] = "put" => tgt[u] # cur
  BY OpenUntold, TaskSets DEF ExchangeInv, Numbered, Reader
<1>3. Released(t) => /\ \A u \in Tasks \ {t} : wst'[u] = wst[u]
                     /\ wst'[t] = "no"
  BY DEF Released, TypeOK
<1>4. \A l : Goto(t, l) => pc'[t] = l /\ \A u \in Tasks \ {t} : pc'[u] = pc[u]
  BY DEF Goto, TypeOK
<1>5. t \in Apps /\ Open(cur) => Spawned(cur)
  BY <1>2, ActingLast DEF Acting
<1>6. \A r \in Apps : Spawned(r) /\ ~sclosed[r] => Open(cur) /\ cur = r
  BY TaskSets DEF ExchangeInv, Current, Open, Reader
<1>7. t \in Apps /\ next = "recycle" /\ next = pc[t] => cur = 0
  BY DEF ExchangeInv, Recycling
<1>8. CASE ~Open(cur) /\ cur' = 0 /\ Released(t) /\ Goto(t, next)
           /\ UNCHANGED <<sclosed, tgt, queueVars>>
  <2>1. SamePuts /\ sclosed' = sclosed
    BY <1>3, <1>8 DEF SamePuts, queueVars
  <2>2. \A r \in Apps : Spawned(r)' => Spawned(r)
    BY <1>4, <1>8, TaskSets DEF Spawned, Acting
  <2>3. Telling'
    BY <1>1, <2>1, <2>2, TellingKept
  <2> QED BY <1>1, <1>3, <1>4, <1>6, <1>8, <2>1, <2>3, LeaveStep, TaskSets
<1>9. CASE Open(cur) /\ pc[cur] = "none"
           /\ sclosed' = [sclosed EXCEPT ![cur] = TRUE]
           /\ Released(t) /\ Goto(t, Raised(t))
           /\ UNCHANGED <<cur, tgt, queueVars>>
  <2>1. t = Reader /\ Raised(t) = "raised" /\ ~Spawned(nreq) /\ nreq # 0
    BY <1>2, <1>5, <1>9, TaskSets DEF Tasks, Raised, Spawned
  <2>2. \A r \in Apps : Spawned(r)' = Spawned(r)
    BY <1>4, <1>9, <2>1, TaskSets DEF Spawned
  <2>3. \A r \in Apps : sclosed'[r] = (IF r = cur THEN TRUE ELSE sclosed[r])
    BY <1>9 DEF TypeOK
  <2>4. SamePuts
    BY <1>3, <1>9 DEF SamePuts, queueVars
  <2>5. Telling'
    BY <1>1, <1>2, <1>9, <2>1, <2>2, <2>3, <2>4, TellingKept
  <2>6. \A r \in Apps : Spawned(r) /\ ~sclosed'[r] => cur' = cur
    BY <1>9
  <2> QED BY <1>1, <1>2, <1>3, <1>4, <1>9, <2>1, <2>3, <2>5, <2>6, LeaveStep, TaskSets
<1>10. CASE Open(cur) /\ pc[cur] # "none" /\ PutDisconnect(cur)
            /\ sclosed' = [sclosed EXCEPT ![cur] = TRUE]
            /\ cur' = 0 /\ Released(t) /\ Goto(t, next)
            /\ UNCHANGED tgt
  <2>1. \A r \in Apps : sclosed'[r] = (IF r = cur THEN TRUE ELSE sclosed[r])
    BY <1>10 DEF TypeOK
  <2>2. told'[cur] = 1 /\ \A r \in Apps \ {cur} : told'[r] = told[r]
    BY <1>2, <1>10 DEF PutDisconnect, TypeOK
  <2>3. \A r \in Apps : Spawned(r)' => Spawned(r)
    BY <1>4, <1>10, TaskSets DEF Spawned, Acting
  <2>4. Telling'
    <3>1. PICK c \in Apps : c = cur
      BY <1>2, <1>10
    <3>2. Told(c)'
      BY <2>2, <3>1 DEF Told
    <3> QED BY <1>1, <1>3, <1>10, <2>1, <2>2, <2>3, <3>1, <3>2, TellingGrows
  <2>5. \A r \in Apps : Spawned(r) => sclosed'[r]
    BY <1>6, <2>1
  <2> QED BY <1>1, <1>2, <1>3, <1>4, <1>10, <2>1, <2>4, <2>5, LeaveStep, TaskSets
<1>11. CASE Open(cur) /\ pc[cur] # "none" /\ ~HasRoom(cur)
            /\ sclosed' = [sclosed EXCEPT ![cur] = TRUE]
            /\ wst' = [wst EXCEPT ![t] = "put"] /\ tgt' = [tgt EXCEPT ![t] = cur]
            /\ Goto(t, next)
            /\ UNCHANGED <<cur, queueVars, lockq>>
  <2>1. \A r \in Apps : sclosed'[r] = (IF r = cur THEN TRUE ELSE sclosed[r])
    BY <1>11 DEF TypeOK
  <2>2. /\ wst'[t] = "put" /\ tgt'[t] = cur /\ cur' = cur
        /\ \A u \in Tasks \ {t} : wst'[u] = wst[u] /\ tgt'[u] = tgt[u]
    BY <1>11 DEF TypeOK
  <2>3. \A r \in Apps : Spawned(r)' => Spawned(r)
    BY <1>4, <1>11, TaskSets DEF Spawned, Acting
  <2>4. Telling'
    <3>1. PICK c \in Apps : c = cur
      BY <1>2, <1>11
    <3>2. Told(c)'
      BY <2>2, <3>1 DEF Told
    <3> QED BY <1>1, <1>11, <2>1, <2>2, <2>3, <3>1, <3>2, TellingGrows DEF queueVars
  <2>5. Spawned(cur) /\ cur \in Apps
    BY <1>2, <1>11 DEF Spawned
  <2> QED BY <1>1, <1>2, <1>4, <1>11, <2>1, <2>2, <2>4, <2>5, LeaveStep, TaskSets
<1> QED BY <1>8, <1>9, <1>10, <1>11 DEF CloseStream

LEMMA PutLateStep ==
  ASSUME TypeOK, TypeOK', TypeInv, TellInv, ExchangeInv, NEW t \in Tasks, PutLate(t)
  PROVE  ExchangeInv'
<1>1. PutInv /\ Telling /\ wst[t] = "put" /\ wst'[t] = "no"
      /\ \A u \in Tasks \ {t} : wst'[u] = wst[u]
  BY DEF TypeInv, ExchangeInv, PutLate, Released, TypeOK
<1>2. /\ tgt[t] \in Apps /\ told[tgt[t]] = 0 /\ sclosed[tgt[t]]
      /\ cur \in {0, tgt[t]}
  BY <1>1 DEF PutInv, TellInv, ExchangeInv, Waiting
<1>3. /\ told'[tgt[t]] = 1
      /\ \A r \in Apps \ {tgt[t]} : told'[r] = told[r]
  BY <1>2 DEF PutLate, PutDisconnect, TypeOK
<1>4. /\ UNCHANGED <<h11, nreq, kareq, sstate, sclosed, pc, fin, tgt, idle>> /\ cur' = 0
  BY DEF PutLate, endVars, serverVars
<1>5. \A r \in Apps : Spawned(r)' = Spawned(r)
  BY <1>4 DEF Spawned
<1>6. Telling'
  <2>1. PICK c \in Apps : c = tgt[t]
    BY <1>2
  <2>2. Told(c)'
    BY <1>3, <2>1 DEF Told
  <2> QED BY <1>1, <1>3, <1>4, <1>5, <2>1, <2>2, TellingGrows
<1>7. t \in Apps => Acting(t)
  BY <1>1 DEF ExchangeInv, Numbered, Acting, Settled
<1>8. \A r \in Apps : Spawned(r) => sclosed[r]
  BY <1>2, TaskSets DEF ExchangeInv, Current, Reader
<1> QED BY <1>1, <1>2, <1>4, <1>6, <1>7, <1>8, LeaveStep

LEMMA IdleStep ==
  ASSUME TypeOK, TypeOK', TypeInv, TellInv, ExchangeInv, IdleTimeout
  PROVE  ExchangeInv'
<1>1. /\ UNCHANGED <<h11, nreq, kareq, sstate, pc, wst, tgt, fin>>
      /\ cur' = 0 /\ idle' = FALSE /\ idle
  BY DEF IdleTimeout, taskVars, writeVars, endVars
<1>2. cur = 0 /\ ~Open(cur)
  BY <1>1 DEF ExchangeInv, Idling, Open
<1>3. UNCHANGED <<sclosed, told>>
  BY <1>2 DEF IdleTimeout, queueVars
<1>4. (Elsewhere /\ H11Calm) \/ (pc'[Reader] = pc[Reader] /\ h11' = h11)
  BY <1>1
<1>5. SamePuts
  BY <1>1, <1>3 DEF SamePuts
<1> QED BY <1>1, <1>2, <1>3, <1>4, <1>5, CalmStep DEF TypeInv

----------------------------------------------------------------------------
(* What an application sends, and how its exchange ends.                   *)

\* An application that may send is acting, and h11 is ready for it.
LEMMA SendReady ==
  ASSUME TypeOK, ExchangeInv, NEW r \in Apps,
         \/ Unanswered(r) \/ Answering(r)
  PROVE  /\ Acting(r)
         /\ Unanswered(r) => CanSend(h11, "head") \/ h11.theirs = "ERROR"
         /\ Answering(r) => /\ CanSend(h11, "data") \/ h11.theirs = "ERROR"
                            /\ CanSend(h11, "end") \/ h11.theirs = "ERROR"
<1>1. Acting(r)
  BY SettledSilent
<1> QED BY <1>1 DEF ExchangeInv, Legal, CanSend

\* A send of the acting application r, that takes it to label l.
LEMMA AppSend ==
  ASSUME TypeOK, TypeOK', TypeInv, ExchangeInv, NEW r \in Apps, Acting(r),
         NEW kind \in SendKinds, NEW close \in BOOLEAN, NEW l,
         SendH11(r, kind, close, l), CanSend(h11, kind) \/ h11.theirs = "ERROR",
         wst[r] = "no", UNCHANGED <<cur, nreq, kareq, sclosed, told, tgt, fin, idle>>,
         \A q \in Apps \ {r} : sstate'[q] = sstate[q],
         SentSides(h11, h11', kind, close) => ActedWell(r, l) /\ SidesWell(r)
  PROVE  ExchangeInv'
<1>1. /\ SentSides(h11, h11', kind, close) /\ Goto(r, l)
      /\ \A t \in Tasks \ {r} : wst'[t] = wst[t]
      /\ wst'[r] \in {wst[r]} \cup SendKinds
  <2>1. r \in Tasks /\ h11 \in H11Conn /\ SendH11On(h11, r, kind, close, l)
    BY TaskSets DEF TypeOK, SendH11
  <2> QED BY <2>1, SendEffect
<1>2. SamePuts
  BY <1>1 DEF SamePuts, SendKinds
<1> QED BY <1>1, <1>2, ActStep DEF TypeInv

LEMMA SendStartStep ==
  ASSUME TypeOK, TypeOK', TypeInv, ExchangeInv, NEW r \in Apps, SendStart(r)
  PROVE  ExchangeInv'
<1>1. Unanswered(r) /\ wst[r] = "no" /\ pc[r] = "run"
  BY DEF SendStart, MayStart, At, Unanswered
<1>2. Acting(r) /\ (CanSend(h11, "head") \/ h11.theirs = "ERROR")
  BY <1>1, SendReady
<1>3. /\ UNCHANGED <<cur, nreq, kareq, sclosed, told, tgt, fin, idle, sstate>>
      /\ SendH11(r, "head", AtKeepAliveLimit, "started")
  BY DEF SendStart, streamVars, queueVars, endVars, serverVars
<1>4. AtKeepAliveLimit \in BOOLEAN /\ "head" \in SendKinds
  BY DEF AtKeepAliveLimit, SendKinds
<1>5. ASSUME SentSides(h11, h11', "head", AtKeepAliveLimit)
      PROVE  ActedWell(r, "started") /\ SidesWell(r)
  <2>1. /\ h11'.theirs = "IDLE" => h11.theirs = "IDLE"
        /\ h11'.theirs = "ERROR" <=> h11.theirs = "ERROR"
        /\ \/ h11'.ours = "ERROR" /\ h11.theirs = "ERROR"
           \/ h11'.ours = "SEND_BODY" /\ (h11'.keep => ~AtKeepAliveLimit)
    BY <1>2, <1>5 DEF SentSides
  <2>2. ~AtKeepAliveLimit => kareq < KeepAliveMax
    BY H11Assumption DEF AtKeepAliveLimit, TypeOK
  <2> QED BY <1>1, <1>3, <2>1, <2>2 DEF ActedWell, SidesWell, Unanswered
<1> QED BY <1>1, <1>2, <1>3, <1>4, <1>5, AppSend

LEMMA SendBodyStep ==
  ASSUME TypeOK, TypeOK', TypeInv, ExchangeInv, NEW r \in Apps,
         NEW last \in BOOLEAN, SendBody(r, last)
  PROVE  ExchangeInv'
<1> DEFINE l == IF last THEN "bodyEnd" ELSE "run"
<1>1. Answering(r) /\ wst[r] = "no" /\ sstate[r] = "RESPONSE"
  BY DEF SendBody, MayRespond, At, Answering
<1>2. Acting(r) /\ (CanSend(h11, "data") \/ h11.theirs = "ERROR")
  BY <1>1, SendReady
<1>3. /\ UNCHANGED <<cur, nreq, kareq, sclosed, told, tgt, fin, idle, sstate>>
      /\ SendH11(r, "data", FALSE, l)
  BY DEF SendBody, streamVars, queueVars, endVars, serverVars
<1>4. "data" \in SendKinds /\ l \in {"bodyEnd", "run"}
  BY DEF SendKinds
<1> HIDE DEF l
<1>5. ASSUME SentSides(h11, h11', "data", FALSE)
      PROVE  ActedWell(r, l) /\ SidesWell(r)
  <2>1. /\ h11'.theirs = "IDLE" => h11.theirs = "IDLE"
        /\ h11'.theirs = "ERROR" <=> h11.theirs = "ERROR"
        /\ \/ h11'.ours = "ERROR" /\ h11.theirs = "ERROR"
           \/ h11' = h11 /\ h11.ours = "SEND_BODY"
    BY <1>2, <1>5 DEF SentSides, CanSend
  <2>2. h11.ours = "SEND_BODY" /\ h11.keep => kareq < KeepAliveMax
    BY DEF ExchangeInv, Limited
  <2> QED BY <1>1, <1>3, <1>4, <2>1, <2>2 DEF ActedWell, SidesWell
<1> QED BY <1>1, <1>2, <1>3, <1>4, <1>5, AppSend

LEMMA EndStep ==
  ASSUME TypeOK, TypeOK', TypeInv, ExchangeInv, NEW r \in Apps, EndResponse(r),
         Answering(r), wst[r] = "no"
  PROVE  ExchangeInv'
<1>1. Acting(r) /\ (CanSend(h11, "end") \/ h11.theirs = "ERROR")
  BY SendReady
<1>2. /\ UNCHANGED <<cur, nreq, kareq, sclosed, told, tgt, fin, idle>>
      /\ SendH11(r, "end", FALSE, "ended")
      /\ sstate'[r] = "CLOSED" /\ \A q \in Apps \ {r} : sstate'[q] = sstate[q]
  BY DEF EndResponse, queueVars, endVars, serverVars, TypeOK
<1>3. "end" \in SendKinds
  BY DEF SendKinds
<1>4. ASSUME SentSides(h11, h11', "end", FALSE)
      PROVE  ActedWell(r, "ended") /\ SidesWell(r)
  <2>1. /\ h11'.theirs = "IDLE" => h11.theirs = "IDLE"
        /\ h11'.theirs = "ERROR" <=> h11.theirs = "ERROR"
        /\ \/ h11'.ours = "ERROR" /\ h11.theirs = "ERROR"
           \/ /\ h11'.ours \in {"DONE", "MUST_CLOSE"} /\ h11.ours = "SEND_BODY"
              /\ h11'.keep = h11.keep /\ (h11'.ours = "DONE" => h11.keep)
    BY <1>1, <1>4 DEF SentSides, CanSend
  <2>2. h11.ours = "SEND_BODY" /\ h11.keep => kareq < KeepAliveMax
    BY DEF ExchangeInv, Limited
  <2> QED BY <1>2, <2>1, <2>2 DEF ActedWell, SidesWell
<1> QED BY <1>1, <1>2, <1>3, <1>4, AppSend

LEMMA ErrorEndStep ==
  ASSUME TypeOK, TypeOK', TypeInv, ExchangeInv, NEW r \in Apps, ErrorResponseEnd(r)
  PROVE  ExchangeInv'
<1>1. Answering(r) /\ wst[r] = "no" /\ pc[r] = "errEnd"
  BY DEF ErrorResponseEnd, At, Answering
<1>2. Acting(r) /\ (CanSend(h11, "end") \/ h11.theirs = "ERROR")
  BY <1>1, SendReady
<1>3. /\ UNCHANGED <<cur, nreq, kareq, sclosed, told, tgt, fin, idle, sstate>>
      /\ SendH11(r, "end", FALSE, "errDone")
  BY DEF ErrorResponseEnd, streamVars, queueVars, endVars, serverVars
<1>4. "end" \in SendKinds
  BY DEF SendKinds
<1>5. ASSUME SentSides(h11, h11', "end", FALSE)
      PROVE  ActedWell(r, "errDone") /\ SidesWell(r)
  <2>1. /\ h11'.theirs = "IDLE" => h11.theirs = "IDLE"
        /\ h11'.theirs = "ERROR" <=> h11.theirs = "ERROR"
        /\ \/ h11'.ours = "ERROR" /\ h11.theirs = "ERROR"
           \/ h11'.ours = "MUST_CLOSE"
    <3>1. ~h11.keep \/ h11.ours = "ERROR"
      BY <1>1 DEF ExchangeInv, Errors
    <3> QED BY <1>2, <1>5, <3>1 DEF SentSides, CanSend
  <2> QED BY <2>1 DEF ActedWell, SidesWell
<1> QED BY <1>1, <1>2, <1>3, <1>4, <1>5, AppSend

\* Steps of an acting application that leave h11 alone.
LEMMA AppMove ==
  ASSUME TypeOK, TypeOK', TypeInv, ExchangeInv, NEW r \in Apps, Acting(r), NEW l,
         Goto(r, l), l \notin {"none", "raised", "recycle", "errEnd", "started", "bodyEnd"},
         UNCHANGED <<h11, cur, nreq, kareq, sclosed, told, tgt, wst>>, idle' => idle,
         \A q \in Apps \ {r} : sstate'[q] = sstate[q] /\ fin'[q] = fin[q],
         fin[r] => fin'[r], h11.ours = "DONE" => sstate'[r] = "CLOSED",
         l \in {"ended", "waitClosed"} => sstate'[r] = "CLOSED" \/ fin'[r],
         l = "finish" => fin'[r],
         l \in {"run", "finish"} /\ sstate'[r] = "REQUEST" /\ h11.theirs # "ERROR"
           => h11.ours = "SEND_RESPONSE",
         l = "run" /\ sstate'[r] = "RESPONSE" /\ h11.theirs # "ERROR"
           => h11.ours = "SEND_BODY"
  PROVE  ExchangeInv'
<1>1. SamePuts
  BY DEF SamePuts
<1>2. ActedWell(r, l)
  BY DEF ActedWell, ExchangeInv, Legal
<1>3. SidesWell(r)
  <2>1. r = nreq
    BY ActingLast
  <2> QED BY <2>1 DEF SidesWell, ExchangeInv, Recycling, Limited
<1> QED BY <1>1, <1>2, <1>3, ActStep DEF TypeInv

LEMMA StartedStep ==
  ASSUME TypeOK, TypeOK', TypeInv, ExchangeInv, NEW r \in Apps, Started(r)
  PROVE  ExchangeInv'
<1>1. Answering(r) /\ pc[r] = "started" /\ Goto(r, "run")
  BY DEF Started, At, Answering
<1>2. Acting(r) /\ (h11.theirs # "ERROR" => h11.ours = "SEND_BODY")
  BY <1>1, SendReady DEF ExchangeInv, Legal
<1>3. h11.ours # "DONE"
  BY <1>1, <1>2, ActingLast DEF ExchangeInv, Recycling
<1>4. /\ UNCHANGED <<h11, cur, nreq, kareq, sclosed, told, tgt, wst, fin, idle>>
      /\ sstate'[r] = "RESPONSE" /\ \A q \in Apps \ {r} : sstate'[q] = sstate[q]
  BY DEF Started, queueVars, writeVars, endVars, serverVars, TypeOK
<1> QED BY <1>1, <1>2, <1>3, <1>4, AppMove

LEMMA ReturnStep ==
  ASSUME TypeOK, TypeOK', TypeInv, ExchangeInv, NEW r \in Apps, Return(r)
  PROVE  ExchangeInv'
<1>1. pc[r] = "run" /\ Goto(r, "finish") /\ Spawned(r)
  BY DEF Return, At, Spawned
<1>2. /\ UNCHANGED <<h11, cur, nreq, kareq, sstate, sclosed, told, tgt, wst, idle>>
      /\ fin'[r] /\ \A q \in Apps \ {r} : fin'[q] = fin[q]
  BY DEF Return, streamVars, queueVars, writeVars, serverVars, TypeOK
<1>3. CASE Settled(r)
  <2>1. SamePuts
    BY <1>2 DEF SamePuts
  <2> QED BY <1>1, <1>2, <1>3, <2>1, SettledStep DEF TypeInv
<1>4. CASE Acting(r)
  <2>1. h11.ours = "DONE" => sstate[r] = "CLOSED"
    BY <1>4, ActingLast DEF ExchangeInv, Recycling
  <2>2. sstate[r] = "REQUEST" /\ h11.theirs # "ERROR" => h11.ours = "SEND_RESPONSE"
    BY <1>1 DEF ExchangeInv, Legal, Unanswered
  <2> QED BY <1>1, <1>2, <1>4, <2>1, <2>2, AppMove
<1> QED BY <1>1, <1>3, <1>4 DEF Acting

LEMMA FinishStep ==
  ASSUME TypeOK, TypeOK', TypeInv, ExchangeInv, NEW r \in Apps, Finish(r)
  PROVE  ExchangeInv'
<1>1. pc[r] = "finish" /\ wst[r] = "no" /\ Spawned(r) /\ fin[r]
  BY DEF Finish, At, Spawned, ExchangeInv, Recycling
<1>2. UNCHANGED <<cur, nreq, kareq, sstate, sclosed, told, tgt, fin, idle>>
  BY DEF Finish, streamVars, queueVars, endVars, serverVars
<1>3. Acting(r) => (h11.ours = "DONE" => sstate[r] = "CLOSED")
  BY ActingLast DEF ExchangeInv, Recycling
<1>4. ASSUME NEW l \in {"done", "ended"}, Goto(r, l), UNCHANGED <<h11, writeVars>>,
             sclosed[r] <=> l = "done"
      PROVE  ExchangeInv'
  <2>1. wst' = wst
    BY <1>4 DEF writeVars
  <2>2. CASE Settled(r)
    <3>1. SamePuts /\ l = "done"
      BY <1>2, <1>4, <2>1, <2>2 DEF SamePuts, Settled
    <3> QED BY <1>2, <1>4, <2>1, <2>2, <3>1, SettledStep DEF TypeInv
  <2>3. CASE Acting(r)
    BY <1>1, <1>2, <1>3, <1>4, <2>1, <2>3, AppMove
  <2> QED BY <1>1, <2>2, <2>3 DEF Acting
<1>5. ASSUME sstate[r] = "REQUEST", SendH11(r, "head", TRUE, "errEnd")
      PROVE  ExchangeInv'
  <2>1. Unanswered(r)
    BY <1>1, <1>5 DEF Unanswered
  <2>2. Acting(r) /\ (CanSend(h11, "head") \/ h11.theirs = "ERROR") /\ "head" \in SendKinds
    BY <2>1, SendReady DEF SendKinds
  <2>3. ASSUME SentSides(h11, h11', "head", TRUE)
        PROVE  ActedWell(r, "errEnd") /\ SidesWell(r)
    <3>1. /\ h11'.theirs = "IDLE" => h11.theirs = "IDLE"
          /\ h11'.theirs = "ERROR" <=> h11.theirs = "ERROR"
          /\ \/ h11'.ours = "ERROR" /\ h11.theirs = "ERROR"
             \/ h11'.ours = "SEND_BODY" /\ ~h11'.keep
      BY <2>2, <2>3 DEF SentSides
    <3> QED BY <3>1 DEF ActedWell, SidesWell
  <2> QED BY <1>1, <1>2, <1>5, <2>2, <2>3, AppSend
<1>6. \/ sclosed[r] /\ Goto(r, "done") /\ UNCHANGED <<h11, writeVars>>
      \/ ~sclosed[r] /\ Goto(r, "ended") /\ UNCHANGED <<h11, writeVars>>
      \/ sstate[r] = "REQUEST" /\ SendH11(r, "head", TRUE, "errEnd")
  BY DEF Finish
<1> QED BY <1>4, <1>5, <1>6

LEMMA ErrorDoneStep ==
  ASSUME TypeOK, TypeOK', TypeInv, ExchangeInv, NEW r \in Apps, ErrorResponseDone(r)
  PROVE  ExchangeInv'
<1>1. pc[r] = "errDone" /\ Goto(r, "ended") /\ Acting(r)
  BY DEF ErrorResponseDone, At, Acting, Settled, Spawned
<1>2. /\ UNCHANGED <<h11, cur, nreq, kareq, sclosed, told, tgt, wst, fin, idle>>
      /\ sstate'[r] = "CLOSED" /\ \A q \in Apps \ {r} : sstate'[q] = sstate[q]
  BY DEF ErrorResponseDone, queueVars, writeVars, endVars, serverVars, TypeOK
<1> QED BY <1>1, <1>2, AppMove

LEMMA CloseAfterStep ==
  ASSUME TypeOK, TypeOK', TypeInv, ExchangeInv, NEW r \in Apps, CloseAfterResponse(r)
  PROVE  ExchangeInv'
<1>1. pc[r] = "recycle" /\ Goto(r, "waitClosed") /\ Acting(r)
  BY DEF CloseAfterResponse, At, Acting, Settled, Spawned
<1>2. UNCHANGED <<h11, cur, nreq, kareq, sstate, sclosed, told, tgt, wst, fin, idle>>
  BY DEF CloseAfterResponse, streamVars, queueVars, writeVars, endVars
<1>3. /\ sstate[r] = "CLOSED" \/ fin[r]
      /\ h11.ours = "DONE" => sstate[r] = "CLOSED"
  BY <1>1, ActingLast DEF ExchangeInv, Recycling
<1> QED BY <1>1, <1>2, <1>3, AppMove

LEMMA ClosedAfterStep ==
  ASSUME TypeOK, TypeOK', TypeInv, ExchangeInv, NEW r \in Apps, ClosedAfterResponse(r)
  PROVE  ExchangeInv'
<1>1. pc[r] = "waitClosed" /\ Goto(r, Back(r)) /\ Acting(r)
  BY DEF ClosedAfterResponse, At, Acting, Settled, Spawned
<1>2. UNCHANGED <<h11, cur, nreq, kareq, sstate, sclosed, told, tgt, wst, fin>> /\ ~idle'
  BY DEF ClosedAfterResponse, streamVars, queueVars, writeVars, endVars
<1>3. /\ sstate[r] = "CLOSED" \/ fin[r]
      /\ h11.ours = "DONE" => sstate[r] = "CLOSED"
  BY <1>1, ActingLast DEF ExchangeInv, Recycling
<1>4. Back(r) = "done" \/ (Back(r) = "run" /\ ~fin[r])
  BY DEF Back
<1> QED BY <1>1, <1>2, <1>3, <1>4, AppMove

----------------------------------------------------------------------------
(* Every step.                                                             *)

\* The reader goes on to label l, and leaves the streams and h11 alone.
LEMMA ReaderMove ==
  ASSUME TypeOK, TypeOK', TypeInv, ExchangeInv, NEW l, Goto(Reader, l),
         l \notin {"create", "reject", "rejectEnd", "rejected", "raised", "errEnd", "close"},
         UNCHANGED <<streamVars, told, writeVars, endVars, tgt>>,
         H11Calm \/ h11' = h11, idle' => idle
  PROVE  ExchangeInv'
<1>1. pc'[Reader] = l /\ \A r \in Apps : pc'[r] = pc[r]
  BY TaskSets DEF Goto, TypeOK
<1>2. Elsewhere
  BY <1>1 DEF Elsewhere
<1>3. SamePuts
  BY DEF SamePuts, writeVars
<1>4. h11' = h11 => H11Calm
  BY DEF H11Calm, TypeOK
<1> QED BY <1>1, <1>2, <1>3, <1>4, CalmStep DEF streamVars, writeVars, endVars, TypeInv

\* Nobody moves.
LEMMA StillStep ==
  ASSUME TypeOK, TypeOK', TypeInv, ExchangeInv,
         UNCHANGED <<h11, streamVars, told, pc, endVars, tgt>>, idle' => idle,
         \A t \in Tasks : /\ wst'[t] = "put" <=> wst[t] = "put"
                          /\ wst[t] = "no" => wst'[t] = "no"
  PROVE  ExchangeInv'
<1>1. SamePuts
  BY DEF SamePuts
<1> QED BY <1>1, CalmStep DEF streamVars, endVars, TypeInv

LEMMA BodyStep ==
  ASSUME TypeOK, TypeOK', TypeInv, ExchangeInv, BodyEvent PROVE ExchangeInv'
<1>1. H11Calm
  <2>1. h11 \in H11Conn /\ Event \in {"data", "end"}
    BY DEF BodyEvent, TypeOK
  <2>2. h11.theirs # "ERROR"
    BY <2>1 DEF Event, NextEvent
  <2> QED BY <2>1, <2>2, ParsedEffect DEF BodyEvent, Parsed
<1>2. /\ \/ Goto(Reader, NextRead) \/ Goto(Reader, "loop") \/ Goto(Reader, "putBody")
      /\ wst[Reader] = "no"
      /\ UNCHANGED <<streamVars, told, writeVars, endVars, idle>>
      /\ \A t \in Tasks \ {Reader} : tgt'[t] = tgt[t]
  BY DEF BodyEvent, At, serverVars, TypeOK
<1>3. /\ pc'[Reader] \in {"read", "closed", "loop", "putBody"}
      /\ \A r \in Apps : pc'[r] = pc[r]
  BY <1>2, TaskSets DEF Goto, TypeOK, NextRead
<1>4. Elsewhere
  BY <1>3 DEF Elsewhere
<1>5. SamePuts
  BY <1>2 DEF SamePuts, writeVars
<1> QED BY <1>1, <1>2, <1>3, <1>4, <1>5, CalmStep DEF streamVars, writeVars, endVars, TypeInv

LEMMA ProtocolErrorStep ==
  ASSUME TypeOK, TypeOK', TypeInv, ExchangeInv, ProtocolError PROVE ExchangeInv'
<1> DEFINE g == [h11 EXCEPT !.theirs = "ERROR"]
           h == AfterEvent(h11, "error", "")
<1>1. /\ g \in H11Conn /\ g.theirs = "ERROR" /\ g.ours = h11.ours /\ g.keep = h11.keep
  BY DEF TypeOK, H11Conn, TheirStates
<1>2. h = Settle(g)
  BY DEF AfterEvent
<1>3. SettledSides(g, h)
  BY <1>1, <1>2, SettleEffect
<1> HIDE DEF g, h
<1>4. /\ h \in H11Conn /\ h.theirs = "ERROR" /\ h.ours # "DONE" /\ h.keep = h11.keep
      /\ h11.ours = "ERROR" => h.ours = "ERROR"
      /\ h11.ours = "SEND_BODY" => h.ours = "SEND_BODY"
      /\ h.ours = h11.ours \/ h.ours = "MUST_CLOSE"
  BY <1>1, <1>3 DEF SettledSides
<1>5. /\ UNCHANGED <<streamVars, told, endVars, tgt, idle>> /\ wst[Reader] = "no"
      /\ IF MayAnswerError(h)
         THEN SendH11On(h, Reader, "head", TRUE, "errEnd")
         ELSE h11' = h /\ Goto(Reader, "close") /\ UNCHANGED writeVars
  BY DEF ProtocolError, queueVars, serverVars, At, h
<1>6. CASE MayAnswerError(h)
  <2>1. SendH11On(h, Reader, "head", TRUE, "errEnd") /\ "head" \in SendKinds
    BY <1>5, <1>6 DEF SendKinds
  <2>2. /\ SentSides(h, h11', "head", TRUE) /\ Goto(Reader, "errEnd")
        /\ \A u \in Tasks \ {Reader} : wst'[u] = wst[u]
        /\ wst'[Reader] \in {wst[Reader]} \cup SendKinds
    BY <1>4, <2>1, SendEffect, TaskSets
  <2>3. CanSend(h, "head") /\ h11.ours # "ERROR"
    BY <1>4, <1>6 DEF MayAnswerError, CanSend
  <2>4. h11'.theirs = "ERROR" /\ h11'.ours = "SEND_BODY" /\ ~h11'.keep
    BY <1>4, <2>2, <2>3 DEF SentSides
  <2>5. pc'[Reader] = "errEnd" /\ \A t \in Tasks \ {Reader} : pc'[t] = pc[t]
    BY <2>2, TaskSets DEF Goto, TypeOK
  <2>6. SamePuts
    BY <1>5, <2>2 DEF SamePuts, SendKinds
  <2> QED BY <1>5, <2>2, <2>3, <2>4, <2>5, <2>6, ErrorStep DEF streamVars, endVars, TypeInv
<1>7. CASE ~MayAnswerError(h)
  <2>1. h11' = h /\ Goto(Reader, "close") /\ UNCHANGED writeVars
    BY <1>5, <1>7
  <2>2. pc'[Reader] = "close" /\ \A t \in Tasks \ {Reader} : pc'[t] = pc[t]
    BY <2>1, TaskSets DEF Goto, TypeOK
  <2>3. SamePuts /\ Elsewhere
    BY <1>4, <1>5, <2>1, <2>2 DEF SamePuts, Elsewhere, writeVars
  <2>4. H11Calm
    <3>1. h.ours = h11.ours \/ (h.ours = "MUST_CLOSE" /\ h11.ours \in {"IDLE", "DONE"})
      BY <1>1, <1>3 DEF SettledSides
    <3> QED BY <1>4, <2>1, <3>1 DEF H11Calm
  <2> QED
    BY <1>5, <2>1, <2>2, <2>3, <2>4, CalmStep, TaskSets
    DEF streamVars, writeVars, endVars, TypeInv
<1> QED BY <1>6, <1>7

LEMMA ErrorSentStep ==
  ASSUME TypeOK, TypeOK', TypeInv, ExchangeInv, ErrorEnd PROVE ExchangeInv'
<1>1. /\ h11.theirs = "ERROR" /\ wst[Reader] = "no" /\ "end" \in SendKinds
      /\ h11 \in H11Conn /\ SendH11On(h11, Reader, "end", FALSE, "close")
  BY DEF ErrorEnd, At, ExchangeInv, Errors, SendH11, SendKinds, TypeOK
<1>2. /\ SentSides(h11, h11', "end", FALSE) /\ Goto(Reader, "close")
      /\ \A u \in Tasks \ {Reader} : wst'[u] = wst[u]
      /\ wst'[Reader] \in {wst[Reader]} \cup SendKinds
  BY <1>1, SendEffect, TaskSets
<1>3. /\ h11'.theirs = "ERROR" /\ h11'.ours \in {"MUST_CLOSE", "ERROR"}
      /\ h11'.keep = h11.keep /\ (h11.ours = "ERROR" => h11'.ours = "ERROR")
  BY <1>1, <1>2 DEF SentSides, CanSend
<1>4. pc'[Reader] = "close" /\ \A t \in Tasks \ {Reader} : pc'[t] = pc[t]
  BY <1>2, TaskSets DEF Goto, TypeOK
<1>5. UNCHANGED <<streamVars, told, endVars, tgt, idle>>
  BY DEF ErrorEnd, queueVars, serverVars
<1>6. SamePuts
  BY <1>1, <1>2, <1>5 DEF SamePuts, SendKinds
<1> QED BY <1>2, <1>3, <1>4, <1>5, <1>6, ErrorStep DEF streamVars, endVars, TypeInv

LEMMA ExchangeStep ==
  ASSUME TypeInv, TypeInv', TellInv, ExchangeInv, [Next]_vars
  PROVE  ExchangeInv'
<1> USE DEF TypeInv
<1>1. CASE ReadData
  <2>1. /\ Goto(Reader, "loop")
        /\ UNCHANGED <<h11, streamVars, told, writeVars, endVars, tgt>> /\ (idle' => idle)
    BY <1>1 DEF ReadData, queueVars, serverVars
  <2> QED BY <2>1, ReaderMove
<1>2. CASE ReadEof
  <2>1. /\ Goto(Reader, "loop")
        /\ UNCHANGED <<h11, streamVars, told, writeVars, endVars, tgt>> /\ (idle' => idle)
    BY <1>2 DEF ReadEof, queueVars, serverVars
  <2> QED BY <2>1, ReaderMove
<1>3. CASE ReadFails
  <2>1. /\ Goto(Reader, "closed")
        /\ UNCHANGED <<h11, streamVars, told, writeVars, endVars, tgt>> /\ (idle' => idle)
    BY <1>3 DEF ReadFails, queueVars, serverVars
  <2> QED BY <2>1, ReaderMove
<1>4. CASE Paused
  <2>1. /\ Goto(Reader, "paused")
        /\ UNCHANGED <<h11, streamVars, told, writeVars, endVars, tgt>> /\ (idle' => idle)
    BY <1>4 DEF Paused, queueVars, serverVars
  <2> QED BY <2>1, ReaderMove
<1>5. CASE Resume
  <2>1. /\ Goto(Reader, "loop")
        /\ UNCHANGED <<h11, streamVars, told, writeVars, endVars, tgt>> /\ (idle' => idle)
    BY <1>5 DEF Resume, queueVars, serverVars
  <2> QED BY <2>1, ReaderMove
<1>6. CASE PutBody
  <2>1. /\ Goto(Reader, "loop")
        /\ UNCHANGED <<h11, streamVars, told, writeVars, endVars, tgt>> /\ (idle' => idle)
    BY <1>6 DEF PutBody, queueVars, serverVars
  <2> QED BY <2>1, ReaderMove
<1>7. CASE ReaderCloses
  <2>1. /\ Goto(Reader, "waitClosed")
        /\ UNCHANGED <<h11, streamVars, told, writeVars, endVars, tgt>> /\ (idle' => idle)
    BY <1>7 DEF ReaderCloses, queueVars, serverVars
  <2> QED BY <2>1, ReaderMove
<1>8. CASE ReaderClosed
  <2>1. /\ Goto(Reader, NextRead)
        /\ UNCHANGED <<h11, streamVars, told, writeVars, endVars, tgt>> /\ (idle' => idle)
    BY <1>8 DEF ReaderClosed, queueVars, serverVars
  <2>2. NextRead \in {"read", "closed"}
    BY DEF NextRead
  <2> QED BY <2>1, <2>2, ReaderMove
<1>9. CASE Join
  <2>1. /\ Goto(Reader, "finalClose")
        /\ UNCHANGED <<h11, streamVars, told, writeVars, endVars, tgt>> /\ (idle' => idle)
    BY <1>9 DEF Join, queueVars, serverVars
  <2> QED BY <2>1, ReaderMove
<1>10. CASE FinalClose
  <2>1. /\ Goto(Reader, "finalWait")
        /\ UNCHANGED <<h11, streamVars, told, writeVars, endVars, tgt>> /\ (idle' => idle)
    BY <1>10 DEF FinalClose, queueVars, serverVars
  <2> QED BY <2>1, ReaderMove
<1>11. CASE FinalClosed
  <2>1. /\ Goto(Reader, "ended")
        /\ UNCHANGED <<h11, streamVars, told, writeVars, endVars, tgt>> /\ (idle' => idle)
    BY <1>11 DEF FinalClosed, queueVars, serverVars
  <2> QED BY <2>1, ReaderMove
<1>12. CASE NothingMore
  <2>1. /\ Goto(Reader, NextRead) /\ NextRead \in {"read", "closed"}
        /\ UNCHANGED <<streamVars, told, writeVars, endVars, tgt, idle>>
    BY <1>12 DEF NothingMore, NextRead, queueVars, serverVars
  <2>2. h11 \in H11Conn /\ Event \in {"need_data", "closed"}
    BY <1>12 DEF NothingMore, TypeOK
  <2>3. h11.theirs # "ERROR"
    BY <2>2 DEF Event, NextEvent
  <2>4. H11Calm
    BY <1>12, <2>2, <2>3, ParsedEffect DEF NothingMore, Parsed
  <2> QED BY <2>1, <2>4, ReaderMove
<1>13. CASE Terminate
  <2>1. UNCHANGED <<h11, streamVars, told, pc, wst, endVars, tgt, idle>>
    BY <1>13 DEF Terminate, queueVars, taskVars, writeVars, serverVars
  <2> QED BY <2>1, StillStep
<1>14. CASE ClientSends
  <2>1. UNCHANGED <<h11, streamVars, told, pc, wst, endVars, tgt, idle>>
    BY <1>14 DEF ClientSends, queueVars, taskVars, writeVars, serverVars
  <2> QED BY <2>1, StillStep
<1>15. CASE ClientEof
  <2>1. UNCHANGED <<h11, streamVars, told, pc, wst, endVars, tgt, idle>>
    BY <1>15 DEF ClientEof, queueVars, taskVars, writeVars, serverVars
  <2> QED BY <2>1, StillStep
<1>16. CASE ConnectionLost
  <2>1. UNCHANGED <<h11, streamVars, told, pc, wst, endVars, tgt, idle>>
    BY <1>16 DEF ConnectionLost, queueVars, taskVars, writeVars, serverVars
  <2> QED BY <2>1, StillStep
<1>17. CASE UNCHANGED vars
  <2>1. UNCHANGED <<h11, streamVars, told, pc, wst, endVars, tgt, idle>>
    BY <1>17 DEF vars, queueVars, taskVars, writeVars, serverVars
  <2> QED BY <2>1, StillStep
<1>18. ASSUME NEW r \in Apps, Receive(r) PROVE ExchangeInv'
  <2>1. UNCHANGED <<h11, streamVars, told, pc, wst, endVars, tgt, idle>>
    BY <1>18 DEF Receive, taskVars, writeVars, serverVars
  <2> QED BY <2>1, StillStep
<1>19. ASSUME NEW t \in Tasks, Write(t) PROVE ExchangeInv'
  <2>1. /\ UNCHANGED <<h11, streamVars, told, pc, endVars, tgt, idle>>
        /\ wst[t] \in SendKinds /\ wst' = [wst EXCEPT ![t] = "drain"]
    BY <1>19 DEF Write, queueVars, serverVars
  <2>2. \A u \in Tasks : /\ wst'[u] = "put" <=> wst[u] = "put"
                         /\ wst[u] = "no" => wst'[u] = "no"
    BY <2>1 DEF TypeOK, SendKinds
  <2> QED BY <2>1, <2>2, StillStep
<1>20. ASSUME NEW t \in Tasks, Drained(t) PROVE ExchangeInv'
  <2>1. /\ UNCHANGED <<h11, streamVars, told, pc, endVars, tgt, idle>>
        /\ wst[t] = "drain" /\ wst' = [wst EXCEPT ![t] = "no"]
    BY <1>20 DEF Drained, Released, queueVars, serverVars
  <2>2. \A u \in Tasks : /\ wst'[u] = "put" <=> wst[u] = "put"
                         /\ wst[u] = "no" => wst'[u] = "no"
    BY <2>1 DEF TypeOK
  <2> QED BY <2>1, <2>2, StillStep
<1>21. ASSUME NEW t \in Tasks, WriteFails(t) PROVE ExchangeInv'
  <2>1. /\ CloseStream(t, pc[t]) /\ wst[t] \notin {"no", "put"}
        /\ UNCHANGED <<h11, nreq, kareq, sstate, fin, idle>>
    BY <1>21 DEF WriteFails, SendKinds, endVars, serverVars
  <2>2. t \in Apps => Acting(t)
    BY <2>1 DEF ExchangeInv, Numbered, Acting, Settled
  <2> QED BY <2>1, <2>2, CloseStep
<1>22. CASE HandleClosed
  <2>1. /\ CloseStream(Reader, "join") /\ wst[Reader] = "no"
        /\ UNCHANGED <<h11, nreq, kareq, sstate, fin, idle>>
    BY <1>22 DEF HandleClosed, At, endVars, serverVars
  <2> QED BY <2>1, CloseStep, TaskSets
<1>23. ASSUME NEW r \in Apps, StreamEnded(r) PROVE ExchangeInv'
  <2>1. /\ CloseStream(r, "recycle") /\ wst[r] = "no" /\ pc[r] = "ended"
        /\ UNCHANGED <<h11, nreq, kareq, sstate, fin, idle>>
    BY <1>23 DEF StreamEnded, At, endVars, serverVars
  <2>2. Acting(r)
    BY <2>1 DEF Acting, Settled, Spawned
  <2> QED BY <2>1, <2>2, CloseStep, TaskSets
<1>24. ASSUME NEW r \in Apps, AfterLastChunk(r) \/ SendEmptyLast(r) PROVE ExchangeInv'
  <2>1. EndResponse(r) /\ Answering(r) /\ wst[r] = "no"
    BY <1>24 DEF AfterLastChunk, SendEmptyLast, MayRespond, At, Answering
  <2> QED BY <2>1, EndStep
<1>25. CASE BodyEvent
  BY <1>25, BodyStep
<1>26. CASE RequestEvent
  BY <1>26, RequestStep
<1>27. CASE CreateStream
  BY <1>27, CreateStep
<1>28. CASE RejectRequest
  BY <1>28, RejectRequestStep
<1>29. CASE RejectEnd
  BY <1>29, RejectEndStep
<1>30. CASE Rejected
  BY <1>30, RejectedStep
<1>31. CASE ProtocolError
  BY <1>31, ProtocolErrorStep
<1>32. CASE ErrorEnd
  BY <1>32, ErrorSentStep
<1>33. CASE Abort
  BY <1>33, AbortStep
<1>34. CASE IdleTimeout
  BY <1>34, IdleStep
<1>35. ASSUME NEW t \in Tasks, PutLate(t) PROVE ExchangeInv'
  BY <1>35, PutLateStep
<1>36. ASSUME NEW r \in Apps, SendStart(r) PROVE ExchangeInv'
  BY <1>36, SendStartStep
<1>37. ASSUME NEW r \in Apps, Started(r) PROVE ExchangeInv'
  BY <1>37, StartedStep
<1>38. ASSUME NEW r \in Apps, Return(r) PROVE ExchangeInv'
  BY <1>38, ReturnStep
<1>39. ASSUME NEW r \in Apps, Finish(r) PROVE ExchangeInv'
  BY <1>39, FinishStep
<1>40. ASSUME NEW r \in Apps, ErrorResponseEnd(r) PROVE ExchangeInv'
  BY <1>40, ErrorEndStep
<1>41. ASSUME NEW r \in Apps, ErrorResponseDone(r) PROVE ExchangeInv'
  BY <1>41, ErrorDoneStep
<1>42. ASSUME NEW r \in Apps, Recycle(r) PROVE ExchangeInv'
  BY <1>42, RecycleStep
<1>43. ASSUME NEW r \in Apps, CloseAfterResponse(r) PROVE ExchangeInv'
  BY <1>43, CloseAfterStep
<1>44. ASSUME NEW r \in Apps, ClosedAfterResponse(r) PROVE ExchangeInv'
  BY <1>44, ClosedAfterStep
<1>45. ASSUME NEW r \in Apps, NEW last \in BOOLEAN, SendBody(r, last) PROVE ExchangeInv'
  BY <1>45, SendBodyStep
<1> QED
  BY <1>1, <1>2, <1>3, <1>4, <1>5, <1>6, <1>7, <1>8, <1>9, <1>10, <1>11, <1>12,
     <1>13, <1>14, <1>15, <1>16, <1>17, <1>18, <1>19, <1>20, <1>21, <1>22, <1>23,
     <1>24, <1>25, <1>26, <1>27, <1>28, <1>29, <1>30, <1>31, <1>32, <1>33, <1>34,
     <1>35, <1>36, <1>37, <1>38, <1>39, <1>40, <1>41, <1>42, <1>43, <1>44, <1>45
  DEF Next, ReaderStep, StreamStep, AppStep, Environment, WriteStep, Tasks

----------------------------------------------------------------------------
(* What a step is to the applications.                                     *)

\* Nothing: none is opened, closed or told.
Keeps ==
  /\ told' = told
  /\ \A r \in Apps : /\ Spawned(r)' = Spawned(r)
                     /\ Spawned(r) => sclosed'[r] = sclosed[r]

\* One of them, c, is closed, or told, or both.
Leaves(c) ==
  /\ \A r \in Apps : Spawned(r)' = Spawned(r)
  /\ \A r \in Apps \ {c} : sclosed'[r] = sclosed[r]
  /\ Spawned(c) /\ sclosed'[c]
  /\ \/ ~sclosed[c] /\ told' = told
     \/ told[c] = 0 /\ told' = [told EXCEPT ![c] = 1]

LEMMA KeepsMove ==
  ASSUME TypeOK, NEW t \in Tasks, NEW l, Goto(t, l), l # "none",
         t \in Apps => pc[t] # "none", UNCHANGED <<sclosed, told>>
  PROVE  Keeps
<1>1. \A r \in Apps : pc'[r] = IF r = t THEN l ELSE pc[r]
  BY TaskSets DEF Goto, TypeOK
<1>2. \A r \in Apps : Spawned(r)' = Spawned(r)
  BY <1>1 DEF Spawned
<1> QED BY <1>2 DEF Keeps

LEMMA KeepsSend ==
  ASSUME TypeOK, NEW t \in Tasks, NEW h, NEW kind, NEW close, NEW next,
         SendH11On(h, t, kind, close, next), next # "none",
         t \in Apps => pc[t] # "none", UNCHANGED <<sclosed, told>>
  PROVE  Keeps
<1>1. \/ Goto(t, next)
      \/ Goto(t, Raised(t))
  BY DEF SendH11On
<1>2. Raised(t) # "none"
  BY DEF Raised
<1> QED BY <1>1, <1>2, KeepsMove

LEMMA CloseEffect ==
  ASSUME TypeOK, TellInv, NEW t \in Tasks, NEW next,
         t \in Apps => pc[t] # "none" /\ next # "none", CloseStream(t, next)
  PROVE  Keeps \/ \E c \in Apps : Leaves(c)
<1>1. Open(cur) => cur \in Apps /\ ~sclosed[cur] /\ told[cur] = 0
  BY OpenUntold
<1>2. \A r \in Apps : Spawned(r)' = Spawned(r)
  <2>1. Goto(t, next) \/ Goto(t, Raised(t))
    BY DEF CloseStream
  <2>2. \A r \in Apps : pc'[r] \in IF r = t THEN {next, Raised(t)} ELSE {pc[r]}
    BY <2>1, TaskSets DEF Goto, TypeOK
  <2>3. Raised(t) # "none"
    BY DEF Raised
  <2> QED BY <2>2, <2>3 DEF Spawned
<1>3. CASE UNCHANGED <<sclosed, queueVars>>
  BY <1>2, <1>3 DEF Keeps, queueVars
<1>4. CASE /\ Open(cur) /\ sclosed' = [sclosed EXCEPT ![cur] = TRUE]
           /\ pc[cur] = "none" /\ UNCHANGED queueVars
  <2>1. \A r \in Apps : Spawned(r) => sclosed'[r] = sclosed[r]
    BY <1>4 DEF Spawned, TypeOK
  <2> QED BY <1>2, <1>4, <2>1 DEF Keeps, queueVars
<1>5. CASE /\ Open(cur) /\ sclosed' = [sclosed EXCEPT ![cur] = TRUE]
           /\ pc[cur] # "none" /\ (PutDisconnect(cur) \/ UNCHANGED queueVars)
  <2>1. PICK c \in Apps : c = cur
    BY <1>1, <1>5
  <2>2. sclosed'[c] /\ \A r \in Apps \ {c} : sclosed'[r] = sclosed[r]
    BY <1>5, <2>1 DEF TypeOK
  <2>3. told' = told \/ told' = [told EXCEPT ![c] = 1]
    BY <1>1, <1>5, <2>1 DEF PutDisconnect, queueVars, TypeOK
  <2>4. Leaves(c)
    BY <1>1, <1>2, <1>5, <2>1, <2>2, <2>3 DEF Leaves, Spawned
  <2> QED BY <2>4
<1> QED BY <1>3, <1>4, <1>5 DEF CloseStream

LEMMA LateEffect ==
  ASSUME TypeInv, TellInv, ExchangeInv, NEW t \in Tasks, PutLate(t)
  PROVE  \E c \in Apps : Leaves(c)
<1>1. /\ tgt[t] \in Apps /\ told[tgt[t]] = 0 /\ sclosed[tgt[t]]
      /\ Spawned(tgt[t])
  BY DEF PutLate, TypeInv, PutInv, TellInv, ExchangeInv, Waiting
<1>2. PICK c \in Apps : c = tgt[t]
  BY <1>1
<1>3. told' = [told EXCEPT ![c] = 1]
  BY <1>1, <1>2 DEF PutLate, PutDisconnect, TypeInv, TypeOK
<1>4. UNCHANGED <<pc, sclosed>>
  BY DEF PutLate
<1>5. Leaves(c)
  BY <1>1, <1>2, <1>3, <1>4 DEF Leaves, Spawned
<1> QED BY <1>5

LEMMA Effect ==
  ASSUME TypeInv, TellInv, ExchangeInv, [Next]_vars
  PROVE  Keeps \/ CreateStream \/ \E c \in Apps : Leaves(c)
<1> DEFINE Done == Keeps \/ CreateStream \/ \E c \in Apps : Leaves(c)
<1> USE DEF TypeInv
<1>1. CASE ReadData
  <2>1. Goto(Reader, "loop") /\ UNCHANGED <<sclosed, told>>
    BY <1>1 DEF ReadData, streamVars, queueVars
  <2> QED BY <2>1, KeepsMove, TaskSets
<1>2. CASE ReadEof
  <2>1. Goto(Reader, "loop") /\ UNCHANGED <<sclosed, told>>
    BY <1>2 DEF ReadEof, streamVars, queueVars
  <2> QED BY <2>1, KeepsMove, TaskSets
<1>3. CASE ReadFails
  <2>1. Goto(Reader, "closed") /\ UNCHANGED <<sclosed, told>>
    BY <1>3 DEF ReadFails, streamVars, queueVars
  <2> QED BY <2>1, KeepsMove, TaskSets
<1>4. CASE Paused
  <2>1. Goto(Reader, "paused") /\ UNCHANGED <<sclosed, told>>
    BY <1>4 DEF Paused, streamVars, queueVars
  <2> QED BY <2>1, KeepsMove, TaskSets
<1>5. CASE Resume
  <2>1. Goto(Reader, "loop") /\ UNCHANGED <<sclosed, told>>
    BY <1>5 DEF Resume, streamVars, queueVars
  <2> QED BY <2>1, KeepsMove, TaskSets
<1>6. CASE PutBody
  <2>1. Goto(Reader, "loop") /\ UNCHANGED <<sclosed, told>>
    BY <1>6 DEF PutBody, streamVars, queueVars
  <2> QED BY <2>1, KeepsMove, TaskSets
<1>7. CASE ReaderCloses
  <2>1. Goto(Reader, "waitClosed") /\ UNCHANGED <<sclosed, told>>
    BY <1>7 DEF ReaderCloses, streamVars, queueVars
  <2> QED BY <2>1, KeepsMove, TaskSets
<1>8. CASE ReaderClosed
  <2>1. Goto(Reader, NextRead) /\ UNCHANGED <<sclosed, told>>
    BY <1>8 DEF ReaderClosed, streamVars, queueVars
  <2> QED BY <2>1, KeepsMove, TaskSets DEF NextRead
<1>9. CASE Join
  <2>1. Goto(Reader, "finalClose") /\ UNCHANGED <<sclosed, told>>
    BY <1>9 DEF Join, streamVars, queueVars
  <2> QED BY <2>1, KeepsMove, TaskSets
<1>10. CASE FinalClose
  <2>1. Goto(Reader, "finalWait") /\ UNCHANGED <<sclosed, told>>
    BY <1>10 DEF FinalClose, streamVars, queueVars
  <2> QED BY <2>1, KeepsMove, TaskSets
<1>11. CASE FinalClosed
  <2>1. Goto(Reader, "ended") /\ UNCHANGED <<sclosed, told>>
    BY <1>11 DEF FinalClosed, streamVars, queueVars
  <2> QED BY <2>1, KeepsMove, TaskSets
<1>12. CASE NothingMore
  <2>1. Goto(Reader, NextRead) /\ UNCHANGED <<sclosed, told>>
    BY <1>12 DEF NothingMore, streamVars, queueVars
  <2> QED BY <2>1, KeepsMove, TaskSets DEF NextRead
<1>13. CASE RequestEvent
  <2>1. Goto(Reader, IF Head(buf) = "unknown" THEN "reject" ELSE "create") /\ UNCHANGED <<sclosed, told>>
    BY <1>13 DEF RequestEvent, streamVars, queueVars
  <2> QED BY <2>1, KeepsMove, TaskSets
<1>14. CASE BodyEvent
  <2>1. /\ Goto(Reader, NextRead) \/ Goto(Reader, "loop") \/ Goto(Reader, "putBody")
        /\ UNCHANGED <<sclosed, told>> /\ NextRead # "none"
    BY <1>14 DEF BodyEvent, streamVars, NextRead
  <2> QED BY <2>1, KeepsMove, TaskSets
<1>15. CASE Rejected
  <2>1. ~Spawned(nreq) /\ \A r \in Apps \ {nreq} : sclosed'[r] = sclosed[r]
    BY <1>15 DEF Rejected, At, ExchangeInv, Errors, Rejecting, TypeOK
  <2>2. \A r \in Apps : pc'[r] = pc[r]
    BY <1>15, TaskSets DEF Rejected, Goto, TypeOK
  <2> QED BY <1>15, <2>1, <2>2 DEF Rejected, Keeps, Spawned, queueVars
<1>16. CASE RejectRequest
  <2>1. SendH11On(h11, Reader, "head", TRUE, "rejectEnd") /\ UNCHANGED <<sclosed, told>>
    BY <1>16 DEF RejectRequest, SendH11, streamVars, queueVars
  <2> QED BY <2>1, KeepsSend, TaskSets
<1>17. CASE RejectEnd
  <2>1. SendH11On(h11, Reader, "end", FALSE, "rejected") /\ UNCHANGED <<sclosed, told>>
    BY <1>17 DEF RejectEnd, SendH11, streamVars, queueVars
  <2> QED BY <2>1, KeepsSend, TaskSets
<1>18. CASE ErrorEnd
  <2>1. SendH11On(h11, Reader, "end", FALSE, "close") /\ UNCHANGED <<sclosed, told>>
    BY <1>18 DEF ErrorEnd, SendH11, streamVars, queueVars
  <2> QED BY <2>1, KeepsSend, TaskSets
<1>19. CASE ProtocolError
  <2>1. /\ \/ SendH11On(AfterEvent(h11, "error", ""), Reader, "head", TRUE, "errEnd")
           \/ Goto(Reader, "close")
        /\ UNCHANGED <<sclosed, told>>
    BY <1>19 DEF ProtocolError, streamVars, queueVars
  <2> QED BY <2>1, KeepsSend, KeepsMove, TaskSets
<1>20. CASE Abort
  <2>1. \A r \in Apps : pc'[r] = Cancelled(r)
    BY <1>20, TaskSets DEF Abort
  <2>2. \A r \in Apps : Cancelled(r) = "none" <=> pc[r] = "none"
    BY TaskSets DEF Cancelled, Back
  <2>3. UNCHANGED <<sclosed, told>>
    BY <1>20 DEF Abort, streamVars, queueVars
  <2> QED BY <2>1, <2>2, <2>3 DEF Keeps, Spawned
<1>21. CASE IdleTimeout
  <2>1. ~Open(cur)
    BY <1>21 DEF IdleTimeout, ExchangeInv, Idling, Open
  <2> QED BY <1>21, <2>1 DEF IdleTimeout, Keeps, Spawned, taskVars, queueVars
<1>22. CASE Terminate
  BY <1>22 DEF Terminate, Keeps, Spawned, streamVars, queueVars, taskVars
<1>23. CASE ClientSends
  BY <1>23 DEF ClientSends, Keeps, Spawned, streamVars, queueVars, taskVars
<1>24. CASE ClientEof
  BY <1>24 DEF ClientEof, Keeps, Spawned, streamVars, queueVars, taskVars
<1>25. CASE ConnectionLost
  BY <1>25 DEF ConnectionLost, Keeps, Spawned, streamVars, queueVars, taskVars
<1>26. CASE UNCHANGED vars
  BY <1>26 DEF vars, Keeps, Spawned, streamVars, queueVars, taskVars
<1>27. ASSUME NEW t \in Tasks, Write(t) PROVE Done
  BY <1>27 DEF Write, Keeps, Spawned, streamVars, queueVars
<1>28. ASSUME NEW t \in Tasks, Drained(t) PROVE Done
  BY <1>28 DEF Drained, Keeps, Spawned, streamVars, queueVars
<1>29. ASSUME NEW t \in Tasks, PutLate(t) PROVE Done
  BY <1>29, LateEffect
<1>30. ASSUME NEW t \in Tasks, WriteFails(t) PROVE Done
  <2>1. CloseStream(t, pc[t]) /\ wst[t] # "no"
    BY <1>30 DEF WriteFails, SendKinds
  <2>2. t \in Apps => pc[t] # "none"
    BY <2>1 DEF ExchangeInv, Numbered, Spawned
  <2> QED BY <2>1, <2>2, CloseEffect
<1>31. CASE HandleClosed
  <2>1. CloseStream(Reader, "join")
    BY <1>31 DEF HandleClosed
  <2> QED BY <2>1, CloseEffect, TaskSets
<1>32. ASSUME NEW r \in Apps, StreamEnded(r) PROVE Done
  <2>1. CloseStream(r, "recycle") /\ pc[r] # "none"
    BY <1>32 DEF StreamEnded, At
  <2> QED BY <2>1, CloseEffect, TaskSets
<1>33. ASSUME NEW r \in Apps, Receive(r) PROVE Done
  BY <1>33 DEF Receive, Keeps, Spawned, streamVars, taskVars
<1>34. ASSUME NEW r \in Apps, Started(r) PROVE Done
  <2>1. Goto(r, "run") /\ pc[r] # "none" /\ UNCHANGED <<sclosed, told>>
    BY <1>34 DEF Started, At, streamVars, queueVars
  <2> QED BY <2>1, KeepsMove, TaskSets
<1>35. ASSUME NEW r \in Apps, ErrorResponseDone(r) PROVE Done
  <2>1. Goto(r, "ended") /\ pc[r] # "none" /\ UNCHANGED <<sclosed, told>>
    BY <1>35 DEF ErrorResponseDone, At, streamVars, queueVars
  <2> QED BY <2>1, KeepsMove, TaskSets
<1>36. ASSUME NEW r \in Apps, Return(r) PROVE Done
  <2>1. Goto(r, "finish") /\ pc[r] # "none" /\ UNCHANGED <<sclosed, told>>
    BY <1>36 DEF Return, At, streamVars, queueVars
  <2> QED BY <2>1, KeepsMove, TaskSets
<1>37. ASSUME NEW r \in Apps, CloseAfterResponse(r) PROVE Done
  <2>1. Goto(r, "waitClosed") /\ pc[r] # "none" /\ UNCHANGED <<sclosed, told>>
    BY <1>37 DEF CloseAfterResponse, At, streamVars, queueVars
  <2> QED BY <2>1, KeepsMove, TaskSets
<1>38. ASSUME NEW r \in Apps, Recycle(r) PROVE Done
  <2>1. Goto(r, Back(r)) /\ pc[r] # "none" /\ UNCHANGED <<sclosed, told>>
    BY <1>38 DEF Recycle, At, streamVars, queueVars
  <2> QED BY <2>1, KeepsMove, TaskSets DEF Back
<1>39. ASSUME NEW r \in Apps, ClosedAfterResponse(r) PROVE Done
  <2>1. Goto(r, Back(r)) /\ pc[r] # "none" /\ UNCHANGED <<sclosed, told>>
    BY <1>39 DEF ClosedAfterResponse, At, streamVars, queueVars
  <2> QED BY <2>1, KeepsMove, TaskSets DEF Back
<1>40. ASSUME NEW r \in Apps, SendStart(r) PROVE Done
  <2>1. /\ SendH11On(h11, r, "head", AtKeepAliveLimit, "started")
        /\ pc[r] # "none" /\ UNCHANGED <<sclosed, told>>
    BY <1>40 DEF SendStart, MayStart, SendH11, At, streamVars, queueVars
  <2> QED BY <2>1, KeepsSend, TaskSets
<1>41. ASSUME NEW r \in Apps, ErrorResponseEnd(r) PROVE Done
  <2>1. /\ SendH11On(h11, r, "end", FALSE, "errDone")
        /\ pc[r] # "none" /\ UNCHANGED <<sclosed, told>>
    BY <1>41 DEF ErrorResponseEnd, SendH11, At, streamVars, queueVars
  <2> QED BY <2>1, KeepsSend, TaskSets
<1>42. ASSUME NEW r \in Apps, AfterLastChunk(r) \/ SendEmptyLast(r) PROVE Done
  <2>1. /\ SendH11On(h11, r, "end", FALSE, "ended")
        /\ pc[r] # "none" /\ UNCHANGED <<sclosed, told>>
    BY <1>42 DEF AfterLastChunk, SendEmptyLast, MayRespond, EndResponse, SendH11, At, streamVars, queueVars
  <2> QED BY <2>1, KeepsSend, TaskSets
<1>43. ASSUME NEW r \in Apps, NEW last \in BOOLEAN, SendBody(r, last) PROVE Done
  <2>1. /\ SendH11On(h11, r, "data", FALSE, IF last THEN "bodyEnd" ELSE "run")
        /\ pc[r] # "none" /\ UNCHANGED <<sclosed, told>>
    BY <1>43 DEF SendBody, MayRespond, SendH11, At, streamVars, queueVars
  <2> QED BY <2>1, KeepsSend, TaskSets
<1>44. ASSUME NEW r \in Apps, Finish(r) PROVE Done
  <2>1. /\ \/ Goto(r, "done") \/ Goto(r, "ended")
           \/ SendH11On(h11, r, "head", TRUE, "errEnd")
        /\ pc[r] # "none" /\ UNCHANGED <<sclosed, told>>
    BY <1>44 DEF Finish, SendH11, At, streamVars, queueVars
  <2> QED BY <2>1, KeepsMove, KeepsSend, TaskSets
<1> QED
  BY <1>1, <1>2, <1>3, <1>4, <1>5, <1>6, <1>7, <1>8, <1>9, <1>10, <1>11, <1>12,
     <1>13, <1>14, <1>15, <1>16, <1>17, <1>18, <1>19, <1>20, <1>21, <1>22, <1>23,
     <1>24, <1>25, <1>26, <1>27, <1>28, <1>29, <1>30, <1>31, <1>32, <1>33, <1>34,
     <1>35, <1>36, <1>37, <1>38, <1>39, <1>40, <1>41, <1>42, <1>43, <1>44
  DEF Next, ReaderStep, StreamStep, AppStep, Environment, WriteStep, Tasks


----------------------------------------------------------------------------
(* The requests that are counted for the keep alive limit.                 *)

Running == {r \in Apps : Spawned(r)}

\* Every application that runs has been counted.
Counted == IsFiniteSet(Running) /\ Cardinality(Running) <= kareq

LEMMA CountGrows ==
  ASSUME TypeOK, [Next]_vars
  PROVE  IF CreateStream THEN kareq' = kareq + 1 ELSE kareq' \in {kareq, kareq + 1}
<1>1. CASE CreateStream
  BY <1>1 DEF CreateStream
<1>2. CASE Rejected
  BY <1>2 DEF Rejected, CreateStream, At
<1>3. ASSUME ~CreateStream, ~Rejected PROVE kareq' = kareq
  BY <1>3 DEF Next, ReaderStep, StreamStep, AppStep, Environment, WriteStep, vars,
    streamVars, ReadData, ReadEof, ReadFails, RequestEvent, RejectRequest,
    RejectEnd, Paused, Resume, NothingMore, BodyEvent, PutBody, ProtocolError,
    ErrorEnd, ReaderCloses, ReaderClosed, HandleClosed, Join, Abort, FinalClose,
    FinalClosed, Write, Drained, WriteFails, PutLate, IdleTimeout, Terminate,
    ClientSends, ClientEof, ConnectionLost, Started, AfterLastChunk, EndResponse,
    Finish, ErrorResponseEnd, ErrorResponseDone, StreamEnded, Recycle,
    CloseAfterResponse, ClosedAfterResponse, Receive, SendStart, SendBody,
    SendEmptyLast, Return
<1> QED BY <1>1, <1>2, <1>3

LEMMA CountStep ==
  ASSUME TypeInv, TypeInv', TellInv, ExchangeInv, Counted, [Next]_vars
  PROVE  Counted'
<1>1. kareq \in Nat /\ kareq' \in Nat
  BY DEF TypeInv, TypeOK
<1>2. Cardinality(Running) \in Nat
  BY FS_CardinalityType DEF Counted
<1>3. CASE CreateStream
  <2>1. kareq' = kareq + 1
    BY <1>3 DEF CreateStream
  <2>2. PICK c \in Apps : c = nreq + 1
    BY <1>3 DEF CreateStream, At, TypeInv, TypeOK, CreateInv, Apps
  <2>3. ~Spawned(c)
    BY <2>2 DEF ExchangeInv, Numbered, TypeInv, TypeOK, Apps
  <2>4. \A r \in Apps : pc'[r] = IF r = c THEN "run" ELSE pc[r]
    BY <1>3, <2>2, TaskSets DEF CreateStream, TypeInv, TypeOK
  <2>5. Running' = Running \cup {c}
    BY <2>4 DEF Running, Spawned
  <2>6. IsFiniteSet(Running \cup {c}) /\ Cardinality(Running \cup {c}) = Cardinality(Running) + 1
    BY <2>3, FS_AddElement DEF Counted, Running
  <2> QED BY <1>1, <1>2, <2>1, <2>5, <2>6 DEF Counted
<1>4. CASE ~CreateStream
  <2>1. \A r \in Apps : Spawned(r)' = Spawned(r)
    BY <1>4, Effect DEF Keeps, Leaves
  <2>2. Running' = Running
    BY <2>1 DEF Running
  <2>3. kareq' >= kareq
    BY <1>1, CountGrows DEF TypeInv
  <2> QED BY <1>1, <1>2, <2>2, <2>3 DEF Counted
<1> QED BY <1>3, <1>4

----------------------------------------------------------------------------
(* The invariant of the specification.                                     *)

LEMMA ExchangeInit == Init => ExchangeInv /\ Counted
<1> SUFFICES ASSUME Init PROVE ExchangeInv /\ Counted
  OBVIOUS
<1>1. /\ \A r \in Apps : ~Spawned(r) /\ ~sclosed[r] /\ sstate[r] = "REQUEST"
      /\ \A t \in Tasks : wst[t] = "no"
      /\ pc[Reader] = "read" /\ cur = 0 /\ nreq = 0 /\ kareq = 0 /\ h11 = NewConnection
  BY TaskSets DEF Init, Spawned
<1>2. Numbered /\ Past /\ Fresh /\ Current /\ Waiting
  BY <1>1, TaskSets DEF Numbered, Past, Acting, Fresh, Creating, Current, Waiting
<1>3. Recycling /\ Legal /\ Errors /\ Failures
  BY <1>1 DEF Recycling, Legal, Unanswered, Answering, Errors, Rejecting, Failures,
     NewConnection, Spawned
<1>4. Telling /\ Limited /\ Idling
  BY <1>1 DEF Telling, Limited, BelowLimit, Idling, Creating, Rejecting, NewConnection
<1>5. Counted
  <2>1. Running = {}
    BY <1>1 DEF Running
  <2> QED BY <1>1, <2>1, FS_EmptySet DEF Counted
<1> QED BY <1>2, <1>3, <1>4, <1>5 DEF ExchangeInv

AllInv == TypeInv /\ TellInv /\ ExchangeInv /\ Counted

LEMMA AllStep == AllInv /\ [Next]_vars => AllInv'
<1> SUFFICES ASSUME AllInv, [Next]_vars PROVE AllInv'
  OBVIOUS
<1>1. TypeInv'
  BY TypeStep DEF AllInv, TypeInv
<1>2. TellInv'
  BY TellStep DEF AllInv, TypeInv
<1>3. ExchangeInv'
  BY <1>1, ExchangeStep DEF AllInv
<1>4. Counted'
  BY <1>1, CountStep DEF AllInv
<1> QED BY <1>1, <1>2, <1>3, <1>4 DEF AllInv

LEMMA AllInvariant == Spec => []AllInv
<1>1. Init => AllInv
  BY TypeInit, TellInit, ExchangeInit DEF AllInv
<1> QED BY <1>1, AllStep, PTL DEF Spec

----------------------------------------------------------------------------
(* What follows.                                                           *)

\* No application loses its http.disconnect, whatever closes its stream and
\* however full its queue is (H11Protocol._close_stream, HTTPStream.handle).
THEOREM NotLost == Spec => []DisconnectNotLost
<1>1. AllInv => DisconnectNotLost
  BY DEF AllInv, ExchangeInv, Current, Telling, Told, DisconnectNotLost
<1> QED BY <1>1, AllInvariant, PTL

\* The idle timer never runs during a request, and no more applications are
\* run on a connection than keep_alive_max_requests allows (stream_send,
\* _create_stream, TCPServer.protocol_send(Updated)).
THEOREM Mitigated == Spec => []Mitigations
<1>1. AllInv => Mitigations
  <2> SUFFICES ASSUME AllInv PROVE Mitigations
    OBVIOUS
  <2>1. IdleBetweenRequests
    BY DEF AllInv, ExchangeInv, Idling, IdleBetweenRequests
  <2>2. KeepAliveLimit
    <3>1. IsFiniteSet(Running) /\ Cardinality(Running) <= kareq
      BY DEF AllInv, Counted
    <3>2. Cardinality(Running) \in Nat
      BY <3>1, FS_CardinalityType
    <3>3. kareq \in Nat /\ (kareq <= 1 \/ kareq <= KeepAliveMax)
      BY DEF AllInv, TypeInv, TypeOK, ExchangeInv, Limited
    <3>4. Cardinality(Running) <= IF KeepAliveMax = 0 THEN 1 ELSE KeepAliveMax
      BY <3>1, <3>2, <3>3, H11Assumption
    <3> QED BY <3>4 DEF KeepAliveLimit, Running
  <2> QED BY <2>1, <2>2 DEF Mitigations
<1> QED BY <1>1, AllInvariant, PTL

\* While the client keeps to HTTP/1, h11 refuses nothing that the connection
\* sends (H11Protocol._send_h11_event).
THEOREM Accepted == Spec => []LegalSends
<1>1. AllInv => LegalSends
  BY DEF AllInv, ExchangeInv, Legal, LegalSends
<1> QED BY <1>1, AllInvariant, PTL

----------------------------------------------------------------------------
(* The connection implements Exchange.                                     *)

LEMMA PhaseIs ==
  ASSUME NEW r \in Apps
  PROVE  [q \in Apps |-> Phase(q)][r] = Phase(r)
OBVIOUS

LEMMA PromisedStep ==
  ASSUME TypeInv, TypeInv', TellInv, ExchangeInv, [Next]_vars
  PROVE  [Promise!ExchangeNext]_(Promise!exchangeVars)
<1> DEFINE ph == [r \in Apps |-> Phase(r)]
<1>1. CASE Keeps
  <2>1. \A r \in Apps : Phase(r)' = Phase(r)
    BY <1>1 DEF Keeps, Phase
  <2>2. ph' = ph
    BY <2>1
  <2> QED BY <1>1, <2>2 DEF Keeps, Promise!exchangeVars
<1>2. CASE CreateStream
  <2>1. PICK c \in Apps : c = nreq + 1
    BY <1>2 DEF CreateStream, At, TypeInv, TypeOK, CreateInv, Apps
  <2>2. /\ \A r \in Apps : pc'[r] = IF r = c THEN "run" ELSE pc[r]
        /\ sclosed' = sclosed /\ told' = told
    BY <1>2, <2>1, TaskSets DEF CreateStream, TypeInv, TypeOK, queueVars
  <2>3. \A r \in Apps : r >= c => ~Spawned(r) /\ ~sclosed[r]
    BY <2>1 DEF ExchangeInv, Numbered, TypeInv, TypeOK, Apps
  <2>4. \A r \in Apps : Phase(r) # "open"
    BY <1>2 DEF Phase, ExchangeInv, Fresh, Creating, Acting, Settled, CreateStream, At
  <2>5. \A r \in Apps : r >= c => Phase(r) = "waiting"
    BY <2>3 DEF Phase
  <2>6. \A r \in Apps : Phase(r)' = IF r = c THEN "open" ELSE Phase(r)
    BY <2>2, <2>3 DEF Phase, Spawned, Apps
  <2>7. ph' = [ph EXCEPT ![c] = "open"]
    BY <2>6
  <2>8. Promise!OpenApp(c)
    BY <2>1, <2>2, <2>4, <2>5, <2>7 DEF Promise!OpenApp, Apps
  <2> QED BY <2>8 DEF Promise!ExchangeNext
<1>3. ASSUME NEW c \in Apps, Leaves(c)
      PROVE  [Promise!ExchangeNext]_(Promise!exchangeVars)
  <2>1. \A r \in Apps : Phase(r)' = IF r = c THEN "closed" ELSE Phase(r)
    BY <1>3 DEF Leaves, Phase
  <2>2. ph' = [ph EXCEPT ![c] = "closed"]
    BY <2>1
  <2>3. CASE ~sclosed[c] /\ told' = told
    <3>1. ph[c] = "open"
      BY <1>3, <2>3 DEF Leaves, Phase
    <3>2. Promise!CloseApp(c)
      BY <2>2, <2>3, <3>1 DEF Promise!CloseApp
    <3> QED BY <3>2 DEF Promise!ExchangeNext
  <2>4. CASE told[c] = 0 /\ told' = [told EXCEPT ![c] = 1]
    <3>1. ph[c] \in {"open", "closed"}
      BY <1>3, <2>4 DEF Leaves, Phase
    <3>2. Promise!TellApp(c)
      BY <2>2, <2>4, <3>1 DEF Promise!TellApp
    <3> QED BY <3>2 DEF Promise!ExchangeNext
  <2> QED BY <1>3, <2>3, <2>4 DEF Leaves
<1> QED BY <1>1, <1>2, <1>3, Effect

\* The exchanges of a connection follow one another: an application is run
\* once every earlier one is closed, it is closed once and told once of it,
\* in the step that closes its stream or later (H11Protocol, HTTPStream).
THEOREM Exchanges == Spec => ImplementsExchange
<1>1. Init => Promise!ExchangeInit
  <2>1. Init => \A r \in Apps : Phase(r) = "waiting"
    BY TaskSets DEF Init, Phase, Spawned
  <2> QED BY <2>1 DEF Init, Promise!ExchangeInit
<1>2. AllInv /\ AllInv' /\ [Next]_vars => [Promise!ExchangeNext]_(Promise!exchangeVars)
  BY PromisedStep DEF AllInv
<1> QED BY <1>1, <1>2, AllInvariant, PTL DEF Spec, ImplementsExchange, Promise!ExchangeSpec

----------------------------------------------------------------------------
(* The wire of a connection: what the client sees is a sequence of whole   *)
(* responses, one for each request and in their order.                     *)

\* A task that is in protocol_send: it has send_lock.
InWrite(t) == wst[t] \in SendKinds \cup {"drain"}

\* The last event written, and the last that h11 has taken: nothing is like
\* a response that is over.
Written == IF wire = <<>> THEN [kind |-> "end", by |-> Reader] ELSE wire[Len(wire)]
Pending == \E t \in Tasks : lockq = <<t>> /\ wst[t] \in SendKinds
Latest ==
  IF Pending THEN [kind |-> wst[Head(lockq)], by |-> Head(lockq)] ELSE Written

\* The responses that have begun on the wire, and for h11.
Seen == Cardinality(Heads(Len(wire)))
Begun == Seen + IF Pending /\ Latest.kind = "head" THEN 1 ELSE 0

\* What task t sends next continues a response.
Continues(t) ==
  \/ t \in Apps /\ Answering(t)
  \/ t = Reader /\ pc[t] \in {"rejectEnd", "errEnd"}

\* One task at a time is in protocol_send: nobody waits for send_lock.
Alone ==
  /\ lockq # <<>> => \E t \in Tasks : lockq = <<t>>
  /\ \A t \in Tasks : InWrite(t) <=> lockq = <<t>>

\* The event that is not yet written fits the one that is.
Fits ==
  Pending => IF Latest.kind = "head" THEN Written.kind = "end"
             ELSE Written.kind # "end" /\ Written.by = Latest.by

\* Between two responses nobody writes, and nobody has one to go on with; nor
\* to begin with, before the next request.
Between ==
  /\ h11.ours \in {"IDLE", "SEND_RESPONSE"} =>
       /\ Latest.kind = "end" /\ lockq = <<>>
       /\ \A t \in Tasks : ~Continues(t)
  /\ h11.ours = "IDLE" => \A r \in Apps : ~Unanswered(r)

\* During one, its owner alone writes and goes on with it.
During ==
  h11.ours = "SEND_BODY" =>
    /\ Latest.kind # "end" /\ lockq \in {<<>>, <<Latest.by>>}
    /\ \A t \in Tasks : Continues(t) => t = Latest.by

\* After one, only its owner may still be writing.
After ==
  h11.ours = "DONE" =>
    /\ Latest.kind = "end" /\ Latest.by = nreq /\ lockq \in {<<>>, <<nreq>>}

\* The responses are counted by the requests.
Answered ==
  /\ h11.ours = "IDLE" \/ Creating => Begun = nreq
  /\ h11.ours = "SEND_RESPONSE" /\ ~Creating => Begun + 1 = nreq
  /\ h11.ours = "SEND_BODY" /\ Latest.by # Reader => Begun = nreq /\ Latest.by = nreq
  /\ h11.ours = "DONE" => Begun = nreq
  /\ Pending /\ Latest.by # Reader => Latest.by = Begun

\* The two sides begin a cycle together.
Together == h11.theirs = "IDLE" => h11.ours = "IDLE"

\* No exception leaves a task while the connection is open.
Calm ==
  /\ \A t \in Tasks : pc[t] # "raised"
  /\ cur # 0 /\ ~Spawned(cur) /\ ~sclosed[cur] => Rejecting

Orderly ==
  Alone /\ Fits /\ Between /\ During /\ After /\ Answered /\ Together /\ Calm

\* Once the transport is closing, nothing more is written.
WireInv == WellFramed /\ ResponseMatchesRequest /\ (net = "open" => Orderly)

----------------------------------------------------------------------------
(* Lengths and counts.                                                     *)

LEMMA HeadsFinite ==
  ASSUME NEW i \in Nat
  PROVE  IsFiniteSet(Heads(i)) /\ Cardinality(Heads(i)) \in Nat
<1>1. IsFiniteSet(1 .. i)
  BY FS_Interval
<1>2. Heads(i) \subseteq 1 .. i
  BY DEF Heads
<1> QED BY <1>1, <1>2, FS_Subset, FS_CardinalityType

\* One more event on the wire.
LEMMA HeadsAppend ==
  ASSUME wire \in Seq([kind : SendKinds, by : Tasks]),
         NEW e \in [kind : SendKinds, by : Tasks], wire' = Append(wire, e)
  PROVE  /\ Len(wire) \in Nat /\ Len(wire') = Len(wire) + 1
         /\ wire'[Len(wire) + 1] = e
         /\ \A i \in 1 .. Len(wire) : wire'[i] = wire[i] /\ Heads(i)' = Heads(i)
         /\ Seen' = Seen + IF e.kind = "head" THEN 1 ELSE 0
<1> PICK n \in Nat : n = Len(wire)
  OBVIOUS
<1>1. n \in Nat /\ Len(wire') = n + 1
  OBVIOUS
<1>2. \A i \in 1 .. n : wire'[i] = wire[i]
  OBVIOUS
<1>3. wire'[n + 1] = e
  OBVIOUS
<1>4. \A i \in 1 .. n : Heads(i)' = Heads(i)
  BY <1>1, <1>2 DEF Heads
<1>5. Heads(n + 1)' = IF e.kind = "head" THEN Heads(n) \cup {n + 1} ELSE Heads(n)
  BY <1>1, <1>2, <1>3 DEF Heads
<1>6. IsFiniteSet(Heads(n)) /\ Cardinality(Heads(n)) \in Nat /\ n + 1 \notin Heads(n)
  <2>1. n + 1 \notin Heads(n)
    BY DEF Heads
  <2> QED BY <2>1, HeadsFinite
<1>7. Cardinality(Heads(n) \cup {n + 1}) = Cardinality(Heads(n)) + 1
  BY <1>6, FS_AddElement
<1>8. Cardinality(Heads(n + 1)') = Cardinality(Heads(n)) + IF e.kind = "head" THEN 1 ELSE 0
  BY <1>5, <1>6, <1>7
<1>9. Seen' = Cardinality(Heads(n + 1)')
  BY <1>1 DEF Seen, Heads
<1> QED BY <1>1, <1>2, <1>3, <1>4, <1>8, <1>9 DEF Seen

LEMMA BegunNat == ASSUME TypeOK PROVE Seen \in Nat /\ Begun \in Nat
<1>1. Len(wire) \in Nat
  BY DEF TypeOK
<1> QED BY <1>1, HeadsFinite DEF Begun, Seen

\* The event that h11 took last is a task's, of a kind that is sent.
LEMMA LatestType == ASSUME TypeOK PROVE Latest.kind \in SendKinds /\ Latest.by \in Tasks
<1>1. Pending => Latest.kind \in SendKinds /\ Latest.by \in Tasks
  BY DEF Pending, Latest
<1>2. wire # <<>> => wire[Len(wire)] \in [kind : SendKinds, by : Tasks]
  <2>1. wire \in Seq([kind : SendKinds, by : Tasks])
    BY DEF TypeOK
  <2>2. wire # <<>> => Len(wire) \in 1 .. Len(wire)
    BY <2>1, EmptySeq
  <2> QED BY <2>1, <2>2, ElementOfSeq
<1>3. ~Pending => Latest.kind \in SendKinds /\ Latest.by \in Tasks
  BY <1>2, TaskSets DEF Latest, Written, SendKinds
<1> QED BY <1>1, <1>3

----------------------------------------------------------------------------
(* Steps that send and write nothing.                                      *)

LEMMA LatestSame ==
  ASSUME UNCHANGED <<wire, lockq>>,
         \A t \in Tasks : lockq = <<t>> => wst'[t] = wst[t]
  PROVE  /\ (Pending' <=> Pending) /\ Latest' = Latest
         /\ Written' = Written /\ Begun' = Begun
<1>1. Written' = Written
  BY DEF Written
<1>2. Pending' <=> Pending
  BY DEF Pending
<1>3. Latest' = Latest
  <2>1. CASE Pending
    <3>1. PICK t \in Tasks : lockq = <<t>> /\ wst[t] \in SendKinds
      BY <2>1 DEF Pending
    <3>2. Head(lockq) = t /\ wst'[t] = wst[t] /\ lockq' = lockq
      BY <3>1
    <3> QED BY <1>2, <2>1, <3>2 DEF Latest
  <2>2. CASE ~Pending
    BY <1>1, <1>2, <2>2 DEF Latest
  <2> QED BY <2>1, <2>2
<1>4. Seen' = Seen
  BY DEF Seen, Heads
<1> QED BY <1>1, <1>2, <1>3, <1>4 DEF Begun

\* h11 and the tasks go on, if they do, without a new request or response.
Onward ==
  /\ h11'.ours = h11.ours \/ h11'.ours \in {"MUST_CLOSE", "ERROR"}
  /\ h11'.theirs = "IDLE" => h11'.ours = h11.ours /\ h11.theirs = "IDLE"
  /\ \A t \in Tasks : Continues(t)' => Continues(t)
  /\ \A r \in Apps : Unanswered(r)' => Unanswered(r)
  /\ Creating' => Creating
  /\ h11'.ours = "SEND_RESPONSE" /\ ~Creating' => ~Creating

LEMMA OnwardStep ==
  ASSUME TypeOK, Orderly, Onward, Calm', UNCHANGED <<wire, lockq, nreq>>,
         Creating => h11'.ours = h11.ours,
         \A t \in Tasks : \/ wst'[t] = wst[t]
                          \/ ~InWrite(t) /\ wst'[t] \notin SendKinds \cup {"drain"}
  PROVE  Orderly'
<1>1. \A t \in Tasks : InWrite(t)' <=> InWrite(t)
  BY DEF InWrite
<1>2. /\ (Pending' <=> Pending) /\ Latest' = Latest
      /\ Written' = Written /\ Begun' = Begun
  BY LatestSame DEF Orderly, Alone, InWrite
<1>3. Alone'
  BY <1>1 DEF Orderly, Alone
<1>4. Fits'
  BY <1>2 DEF Orderly, Fits
<1>5. Between' /\ During' /\ After'
  BY <1>2 DEF Orderly, Between, During, After, Onward
<1>6. Answered'
  BY <1>2 DEF Orderly, Answered, Onward
<1>7. Together'
  BY DEF Orderly, Together, Onward
<1> QED BY <1>3, <1>4, <1>5, <1>6, <1>7 DEF Orderly

\* The places of an application where no response is begun or continued.
Quietly(r, l) ==
  /\ l \notin {"started", "errEnd", "bodyEnd", "raised", "none"}
  /\ l = "run" => sstate[r] = "CLOSED"
  /\ l = "finish" => pc[r] = "run"

LEMMA MoveOnward ==
  ASSUME TypeOK, Orderly, ExchangeInv, NEW t \in Tasks, NEW l, Goto(t, l),
         UNCHANGED <<wire, lockq, nreq>>, cur' \in {0, cur},
         \A u \in Tasks : wst'[u] = wst[u] \/ (wst[u] = "no" /\ wst'[u] = "put"),
         \A r \in Apps : sclosed[r] => sclosed'[r],
         \A r \in Apps : sstate'[r] \in {sstate[r], "CLOSED"},
         t = Reader => l \notin {"create", "reject", "rejectEnd", "rejected", "errEnd", "raised"},
         t = Reader => ~Creating /\ ~Rejecting,
         t \in Apps => Quietly(t, l) /\ pc[t] # "none",
         \/ h11' = h11
         \/ H11Calm /\ (h11'.theirs = "IDLE" => h11' = h11) /\ t = Reader
  PROVE  Orderly'
<1>1. pc'[t] = l /\ \A u \in Tasks \ {t} : pc'[u] = pc[u]
  BY DEF Goto, TypeOK
<1>2. \A u \in Tasks : Continues(u)' => Continues(u)
  BY <1>1, TaskSets DEF Continues, Answering, Quietly
<1>3. \A r \in Apps : Unanswered(r)' => Unanswered(r)
  BY <1>1, TaskSets DEF Unanswered, Quietly
<1>4. (Creating' <=> Creating) /\ (Rejecting' <=> Rejecting)
  BY <1>1, TaskSets DEF Creating, Rejecting
<1>5. Creating => h11' = h11
  BY DEF H11Calm
<1>6. Onward
  BY <1>2, <1>3, <1>4, <1>5 DEF Onward, H11Calm
<1>7. Calm'
  <2>1. \A u \in Tasks : pc'[u] # "raised"
    BY <1>1, TaskSets DEF Orderly, Calm, Quietly, Tasks
  <2>2. cur # 0 => cur \in Apps
    BY DEF TypeOK, Apps
  <2>3. cur # 0 /\ pc'[cur] = "none" => pc[cur] = "none"
    BY <1>1, <2>2, TaskSets DEF Quietly
  <2>4. CASE cur' = 0
    BY <2>1, <2>4 DEF Calm
  <2>5. CASE cur' = cur
    BY <1>4, <2>1, <2>2, <2>3, <2>5 DEF Orderly, Calm, Spawned
  <2> QED BY <2>4, <2>5
<1>8. \A u \in Tasks : \/ wst'[u] = wst[u]
                       \/ ~InWrite(u) /\ wst'[u] \notin SendKinds \cup {"drain"}
  BY DEF InWrite, SendKinds
<1> QED BY <1>5, <1>6, <1>7, <1>8, OnwardStep

\* The transport, the client and the worker move, or a message is received.
LEMMA StillOnward ==
  ASSUME TypeOK, Orderly, UNCHANGED <<wire, writeVars, streamVars, pc, h11>>
  PROVE  Orderly'
<1>1. Onward /\ Calm'
  BY DEF Onward, Continues, Answering, Unanswered, Creating, Orderly, Calm, Together,
     Rejecting, Spawned, streamVars
<1> QED BY <1>1, OnwardStep DEF writeVars, streamVars

----------------------------------------------------------------------------
(* Steps that send.                                                        *)

\* Task t gives h11 an event that the connection, with sides h, takes or
\* drops: what it was at before, and what it is at after.
MaySend(t, h, kind) ==
  /\ h.ours = h11.ours /\ h.theirs # "IDLE"
  /\ wst[t] = "no"
  /\ kind # "head" => Continues(t)
  /\ kind = "head" /\ t \in Apps => t = nreq /\ Unanswered(t) /\ ~Creating
  /\ t = Reader => ~h.keep \/ h.theirs = "ERROR" \/ kind = "head"

LEMMA SendOrderly ==
  ASSUME TypeOK, TypeOK', Orderly, Calm', NEW h \in H11Conn, NEW t \in Tasks,
         NEW kind \in SendKinds, NEW close \in BOOLEAN, NEW next,
         SendH11On(h, t, kind, close, next), CanSend(h, kind) \/ h.theirs = "ERROR",
         MaySend(t, h, kind), wire' = wire,
         nreq' # nreq => t = Reader /\ kind = "head",
         \A u \in Tasks \ {t} : Continues(u)' => Continues(u),
         \A r \in Apps : Unanswered(r)' => Unanswered(r),
         ~Creating'
  PROVE  Orderly'
<1>1. SentSides(h, h11', kind, close)
  BY SendEffect
<1>2. ~InWrite(t)
  BY DEF MaySend, InWrite, SendKinds
<1>3. ASSUME CanSend(h, kind) PROVE Orderly'
  <2>1. /\ wst' = [wst EXCEPT ![t] = kind] /\ lockq' = Append(lockq, t)
    BY <1>3 DEF SendH11On
  <2>2. lockq = <<>>
    <3>1. CASE kind = "head"
      BY <1>3, <3>1 DEF CanSend, Orderly, Between, MaySend
    <3>2. CASE kind # "head"
      <4>1. h11.ours = "SEND_BODY" /\ Continues(t)
        BY <1>3, <3>2 DEF CanSend, MaySend
      <4>2. lockq \in {<<>>, <<t>>}
        BY <4>1 DEF Orderly, During
      <4> QED BY <1>2, <4>2 DEF Orderly, Alone
    <3> QED BY <3>1, <3>2
  <2>3. lockq' = <<t>> /\ wst'[t] = kind /\ \A u \in Tasks \ {t} : wst'[u] = wst[u]
    BY <2>1, <2>2 DEF TypeOK
  <2>4. ~Pending /\ Latest = Written /\ \A u \in Tasks : ~InWrite(u)
    BY <2>2 DEF Pending, Latest, Orderly, Alone
  <2>5. Pending' /\ Latest'.kind = kind /\ Latest'.by = t /\ Written' = Written
    BY <2>3 DEF Pending, Latest, Written
  <2>6. Begun \in Nat /\ Begun' = Begun + IF kind = "head" THEN 1 ELSE 0
    <3>1. Seen' = Seen
      BY DEF Seen, Heads
    <3>2. Begun = Seen /\ Begun \in Nat
      BY <2>4, BegunNat DEF Begun
    <3> QED BY <2>5, <3>1, <3>2 DEF Begun
  <2>7. Alone'
    <3>1. \A u \in Tasks : InWrite(u)' <=> u = t
      BY <2>3, <2>4 DEF InWrite, SendKinds
    <3>2. \A u \in Tasks : <<t>> = <<u>> <=> u = t
      OBVIOUS
    <3> QED BY <2>3, <3>1, <3>2 DEF Alone
  <2>8. CASE kind = "head"
    <3>1. /\ h11.ours \in {"IDLE", "SEND_RESPONSE"} /\ h11'.ours = "SEND_BODY"
          /\ Latest.kind = "end" /\ \A u \in Tasks : ~Continues(u)
      BY <1>1, <1>3, <2>8 DEF CanSend, SentSides, MaySend, Orderly, Between
    <3>2. Fits'
      BY <2>4, <2>5, <2>8, <3>1 DEF Fits
    <3>3. During'
      BY <2>3, <2>5, <2>8, <3>1 DEF During
    <3>4. Between' /\ After'
      BY <3>1 DEF Between, After
    <3>5. t \in Apps => Begun' = nreq' /\ t = nreq'
      <4>1. t \in Apps => t = nreq /\ nreq' = nreq /\ h11.ours = "SEND_RESPONSE" /\ ~Creating
        BY <2>8, <3>1, TaskSets DEF MaySend, Orderly, Between
      <4> QED BY <2>6, <2>8, <4>1 DEF Orderly, Answered
    <3>6. Answered'
      BY <2>5, <3>1, <3>5 DEF Answered, Tasks
    <3>7. Together'
      BY <1>1 DEF SentSides, MaySend, Together
    <3> QED BY <2>7, <3>2, <3>3, <3>4, <3>6, <3>7 DEF Orderly
  <2>9. CASE kind # "head"
    <3>1. h11.ours = "SEND_BODY" /\ Continues(t) /\ nreq' = nreq
      BY <1>3, <2>9 DEF CanSend, MaySend
    <3>2. /\ Latest.kind # "end" /\ Latest.by = t
          /\ \A u \in Tasks : Continues(u) => u = t
      BY <3>1 DEF Orderly, During
    <3>3. Fits'
      BY <2>4, <2>5, <2>9, <3>2 DEF Fits
    <3>4. t \in Apps => Begun' = nreq' /\ t = nreq'
      BY <2>6, <2>9, <3>1, <3>2, TaskSets DEF Orderly, Answered
    <3>5. h11'.ours \notin {"IDLE", "SEND_RESPONSE"}
      BY <1>1, <1>3, <2>9, <3>1 DEF SentSides, SendKinds, MaySend
    <3>6. h11'.ours = "SEND_BODY" => kind = "data"
      BY <1>1, <1>3, <2>9 DEF SentSides, SendKinds
    <3>7. h11'.ours = "DONE" => kind = "end" /\ t \in Apps
      BY <1>1, <1>3, <2>9, <3>1 DEF SentSides, SendKinds, MaySend, Tasks
    <3>8. Between' /\ During' /\ After'
      BY <2>3, <2>5, <3>2, <3>4, <3>5, <3>6, <3>7 DEF Between, During, After
    <3>9. Answered'
      BY <2>5, <3>4, <3>5, <3>7, TaskSets DEF Answered, Tasks
    <3>10. Together'
      BY <1>1 DEF SentSides, MaySend, Together
    <3> QED BY <2>7, <3>3, <3>8, <3>9, <3>10 DEF Orderly
  <2> QED BY <2>8, <2>9
<1>4. ASSUME ~CanSend(h, kind) PROVE Orderly'
  <2>1. h11'.ours = "ERROR" /\ UNCHANGED <<wst, lockq>>
    BY <1>1, <1>4 DEF SentSides, SendH11On, writeVars
  <2>2. /\ (Pending' <=> Pending) /\ Latest' = Latest
        /\ Written' = Written /\ Begun' = Begun
    BY <2>1, LatestSame
  <2>3. Alone' /\ Fits'
    BY <2>1, <2>2 DEF Orderly, Alone, Fits, InWrite
  <2>4. Between' /\ During' /\ After' /\ Answered'
    BY <2>1, <2>2 DEF Between, During, After, Answered, Orderly
  <2>5. Together'
    BY <1>1 DEF SentSides, MaySend, Together
  <2> QED BY <2>3, <2>4, <2>5 DEF Orderly
<1> QED BY <1>3, <1>4

----------------------------------------------------------------------------
(* Steps that write.                                                       *)

LEMMA WriteOrderly ==
  ASSUME TypeOK, TypeOK', ExchangeInv, Orderly, WellFramed, ResponseMatchesRequest,
         NEW t \in Tasks, Write(t), net = "open"
  PROVE  Orderly' /\ WellFramed' /\ ResponseMatchesRequest'
<1> DEFINE e == [kind |-> wst[t], by |-> t]
<1>1. lockq = <<t>> /\ wst[t] \in SendKinds
  <2>1. wst[t] \in SendKinds
    BY DEF Write
  <2> QED BY <2>1 DEF Orderly, Alone, InWrite
<1>2. /\ wst'[t] = "drain" /\ \A u \in Tasks \ {t} : wst'[u] = wst[u]
      /\ UNCHANGED <<h11, nreq, cur, sstate, sclosed, pc, lockq>>
  BY DEF Write, streamVars, TypeOK
<1>3. Pending /\ Latest.kind = e.kind /\ Latest.by = t
  BY <1>1 DEF Pending, Latest
<1>4. e \in [kind : SendKinds, by : Tasks]
  BY <1>1
<1>5. \/ wire' = Append(wire, e)
      \/ wire' = wire /\ e.kind = "data" /\ wire # <<>> /\ wire[Len(wire)] = e
  BY DEF Write
<1>6. /\ Written'.kind = e.kind /\ Written'.by = t /\ wire' # <<>>
      /\ Seen \in Nat /\ Seen' = Seen + IF e.kind = "head" THEN 1 ELSE 0
  <2>1. CASE wire' = Append(wire, e)
    <3>1. /\ Len(wire) \in Nat /\ Len(wire') = Len(wire) + 1
          /\ wire'[Len(wire) + 1] = e
          /\ Seen' = Seen + IF e.kind = "head" THEN 1 ELSE 0
      BY <1>4, <2>1, HeadsAppend DEF TypeOK
    <3>2. wire' # <<>>
      BY <3>1
    <3> QED BY <3>1, <3>2, BegunNat DEF Written
  <2>2. CASE wire' = wire /\ e.kind = "data" /\ wire # <<>> /\ wire[Len(wire)] = e
    <3>1. Written' = e /\ Seen' = Seen
      BY <2>2 DEF Written, Seen, Heads
    <3> QED BY <2>2, <3>1, BegunNat
  <2> QED BY <1>5, <2>1, <2>2
<1>7. ~Pending' /\ Latest'.kind = e.kind /\ Latest'.by = t
  <2>1. ~Pending'
    <3>1. \A u \in Tasks : lockq' = <<u>> => u = t
      BY <1>1, <1>2
    <3> QED BY <1>2, <3>1 DEF Pending, SendKinds
  <2> QED BY <1>6, <2>1 DEF Latest
<1>8. Begun' = Begun
  BY <1>3, <1>6, <1>7 DEF Begun
<1>9. Orderly'
  <2>1. Alone'
    BY <1>1, <1>2 DEF Orderly, Alone, InWrite
  <2>2. Fits'
    BY <1>7 DEF Fits
  <2>3. \A u \in Tasks : Continues(u)' <=> Continues(u)
    BY <1>2 DEF Continues, Answering
  <2>4. Between' /\ During' /\ After'
    BY <1>2, <1>3, <1>7, <2>3 DEF Orderly, Between, During, After, Unanswered
  <2>5. Answered'
    BY <1>2, <1>3, <1>7, <1>8 DEF Orderly, Answered, Creating
  <2>6. Together' /\ Calm'
    BY <1>2 DEF Orderly, Together, Calm, Rejecting, Spawned
  <2> QED BY <2>1, <2>2, <2>4, <2>5, <2>6 DEF Orderly
<1>10. CASE wire' = Append(wire, e)
  <2> PICK n \in Nat : n = Len(wire)
    BY DEF TypeOK
  <2>1. /\ Len(wire') = n + 1 /\ wire'[n + 1] = e
        /\ \A i \in 1 .. n : wire'[i] = wire[i] /\ Heads(i)' = Heads(i)
        /\ Seen' = Seen + IF e.kind = "head" THEN 1 ELSE 0
    BY <1>4, <1>10, HeadsAppend DEF TypeOK
  <2>2. /\ wire = <<>> <=> n = 0
        /\ n > 0 => Written = wire[n]
    BY EmptySeq DEF Written, TypeOK
  <2>3. IF e.kind = "head" THEN n > 0 => wire[n].kind = "end"
        ELSE n > 0 /\ wire[n].kind # "end" /\ wire[n].by = t
    <3>1. IF e.kind = "head" THEN Written.kind = "end"
          ELSE Written.kind # "end" /\ Written.by = t
      BY <1>3 DEF Orderly, Fits
    <3>2. n = 0 => Written.kind = "end"
      BY <2>2 DEF Written
    <3> QED BY <2>2, <3>1, <3>2
  <2>4. WellFramed'
    <3>1. \A i \in 1 .. n :
            IF wire'[i].kind = "head"
            THEN i > 1 => wire'[i - 1].kind = "end"
            ELSE i > 1 /\ wire'[i - 1].kind # "end" /\ wire'[i - 1].by = wire'[i].by
      <4> SUFFICES ASSUME NEW i \in 1 .. n
                   PROVE  IF wire'[i].kind = "head"
                          THEN i > 1 => wire'[i - 1].kind = "end"
                          ELSE i > 1 /\ wire'[i - 1].kind # "end" /\ wire'[i - 1].by = wire'[i].by
        OBVIOUS
      <4>1. wire'[i] = wire[i] /\ (i > 1 => wire'[i - 1] = wire[i - 1])
        BY <2>1
      <4>2. IF wire[i].kind = "head" THEN i > 1 => wire[i - 1].kind = "end"
            ELSE i > 1 /\ wire[i - 1].kind # "end" /\ wire[i - 1].by = wire[i].by
        BY DEF WellFramed
      <4> QED BY <4>1, <4>2
    <3>2. n > 0 => wire'[n] = wire[n]
      BY <2>1
    <3> QED BY <2>1, <2>3, <3>1, <3>2 DEF WellFramed
  <2>5. ResponseMatchesRequest'
    <3>1. \A i \in 1 .. n : wire'[i].by # Reader => wire'[i].by = Cardinality(Heads(i)')
      BY <2>1 DEF ResponseMatchesRequest
    <3>2. t # Reader => t = Seen'
      BY <1>3, <1>6 DEF Orderly, Answered, Begun
    <3>3. Seen' = Cardinality(Heads(n + 1)')
      <4>1. Heads(n + 1)' = {j \in 1 .. Len(wire') : wire'[j].kind = "head"}
        BY <2>1 DEF Heads
      <4> QED BY <4>1 DEF Seen, Heads
    <3> QED BY <2>1, <3>1, <3>2, <3>3 DEF ResponseMatchesRequest
  <2> QED BY <1>9, <2>4, <2>5
<1>11. CASE wire' = wire
  BY <1>9, <1>11 DEF WellFramed, ResponseMatchesRequest, Heads
<1> QED BY <1>5, <1>10, <1>11

LEMMA DrainedOrderly ==
  ASSUME TypeOK, Orderly, NEW t \in Tasks, Drained(t)
  PROVE  Orderly'
<1>1. lockq = <<t>> /\ wst[t] = "drain" /\ HasLock(t)
  <2>1. wst[t] = "drain" /\ HasLock(t)
    BY DEF Drained
  <2> QED BY <2>1 DEF Orderly, Alone, InWrite
<1>2. /\ wst'[t] = "no" /\ \A u \in Tasks \ {t} : wst'[u] = wst[u]
      /\ lockq' = <<>>
      /\ UNCHANGED <<h11, wire, nreq, cur, sstate, sclosed, pc>>
  BY <1>1 DEF Drained, Released, streamVars, TypeOK
<1>3. ~Pending /\ ~Pending'
  BY <1>1, <1>2 DEF Pending, SendKinds
<1>4. Latest' = Latest /\ Begun' = Begun
  BY <1>2, <1>3 DEF Latest, Written, Begun, Seen, Heads
<1>5. Alone'
  BY <1>1, <1>2 DEF Orderly, Alone, InWrite, SendKinds
<1>6. \A u \in Tasks : Continues(u)' <=> Continues(u)
  BY <1>2 DEF Continues, Answering
<1>7. Fits' /\ Between' /\ During' /\ After'
  BY <1>2, <1>3, <1>4, <1>6 DEF Orderly, Fits, Between, During, After, Unanswered
<1>8. Answered' /\ Together' /\ Calm'
  BY <1>2, <1>3, <1>4 DEF Orderly, Answered, Creating, Together, Calm, Rejecting, Spawned
<1> QED BY <1>5, <1>7, <1>8 DEF Orderly

----------------------------------------------------------------------------
(* The steps that need an argument of their own.                           *)

LEMMA ParsedIdle ==
  ASSUME h11 \in H11Conn, NEW event \in {"data", "end", "closed", "error", "need_data"},
         NEW token, h11' = AfterEvent(h11, event, token)
  PROVE  h11'.theirs = "IDLE" => h11' = h11
<1> DEFINE g(s) == [h11 EXCEPT !.theirs = s]
<1>1. \A s \in {"DONE", "CLOSED", "ERROR"} : g(s) \in H11Conn /\ g(s).theirs = s
  BY DEF H11Conn, TheirStates
<1>2. ASSUME NEW s \in {"DONE", "CLOSED", "ERROR"}, h11' = Settle(g(s))
      PROVE  h11'.theirs # "IDLE"
  <2>1. PICK k \in H11Conn : k = g(s)
    BY <1>1
  <2>2. k.theirs = s /\ h11' = Settle(k)
    BY <1>1, <1>2, <2>1
  <2>3. SettledSides(k, h11')
    BY <2>2, SettleEffect
  <2> QED BY <2>2, <2>3 DEF SettledSides
<1>3. \/ h11' = h11
      \/ \E s \in {"DONE", "CLOSED", "ERROR"} : h11' = Settle(g(s))
  BY DEF AfterEvent
<1> QED BY <1>2, <1>3

LEMMA RequestOrderly ==
  ASSUME TypeOK, ExchangeInv, Orderly, RequestEvent PROVE Orderly'
<1>1. h11.theirs = "IDLE"
  BY DEF RequestEvent, Event, NextEvent, TypeOK, H11Conn, TheirStates
<1>2. /\ h11'.theirs = "SEND_BODY" /\ h11'.ours = "SEND_RESPONSE"
      /\ UNCHANGED <<wire, wst, lockq, nreq, cur, sstate, sclosed>>
  BY DEF RequestEvent, Parsed, AfterEvent, streamVars, writeVars
<1>3. h11.ours = "IDLE" /\ \A r \in Apps : ~Acting(r)
  BY <1>1 DEF Orderly, Together, ExchangeInv, Fresh
<1>4. /\ pc'[Reader] \in {"reject", "create"} /\ pc[Reader] = "loop"
      /\ \A r \in Apps : pc'[r] = pc[r]
  BY TaskSets DEF RequestEvent, Goto, At, TypeOK
<1>5. /\ (Pending' <=> Pending) /\ Latest' = Latest
      /\ Written' = Written /\ Begun' = Begun
  BY <1>2, LatestSame
<1>6. Alone' /\ Fits'
  BY <1>2, <1>5 DEF Orderly, Alone, Fits, InWrite
<1>7. \A t \in Tasks : Continues(t)' => Continues(t)
  BY <1>2, <1>4 DEF Continues, Answering, Tasks
<1>8. Between' /\ During' /\ After'
  BY <1>2, <1>3, <1>5, <1>7 DEF Orderly, Between, During, After
<1>9. Answered'
  BY <1>2, <1>3, <1>4, <1>5 DEF Orderly, Answered, Creating
<1>10. Together' /\ Calm'
  <2>1. \A t \in Tasks : pc'[t] # "raised"
    BY <1>4 DEF Tasks, Orderly, Calm
  <2>2. cur = 0
    BY <1>1 DEF ExchangeInv, Fresh
  <2> QED BY <1>2, <2>1, <2>2 DEF Together, Calm
<1> QED BY <1>6, <1>8, <1>9, <1>10 DEF Orderly

LEMMA CreateOrderly ==
  ASSUME TypeInv, ExchangeInv, Orderly, CreateStream PROVE Orderly'
<1>1. PICK c \in Apps : c = nreq + 1
  <2>1. nreq + 1 \in Apps
    BY H11Assumption DEF CreateStream, At, TypeInv, CreateInv, TypeOK, Apps
  <2> QED BY <2>1
<1>2. /\ UNCHANGED <<h11, wire, wst, lockq, sstate, sclosed>>
      /\ cur' = c /\ nreq' = c /\ Creating
  BY <1>1 DEF CreateStream, At, writeVars, Creating
<1>3. /\ pc'[Reader] = "loop" /\ pc'[c] = "run"
      /\ \A r \in Apps \ {c} : pc'[r] = pc[r]
  BY <1>1, TaskSets DEF CreateStream, TypeInv, TypeOK
<1>4. h11.theirs = "SEND_BODY" /\ h11.ours = "SEND_RESPONSE"
  BY <1>2 DEF ExchangeInv, Fresh
<1>5. sstate[c] = "REQUEST"
  BY <1>1 DEF ExchangeInv, Numbered, TypeInv, TypeOK, Apps
<1>6. /\ (Pending' <=> Pending) /\ Latest' = Latest
      /\ Written' = Written /\ Begun' = Begun
  BY <1>2, LatestSame
<1>7. Alone' /\ Fits'
  BY <1>2, <1>6 DEF Orderly, Alone, Fits, InWrite
<1>8. \A t \in Tasks : Continues(t)' => Continues(t)
  BY <1>2, <1>3, <1>5 DEF Continues, Answering, Tasks
<1>9. Between' /\ During' /\ After'
  BY <1>2, <1>4, <1>6, <1>8 DEF Orderly, Between, During, After
<1>10. Answered'
  <2>1. Begun = nreq /\ ~Creating'
    BY <1>2, <1>3 DEF Orderly, Answered, Creating
  <2> QED BY <1>1, <1>2, <1>4, <1>6, <2>1 DEF Orderly, Answered
<1>11. Together' /\ Calm'
  <2>1. \A t \in Tasks : pc'[t] # "raised"
    BY <1>3 DEF Tasks, Orderly, Calm
  <2> QED BY <1>2, <1>3, <1>4, <2>1 DEF Together, Calm, Spawned
<1> QED BY <1>7, <1>9, <1>10, <1>11 DEF Orderly

LEMMA RecycleOrderly ==
  ASSUME TypeOK, ExchangeInv, Orderly, NEW r \in Apps, Recycle(r) PROVE Orderly'
<1>1. /\ pc[r] = "recycle" /\ wst[r] = "no"
      /\ h11.ours = "DONE" /\ h11.theirs = "DONE"
  BY DEF Recycle, At, CanRecycle
<1>2. Acting(r)
  BY <1>1 DEF Acting, Settled, Spawned
<1>3. /\ r = nreq /\ ~Creating /\ ~Rejecting /\ \A q \in Apps \ {r} : ~Acting(q)
      /\ sstate[r] = "CLOSED"
  BY <1>1, <1>2, ActingLast DEF ExchangeInv, Recycling
<1>4. /\ h11'.ours = "IDLE" /\ h11'.theirs = "IDLE"
      /\ UNCHANGED <<wire, wst, lockq, nreq, cur, sstate, sclosed>>
  BY DEF Recycle, NextCycle, TypeOK, H11Conn, streamVars, writeVars
<1>5. /\ pc'[r] \in {"run", "done"}
      /\ \A t \in Tasks \ {r} : pc'[t] = pc[t]
  BY TaskSets DEF Recycle, Goto, Back, TypeOK
<1>6. /\ (Pending' <=> Pending) /\ Latest' = Latest
      /\ Written' = Written /\ Begun' = Begun
  BY <1>4, LatestSame
<1>7. Alone' /\ Fits'
  BY <1>4, <1>6 DEF Orderly, Alone, Fits, InWrite
<1>8. lockq = <<>>
  <2>1. ~InWrite(r)
    BY <1>1 DEF InWrite, SendKinds
  <2> QED BY <1>1, <1>3, <2>1, TaskSets DEF Orderly, Alone, After
<1>9. pc[Reader] \notin {"rejectEnd", "errEnd", "create", "reject", "rejected"}
  BY <1>1, <1>3 DEF ExchangeInv, Errors, Creating, Rejecting
<1>10. \A q \in Apps : ~Unanswered(q)' /\ ~Answering(q)'
  <2>1. ~Unanswered(r)' /\ ~Answering(r)'
    BY <1>3, <1>4, <1>5 DEF Unanswered, Answering
  <2>2. \A q \in Apps \ {r} : ~Unanswered(q)' /\ ~Answering(q)'
    BY <1>3, <1>4, <1>5, TaskSets, SettledSilent DEF Unanswered, Answering
  <2> QED BY <2>1, <2>2
<1>11. \A t \in Tasks : ~Continues(t)'
  BY <1>5, <1>9, <1>10, TaskSets DEF Continues, Tasks
<1>12. Between' /\ During' /\ After'
  BY <1>1, <1>4, <1>6, <1>8, <1>10, <1>11 DEF Orderly, Between, During, After
<1>13. Answered'
  BY <1>1, <1>4, <1>5, <1>6, <1>9, TaskSets DEF Orderly, Answered, Creating
<1>14. Together' /\ Calm'
  <2>1. \A t \in Tasks : pc'[t] # "raised"
    BY <1>5 DEF Orderly, Calm
  <2>2. cur # 0 => cur \in Apps
    BY DEF TypeOK, Apps
  <2>3. cur # 0 /\ pc'[cur] = "none" => pc[cur] = "none"
    BY <1>5, <2>2, TaskSets
  <2> QED BY <1>3, <1>4, <2>1, <2>3 DEF Orderly, Together, Calm, Spawned, Rejecting
<1> QED BY <1>7, <1>12, <1>13, <1>14 DEF Orderly

\* A stream is closed: by the reader that is done, or after its response.
LEMMA CloseOrderly ==
  ASSUME TypeOK, ExchangeInv, Orderly, NEW t \in Tasks, NEW next,
         CloseStream(t, next), wst[t] = "no", UNCHANGED <<h11, nreq, sstate, wire>>,
         t = Reader => next = "join" /\ ~Creating /\ ~Rejecting,
         t \in Apps => next = "recycle" /\ Acting(t)
  PROVE  Orderly'
<1>1. ~(Open(cur) /\ pc[cur] = "none")
  <2>1. Rejecting => t # Reader /\ t \notin Apps
    BY RejectingAlone
  <2> QED BY <2>1 DEF Open, Orderly, Calm, Spawned, Tasks
<1>2. ~HasLock(t)
  <2>1. ~InWrite(t)
    BY DEF InWrite, SendKinds
  <2>2. \A u \in Tasks : lockq = <<u>> => Head(lockq) = u
    OBVIOUS
  <2> QED BY <2>1, <2>2 DEF HasLock, Orderly, Alone
<1>3. /\ Goto(t, next) /\ lockq' = lockq /\ cur' \in {0, cur}
      /\ \A u \in Tasks : wst'[u] = wst[u] \/ (wst[u] = "no" /\ wst'[u] = "put")
  BY <1>1, <1>2 DEF CloseStream, Released, TypeOK
<1>4. \A r \in Apps : sclosed[r] => sclosed'[r]
  BY <1>1 DEF CloseStream, TypeOK
<1>5. t \in Apps => Quietly(t, next) /\ pc[t] # "none"
  BY DEF Quietly, Acting, Spawned
<1> QED BY <1>3, <1>4, <1>5, MoveOnward

LEMMA PutLateOrderly ==
  ASSUME TypeOK, ExchangeInv, Orderly, NEW t \in Tasks, PutLate(t) PROVE Orderly'
<1>1. wst[t] = "put" /\ UNCHANGED <<h11, wire, nreq, sstate, sclosed, pc>> /\ cur' = 0
  BY DEF PutLate
<1>2. ~InWrite(t)
  BY <1>1 DEF InWrite, SendKinds
<1>3. ~HasLock(t)
  <2>1. \A u \in Tasks : lockq = <<u>> => Head(lockq) = u
    OBVIOUS
  <2> QED BY <1>2, <2>1 DEF HasLock, Orderly, Alone
<1>4. lockq' = lockq /\ \A u \in Tasks : wst'[u] = wst[u] \/ (u = t /\ wst'[u] = "no")
  BY <1>3 DEF PutLate, Released, TypeOK
<1>5. Onward /\ Calm'
  BY <1>1 DEF Onward, Continues, Answering, Unanswered, Creating, Orderly, Calm, Together
<1>6. \A u \in Tasks : \/ wst'[u] = wst[u]
                       \/ ~InWrite(u) /\ wst'[u] \notin SendKinds \cup {"drain"}
  BY <1>2, <1>4 DEF SendKinds
<1> QED BY <1>1, <1>4, <1>5, <1>6, OnwardStep

----------------------------------------------------------------------------
(* The sends of the applications and of the reader.                        *)

LEMMA CalmMove ==
  ASSUME TypeOK, Orderly, NEW t \in Tasks, NEW next, Goto(t, next),
         next \notin {"raised", "none"}, UNCHANGED <<cur, sclosed>>,
         t = Reader => ~Rejecting \/ next \in {"rejectEnd", "rejected"}
  PROVE  Calm'
<1>1. pc'[t] = next /\ \A u \in Tasks \ {t} : pc'[u] = pc[u]
  BY DEF Goto, TypeOK
<1>2. \A u \in Tasks : pc'[u] # "raised"
  BY <1>1 DEF Orderly, Calm
<1>3. cur # 0 => cur \in Apps
  BY DEF TypeOK, Apps
<1>4. cur # 0 /\ pc'[cur] = "none" => pc[cur] = "none"
  BY <1>1, <1>3, TaskSets
<1>5. Rejecting => Rejecting'
  BY <1>1, TaskSets DEF Rejecting
<1> QED BY <1>2, <1>3, <1>4, <1>5 DEF Orderly, Calm, Spawned

\* The application of r begins or goes on with its response.
LEMMA AppSendOrderly ==
  ASSUME TypeOK, TypeOK', ExchangeInv, Orderly, NEW r \in Apps,
         NEW kind \in SendKinds, NEW close \in BOOLEAN, NEW next,
         SendH11On(h11, r, kind, close, next), wst[r] = "no",
         IF kind = "head" THEN Unanswered(r) ELSE Answering(r),
         next \in {"started", "errEnd", "bodyEnd", "ended", "errDone", "run"},
         next = "run" => sstate'[r] # "REQUEST",
         \A q \in Apps \ {r} : sstate'[q] = sstate[q],
         UNCHANGED <<cur, nreq, sclosed, wire>>
  PROVE  Orderly'
<1>1. Acting(r) /\ (CanSend(h11, kind) \/ h11.theirs = "ERROR")
  BY SendReady DEF SendKinds
<1>2. r = nreq /\ ~Creating /\ ~Rejecting /\ h11.theirs # "IDLE"
  BY <1>1, ActingLast
<1>3. h11 \in H11Conn
  BY DEF TypeOK
<1>4. Goto(r, next)
  BY <1>1, <1>3, SendEffect, TaskSets
<1>5. pc'[r] = next /\ \A u \in Tasks \ {r} : pc'[u] = pc[u]
  BY <1>4, TaskSets DEF Goto, TypeOK
<1>6. Calm'
  BY <1>4, CalmMove, TaskSets
<1>7. \A u \in Tasks \ {r} : Continues(u)' => Continues(u)
  BY <1>5, TaskSets DEF Continues, Answering
<1>8. \A q \in Apps : Unanswered(q)' => Unanswered(q)
  BY <1>5, TaskSets DEF Unanswered
<1>9. ~Creating'
  BY <1>2, <1>5, TaskSets DEF Creating
<1>10. MaySend(r, h11, kind)
  BY <1>2, TaskSets DEF MaySend, Continues
<1> QED BY <1>1, <1>3, <1>6, <1>7, <1>8, <1>9, <1>10, TaskSets, SendOrderly

\* The reader answers in the place of an application.
LEMMA ReaderSendOrderly ==
  ASSUME TypeOK, TypeOK', ExchangeInv, Orderly, NEW h \in H11Conn,
         NEW kind \in {"head", "end"}, NEW close \in BOOLEAN, NEW next,
         SendH11On(h, Reader, kind, close, next), wst[Reader] = "no",
         CanSend(h, kind) \/ h.theirs = "ERROR",
         h.ours = h11.ours, h.theirs # "IDLE",
         kind = "end" => /\ pc[Reader] \in {"rejectEnd", "errEnd"} /\ nreq' = nreq
                         /\ ~h.keep \/ h.theirs = "ERROR",
         next \in {"rejectEnd", "rejected", "errEnd", "close"}, Calm',
         UNCHANGED <<sstate, wire>>
  PROVE  Orderly'
<1>1. Goto(Reader, next)
  BY SendEffect, TaskSets DEF SendKinds
<1>2. pc'[Reader] = next /\ \A r \in Apps : pc'[r] = pc[r]
  BY <1>1, TaskSets DEF Goto, TypeOK
<1>3. \A u \in Tasks \ {Reader} : Continues(u)' => Continues(u)
  BY <1>2, TaskSets DEF Continues, Answering
<1>4. \A r \in Apps : Unanswered(r)' => Unanswered(r)
  BY <1>2 DEF Unanswered
<1>5. ~Creating'
  BY <1>2 DEF Creating
<1>6. MaySend(Reader, h, kind)
  BY TaskSets DEF MaySend, Continues
<1>7. kind \in SendKinds /\ (nreq' # nreq => kind = "head")
  BY DEF SendKinds
<1> QED BY <1>3, <1>4, <1>5, <1>6, <1>7, TaskSets, SendOrderly

LEMMA RejectOrderly ==
  ASSUME TypeInv, TypeInv', ExchangeInv, Orderly, RejectRequest PROVE Orderly'
<1>1. /\ SendH11On(h11, Reader, "head", TRUE, "rejectEnd")
      /\ Creating /\ wst[Reader] = "no" /\ UNCHANGED <<sstate, sclosed, wire>>
  BY DEF RejectRequest, SendH11, At, Creating
<1>2. /\ h11 \in H11Conn /\ h11.theirs = "SEND_BODY" /\ CanSend(h11, "head")
  BY <1>1 DEF ExchangeInv, Fresh, CanSend, TypeInv, TypeOK
<1>3. Goto(Reader, "rejectEnd")
  BY <1>1, <1>2, SendEffect, TaskSets DEF SendKinds, TypeInv
<1>4. Calm'
  <2>1. pc'[Reader] = "rejectEnd" /\ \A r \in Apps : pc'[r] = pc[r]
    BY <1>3, TaskSets DEF Goto, TypeInv, TypeOK
  <2>2. \A t \in Tasks : pc'[t] # "raised"
    BY <2>1 DEF Orderly, Calm, Tasks
  <2> QED BY <2>1, <2>2 DEF Calm, Rejecting
<1> QED BY <1>1, <1>2, <1>4, ReaderSendOrderly DEF TypeInv

LEMMA RejectEndOrderly ==
  ASSUME TypeInv, TypeInv', ExchangeInv, Orderly, RejectEnd PROVE Orderly'
<1>1. /\ SendH11On(h11, Reader, "end", FALSE, "rejected")
      /\ pc[Reader] = "rejectEnd" /\ wst[Reader] = "no"
      /\ UNCHANGED <<sstate, sclosed, cur, nreq, wire>>
  BY DEF RejectEnd, SendH11, At, streamVars
<1>2. /\ h11 \in H11Conn /\ h11.theirs = "SEND_BODY" /\ CanSend(h11, "end") /\ ~h11.keep
  BY <1>1 DEF ExchangeInv, Errors, Rejecting, CanSend, TypeInv, TypeOK
<1>3. Goto(Reader, "rejected")
  BY <1>1, <1>2, SendEffect, TaskSets DEF SendKinds, TypeInv
<1>4. Calm'
  BY <1>1, <1>3, CalmMove, TaskSets DEF TypeInv
<1> QED BY <1>1, <1>2, <1>4, ReaderSendOrderly DEF TypeInv

LEMMA RejectedOrderly ==
  ASSUME TypeInv, ExchangeInv, Orderly, Rejected PROVE Orderly'
<1>1. /\ pc[Reader] = "rejected" /\ pc'[Reader] = "loop"
      /\ \A r \in Apps : pc'[r] = pc[r]
      /\ UNCHANGED <<h11, wire, wst, lockq, nreq, cur>>
  BY TaskSets DEF Rejected, At, Goto, TypeInv, TypeOK, writeVars
<1>2. /\ nreq \in Apps /\ cur \in {0, nreq}
  BY <1>1, LastApp DEF ExchangeInv, Errors, Rejecting, Numbered, TypeInv
<1>3. /\ sstate'[nreq] = "CLOSED" /\ sclosed'[nreq]
      /\ \A r \in Apps \ {nreq} : sstate'[r] = sstate[r]
  BY <1>2 DEF Rejected, TypeInv, TypeOK
<1>4. Onward
  BY <1>1, <1>3 DEF Onward, Continues, Answering, Unanswered, Creating, Orderly, Together
<1>5. Calm'
  <2>1. \A t \in Tasks : pc'[t] # "raised"
    BY <1>1 DEF Orderly, Calm, Tasks
  <2> QED BY <1>1, <1>2, <1>3, <2>1 DEF Calm
<1> QED BY <1>1, <1>4, <1>5, OnwardStep DEF TypeInv

LEMMA ErrorEndOrderly ==
  ASSUME TypeInv, TypeInv', ExchangeInv, Orderly, ErrorEnd PROVE Orderly'
<1>1. /\ SendH11On(h11, Reader, "end", FALSE, "close")
      /\ pc[Reader] = "errEnd" /\ wst[Reader] = "no"
      /\ UNCHANGED <<sstate, sclosed, cur, nreq, wire>>
  BY DEF ErrorEnd, SendH11, At, streamVars
<1>2. h11 \in H11Conn /\ h11.theirs = "ERROR"
  BY <1>1 DEF ExchangeInv, Errors, TypeInv, TypeOK
<1>3. Goto(Reader, "close")
  BY <1>1, <1>2, SendEffect, TaskSets DEF SendKinds, TypeInv
<1>4. Calm'
  BY <1>1, <1>3, CalmMove, TaskSets DEF TypeInv, Rejecting
<1> QED BY <1>1, <1>2, <1>4, ReaderSendOrderly DEF TypeInv

LEMMA ProtocolErrorOrderly ==
  ASSUME TypeInv, TypeInv', ExchangeInv, Orderly, ProtocolError PROVE Orderly'
<1>1. /\ pc[Reader] = "loop" /\ wst[Reader] = "no" /\ h11 \in H11Conn
      /\ UNCHANGED <<sstate, sclosed, cur, nreq, wire>>
  BY DEF ProtocolError, At, streamVars, TypeInv, TypeOK
<1>2. PICK k \in H11Conn : k = AfterEvent(h11, "error", "")
  BY <1>1, H11Type
<1>3. k.theirs = "ERROR" /\ (k.ours = h11.ours \/ k.ours = "MUST_CLOSE")
  <2>1. PICK g \in H11Conn : g = [h11 EXCEPT !.theirs = "ERROR"]
    BY <1>1 DEF H11Conn, TheirStates
  <2>2. g.theirs = "ERROR" /\ g.ours = h11.ours /\ k = Settle(g)
    BY <1>1, <1>2, <2>1 DEF AfterEvent, H11Conn
  <2> QED BY <2>2, SettleEffect DEF SettledSides
<1>4. CASE MayAnswerError(k)
  <2>1. SendH11On(k, Reader, "head", TRUE, "errEnd")
    BY <1>2, <1>4 DEF ProtocolError
  <2>2. k.ours = h11.ours
    BY <1>3, <1>4 DEF MayAnswerError
  <2>3. Goto(Reader, "errEnd")
    BY <1>3, <2>1, SendEffect, TaskSets DEF SendKinds, TypeInv
  <2>4. Calm'
    BY <1>1, <2>3, CalmMove, TaskSets DEF TypeInv, Rejecting
  <2> QED BY <1>1, <1>3, <2>1, <2>2, <2>4, ReaderSendOrderly DEF TypeInv
<1>5. CASE ~MayAnswerError(k)
  <2>1. h11' = k /\ Goto(Reader, "close") /\ UNCHANGED <<wst, lockq>>
    BY <1>2, <1>5 DEF ProtocolError, writeVars
  <2>2. H11Calm
    <3>1. h11' = AfterEvent(h11, "error", "")
      BY <1>2, <2>1
    <3> QED BY <1>1, <3>1, ParsedEffect
  <2>3. ~Creating /\ ~Rejecting
    BY <1>1 DEF Creating, Rejecting
  <2> QED BY <1>1, <1>3, <2>1, <2>2, <2>3, MoveOnward, TaskSets DEF TypeInv
<1> QED BY <1>4, <1>5

----------------------------------------------------------------------------
(* Every step.                                                             *)

\* A step of the reader that neither begins nor ends a rejection.
LEMMA ReaderOnward ==
  ASSUME TypeInv, ExchangeInv, Orderly, NEW l, Goto(Reader, l),
         l \notin {"create", "reject", "rejectEnd", "rejected", "errEnd", "raised"},
         pc[Reader] \notin {"create", "reject", "rejectEnd", "rejected"},
         UNCHANGED <<wire, writeVars, streamVars>>,
         h11' = h11 \/ (H11Calm /\ (h11'.theirs = "IDLE" => h11' = h11))
  PROVE  Orderly'
BY MoveOnward, TaskSets DEF TypeInv, writeVars, streamVars, Creating, Rejecting

\* A step of an application that sends nothing.
LEMMA AppOnward ==
  ASSUME TypeInv, ExchangeInv, Orderly, NEW r \in Apps, NEW l, Goto(r, l),
         Quietly(r, l), pc[r] # "none", UNCHANGED <<wire, wst, lockq, nreq, cur, sclosed, h11>>,
         \A q \in Apps : sstate'[q] \in {sstate[q], "CLOSED"}
  PROVE  Orderly'
BY MoveOnward, TaskSets DEF TypeInv

LEMMA StartedOrderly ==
  ASSUME TypeInv, ExchangeInv, Orderly, NEW r \in Apps, Started(r) PROVE Orderly'
<1>1. /\ pc[r] = "started" /\ Goto(r, "run") /\ sstate'[r] = "RESPONSE"
      /\ \A q \in Apps \ {r} : sstate'[q] = sstate[q]
      /\ UNCHANGED <<h11, wire, wst, lockq, nreq, cur, sclosed>>
  BY DEF Started, At, writeVars, TypeInv, TypeOK
<1>2. pc'[r] = "run" /\ \A u \in Tasks \ {r} : pc'[u] = pc[u]
  BY <1>1, TaskSets DEF Goto, TypeInv, TypeOK
<1>3. Onward
  BY <1>1, <1>2, TaskSets
  DEF Onward, Continues, Answering, Unanswered, Creating, Orderly, Together
<1>4. Calm'
  BY <1>1, CalmMove, TaskSets DEF TypeInv
<1> QED BY <1>1, <1>3, <1>4, OnwardStep DEF TypeInv

LEMMA OrderlyStep ==
  ASSUME TypeInv, TypeInv', ExchangeInv, Orderly, [Next]_vars, net = "open", net' = "open",
         \A t \in Tasks : ~Write(t)
  PROVE  Orderly'
<1> USE DEF TypeInv
<1>1. CASE ReadData
  <2>1. Goto(Reader, "loop") /\ pc[Reader] = "read" /\ UNCHANGED <<wire, h11>>
    BY <1>1 DEF ReadData, At
  <2> QED BY <1>1, <2>1, ReaderOnward DEF ReadData
<1>2. CASE ReadEof
  <2>1. Goto(Reader, "loop") /\ pc[Reader] = "read" /\ UNCHANGED <<wire, h11>>
    BY <1>2 DEF ReadEof, At
  <2> QED BY <1>2, <2>1, ReaderOnward DEF ReadEof
<1>3. CASE ReadFails
  <2>1. Goto(Reader, "closed") /\ pc[Reader] = "read" /\ UNCHANGED <<wire, h11>>
    BY <1>3 DEF ReadFails, At
  <2> QED BY <1>3, <2>1, ReaderOnward DEF ReadFails
<1>4. CASE Paused
  <2>1. Goto(Reader, "paused") /\ pc[Reader] = "loop" /\ UNCHANGED <<wire, h11>>
    BY <1>4 DEF Paused, At
  <2> QED BY <1>4, <2>1, ReaderOnward DEF Paused
<1>5. CASE Resume
  <2>1. Goto(Reader, "loop") /\ pc[Reader] = "paused" /\ UNCHANGED <<wire, h11>>
    BY <1>5 DEF Resume, At
  <2> QED BY <1>5, <2>1, ReaderOnward DEF Resume
<1>6. CASE PutBody
  <2>1. Goto(Reader, "loop") /\ pc[Reader] = "putBody" /\ UNCHANGED <<wire, h11>>
    BY <1>6 DEF PutBody, At
  <2> QED BY <1>6, <2>1, ReaderOnward DEF PutBody
<1>7. CASE Join
  <2>1. Goto(Reader, "finalClose") /\ pc[Reader] = "join" /\ UNCHANGED <<wire, h11>>
    BY <1>7 DEF Join, At
  <2> QED BY <1>7, <2>1, ReaderOnward DEF Join
<1>8. CASE ReaderCloses \/ FinalClose \/ IdleTimeout \/ ConnectionLost
  BY <1>8 DEF ReaderCloses, FinalClose, IdleTimeout, ConnectionLost, CloseTransport
<1>9. CASE ReaderClosed \/ FinalClosed
  BY <1>9 DEF ReaderClosed, FinalClosed
<1>10. CASE Abort
  <2>1. PICK t \in Tasks : At(t, "raised")
    BY <1>10 DEF Abort
  <2> QED BY <2>1 DEF At, Orderly, Calm
<1>11. CASE NothingMore
  <2>1. h11 \in H11Conn /\ Event \in {"need_data", "closed"} /\ h11.theirs # "ERROR"
    BY <1>11 DEF NothingMore, Event, NextEvent, TypeOK
  <2>2. H11Calm /\ (h11'.theirs = "IDLE" => h11' = h11)
    BY <1>11, <2>1, ParsedEffect, ParsedIdle DEF NothingMore, Parsed
  <2>3. Goto(Reader, NextRead) /\ NextRead \in {"read", "closed"} /\ pc[Reader] = "loop" /\ wire' = wire
    BY <1>11 DEF NothingMore, At, NextRead
  <2> QED BY <1>11, <2>2, <2>3, ReaderOnward DEF NothingMore
<1>12. CASE BodyEvent
  <2>1. h11 \in H11Conn /\ Event \in {"data", "end"} /\ h11.theirs # "ERROR"
    BY <1>12 DEF BodyEvent, Event, NextEvent, TypeOK
  <2>2. H11Calm /\ (h11'.theirs = "IDLE" => h11' = h11)
    BY <1>12, <2>1, ParsedEffect, ParsedIdle DEF BodyEvent, Parsed
  <2>3. PICK l \in {"read", "closed", "loop", "putBody"} : Goto(Reader, l)
    BY <1>12 DEF BodyEvent, NextRead
  <2>4. pc[Reader] = "loop" /\ wire' = wire
    BY <1>12 DEF BodyEvent, At
  <2> QED BY <1>12, <2>2, <2>3, <2>4, ReaderOnward DEF BodyEvent
<1>13. CASE RequestEvent
  BY <1>13, RequestOrderly
<1>14. CASE CreateStream
  BY <1>14, CreateOrderly
<1>15. CASE RejectRequest
  BY <1>15, RejectOrderly
<1>16. CASE RejectEnd
  BY <1>16, RejectEndOrderly
<1>17. CASE Rejected
  BY <1>17, RejectedOrderly
<1>18. CASE ProtocolError
  BY <1>18, ProtocolErrorOrderly
<1>19. CASE ErrorEnd
  BY <1>19, ErrorEndOrderly
<1>20. CASE HandleClosed
  <2>1. /\ CloseStream(Reader, "join") /\ wst[Reader] = "no" /\ pc[Reader] = "closed"
        /\ UNCHANGED <<h11, nreq, sstate, wire>>
    BY <1>20 DEF HandleClosed, At
  <2> QED BY <2>1, CloseOrderly, TaskSets DEF Creating, Rejecting
<1>21. CASE Terminate \/ ClientSends \/ ClientEof \/ UNCHANGED vars
  <2>1. UNCHANGED <<wire, writeVars, streamVars, pc, h11>>
    BY <1>21 DEF Terminate, ClientSends, ClientEof, vars, taskVars
  <2> QED BY <2>1, StillOnward
<1>22. ASSUME NEW t \in Tasks, Drained(t) PROVE Orderly'
  BY <1>22, DrainedOrderly
<1>23. ASSUME NEW t \in Tasks, PutLate(t) PROVE Orderly'
  BY <1>23, PutLateOrderly
<1>24. ASSUME NEW t \in Tasks, WriteFails(t) PROVE Orderly'
  BY <1>24 DEF WriteFails
<1>25. ASSUME NEW r \in Apps, Receive(r) PROVE Orderly'
  <2>1. UNCHANGED <<wire, writeVars, streamVars, pc, h11>>
    BY <1>25 DEF Receive, taskVars
  <2> QED BY <2>1, StillOnward
<1>26. ASSUME NEW r \in Apps, Started(r) PROVE Orderly'
  BY <1>26, StartedOrderly
<1>27. ASSUME NEW r \in Apps, ErrorResponseDone(r) PROVE Orderly'
  <2>1. /\ Goto(r, "ended") /\ pc[r] = "errDone"
        /\ UNCHANGED <<wire, wst, lockq, nreq, cur, sclosed, h11>>
        /\ \A q \in Apps : sstate'[q] \in {sstate[q], "CLOSED"}
    BY <1>27 DEF ErrorResponseDone, At, writeVars, TypeOK
  <2>2. Quietly(r, "ended")
    BY DEF Quietly
  <2> QED BY <2>1, <2>2, AppOnward
<1>28. ASSUME NEW r \in Apps, Return(r) PROVE Orderly'
  <2>1. /\ Goto(r, "finish") /\ pc[r] = "run"
        /\ UNCHANGED <<wire, wst, lockq, nreq, cur, sclosed, sstate, h11>>
    BY <1>28 DEF Return, At, writeVars, streamVars
  <2>2. Quietly(r, "finish")
    BY <2>1 DEF Quietly
  <2> QED BY <2>1, <2>2, AppOnward
<1>29. ASSUME NEW r \in Apps, CloseAfterResponse(r) PROVE Orderly'
  BY <1>29 DEF CloseAfterResponse, CloseTransport
<1>30. ASSUME NEW r \in Apps, ClosedAfterResponse(r) PROVE Orderly'
  BY <1>30 DEF ClosedAfterResponse
<1>31. ASSUME NEW r \in Apps, Recycle(r) PROVE Orderly'
  BY <1>31, RecycleOrderly
<1>32. ASSUME NEW r \in Apps, StreamEnded(r) PROVE Orderly'
  <2>1. /\ CloseStream(r, "recycle") /\ wst[r] = "no" /\ pc[r] = "ended"
        /\ UNCHANGED <<h11, nreq, sstate, wire>>
    BY <1>32 DEF StreamEnded, At
  <2>2. Acting(r)
    BY <2>1 DEF Acting, Settled, Spawned
  <2> QED BY <2>1, <2>2, CloseOrderly, TaskSets
<1>33. ASSUME NEW r \in Apps, SendStart(r) PROVE Orderly'
  <2>1. /\ SendH11On(h11, r, "head", AtKeepAliveLimit, "started")
        /\ Unanswered(r) /\ wst[r] = "no" /\ AtKeepAliveLimit \in BOOLEAN
        /\ UNCHANGED <<cur, nreq, sclosed, sstate, wire>>
    BY <1>33 DEF SendStart, MayStart, SendH11, At, Unanswered, streamVars, AtKeepAliveLimit
  <2> QED BY <2>1, AppSendOrderly DEF SendKinds
<1>34. ASSUME NEW r \in Apps, ErrorResponseEnd(r) PROVE Orderly'
  <2>1. /\ SendH11On(h11, r, "end", FALSE, "errDone")
        /\ Answering(r) /\ wst[r] = "no"
        /\ UNCHANGED <<cur, nreq, sclosed, sstate, wire>>
    BY <1>34 DEF ErrorResponseEnd, SendH11, At, Answering, streamVars
  <2> QED BY <2>1, AppSendOrderly DEF SendKinds
<1>35. ASSUME NEW r \in Apps, AfterLastChunk(r) \/ SendEmptyLast(r) PROVE Orderly'
  <2>1. /\ SendH11On(h11, r, "end", FALSE, "ended")
        /\ Answering(r) /\ wst[r] = "no"
        /\ UNCHANGED <<cur, nreq, sclosed, wire>>
        /\ \A q \in Apps \ {r} : sstate'[q] = sstate[q]
    BY <1>35 DEF AfterLastChunk, SendEmptyLast, MayRespond, EndResponse, SendH11, At,
      Answering, streamVars, TypeOK
  <2> QED BY <2>1, AppSendOrderly DEF SendKinds
<1>36. ASSUME NEW r \in Apps, NEW last \in BOOLEAN, SendBody(r, last) PROVE Orderly'
  <2>1. PICK l \in {"bodyEnd", "run"} : l = IF last THEN "bodyEnd" ELSE "run"
    OBVIOUS
  <2>2. /\ SendH11On(h11, r, "data", FALSE, l)
        /\ Answering(r) /\ wst[r] = "no" /\ sstate[r] = "RESPONSE"
        /\ UNCHANGED <<cur, nreq, sclosed, sstate, wire>>
    BY <1>36, <2>1 DEF SendBody, MayRespond, SendH11, At, Answering, streamVars
  <2> QED BY <2>2, AppSendOrderly DEF SendKinds
<1>37. ASSUME NEW r \in Apps, Finish(r) PROVE Orderly'
  <2>1. /\ pc[r] = "finish" /\ wst[r] = "no"
        /\ UNCHANGED <<cur, nreq, sclosed, sstate, wire>>
    BY <1>37 DEF Finish, At, streamVars
  <2>2. CASE sstate[r] = "REQUEST" /\ SendH11On(h11, r, "head", TRUE, "errEnd")
    <3>1. Unanswered(r)
      BY <2>1, <2>2 DEF Unanswered
    <3> QED BY <2>1, <2>2, <3>1, AppSendOrderly DEF SendKinds
  <2>3. ASSUME NEW l \in {"done", "ended"}, Goto(r, l), UNCHANGED <<h11, wst, lockq>>
        PROVE  Orderly'
    <3>1. Quietly(r, l)
      BY DEF Quietly
    <3> QED BY <2>1, <2>3, <3>1, AppOnward
  <2> QED BY <1>37, <2>2, <2>3 DEF Finish, SendH11, writeVars
<1> QED
  BY <1>1, <1>2, <1>3, <1>4, <1>5, <1>6, <1>7, <1>8, <1>9, <1>10, <1>11, <1>12,
     <1>13, <1>14, <1>15, <1>16, <1>17, <1>18, <1>19, <1>20, <1>21, <1>22, <1>23,
     <1>24, <1>25, <1>26, <1>27, <1>28, <1>29, <1>30, <1>31, <1>32, <1>33, <1>34,
     <1>35, <1>36, <1>37
  DEF Next, ReaderStep, StreamStep, AppStep, Environment, WriteStep, Tasks

\* The wire grows by writes alone, and a transport that closes stays closed.
LEMMA WireGrows ==
  ASSUME TypeOK, [Next]_vars
  PROVE  /\ wire' = wire \/ \E t \in Tasks : Write(t)
         /\ net # "open" => net' # "open" /\ wire' = wire
<1>1. ASSUME NEW t \in Tasks, Write(t)
      PROVE  net' = net /\ (net # "open" => wire' = wire)
  BY <1>1 DEF Write, serverVars, TypeOK
<1>2. ASSUME \A t \in Tasks : ~Write(t)
      PROVE  wire' = wire /\ (net # "open" => net' # "open")
  BY <1>2 DEF Next, ReaderStep, StreamStep, AppStep, Environment, WriteStep, vars,
    Tasks, serverVars, CloseTransport, ReadData, ReadEof, ReadFails, RequestEvent,
    CreateStream, RejectRequest, Rejected, RejectEnd, Paused, Resume, NothingMore,
    BodyEvent, PutBody, ProtocolError, ErrorEnd, ReaderCloses, ReaderClosed,
    HandleClosed, Join, Abort, FinalClose, FinalClosed, Drained, WriteFails,
    PutLate, IdleTimeout, Terminate, ClientSends, ClientEof, ConnectionLost,
    Started, AfterLastChunk, EndResponse, Finish, ErrorResponseEnd,
    ErrorResponseDone, StreamEnded, Recycle, CloseAfterResponse,
    ClosedAfterResponse, Receive, SendStart, SendBody, SendEmptyLast, Return
<1> QED BY <1>1, <1>2

LEMMA WireStep ==
  ASSUME TypeInv, TypeInv', ExchangeInv, WireInv, [Next]_vars
  PROVE  WireInv'
<1>1. CASE net # "open"
  <2>1. net' # "open" /\ wire' = wire
    BY <1>1, WireGrows DEF TypeInv
  <2> QED BY <2>1 DEF WireInv, WellFramed, ResponseMatchesRequest, Heads
<1>2. ASSUME net = "open", NEW t \in Tasks, Write(t) PROVE WireInv'
  BY <1>2, WriteOrderly DEF WireInv, TypeInv
<1>3. CASE net = "open" /\ \A t \in Tasks : ~Write(t)
  <2>1. wire' = wire
    BY <1>3, WireGrows DEF TypeInv
  <2>2. net' = "open" => Orderly'
    BY <1>3, OrderlyStep DEF WireInv
  <2> QED BY <2>1, <2>2 DEF WireInv, WellFramed, ResponseMatchesRequest, Heads
<1> QED BY <1>1, <1>2, <1>3

LEMMA WireInit == Init => WireInv
<1> SUFFICES ASSUME Init PROVE WireInv
  OBVIOUS
<1>1. /\ wire = <<>> /\ lockq = <<>> /\ h11 = NewConnection /\ nreq = 0 /\ cur = 0
      /\ \A t \in Tasks : wst[t] = "no" /\ pc[t] \in {"read", "none"}
  BY DEF Init
<1>2. WellFramed /\ ResponseMatchesRequest
  BY <1>1 DEF WellFramed, ResponseMatchesRequest
<1>3. ~Pending /\ Latest.kind = "end"
  BY <1>1 DEF Pending, Latest, Written
<1>4. Begun = 0
  <2>1. Heads(Len(wire)) = {}
    BY <1>1 DEF Heads
  <2> QED BY <1>3, <2>1, FS_EmptySet DEF Begun, Seen
<1>5. Alone /\ Fits /\ Calm
  BY <1>1, <1>3 DEF Alone, Fits, Calm, InWrite, SendKinds
<1>6. Between /\ During /\ After /\ Together
  BY <1>1, <1>3, TaskSets
  DEF Between, During, After, Together, NewConnection, Continues, Answering, Unanswered
<1>7. Answered
  BY <1>1, <1>3, <1>4, TaskSets DEF Answered, Creating, NewConnection
<1> QED BY <1>2, <1>5, <1>6, <1>7 DEF WireInv, Orderly

\* The client sees whole responses, only the last of which may be cut, one for
\* each request and in their order, whatever is pipelined and whoever closes the
\* connection; and h11 has refused nothing while the client kept to HTTP/1
\* (H11Protocol._send_h11_event and _maybe_recycle, TCPServer.protocol_send).
THEOREM ResponsesInOrder == Spec => []Responses
<1>1. Spec => []WireInv
  <2>1. WireInv /\ AllInv /\ AllInv' /\ [Next]_vars => WireInv'
    BY WireStep DEF AllInv
  <2> QED BY <2>1, WireInit, AllInvariant, PTL DEF Spec
<1>2. WireInv /\ LegalSends => Responses
  BY DEF WireInv, Responses
<1> QED BY <1>1, <1>2, Accepted, PTL
=============================================================================
