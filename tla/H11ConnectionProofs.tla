------------------------ MODULE H11ConnectionProofs ------------------------
(***************************************************************************)
(* Theorems about H11Connection, for any number of requests, any queue     *)
(* size, any keep alive limit and whatever the client sends.               *)
(***************************************************************************)
EXTENDS H11Connection, SequenceTheorems, TLAPS

----------------------------------------------------------------------------
(* The inductive invariant.                                                *)

\* A task that waits to put a message waits for a stream that exists.
PutInv ==
  /\ \A t \in Tasks : wst[t] = "put" => tgt[t] \in Apps
  /\ pc[Reader] = "putBody" => tgt[Reader] \in Apps

\* The stream the reader is about to create, or is rejecting.
CreateInv ==
  /\ pc[Reader] \in {"create", "reject"} => nreq < MaxReq
  /\ pc[Reader] \in {"rejectEnd", "rejected"} => nreq # 0

TypeInv == TypeOK /\ PutInv /\ CreateInv

\* A stream is told after it was closed; the task that waits to tell it is
\* the only one, and it has not been told yet.
TellInv ==
  /\ DisconnectOnce
  /\ \A r \in Apps : told[r] = 1 => sclosed[r]
  /\ \A t \in Tasks : wst[t] = "put" => sclosed[tgt[t]] /\ told[tgt[t]] = 0
  /\ \A t, u \in Tasks :
       wst[t] = "put" /\ wst[u] = "put" /\ tgt[t] = tgt[u] => t = u

----------------------------------------------------------------------------
\* What h11 does keeps its connection a connection.
LEMMA SettleType == ASSUME NEW h \in H11Conn PROVE Settle(h) \in H11Conn
BY DEF H11Conn, Settle, TheirStates, OurStates

LEMMA H11Type ==
  ASSUME NEW h \in H11Conn
  PROVE  /\ \A event, token : AfterEvent(h, event, token) \in H11Conn
         /\ \A kind : \A close \in BOOLEAN : AfterSend(h, kind, close) \in H11Conn
         /\ AfterIllegalSend(h) \in H11Conn
         /\ NextCycle(h) \in H11Conn
<1>1. ASSUME NEW event, NEW token
      PROVE  AfterEvent(h, event, token) \in H11Conn
  <2> DEFINE g(t) == [h EXCEPT !.theirs = t]
  <2>1. \A t \in TheirStates : g(t) \in H11Conn
    BY DEF H11Conn
  <2>2. \A t \in TheirStates : Settle(g(t)) \in H11Conn
    BY <2>1, SettleType
  <2>3. [theirs |-> "SEND_BODY", ours |-> "SEND_RESPONSE",
         keep |-> h.keep /\ token # "close"] \in H11Conn
    BY DEF H11Conn, TheirStates, OurStates
  <2> QED BY <2>2, <2>3 DEF AfterEvent, TheirStates
<1>2. ASSUME NEW kind, NEW close \in BOOLEAN
      PROVE  AfterSend(h, kind, close) \in H11Conn
  <2>1. [h EXCEPT !.ours = "SEND_BODY", !.keep = @ /\ ~close] \in H11Conn
    BY DEF H11Conn, OurStates
  <2>2. [h EXCEPT !.ours = "DONE"] \in H11Conn
    BY DEF H11Conn, OurStates
  <2> QED BY <2>1, <2>2, SettleType DEF AfterSend
<1>3. AfterIllegalSend(h) \in H11Conn
  <2>1. [h EXCEPT !.ours = "ERROR"] \in H11Conn
    BY DEF H11Conn, OurStates
  <2> QED BY <2>1, SettleType DEF AfterIllegalSend
<1>4. NextCycle(h) \in H11Conn
  BY DEF NextCycle, H11Conn, TheirStates, OurStates
<1> QED BY <1>1, <1>2, <1>3, <1>4

----------------------------------------------------------------------------
(* What a send and the closing of a stream do to a task.                   *)

Labels == AppPC \cup ReaderPC

\* Task t is moved to one of the labels L, and no other task is.
Moves(t, L) == \E l \in L : Goto(t, l)

LEMMA MovesType ==
  ASSUME TypeOK, NEW t \in Tasks, NEW L, L \subseteq Labels, Moves(t, L)
  PROVE  /\ pc' \in [Tasks -> Labels] /\ pc'[t] \in L
         /\ \A u \in Tasks \ {t} : pc'[u] = pc[u]
BY DEF Moves, Goto, TypeOK, Labels

\* A send leaves the types as they are and starts no put.
LEMMA SendType ==
  ASSUME TypeOK, NEW h \in H11Conn, NEW t \in Tasks, NEW kind \in SendKinds,
         NEW close \in BOOLEAN, NEW next \in Labels,
         SendH11On(h, t, kind, close, next)
  PROVE  /\ h11' \in H11Conn
         /\ wst' \in [Tasks -> SendKinds \cup {"no", "drain", "put"}]
         /\ lockq' \in Seq(Tasks)
         /\ pc' \in [Tasks -> Labels] /\ pc'[t] \in {next, "run", "raised"}
         /\ \A u \in Tasks \ {t} : pc'[u] = pc[u]
         /\ \A u \in Tasks : wst'[u] = "put" => wst[u] = "put"
<1>1. h11' \in H11Conn
  BY H11Type DEF SendH11On
<1>2. wst' \in [Tasks -> SendKinds \cup {"no", "drain", "put"}]
  BY DEF SendH11On, writeVars, TypeOK
<1>3. lockq' \in Seq(Tasks)
  <2>1. lockq \in Seq(Tasks)
    BY DEF TypeOK
  <2>2. Append(lockq, t) \in Seq(Tasks)
    BY <2>1, AppendProperties
  <2> QED BY <2>1, <2>2 DEF SendH11On, writeVars
<1>4. /\ pc' \in [Tasks -> Labels] /\ pc'[t] \in {next, "run", "raised"}
      /\ \A u \in Tasks \ {t} : pc'[u] = pc[u]
  <2>1. Moves(t, {next, "run", "raised"})
    BY DEF SendH11On, Moves, Raised
  <2>2. {next, "run", "raised"} \subseteq Labels
    BY DEF Labels, AppPC
  <2> QED BY <2>1, <2>2, MovesType
<1>5. \A u \in Tasks : wst'[u] = "put" => wst[u] = "put"
  BY DEF SendH11On, writeVars, TypeOK, SendKinds
<1> QED BY <1>1, <1>2, <1>3, <1>4, <1>5

\* A send starts no put.
LEMMA SendPuts ==
  ASSUME TypeOK, NEW h, NEW t \in Tasks, NEW kind, kind # "put", NEW close, NEW next,
         SendH11On(h, t, kind, close, next)
  PROVE  \A u \in Tasks : wst'[u] = "put" => wst[u] = "put"
BY DEF SendH11On, writeVars, TypeOK

\* A put leaves the queues within their size.
LEMMA PutType ==
  ASSUME TypeOK, NEW r \in Apps, PutDisconnect(r)
  PROVE  queued' \in [Apps -> 0 .. QueueSize] /\ told' \in [Apps -> Nat]
BY H11Assumption DEF TypeOK, PutDisconnect, HasRoom

\* Releasing the lock takes the holder off its queue.
LEMMA ReleasedType ==
  ASSUME TypeOK, NEW t \in Tasks, Released(t)
  PROVE  /\ wst' \in [Tasks -> SendKinds \cup {"no", "drain", "put"}]
         /\ lockq' \in Seq(Tasks)
<1>1. wst' \in [Tasks -> SendKinds \cup {"no", "drain", "put"}]
  BY DEF TypeOK, Released
<1>2. lockq' \in Seq(Tasks)
  <2>1. lockq \in Seq(Tasks)
    BY DEF TypeOK
  <2>2. lockq # <<>> => Tail(lockq) \in Seq(Tasks)
    BY <2>1, HeadTailProperties
  <2> QED BY <2>1, <2>2 DEF Released, HasLock
<1> QED BY <1>1, <1>2

\* Closing the current stream leaves the types as they are; a put that waits
\* waits for that stream.
LEMMA CloseStreamType ==
  ASSUME TypeOK, NEW t \in Tasks, NEW next \in Labels, CloseStream(t, next)
  PROVE  /\ cur' \in 0 .. MaxReq
         /\ sclosed' \in [Apps -> BOOLEAN]
         /\ queued' \in [Apps -> 0 .. QueueSize] /\ told' \in [Apps -> Nat]
         /\ wst' \in [Tasks -> SendKinds \cup {"no", "drain", "put"}]
         /\ tgt' \in [Tasks -> 0 .. MaxReq]
         /\ lockq' \in Seq(Tasks)
         /\ pc' \in [Tasks -> Labels] /\ pc'[t] \in {next, "run", "raised"}
         /\ \A u \in Tasks \ {t} : pc'[u] = pc[u]
         /\ \A u \in Tasks : wst'[u] = "put" /\ wst[u] # "put"
                              => u = t /\ tgt'[u] \in Apps
         /\ \A u \in Tasks : tgt'[u] = tgt[u] \/ (u = t /\ tgt'[u] \in Apps)
<1>1. Open(cur) => cur \in Apps
  BY DEF Open, TypeOK, Apps
<1>2. /\ cur' \in 0 .. MaxReq
      /\ sclosed' \in [Apps -> BOOLEAN]
  <2>1. cur' \in {cur, 0}
    BY DEF CloseStream
  <2>2. \/ sclosed' = sclosed
        \/ sclosed' = [sclosed EXCEPT ![cur] = TRUE]
    BY DEF CloseStream
  <2>3. cur \in 0 .. MaxReq /\ MaxReq \in Nat
    BY H11Assumption DEF TypeOK
  <2>4. sclosed \in [Apps -> BOOLEAN]
    BY DEF TypeOK
  <2>5. sclosed' \in [Apps -> BOOLEAN]
    BY <2>2, <2>4
  <2> QED BY <2>1, <2>3, <2>5
<1>3. queued' \in [Apps -> 0 .. QueueSize] /\ told' \in [Apps -> Nat]
  <2>1. \/ queued' = queued /\ told' = told
        \/ Open(cur) /\ PutDisconnect(cur)
    BY DEF CloseStream, queueVars
  <2> QED BY <2>1, <1>1, PutType DEF TypeOK
<1>4. wst' \in [Tasks -> SendKinds \cup {"no", "drain", "put"}]
  BY DEF CloseStream, Released, TypeOK
<1>5. tgt' \in [Tasks -> 0 .. MaxReq]
  BY <1>1 DEF CloseStream, TypeOK
<1>6. lockq' \in Seq(Tasks)
  <2>1. lockq' = lockq \/ Released(t)
    BY DEF CloseStream
  <2> QED BY <2>1, ReleasedType DEF TypeOK
<1>7. /\ pc' \in [Tasks -> Labels] /\ pc'[t] \in {next, "run", "raised"}
      /\ \A u \in Tasks \ {t} : pc'[u] = pc[u]
  <2>1. Moves(t, {next, "run", "raised"})
    BY DEF CloseStream, Moves, Raised
  <2>2. {next, "run", "raised"} \subseteq Labels
    BY DEF Labels, AppPC
  <2> QED BY <2>1, <2>2, MovesType
<1>8. \A u \in Tasks : wst'[u] = "put" /\ wst[u] # "put"
                        => u = t /\ tgt'[u] \in Apps
  <2> SUFFICES ASSUME NEW u \in Tasks, wst'[u] = "put", wst[u] # "put"
               PROVE  u = t /\ tgt'[u] \in Apps
    OBVIOUS
  <2>1. Released(t) => wst' = [wst EXCEPT ![t] = "no"]
    BY DEF Released
  <2>2. wst \in [Tasks -> SendKinds \cup {"no", "drain", "put"}]
    BY DEF TypeOK
  <2>3. tgt \in [Tasks -> 0 .. MaxReq]
    BY DEF TypeOK
  <2>4. ~Released(t)
    BY <2>1, <2>2
  <2>5. /\ Open(cur)
        /\ wst' = [wst EXCEPT ![t] = "put"] /\ tgt' = [tgt EXCEPT ![t] = cur]
    BY <2>4 DEF CloseStream
  <2> QED BY <2>2, <2>3, <2>5, <1>1
<1>9. \A u \in Tasks : tgt'[u] = tgt[u] \/ (u = t /\ tgt'[u] \in Apps)
  BY <1>1 DEF CloseStream, TypeOK
<1> QED BY <1>2, <1>3, <1>4, <1>5, <1>6, <1>7, <1>8, <1>9

\* A step that moves one task, to a place where no put and no new stream is
\* under way, and that leaves streams, queues and writes alone.
LEMMA MoveStep ==
  ASSUME TypeOK, PutInv, CreateInv, NEW t \in Tasks, NEW l \in Labels,
         l \notin {"putBody", "create", "reject", "rejectEnd", "rejected"},
         Goto(t, l),
         UNCHANGED <<clientVars, parserVars, streamVars, queueVars, writeVars,
                     endVars, tgt, wire>>,
         h11' \in H11Conn, canRead' \in BOOLEAN, idle' \in BOOLEAN,
         terminated' \in BOOLEAN, net' \in {"open", "closing", "lost"}
  PROVE  TypeInv'
<1>1. Reader \in Tasks
  BY DEF Tasks, Reader
<1>2. pc' \in [Tasks -> Labels] /\ pc'[t] = l /\ \A u \in Tasks \ {t} : pc'[u] = pc[u]
  BY DEF Goto, TypeOK, Labels
<1>3. TypeOK'
  BY <1>2 DEF TypeOK, Labels, clientVars, parserVars, streamVars, queueVars, writeVars, endVars
<1>4. PutInv'
  <2>1. \A u \in Tasks : wst'[u] = "put" => tgt'[u] \in Apps
    BY DEF PutInv, writeVars
  <2>2. pc'[Reader] = "putBody" => tgt'[Reader] \in Apps
    BY <1>1, <1>2 DEF PutInv
  <2> QED BY <2>1, <2>2 DEF PutInv
<1>5. CreateInv'
  <2>1. pc'[Reader] \in {pc[Reader], l} /\ nreq' = nreq
    BY <1>1, <1>2 DEF streamVars
  <2> QED BY <2>1 DEF CreateInv
<1> QED BY <1>3, <1>4, <1>5 DEF TypeInv

\* Every step keeps the types.
LEMMA TypeStep ==
  ASSUME TypeOK, PutInv, CreateInv, [Next]_vars
  PROVE  TypeInv'
<1>1. CASE ReadData
  <2>1. buf' \in Seq(Tokens) /\ inbox' \in Seq(Tokens)
    BY <1>1, ConcatProperties, EmptySeq DEF ReadData, TypeOK
  <2> QED BY <1>1, <2>1 DEF TypeInv, TypeOK, PutInv, CreateInv, Apps, Tasks, Reader, AppPC, ReaderPC, At, Goto, vars, clientVars, parserVars, streamVars, queueVars, writeVars, taskVars, endVars, serverVars, ReadData
<1>2. CASE ReadEof
  BY <1>2, H11Assumption DEF TypeInv, TypeOK, PutInv, CreateInv, Apps, Tasks, Reader, AppPC, ReaderPC, At, Goto, clientVars, parserVars, streamVars, queueVars, writeVars, taskVars, endVars, serverVars, ReadEof
<1>3. CASE RequestEvent
  <2>1. buf' \in Seq(Tokens)
    <3>1. buf # <<>>
      BY <1>3 DEF RequestEvent, Event, NextEvent, TypeOK, H11Conn, TheirStates
    <3> QED BY <1>3, <3>1, HeadTailProperties DEF RequestEvent, TypeOK
  <2>2. h11' \in H11Conn
    BY <1>3, H11Type DEF RequestEvent, Parsed, TypeOK
  <2>3. nreq < MaxReq /\ nreq' = nreq
    BY <1>3 DEF RequestEvent, streamVars
  <2>4. Moves(Reader, {"create", "reject"})
    BY <1>3 DEF RequestEvent, Moves
  <2>5. pc' \in [Tasks -> Labels] /\ pc'[Reader] \in {"create", "reject"}
    BY <2>4 DEF Moves, Goto, TypeOK, Labels, ReaderPC, Tasks, Reader
  <2>6. TypeOK'
    BY <1>3, <2>1, <2>2, <2>5 DEF RequestEvent, TypeOK, Labels, StopIdle, clientVars, parserVars, streamVars, queueVars, writeVars, taskVars, endVars, serverVars
  <2>7. PutInv'
    BY <1>3, <2>5 DEF RequestEvent, PutInv, TypeInv, clientVars, parserVars, streamVars, queueVars, writeVars, taskVars, endVars, serverVars
  <2>8. CreateInv'
    BY <2>3, <2>5 DEF CreateInv
  <2> QED BY <2>6, <2>7, <2>8 DEF TypeInv
<1>4. CASE CreateStream
  <2>1. nreq < MaxReq /\ nreq + 1 \in Apps /\ nreq + 1 # Reader
    BY <1>4, H11Assumption DEF CreateStream, TypeInv, TypeOK, CreateInv, At, Apps, Reader
  <2>2. pc' \in [Tasks -> Labels] /\ pc'[Reader] = "loop"
    BY <1>4, <2>1 DEF CreateStream, TypeOK, Labels, AppPC, ReaderPC, Tasks
  <2>3. cur' \in 0 .. MaxReq /\ nreq' \in 0 .. MaxReq /\ kareq' \in Nat
    BY <1>4, <2>1, H11Assumption DEF CreateStream, TypeOK
  <2>4. TypeOK'
    BY <1>4, <2>2, <2>3 DEF CreateStream, TypeOK, Labels, clientVars, parserVars, streamVars, queueVars, writeVars, taskVars, endVars, serverVars
  <2>5. PutInv' /\ CreateInv'
    BY <1>4, <2>2 DEF CreateStream, PutInv, CreateInv, TypeInv, clientVars, parserVars, streamVars, queueVars, writeVars, taskVars, endVars, serverVars
  <2> QED BY <2>4, <2>5 DEF TypeInv
<1>5. CASE RejectRequest
  <2>1. SendH11On(h11, Reader, "head", TRUE, "rejectEnd")
    BY <1>5 DEF RejectRequest, SendH11
  <2>2. /\ Reader \in Tasks /\ "head" \in SendKinds /\ h11 \in H11Conn
        /\ TRUE \in BOOLEAN /\ "rejectEnd" \in Labels
    BY DEF Tasks, Apps, Reader, Labels, AppPC, ReaderPC, SendKinds, TypeOK, AtKeepAliveLimit
  <2>3. /\ h11' \in H11Conn
        /\ wst' \in [Tasks -> SendKinds \cup {"no", "drain", "put"}]
        /\ lockq' \in Seq(Tasks)
        /\ pc' \in [Tasks -> Labels] /\ pc'[Reader] \in {"rejectEnd", "run", "raised"}
        /\ \A u \in Tasks \ {Reader} : pc'[u] = pc[u]
        /\ \A u \in Tasks : wst'[u] = "put" => wst[u] = "put"
    BY <2>1, <2>2, SendType
  <2>4. cur' \in 0 .. MaxReq /\ nreq' \in 0 .. MaxReq /\ nreq' # 0
    BY <1>5, H11Assumption DEF RejectRequest, CreateInv, TypeOK, At
  <2>5. TypeOK'
    BY <1>5, <2>3, <2>4 DEF RejectRequest, TypeOK, Labels, clientVars, parserVars, streamVars, queueVars, writeVars, taskVars, endVars, serverVars
  <2>6. PutInv' /\ CreateInv'
    BY <1>5, <2>3, <2>4 DEF RejectRequest, PutInv, CreateInv, Tasks, Apps, Reader, At, clientVars, parserVars, streamVars, queueVars, writeVars, taskVars, endVars, serverVars
  <2> QED BY <2>5, <2>6 DEF TypeInv
<1>6. CASE RejectEnd
  <2>1. SendH11On(h11, Reader, "end", FALSE, "rejected")
    BY <1>6 DEF RejectEnd, SendH11
  <2>2. /\ Reader \in Tasks /\ "end" \in SendKinds /\ h11 \in H11Conn
        /\ FALSE \in BOOLEAN /\ "rejected" \in Labels
    BY DEF Tasks, Apps, Reader, Labels, AppPC, ReaderPC, SendKinds, TypeOK, AtKeepAliveLimit
  <2>3. /\ h11' \in H11Conn
        /\ wst' \in [Tasks -> SendKinds \cup {"no", "drain", "put"}]
        /\ lockq' \in Seq(Tasks)
        /\ pc' \in [Tasks -> Labels] /\ pc'[Reader] \in {"rejected", "run", "raised"}
        /\ \A u \in Tasks \ {Reader} : pc'[u] = pc[u]
        /\ \A u \in Tasks : wst'[u] = "put" => wst[u] = "put"
    BY <2>1, <2>2, SendType
  <2>5. TypeOK'
    BY <1>6, <2>3 DEF RejectEnd, TypeOK, Labels, clientVars, parserVars, streamVars, queueVars, writeVars, taskVars, endVars, serverVars
  <2>6. PutInv' /\ CreateInv'
    BY <1>6, <2>3 DEF RejectEnd, PutInv, CreateInv, Tasks, Apps, Reader, At, clientVars, parserVars, streamVars, queueVars, writeVars, taskVars, endVars, serverVars
  <2> QED BY <2>5, <2>6 DEF TypeInv
<1>7. CASE Rejected
  <2>1. nreq \in Apps
    BY <1>7, H11Assumption DEF Rejected, CreateInv, TypeOK, At, Apps
  <2>2. sstate' \in [Apps -> {"REQUEST", "RESPONSE", "CLOSED"}]
    BY <1>7, <2>1 DEF Rejected, TypeOK
  <2>3. sclosed' \in [Apps -> BOOLEAN] /\ kareq' \in Nat
    BY <1>7, <2>1 DEF Rejected, TypeOK
  <2>4. pc' \in [Tasks -> Labels] /\ pc'[Reader] = "loop"
    BY <1>7 DEF Rejected, Goto, TypeOK, Labels, ReaderPC, Tasks
  <2>5. TypeOK'
    BY <1>7, <2>2, <2>3, <2>4 DEF Rejected, TypeOK, Labels, clientVars, parserVars, streamVars, queueVars, writeVars, taskVars, endVars, serverVars
  <2> QED BY <1>7, <2>4, <2>5 DEF Rejected, TypeInv, PutInv, CreateInv, clientVars, parserVars, streamVars, queueVars, writeVars, taskVars, endVars, serverVars
<1>8. CASE Paused
  <2>1. Reader \in Tasks /\ "paused" \in Labels
        /\ "paused" \notin {"putBody", "create", "reject", "rejectEnd", "rejected"}
    BY DEF Tasks, Reader, Labels, ReaderPC
  <2>2. Goto(Reader, "paused")
    BY <1>8 DEF Paused
  <2>3. UNCHANGED <<clientVars, parserVars, streamVars, queueVars, writeVars,
                    endVars, tgt, wire>>
    BY <1>8 DEF Paused
  <2>4. h11' \in H11Conn
    BY <1>8 DEF Paused, TypeOK
  <2>5. /\ canRead' \in BOOLEAN /\ idle' \in BOOLEAN /\ terminated' \in BOOLEAN
        /\ net' \in {"open", "closing", "lost"}
    BY <1>8 DEF Paused, TypeOK, serverVars
  <2> QED BY <2>1, <2>2, <2>3, <2>4, <2>5, MoveStep
<1>9. CASE Resume
  <2>1. Reader \in Tasks /\ "loop" \in Labels
        /\ "loop" \notin {"putBody", "create", "reject", "rejectEnd", "rejected"}
    BY DEF Tasks, Reader, Labels, ReaderPC
  <2>2. Goto(Reader, "loop")
    BY <1>9 DEF Resume
  <2>3. UNCHANGED <<clientVars, parserVars, streamVars, queueVars, writeVars,
                    endVars, tgt, wire>>
    BY <1>9 DEF Resume
  <2>4. h11' \in H11Conn
    BY <1>9 DEF Resume, TypeOK
  <2>5. /\ canRead' \in BOOLEAN /\ idle' \in BOOLEAN /\ terminated' \in BOOLEAN
        /\ net' \in {"open", "closing", "lost"}
    BY <1>9 DEF Resume, TypeOK, serverVars
  <2> QED BY <2>1, <2>2, <2>3, <2>4, <2>5, MoveStep
<1>10. CASE NothingMore
  <2>1. Reader \in Tasks /\ NextRead \in Labels
        /\ NextRead \notin {"putBody", "create", "reject", "rejectEnd", "rejected"}
    BY DEF Tasks, Reader, Labels, ReaderPC, NextRead
  <2>2. Goto(Reader, NextRead)
    BY <1>10 DEF NothingMore
  <2>3. UNCHANGED <<clientVars, parserVars, streamVars, queueVars, writeVars,
                    endVars, tgt, wire>>
    BY <1>10 DEF NothingMore
  <2>4. h11' \in H11Conn
    BY <1>10, H11Type DEF NothingMore, TypeOK, Parsed
  <2>5. /\ canRead' \in BOOLEAN /\ idle' \in BOOLEAN /\ terminated' \in BOOLEAN
        /\ net' \in {"open", "closing", "lost"}
    BY <1>10 DEF NothingMore, TypeOK, serverVars
  <2> QED BY <2>1, <2>2, <2>3, <2>4, <2>5, MoveStep
<1>11. CASE BodyEvent
  <2>1. h11' \in H11Conn
    BY <1>11, H11Type DEF BodyEvent, Parsed, TypeOK
  <2>2. buf' \in Seq(Tokens)
    <3>1. buf # <<>>
      BY <1>11 DEF BodyEvent, Event, NextEvent
    <3> QED BY <1>11, <3>1, HeadTailProperties DEF BodyEvent, TypeOK
  <2>3. Open(cur) => cur \in Apps
    BY DEF Open, TypeOK, Apps
  <2>4. queued' \in [Apps -> 0 .. QueueSize]
    BY <1>11, <2>3, H11Assumption DEF BodyEvent, HasRoom, TypeOK
  <2>5. /\ tgt' \in [Tasks -> 0 .. MaxReq]
        /\ \A t \in Tasks : tgt'[t] \in {tgt[t]} \cup Apps
    BY <1>11, <2>3 DEF BodyEvent, TypeOK, Tasks
  <2>6. /\ Moves(Reader, {"loop", "putBody", NextRead})
        /\ {"loop", "putBody", NextRead} \subseteq Labels /\ Reader \in Tasks
    BY <1>11 DEF BodyEvent, Moves, NextRead, Labels, ReaderPC, Tasks
  <2>7. pc' \in [Tasks -> Labels] /\ pc'[Reader] \in {"loop", "putBody", NextRead}
    BY <2>6, MovesType
  <2>8. pc'[Reader] = "putBody" => tgt'[Reader] \in Apps
    BY <1>11, <2>3 DEF BodyEvent, NextRead, TypeOK, Goto, Tasks
  <2>9. TypeOK'
    BY <1>11, <2>1, <2>2, <2>4, <2>5, <2>7 DEF BodyEvent, TypeOK, Labels, clientVars, parserVars, streamVars, queueVars, writeVars, taskVars, endVars, serverVars
  <2>10. PutInv' /\ CreateInv'
    BY <1>11, <2>5, <2>7, <2>8 DEF BodyEvent, PutInv, CreateInv, NextRead, clientVars, parserVars, streamVars, queueVars, writeVars, taskVars, endVars, serverVars
  <2> QED BY <2>9, <2>10 DEF TypeInv
<1>12. CASE PutBody
  <2>1. tgt[Reader] \in Apps
    BY <1>12 DEF PutBody, PutInv, TypeInv, At
  <2>2. queued' \in [Apps -> 0 .. QueueSize]
    BY <1>12, <2>1, H11Assumption DEF PutBody, HasRoom, TypeOK
  <2> QED BY <1>12, <2>2 DEF TypeInv, TypeOK, PutInv, CreateInv, Apps, Tasks, Reader, AppPC, ReaderPC, At, Goto, vars, clientVars, parserVars, streamVars, queueVars, writeVars, taskVars, endVars, serverVars, PutBody
<1>13. CASE ProtocolError
  <2> DEFINE h == AfterEvent(h11, "error", "")
  <2>1. h \in H11Conn
    BY H11Type DEF TypeOK
  <2>2. CASE ~MayAnswerError(h)
    <3>1. h11' = h /\ Goto(Reader, "close") /\ UNCHANGED writeVars
      BY <1>13, <2>2 DEF ProtocolError
    <3>2. Moves(Reader, {"close"}) /\ {"close"} \subseteq Labels /\ Reader \in Tasks
      BY <3>1 DEF Moves, Labels, ReaderPC, Tasks
    <3>3. pc' \in [Tasks -> Labels] /\ pc'[Reader] = "close"
      BY <3>2, MovesType
    <3> HIDE DEF h
    <3>4. TypeOK'
      BY <1>13, <2>1, <3>1, <3>3 DEF ProtocolError, TypeOK, Labels, clientVars, parserVars, streamVars, queueVars, writeVars, taskVars, endVars, serverVars
    <3> QED BY <1>13, <3>1, <3>3, <3>4 DEF ProtocolError, TypeInv, PutInv, CreateInv, clientVars, parserVars, streamVars, queueVars, writeVars, taskVars, endVars, serverVars
  <2>3. CASE MayAnswerError(h)
    <3>1. SendH11On(h, Reader, "head", TRUE, "errEnd")
      BY <1>13, <2>3 DEF ProtocolError
    <3>2. Reader \in Tasks /\ "head" \in SendKinds /\ TRUE \in BOOLEAN /\ "errEnd" \in Labels
      BY DEF Tasks, Labels, ReaderPC, SendKinds
    <3> HIDE DEF h
    <3>3. /\ h11' \in H11Conn
          /\ wst' \in [Tasks -> SendKinds \cup {"no", "drain", "put"}]
          /\ lockq' \in Seq(Tasks)
          /\ pc' \in [Tasks -> Labels] /\ pc'[Reader] \in {"errEnd", "run", "raised"}
          /\ \A u \in Tasks : wst'[u] = "put" => wst[u] = "put"
      BY <2>1, <3>1, <3>2, SendType
    <3>4. TypeOK'
      BY <1>13, <3>3 DEF ProtocolError, TypeOK, Labels, clientVars, parserVars, streamVars, queueVars, writeVars, taskVars, endVars, serverVars
    <3>5. PutInv' /\ CreateInv'
      BY <1>13, <3>3 DEF ProtocolError, PutInv, CreateInv, Tasks, clientVars, parserVars, streamVars, queueVars, writeVars, taskVars, endVars, serverVars
    <3> QED BY <3>4, <3>5 DEF TypeInv
  <2> QED BY <2>2, <2>3
<1>14. CASE ErrorEnd
  <2>1. SendH11On(h11, Reader, "end", FALSE, "close")
    BY <1>14 DEF ErrorEnd, SendH11
  <2>2. /\ Reader \in Tasks /\ "end" \in SendKinds /\ h11 \in H11Conn
        /\ FALSE \in BOOLEAN /\ "close" \in Labels
    BY DEF Tasks, Apps, Reader, Labels, AppPC, ReaderPC, SendKinds, TypeOK, AtKeepAliveLimit
  <2>3. /\ h11' \in H11Conn
        /\ wst' \in [Tasks -> SendKinds \cup {"no", "drain", "put"}]
        /\ lockq' \in Seq(Tasks)
        /\ pc' \in [Tasks -> Labels] /\ pc'[Reader] \in {"close", "run", "raised"}
        /\ \A u \in Tasks \ {Reader} : pc'[u] = pc[u]
        /\ \A u \in Tasks : wst'[u] = "put" => wst[u] = "put"
    BY <2>1, <2>2, SendType
  <2>5. TypeOK'
    BY <1>14, <2>3 DEF ErrorEnd, TypeOK, Labels, clientVars, parserVars, streamVars, queueVars, writeVars, taskVars, endVars, serverVars
  <2>6. PutInv' /\ CreateInv'
    BY <1>14, <2>3 DEF ErrorEnd, PutInv, CreateInv, Tasks, Apps, Reader, At, clientVars, parserVars, streamVars, queueVars, writeVars, taskVars, endVars, serverVars
  <2> QED BY <2>5, <2>6 DEF TypeInv
<1>15. CASE ReaderCloses
  <2>1. Reader \in Tasks /\ "waitClosed" \in Labels
        /\ "waitClosed" \notin {"putBody", "create", "reject", "rejectEnd", "rejected"}
    BY DEF Tasks, Reader, Labels, ReaderPC
  <2>2. Goto(Reader, "waitClosed")
    BY <1>15 DEF ReaderCloses
  <2>3. UNCHANGED <<clientVars, parserVars, streamVars, queueVars, writeVars,
                    endVars, tgt, wire>>
    BY <1>15 DEF ReaderCloses
  <2>4. h11' \in H11Conn
    BY <1>15 DEF ReaderCloses, TypeOK
  <2>5. /\ canRead' \in BOOLEAN /\ idle' \in BOOLEAN /\ terminated' \in BOOLEAN
        /\ net' \in {"open", "closing", "lost"}
    BY <1>15 DEF ReaderCloses, TypeOK, serverVars, CloseTransport
  <2> QED BY <2>1, <2>2, <2>3, <2>4, <2>5, MoveStep
<1>16. CASE ReaderClosed
  <2>1. Reader \in Tasks /\ NextRead \in Labels
        /\ NextRead \notin {"putBody", "create", "reject", "rejectEnd", "rejected"}
    BY DEF Tasks, Reader, Labels, ReaderPC, NextRead
  <2>2. Goto(Reader, NextRead)
    BY <1>16 DEF ReaderClosed
  <2>3. UNCHANGED <<clientVars, parserVars, streamVars, queueVars, writeVars,
                    endVars, tgt, wire>>
    BY <1>16 DEF ReaderClosed
  <2>4. h11' \in H11Conn
    BY <1>16 DEF ReaderClosed, TypeOK
  <2>5. /\ canRead' \in BOOLEAN /\ idle' \in BOOLEAN /\ terminated' \in BOOLEAN
        /\ net' \in {"open", "closing", "lost"}
    BY <1>16 DEF ReaderClosed, TypeOK, serverVars
  <2> QED BY <2>1, <2>2, <2>3, <2>4, <2>5, MoveStep
<1>17. CASE HandleClosed
  <2>1. CloseStream(Reader, "join")
    BY <1>17 DEF HandleClosed
  <2>2. Reader \in Tasks /\ "join" \in Labels
    BY DEF Tasks, Apps, Reader, Labels, AppPC, ReaderPC, TypeOK
  <2>3. /\ cur' \in 0 .. MaxReq
        /\ sclosed' \in [Apps -> BOOLEAN]
        /\ queued' \in [Apps -> 0 .. QueueSize] /\ told' \in [Apps -> Nat]
        /\ wst' \in [Tasks -> SendKinds \cup {"no", "drain", "put"}]
        /\ tgt' \in [Tasks -> 0 .. MaxReq]
        /\ lockq' \in Seq(Tasks)
        /\ pc' \in [Tasks -> Labels] /\ pc'[Reader] \in {"join", "run", "raised"}
        /\ \A u \in Tasks \ {Reader} : pc'[u] = pc[u]
        /\ \A u \in Tasks : wst'[u] = "put" /\ wst[u] # "put"
                              => u = Reader /\ tgt'[u] \in Apps
        /\ \A u \in Tasks : tgt'[u] = tgt[u] \/ (u = Reader /\ tgt'[u] \in Apps)
    BY <2>1, <2>2, CloseStreamType
  <2>4. TypeOK'
    BY <1>17, <2>3 DEF HandleClosed, TypeOK, Labels, clientVars, parserVars, streamVars, queueVars, writeVars, taskVars, endVars, serverVars
  <2>5. PutInv' /\ CreateInv'
    BY <1>17, <2>3 DEF HandleClosed, PutInv, CreateInv, Tasks, Apps, Reader, clientVars, parserVars, streamVars, queueVars, writeVars, taskVars, endVars, serverVars
  <2> QED BY <2>4, <2>5 DEF TypeInv
<1>18. CASE Join
  <2>1. Reader \in Tasks /\ "finalClose" \in Labels
        /\ "finalClose" \notin {"putBody", "create", "reject", "rejectEnd", "rejected"}
    BY DEF Tasks, Reader, Labels, ReaderPC
  <2>2. Goto(Reader, "finalClose")
    BY <1>18 DEF Join
  <2>3. UNCHANGED <<clientVars, parserVars, streamVars, queueVars, writeVars,
                    endVars, tgt, wire>>
    BY <1>18 DEF Join
  <2>4. h11' \in H11Conn
    BY <1>18 DEF Join, TypeOK
  <2>5. /\ canRead' \in BOOLEAN /\ idle' \in BOOLEAN /\ terminated' \in BOOLEAN
        /\ net' \in {"open", "closing", "lost"}
    BY <1>18 DEF Join, TypeOK, serverVars
  <2> QED BY <2>1, <2>2, <2>3, <2>4, <2>5, MoveStep
<1>19. CASE Abort
  <2>1. pc' \in [Tasks -> Labels] /\ pc'[Reader] \in {"read", "closed", "join"}
    <3>1. \A t \in Tasks : Cancelled(t) \in Labels
      BY DEF Cancelled, Back, NextRead, Labels, AppPC, ReaderPC
    <3>2. Cancelled(Reader) \in {"read", "closed", "join"}
      BY DEF Cancelled, NextRead
    <3>3. Reader \in Tasks /\ pc' = [t \in Tasks |-> Cancelled(t)]
      BY <1>19 DEF Abort, Tasks
    <3> QED BY <3>1, <3>2, <3>3
  <2>2. /\ wst' \in [Tasks -> SendKinds \cup {"no", "drain", "put"}]
        /\ \A t \in Tasks : wst'[t] = "no"
    BY <1>19 DEF Abort
  <2>3. lockq' \in Seq(Tasks)
    BY <1>19, EmptySeq DEF Abort
  <2>4. TypeOK'
    <3>1. fin' \in [Apps -> BOOLEAN] /\ aborting' \in BOOLEAN
      BY <1>19 DEF Abort
    <3> QED BY <1>19, <2>1, <2>2, <2>3, <3>1 DEF Abort, TypeOK, Labels, clientVars, parserVars, streamVars, queueVars, writeVars, taskVars, endVars, serverVars
  <2> QED BY <1>19, <2>1, <2>2, <2>4 DEF Abort, TypeInv, PutInv, CreateInv
<1>20. CASE FinalClose
  <2>1. Reader \in Tasks /\ "finalWait" \in Labels
        /\ "finalWait" \notin {"putBody", "create", "reject", "rejectEnd", "rejected"}
    BY DEF Tasks, Reader, Labels, ReaderPC
  <2>2. Goto(Reader, "finalWait")
    BY <1>20 DEF FinalClose
  <2>3. UNCHANGED <<clientVars, parserVars, streamVars, queueVars, writeVars,
                    endVars, tgt, wire>>
    BY <1>20 DEF FinalClose
  <2>4. h11' \in H11Conn
    BY <1>20 DEF FinalClose, TypeOK
  <2>5. /\ canRead' \in BOOLEAN /\ idle' \in BOOLEAN /\ terminated' \in BOOLEAN
        /\ net' \in {"open", "closing", "lost"}
    BY <1>20 DEF FinalClose, TypeOK, serverVars, CloseTransport
  <2> QED BY <2>1, <2>2, <2>3, <2>4, <2>5, MoveStep
<1>21. CASE FinalClosed
  <2>1. Reader \in Tasks /\ "ended" \in Labels
        /\ "ended" \notin {"putBody", "create", "reject", "rejectEnd", "rejected"}
    BY DEF Tasks, Reader, Labels, ReaderPC
  <2>2. Goto(Reader, "ended")
    BY <1>21 DEF FinalClosed
  <2>3. UNCHANGED <<clientVars, parserVars, streamVars, queueVars, writeVars,
                    endVars, tgt, wire>>
    BY <1>21 DEF FinalClosed
  <2>4. h11' \in H11Conn
    BY <1>21 DEF FinalClosed, TypeOK
  <2>5. /\ canRead' \in BOOLEAN /\ idle' \in BOOLEAN /\ terminated' \in BOOLEAN
        /\ net' \in {"open", "closing", "lost"}
    BY <1>21 DEF FinalClosed, TypeOK, serverVars
  <2> QED BY <2>1, <2>2, <2>3, <2>4, <2>5, MoveStep
<1>22. CASE ReadFails
  <2>1. Reader \in Tasks /\ "closed" \in Labels
        /\ "closed" \notin {"putBody", "create", "reject", "rejectEnd", "rejected"}
    BY DEF Tasks, Reader, Labels, ReaderPC
  <2>2. Goto(Reader, "closed")
    BY <1>22 DEF ReadFails
  <2>3. UNCHANGED <<clientVars, parserVars, streamVars, queueVars, writeVars,
                    endVars, tgt, wire>>
    BY <1>22 DEF ReadFails
  <2>4. h11' \in H11Conn
    BY <1>22 DEF ReadFails, TypeOK
  <2>5. /\ canRead' \in BOOLEAN /\ idle' \in BOOLEAN /\ terminated' \in BOOLEAN
        /\ net' \in {"open", "closing", "lost"}
    BY <1>22 DEF ReadFails, TypeOK, serverVars
  <2> QED BY <2>1, <2>2, <2>3, <2>4, <2>5, MoveStep
<1>23. CASE IdleTimeout
  <2>1. Open(cur) => cur \in Apps
    BY DEF Open, TypeOK, Apps
  <2>2. queued' \in [Apps -> 0 .. QueueSize] /\ told' \in [Apps -> Nat]
    <3>1. \/ queued' = queued /\ told' = told
          \/ Open(cur) /\ PutDisconnect(cur)
      BY <1>23 DEF IdleTimeout, queueVars
    <3> QED BY <3>1, <2>1, PutType DEF TypeOK
  <2>3. sclosed' \in [Apps -> BOOLEAN]
    <3>1. \/ sclosed' = sclosed
          \/ sclosed' = [sclosed EXCEPT ![cur] = TRUE]
      BY <1>23 DEF IdleTimeout
    <3> QED BY <3>1 DEF TypeOK
  <2>4. cur' \in 0 .. MaxReq /\ idle' \in BOOLEAN
    <3>1. cur' = 0 /\ idle' = FALSE
      BY <1>23 DEF IdleTimeout
    <3>2. cur' \in 0 .. MaxReq
      BY <3>1, H11Assumption
    <3>3. idle' \in BOOLEAN
      BY <3>1
    <3> QED BY <3>2, <3>3
  <2>5. net' \in {"open", "closing", "lost"}
    BY <1>23 DEF IdleTimeout, CloseTransport, TypeOK
  <2>6. TypeOK'
    BY <1>23, <2>2, <2>3, <2>4, <2>5 DEF IdleTimeout, TypeOK, clientVars, parserVars, streamVars, queueVars, writeVars, taskVars, endVars, serverVars
  <2> QED BY <1>23, <2>6 DEF IdleTimeout, TypeInv, PutInv, CreateInv, clientVars, parserVars, streamVars, queueVars, writeVars, taskVars, endVars, serverVars
<1>24. CASE Terminate
  <2>1. UNCHANGED <<pc, wst, tgt, nreq>>
    BY <1>24 DEF Terminate, taskVars, writeVars, streamVars
  <2>2. TypeOK'
    BY <1>24, <2>1 DEF Terminate, TypeOK, clientVars, parserVars, streamVars, queueVars, writeVars, taskVars, endVars, serverVars
  <2> QED BY <2>1, <2>2 DEF TypeInv, PutInv, CreateInv
<1>25. CASE ClientSends
  <2>1. script' \in Seq(Tokens) /\ inbox' \in Seq(Tokens)
    BY <1>25, HeadTailProperties, AppendProperties DEF ClientSends, TypeOK
  <2> QED BY <1>25, <2>1 DEF TypeInv, TypeOK, PutInv, CreateInv, Apps, Tasks, Reader, AppPC, ReaderPC, At, Goto, vars, clientVars, parserVars, streamVars, queueVars, writeVars, taskVars, endVars, serverVars, ClientSends
<1>26. CASE ClientEof
  <2>1. UNCHANGED <<pc, wst, tgt, nreq>>
    BY <1>26 DEF ClientEof, taskVars, writeVars, streamVars
  <2>2. TypeOK'
    BY <1>26, <2>1 DEF ClientEof, TypeOK, clientVars, parserVars, streamVars, queueVars, writeVars, taskVars, endVars, serverVars
  <2> QED BY <2>1, <2>2 DEF TypeInv, PutInv, CreateInv
<1>27. CASE ConnectionLost
  <2>1. UNCHANGED <<pc, wst, tgt, nreq>>
    BY <1>27 DEF ConnectionLost, taskVars, writeVars, streamVars
  <2>2. TypeOK'
    BY <1>27, <2>1 DEF ConnectionLost, TypeOK, clientVars, parserVars, streamVars, queueVars, writeVars, taskVars, endVars, serverVars
  <2> QED BY <2>1, <2>2 DEF TypeInv, PutInv, CreateInv
<1>28. ASSUME NEW t \in Tasks, Write(t) PROVE TypeInv'
  <2>1. wst' \in [Tasks -> SendKinds \cup {"no", "drain", "put"}] /\ wst'[t] = "drain"
    BY <1>28 DEF Write, TypeOK
  <2>2. \A u \in Tasks : wst'[u] = "put" => wst[u] = "put"
    BY <1>28, <2>1 DEF Write, TypeOK
  <2>3. wire' \in Seq([kind : SendKinds, by : Tasks])
    <3>1. [kind |-> wst[t], by |-> t] \in [kind : SendKinds, by : Tasks]
      BY <1>28 DEF Write
    <3>2. Append(wire, [kind |-> wst[t], by |-> t]) \in Seq([kind : SendKinds, by : Tasks])
      BY <3>1, AppendProperties DEF TypeOK
    <3> QED BY <1>28, <3>2 DEF Write, TypeOK
  <2>4. TypeOK'
    BY <1>28, <2>1, <2>3 DEF Write, TypeOK, clientVars, parserVars, streamVars, queueVars, writeVars, taskVars, endVars, serverVars
  <2> QED BY <1>28, <2>2, <2>4 DEF Write, TypeInv, PutInv, CreateInv, clientVars, parserVars, streamVars, queueVars, writeVars, taskVars, endVars, serverVars
<1>29. ASSUME NEW t \in Tasks, Drained(t) PROVE TypeInv'
  <2>1. Released(t) /\ wst' = [wst EXCEPT ![t] = "no"]
    BY <1>29 DEF Drained, Released
  <2>2. /\ wst' \in [Tasks -> SendKinds \cup {"no", "drain", "put"}]
        /\ lockq' \in Seq(Tasks)
    BY <2>1, ReleasedType
  <2>3. \A u \in Tasks : wst'[u] = "put" => wst[u] = "put"
    BY <2>1 DEF TypeOK
  <2>4. TypeOK'
    BY <1>29, <2>2 DEF Drained, TypeOK, clientVars, parserVars, streamVars, queueVars, writeVars, taskVars, endVars, serverVars
  <2> QED BY <1>29, <2>3, <2>4 DEF Drained, TypeInv, PutInv, CreateInv, clientVars, parserVars, streamVars, queueVars, writeVars, taskVars, endVars, serverVars
<1>30. ASSUME NEW t \in Tasks, WriteFails(t) PROVE TypeInv'
  <2>1. CloseStream(t, pc[t])
    BY <1>30 DEF WriteFails
  <2>2. t \in Tasks /\ pc[t] \in Labels
    BY DEF Tasks, Apps, Reader, Labels, AppPC, ReaderPC, TypeOK
  <2>3. /\ cur' \in 0 .. MaxReq
        /\ sclosed' \in [Apps -> BOOLEAN]
        /\ queued' \in [Apps -> 0 .. QueueSize] /\ told' \in [Apps -> Nat]
        /\ wst' \in [Tasks -> SendKinds \cup {"no", "drain", "put"}]
        /\ tgt' \in [Tasks -> 0 .. MaxReq]
        /\ lockq' \in Seq(Tasks)
        /\ pc' \in [Tasks -> Labels] /\ pc'[t] \in {pc[t], "run", "raised"}
        /\ \A u \in Tasks \ {t} : pc'[u] = pc[u]
        /\ \A u \in Tasks : wst'[u] = "put" /\ wst[u] # "put"
                              => u = t /\ tgt'[u] \in Apps
        /\ \A u \in Tasks : tgt'[u] = tgt[u] \/ (u = t /\ tgt'[u] \in Apps)
    BY <2>1, <2>2, CloseStreamType
  <2>4. TypeOK'
    BY <1>30, <2>3 DEF WriteFails, TypeOK, Labels, clientVars, parserVars, streamVars, queueVars, writeVars, taskVars, endVars, serverVars
  <2>5. PutInv' /\ CreateInv'
    BY <1>30, <2>3 DEF WriteFails, PutInv, CreateInv, Tasks, Apps, Reader, clientVars, parserVars, streamVars, queueVars, writeVars, taskVars, endVars, serverVars
  <2> QED BY <2>4, <2>5 DEF TypeInv
<1>31. ASSUME NEW t \in Tasks, PutLate(t) PROVE TypeInv'
  <2>1. Released(t) /\ wst' = [wst EXCEPT ![t] = "no"]
    BY <1>31 DEF PutLate, Released
  <2>2. /\ wst' \in [Tasks -> SendKinds \cup {"no", "drain", "put"}]
        /\ lockq' \in Seq(Tasks)
    BY <2>1, ReleasedType
  <2>3. \A u \in Tasks : wst'[u] = "put" => wst[u] = "put"
    BY <2>1 DEF TypeOK
  <2>4. tgt[t] \in Apps /\ PutDisconnect(tgt[t])
    BY <1>31 DEF PutLate, PutInv
  <2>5. queued' \in [Apps -> 0 .. QueueSize] /\ told' \in [Apps -> Nat]
    BY <2>4, PutType
  <2>6. cur' \in 0 .. MaxReq
    BY <1>31, H11Assumption DEF PutLate
  <2>7. TypeOK'
    BY <1>31, <2>2, <2>5, <2>6 DEF PutLate, TypeOK, clientVars, parserVars, streamVars, queueVars, writeVars, taskVars, endVars, serverVars
  <2> QED BY <1>31, <2>3, <2>7 DEF PutLate, TypeInv, PutInv, CreateInv, clientVars, parserVars, streamVars, queueVars, writeVars, taskVars, endVars, serverVars
<1>32. ASSUME NEW r \in Apps, Started(r) PROVE TypeInv'
  <2>1. sstate' \in [Apps -> {"REQUEST", "RESPONSE", "CLOSED"}]
    BY <1>32 DEF Started, TypeOK
  <2>2. pc' \in [Tasks -> Labels] /\ pc' = [pc EXCEPT ![r] = "run"]
    BY <1>32 DEF Started, Goto, TypeOK, Labels, AppPC, Tasks
  <2>3. TypeOK'
    BY <1>32, <2>1, <2>2 DEF Started, TypeOK, Labels, clientVars, parserVars, streamVars, queueVars, writeVars, taskVars, endVars, serverVars
  <2>4. PutInv' /\ CreateInv'
    BY <1>32, <2>2, H11Assumption DEF Started, Apps, Tasks, Reader, TypeOK, PutInv, CreateInv, clientVars, parserVars, streamVars, queueVars, writeVars, taskVars, endVars, serverVars
  <2> QED BY <2>3, <2>4 DEF TypeInv
<1>33. ASSUME NEW r \in Apps, EndResponse(r) PROVE TypeInv'
  <2>1. SendH11On(h11, r, "end", FALSE, "ended")
    BY <1>33 DEF EndResponse, SendH11
  <2>2. /\ r \in Tasks /\ "end" \in SendKinds /\ h11 \in H11Conn
        /\ FALSE \in BOOLEAN /\ "ended" \in Labels
    BY DEF Tasks, Apps, Reader, Labels, AppPC, ReaderPC, SendKinds, TypeOK, AtKeepAliveLimit
  <2>3. /\ h11' \in H11Conn
        /\ wst' \in [Tasks -> SendKinds \cup {"no", "drain", "put"}]
        /\ lockq' \in Seq(Tasks)
        /\ pc' \in [Tasks -> Labels] /\ pc'[r] \in {"ended", "run", "raised"}
        /\ \A u \in Tasks \ {r} : pc'[u] = pc[u]
        /\ \A u \in Tasks : wst'[u] = "put" => wst[u] = "put"
    BY <2>1, <2>2, SendType
  <2>4. sstate' \in [Apps -> {"REQUEST", "RESPONSE", "CLOSED"}]
    BY <1>33 DEF EndResponse, TypeOK
  <2>5. TypeOK'
    BY <1>33, <2>3, <2>4 DEF EndResponse, TypeOK, Labels, clientVars, parserVars, streamVars, queueVars, writeVars, taskVars, endVars, serverVars
  <2>6. PutInv' /\ CreateInv'
    BY <1>33, <2>3, <2>4 DEF EndResponse, PutInv, CreateInv, Tasks, Apps, Reader, At, clientVars, parserVars, streamVars, queueVars, writeVars, taskVars, endVars, serverVars
  <2> QED BY <2>5, <2>6 DEF TypeInv
<1>34. ASSUME NEW r \in Apps, Finish(r) PROVE TypeInv'
  <2>1. CASE SendH11On(h11, r, "head", TRUE, "errEnd")
    <3>1. r \in Tasks /\ "head" \in SendKinds /\ h11 \in H11Conn /\ TRUE \in BOOLEAN /\ "errEnd" \in Labels
      BY DEF Tasks, Labels, AppPC, SendKinds, TypeOK
    <3>2. /\ h11' \in H11Conn
          /\ wst' \in [Tasks -> SendKinds \cup {"no", "drain", "put"}]
          /\ lockq' \in Seq(Tasks)
          /\ pc' \in [Tasks -> Labels] /\ \A u \in Tasks \ {r} : pc'[u] = pc[u]
          /\ \A u \in Tasks : wst'[u] = "put" => wst[u] = "put"
      BY <2>1, <3>1, SendType
    <3>3. TypeOK'
      BY <1>34, <3>2 DEF Finish, TypeOK, Labels, clientVars, parserVars, streamVars, queueVars, writeVars, taskVars, endVars, serverVars
    <3>4. PutInv' /\ CreateInv'
      BY <1>34, <3>2 DEF Finish, PutInv, CreateInv, Tasks, Apps, Reader, clientVars, parserVars, streamVars, queueVars, writeVars, taskVars, endVars, serverVars
    <3> QED BY <3>3, <3>4 DEF TypeInv
  <2>2. CASE Moves(r, {"done", "ended"}) /\ UNCHANGED <<h11, writeVars>>
    <3>1. {"done", "ended"} \subseteq Labels /\ r \in Tasks /\ r # Reader /\ Reader \in Tasks
      BY DEF Labels, AppPC, Tasks, Apps, Reader
    <3>2. pc' \in [Tasks -> Labels] /\ pc'[Reader] = pc[Reader]
      BY <2>2, <3>1, MovesType
    <3>3. TypeOK'
      BY <1>34, <2>2, <3>2 DEF Finish, TypeOK, Labels, clientVars, parserVars, streamVars, queueVars, writeVars, taskVars, endVars, serverVars
    <3> QED BY <1>34, <2>2, <3>2, <3>3 DEF Finish, TypeInv, PutInv, CreateInv, clientVars, parserVars, streamVars, queueVars, writeVars, taskVars, endVars, serverVars
  <2> QED BY <1>34, <2>1, <2>2 DEF Finish, SendH11, Moves
<1>35. ASSUME NEW r \in Apps, ErrorResponseEnd(r) PROVE TypeInv'
  <2>1. SendH11On(h11, r, "end", FALSE, "errDone")
    BY <1>35 DEF ErrorResponseEnd, SendH11
  <2>2. /\ r \in Tasks /\ "end" \in SendKinds /\ h11 \in H11Conn
        /\ FALSE \in BOOLEAN /\ "errDone" \in Labels
    BY DEF Tasks, Apps, Reader, Labels, AppPC, ReaderPC, SendKinds, TypeOK, AtKeepAliveLimit
  <2>3. /\ h11' \in H11Conn
        /\ wst' \in [Tasks -> SendKinds \cup {"no", "drain", "put"}]
        /\ lockq' \in Seq(Tasks)
        /\ pc' \in [Tasks -> Labels] /\ pc'[r] \in {"errDone", "run", "raised"}
        /\ \A u \in Tasks \ {r} : pc'[u] = pc[u]
        /\ \A u \in Tasks : wst'[u] = "put" => wst[u] = "put"
    BY <2>1, <2>2, SendType
  <2>5. TypeOK'
    BY <1>35, <2>3 DEF ErrorResponseEnd, TypeOK, Labels, clientVars, parserVars, streamVars, queueVars, writeVars, taskVars, endVars, serverVars
  <2>6. PutInv' /\ CreateInv'
    BY <1>35, <2>3 DEF ErrorResponseEnd, PutInv, CreateInv, Tasks, Apps, Reader, At, clientVars, parserVars, streamVars, queueVars, writeVars, taskVars, endVars, serverVars
  <2> QED BY <2>5, <2>6 DEF TypeInv
<1>36. ASSUME NEW r \in Apps, ErrorResponseDone(r) PROVE TypeInv'
  <2>1. sstate' \in [Apps -> {"REQUEST", "RESPONSE", "CLOSED"}]
    BY <1>36 DEF ErrorResponseDone, TypeOK
  <2>2. Moves(r, {"ended"})
    BY <1>36 DEF ErrorResponseDone, Moves
  <2>3. pc' \in [Tasks -> Labels] /\ pc'[Reader] = pc[Reader]
    BY <2>2 DEF Moves, Goto, TypeOK, Labels, AppPC, Tasks, Apps, Reader
  <2>4. TypeOK'
    BY <1>36, <2>1, <2>3 DEF ErrorResponseDone, TypeOK, Labels, clientVars, parserVars, streamVars, queueVars, writeVars, taskVars, endVars, serverVars
  <2> QED BY <1>36, <2>3, <2>4 DEF ErrorResponseDone, TypeInv, PutInv, CreateInv, clientVars, parserVars, streamVars, queueVars, writeVars, taskVars, endVars, serverVars
<1>37. ASSUME NEW r \in Apps, StreamEnded(r) PROVE TypeInv'
  <2>1. CloseStream(r, "recycle")
    BY <1>37 DEF StreamEnded
  <2>2. r \in Tasks /\ "recycle" \in Labels
    BY DEF Tasks, Apps, Reader, Labels, AppPC, ReaderPC, TypeOK
  <2>3. /\ cur' \in 0 .. MaxReq
        /\ sclosed' \in [Apps -> BOOLEAN]
        /\ queued' \in [Apps -> 0 .. QueueSize] /\ told' \in [Apps -> Nat]
        /\ wst' \in [Tasks -> SendKinds \cup {"no", "drain", "put"}]
        /\ tgt' \in [Tasks -> 0 .. MaxReq]
        /\ lockq' \in Seq(Tasks)
        /\ pc' \in [Tasks -> Labels] /\ pc'[r] \in {"recycle", "run", "raised"}
        /\ \A u \in Tasks \ {r} : pc'[u] = pc[u]
        /\ \A u \in Tasks : wst'[u] = "put" /\ wst[u] # "put"
                              => u = r /\ tgt'[u] \in Apps
        /\ \A u \in Tasks : tgt'[u] = tgt[u] \/ (u = r /\ tgt'[u] \in Apps)
    BY <2>1, <2>2, CloseStreamType
  <2>4. TypeOK'
    BY <1>37, <2>3 DEF StreamEnded, TypeOK, Labels, clientVars, parserVars, streamVars, queueVars, writeVars, taskVars, endVars, serverVars
  <2>5. PutInv' /\ CreateInv'
    BY <1>37, <2>3 DEF StreamEnded, PutInv, CreateInv, Tasks, Apps, Reader, clientVars, parserVars, streamVars, queueVars, writeVars, taskVars, endVars, serverVars
  <2> QED BY <2>4, <2>5 DEF TypeInv
<1>38. ASSUME NEW r \in Apps, Recycle(r) PROVE TypeInv'
  <2>1. r \in Tasks /\ Back(r) \in Labels
        /\ Back(r) \notin {"putBody", "create", "reject", "rejectEnd", "rejected"}
    BY DEF Tasks, Labels, AppPC, Back
  <2>2. Goto(r, Back(r))
    BY <1>38 DEF Recycle
  <2>3. UNCHANGED <<clientVars, parserVars, streamVars, queueVars, writeVars,
                    endVars, tgt, wire>>
    BY <1>38 DEF Recycle
  <2>4. h11' \in H11Conn
    BY <1>38, H11Type DEF Recycle, TypeOK
  <2>5. /\ canRead' \in BOOLEAN /\ idle' \in BOOLEAN /\ terminated' \in BOOLEAN
        /\ net' \in {"open", "closing", "lost"}
    BY <1>38 DEF Recycle, TypeOK, serverVars
  <2> QED BY <2>1, <2>2, <2>3, <2>4, <2>5, MoveStep
<1>39. ASSUME NEW r \in Apps, CloseAfterResponse(r) PROVE TypeInv'
  <2>1. r \in Tasks /\ "waitClosed" \in Labels
        /\ "waitClosed" \notin {"putBody", "create", "reject", "rejectEnd", "rejected"}
    BY DEF Tasks, Labels, AppPC
  <2>2. Goto(r, "waitClosed")
    BY <1>39 DEF CloseAfterResponse
  <2>3. UNCHANGED <<clientVars, parserVars, streamVars, queueVars, writeVars,
                    endVars, tgt, wire>>
    BY <1>39 DEF CloseAfterResponse
  <2>4. h11' \in H11Conn
    BY <1>39 DEF CloseAfterResponse, TypeOK
  <2>5. /\ canRead' \in BOOLEAN /\ idle' \in BOOLEAN /\ terminated' \in BOOLEAN
        /\ net' \in {"open", "closing", "lost"}
    BY <1>39 DEF CloseAfterResponse, TypeOK, serverVars, CloseTransport
  <2> QED BY <2>1, <2>2, <2>3, <2>4, <2>5, MoveStep
<1>40. ASSUME NEW r \in Apps, ClosedAfterResponse(r) PROVE TypeInv'
  <2>1. r \in Tasks /\ Back(r) \in Labels
        /\ Back(r) \notin {"putBody", "create", "reject", "rejectEnd", "rejected"}
    BY DEF Tasks, Labels, AppPC, Back
  <2>2. Goto(r, Back(r))
    BY <1>40 DEF ClosedAfterResponse
  <2>3. UNCHANGED <<clientVars, parserVars, streamVars, queueVars, writeVars,
                    endVars, tgt, wire>>
    BY <1>40 DEF ClosedAfterResponse
  <2>4. h11' \in H11Conn
    BY <1>40 DEF ClosedAfterResponse, TypeOK
  <2>5. /\ canRead' \in BOOLEAN /\ idle' \in BOOLEAN /\ terminated' \in BOOLEAN
        /\ net' \in {"open", "closing", "lost"}
    BY <1>40 DEF ClosedAfterResponse, TypeOK, serverVars
  <2> QED BY <2>1, <2>2, <2>3, <2>4, <2>5, MoveStep
<1>41. ASSUME NEW r \in Apps, Receive(r) PROVE TypeInv'
  <2>1. queued[r] > 0 /\ queued' = [queued EXCEPT ![r] = @ - 1]
    BY <1>41 DEF Receive
  <2>2. queued' \in [Apps -> 0 .. QueueSize]
    BY <2>1, H11Assumption DEF TypeOK
  <2>3. UNCHANGED <<clientVars, parserVars, h11, streamVars, told, taskVars, serverVars, wire>>
    BY <1>41 DEF Receive
  <2> QED BY <2>2, <2>3 DEF TypeInv, TypeOK, PutInv, CreateInv, Apps, Tasks, Reader, AppPC, ReaderPC, At, Goto, vars, clientVars, parserVars, streamVars, queueVars, writeVars, taskVars, endVars, serverVars
<1>42. ASSUME NEW r \in Apps, SendStart(r) PROVE TypeInv'
  <2>1. SendH11On(h11, r, "head", AtKeepAliveLimit, "started")
    BY <1>42 DEF SendStart, SendH11
  <2>2. /\ r \in Tasks /\ "head" \in SendKinds /\ h11 \in H11Conn
        /\ AtKeepAliveLimit \in BOOLEAN /\ "started" \in Labels
    BY DEF Tasks, Apps, Reader, Labels, AppPC, ReaderPC, SendKinds, TypeOK, AtKeepAliveLimit
  <2>3. /\ h11' \in H11Conn
        /\ wst' \in [Tasks -> SendKinds \cup {"no", "drain", "put"}]
        /\ lockq' \in Seq(Tasks)
        /\ pc' \in [Tasks -> Labels] /\ pc'[r] \in {"started", "run", "raised"}
        /\ \A u \in Tasks \ {r} : pc'[u] = pc[u]
        /\ \A u \in Tasks : wst'[u] = "put" => wst[u] = "put"
    BY <2>1, <2>2, SendType
  <2>5. TypeOK'
    BY <1>42, <2>3 DEF SendStart, TypeOK, Labels, clientVars, parserVars, streamVars, queueVars, writeVars, taskVars, endVars, serverVars
  <2>6. PutInv' /\ CreateInv'
    BY <1>42, <2>3 DEF SendStart, PutInv, CreateInv, Tasks, Apps, Reader, At, clientVars, parserVars, streamVars, queueVars, writeVars, taskVars, endVars, serverVars
  <2> QED BY <2>5, <2>6 DEF TypeInv
<1>43. ASSUME NEW r \in Apps, NEW last \in BOOLEAN, SendBody(r, last) PROVE TypeInv'
  <2>1. SendH11On(h11, r, "data", FALSE, IF last THEN "bodyEnd" ELSE "run")
    BY <1>43 DEF SendBody, SendH11
  <2>2. /\ r \in Tasks /\ "data" \in SendKinds /\ h11 \in H11Conn
        /\ FALSE \in BOOLEAN /\ (IF last THEN "bodyEnd" ELSE "run") \in Labels
    BY DEF Tasks, Apps, Reader, Labels, AppPC, ReaderPC, SendKinds, TypeOK, AtKeepAliveLimit
  <2>3. /\ h11' \in H11Conn
        /\ wst' \in [Tasks -> SendKinds \cup {"no", "drain", "put"}]
        /\ lockq' \in Seq(Tasks)
        /\ pc' \in [Tasks -> Labels] /\ pc'[r] \in {IF last THEN "bodyEnd" ELSE "run", "run", "raised"}
        /\ \A u \in Tasks \ {r} : pc'[u] = pc[u]
        /\ \A u \in Tasks : wst'[u] = "put" => wst[u] = "put"
    BY <2>1, <2>2, SendType
  <2>5. TypeOK'
    BY <1>43, <2>3 DEF SendBody, TypeOK, Labels, clientVars, parserVars, streamVars, queueVars, writeVars, taskVars, endVars, serverVars
  <2>6. PutInv' /\ CreateInv'
    BY <1>43, <2>3 DEF SendBody, PutInv, CreateInv, Tasks, Apps, Reader, At, clientVars, parserVars, streamVars, queueVars, writeVars, taskVars, endVars, serverVars
  <2> QED BY <2>5, <2>6 DEF TypeInv
<1>44. ASSUME NEW r \in Apps, Return(r) PROVE TypeInv'
  <2>1. fin' \in [Apps -> BOOLEAN]
    BY <1>44 DEF Return, TypeOK
  <2>2. pc' \in [Tasks -> Labels] /\ pc' = [pc EXCEPT ![r] = "finish"]
    BY <1>44 DEF Return, Goto, TypeOK, Labels, AppPC, Tasks
  <2>3. TypeOK'
    BY <1>44, <2>1, <2>2 DEF Return, TypeOK, Labels, clientVars, parserVars, streamVars, queueVars, writeVars, taskVars, endVars, serverVars
  <2>4. PutInv' /\ CreateInv'
    BY <1>44, <2>2, H11Assumption DEF Return, Apps, Tasks, Reader, TypeOK, PutInv, CreateInv, clientVars, parserVars, streamVars, queueVars, writeVars, taskVars, endVars, serverVars
  <2> QED BY <2>3, <2>4 DEF TypeInv
<1>45. CASE UNCHANGED vars
  BY <1>45 DEF TypeInv, TypeOK, PutInv, CreateInv, Apps, Tasks, Reader, AppPC, ReaderPC, At, Goto, clientVars, parserVars, streamVars, queueVars, writeVars, taskVars, endVars, serverVars, vars
<1> QED
  BY <1>1, <1>2, <1>3, <1>4, <1>5, <1>6, <1>7, <1>8, <1>9, <1>10, <1>11, <1>12, <1>13, <1>14, <1>15, <1>16, <1>17, <1>18, <1>19, <1>20, <1>21, <1>22, <1>23, <1>24, <1>25, <1>26, <1>27, <1>28, <1>29, <1>30, <1>31, <1>32, <1>33, <1>34, <1>35, <1>36, <1>37, <1>38, <1>39, <1>40, <1>41, <1>42, <1>43, <1>44, <1>45
  DEF Next, ReaderStep, StreamStep, AppStep, Environment, WriteStep, AfterLastChunk,
      SendEmptyLast, Tasks

----------------------------------------------------------------------------
(* Type correctness.                                                       *)

LEMMA TypeInit == Init => TypeInv
<1> SUFFICES ASSUME Init PROVE TypeInv
  OBVIOUS
<1>1. /\ script \in Seq(Tokens) /\ inbox \in Seq(Tokens) /\ buf \in Seq(Tokens)
      /\ lockq \in Seq(Tasks) /\ wire \in Seq([kind : SendKinds, by : Tasks])
  BY H11Assumption, EmptySeq DEF Init
<1>2. h11 \in H11Conn
  BY DEF Init, NewConnection, H11Conn, TheirStates, OurStates
<1>3. cur \in 0 .. MaxReq /\ nreq \in 0 .. MaxReq /\ kareq \in Nat
  BY H11Assumption DEF Init
<1>4. /\ sclosed \in [Apps -> BOOLEAN] /\ fin \in [Apps -> BOOLEAN]
      /\ sstate \in [Apps -> {"REQUEST", "RESPONSE", "CLOSED"}]
  BY DEF Init
<1>5. /\ queued \in [Apps -> 0 .. QueueSize] /\ told \in [Apps -> Nat]
      /\ tgt \in [Tasks -> 0 .. MaxReq]
  BY H11Assumption DEF Init
<1>6. /\ pc \in [Tasks -> AppPC \cup ReaderPC]
      /\ wst \in [Tasks -> SendKinds \cup {"no", "drain", "put"}]
  BY DEF Init, AppPC, ReaderPC
<1>7. TypeOK
  BY <1>1, <1>2, <1>3, <1>4, <1>5, <1>6 DEF Init, TypeOK
<1>8. PutInv /\ CreateInv
  BY DEF Init, PutInv, CreateInv, Tasks
<1> QED BY <1>7, <1>8 DEF TypeInv

LEMMA TypeInvariant == Spec => []TypeInv
<1>1. TypeInv /\ [Next]_vars => TypeInv'
  BY TypeStep DEF TypeInv
<1> QED BY TypeInit, <1>1, PTL DEF Spec

\* Every variable keeps its type: the application queue stays within
\* max_app_queue_size, whoever puts on it (TaskGroup.spawn_app).
THEOREM TypeCorrect == Spec => []TypeOK
<1>1. TypeInv => TypeOK
  BY DEF TypeInv
<1> QED BY TypeInvariant, <1>1, PTL

----------------------------------------------------------------------------
(* http.disconnect is put once.                                            *)

\* A step that puts no http.disconnect and starts no put of one.
Quiet ==
  /\ told' = told
  /\ \A r \in Apps : sclosed[r] => sclosed'[r]
  /\ \A t \in Tasks : wst'[t] = "put" => wst[t] = "put" /\ tgt'[t] = tgt[t]

LEMMA QuietStep == ASSUME TypeOK, PutInv, TellInv, Quiet PROVE TellInv'
<1>1. DisconnectOnce'
  BY DEF Quiet, TellInv, DisconnectOnce
<1>2. \A r \in Apps : told'[r] = 1 => sclosed'[r]
  BY DEF Quiet, TellInv
<1>3. \A t \in Tasks : wst'[t] = "put" => sclosed'[tgt'[t]] /\ told'[tgt'[t]] = 0
  BY DEF Quiet, TellInv, PutInv
<1>4. \A t, u \in Tasks :
        wst'[t] = "put" /\ wst'[u] = "put" /\ tgt'[t] = tgt'[u] => t = u
  BY DEF Quiet, TellInv
<1> QED BY <1>1, <1>2, <1>3, <1>4 DEF TellInv

\* An open stream has not been told and nobody waits to tell it.
LEMMA OpenUntold ==
  ASSUME TypeOK, TellInv, Open(cur)
  PROVE  /\ cur \in Apps /\ ~sclosed[cur] /\ told[cur] = 0
         /\ \A t \in Tasks : wst[t] = "put" => tgt[t] # cur
<1>1. cur \in Apps /\ ~sclosed[cur]
  BY DEF Open, TypeOK, Apps
<1>2. told[cur] = 0
  <2>1. told[cur] \in Nat
    BY <1>1 DEF TypeOK
  <2>2. told[cur] <= 1
    BY <1>1 DEF TellInv, DisconnectOnce
  <2>3. told[cur] # 1
    BY <1>1 DEF TellInv
  <2> QED BY <2>1, <2>2, <2>3
<1> QED BY <1>1, <1>2 DEF TellInv

\* The open stream is closed and told in one step.
LEMMA TellNow ==
  ASSUME TypeOK, PutInv, TellInv, Open(cur), PutDisconnect(cur),
         sclosed' = [sclosed EXCEPT ![cur] = TRUE],
         \A t \in Tasks : wst'[t] = "put" => wst[t] = "put" /\ tgt'[t] = tgt[t]
  PROVE  TellInv'
<1>1. /\ cur \in Apps /\ told[cur] = 0
      /\ \A t \in Tasks : wst[t] = "put" => tgt[t] # cur
  BY OpenUntold
<1>2. /\ told \in [Apps -> Nat] /\ sclosed \in [Apps -> BOOLEAN]
      /\ told' = [told EXCEPT ![cur] = @ + 1]
  BY DEF TypeOK, PutDisconnect
<1>3. DisconnectOnce'
  BY <1>1, <1>2 DEF TellInv, DisconnectOnce
<1>4. \A r \in Apps : told'[r] = 1 => sclosed'[r]
  BY <1>1, <1>2 DEF TellInv
<1>5. \A t \in Tasks : wst'[t] = "put" => sclosed'[tgt'[t]] /\ told'[tgt'[t]] = 0
  BY <1>1, <1>2 DEF TellInv, PutInv
<1>6. \A t, u \in Tasks :
        wst'[t] = "put" /\ wst'[u] = "put" /\ tgt'[t] = tgt'[u] => t = u
  BY DEF TellInv
<1> QED BY <1>3, <1>4, <1>5, <1>6 DEF TellInv

\* The open stream is closed and task t waits to tell it.
LEMMA TellLater ==
  ASSUME TypeOK, PutInv, TellInv, Open(cur), NEW t \in Tasks, told' = told,
         sclosed' = [sclosed EXCEPT ![cur] = TRUE],
         wst' = [wst EXCEPT ![t] = "put"], tgt' = [tgt EXCEPT ![t] = cur]
  PROVE  TellInv'
<1>1. /\ cur \in Apps /\ told[cur] = 0
      /\ \A u \in Tasks : wst[u] = "put" => tgt[u] # cur
  BY OpenUntold
<1>2. /\ sclosed \in [Apps -> BOOLEAN] /\ tgt \in [Tasks -> 0 .. MaxReq]
      /\ wst \in [Tasks -> SendKinds \cup {"no", "drain", "put"}]
  BY DEF TypeOK
<1>3. DisconnectOnce'
  BY DEF TellInv, DisconnectOnce
<1>4. \A r \in Apps : told'[r] = 1 => sclosed'[r]
  BY <1>1, <1>2 DEF TellInv
<1>5. \A u \in Tasks : wst'[u] = "put" => sclosed'[tgt'[u]] /\ told'[tgt'[u]] = 0
  BY <1>1, <1>2 DEF TellInv, PutInv
<1>6. \A u, v \in Tasks :
        wst'[u] = "put" /\ wst'[v] = "put" /\ tgt'[u] = tgt'[v] => u = v
  BY <1>1, <1>2 DEF TellInv
<1> QED BY <1>3, <1>4, <1>5, <1>6 DEF TellInv

LEMMA CloseStreamTell ==
  ASSUME TypeOK, PutInv, TellInv, NEW t \in Tasks, NEW next, CloseStream(t, next)
  PROVE  TellInv'
<1>1. Released(t) => \A u \in Tasks : wst'[u] = "put" => wst[u] = "put"
  BY DEF Released, TypeOK
<1>2. CASE told' = told /\ tgt' = tgt /\ Released(t)
  <2>1. \A r \in Apps : sclosed[r] => sclosed'[r]
    <3>1. sclosed' = sclosed \/ sclosed' = [sclosed EXCEPT ![cur] = TRUE]
      BY DEF CloseStream
    <3> QED BY <3>1 DEF TypeOK
  <2>2. Quiet
    BY <1>1, <1>2, <2>1 DEF Quiet
  <2> QED BY <2>2, QuietStep
<1>3. CASE Open(cur) /\ PutDisconnect(cur) /\ Released(t) /\ tgt' = tgt
           /\ sclosed' = [sclosed EXCEPT ![cur] = TRUE]
  BY <1>1, <1>3, TellNow
<1>4. CASE /\ Open(cur) /\ told' = told
           /\ sclosed' = [sclosed EXCEPT ![cur] = TRUE]
           /\ wst' = [wst EXCEPT ![t] = "put"] /\ tgt' = [tgt EXCEPT ![t] = cur]
  BY <1>4, TellLater
<1> QED BY <1>2, <1>3, <1>4 DEF CloseStream, queueVars

LEMMA TellStep ==
  ASSUME TypeOK, PutInv, CreateInv, TellInv, [Next]_vars
  PROVE  TellInv'
<1>1. CASE ReadData
  <2>1. Quiet
    BY <1>1 DEF ReadData, Quiet, clientVars, parserVars, streamVars, queueVars, writeVars, taskVars, endVars, serverVars
  <2> QED BY <2>1, QuietStep
<1>2. CASE ReadEof
  <2>1. Quiet
    BY <1>2 DEF ReadEof, Quiet, clientVars, parserVars, streamVars, queueVars, writeVars, taskVars, endVars, serverVars
  <2> QED BY <2>1, QuietStep
<1>3. CASE ReadFails
  <2>1. Quiet
    BY <1>3 DEF ReadFails, Quiet, clientVars, parserVars, streamVars, queueVars, writeVars, taskVars, endVars, serverVars
  <2> QED BY <2>1, QuietStep
<1>4. CASE RequestEvent
  <2>1. Quiet
    BY <1>4 DEF RequestEvent, Quiet, clientVars, parserVars, streamVars, queueVars, writeVars, taskVars, endVars, serverVars
  <2> QED BY <2>1, QuietStep
<1>5. CASE CreateStream
  <2>1. Quiet
    BY <1>5 DEF CreateStream, Quiet, clientVars, parserVars, streamVars, queueVars, writeVars, taskVars, endVars, serverVars
  <2> QED BY <2>1, QuietStep
<1>6. CASE Paused
  <2>1. Quiet
    BY <1>6 DEF Paused, Quiet, clientVars, parserVars, streamVars, queueVars, writeVars, taskVars, endVars, serverVars
  <2> QED BY <2>1, QuietStep
<1>7. CASE Resume
  <2>1. Quiet
    BY <1>7 DEF Resume, Quiet, clientVars, parserVars, streamVars, queueVars, writeVars, taskVars, endVars, serverVars
  <2> QED BY <2>1, QuietStep
<1>8. CASE NothingMore
  <2>1. Quiet
    BY <1>8 DEF NothingMore, Quiet, clientVars, parserVars, streamVars, queueVars, writeVars, taskVars, endVars, serverVars
  <2> QED BY <2>1, QuietStep
<1>9. CASE PutBody
  <2>1. Quiet
    BY <1>9 DEF PutBody, Quiet, clientVars, parserVars, streamVars, queueVars, writeVars, taskVars, endVars, serverVars
  <2> QED BY <2>1, QuietStep
<1>10. CASE ReaderCloses
  <2>1. Quiet
    BY <1>10 DEF ReaderCloses, Quiet, clientVars, parserVars, streamVars, queueVars, writeVars, taskVars, endVars, serverVars
  <2> QED BY <2>1, QuietStep
<1>11. CASE ReaderClosed
  <2>1. Quiet
    BY <1>11 DEF ReaderClosed, Quiet, clientVars, parserVars, streamVars, queueVars, writeVars, taskVars, endVars, serverVars
  <2> QED BY <2>1, QuietStep
<1>12. CASE Join
  <2>1. Quiet
    BY <1>12 DEF Join, Quiet, clientVars, parserVars, streamVars, queueVars, writeVars, taskVars, endVars, serverVars
  <2> QED BY <2>1, QuietStep
<1>13. CASE FinalClose
  <2>1. Quiet
    BY <1>13 DEF FinalClose, Quiet, clientVars, parserVars, streamVars, queueVars, writeVars, taskVars, endVars, serverVars
  <2> QED BY <2>1, QuietStep
<1>14. CASE FinalClosed
  <2>1. Quiet
    BY <1>14 DEF FinalClosed, Quiet, clientVars, parserVars, streamVars, queueVars, writeVars, taskVars, endVars, serverVars
  <2> QED BY <2>1, QuietStep
<1>15. CASE Terminate
  <2>1. Quiet
    BY <1>15 DEF Terminate, Quiet, clientVars, parserVars, streamVars, queueVars, writeVars, taskVars, endVars, serverVars
  <2> QED BY <2>1, QuietStep
<1>16. CASE ClientSends
  <2>1. Quiet
    BY <1>16 DEF ClientSends, Quiet, clientVars, parserVars, streamVars, queueVars, writeVars, taskVars, endVars, serverVars
  <2> QED BY <2>1, QuietStep
<1>17. CASE ClientEof
  <2>1. Quiet
    BY <1>17 DEF ClientEof, Quiet, clientVars, parserVars, streamVars, queueVars, writeVars, taskVars, endVars, serverVars
  <2> QED BY <2>1, QuietStep
<1>18. CASE ConnectionLost
  <2>1. Quiet
    BY <1>18 DEF ConnectionLost, Quiet, clientVars, parserVars, streamVars, queueVars, writeVars, taskVars, endVars, serverVars
  <2> QED BY <2>1, QuietStep
<1>19. ASSUME NEW r \in Apps, Started(r) PROVE TellInv'
  <2>1. Quiet
    BY <1>19 DEF Started, Quiet, clientVars, parserVars, streamVars, queueVars, writeVars, taskVars, endVars, serverVars
  <2> QED BY <2>1, QuietStep
<1>20. ASSUME NEW r \in Apps, ErrorResponseDone(r) PROVE TellInv'
  <2>1. Quiet
    BY <1>20 DEF ErrorResponseDone, Quiet, clientVars, parserVars, streamVars, queueVars, writeVars, taskVars, endVars, serverVars
  <2> QED BY <2>1, QuietStep
<1>21. ASSUME NEW r \in Apps, Recycle(r) PROVE TellInv'
  <2>1. Quiet
    BY <1>21 DEF Recycle, Quiet, clientVars, parserVars, streamVars, queueVars, writeVars, taskVars, endVars, serverVars
  <2> QED BY <2>1, QuietStep
<1>22. ASSUME NEW r \in Apps, CloseAfterResponse(r) PROVE TellInv'
  <2>1. Quiet
    BY <1>22 DEF CloseAfterResponse, Quiet, clientVars, parserVars, streamVars, queueVars, writeVars, taskVars, endVars, serverVars
  <2> QED BY <2>1, QuietStep
<1>23. ASSUME NEW r \in Apps, ClosedAfterResponse(r) PROVE TellInv'
  <2>1. Quiet
    BY <1>23 DEF ClosedAfterResponse, Quiet, clientVars, parserVars, streamVars, queueVars, writeVars, taskVars, endVars, serverVars
  <2> QED BY <2>1, QuietStep
<1>24. ASSUME NEW r \in Apps, Receive(r) PROVE TellInv'
  <2>1. Quiet
    BY <1>24 DEF Receive, Quiet, clientVars, parserVars, streamVars, queueVars, writeVars, taskVars, endVars, serverVars
  <2> QED BY <2>1, QuietStep
<1>25. ASSUME NEW r \in Apps, Return(r) PROVE TellInv'
  <2>1. Quiet
    BY <1>25 DEF Return, Quiet, clientVars, parserVars, streamVars, queueVars, writeVars, taskVars, endVars, serverVars
  <2> QED BY <2>1, QuietStep
<1>26. CASE Rejected
  <2>1. \A r \in Apps : sclosed[r] => sclosed'[r]
    BY <1>26 DEF Rejected, TypeOK
  <2>2. Quiet
    BY <1>26, <2>1 DEF Rejected, Quiet, clientVars, parserVars, streamVars, queueVars, writeVars, taskVars, endVars, serverVars
  <2> QED BY <2>2, QuietStep
<1>27. CASE BodyEvent
  <2>1. \A t \in Tasks : wst[t] = "put" => tgt'[t] = tgt[t]
    BY <1>27 DEF BodyEvent, At, TypeOK
  <2>2. Quiet
    BY <1>27, <2>1 DEF BodyEvent, Quiet, clientVars, parserVars, streamVars, queueVars, writeVars, taskVars, endVars, serverVars
  <2> QED BY <2>2, QuietStep
<1>28. CASE Abort
  <2>1. \A t \in Tasks : wst'[t] = "no"
    BY <1>28 DEF Abort
  <2>2. Quiet
    BY <1>28, <2>1 DEF Abort, Quiet, clientVars, parserVars, streamVars, queueVars, writeVars, taskVars, endVars, serverVars
  <2> QED BY <2>2, QuietStep
<1>29. CASE RejectRequest
  <2>1. SendH11On(h11, Reader, "head", TRUE, "rejectEnd")
    BY <1>29 DEF RejectRequest, SendH11
  <2>2. \A u \in Tasks : wst'[u] = "put" => wst[u] = "put"
    BY <2>1, SendPuts DEF Tasks
  <2>3. Quiet
    BY <1>29, <2>2 DEF RejectRequest, Quiet, clientVars, parserVars, streamVars, queueVars, writeVars, taskVars, endVars, serverVars
  <2> QED BY <2>3, QuietStep
<1>30. CASE RejectEnd
  <2>1. SendH11On(h11, Reader, "end", FALSE, "rejected")
    BY <1>30 DEF RejectEnd, SendH11
  <2>2. \A u \in Tasks : wst'[u] = "put" => wst[u] = "put"
    BY <2>1, SendPuts DEF Tasks
  <2>3. Quiet
    BY <1>30, <2>2 DEF RejectEnd, Quiet, clientVars, parserVars, streamVars, queueVars, writeVars, taskVars, endVars, serverVars
  <2> QED BY <2>3, QuietStep
<1>31. CASE ErrorEnd
  <2>1. SendH11On(h11, Reader, "end", FALSE, "close")
    BY <1>31 DEF ErrorEnd, SendH11
  <2>2. \A u \in Tasks : wst'[u] = "put" => wst[u] = "put"
    BY <2>1, SendPuts DEF Tasks
  <2>3. Quiet
    BY <1>31, <2>2 DEF ErrorEnd, Quiet, clientVars, parserVars, streamVars, queueVars, writeVars, taskVars, endVars, serverVars
  <2> QED BY <2>3, QuietStep
<1>32. ASSUME NEW r \in Apps, SendStart(r) PROVE TellInv'
  <2>1. SendH11On(h11, r, "head", AtKeepAliveLimit, "started")
    BY <1>32 DEF SendStart, SendH11
  <2>2. \A u \in Tasks : wst'[u] = "put" => wst[u] = "put"
    BY <2>1, SendPuts DEF Tasks
  <2>3. Quiet
    BY <1>32, <2>2 DEF SendStart, Quiet, clientVars, parserVars, streamVars, queueVars, writeVars, taskVars, endVars, serverVars
  <2> QED BY <2>3, QuietStep
<1>33. ASSUME NEW r \in Apps, ErrorResponseEnd(r) PROVE TellInv'
  <2>1. SendH11On(h11, r, "end", FALSE, "errDone")
    BY <1>33 DEF ErrorResponseEnd, SendH11
  <2>2. \A u \in Tasks : wst'[u] = "put" => wst[u] = "put"
    BY <2>1, SendPuts DEF Tasks
  <2>3. Quiet
    BY <1>33, <2>2 DEF ErrorResponseEnd, Quiet, clientVars, parserVars, streamVars, queueVars, writeVars, taskVars, endVars, serverVars
  <2> QED BY <2>3, QuietStep
<1>34. ASSUME NEW r \in Apps, EndResponse(r) PROVE TellInv'
  <2>1. SendH11On(h11, r, "end", FALSE, "ended")
    BY <1>34 DEF EndResponse, SendH11
  <2>2. \A u \in Tasks : wst'[u] = "put" => wst[u] = "put"
    BY <2>1, SendPuts DEF Tasks
  <2>3. Quiet
    BY <1>34, <2>2 DEF EndResponse, Quiet, clientVars, parserVars, streamVars, queueVars, writeVars, taskVars, endVars, serverVars
  <2> QED BY <2>3, QuietStep
<1>35. ASSUME NEW r \in Apps, NEW last \in BOOLEAN, SendBody(r, last) PROVE TellInv'
  <2>1. SendH11On(h11, r, "data", FALSE, IF last THEN "bodyEnd" ELSE "run")
    BY <1>35 DEF SendBody, SendH11
  <2>2. \A u \in Tasks : wst'[u] = "put" => wst[u] = "put"
    BY <2>1, SendPuts DEF Tasks
  <2>3. Quiet
    BY <1>35, <2>2 DEF SendBody, Quiet, clientVars, parserVars, streamVars, queueVars, writeVars, taskVars, endVars, serverVars
  <2> QED BY <2>3, QuietStep
<1>36. CASE ProtocolError
  <2>1. \/ UNCHANGED writeVars
        \/ SendH11On(AfterEvent(h11, "error", ""), Reader, "head", TRUE, "errEnd")
    BY <1>36 DEF ProtocolError, SendH11
  <2>2. \A u \in Tasks : wst'[u] = "put" => wst[u] = "put"
    BY <2>1, SendPuts DEF Tasks, writeVars
  <2>3. Quiet
    BY <1>36, <2>2 DEF ProtocolError, Quiet, clientVars, parserVars, streamVars, queueVars, writeVars, taskVars, endVars, serverVars
  <2> QED BY <2>3, QuietStep
<1>37. ASSUME NEW r \in Apps, Finish(r) PROVE TellInv'
  <2>1. \/ UNCHANGED writeVars
        \/ SendH11On(h11, r, "head", TRUE, "errEnd")
    BY <1>37 DEF Finish, SendH11
  <2>2. \A u \in Tasks : wst'[u] = "put" => wst[u] = "put"
    BY <2>1, SendPuts DEF Tasks, writeVars
  <2>3. Quiet
    BY <1>37, <2>2 DEF Finish, Quiet, clientVars, parserVars, streamVars, queueVars, writeVars, taskVars, endVars, serverVars
  <2> QED BY <2>3, QuietStep
<1>38. ASSUME NEW t \in Tasks, Write(t) PROVE TellInv'
  <2>1. \A u \in Tasks : wst'[u] = "put" => wst[u] = "put"
    BY <1>38 DEF Write, Released, TypeOK
  <2>2. Quiet
    BY <1>38, <2>1 DEF Write, Quiet, clientVars, parserVars, streamVars, queueVars, writeVars, taskVars, endVars, serverVars
  <2> QED BY <2>2, QuietStep
<1>39. ASSUME NEW t \in Tasks, Drained(t) PROVE TellInv'
  <2>1. \A u \in Tasks : wst'[u] = "put" => wst[u] = "put"
    BY <1>39 DEF Drained, Released, TypeOK
  <2>2. Quiet
    BY <1>39, <2>1 DEF Drained, Quiet, clientVars, parserVars, streamVars, queueVars, writeVars, taskVars, endVars, serverVars
  <2> QED BY <2>2, QuietStep
<1>40. ASSUME NEW t \in Tasks, PutLate(t) PROVE TellInv'
  <2>1. /\ tgt[t] \in Apps /\ sclosed[tgt[t]] /\ told[tgt[t]] = 0
        /\ \A u \in Tasks \ {t} : wst[u] = "put" => tgt[u] # tgt[t]
    BY <1>40 DEF PutLate, PutInv, TellInv
  <2>2. /\ told \in [Apps -> Nat] /\ told' = [told EXCEPT ![tgt[t]] = @ + 1]
        /\ sclosed' = sclosed /\ tgt' = tgt
    BY <1>40 DEF PutLate, PutDisconnect, TypeOK
  <2>3. \A u \in Tasks : wst'[u] = "put" => wst[u] = "put" /\ u # t
    BY <1>40 DEF PutLate, Released, TypeOK
  <2>4. DisconnectOnce'
    BY <2>1, <2>2 DEF TellInv, DisconnectOnce
  <2>5. \A r \in Apps : told'[r] = 1 => sclosed'[r]
    BY <2>1, <2>2 DEF TellInv
  <2>6. \A u \in Tasks : wst'[u] = "put" => sclosed'[tgt'[u]] /\ told'[tgt'[u]] = 0
    BY <2>1, <2>2, <2>3 DEF TellInv, PutInv
  <2>7. \A u, v \in Tasks :
          wst'[u] = "put" /\ wst'[v] = "put" /\ tgt'[u] = tgt'[v] => u = v
    BY <2>2, <2>3 DEF TellInv
  <2> QED BY <2>4, <2>5, <2>6, <2>7 DEF TellInv
<1>41. CASE HandleClosed
  BY <1>41, CloseStreamTell DEF HandleClosed, Tasks
<1>42. ASSUME NEW r \in Apps, StreamEnded(r) PROVE TellInv'
  BY <1>42, CloseStreamTell DEF StreamEnded, Tasks
<1>43. ASSUME NEW t \in Tasks, WriteFails(t) PROVE TellInv'
  BY <1>43, CloseStreamTell DEF WriteFails
<1>44. CASE IdleTimeout
  <2>1. wst' = wst /\ tgt' = tgt
    BY <1>44 DEF IdleTimeout, taskVars, endVars, writeVars
  <2>2. CASE UNCHANGED <<sclosed, queueVars>>
    BY <2>1, <2>2, QuietStep DEF Quiet, queueVars
  <2>3. CASE /\ Open(cur) /\ PutDisconnect(cur)
             /\ sclosed' = [sclosed EXCEPT ![cur] = TRUE]
    BY <2>1, <2>3, TellNow
  <2> QED BY <1>44, <2>2, <2>3 DEF IdleTimeout
<1>45. CASE UNCHANGED vars
  <2>1. Quiet
    BY <1>45 DEF vars, Quiet, clientVars, parserVars, streamVars, queueVars, writeVars, taskVars, endVars, serverVars
  <2> QED BY <2>1, QuietStep
<1> QED
  BY <1>1, <1>2, <1>3, <1>4, <1>5, <1>6, <1>7, <1>8, <1>9, <1>10, <1>11, <1>12, <1>13, <1>14, <1>15, <1>16, <1>17, <1>18, <1>19, <1>20, <1>21, <1>22, <1>23, <1>24, <1>25, <1>26, <1>27, <1>28, <1>29, <1>30, <1>31, <1>32, <1>33, <1>34, <1>35, <1>36, <1>37, <1>38, <1>39, <1>40, <1>41, <1>42, <1>43, <1>44, <1>45
  DEF Next, ReaderStep, StreamStep, AppStep, Environment, WriteStep, AfterLastChunk,
      SendEmptyLast, Tasks

LEMMA TellInit == Init => TellInv
BY DEF Init, TellInv, DisconnectOnce

\* An application is told http.disconnect at most once, whichever of the
\* reader, a failed write, the idle timer and its own end closes its stream,
\* for any number of requests and any queue size.
THEOREM DisconnectSentOnce == Spec => []DisconnectOnce
<1>1. TypeInv /\ TellInv /\ [Next]_vars => TellInv'
  BY TellStep DEF TypeInv
<1>2. TellInv => DisconnectOnce
  BY DEF TellInv
<1> QED BY TypeInvariant, TellInit, <1>1, <1>2, PTL DEF Spec
=============================================================================
