------------------------ MODULE H2ConnectionProofs ------------------------
(***************************************************************************)
(* Theorems about H2Connection, for any number of streams, any frames of a *)
(* client that h2 accepts, and any sizes of queues, buffers, frames and    *)
(* windows.                                                                *)
(***************************************************************************)
EXTENDS H2Connection, SequenceTheorems, FiniteSetTheorems, TLAPS

----------------------------------------------------------------------------
(* The inductive invariants.                                               *)

\* The event the reader is in the middle of, and the stream the sender is.
HeadInv ==
  /\ pc[Reader] = "putBody" => events # <<>> /\ Head(events)[1] \in {"data", "end"}
  /\ pc[Reader] = "window" => events # <<>> /\ Head(events)[1] = "reset"
ServingInv == pc[Sender] \in {"sent", "finished"} => serving # 0

\* The tree holds the streams that have a buffer in stream_buffers.
TreeInv == \A s \in Streams : buf[s].live => s \in tree

TypeInv == TypeOK /\ HeadInv /\ ServingInv /\ TreeInv

\* The frames on their way to the applications, each pair of them in R.
Ordered(R) ==
  /\ \A i, j \in 1 .. Len(events) : i < j => <<events[i], events[j]>> \in R
  /\ \A i, j \in 1 .. Len(inbox) : i < j => <<inbox[i], inbox[j]>> \in R
  /\ \A i, j \in 1 .. Len(script) : i < j => <<script[i], script[j]>> \in R
  /\ \A i \in 1 .. Len(events), j \in 1 .. Len(inbox) : <<events[i], inbox[j]>> \in R
  /\ \A i \in 1 .. Len(events), j \in 1 .. Len(script) : <<events[i], script[j]>> \in R
  /\ \A i \in 1 .. Len(inbox), j \in 1 .. Len(script) : <<inbox[i], script[j]>> \in R

LegalPairs == {p \in Events \X Events : MayFollow(p[1], p[2])}

\* A stream whose HEADERS are still to come has no application, and is idle
\* while they have not been read.
Coming(s) == \E i \in 1 .. Len(events) : events[i] = <<"headers", s>>
Unread(s) ==
  \/ \E i \in 1 .. Len(inbox) : inbox[i] = <<"headers", s>>
  \/ \E i \in 1 .. Len(script) : script[i] = <<"headers", s>>
OpenedOnce ==
  /\ Ordered(LegalPairs)
  /\ \A s \in Streams :
       /\ Coming(s) \/ Unread(s) => ~Spawned(s)
       /\ Unread(s) => half[s] = "idle"

\* Who waits to tell an application, and who has been told.
Waits ==
  /\ \A t \in Tasks : wst[t] = "put" <=> closing[t] # {}
  /\ \A s \in Streams : s \in streams => Spawned(s) /\ told[s] = 0
  /\ \A t \in Tasks, s \in Streams :
       Telling(t, s) => Spawned(s) /\ told[s] = 0 /\ s \notin streams
  /\ \A t, u \in Tasks, s \in Streams : Telling(t, s) /\ Telling(u, s) => t = u
TellInv ==
  /\ Disconnects /\ Waits
  /\ \A s \in Streams : told[s] # 0 => Spawned(s)

\* A timer that is to be armed finds no stream in the table.
TimerInv ==
  /\ IdleBetweenRequests
  /\ \A r \in Streams : pc[r] = "update" => streams = {} /\ terminated

\* Buffers that are in the dictionary have their applications, no event is left
\* when the reader reads, and h2 is ahead of the GOAWAY or error it closes for.
BufferInv == \A s \in Streams : buf[s].live => Spawned(s)
ReadInv ==
  /\ pc[Reader] = "read" => events = <<>>
  /\ pc[Reader] \in {"close", "waitClosed"} => conn = "closed"
  /\ \A i \in 1 .. Len(events) : events[i][1] = "goaway" => conn = "closed"

SenderInv == BufferInv /\ ReadInv /\ SenderInStep

\* A client that sends no body, and no PRIORITY for a stream it has opened, to
\* a worker that is not shut down.  With any of these the code does raise.
CalmPairs == {p \in Events \X Events : p[2] = <<"priority", p[1][2]>> => p[1][1] # "headers"}
Bodiless == {f \in Events : f[1] # "data"}
Calm ==
  /\ "terminate" \notin Faults
  /\ \A frames \in Scripts :
       /\ \A i \in 1 .. Len(frames) : frames[i] \in Bodiless
       /\ \A i, j \in 1 .. Len(frames) : i < j => <<frames[i], frames[j]>> \in CalmPairs

\* Every frame on its way is one of F.
Within(F) ==
  /\ \A i \in 1 .. Len(events) : events[i] \in F
  /\ \A i \in 1 .. Len(inbox) : inbox[i] \in F
  /\ \A i \in 1 .. Len(script) : script[i] \in F

\* The tree and the dictionary of buffers hold the same streams, once they are
\* opened, and no stream is put in the tree again.
SurviveInv ==
  /\ TasksSurvive /\ ~terminated
  /\ Ordered(CalmPairs) /\ Within(Bodiless)
  /\ \A s \in ready : Spawned(s)
  /\ \A s \in Streams : Spawned(s) =>
       (s \in tree => buf[s].live) /\ Within(Events \ {<<"priority", s>>})

\* How far each application's task is with its response.
AppEnded(s) == sstate[s] = "CLOSED" \/ fin[s]
Finishing == {"finish", "errEnd", "drain", "ended", "left", "update", "done"}
AppInv ==
  \A s \in Streams :
    /\ ~Spawned(s) => ~AppEnded(s)
    /\ fin[s] => pc[s] \in Finishing
    /\ pc[s] \in {"finish", "errEnd"} => fin[s]
    /\ pc[s] = "started" => sstate[s] # "CLOSED"

\* Units numbered from k on.  What the application sent is what h2 has, then
\* what the buffer has, while the stream may go on; it sends nothing once the
\* buffer is complete.
From(q, k) == \A i \in 1 .. Len(q) : q[i] = k + i
InOrder(s) == From(sent[s], 0) /\ From(buf[s].data, Len(sent[s]))
Whole(s) == Len(sent[s]) + Len(buf[s].data) = made[s]
BodyInv ==
  /\ \A s \in Streams :
       /\ buf[s].live => InOrder(s) /\ Whole(s)
       /\ ~Spawned(s) => made[s] = 0 /\ sent[s] = <<>>
       /\ buf[s].live /\ buf[s].complete => AppEnded(s)
       /\ half[s] = "ended" => AppEnded(s)
  /\ pc[Sender] = "sent" => buf[serving].live

----------------------------------------------------------------------------
(* Tasks, frames and small numbers.                                        *)

LEMMA TaskFacts ==
  /\ Reader \in Tasks /\ Sender \in Tasks /\ Streams \subseteq Tasks
  /\ Reader # Sender /\ Reader \notin Streams /\ Sender \notin Streams
  /\ Tasks = Streams \cup {Reader, Sender}
  /\ Streams \subseteq Nat /\ Streams \subseteq 0 .. MaxReq /\ 0 \in 0 .. MaxReq
  /\ 0 .. MaxReq = Streams \cup {0} /\ 0 \notin Streams
BY H2Assumption DEF Reader, Sender, Tasks, Streams

LEMMA MinOfTwo ==
  ASSUME NEW a \in Nat, NEW b \in Nat
  PROVE  Min({a, b}) \in {a, b} /\ Min({a, b}) <= a /\ Min({a, b}) <= b
<1> DEFINE P(x) == x \in {a, b} /\ \A y \in {a, b} : x <= y
<1>1. \E x : P(x)
  <2>1. a <= b => P(a)
    OBVIOUS
  <2>2. b <= a => P(b)
    OBVIOUS
  <2> QED BY <2>1, <2>2
<1>2. P(CHOOSE x : P(x))
  BY <1>1
<1> QED BY <1>2 DEF Min

LEMMA MinOfThree ==
  ASSUME NEW a \in Nat, NEW b \in Nat, NEW c \in Nat
  PROVE  /\ Min({a, b, c}) \in {a, b, c}
         /\ Min({a, b, c}) <= a /\ Min({a, b, c}) <= b /\ Min({a, b, c}) <= c
<1> DEFINE P(x) == x \in {a, b, c} /\ \A y \in {a, b, c} : x <= y
<1>1. \E x : P(x)
  <2>1. a <= b /\ a <= c => P(a)
    OBVIOUS
  <2>2. b <= a /\ b <= c => P(b)
    OBVIOUS
  <2>3. c <= a /\ c <= b => P(c)
    OBVIOUS
  <2> QED BY <2>1, <2>2, <2>3
<1>2. P(CHOOSE x : P(x))
  BY <1>1
<1> QED BY <1>2 DEF Min

\* What is sent for a stream is within both windows and a frame; nothing is
\* only for want of window or data.
LEMMA RoomFacts ==
  ASSUME TypeOK, NEW s \in Streams
  PROVE  /\ Room(s) \in Nat /\ Room(s) <= window[s] /\ Room(s) <= window[0]
         /\ Room(s) = 0 => window[s] = 0 \/ window[0] = 0
         /\ window[s] > 0 /\ window[0] > 0 => Room(s) > 0
<1>1. window[s] \in Nat /\ window[0] \in Nat /\ FrameSize \in Nat \ {0}
  BY TaskFacts, H2Assumption DEF TypeOK
<1> QED BY <1>1, MinOfThree DEF Room

LEMMA PopFacts ==
  ASSUME TypeOK, NEW s \in Streams
  PROVE  /\ ToPop(s) \in Nat /\ ToPop(s) <= Len(buf[s].data) /\ ToPop(s) <= Room(s)
         /\ ToPop(s) = 0 => Room(s) = 0 \/ buf[s].data = <<>>
<1>1. buf[s].data \in Seq(1 .. MaxBody)
  BY DEF TypeOK, Buffers
<1>2. Len(buf[s].data) \in Nat /\ (Len(buf[s].data) = 0 => buf[s].data = <<>>)
  BY <1>1, EmptySeq, LenProperties
<1> QED BY <1>2, RoomFacts, MinOfTwo DEF ToPop

\* The first event, and the rest.
LEMMA EventFacts ==
  ASSUME TypeOK, events # <<>>
  PROVE  /\ Head(events) \in Events /\ Tail(events) \in Seq(Events)
         /\ Len(events) \in Nat \ {0} /\ Head(events) = events[1]
         /\ Len(Tail(events)) = Len(events) - 1
         /\ \A i \in 1 .. Len(Tail(events)) : Tail(events)[i] = events[i + 1]
         /\ Head(events)[1] \in {"headers", "data", "end", "reset", "priority"}
              => EventStream \in Streams
         /\ EventStream \in 0 .. MaxReq
<1>1. events \in Seq(Events)
  BY DEF TypeOK
<1>2. /\ Head(events) \in Events /\ Tail(events) \in Seq(Events)
      /\ Len(events) \in Nat \ {0} /\ Head(events) = events[1]
      /\ Len(Tail(events)) = Len(events) - 1
      /\ \A i \in 1 .. Len(Tail(events)) : Tail(events)[i] = events[i + 1]
  BY <1>1, HeadTailProperties, EmptySeq, LenProperties
<1>3. /\ Head(events)[1] \in {"headers", "data", "end", "reset", "priority"}
           => Head(events)[2] \in Streams
      /\ Head(events)[2] \in 0 .. MaxReq
  BY <1>2, TaskFacts DEF Events, Frames, NoEvent
<1> QED BY <1>2, <1>3 DEF EventStream

----------------------------------------------------------------------------
(* Types: what the building blocks do.                                     *)

\* Where the tasks are: the part of TypeOK that every step disturbs.
Placed ==
  /\ pc \in [Tasks -> AppPC \cup SenderPC \cup ReaderPC]
  /\ pc[Reader] \in ReaderPC /\ pc[Sender] \in SenderPC
  /\ \A s \in Streams : pc[s] \in AppPC
Queued == queued \in [Streams -> 0 .. QueueSize] /\ told \in [Streams -> Nat]
Suspended ==
  /\ wst \in [Tasks -> {"no", "flush", "put"}]
  /\ closing \in [Tasks -> SUBSET Streams] /\ lockq \in Seq(Tasks)

LEMMA GotoType ==
  ASSUME TypeOK, NEW t \in Tasks, NEW l, Goto(t, l),
         \/ t = Reader /\ l \in ReaderPC
         \/ t = Sender /\ l \in SenderPC
         \/ t \in Streams /\ l \in AppPC
  PROVE  Placed' /\ pc'[t] = l /\ \A u \in Tasks \ {t} : pc'[u] = pc[u]
<1>1. pc \in [Tasks -> AppPC \cup SenderPC \cup ReaderPC]
  BY DEF TypeOK
<1>2. l \in AppPC \cup SenderPC \cup ReaderPC
  OBVIOUS
<1>3. /\ pc' \in [Tasks -> AppPC \cup SenderPC \cup ReaderPC]
      /\ pc'[t] = l /\ \A u \in Tasks \ {t} : pc'[u] = pc[u]
  BY <1>1, <1>2 DEF Goto
<1> QED BY <1>3, TaskFacts DEF Placed, TypeOK

LEMMA FlushType ==
  ASSUME TypeOK, NEW t \in Tasks, NEW l, Flush(t, l)
  PROVE  Suspended' /\ Goto(t, l)
<1>1. lockq \in Seq(Tasks) /\ wst \in [Tasks -> {"no", "flush", "put"}]
  BY DEF TypeOK
<1>2. Append(lockq, t) \in Seq(Tasks)
  BY <1>1, AppendProperties
<1> QED BY <1>1, <1>2 DEF Flush, Suspended, TypeOK

LEMMA ReleasedType ==
  ASSUME TypeOK, NEW t \in Tasks, Released(t)
  PROVE  Suspended'
<1>1. lockq \in Seq(Tasks) /\ (lockq # <<>> => Tail(lockq) \in Seq(Tasks))
  BY HeadTailProperties DEF TypeOK
<1> QED BY <1>1 DEF Released, HasLock, Suspended, TypeOK

\* Room in a queue is room for one more message.
LEMMA PutType ==
  ASSUME TypeOK, NEW ss \in SUBSET Streams, \A s \in ss : HasRoom(s),
         NEW disconnect, Put(ss, disconnect)
  PROVE  Queued'
<1>1. /\ queued \in [Streams -> 0 .. QueueSize] /\ told \in [Streams -> Nat]
      /\ QueueSize \in Nat
  BY H2Assumption DEF TypeOK
<1>2. \A s \in ss : queued[s] + 1 \in 0 .. QueueSize
  BY <1>1 DEF HasRoom
<1> QED BY <1>1, <1>2 DEF Put, Queued

LEMMA CloseStreamsType ==
  ASSUME TypeOK, NEW t \in Tasks, NEW ids \in SUBSET Streams,
         NEW now \in SUBSET Streams, \A s \in now : HasRoom(s),
         CloseStreams(t, ids, now)
  PROVE  Queued' /\ Suspended' /\ hasData' \in BOOLEAN /\ streams' \subseteq streams
<1> DEFINE open == ids \cap streams
           full == {s \in open : ~HasRoom(s)}
           before == {s \in open : \A u \in full : s < u}
<1>1. \A s \in before : HasRoom(s)
  <2> SUFFICES ASSUME NEW s \in before, s \in full PROVE FALSE
    OBVIOUS
  <2>1. s < s /\ s \in Nat
    BY TaskFacts
  <2> QED BY <2>1
<1>2. before \subseteq Streams /\ open \subseteq Streams
  OBVIOUS
<1>3. Put(now \cup before, TRUE)
  BY DEF CloseStreams
<1>4. Queued'
  BY <1>1, <1>2, <1>3, PutType
<1>5. Suspended'
  <2>1. CASE Released(t)
    BY <2>1, ReleasedType
  <2>2. CASE /\ wst' = [wst EXCEPT ![t] = "put"]
             /\ closing' = [closing EXCEPT ![t] = open \ before] /\ UNCHANGED lockq
    BY <1>2, <2>2 DEF Suspended, TypeOK
  <2> QED BY <2>1, <2>2 DEF CloseStreams
<1>6. hasData' \in BOOLEAN
  BY DEF CloseStreams, WakeIf, TypeOK
<1>7. streams' \subseteq streams
  BY DEF CloseStreams, Leave
<1> QED BY <1>4, <1>5, <1>6, <1>7

\* A sequence in two parts.
LEMMA SplitFacts ==
  ASSUME NEW S, NEW q \in Seq(S), NEW n \in Nat, n <= Len(q)
  PROVE  /\ SubSeq(q, n + 1, Len(q)) \in Seq(S)
         /\ Len(SubSeq(q, n + 1, Len(q))) = Len(q) - n
         /\ \A i \in 1 .. Len(q) - n : SubSeq(q, n + 1, Len(q))[i] = q[n + i]
         /\ SubSeq(q, 1, n) \in Seq(S) /\ Len(SubSeq(q, 1, n)) = n
         /\ \A i \in 1 .. n : SubSeq(q, 1, n)[i] = q[i]
<1>1. Len(q) \in Nat /\ \A i \in 1 .. Len(q) : q[i] \in S
  BY LenProperties, ElementOfSeq
<1> DEFINE m == n + 1
           k == Len(q)
<1>2. /\ SubSeq(q, m, k) \in Seq(S)
      /\ Len(SubSeq(q, m, k)) = IF m <= k THEN k - m + 1 ELSE 0
      /\ \A i \in 1 .. k - m + 1 : SubSeq(q, m, k)[i] = q[m + i - 1]
  <2>1. m \in Int /\ k \in Int /\ \A i \in m .. k : q[i] \in S
    BY <1>1
  <2> HIDE DEF m, k
  <2> QED BY <2>1, SubSeqProperties
<1>3. /\ SubSeq(q, 1, n) \in Seq(S)
      /\ Len(SubSeq(q, 1, n)) = IF 1 <= n THEN n - 1 + 1 ELSE 0
      /\ \A i \in 1 .. n - 1 + 1 : SubSeq(q, 1, n)[i] = q[1 + i - 1]
  <2>1. 1 \in Int /\ n \in Int /\ \A i \in 1 .. n : q[i] \in S
    BY <1>1
  <2> QED BY <2>1, SubSeqProperties
<1>4. n - 1 + 1 = n /\ \A i \in 1 .. n : 1 + i - 1 = i
  OBVIOUS
<1>5. Len(SubSeq(q, 1, n)) = n /\ \A i \in 1 .. n : SubSeq(q, 1, n)[i] = q[i]
  <2>1. Len(SubSeq(q, 1, n)) = n
    BY <1>3
  <2>2. ASSUME NEW i \in 1 .. n PROVE SubSeq(q, 1, n)[i] = q[i]
    BY <1>3, <1>4, <2>2
  <2> QED BY <2>1, <2>2
<1>6. k - m + 1 = k - n /\ \A i \in 1 .. k - n : m + i - 1 = n + i
  BY <1>1
<1>7. Len(SubSeq(q, m, k)) = k - n
  BY <1>1, <1>2
<1>8. ASSUME NEW i \in 1 .. k - n PROVE SubSeq(q, m, k)[i] = q[n + i]
  BY <1>2, <1>6, <1>8
<1> QED BY <1>2, <1>3, <1>5, <1>7, <1>8

\* StreamBuffer.pop takes the first units and leaves the others.
LEMMA PoppedFacts ==
  ASSUME TypeOK, NEW s \in Streams, NEW n \in Nat, n <= Len(buf[s].data)
  PROVE  /\ Popped(s, n) \in Buffers
         /\ Popped(s, n).complete = buf[s].complete /\ Popped(s, n).live = buf[s].live
         /\ Popped(s, n).data = SubSeq(buf[s].data, n + 1, Len(buf[s].data))
         /\ Len(Popped(s, n).data) = Len(buf[s].data) - n
         /\ \A i \in 1 .. Len(Popped(s, n).data) : Popped(s, n).data[i] = buf[s].data[n + i]
         /\ SubSeq(buf[s].data, 1, n) \in Seq(1 .. MaxBody)
         /\ Len(SubSeq(buf[s].data, 1, n)) = n
         /\ \A i \in 1 .. n : SubSeq(buf[s].data, 1, n)[i] = buf[s].data[i]
<1> DEFINE data == buf[s].data
<1>1. buf[s] \in Buffers /\ data \in Seq(1 .. MaxBody)
  BY DEF TypeOK, Buffers
<1>2. data \in Seq(1 .. MaxBody) /\ n \in Nat /\ n <= Len(data)
  BY <1>1
<1> HIDE DEF data
<1>3. /\ SubSeq(data, n + 1, Len(data)) \in Seq(1 .. MaxBody)
      /\ Len(SubSeq(data, n + 1, Len(data))) = Len(data) - n
      /\ \A i \in 1 .. Len(data) - n : SubSeq(data, n + 1, Len(data))[i] = data[n + i]
      /\ SubSeq(data, 1, n) \in Seq(1 .. MaxBody) /\ Len(SubSeq(data, 1, n)) = n
      /\ \A i \in 1 .. n : SubSeq(data, 1, n)[i] = data[i]
  BY <1>2, SplitFacts
<1>5. Popped(s, n) \in Buffers
  BY <1>1, <1>3 DEF Popped, Buffers, data
<1> QED BY <1>3, <1>5 DEF Popped, data

LEMMA SendDataType ==
  ASSUME TypeOK, NEW s \in Streams, NEW units \in Seq(1 .. MaxBody),
         Len(units) <= Room(s), SendData(s, units)
  PROVE  window' \in [0 .. MaxReq -> Nat] /\ sent' \in [Streams -> Seq(1 .. MaxBody)]
<1>1. /\ window \in [0 .. MaxReq -> Nat] /\ sent \in [Streams -> Seq(1 .. MaxBody)]
      /\ s \in 0 .. MaxReq /\ 0 \in 0 .. MaxReq /\ s # 0 /\ Len(units) \in Nat
  BY TaskFacts, LenProperties DEF TypeOK
<1>2. window[s] - Len(units) \in Nat /\ window[0] - Len(units) \in Nat
  BY <1>1, RoomFacts
<1>3. window' \in [0 .. MaxReq -> Nat]
  BY <1>1, <1>2 DEF SendData
<1>4. sent[s] \o units \in Seq(1 .. MaxBody)
  BY <1>1, ConcatProperties
<1> QED BY <1>1, <1>3, <1>4 DEF SendData

----------------------------------------------------------------------------
(* Types: the parts of the state, and what leaves them alone.              *)

Client ==
  /\ script \in Seq(Frames) /\ inbox \in Seq(Frames) /\ events \in Seq(Events)
  /\ eof \in BOOLEAN
Library ==
  /\ conn \in {"open", "closed"}
  /\ half \in [Streams -> {"idle", "open", "ended", "reset"}]
  /\ theirEnd \in [Streams -> BOOLEAN]
  /\ window \in [0 .. MaxReq -> Nat]
  /\ sent \in [Streams -> Seq(1 .. MaxBody)]
Table == streams \subseteq Streams /\ kareq \in Nat /\ closed \in BOOLEAN
Sending ==
  /\ buf \in [Streams -> Buffers]
  /\ tree \subseteq Streams /\ ready \subseteq tree /\ hasData \in BOOLEAN
  /\ serving \in 0 .. MaxReq
  /\ TreeInv
Apps ==
  /\ sstate \in [Streams -> {"REQUEST", "RESPONSE", "CLOSED"}]
  /\ fin \in [Streams -> BOOLEAN] /\ made \in [Streams -> 0 .. MaxBody]
Server ==
  /\ idle \in BOOLEAN /\ terminated \in BOOLEAN /\ aborting \in BOOLEAN
  /\ net \in {"open", "closing", "lost"}

LEMMA Parts ==
  TypeInv => /\ Client /\ Library /\ Table /\ Sending /\ Apps /\ Server
             /\ Queued /\ Placed /\ Suspended
BY DEF TypeInv, TypeOK, Client, Library, Table, Sending, Apps, Server, Queued, Placed, Suspended

LEMMA PartsAfter ==
  ASSUME Client', Library', Table', Sending', Apps', Server', Queued', Placed', Suspended'
  PROVE  TypeOK' /\ TreeInv'
BY DEF TypeOK, Client, Library, Table, Sending, Apps, Server, Queued, Placed, Suspended

LEMMA Kept ==
  ASSUME TypeInv
  PROVE  /\ UNCHANGED clientVars => Client'
         /\ UNCHANGED h2Vars => Library'
         /\ UNCHANGED protocolVars => Table'
         /\ UNCHANGED sendVars => Sending'
         /\ UNCHANGED appVars => Apps'
         /\ UNCHANGED serverVars => Server'
         /\ UNCHANGED queueVars => Queued'
         /\ UNCHANGED pc => Placed'
         /\ UNCHANGED waitVars => Suspended'
<1>1. UNCHANGED clientVars => Client'
  BY Parts DEF clientVars, Client
<1>2. UNCHANGED h2Vars => Library'
  BY Parts DEF h2Vars, Library
<1>3. UNCHANGED protocolVars => Table'
  BY Parts DEF protocolVars, Table
<1>4. UNCHANGED sendVars => Sending'
  BY Parts DEF sendVars, Sending, TreeInv
<1>5. UNCHANGED appVars => Apps'
  BY Parts DEF appVars, Apps
<1>6. UNCHANGED serverVars => Server'
  BY Parts DEF serverVars, Server
<1>7. UNCHANGED queueVars => Queued'
  BY Parts DEF queueVars, Queued
<1>8. UNCHANGED pc => Placed'
  BY Parts DEF Placed
<1>9. UNCHANGED waitVars => Suspended'
  BY Parts DEF waitVars, Suspended
<1> QED BY <1>1, <1>2, <1>3, <1>4, <1>5, <1>6, <1>7, <1>8, <1>9

\* What a write does: flushed, failed, or told late.
LEMMA WriteType ==
  ASSUME TypeInv, NEW t \in Tasks, WriteStep(t)
  PROVE  TypeOK' /\ TreeInv' /\ UNCHANGED <<pc, events, serving>>
<1>0. TypeOK
  BY DEF TypeInv
<1>1. CASE Flushed(t)
  <2>1. Suspended'
    BY <1>0, <1>1, ReleasedType DEF Flushed
  <2> QED BY <1>1, <2>1, Kept, PartsAfter DEF Flushed, clientVars, sendVars
<1>2. CASE FlushFails(t)
  <2>1. /\ streams \in SUBSET Streams /\ CloseStreams(t, streams, {}) /\ closed' = TRUE
        /\ UNCHANGED kareq
    BY <1>0, <1>2 DEF FlushFails, TypeOK
  <2>2. Queued' /\ Suspended' /\ hasData' \in BOOLEAN /\ streams' \subseteq streams
    BY <1>0, <2>1, CloseStreamsType
  <2>3. Table'
    BY <1>0, <2>1, <2>2 DEF TypeOK, Table
  <2>4. Sending'
    BY <1>0, <1>2, <2>2 DEF FlushFails, Sending, TypeOK, TypeInv, TreeInv
  <2> QED BY <1>2, <2>2, <2>3, <2>4, Kept, PartsAfter DEF FlushFails, clientVars
<1>3. CASE PutLate(t)
  <2>1. PICK s \in Streams : HasRoom(s) /\ CloseStreams(t, closing[t] \ {s}, {s})
    BY <1>3 DEF PutLate
  <2>2. closing[t] \ {s} \in SUBSET Streams /\ {s} \in SUBSET Streams
    BY <1>0 DEF TypeOK
  <2>3. Queued' /\ Suspended' /\ hasData' \in BOOLEAN /\ streams' \subseteq streams
    BY <1>0, <2>1, <2>2, CloseStreamsType
  <2>4. Table'
    BY <1>0, <1>3, <2>3 DEF PutLate, TypeOK, Table
  <2>5. Sending'
    BY <1>0, <1>3, <2>3 DEF PutLate, Sending, TypeOK, TypeInv, TreeInv
  <2> QED BY <1>3, <2>3, <2>4, <2>5, Kept, PartsAfter DEF PutLate, clientVars
<1> QED BY <1>1, <1>2, <1>3 DEF WriteStep

LEMMA SendHeadersType ==
  ASSUME TypeInv, NEW r \in Streams, NEW l \in AppPC, SendHeaders(r, l)
  PROVE  Suspended' /\ Placed' /\ Goto(r, l)
<1>0. TypeOK
  BY DEF TypeInv
<1>1. CASE CanSend(r)
  <2>1. Flush(r, l)
    BY <1>1 DEF SendHeaders
  <2> QED BY <1>0, <2>1, FlushType, GotoType, TaskFacts
<1>2. CASE ~CanSend(r)
  <2>1. Goto(r, l) /\ UNCHANGED waitVars
    BY <1>2 DEF SendHeaders
  <2> QED BY <1>0, <2>1, Kept, GotoType, TaskFacts
<1> QED BY <1>1, <1>2

LEMMA WindowsType == ASSUME TypeOK, NEW s PROVE Windows(s) \in Nat
<1>1. inbox \in Seq(Frames)
  BY DEF TypeOK
<1>2. DOMAIN inbox = 1 .. Len(inbox) /\ Len(inbox) \in Nat
  BY <1>1, LenProperties
<1>3. IsFiniteSet(1 .. Len(inbox))
  BY <1>2, FS_Interval
<1>4. IsFiniteSet({i \in DOMAIN inbox : inbox[i] = <<"window", s>>})
  BY <1>2, <1>3, FS_Subset
<1> QED BY <1>4, FS_CardinalityType DEF Windows

----------------------------------------------------------------------------
(* Types: the reader's steps.                                              *)

LEMMA NextReads ==
  NextRead \in {"closed", "read"} /\ AfterClosing \in {"closed", "read", "events"}
BY DEF NextRead, AfterClosing

\* A step that takes the next event, or none, and moves the reader.
LEMMA ReaderAt ==
  ASSUME TypeInv, NEW l \in ReaderPC, Goto(Reader, l), UNCHANGED serving,
         l = "putBody" => events' # <<>> /\ Head(events')[1] \in {"data", "end"},
         l = "window" => events' # <<>> /\ Head(events')[1] = "reset"
  PROVE  Placed' /\ HeadInv' /\ ServingInv'
<1>1. Placed' /\ pc'[Reader] = l /\ \A u \in Tasks \ {Reader} : pc'[u] = pc[u]
  BY GotoType, TaskFacts DEF TypeInv
<1>2. pc'[Sender] = pc[Sender]
  BY <1>1, TaskFacts
<1> QED BY <1>1, <1>2 DEF HeadInv, ServingInv, TypeInv

\* ... one that leaves it where it is between two events.
LEMMA ReaderStays ==
  ASSUME TypeInv, pc[Reader] = "events", UNCHANGED <<pc, serving>>
  PROVE  Placed' /\ HeadInv' /\ ServingInv'
<1>1. Placed'
  BY Kept DEF TypeInv
<1> QED BY <1>1 DEF HeadInv, ServingInv, TypeInv

LEMMA DoneType ==
  ASSUME TypeOK, events # <<>>, Done, UNCHANGED <<script, inbox, eof>>
  PROVE  Client'
BY EventFacts DEF Done, Client, TypeOK

LEMMA ReadFramesType == ASSUME TypeInv, ReadFrames PROVE TypeInv'
<1>1. TypeOK /\ inbox \in Seq(Frames)
  BY DEF TypeInv, TypeOK
<1>2. Placed' /\ HeadInv' /\ ServingInv'
  BY ReaderAt DEF ReadFrames, ReaderPC, sendVars
<1>3. events' \in Seq(Events)
  <2> DEFINE e(i) == IF Told(inbox[i]) THEN inbox[i] ELSE NoEvent
  <2>1. Len(inbox) \in Nat /\ \A i \in 1 .. Len(inbox) : e(i) \in Events
    BY <1>1, LenProperties, ElementOfSeq DEF Events
  <2>2. events' = [i \in 1 .. Len(inbox) |-> e(i)]
    BY DEF ReadFrames
  <2> HIDE DEF e
  <2> QED BY <2>1, <2>2, SeqDef
<1>4. Client'
  BY <1>1, <1>3, EmptySeq DEF ReadFrames, Client, TypeOK
<1>5. window' \in [0 .. MaxReq -> Nat]
  <2>1. \A s \in 0 .. MaxReq : Windows(s) \in Nat
    BY <1>1, WindowsType
  <2>2. \A a, b, c \in Nat : a + b * c \in Nat
    OBVIOUS
  <2>3. WindowIncrement \in Nat /\ \A s \in 0 .. MaxReq : window[s] \in Nat
    BY <1>1, H2Assumption DEF TypeOK
  <2>4. \A s \in 0 .. MaxReq : window[s] + WindowIncrement * Windows(s) \in Nat
    BY <2>1, <2>2, <2>3
  <2> QED BY <2>4 DEF ReadFrames
<1>6. Library'
  BY <1>1, <1>5 DEF ReadFrames, Library, TypeOK
<1> QED BY <1>1, <1>2, <1>4, <1>6, Kept, PartsAfter DEF ReadFrames, TypeInv

LEMMA ReadErrorType == ASSUME TypeInv, ReadError PROVE TypeInv'
<1>1. TypeOK
  BY DEF TypeInv
<1>2. Suspended' /\ Goto(Reader, "close")
  BY <1>1, FlushType, TaskFacts DEF ReadError
<1>3. Placed' /\ HeadInv' /\ ServingInv'
  BY <1>2, ReaderAt DEF ReadError, ReaderPC, sendVars
<1>4. Client' /\ Library'
  BY <1>1, EmptySeq DEF ReadError, Client, Library, TypeOK
<1> QED BY <1>1, <1>2, <1>3, <1>4, Kept, PartsAfter DEF ReadError, TypeInv

\* Steps that only move the reader.
LEMMA ReaderMovesType ==
  ASSUME TypeInv, ReadEnds \/ ConnectionTerminated \/ ReadTimeout \/ Join
  PROVE  TypeInv'
<1>1. TypeOK
  BY DEF TypeInv
<1>2. \E l \in {"closed", "close", "finalClose"} : Goto(Reader, l)
  BY DEF ReadEnds, ConnectionTerminated, ReadTimeout, Join
<1>3. UNCHANGED <<clientVars, h2Vars, protocolVars, sendVars, appVars, queueVars,
                  waitVars, serverVars>>
  BY Zenon DEF ReadEnds, ConnectionTerminated, ReadTimeout, Join
<1>4. Placed' /\ HeadInv' /\ ServingInv'
  BY <1>2, <1>3, ReaderAt DEF ReaderPC, sendVars
<1> QED BY <1>1, <1>3, <1>4, Kept, PartsAfter DEF TypeInv

\* The transport closes, the reader waits for it or goes on.
LEMMA ReaderClosesType ==
  ASSUME TypeInv, ReaderCloses \/ FinalClose \/ FinalClosed \/ ReaderClosed
  PROVE  TypeInv'
<1>1. TypeOK
  BY DEF TypeInv
<1>2. \E l \in {"waitClosed", "finalWait", "stopped", AfterClosing} : Goto(Reader, l)
  BY DEF ReaderCloses, FinalClose, FinalClosed, ReaderClosed
<1>3. UNCHANGED <<h2Vars, protocolVars, sendVars, appVars, queueVars, waitVars>>
  BY DEF ReaderCloses, FinalClose, FinalClosed, ReaderClosed
<1>4. Placed' /\ HeadInv' /\ ServingInv'
  BY <1>2, <1>3, ReaderAt, NextReads DEF ReaderPC, sendVars
<1>5. Client'
  BY <1>1, EventFacts
  DEF ReaderCloses, FinalClose, FinalClosed, ReaderClosed, Client, TypeOK, clientVars
<1>6. Server'
  BY <1>1
  DEF ReaderCloses, FinalClose, FinalClosed, ReaderClosed, CloseTransport, Server, TypeOK
<1> QED BY <1>1, <1>3, <1>4, <1>5, <1>6, Kept, PartsAfter DEF TypeInv

LEMMA EventsHandledType == ASSUME TypeInv, EventsHandled PROVE TypeInv'
<1>1. TypeOK
  BY DEF TypeInv
<1>2. Goto(Reader, NextRead) /\ Suspended'
  <2>1. CASE Goto(Reader, NextRead) /\ UNCHANGED waitVars
    BY <1>1, <2>1, Kept
  <2>2. CASE Flush(Reader, NextRead)
    BY <1>1, <2>2, FlushType, TaskFacts
  <2> QED BY <2>1, <2>2 DEF EventsHandled
<1>3. Placed' /\ HeadInv' /\ ServingInv'
  BY <1>2, ReaderAt, NextReads DEF EventsHandled, ReaderPC, sendVars
<1> QED BY <1>1, <1>2, <1>3, Kept, PartsAfter DEF EventsHandled, TypeInv

LEMMA RequestType == ASSUME TypeInv, RefuseRequest \/ CreateStream PROVE TypeInv'
<1>1. TypeOK /\ events # <<>> /\ EventStream \in Streams /\ pc[Reader] = "events" /\ Client'
  BY EventFacts, DoneType DEF TypeInv, RefuseRequest, CreateStream, Handle, At
<1>2. CASE RefuseRequest
  <2>1. Placed' /\ HeadInv' /\ ServingInv'
    BY <1>1, <1>2, ReaderAt, ReaderStays DEF RefuseRequest, ReaderPC, sendVars
  <2>2. Library'
    BY <1>1, <1>2 DEF RefuseRequest, Library, TypeOK
  <2> QED BY <1>1, <1>2, <2>1, <2>2, Kept, PartsAfter DEF RefuseRequest, TypeInv
<1>3. CASE CreateStream
  <2> DEFINE s == EventStream
  <2>1. /\ streams' = streams \cup {s} /\ buf' = [buf EXCEPT ![s] = NewBuffer]
        /\ tree' = tree \cup {s} /\ pc' = [pc EXCEPT ![s] = "run"]
        /\ kareq' = kareq + 1 /\ conn' \in {conn, "closed"} /\ idle' = FALSE
    BY <1>3 DEF CreateStream
  <2>2. Goto(s, "run")
    BY <2>1 DEF Goto
  <2>3. Placed' /\ pc'[Reader] = pc[Reader] /\ pc'[Sender] = pc[Sender]
    BY <1>1, <2>2, GotoType, TaskFacts DEF AppPC
  <2>4. HeadInv' /\ ServingInv'
    BY <1>1, <1>3, <2>3 DEF HeadInv, ServingInv, CreateStream, TypeInv
  <2>5. NewBuffer \in Buffers
    BY EmptySeq DEF NewBuffer, Buffers
  <2>6. /\ UNCHANGED <<half, theirEnd, window, sent, closed, net, terminated, aborting>>
        /\ kareq \in Nat /\ s \in Streams
    BY <1>1, <1>3 DEF CreateStream, TypeOK
  <2>8. Table'
    BY <1>1, <2>1, <2>6 DEF Table, TypeOK
  <2>9. Library' /\ Server'
    BY <1>1, <2>1, <2>6 DEF Library, Server, TypeOK
  <2>7. Sending'
    BY <1>1, <1>3, <2>1, <2>5 DEF CreateStream, Sending, TypeOK, TypeInv, TreeInv
  <2> QED BY <1>1, <1>3, <2>3, <2>4, <2>7, <2>8, <2>9, Kept, PartsAfter
       DEF CreateStream, TypeInv
<1> QED BY <1>2, <1>3

LEMMA BodyType == ASSUME TypeInv, BodyReceived \/ PutBody \/ LateBody PROVE TypeInv'
<1>1. /\ TypeOK /\ events # <<>> /\ EventStream \in Streams
      /\ Head(events)[1] \in {"data", "end"}
  BY EventFacts DEF TypeInv, BodyReceived, PutBody, LateBody, Handle, At, HeadInv
<1>2. /\ UNCHANGED <<script, inbox, eof, h2Vars, protocolVars, sendVars, appVars,
                     waitVars, serverVars>>
      /\ UNCHANGED serving
  BY DEF BodyReceived, PutBody, LateBody, sendVars
<1>3. Queued'
  <2>1. CASE UNCHANGED queueVars
    BY <1>1, <2>1, Kept
  <2>2. CASE HasRoom(EventStream) /\ Put({EventStream}, FALSE)
    BY <1>1, <2>2, PutType
  <2> QED BY <2>1, <2>2 DEF BodyReceived, PutBody, LateBody
<1>4. Client'
  <2>1. CASE Done
    BY <1>1, <1>2, <2>1, DoneType
  <2>2. CASE UNCHANGED events
    BY <1>1, <1>2, <2>2, Kept DEF clientVars
  <2> QED BY <2>1, <2>2 DEF BodyReceived, PutBody, LateBody
<1>5. Placed' /\ HeadInv' /\ ServingInv'
  <2>1. CASE Goto(Reader, "putBody") /\ UNCHANGED events
    BY <1>1, <1>2, <2>1, ReaderAt DEF ReaderPC
  <2>2. CASE Goto(Reader, "events") \/ Goto(Reader, "raised")
    BY <1>2, <2>2, ReaderAt DEF ReaderPC
  <2>3. CASE pc[Reader] = "events" /\ UNCHANGED pc
    BY <1>2, <2>3, ReaderStays
  <2> QED BY <2>1, <2>2, <2>3 DEF BodyReceived, PutBody, LateBody, Handle, At
<1> QED BY <1>1, <1>2, <1>3, <1>4, <1>5, Kept, PartsAfter DEF TypeInv

LEMMA StreamResetType == ASSUME TypeInv, StreamReset PROVE TypeInv'
<1>1. /\ TypeOK /\ events # <<>> /\ EventStream \in Streams /\ Head(events)[1] = "reset"
      /\ UNCHANGED <<clientVars, serving>> /\ UNCHANGED events
  BY EventFacts DEF TypeInv, StreamReset, Handle, clientVars
<1>2. Placed' /\ HeadInv' /\ ServingInv'
  BY <1>1, ReaderAt DEF StreamReset, ReaderPC
<1>3. Queued' /\ Suspended' /\ Table' /\ Sending'
  <2>1. CASE CloseStreams(Reader, {EventStream}, {})
    <3>1. {EventStream} \in SUBSET Streams /\ {} \in SUBSET Streams
      BY <1>1
    <3>2. Queued' /\ Suspended' /\ hasData' \in BOOLEAN /\ streams' \subseteq streams
      BY <1>1, <2>1, <3>1, CloseStreamsType, TaskFacts
    <3> QED BY <1>1, <3>2 DEF StreamReset, Table, Sending, TypeOK, TypeInv, TreeInv
  <2>2. CASE UNCHANGED <<streams, hasData, queueVars, waitVars>>
    BY <1>1, <2>2, Kept DEF StreamReset, Table, Sending, TypeOK, TypeInv, TreeInv
  <2> QED BY <2>1, <2>2 DEF StreamReset
<1> QED BY <1>1, <1>2, <1>3, Kept, PartsAfter DEF StreamReset, TypeInv

LEMMA UnblockedType == ASSUME TypeInv, WindowUpdated \/ PriorityUpdated \/ NothingTold PROVE TypeInv'
<1>1. TypeOK /\ events # <<>> /\ UNCHANGED serving
  BY DEF TypeInv, WindowUpdated, PriorityUpdated, NothingTold, Handle, At, HeadInv, sendVars
<1>2. Client'
  BY <1>1, DoneType DEF WindowUpdated, PriorityUpdated, NothingTold
<1>3. Placed' /\ HeadInv' /\ ServingInv'
  BY <1>1, ReaderAt, ReaderStays
  DEF WindowUpdated, PriorityUpdated, NothingTold, ReaderPC, Handle, At
<1>4. Sending'
  <2>1. CASE WindowUpdated
    BY <1>1, <2>1 DEF WindowUpdated, Wake, Sending, Updated, TypeOK, TypeInv, TreeInv
  <2>2. CASE PriorityUpdated
    BY <1>1, <2>2, EventFacts
    DEF PriorityUpdated, Wake, Sending, Handle, TypeOK, TypeInv, TreeInv
  <2>3. CASE NothingTold
    BY <1>1, <2>3, Kept DEF NothingTold
  <2> QED BY <2>1, <2>2, <2>3
<1> QED BY <1>1, <1>2, <1>3, <1>4, Kept, PartsAfter
        DEF WindowUpdated, PriorityUpdated, NothingTold, TypeInv

LEMMA HandleClosedType == ASSUME TypeInv, HandleClosed PROVE TypeInv'
<1>1. TypeOK /\ streams \in SUBSET Streams /\ UNCHANGED serving
  BY DEF TypeInv, TypeOK, HandleClosed
<1>2. Placed' /\ HeadInv' /\ ServingInv'
  BY <1>1, ReaderAt DEF HandleClosed, ReaderPC
<1>3. Queued' /\ Suspended' /\ hasData' \in BOOLEAN /\ streams' \subseteq streams
  BY <1>1, CloseStreamsType, TaskFacts DEF HandleClosed
<1>4. Table' /\ Sending'
  BY <1>1, <1>3 DEF HandleClosed, Table, Sending, TypeOK, TypeInv, TreeInv
<1> QED BY <1>1, <1>2, <1>3, <1>4, Kept, PartsAfter DEF HandleClosed, TypeInv

\* A write leaves the reader and the sender where they are.
LEMMA WriteTypeInv == ASSUME TypeInv, NEW t \in Tasks, WriteStep(t) PROVE TypeInv'
<1>1. TypeOK' /\ TreeInv' /\ UNCHANGED <<pc, events, serving>>
  BY WriteType
<1> QED BY <1>1 DEF TypeInv, HeadInv, ServingInv

LEMMA ReaderType == ASSUME TypeInv, ReaderStep PROVE TypeInv'
BY ReadFramesType, ReadErrorType, ReaderMovesType, ReaderClosesType, EventsHandledType,
   RequestType, BodyType, StreamResetType, UnblockedType, HandleClosedType,
   WriteTypeInv, TaskFacts
DEF ReaderStep

----------------------------------------------------------------------------
(* Types: the sender's steps.                                              *)

\* A step that moves the sender.
LEMMA SenderAt ==
  ASSUME TypeInv, NEW l \in SenderPC, Goto(Sender, l), UNCHANGED events,
         l \in {"sent", "finished"} => serving' # 0
  PROVE  Placed' /\ HeadInv' /\ ServingInv'
<1>1. Placed' /\ pc'[Sender] = l /\ \A u \in Tasks \ {Sender} : pc'[u] = pc[u]
  BY GotoType, TaskFacts DEF TypeInv
<1>2. pc'[Reader] = pc[Reader]
  BY <1>1, TaskFacts
<1> QED BY <1>1, <1>2 DEF HeadInv, ServingInv, TypeInv

\* The stream the sender serves is one of the streams.
LEMMA ServedFacts ==
  ASSUME TypeInv
  PROVE  /\ \A s \in Streams : Serving(s) => s \in tree
         /\ pc[Sender] \in {"sent", "finished"} => serving \in Streams
BY TaskFacts DEF TypeInv, TypeOK, ServingInv, Serving

LEMMA EndStreamType ==
  ASSUME TypeInv, NEW s \in Streams, EndStream(s)
  PROVE  /\ Suspended' /\ Library' /\ Placed' /\ HeadInv' /\ ServingInv'
         /\ Client' /\ Table' /\ Apps' /\ Queued' /\ Server' /\ serving' = s
<1>1. TypeOK /\ s # 0
  BY TaskFacts DEF TypeInv
<1>2. Suspended' /\ Goto(Sender, "finished")
  BY <1>1, FlushType, TaskFacts DEF EndStream
<1>3. Placed' /\ HeadInv' /\ ServingInv'
  BY <1>1, <1>2, SenderAt DEF EndStream, SenderPC, clientVars
<1>4. Library'
  BY <1>1 DEF EndStream, Library, TypeOK
<1> QED BY <1>2, <1>3, <1>4, Kept DEF EndStream

LEMMA ServeDataType == ASSUME TypeInv, NEW s \in Streams, ServeData(s) PROVE TypeInv'
<1>1. TypeOK /\ s # 0 /\ serving' = s
  BY TaskFacts DEF TypeInv, ServeData
<1> DEFINE n == ToPop(s)
<1>2. n \in Nat /\ n <= Len(buf[s].data) /\ n <= Room(s)
  BY <1>1, PopFacts
<1>3. /\ Popped(s, n) \in Buffers /\ Popped(s, n).live = buf[s].live
      /\ SubSeq(buf[s].data, 1, n) \in Seq(1 .. MaxBody)
      /\ Len(SubSeq(buf[s].data, 1, n)) = n
  BY <1>1, <1>2, PoppedFacts
<1>4. window' \in [0 .. MaxReq -> Nat] /\ sent' \in [Streams -> Seq(1 .. MaxBody)]
  BY <1>1, <1>2, <1>3, SendDataType DEF ServeData
<1>5. Suspended' /\ Goto(Sender, "sent")
  BY <1>1, FlushType, TaskFacts DEF ServeData
<1>6. Placed' /\ HeadInv' /\ ServingInv'
  BY <1>1, <1>5, SenderAt DEF ServeData, SenderPC, clientVars
<1>7. Library'
  BY <1>1, <1>4 DEF ServeData, Library, TypeOK
<1>8. buf' = [buf EXCEPT ![s] = Popped(s, n)] /\ UNCHANGED <<tree, ready, hasData>>
  BY DEF ServeData
<1> HIDE DEF n
<1>9. Sending'
  BY <1>1, <1>3, <1>8, TaskFacts DEF Sending, TypeOK, TypeInv, TreeInv
<1> QED BY <1>5, <1>6, <1>7, <1>9, Kept, PartsAfter DEF ServeData, TypeInv

\* What ServeNothing and ServeEnd leave of the buffer.
LEMMA BlockedType ==
  ASSUME TypeInv, NEW s \in Streams, buf' = [buf EXCEPT ![s] = Popped(s, 0)],
         ready' = ready \ {s}, UNCHANGED <<tree, hasData>>, serving' \in {s, serving}
  PROVE  Sending'
<1>1. TypeOK /\ 0 <= Len(buf[s].data) /\ 0 \in Nat
  <2>1. TypeOK /\ buf[s].data \in Seq(1 .. MaxBody)
    BY DEF TypeInv, TypeOK, Buffers
  <2>2. Len(buf[s].data) \in Nat
    BY <2>1, LenProperties
  <2> QED BY <2>1, <2>2
<1>2. Popped(s, 0) \in Buffers /\ Popped(s, 0).live = buf[s].live
  BY <1>1, PoppedFacts
<1> QED BY <1>1, <1>2, TaskFacts DEF Sending, TypeOK, TypeInv, TreeInv

LEMMA ServeNothingType == ASSUME TypeInv, NEW s \in Streams, ServeNothing(s) PROVE TypeInv'
<1>1. Sending'
  BY BlockedType DEF ServeNothing
<1>2. HeadInv' /\ ServingInv'
  BY DEF ServeNothing, clientVars, HeadInv, ServingInv, TypeInv
<1> QED BY <1>1, <1>2, Kept, PartsAfter DEF ServeNothing, TypeInv

LEMMA ServeEndType == ASSUME TypeInv, NEW s \in Streams, ServeEnd(s) PROVE TypeInv'
<1>1. EndStream(s) /\ serving' = s
  BY DEF ServeEnd, EndStream
<1>2. Sending'
  BY <1>1, BlockedType DEF ServeEnd, EndStream
<1> QED BY <1>1, <1>2, EndStreamType, PartsAfter DEF TypeInv

LEMMA EndAfterDataType == ASSUME TypeInv, EndAfterData PROVE TypeInv'
<1>1. EndStream(serving) /\ serving \in Streams /\ UNCHANGED <<buf, tree, ready, hasData, serving>>
  BY ServedFacts DEF EndAfterData, EndStream, At
<1>2. Sending'
  BY <1>1 DEF Sending, TypeOK, TypeInv, TreeInv
<1> QED BY <1>1, <1>2, EndStreamType, PartsAfter DEF TypeInv

\* The buffer is gone from stream_buffers and the stream from the tree.
LEMMA ForgottenType ==
  ASSUME TypeInv, NEW s \in Streams, NEW b \in Buffers, buf' = [buf EXCEPT ![s] = b],
         ~b.live, tree' = tree \ {s}, ready' = ready \ {s}, UNCHANGED <<hasData, serving>>
  PROVE  Sending'
BY DEF Sending, TypeOK, TypeInv, TreeInv

LEMMA ServeFailsType == ASSUME TypeInv, NEW s \in Streams, ServeFails(s) PROVE TypeInv'
<1> DEFINE b == [data |-> <<>>, complete |-> TRUE, empty |-> TRUE,
                 paused |-> TRUE, live |-> FALSE]
<1>1. b \in Buffers /\ ~b.live
  BY EmptySeq DEF Buffers
<1>2. /\ buf' = [buf EXCEPT ![s] = b] /\ tree' = tree \ {s} /\ ready' = ready \ {s}
      /\ UNCHANGED <<hasData, serving>> /\ Goto(Sender, "loop") /\ UNCHANGED clientVars
  BY DEF ServeFails, ForceClose
<1> HIDE DEF b
<1>3. Sending'
  BY <1>1, <1>2, ForgottenType
<1>4. Placed' /\ HeadInv' /\ ServingInv'
  BY <1>2, SenderAt DEF SenderPC, clientVars
<1> QED BY <1>3, <1>4, Kept, PartsAfter DEF ServeFails, TypeInv

LEMMA FieldFacts ==
  ASSUME NEW b \in Buffers
  PROVE  /\ [b EXCEPT !.live = FALSE] \in Buffers /\ ~[b EXCEPT !.live = FALSE].live
         /\ [b EXCEPT !.live = FALSE].data = b.data
         /\ [b EXCEPT !.paused = FALSE] \in Buffers
         /\ [b EXCEPT !.paused = FALSE].live = b.live
         /\ [b EXCEPT !.paused = FALSE].data = b.data
         /\ [b EXCEPT !.paused = FALSE].complete = b.complete
         /\ [b EXCEPT !.complete = TRUE] \in Buffers
         /\ [b EXCEPT !.complete = TRUE].live = b.live
         /\ [b EXCEPT !.complete = TRUE].data = b.data
         /\ [b EXCEPT !.complete = TRUE].complete
BY DEF Buffers

LEMMA FinishedType == ASSUME TypeInv, Finished PROVE TypeInv'
<1>1. serving \in Streams
  BY ServedFacts DEF Finished, At
<1>2. /\ buf' = [buf EXCEPT ![serving] = [buf[serving] EXCEPT !.live = FALSE]]
      /\ tree' = tree \ {serving} /\ ready' = ready \ {serving}
      /\ UNCHANGED <<hasData, serving>> /\ Goto(Sender, "loop") /\ UNCHANGED clientVars
  BY DEF Finished
<1> DEFINE b == [buf[serving] EXCEPT !.live = FALSE]
<1>3. b \in Buffers /\ ~b.live
  <2>1. buf[serving] \in Buffers
    BY <1>1 DEF TypeOK, TypeInv
  <2> QED BY <2>1, FieldFacts
<1> HIDE DEF b
<1>4. Sending'
  BY <1>1, <1>2, <1>3, ForgottenType DEF b
<1>5. Placed' /\ HeadInv' /\ ServingInv'
  BY <1>2, SenderAt DEF SenderPC, clientVars
<1> QED BY <1>4, <1>5, Kept, PartsAfter DEF Finished, TypeInv

\* Steps that only move the sender.
LEMMA SenderMovesType ==
  ASSUME TypeInv,
         TurnOver \/ WaitForData \/ SenderEnds \/ HasData \/ \E s \in Streams : ServeCrashes(s)
  PROVE  TypeInv'
<1>1. /\ \E l \in {"loop", "wait", "done", "raised"} : Goto(Sender, l)
      /\ UNCHANGED <<clientVars, h2Vars, protocolVars, appVars, queueVars, waitVars,
                     serverVars, buf, tree, ready, serving>>
      /\ UNCHANGED events /\ hasData' \in {hasData, FALSE}
  BY DEF TurnOver, WaitForData, SenderEnds, HasData, ServeCrashes, sendVars, clientVars
<1>2. Placed' /\ HeadInv' /\ ServingInv'
  BY <1>1, SenderAt DEF SenderPC
<1>3. Sending'
  BY <1>1 DEF Sending, TypeOK, TypeInv, TreeInv
<1> QED BY <1>1, <1>2, <1>3, Kept, PartsAfter DEF TypeInv

LEMMA SenderType == ASSUME TypeInv, SenderStep PROVE TypeInv'
BY ServeDataType, ServeNothingType, ServeEndType, ServeFailsType, EndAfterDataType,
   FinishedType, SenderMovesType, WriteTypeInv, TaskFacts
DEF SenderStep, Serve

----------------------------------------------------------------------------
(* Types: the applications' steps.                                         *)

\* A step that moves an application's task.
LEMMA AppAt ==
  ASSUME TypeInv, NEW r \in Streams, NEW l \in AppPC, Goto(r, l), UNCHANGED <<events, serving>>
  PROVE  Placed' /\ HeadInv' /\ ServingInv'
<1>1. Placed' /\ pc'[r] = l /\ \A u \in Tasks \ {r} : pc'[u] = pc[u]
  BY GotoType, TaskFacts DEF TypeInv
<1>2. pc'[Sender] = pc[Sender] /\ pc'[Reader] = pc[Reader]
  BY <1>1, TaskFacts
<1> QED BY <1>1, <1>2 DEF HeadInv, ServingInv, TypeInv

LEMMA ReceiveType == ASSUME TypeInv, NEW r \in Streams, Receive(r) PROVE TypeInv'
<1>1. queued[r] - 1 \in 0 .. QueueSize
  BY H2Assumption DEF Receive, TypeInv, TypeOK
<1>2. Queued'
  BY <1>1 DEF Receive, Queued, TypeInv, TypeOK
<1>3. HeadInv' /\ ServingInv'
  BY DEF Receive, clientVars, sendVars, HeadInv, ServingInv, TypeInv
<1> QED BY <1>2, <1>3, Kept, PartsAfter DEF Receive, TypeInv

LEMMA SendStartType == ASSUME TypeInv, NEW r \in Streams, SendStart(r) \/ Started(r) PROVE TypeInv'
<1>1. CASE SendStart(r)
  <2>1. Suspended' /\ Goto(r, "started")
    BY <1>1, SendHeadersType DEF SendStart, AppPC
  <2>2. Placed' /\ HeadInv' /\ ServingInv'
    BY <1>1, <2>1, AppAt DEF SendStart, AppPC, clientVars, sendVars
  <2> QED BY <1>1, <2>1, <2>2, Kept, PartsAfter DEF SendStart, TypeInv
<1>2. CASE Started(r)
  <2>1. Placed' /\ HeadInv' /\ ServingInv'
    BY <1>2, AppAt DEF Started, AppPC, clientVars, sendVars
  <2>2. Apps'
    BY <1>2 DEF Started, Apps, TypeInv, TypeOK
  <2> QED BY <1>2, <2>1, <2>2, Kept, PartsAfter DEF Started, TypeInv
<1> QED BY <1>1, <1>2

\* A chunk of the body, while there is some to send.
LEMMA ChunkFacts ==
  ASSUME TypeOK, NEW r \in Streams, NEW n \in ChunkSizes, made[r] + n <= MaxBody
  PROVE  /\ n \in Nat \ {0} /\ made[r] \in Nat /\ made[r] + n \in 0 .. MaxBody
         /\ Chunk(r, n) \in Seq(1 .. MaxBody) /\ Len(Chunk(r, n)) = n
         /\ \A i \in 1 .. n : Chunk(r, n)[i] = made[r] + i
<1>1. n \in Nat \ {0} /\ made[r] \in 0 .. MaxBody /\ MaxBody \in Nat
  BY H2Assumption DEF TypeOK
<1>2. \A i \in 1 .. n : made[r] + i \in 1 .. MaxBody
  BY <1>1
<1>3. Chunk(r, n) \in [1 .. n -> 1 .. MaxBody]
  BY <1>2 DEF Chunk
<1>4. Chunk(r, n) \in Seq(1 .. MaxBody) /\ Len(Chunk(r, n)) = n
  BY <1>1, <1>3, LenProperties
<1> QED BY <1>1, <1>4 DEF Chunk

LEMMA PushedFacts ==
  ASSUME TypeOK, NEW r \in Streams, NEW n \in ChunkSizes, made[r] + n <= MaxBody
  PROVE  /\ Pushed(r, n) \in Buffers /\ Pushed(r, n).data = buf[r].data \o Chunk(r, n)
         /\ Pushed(r, n).complete = buf[r].complete /\ Pushed(r, n).live = buf[r].live
<1>1. buf[r] \in Buffers /\ buf[r].data \in Seq(1 .. MaxBody)
  BY DEF TypeOK, Buffers
<1>2. buf[r].data \o Chunk(r, n) \in Seq(1 .. MaxBody)
  BY <1>1, ChunkFacts, ConcatProperties
<1> DEFINE data == buf[r].data \o Chunk(r, n)
<1>3. Pushed(r, n) = [buf[r] EXCEPT !.data = data, !.empty = FALSE]
  BY DEF Pushed
<1> HIDE DEF data
<1>4. data \in Seq(1 .. MaxBody)
  BY <1>2 DEF data
<1> QED BY <1>1, <1>3, <1>4 DEF Buffers, data

\* An application's task changes its buffer, and may unblock its stream.
LEMMA BufferType ==
  ASSUME TypeInv, NEW r \in Streams, NEW b \in Buffers, b.live = buf[r].live,
         buf' \in {buf, [buf EXCEPT ![r] = b]}, hasData' \in BOOLEAN,
         ready' = ready \/ (r \in tree /\ ready' = ready \cup {r}),
         UNCHANGED <<tree, serving>>
  PROVE  Sending'
<1>1. buf' \in [Streams -> Buffers] /\ \A u \in Streams : buf'[u].live = buf[u].live
  <2>1. buf \in [Streams -> Buffers]
    BY DEF TypeOK, TypeInv
  <2>2. CASE buf' = buf
    BY <2>1, <2>2
  <2>3. CASE buf' = [buf EXCEPT ![r] = b]
    BY <2>1, <2>3
  <2> QED BY <2>2, <2>3
<1>2. tree' \subseteq Streams /\ ready' \subseteq tree' /\ serving' \in 0 .. MaxReq
  BY DEF TypeOK, TypeInv
<1>3. TreeInv'
  BY <1>1 DEF TreeInv, TypeInv
<1> QED BY <1>1, <1>2, <1>3 DEF Sending

LEMMA SendBodyType ==
  ASSUME TypeInv, NEW r \in Streams, NEW n \in ChunkSizes, NEW last \in BOOLEAN,
         SendBody(r, n, last)
  PROVE  TypeInv'
<1>1. TypeOK /\ made[r] + n \in 0 .. MaxBody /\ Pushed(r, n) \in Buffers
      /\ Pushed(r, n).live = buf[r].live
  BY ChunkFacts, PushedFacts DEF TypeInv, SendBody
<1>2. \E l \in AppPC : Goto(r, l)
  BY DEF SendBody, AppPC
<1>3. Placed' /\ HeadInv' /\ ServingInv'
  BY <1>2, AppAt DEF SendBody, clientVars
<1>4. Apps'
  BY <1>1 DEF SendBody, Apps, TypeOK
<1>5. /\ buf' \in {buf, [buf EXCEPT ![r] = Pushed(r, n)]}
      /\ ready' = ready \/ (r \in tree /\ ready' = ready \cup {r})
      /\ hasData' \in {hasData, TRUE} /\ UNCHANGED <<tree, serving>>
  BY DEF SendBody, Unblock, Wake
<1>6. Sending'
  BY <1>1, <1>5, BufferType DEF TypeOK
<1> QED BY <1>1, <1>3, <1>4, <1>6, Kept, PartsAfter DEF SendBody, TypeInv

LEMMA ResumedType == ASSUME TypeInv, NEW r \in Streams, Resumed(r) PROVE TypeInv'
<1>1. \E l \in AppPC : Goto(r, l)
  BY DEF Resumed, AppPC
<1>2. Placed' /\ HeadInv' /\ ServingInv'
  BY <1>1, AppAt DEF Resumed, clientVars
<1>3. /\ buf' = [buf EXCEPT ![r] = [buf[r] EXCEPT !.paused = FALSE]]
      /\ UNCHANGED <<tree, ready, hasData, serving>>
  BY DEF Resumed
<1> DEFINE b == [buf[r] EXCEPT !.paused = FALSE]
<1>4. b \in Buffers /\ b.live = buf[r].live
  <2>1. buf[r] \in Buffers
    BY DEF TypeOK, TypeInv
  <2> QED BY <2>1, FieldFacts
<1>5. Sending'
  <2>1. buf' \in {buf, [buf EXCEPT ![r] = b]} /\ hasData' \in BOOLEAN
        /\ ready' = ready /\ UNCHANGED <<tree, serving>>
    BY <1>3 DEF TypeInv, TypeOK
  <2> HIDE DEF b
  <2> QED BY <1>4, <2>1, BufferType
<1> QED BY <1>2, <1>5, Kept, PartsAfter DEF Resumed, TypeInv

LEMMA SendFlushType ==
  ASSUME TypeInv, NEW r \in Streams, NEW n \in ChunkSizes, SendFlush(r, n)
  PROVE  TypeInv'
<1>1. TypeOK /\ made[r] + n \in 0 .. MaxBody
      /\ Chunk(r, n) \in Seq(1 .. MaxBody) /\ Len(Chunk(r, n)) = n
  BY ChunkFacts DEF TypeInv, SendFlush
<1>2. Goto(r, "run") /\ Suspended' /\ Library'
  <2>1. CASE n <= Room(r) /\ SendData(r, Chunk(r, n)) /\ Flush(r, "run")
    <3>1. window' \in [0 .. MaxReq -> Nat] /\ sent' \in [Streams -> Seq(1 .. MaxBody)]
      BY <1>1, <2>1, SendDataType
    <3> QED BY <1>1, <2>1, <3>1, FlushType, TaskFacts DEF SendFlush, Library, TypeOK
  <2>2. CASE Goto(r, "run") /\ UNCHANGED <<sent, window, waitVars>>
    BY <1>1, <2>2, Kept DEF SendFlush, Library, TypeOK
  <2> QED BY <2>1, <2>2 DEF SendFlush
<1>3. Placed' /\ HeadInv' /\ ServingInv'
  BY <1>2, AppAt DEF SendFlush, AppPC, clientVars, sendVars
<1>4. Apps'
  BY <1>1 DEF SendFlush, Apps, TypeOK
<1> QED BY <1>2, <1>3, <1>4, Kept, PartsAfter DEF SendFlush, TypeInv

LEMMA EndBodyType ==
  ASSUME TypeInv, NEW r \in Streams, EndBody(r), sstate' \in {sstate, [sstate EXCEPT ![r] = "CLOSED"]}
  PROVE  TypeInv'
<1>1. \E l \in AppPC : Goto(r, l)
  BY DEF EndBody, AppPC
<1>2. Placed' /\ HeadInv' /\ ServingInv'
  BY <1>1, AppAt DEF EndBody, clientVars
<1>3. /\ buf' \in {buf, [buf EXCEPT ![r] = [buf[r] EXCEPT !.complete = TRUE]]}
      /\ ready' = ready \/ (r \in tree /\ ready' = ready \cup {r})
      /\ hasData' \in {hasData, TRUE} /\ UNCHANGED <<tree, serving>>
  BY DEF EndBody, Unblock, Wake
<1> DEFINE b == [buf[r] EXCEPT !.complete = TRUE]
<1>4. b \in Buffers /\ b.live = buf[r].live
  <2>1. buf[r] \in Buffers
    BY DEF TypeOK, TypeInv
  <2> QED BY <2>1, FieldFacts
<1>5. Sending'
  <2>1. /\ buf' \in {buf, [buf EXCEPT ![r] = b]} /\ hasData' \in BOOLEAN
        /\ ready' = ready \/ (r \in tree /\ ready' = ready \cup {r})
        /\ UNCHANGED <<tree, serving>>
    BY <1>3 DEF TypeInv, TypeOK
  <2> HIDE DEF b
  <2> QED BY <1>4, <2>1, BufferType
<1>6. Apps'
  BY DEF EndBody, Apps, TypeOK, TypeInv
<1> QED BY <1>2, <1>5, <1>6, Kept, PartsAfter DEF EndBody, TypeInv

LEMMA EndWithHeadersType == ASSUME TypeInv, NEW r \in Streams, EndWithHeaders(r) PROVE TypeInv'
<1>1. Suspended' /\ Goto(r, "ended")
  BY SendHeadersType DEF EndWithHeaders, AppPC
<1>2. Placed' /\ HeadInv' /\ ServingInv'
  BY <1>1, AppAt DEF EndWithHeaders, AppPC, clientVars, sendVars
<1>3. Library' /\ Apps'
  BY DEF EndWithHeaders, Library, Apps, TypeInv, TypeOK
<1> QED BY <1>1, <1>2, <1>3, Kept, PartsAfter DEF EndWithHeaders, TypeInv

LEMMA FinishType == ASSUME TypeInv, NEW r \in Streams, Finish(r) PROVE TypeInv'
<1>1. Suspended' /\ \E l \in AppPC : Goto(r, l)
  <2>1. CASE SendHeaders(r, "errEnd")
    BY <2>1, SendHeadersType DEF AppPC
  <2>2. CASE Goto(r, IF r \in streams THEN "ended" ELSE "done") /\ UNCHANGED waitVars
    BY <2>2, Kept DEF AppPC
  <2> QED BY <2>1, <2>2 DEF Finish
<1>2. Placed' /\ HeadInv' /\ ServingInv'
  BY <1>1, AppAt DEF Finish, clientVars, sendVars
<1> QED BY <1>1, <1>2, Kept, PartsAfter DEF Finish, TypeInv

LEMMA StreamEndedType == ASSUME TypeInv, NEW r \in Streams, StreamEnded(r) PROVE TypeInv'
<1>1. TypeOK
  BY DEF TypeInv
<1>2. Placed' /\ HeadInv' /\ ServingInv'
  BY AppAt DEF StreamEnded, AppPC, clientVars
<1>3. Queued' /\ Suspended' /\ Table' /\ Sending'
  <2>1. CASE CloseStreams(r, {r}, {})
    <3>1. {r} \in SUBSET Streams /\ {} \in SUBSET Streams
      OBVIOUS
    <3>2. Queued' /\ Suspended' /\ hasData' \in BOOLEAN /\ streams' \subseteq streams
      BY <1>1, <2>1, <3>1, CloseStreamsType, TaskFacts
    <3> QED BY <1>1, <3>2 DEF StreamEnded, Table, Sending, TypeOK, TypeInv, TreeInv
  <2>2. CASE UNCHANGED <<streams, hasData, queueVars, waitVars>>
    BY <1>1, <2>2, Kept DEF StreamEnded, Table, Sending, TypeOK, TypeInv, TreeInv
  <2> QED BY <2>1, <2>2 DEF StreamEnded
<1> QED BY <1>2, <1>3, Kept, PartsAfter DEF StreamEnded, TypeInv

LEMMA LastStreamLeftType == ASSUME TypeInv, NEW r \in Streams, LastStreamLeft(r) PROVE TypeInv'
<1>1. TypeOK
  BY DEF TypeInv
<1>2. Suspended' /\ Goto(r, "update")
  BY <1>1, FlushType, TaskFacts DEF LastStreamLeft
<1>3. Placed' /\ HeadInv' /\ ServingInv'
  BY <1>2, AppAt DEF LastStreamLeft, AppPC, clientVars, sendVars
<1>4. Library'
  BY <1>1 DEF LastStreamLeft, Library, TypeOK
<1> QED BY <1>2, <1>3, <1>4, Kept, PartsAfter DEF LastStreamLeft, TypeInv

\* Steps that only move the application's task, or with it the timer or fin.
LEMMA AppMovesType ==
  ASSUME TypeInv, NEW r \in Streams,
         Return(r) \/ Drained(r) \/ StreamLeft(r) \/ LastStreamTimer(r)
  PROVE  TypeInv'
<1>1. \E l \in {"finish", "ended", Back(r)} : Goto(r, l)
  BY DEF Return, Drained, StreamLeft, LastStreamTimer
<1>2. UNCHANGED <<clientVars, h2Vars, protocolVars, sendVars, queueVars, waitVars>>
  BY DEF Return, Drained, StreamLeft, LastStreamTimer
<1>3. Back(r) \in {"done", "run"}
  BY DEF Back
<1>4. Placed' /\ HeadInv' /\ ServingInv'
  BY <1>1, <1>2, <1>3, AppAt DEF AppPC, clientVars, sendVars
<1>5. Apps'
  BY DEF Return, Drained, StreamLeft, LastStreamTimer, appVars, Apps, TypeInv, TypeOK
<1>6. Server'
  BY DEF Return, Drained, StreamLeft, LastStreamTimer, Timer, serverVars, Server,
         TypeInv, TypeOK
<1> QED BY <1>2, <1>4, <1>5, <1>6, Kept, PartsAfter DEF TypeInv

LEMMA AppsType ==
  ASSUME TypeInv, NEW r \in Streams, StreamStep(r) \/ AppStep(r)
  PROVE  TypeInv'
<1>1. ASSUME EndResponse(r) \/ ErrorResponseEnd(r) PROVE TypeInv'
  BY <1>1, EndBodyType DEF EndResponse, ErrorResponseEnd
<1> QED BY <1>1, SendStartType, ReceiveType, SendBodyType, ResumedType, SendFlushType,
           EndWithHeadersType, FinishType, StreamEndedType, LastStreamLeftType,
           AppMovesType, WriteTypeInv, TaskFacts
        DEF StreamStep, AppStep

----------------------------------------------------------------------------
(* Types: cancellation, the idle task, the worker and the client.          *)

LEMMA AbortType == ASSUME TypeInv, Abort PROVE TypeInv'
<1>1. TypeOK /\ pc' = [t \in Tasks |-> Cancelled(t)]
  BY DEF TypeInv, Abort
<1>2. /\ Cancelled(Reader) \in {"closed", "read", "events", "join"}
      /\ Cancelled(Sender) = "done"
      /\ \A s \in Streams : Cancelled(s) \in {pc[s], "done", "finish"}
  BY TaskFacts, NextReads DEF Cancelled
<1>3. /\ Cancelled(Reader) \in ReaderPC /\ Cancelled(Sender) \in SenderPC
      /\ \A s \in Streams : Cancelled(s) \in AppPC
  <2>1. Cancelled(Reader) \in ReaderPC /\ Cancelled(Sender) \in SenderPC
    BY <1>2 DEF ReaderPC, SenderPC
  <2>2. "done" \in AppPC /\ "finish" \in AppPC
    BY DEF AppPC
  <2>3. \A s \in Streams : pc[s] \in AppPC
    BY <1>1 DEF TypeOK
  <2> QED BY <1>2, <2>1, <2>2, <2>3
<1>4. /\ Placed' /\ pc'[Reader] = Cancelled(Reader) /\ pc'[Sender] = Cancelled(Sender)
      /\ \A s \in Streams : pc'[s] = Cancelled(s)
  BY <1>1, <1>3, TaskFacts DEF Placed
<1>5. HeadInv' /\ ServingInv'
  BY <1>2, <1>4 DEF HeadInv, ServingInv
<1>6. Client'
  BY <1>1, EventFacts DEF Abort, Client, TypeOK
<1>7. Suspended' /\ Apps' /\ Server'
  BY <1>1, EmptySeq DEF Abort, Suspended, Apps, Server, TypeOK
<1> QED BY <1>4, <1>5, <1>6, <1>7, Kept, PartsAfter DEF Abort, TypeInv

LEMMA ClientType ==
  ASSUME TypeInv, ClientSends \/ ClientEof \/ ConnectionLost \/ Terminate \/ IdleTimeout
  PROVE  TypeInv'
<1>1. TypeOK
  BY DEF TypeInv
<1>2. /\ UNCHANGED <<pc, h2Vars, appVars, queueVars, waitVars, events>>
      /\ UNCHANGED <<buf, tree, ready, serving, streams, kareq>>
      /\ hasData' \in {hasData, TRUE} /\ closed' \in {closed, TRUE}
  BY DEF ClientSends, ClientEof, ConnectionLost, Terminate, IdleTimeout, Wake,
         clientVars, protocolVars, sendVars
<1>3. Table' /\ Sending'
  BY <1>1, <1>2 DEF Table, Sending, TypeOK, TypeInv, TreeInv
<1>4. Client'
  <2>1. script # <<>> => /\ Head(script) \in Frames /\ Tail(script) \in Seq(Frames)
                         /\ Append(inbox, Head(script)) \in Seq(Frames)
    BY <1>1, HeadTailProperties, AppendProperties DEF TypeOK
  <2> QED BY <1>1, <2>1
      DEF ClientSends, ClientEof, ConnectionLost, Terminate, IdleTimeout, clientVars,
          Client, TypeOK
<1>5. Server'
  BY <1>1 DEF ClientSends, ClientEof, ConnectionLost, Terminate, IdleTimeout, serverVars,
              CloseTransport, Server, TypeOK
<1>6. HeadInv' /\ ServingInv'
  BY <1>2 DEF HeadInv, ServingInv, TypeInv
<1> QED BY <1>2, <1>3, <1>4, <1>5, <1>6, Kept, PartsAfter DEF TypeInv

LEMMA TypeInit == Init => TypeInv
<1> SUFFICES ASSUME Init PROVE TypeInv
  OBVIOUS
<1>1. /\ script \in Seq(Frames) /\ inbox \in Seq(Frames) /\ events \in Seq(Events)
      /\ lockq \in Seq(Tasks) /\ <<>> \in Seq(1 .. MaxBody)
  BY H2Assumption, EmptySeq DEF Init
<1>2. /\ pc[Reader] = "read" /\ pc[Sender] = "loop" /\ \A s \in Streams : pc[s] = "none"
      /\ pc \in [Tasks -> {"read", "loop", "none"}]
  BY TaskFacts DEF Init
<1>3. Placed
  BY <1>2 DEF Placed, ReaderPC, SenderPC, AppPC
<1>4. [NewBuffer EXCEPT !.live = FALSE] \in Buffers /\ ~[NewBuffer EXCEPT !.live = FALSE].live
  BY <1>1 DEF NewBuffer, Buffers
<1>5. buf \in [Streams -> Buffers] /\ \A s \in Streams : ~buf[s].live
  BY <1>4 DEF Init
<1>6. window \in [0 .. MaxReq -> Nat] /\ queued \in [Streams -> 0 .. QueueSize]
      /\ made \in [Streams -> 0 .. MaxBody] /\ serving \in 0 .. MaxReq
  BY H2Assumption, TaskFacts DEF Init
<1>7. HeadInv /\ ServingInv /\ TreeInv
  BY <1>2, <1>5 DEF HeadInv, ServingInv, TreeInv
<1> QED BY <1>1, <1>3, <1>5, <1>6, <1>7 DEF Init, TypeOK, TypeInv, Placed

LEMMA TypeStep == TypeInv /\ [Next]_vars => TypeInv'
<1> SUFFICES ASSUME TypeInv, [Next]_vars PROVE TypeInv'
  OBVIOUS
<1>1. CASE UNCHANGED vars
  <2>1. UNCHANGED <<clientVars, h2Vars, protocolVars, sendVars, appVars, queueVars, pc,
                    waitVars, serverVars>>
    BY <1>1 DEF vars
  <2>2. HeadInv' /\ ServingInv'
    BY <2>1 DEF clientVars, sendVars, HeadInv, ServingInv, TypeInv
  <2> QED BY <2>1, <2>2, Kept, PartsAfter DEF TypeInv
<1>2. CASE Environment
  BY <1>2, AbortType, ReaderMovesType, ClientType DEF Environment
<1> QED BY <1>1, <1>2, ReaderType, SenderType, AppsType DEF Next

\* The state stays what the model says it is: every frame, event, buffer and
\* window has its type, no queue and no body exceeds its bound, each task is at
\* one of its own suspension points, and the streams that are not blocked are in
\* the priority tree.
THEOREM TypeCorrect == Spec => []TypeOK
<1>1. Init => TypeInv
  BY TypeInit
<1>2. TypeInv /\ [Next]_vars => TypeInv'
  BY TypeStep
<1>3. TypeInv => TypeOK
  BY DEF TypeInv
<1> QED BY <1>1, <1>2, <1>3, PTL DEF Spec

----------------------------------------------------------------------------
(* Frames: each stream is opened once.                                     *)

\* What a step does to the frames on their way.
QueueStep ==
  \/ UNCHANGED <<script, inbox, events>>
  \/ events # <<>> /\ Done /\ UNCHANGED <<script, inbox>>
  \/ inbox' = <<>> /\ UNCHANGED <<script, events>>
  \/ ReadFrames
  \/ ClientSends

LEMMA ReaderQueues == ASSUME TypeInv, ReaderStep PROVE QueueStep
<1>1. CASE RefuseRequest \/ CreateStream \/ BodyReceived \/ LateBody \/ PutBody
  BY <1>1 DEF RefuseRequest, CreateStream, BodyReceived, LateBody, PutBody, Handle, Done,
              QueueStep, TypeInv, HeadInv, At
<1>2. CASE WindowUpdated \/ PriorityUpdated \/ NothingTold \/ ReaderClosed
  BY <1>2 DEF WindowUpdated, PriorityUpdated, NothingTold, ReaderClosed, Handle, Done,
              QueueStep, TypeInv, HeadInv, At
<1>3. CASE ReadFrames \/ ReadError
  BY <1>3 DEF ReadError, QueueStep
<1>4. CASE ReadEnds \/ StreamReset \/ ConnectionTerminated \/ EventsHandled \/ ReaderCloses
  BY <1>4 DEF ReadEnds, StreamReset, ConnectionTerminated, EventsHandled, ReaderCloses,
              clientVars, QueueStep
<1>5. CASE HandleClosed \/ Join \/ FinalClose \/ FinalClosed
  BY <1>5 DEF HandleClosed, Join, FinalClose, FinalClosed, clientVars, QueueStep
<1>6. CASE WriteStep(Reader)
  BY <1>6 DEF WriteStep, Flushed, FlushFails, PutLate, clientVars, QueueStep
<1> QED BY <1>1, <1>2, <1>3, <1>4, <1>5, <1>6 DEF ReaderStep

\* The sender and the applications leave them alone.
LEMMA SenderQueues == ASSUME SenderStep PROVE UNCHANGED clientVars
BY DEF SenderStep, Serve, ServeData, ServeNothing, ServeEnd, ServeFails, ServeCrashes,
       EndStream, EndAfterData, TurnOver, Finished, WaitForData, HasData, SenderEnds,
       WriteStep, Flushed, FlushFails, PutLate

LEMMA AppQueues ==
  ASSUME NEW r \in Streams, StreamStep(r) \/ AppStep(r)
  PROVE  UNCHANGED clientVars
<1>1. CASE StreamStep(r)
  BY <1>1 DEF StreamStep, Started, Resumed, EndResponse, EndBody, Drained, Finish,
     ErrorResponseEnd, StreamEnded, StreamLeft, LastStreamLeft, LastStreamTimer,
     WriteStep, Flushed, FlushFails, PutLate
<1>2. CASE AppStep(r)
  BY <1>2 DEF AppStep, Receive, SendStart, Return, SendBody, SendFlush, EndResponse,
     EndBody, EndWithHeaders
<1> QED BY <1>1, <1>2

LEMMA EnvironmentQueues == ASSUME Environment PROVE QueueStep
BY DEF Environment, Abort, ReadTimeout, IdleTimeout, Terminate, ClientSends, ClientEof,
       ConnectionLost, clientVars, QueueStep, Done

LEMMA Queues == ASSUME TypeInv, [Next]_vars PROVE QueueStep
<1>1. ASSUME UNCHANGED clientVars PROVE QueueStep
  BY <1>1 DEF clientVars, QueueStep
<1> QED BY <1>1, ReaderQueues, SenderQueues, AppQueues, EnvironmentQueues DEF Next, vars

\* The frames on their way are sequences of frames.
LEMMA QueueTypes ==
  ASSUME TypeOK
  PROVE  /\ Len(script) \in Nat /\ Len(inbox) \in Nat /\ Len(events) \in Nat
         /\ \A i \in 1 .. Len(script) : script[i] \in Events
         /\ \A i \in 1 .. Len(inbox) : inbox[i] \in Events
         /\ \A i \in 1 .. Len(events) : events[i] \in Events
BY LenProperties, ElementOfSeq DEF TypeOK, Events

\* What QueueStep leaves of each queue, position by position.
LEMMA ClientSendsFacts ==
  ASSUME TypeOK, ClientSends
  PROVE  /\ Len(script) \in Nat \ {0} /\ Len(inbox) \in Nat /\ Len(script') = Len(script) - 1
         /\ \A i \in 1 .. Len(script') : script'[i] = script[i + 1]
         /\ Len(inbox') = Len(inbox) + 1
         /\ \A i \in 1 .. Len(inbox) : inbox'[i] = inbox[i]
         /\ inbox'[Len(inbox) + 1] = script[1]
         /\ UNCHANGED events
<1>1. script \in Seq(Frames) /\ inbox \in Seq(Frames) /\ script # <<>>
  BY DEF TypeOK, ClientSends
<1>2. /\ Head(script) \in Frames /\ Head(script) = script[1] /\ Len(script) \in Nat \ {0}
      /\ Len(Tail(script)) = Len(script) - 1
      /\ \A i \in 1 .. Len(Tail(script)) : Tail(script)[i] = script[i + 1]
  BY <1>1, HeadTailProperties, EmptySeq, LenProperties
<1>3. /\ Len(Append(inbox, Head(script))) = Len(inbox) + 1 /\ Len(inbox) \in Nat
      /\ \A i \in 1 .. Len(inbox) : Append(inbox, Head(script))[i] = inbox[i]
      /\ Append(inbox, Head(script))[Len(inbox) + 1] = Head(script)
  BY <1>1, <1>2, AppendProperties, LenProperties
<1> QED BY <1>2, <1>3 DEF ClientSends

LEMMA ReadFramesFacts ==
  ASSUME TypeOK, ReadFrames
  PROVE  /\ Len(inbox) \in Nat /\ Len(events') = Len(inbox) /\ Len(inbox') = 0
         /\ \A i \in 1 .. Len(inbox) :
              events'[i] = inbox[i] \/ (events'[i] = NoEvent /\ ~Told(inbox[i]))
         /\ \A i \in 1 .. Len(inbox) : Told(inbox[i]) => events'[i] = inbox[i]
         /\ UNCHANGED script
<1>1. Len(inbox) \in Nat
  BY LenProperties DEF TypeOK
<1> DEFINE e(i) == IF Told(inbox[i]) THEN inbox[i] ELSE NoEvent
<1>2. events' = [i \in 1 .. Len(inbox) |-> e(i)] /\ inbox' = <<>> /\ UNCHANGED script
  BY DEF ReadFrames
<1> HIDE DEF e
<1>3. events' \in Seq(Events)
  <2>2. \A i \in 1 .. Len(inbox) : e(i) \in Events
    BY ElementOfSeq DEF TypeOK, e, Events
  <2> QED BY <1>1, <1>2, <2>2, SeqDef
<1>4. Len(events') = Len(inbox) /\ \A i \in 1 .. Len(inbox) : events'[i] = e(i)
  <2>1. DOMAIN events' = 1 .. Len(inbox)
    BY <1>2
  <2>2. DOMAIN events' = 1 .. Len(events') /\ Len(events') \in Nat
    BY <1>3, LenProperties
  <2> QED BY <1>1, <1>2, <2>1, <2>2
<1> QED BY <1>1, <1>2, <1>4, EmptySeq DEF e

\* What leaves a frame out leaves the others in their order.
LEMMA OrderedStep ==
  ASSUME NEW R, TypeInv, Ordered(R), QueueStep,
         \A e \in Events : <<NoEvent, e>> \in R /\ <<e, NoEvent>> \in R
  PROVE  Ordered(R)'
<1>0. TypeOK
  BY DEF TypeInv
<1>1. CASE UNCHANGED <<script, inbox, events>>
  BY <1>1 DEF Ordered
<1>2. CASE events # <<>> /\ Done /\ UNCHANGED <<script, inbox>>
  <2>1. /\ Len(events) \in Nat \ {0} /\ Len(events') = Len(events) - 1
        /\ \A i \in 1 .. Len(events') : events'[i] = events[i + 1]
    BY <1>0, <1>2, EventFacts DEF Done
  <2>2. \A i \in 1 .. Len(events') : i + 1 \in 1 .. Len(events)
    BY <2>1
  <2>3. \A i, j \in 1 .. Len(events') : i < j => <<events'[i], events'[j]>> \in R
    BY <2>1, <2>2 DEF Ordered
  <2>4. /\ \A i \in 1 .. Len(events'), j \in 1 .. Len(inbox) : <<events'[i], inbox[j]>> \in R
        /\ \A i \in 1 .. Len(events'), j \in 1 .. Len(script) : <<events'[i], script[j]>> \in R
    BY <2>1, <2>2 DEF Ordered
  <2> QED BY <1>2, <2>3, <2>4 DEF Ordered
<1>3. CASE inbox' = <<>> /\ UNCHANGED <<script, events>>
  <2>1. Len(inbox') = 0
    BY <1>3, EmptySeq
  <2> QED BY <1>3, <2>1 DEF Ordered
<1>4. CASE ReadFrames
  <2>1. /\ Len(inbox) \in Nat /\ Len(events') = Len(inbox) /\ Len(inbox') = 0
        /\ \A i \in 1 .. Len(inbox) : events'[i] \in {inbox[i], NoEvent}
        /\ UNCHANGED script
    BY <1>0, <1>4, ReadFramesFacts
  <2>2. /\ \A i \in 1 .. Len(inbox) : inbox[i] \in Events
        /\ \A i \in 1 .. Len(script) : script[i] \in Events
        /\ NoEvent \in Events
    BY <1>0, QueueTypes DEF Events
  <2>3. \A i, j \in 1 .. Len(events') : i < j => <<events'[i], events'[j]>> \in R
    BY <2>1, <2>2 DEF Ordered
  <2>4. \A i \in 1 .. Len(events'), j \in 1 .. Len(script') : <<events'[i], script'[j]>> \in R
    BY <2>1, <2>2 DEF Ordered
  <2> QED BY <2>1, <2>3, <2>4 DEF Ordered
<1>5. CASE ClientSends
  <2> DEFINE n == Len(inbox) + 1
  <2>1. /\ Len(script) \in Nat \ {0} /\ Len(inbox) \in Nat /\ Len(script') = Len(script) - 1
        /\ \A i \in 1 .. Len(script') : script'[i] = script[i + 1]
        /\ Len(inbox') = n
        /\ \A i \in 1 .. Len(inbox) : inbox'[i] = inbox[i]
        /\ inbox'[n] = script[1]
        /\ UNCHANGED events
    BY <1>0, <1>5, ClientSendsFacts
  <2>2. /\ \A i \in 1 .. Len(script') : i + 1 \in 1 .. Len(script) /\ 1 < i + 1
        /\ 1 \in 1 .. Len(script)
        /\ \A i \in 1 .. Len(inbox') : i \in 1 .. Len(inbox) \/ i = n
        /\ \A i \in 1 .. Len(inbox') : i < n => i \in 1 .. Len(inbox)
    BY <2>1
  <2>3. \A i, j \in 1 .. Len(script') : i < j => <<script'[i], script'[j]>> \in R
    BY <2>1, <2>2 DEF Ordered
  <2>4. \A i, j \in 1 .. Len(inbox') : i < j => <<inbox'[i], inbox'[j]>> \in R
    <3> SUFFICES ASSUME NEW i \in 1 .. Len(inbox'), NEW j \in 1 .. Len(inbox'), i < j
                 PROVE  <<inbox'[i], inbox'[j]>> \in R
      OBVIOUS
    <3>1. i \in 1 .. Len(inbox)
      BY <2>1
    <3>2. CASE j \in 1 .. Len(inbox)
      BY <2>1, <3>1, <3>2 DEF Ordered
    <3>3. CASE j = n
      BY <2>1, <2>2, <3>1, <3>3 DEF Ordered
    <3> QED BY <2>2, <3>2, <3>3
  <2>5. \A i \in 1 .. Len(events), j \in 1 .. Len(inbox') : <<events[i], inbox'[j]>> \in R
    BY <2>1, <2>2 DEF Ordered
  <2>6. \A i \in 1 .. Len(events), j \in 1 .. Len(script') : <<events[i], script'[j]>> \in R
    BY <2>1, <2>2 DEF Ordered
  <2>7. \A i \in 1 .. Len(inbox'), j \in 1 .. Len(script') : <<inbox'[i], script'[j]>> \in R
    BY <2>1, <2>2 DEF Ordered
  <2> QED BY <2>1, <2>3, <2>4, <2>5, <2>6, <2>7 DEF Ordered
<1> QED BY <1>1, <1>2, <1>3, <1>4, <1>5 DEF QueueStep

----------------------------------------------------------------------------
(* Who runs, and what h2 knows of the streams.                             *)

\* An application runs once its stream is created.
LEMMA ReaderSpawns ==
  ASSUME TypeInv, ReaderStep
  PROVE  CreateStream \/ \A s \in Streams : pc'[s] = pc[s]
<1>1. ASSUME NEW l \in ReaderPC, Goto(Reader, l) PROVE \A s \in Streams : pc'[s] = pc[s]
  BY <1>1, GotoType, TaskFacts DEF TypeInv
<1>2. ASSUME UNCHANGED pc PROVE \A s \in Streams : pc'[s] = pc[s]
  BY <1>2
<1>3. /\ {"events", "close", "closed", "raised", "putBody", "window", "waitClosed", "join",
          "finalClose", "finalWait", "stopped"} \subseteq ReaderPC
      /\ NextRead \in ReaderPC /\ AfterClosing \in ReaderPC
  BY NextReads DEF ReaderPC
<1>4. CASE RefuseRequest \/ CreateStream \/ BodyReceived \/ LateBody \/ PutBody \/ StreamReset
  BY <1>1, <1>2, <1>3, <1>4
  DEF RefuseRequest, BodyReceived, LateBody, PutBody, StreamReset
<1>5. CASE WindowUpdated \/ PriorityUpdated \/ NothingTold \/ ReaderClosed \/ ReadFrames
           \/ ReadError
  BY <1>1, <1>2, <1>3, <1>5
  DEF WindowUpdated, PriorityUpdated, NothingTold, ReaderClosed, ReadFrames, ReadError, Flush
<1>6. CASE ReadEnds \/ ConnectionTerminated \/ EventsHandled \/ ReaderCloses
  BY <1>1, <1>2, <1>3, <1>6
  DEF ReadEnds, ConnectionTerminated, EventsHandled, ReaderCloses, Flush
<1>7. CASE HandleClosed \/ Join \/ FinalClose \/ FinalClosed \/ WriteStep(Reader)
  BY <1>1, <1>2, <1>3, <1>7, WriteType, TaskFacts
  DEF HandleClosed, Join, FinalClose, FinalClosed
<1> QED BY <1>4, <1>5, <1>6, <1>7 DEF ReaderStep

LEMMA SenderSpawns == ASSUME TypeInv, SenderStep PROVE \A s \in Streams : pc'[s] = pc[s]
<1>1. ASSUME NEW l \in SenderPC, Goto(Sender, l) PROVE \A s \in Streams : pc'[s] = pc[s]
  BY <1>1, GotoType, TaskFacts DEF TypeInv
<1>2. ASSUME UNCHANGED pc PROVE \A s \in Streams : pc'[s] = pc[s]
  BY <1>2
<1>3. SenderPC = {"loop", "wait", "sent", "finished", "raised", "done"}
  BY DEF SenderPC
<1>4. ASSUME NEW s \in Streams, Serve(s) PROVE \A r \in Streams : pc'[r] = pc[r]
  BY <1>1, <1>2, <1>3, <1>4 DEF Serve, ServeData, ServeNothing, ServeEnd, ServeFails,
     ServeCrashes, EndStream, Flush
<1>5. CASE WriteStep(Sender)
  BY <1>2, <1>5, WriteType, TaskFacts
<1>6. CASE EndAfterData \/ TurnOver \/ Finished \/ WaitForData \/ HasData \/ SenderEnds
  BY <1>1, <1>3, <1>6
  DEF EndAfterData, EndStream, TurnOver, Finished, WaitForData, HasData, SenderEnds, Flush
<1> QED BY <1>4, <1>5, <1>6 DEF SenderStep

\* An application's steps move its own task, which runs.
LEMMA AppSpawns ==
  ASSUME TypeInv, NEW r \in Streams, StreamStep(r) \/ AppStep(r)
  PROVE  /\ \A u \in Tasks \ {r} : pc'[u] = pc[u]
         /\ ~WriteStep(r) => Spawned(r) /\ Spawned(r)'
         /\ WriteStep(r) => UNCHANGED pc
<1>1. ASSUME NEW l \in AppPC \ {"none"}, Goto(r, l)
      PROVE  (\A u \in Tasks \ {r} : pc'[u] = pc[u]) /\ Spawned(r)'
  BY <1>1, GotoType, TaskFacts DEF TypeInv, Spawned
<1>2. ASSUME UNCHANGED pc, Spawned(r)
      PROVE  (\A u \in Tasks \ {r} : pc'[u] = pc[u]) /\ Spawned(r)'
  BY <1>2 DEF Spawned
<1>3. /\ {"run", "started", "push", "pushLast", "bodyEnd", "drain", "errEnd", "ended",
          "left", "update", "finish", "done"} \subseteq AppPC \ {"none"}
      /\ Back(r) \in AppPC \ {"none"}
  BY DEF AppPC, Back
<1>4. CASE WriteStep(r)
  BY <1>4, WriteType, TaskFacts
<1>5. CASE Started(r) \/ Resumed(r) \/ Drained(r) \/ Finish(r) \/ ErrorResponseEnd(r)
           \/ EndResponse(r)
  <2>1. Spawned(r)
    BY <1>5 DEF Spawned, Started, Resumed, Drained, Finish, ErrorResponseEnd, EndResponse,
       At, MayRespond
  <2>2. \E l \in AppPC \ {"none"} : Goto(r, l)
    BY <1>3, <1>5 DEF Started, Resumed, Drained, Finish, ErrorResponseEnd, EndResponse,
       EndBody, SendHeaders, Flush
  <2> QED BY <1>1, <2>1, <2>2, WriteType, TaskFacts
<1>6. CASE StreamEnded(r) \/ StreamLeft(r) \/ LastStreamLeft(r) \/ LastStreamTimer(r)
  <2>1. Spawned(r)
    BY <1>6 DEF Spawned, StreamEnded, StreamLeft, LastStreamLeft, LastStreamTimer, At
  <2>2. \E l \in AppPC \ {"none"} : Goto(r, l)
    BY <1>3, <1>6 DEF StreamEnded, StreamLeft, LastStreamLeft, LastStreamTimer, Flush
  <2> QED BY <1>1, <2>1, <2>2, WriteType, TaskFacts
<1>7. CASE AppStep(r)
  <2>1. Spawned(r)
    BY <1>7 DEF Spawned, AppStep, Receive, SendStart, Return, SendBody, SendFlush,
       EndResponse, EndWithHeaders, MayStart, MayRespond, At
  <2>2. UNCHANGED pc \/ \E l \in AppPC \ {"none"} : Goto(r, l)
    BY <1>3, <1>7 DEF AppStep, Receive, SendStart, Return, SendBody, SendFlush,
       EndResponse, EndBody, EndWithHeaders, SendHeaders, Flush
  <2> QED BY <1>1, <1>2, <2>1, <2>2, WriteType, TaskFacts
<1> QED BY <1>4, <1>5, <1>6, <1>7 DEF StreamStep

LEMMA AbortFacts ==
  ASSUME TypeInv, Abort
  PROVE  /\ \A s \in Streams : pc'[s] = Cancelled(s)
         /\ \A s \in Streams : Spawned(s)' <=> Spawned(s)
         /\ pc'[Sender] = "done" /\ pc'[Reader] \in {"closed", "read", "events", "join"}
<1>1. /\ \A t \in Tasks : pc'[t] = Cancelled(t)
      /\ TypeOK
  BY DEF Abort, TypeInv
<1> QED BY <1>1, TaskFacts, NextReads DEF Cancelled, Spawned

LEMMA Spawns ==
  ASSUME TypeInv, [Next]_vars
  PROVE  CreateStream \/ \A s \in Streams : Spawned(s)' <=> Spawned(s)
<1>1. ASSUME \A s \in Streams : pc'[s] = pc[s]
      PROVE  \A s \in Streams : Spawned(s)' <=> Spawned(s)
  BY <1>1 DEF Spawned
<1>2. ASSUME NEW r \in Streams, StreamStep(r) \/ AppStep(r)
      PROVE  \A s \in Streams : Spawned(s)' <=> Spawned(s)
  BY <1>2, AppSpawns, TaskFacts DEF Spawned
<1>3. CASE Environment
  <2>1. CASE Abort
    BY <2>1, AbortFacts
  <2>2. CASE ReadTimeout
    <3>1. Goto(Reader, "closed") /\ "closed" \in ReaderPC
      BY <2>2 DEF ReadTimeout, ReaderPC
    <3> QED BY <1>1, <3>1, GotoType, TaskFacts DEF TypeInv
  <2>3. CASE IdleTimeout \/ Terminate \/ ClientSends \/ ClientEof \/ ConnectionLost
    BY <1>1, <2>3 DEF IdleTimeout, Terminate, ClientSends, ClientEof, ConnectionLost
  <2> QED BY <1>3, <2>1, <2>2, <2>3 DEF Environment
<1>4. CASE UNCHANGED vars
  BY <1>1, <1>4 DEF vars
<1> QED BY <1>1, <1>2, <1>3, <1>4, ReaderSpawns, SenderSpawns DEF Next

\* Our side of a stream is opened as its HEADERS are read, and ended by the
\* sender or with trailers.
HalfStep ==
  \/ UNCHANGED half
  \/ ReadFrames
  \/ RefuseRequest
  \/ \E s \in Streams : CanSend(s) /\ half' = [half EXCEPT ![s] = "ended"]

LEMMA Halves == ASSUME TypeInv, [Next]_vars PROVE HalfStep
<1>1. CASE ReaderStep
  BY <1>1 DEF ReaderStep, ReadError, ReadEnds, CreateStream, BodyReceived, LateBody, PutBody,
     StreamReset, WindowUpdated, PriorityUpdated, NothingTold, ConnectionTerminated,
     EventsHandled, ReaderCloses, ReaderClosed, HandleClosed, Join, FinalClose, FinalClosed,
     WriteStep, Flushed, FlushFails, PutLate, h2Vars, HalfStep
<1>2. CASE SenderStep
  <2>1. ASSUME NEW s \in Streams, Serve(s) PROVE HalfStep
    BY <2>1 DEF Serve, ServeData, ServeNothing, ServeEnd, ServeFails, ServeCrashes, EndStream,
       h2Vars, HalfStep
  <2>2. CASE EndAfterData
    BY <2>2, ServedFacts DEF EndAfterData, EndStream, At, HalfStep
  <2>3. CASE TurnOver \/ Finished \/ WaitForData \/ HasData \/ SenderEnds \/ WriteStep(Sender)
    BY <2>3 DEF TurnOver, Finished, WaitForData, HasData, SenderEnds, WriteStep, Flushed,
       FlushFails, PutLate, h2Vars, HalfStep
  <2> QED BY <1>2, <2>1, <2>2, <2>3 DEF SenderStep
<1>3. ASSUME NEW r \in Streams, StreamStep(r) PROVE HalfStep
  BY <1>3 DEF StreamStep, Started, Resumed, EndResponse, EndBody, Drained, Finish,
     ErrorResponseEnd, StreamEnded, StreamLeft, LastStreamLeft, LastStreamTimer,
     WriteStep, Flushed, FlushFails, PutLate, h2Vars, HalfStep
<1>4. ASSUME NEW r \in Streams, AppStep(r) PROVE HalfStep
  BY <1>4 DEF AppStep, Receive, SendStart, Return, SendBody, SendFlush, EndResponse,
     EndBody, EndWithHeaders, h2Vars, HalfStep
<1>5. CASE Environment \/ UNCHANGED vars
  BY <1>5 DEF Environment, Abort, ReadTimeout, IdleTimeout, Terminate, ClientSends, ClientEof,
     ConnectionLost, vars, h2Vars, HalfStep
<1> QED BY <1>1, <1>2, <1>3, <1>4, <1>5 DEF Next

\* A request is refused, or its stream created, for a first event.
LEMMA RequestFacts ==
  ASSUME TypeInv, RefuseRequest \/ CreateStream
  PROVE  /\ Len(events) \in Nat \ {0} /\ EventStream \in Streams
         /\ events[1] = <<"headers", EventStream>>
         /\ Len(events') = Len(events) - 1
         /\ \A i \in 1 .. Len(events') : events'[i] = events[i + 1]
         /\ UNCHANGED <<inbox, script>>
<1>1. /\ TypeOK /\ events # <<>> /\ Head(events)[1] = "headers" /\ Done
      /\ UNCHANGED <<inbox, script>>
  BY DEF RefuseRequest, CreateStream, Handle, TypeInv
<1>2. /\ Len(events) \in Nat \ {0} /\ EventStream \in Streams
      /\ Head(events) \in Events /\ Head(events) = events[1]
      /\ Len(events') = Len(events) - 1
      /\ \A i \in 1 .. Len(events') : events'[i] = events[i + 1]
  BY <1>1, EventFacts DEF Done
<1>3. events[1] = <<"headers", EventStream>>
  BY <1>1, <1>2 DEF EventStream, Events, Frames, NoEvent
<1> QED BY <1>1, <1>2, <1>3

LEMMA CreateFacts ==
  ASSUME TypeInv, CreateStream
  PROVE  /\ EventStream \in Streams
         /\ pc'[EventStream] = "run"
         /\ \A t \in Tasks \ {EventStream} : pc'[t] = pc[t]
         /\ pc[Reader] = "events" /\ wst[Reader] = "no" /\ ~terminated
         /\ streams' = streams \cup {EventStream} /\ tree' = tree \cup {EventStream}
         /\ buf' = [buf EXCEPT ![EventStream] = NewBuffer]
         /\ conn' \in {conn, "closed"} /\ idle' = FALSE
<1>1. /\ EventStream \in Streams /\ TypeOK
      /\ EventStream \in Tasks
  BY RequestFacts, TaskFacts DEF TypeInv
<1>2. pc' = [pc EXCEPT ![EventStream] = "run"]
  BY DEF CreateStream
<1>3. pc'[EventStream] = "run" /\ \A t \in Tasks \ {EventStream} : pc'[t] = pc[t]
  BY <1>1, <1>2 DEF TypeOK
<1> QED BY <1>1, <1>3 DEF CreateStream, Handle, At

\* The HEADERS that are still to come, once a step is done.
LEMMA ComingStep ==
  ASSUME TypeInv, QueueStep, NEW s \in Streams
  PROVE  /\ Unread(s)' => Unread(s)
         /\ Coming(s)' => Coming(s) \/ Unread(s)
<1>0. TypeOK
  BY DEF TypeInv
<1>1. CASE UNCHANGED <<script, inbox, events>>
  BY <1>1 DEF Coming, Unread
<1>2. CASE events # <<>> /\ Done /\ UNCHANGED <<script, inbox>>
  <2>1. /\ Len(events) \in Nat \ {0} /\ Len(events') = Len(events) - 1
        /\ \A i \in 1 .. Len(events') : events'[i] = events[i + 1]
    BY <1>0, <1>2, EventFacts DEF Done
  <2>2. \A i \in 1 .. Len(events') : i + 1 \in 1 .. Len(events)
    BY <2>1
  <2> QED BY <1>2, <2>1, <2>2 DEF Coming, Unread
<1>3. CASE inbox' = <<>> /\ UNCHANGED <<script, events>>
  <2>1. Len(inbox') = 0
    BY <1>3, EmptySeq
  <2> QED BY <1>3, <2>1 DEF Coming, Unread
<1>4. CASE ReadFrames
  <2>1. /\ Len(inbox) \in Nat /\ Len(events') = Len(inbox) /\ Len(inbox') = 0
        /\ \A i \in 1 .. Len(inbox) : events'[i] \in {inbox[i], NoEvent}
        /\ UNCHANGED script
    BY <1>0, <1>4, ReadFramesFacts
  <2>2. NoEvent # <<"headers", s>>
    BY DEF NoEvent
  <2>3. ASSUME NEW i \in 1 .. Len(events'), events'[i] = <<"headers", s>> PROVE Unread(s)
    BY <2>1, <2>2, <2>3 DEF Unread
  <2>4. Unread(s)' => Unread(s)
    BY <2>1 DEF Unread
  <2>5. Coming(s)' => Unread(s)
    BY <2>3 DEF Coming
  <2> QED BY <2>4, <2>5
<1>5. CASE ClientSends
  <2> DEFINE n == Len(inbox) + 1
  <2>1. /\ Len(script) \in Nat \ {0} /\ Len(inbox) \in Nat /\ Len(script') = Len(script) - 1
        /\ \A i \in 1 .. Len(script') : script'[i] = script[i + 1]
        /\ Len(inbox') = n
        /\ \A i \in 1 .. Len(inbox) : inbox'[i] = inbox[i]
        /\ inbox'[n] = script[1]
        /\ UNCHANGED events
    BY <1>0, <1>5, ClientSendsFacts
  <2>2. /\ \A i \in 1 .. Len(script') : i + 1 \in 1 .. Len(script)
        /\ 1 \in 1 .. Len(script)
        /\ \A i \in 1 .. Len(inbox') : i \in 1 .. Len(inbox) \/ i = n
    BY <2>1
  <2> HIDE DEF n
  <2>3. ASSUME NEW i \in 1 .. Len(inbox'), inbox'[i] = <<"headers", s>> PROVE Unread(s)
    BY <2>1, <2>2, <2>3 DEF Unread
  <2>4. ASSUME NEW i \in 1 .. Len(script'), script'[i] = <<"headers", s>> PROVE Unread(s)
    BY <2>1, <2>2, <2>4 DEF Unread
  <2>5. Coming(s)' => Coming(s)
    BY <2>1 DEF Coming
  <2>6. Unread(s)' => Unread(s)
    BY <2>3, <2>4 DEF Unread
  <2> QED BY <2>5, <2>6
<1> QED BY <1>1, <1>2, <1>3, <1>4, <1>5 DEF QueueStep

LEMMA LegalNothing == \A e \in Events : <<NoEvent, e>> \in LegalPairs /\ <<e, NoEvent>> \in LegalPairs
<1> SUFFICES ASSUME NEW e \in Events
             PROVE  <<NoEvent, e>> \in LegalPairs /\ <<e, NoEvent>> \in LegalPairs
  OBVIOUS
<1>1. NoEvent \in Events /\ NoEvent[1] = "nothing" /\ NoEvent[2] = 0
  BY DEF NoEvent, Events
<1>2. e[1] = "headers" => e[2] # 0
  BY TaskFacts DEF Events, Frames, NoEvent
<1>3. MayFollow(NoEvent, e) /\ MayFollow(e, NoEvent)
  BY <1>1, <1>2 DEF MayFollow
<1> QED BY <1>1, <1>3 DEF LegalPairs

\* No HEADERS come after those of the same stream, nor after its other frames.
LEMMA LegalAfter ==
  ASSUME NEW s \in Streams, NEW f, <<f, <<"headers", s>>>> \in LegalPairs, f[2] = s
  PROVE  f[1] = "priority"
BY DEF LegalPairs, MayFollow

LEMMA OpenedInit == Init => OpenedOnce
<1> SUFFICES ASSUME Init PROVE OpenedOnce
  OBVIOUS
<1>1. /\ Len(inbox) = 0 /\ Len(events) = 0 /\ script \in Seq(Frames) /\ Legal(script)
  BY H2Assumption, EmptySeq DEF Init
<1>2. \A i \in 1 .. Len(script) : script[i] \in Events
  BY <1>1, LenProperties, ElementOfSeq DEF Events
<1>3. Ordered(LegalPairs)
  BY <1>1, <1>2 DEF Ordered, LegalPairs, Legal
<1>4. \A s \in Streams : ~Spawned(s) /\ half[s] = "idle"
  BY TaskFacts DEF Init, Spawned
<1> QED BY <1>3, <1>4 DEF OpenedOnce

LEMMA OpenedStep == TypeInv /\ OpenedOnce /\ [Next]_vars => OpenedOnce'
<1> SUFFICES ASSUME TypeInv, OpenedOnce, [Next]_vars PROVE OpenedOnce'
  OBVIOUS
<1>1. QueueStep
  BY Queues
<1>2. Ordered(LegalPairs)'
  BY <1>1, OrderedStep, LegalNothing DEF OpenedOnce
<1>3. ASSUME NEW s \in Streams, Coming(s)' \/ Unread(s)' PROVE ~Spawned(s)'
  <2>1. ~Spawned(s)
    BY <1>1, <1>3, ComingStep DEF OpenedOnce
  <2>2. CASE CreateStream
    <3>1. /\ Len(events) \in Nat \ {0} /\ events[1] = <<"headers", EventStream>>
          /\ Len(events') = Len(events) - 1
          /\ \A i \in 1 .. Len(events') : events'[i] = events[i + 1]
          /\ UNCHANGED <<inbox, script>>
      BY <2>2, RequestFacts
    <3>2. ASSUME s = EventStream PROVE FALSE
      <4>0. 1 \in 1 .. Len(events) /\ \A i \in 2 .. Len(events) : i \in 1 .. Len(events) /\ 1 < i
        BY <3>1
      <4>1. /\ \A i \in 2 .. Len(events) : <<events[1], events[i]>> \in LegalPairs
            /\ \A i \in 1 .. Len(inbox) : <<events[1], inbox[i]>> \in LegalPairs
            /\ \A i \in 1 .. Len(script) : <<events[1], script[i]>> \in LegalPairs
        <5> HIDE DEF LegalPairs
        <5>1. Ordered(LegalPairs)
          BY DEF OpenedOnce
        <5> QED BY <4>0, <5>1 DEF Ordered
      <4>2. \A i \in 1 .. Len(events') : i + 1 \in 2 .. Len(events)
        BY <3>1
      <4>3. <<events[1], <<"headers", s>>>> \in LegalPairs
        BY <1>3, <3>1, <4>1, <4>2 DEF Coming, Unread
      <4> QED BY <3>1, <3>2, <4>3, LegalAfter
    <3> QED BY <2>1, <2>2, <3>2, CreateFacts, TaskFacts DEF Spawned
  <2> QED BY <2>1, <2>2, Spawns
<1>4. ASSUME NEW s \in Streams, Unread(s)' PROVE half'[s] = "idle"
  <2>1. Unread(s) /\ half[s] = "idle" /\ half \in [Streams -> {"idle", "open", "ended", "reset"}]
    BY <1>1, <1>4, ComingStep DEF OpenedOnce, TypeInv, TypeOK
  <2>2. CASE RefuseRequest
    <3>1. /\ Len(events) \in Nat \ {0} /\ events[1] = <<"headers", EventStream>>
          /\ UNCHANGED <<inbox, script>>
      BY <2>2, RequestFacts
    <3>2. ASSUME s = EventStream PROVE FALSE
      <4>1. <<events[1], <<"headers", s>>>> \in LegalPairs
        <5>1. /\ \A i \in 1 .. Len(inbox) : <<events[1], inbox[i]>> \in LegalPairs
              /\ \A i \in 1 .. Len(script) : <<events[1], script[i]>> \in LegalPairs
          BY <3>1 DEF OpenedOnce, Ordered
        <5> QED BY <2>1, <5>1 DEF Unread
      <4> QED BY <3>1, <3>2, <4>1, LegalAfter
    <3> QED BY <2>1, <2>2, <3>2 DEF RefuseRequest
  <2>3. CASE ReadFrames
    <3>1. PICK i \in 1 .. Len(script) : script[i] = <<"headers", s>>
      <4>1. Len(inbox') = 0 /\ UNCHANGED script
        BY <2>3, ReadFramesFacts DEF TypeInv
      <4> QED BY <1>4, <4>1 DEF Unread
    <3>2. \A j \in 1 .. Len(inbox) : inbox[j] # <<"headers", s>> /\ inbox[j] # <<"reset", s>>
      <4>1. \A j \in 1 .. Len(inbox) : <<inbox[j], <<"headers", s>>>> \in LegalPairs
        BY <3>1 DEF OpenedOnce, Ordered
      <4>2. ASSUME NEW f \in {<<"headers", s>>, <<"reset", s>>},
                   <<f, <<"headers", s>>>> \in LegalPairs
            PROVE  FALSE
        <5>1. f[2] = s /\ f[1] # "priority"
          OBVIOUS
        <5> QED BY <4>2, <5>1, LegalAfter
      <4> QED BY <4>1, <4>2
    <3>3. DOMAIN inbox = 1 .. Len(inbox)
      BY LenProperties DEF TypeInv, TypeOK
    <3>4. ~Received("headers", s) /\ ~Received("reset", s)
      BY <3>2, <3>3 DEF Received
    <3> QED BY <2>1, <2>3, <3>4 DEF ReadFrames
  <2>4. ASSUME NEW u \in Streams, CanSend(u), half' = [half EXCEPT ![u] = "ended"]
        PROVE  half'[s] = "idle"
    BY <2>1, <2>4 DEF CanSend
  <2> QED BY <2>1, <2>2, <2>3, <2>4, Halves DEF HalfStep
<1> QED BY <1>2, <1>3, <1>4 DEF OpenedOnce

----------------------------------------------------------------------------
(* Each application is told once that its stream is closed.                *)

\* Task t closes streams: those of "gone" are told at once, together with those
\* of "now"; the one of "late", if any, has left the table and is told later.
Closing(t, ids, now) ==
  \E gone, late \in SUBSET (ids \cap streams) :
    /\ gone \cap late = {}
    /\ streams' = streams \ (gone \cup late)
    /\ told' = [s \in Streams |-> IF s \in now \cup gone THEN told[s] + 1 ELSE told[s]]
    /\ \A u \in Tasks \ {t} : closing'[u] = closing[u] /\ wst'[u] = wst[u]
    /\ wst'[t] = "put" <=> closing'[t] # {}
    /\ \A s \in Streams : Telling(t, s)' <=> s \in late

LEMMA ClosingFacts ==
  ASSUME TypeOK, NEW t \in Tasks, NEW ids \in SUBSET Streams, NEW now \in SUBSET Streams,
         CloseStreams(t, ids, now)
  PROVE  Closing(t, ids, now)
<1> DEFINE open == ids \cap streams
           full == {s \in open : ~HasRoom(s)}
           before == {s \in open : \A u \in full : s < u}
           late == {s \in full : \A u \in full : s <= u}
<1>0. full \subseteq open /\ open \subseteq Nat /\ open \subseteq Streams
  BY TaskFacts
<1>1. /\ told' = [s \in Streams |-> IF s \in now \cup before THEN told[s] + 1 ELSE told[s]]
      /\ streams' = streams \ {s \in open : \A u \in full : s <= u}
  BY DEF CloseStreams, Put, Leave
<1>2. /\ full = {} => Released(t)
      /\ full # {} => /\ wst' = [wst EXCEPT ![t] = "put"]
                      /\ closing' = [closing EXCEPT ![t] = open \ before]
  BY DEF CloseStreams
<1>3. wst \in [Tasks -> {"no", "flush", "put"}] /\ closing \in [Tasks -> SUBSET Streams]
  BY DEF TypeOK
<1> HIDE DEF open, full
<1>4. before \cap late = {} /\ before \subseteq open /\ late \subseteq open
  <2>1. ASSUME NEW s \in before, s \in late PROVE FALSE
    <3>1. s < s /\ s \in Nat
      BY <1>0, <2>1
    <3> QED BY <3>1
  <2> QED BY <1>0, <2>1
<1>5. {s \in open : \A u \in full : s <= u} = before \cup late
  <2>1. ASSUME NEW s \in open, \A u \in full : s <= u, s \notin before PROVE s \in late
    <3>1. PICK v \in full : ~(s < v)
      BY <2>1
    <3>2. s = v
      BY <1>0, <2>1, <3>1
    <3> QED BY <2>1, <3>1, <3>2
  <2>2. \A s \in before : \A u \in full : s <= u
    BY <1>0
  <2> QED BY <1>0, <2>1, <2>2
<1>6. \A u \in Tasks \ {t} : closing'[u] = closing[u] /\ wst'[u] = wst[u]
  BY <1>2, <1>3 DEF Released
<1>7. CASE full = {}
  <2>1. closing'[t] = {} /\ wst'[t] = "no" /\ late = {}
    BY <1>2, <1>3, <1>7 DEF Released
  <2>2. \A s \in Streams : ~Telling(t, s)'
    BY <2>1 DEF Telling
  <2> HIDE DEF before, late
  <2> QED BY <1>1, <1>4, <1>5, <1>6, <2>1, <2>2 DEF Closing, open
<1>8. CASE full # {}
  <2>1. closing'[t] = open \ before /\ wst'[t] = "put"
    BY <1>2, <1>3, <1>8
  <2>2. \A v \in full : v \in open \ before
    BY <1>0
  <2>3. ASSUME NEW s \in late PROVE Telling(t, s)'
    <3>1. ASSUME NEW u \in open \ before PROVE s <= u
      <4>1. PICK v \in full : ~(u < v)
        OBVIOUS
      <4> QED BY <1>0, <4>1
    <3> QED BY <2>1, <2>2, <3>1 DEF Telling
  <2>4. ASSUME NEW s \in Streams, Telling(t, s)' PROVE s \in late
    <3>1. s \in open \ before /\ \A u \in open \ before : s <= u
      BY <2>1, <2>4 DEF Telling
    <3>2. PICK v \in full : ~(s < v)
      BY <3>1
    <3>3. s = v
      BY <1>0, <2>2, <3>1, <3>2
    <3> QED BY <2>2, <3>1, <3>2, <3>3
  <2>5. closing'[t] # {}
    BY <1>8, <2>1, <2>2
  <2>6. \A s \in Streams : Telling(t, s)' <=> s \in late
    BY <2>3, <2>4
  <2> HIDE DEF before, late
  <2> QED BY <1>1, <1>4, <1>5, <1>6, <2>1, <2>5, <2>6 DEF Closing, open
<1> QED BY <1>7, <1>8

\* What a step does to the table and to those who close streams.
TellStep ==
  \/ \E t \in Tasks, ids \in SUBSET Streams :
       wst[t] # "put" /\ Closing(t, ids, {}) /\ UNCHANGED aborting
  \/ \E t \in Tasks, s \in Streams, ids \in SUBSET Streams :
       Telling(t, s) /\ Closing(t, ids, {s}) /\ UNCHANGED aborting
  \/ CreateStream
  \/ Abort
  \/ /\ UNCHANGED <<streams, told, closing, aborting>>
     /\ \A t \in Tasks : wst'[t] = "put" <=> wst[t] = "put"

\* Nobody who goes on had a stream to close.
LEMMA ReleasedTell ==
  ASSUME TypeInv, Waits, NEW t \in Tasks, wst[t] # "put", Released(t)
  PROVE  UNCHANGED closing /\ \A u \in Tasks : wst'[u] = "put" <=> wst[u] = "put"
<1>1. wst \in [Tasks -> {"no", "flush", "put"}] /\ closing \in [Tasks -> SUBSET Streams]
  BY DEF TypeInv, TypeOK
<1>2. closing[t] = {}
  BY DEF Waits
<1> QED BY <1>1, <1>2 DEF Released

LEMMA FlushTell ==
  ASSUME TypeInv, NEW t \in Tasks, NEW l, wst[t] # "put", Flush(t, l)
  PROVE  UNCHANGED closing /\ \A u \in Tasks : wst'[u] = "put" <=> wst[u] = "put"
BY DEF Flush, TypeInv, TypeOK

LEMMA WriteTell ==
  ASSUME TypeInv, Waits, NEW t \in Tasks, WriteStep(t)
  PROVE  TellStep
<1>0. TypeOK
  BY DEF TypeInv
<1>1. CASE Flushed(t)
  <2>1. UNCHANGED <<streams, told, aborting>> /\ wst[t] # "put" /\ Released(t)
    BY <1>1 DEF Flushed, protocolVars, queueVars, serverVars
  <2> QED BY <2>1, ReleasedTell DEF TellStep
<1>2. CASE FlushFails(t)
  <2>1. /\ wst[t] # "put" /\ CloseStreams(t, streams, {}) /\ UNCHANGED aborting
        /\ streams \in SUBSET Streams /\ {} \in SUBSET Streams
    BY <1>0, <1>2 DEF FlushFails, serverVars, TypeOK
  <2> QED BY <1>0, <2>1, ClosingFacts DEF TellStep
<1>3. CASE PutLate(t)
  <2>1. PICK s \in Streams : Telling(t, s) /\ CloseStreams(t, closing[t] \ {s}, {s})
    BY <1>3 DEF PutLate
  <2>2. /\ UNCHANGED aborting /\ closing[t] \ {s} \in SUBSET Streams
        /\ {s} \in SUBSET Streams
    BY <1>0, <1>3 DEF PutLate, serverVars, TypeOK
  <2> QED BY <1>0, <2>1, <2>2, ClosingFacts DEF TellStep
<1> QED BY <1>1, <1>2, <1>3 DEF WriteStep

LEMMA ReaderTells == ASSUME TypeInv, Waits, ReaderStep PROVE TellStep
<1>0. TypeOK /\ {} \in SUBSET Streams
  BY DEF TypeInv
<1>1. CASE WriteStep(Reader)
  BY <1>1, WriteTell, TaskFacts
<1>2. CASE StreamReset
  <2>1. /\ wst[Reader] # "put" /\ UNCHANGED aborting
        /\ {EventStream} \in SUBSET Streams
    BY <1>0, <1>2, EventFacts DEF StreamReset, Handle, At, serverVars
  <2>2. CASE CloseStreams(Reader, {EventStream}, {})
    BY <1>0, <2>1, <2>2, ClosingFacts, TaskFacts DEF TellStep
  <2>3. CASE UNCHANGED <<streams, hasData, queueVars, waitVars>>
    BY <2>1, <2>3 DEF TellStep, queueVars, waitVars
  <2> QED BY <1>2, <2>2, <2>3 DEF StreamReset
<1>3. CASE HandleClosed
  <2>1. /\ wst[Reader] # "put" /\ CloseStreams(Reader, streams, {}) /\ UNCHANGED aborting
        /\ streams \in SUBSET Streams
    BY <1>0, <1>3 DEF HandleClosed, At, serverVars, TypeOK
  <2> QED BY <1>0, <2>1, ClosingFacts, TaskFacts DEF TellStep
<1>4. CASE CreateStream
  BY <1>4 DEF TellStep
<1>5. CASE ReadError \/ EventsHandled
  <2>1. UNCHANGED <<streams, told, aborting>> /\ wst[Reader] # "put"
    BY <1>5 DEF ReadError, EventsHandled, At, protocolVars, queueVars, serverVars
  <2>2. CASE UNCHANGED waitVars
    BY <2>1, <2>2 DEF TellStep, waitVars
  <2>3. CASE \E l \in ReaderPC : Flush(Reader, l)
    BY <2>1, <2>3, FlushTell, TaskFacts DEF TellStep
  <2> QED BY <1>5, <2>2, <2>3, NextReads DEF ReadError, EventsHandled, ReaderPC
<1>6. CASE ReadFrames \/ ReadEnds \/ RefuseRequest \/ BodyReceived \/ PutBody \/ LateBody
           \/ WindowUpdated \/ PriorityUpdated \/ NothingTold
  <2>1. UNCHANGED <<protocolVars, waitVars, serverVars>> /\ UNCHANGED told
    BY <1>6 DEF ReadFrames, ReadEnds, RefuseRequest, BodyReceived, PutBody, LateBody,
       WindowUpdated, PriorityUpdated, NothingTold, Put, queueVars, TypeInv, TypeOK
  <2> QED BY <2>1 DEF TellStep, protocolVars, waitVars, serverVars
<1>7. CASE ConnectionTerminated \/ ReaderCloses \/ ReaderClosed \/ Join \/ FinalClose
           \/ FinalClosed
  <2>1. UNCHANGED <<protocolVars, waitVars, queueVars, aborting>>
    BY <1>7 DEF ConnectionTerminated, ReaderCloses, ReaderClosed, Join, FinalClose,
       FinalClosed, serverVars
  <2> QED BY <2>1 DEF TellStep, protocolVars, waitVars, queueVars
<1> QED BY <1>1, <1>2, <1>3, <1>4, <1>5, <1>6, <1>7 DEF ReaderStep

LEMMA SenderTells == ASSUME TypeInv, Waits, SenderStep PROVE TellStep
<1>1. CASE WriteStep(Sender)
  BY <1>1, WriteTell, TaskFacts
<1>2. ASSUME NEW s \in Streams, ServeData(s) \/ EndStream(s), wst[Sender] = "no",
             UNCHANGED aborting
      PROVE  TellStep
  <2>1. Flush(Sender, "sent") \/ Flush(Sender, "finished")
    BY <1>2 DEF ServeData, EndStream
  <2>2. UNCHANGED <<streams, told>>
    BY <1>2 DEF ServeData, EndStream, protocolVars, queueVars
  <2> QED BY <1>2, <2>1, <2>2, FlushTell, TaskFacts DEF TellStep
<1>3. ASSUME NEW s \in Streams, ServeData(s) \/ ServeEnd(s) PROVE TellStep
  BY <1>2, <1>3 DEF ServeData, ServeEnd, EndStream, Serving, At, serverVars
<1>4. CASE EndAfterData
  BY <1>2, <1>4, ServedFacts DEF EndAfterData, EndStream, At, serverVars
<1>5. ASSUME NEW s \in Streams, ServeNothing(s) \/ ServeFails(s) \/ ServeCrashes(s)
      PROVE  TellStep
  BY <1>5 DEF ServeNothing, ServeFails, ServeCrashes, TellStep, protocolVars, waitVars,
     queueVars, serverVars
<1>6. CASE TurnOver \/ Finished \/ WaitForData \/ HasData \/ SenderEnds
  BY <1>6 DEF TurnOver, Finished, WaitForData, HasData, SenderEnds, TellStep, protocolVars,
     waitVars, queueVars, serverVars
<1> QED BY <1>1, <1>3, <1>4, <1>5, <1>6 DEF SenderStep, Serve

LEMMA SendHeadersTell ==
  ASSUME TypeInv, NEW r \in Streams, NEW l, SendHeaders(r, l), wst[r] = "no",
         UNCHANGED <<protocolVars, queueVars, serverVars>>
  PROVE  TellStep
<1>1. UNCHANGED <<streams, told, aborting>>
  BY DEF protocolVars, queueVars, serverVars
<1>2. CASE CanSend(r)
  BY <1>1, <1>2, FlushTell, TaskFacts DEF SendHeaders, TellStep
<1>3. CASE ~CanSend(r)
  BY <1>1, <1>3 DEF SendHeaders, TellStep, waitVars
<1> QED BY <1>2, <1>3

LEMMA AppTells ==
  ASSUME TypeInv, Waits, NEW r \in Streams, StreamStep(r) \/ AppStep(r)
  PROVE  TellStep
<1>0. TypeOK /\ {} \in SUBSET Streams /\ {r} \in SUBSET Streams /\ r \in Tasks
  BY TaskFacts DEF TypeInv
<1>1. CASE WriteStep(r)
  BY <1>0, <1>1, WriteTell
<1>2. CASE StreamEnded(r)
  <2>1. wst[r] # "put" /\ UNCHANGED aborting
    BY <1>2 DEF StreamEnded, At, serverVars
  <2>2. CASE CloseStreams(r, {r}, {})
    BY <1>0, <2>1, <2>2, ClosingFacts DEF TellStep
  <2>3. CASE UNCHANGED <<streams, hasData, queueVars, waitVars>>
    BY <2>1, <2>3 DEF TellStep, queueVars, waitVars
  <2> QED BY <1>2, <2>2, <2>3 DEF StreamEnded
<1>3. CASE LastStreamLeft(r) \/ (\E n \in ChunkSizes : SendFlush(r, n))
  <2>1. /\ wst[r] = "no" /\ UNCHANGED <<streams, told, aborting>>
        /\ UNCHANGED waitVars \/ \E l : Flush(r, l)
    BY <1>3 DEF LastStreamLeft, SendFlush, MayRespond, At, protocolVars, queueVars, serverVars
  <2> QED BY <1>0, <2>1, FlushTell DEF TellStep, waitVars
<1>4. CASE SendStart(r) \/ EndWithHeaders(r)
  BY <1>4, SendHeadersTell DEF SendStart, EndWithHeaders, MayStart, MayRespond, At
<1>5. CASE Finish(r)
  <2>1. wst[r] = "no" /\ UNCHANGED <<protocolVars, queueVars, serverVars>>
    BY <1>5 DEF Finish, At
  <2>2. CASE UNCHANGED waitVars
    BY <2>1, <2>2 DEF TellStep, protocolVars, queueVars, serverVars, waitVars
  <2> QED BY <1>5, <2>1, <2>2, SendHeadersTell DEF Finish
<1>6. CASE Started(r) \/ Resumed(r) \/ EndResponse(r) \/ Drained(r) \/ ErrorResponseEnd(r)
           \/ StreamLeft(r) \/ LastStreamTimer(r) \/ Return(r)
  BY <1>6 DEF Started, Resumed, EndResponse, EndBody, Drained, ErrorResponseEnd,
     StreamLeft, LastStreamTimer, Return, TellStep, protocolVars, queueVars, serverVars, waitVars
<1>7. CASE Receive(r) \/ (\E n \in ChunkSizes, last \in BOOLEAN : SendBody(r, n, last))
  BY <1>7 DEF Receive, SendBody, TellStep, protocolVars, queueVars, serverVars, waitVars
<1> QED BY <1>1, <1>2, <1>3, <1>4, <1>5, <1>6, <1>7 DEF StreamStep, AppStep

LEMMA Tells == ASSUME TypeInv, Waits, [Next]_vars PROVE TellStep
<1>1. CASE Environment
  <2>1. CASE ReadTimeout \/ IdleTimeout \/ Terminate \/ ClientSends \/ ClientEof
             \/ ConnectionLost
    BY <2>1 DEF ReadTimeout, IdleTimeout, Terminate, ClientSends, ClientEof, ConnectionLost,
       TellStep, protocolVars, queueVars, serverVars, waitVars
  <2> QED BY <1>1, <2>1 DEF Environment, TellStep
<1>2. CASE UNCHANGED vars
  BY <1>2 DEF vars, TellStep, protocolVars, queueVars, serverVars, waitVars
<1> QED BY <1>1, <1>2, ReaderTells, SenderTells, AppTells DEF Next

\* Streams are closed by t, which had nothing to tell, or one it tells now.
LEMMA ClosingTell ==
  ASSUME TypeInv, TellInv, NEW t \in Tasks, NEW ids \in SUBSET Streams,
         NEW now \in SUBSET Streams, Closing(t, ids, now),
         \A s \in Streams : Telling(t, s) <=> s \in now,
         \A s \in Streams : Spawned(s)' <=> Spawned(s), UNCHANGED aborting
  PROVE  TellInv'
<1>1. PICK gone \in SUBSET (ids \cap streams), late \in SUBSET (ids \cap streams) :
        /\ gone \cap late = {}
        /\ streams' = streams \ (gone \cup late)
        /\ told' = [s \in Streams |-> IF s \in now \cup gone THEN told[s] + 1 ELSE told[s]]
        /\ \A u \in Tasks \ {t} : closing'[u] = closing[u] /\ wst'[u] = wst[u]
        /\ wst'[t] = "put" <=> closing'[t] # {}
        /\ \A s \in Streams : Telling(t, s)' <=> s \in late
  BY DEF Closing
<1>2. told \in [Streams -> Nat]
  BY DEF TypeInv, TypeOK
<1>3. \A s \in now \cup gone : told[s] = 0 /\ Spawned(s) /\ told'[s] = 1
  BY <1>1, <1>2 DEF TellInv, Waits
<1>4. \A s \in Streams \ (now \cup gone) : told'[s] = told[s]
  BY <1>1
<1>5. \A u \in Tasks \ {t}, s \in Streams : Telling(u, s)' <=> Telling(u, s)
  BY <1>1 DEF Telling
<1>6. \A s \in now : s \notin streams /\ s \notin late
  BY DEF TellInv, Waits
<1>7. Disconnects'
  <2>1. DisconnectOnce'
    BY <1>2, <1>3, <1>4 DEF DisconnectOnce, TellInv, Disconnects
  <2>2. DisconnectNotLost'
    <3> SUFFICES ASSUME NEW s \in Streams, Spawned(s)', s \notin streams', told'[s] # 1, ~aborting'
                 PROVE  \E u \in Tasks : Telling(u, s)'
      BY DEF DisconnectNotLost
    <3>1. s \notin now \cup gone /\ told[s] # 1
      BY <1>3, <1>4
    <3>2. CASE s \in streams
      BY <1>1, <3>1, <3>2
    <3>3. CASE s \notin streams
      <4>1. PICK u \in Tasks : Telling(u, s)
        BY <3>1, <3>3 DEF TellInv, Disconnects, DisconnectNotLost
      <4> QED BY <1>5, <3>1, <4>1
    <3> QED BY <3>2, <3>3
  <2> QED BY <2>1, <2>2 DEF Disconnects
<1>8. Waits'
  <2>1. \A u \in Tasks : wst'[u] = "put" <=> closing'[u] # {}
    BY <1>1 DEF TellInv, Waits
  <2>2. \A s \in Streams : s \in streams' => Spawned(s)' /\ told'[s] = 0
    BY <1>1, <1>4, <1>6 DEF TellInv, Waits
  <2>3. \A u \in Tasks, s \in Streams :
          Telling(u, s)' => Spawned(s)' /\ told'[s] = 0 /\ s \notin streams'
    <3> SUFFICES ASSUME NEW u \in Tasks, NEW s \in Streams, Telling(u, s)'
                 PROVE  Spawned(s)' /\ told'[s] = 0 /\ s \notin streams'
      OBVIOUS
    <3>1. CASE u = t
      BY <1>1, <1>4, <1>6, <3>1 DEF TellInv, Waits
    <3>2. CASE u # t
      <4>1. Telling(u, s) /\ told[s] = 0 /\ Spawned(s) /\ s \notin streams
        BY <1>5, <3>2 DEF TellInv, Waits
      <4>2. s \notin now /\ s \notin gone
        BY <3>2, <4>1 DEF TellInv, Waits
      <4> QED BY <1>1, <1>4, <4>1, <4>2
    <3> QED BY <3>1, <3>2
  <2>4. \A u, v \in Tasks, s \in Streams : Telling(u, s)' /\ Telling(v, s)' => u = v
    BY <1>1, <1>5 DEF TellInv, Waits
  <2> QED BY <2>1, <2>2, <2>3, <2>4 DEF Waits
<1>9. \A s \in Streams : told'[s] # 0 => Spawned(s)'
  BY <1>3, <1>4 DEF TellInv
<1> QED BY <1>7, <1>8, <1>9 DEF TellInv

LEMMA TellInit == Init => TellInv
<1> SUFFICES ASSUME Init PROVE TellInv
  OBVIOUS
<1>1. /\ \A t \in Tasks : wst[t] = "no" /\ closing[t] = {}
      /\ \A s \in Streams : ~Spawned(s) /\ told[s] = 0
      /\ streams = {}
  BY TaskFacts DEF Init, Spawned
<1> QED BY <1>1 DEF TellInv, Disconnects, DisconnectOnce, DisconnectNotLost, Waits, Telling

LEMMA TellKept == TypeInv /\ OpenedOnce /\ TellInv /\ [Next]_vars => TellInv'
<1> SUFFICES ASSUME TypeInv, OpenedOnce, TellInv, [Next]_vars PROVE TellInv'
  OBVIOUS
<1>1. TellStep
  BY Tells DEF TellInv
<1>2. CASE CreateStream
  <2>1. /\ EventStream \in Streams /\ streams' = streams \cup {EventStream}
        /\ \A s \in Streams : Spawned(s)' <=> Spawned(s) \/ s = EventStream
    BY <1>2, CreateFacts, TaskFacts DEF Spawned
  <2>2. UNCHANGED <<told, closing, wst, aborting>>
    BY <1>2 DEF CreateStream, queueVars, waitVars
  <2>3. ~Spawned(EventStream)
    BY <1>2, <2>1, RequestFacts DEF OpenedOnce, Coming
  <2>4. told[EventStream] = 0 /\ \A t \in Tasks : ~Telling(t, EventStream)
    BY <2>1, <2>3 DEF TellInv, Waits
  <2>5. \A t \in Tasks, s \in Streams : Telling(t, s)' <=> Telling(t, s)
    BY <2>2 DEF Telling
  <2>6. Disconnects'
    BY <2>1, <2>2, <2>5 DEF TellInv, Disconnects, DisconnectOnce, DisconnectNotLost
  <2>7. Waits'
    BY <2>1, <2>2, <2>4, <2>5 DEF TellInv, Waits
  <2> QED BY <2>1, <2>2, <2>6, <2>7 DEF TellInv
<1>3. ASSUME ~CreateStream PROVE TellInv'
  <2>1. \A s \in Streams : Spawned(s)' <=> Spawned(s)
    BY <1>3, Spawns
  <2>2. ASSUME NEW t \in Tasks, NEW ids \in SUBSET Streams,
               wst[t] # "put", Closing(t, ids, {}), UNCHANGED aborting
        PROVE  TellInv'
    <3>1. \A s \in Streams : ~Telling(t, s)
      BY <2>2 DEF TellInv, Waits, Telling
    <3>2. {} \in SUBSET Streams /\ \A s \in Streams : Telling(t, s) <=> s \in {}
      BY <3>1
    <3> QED BY <2>1, <2>2, <3>2, ClosingTell
  <2>3. ASSUME NEW t \in Tasks, NEW s \in Streams, NEW ids \in SUBSET Streams,
               Telling(t, s), Closing(t, ids, {s}), UNCHANGED aborting
        PROVE  TellInv'
    <3>1. {s} \in SUBSET Streams /\ \A u \in Streams : Telling(t, u) <=> u \in {s}
      BY <2>3, TaskFacts DEF Telling
    <3> QED BY <2>1, <2>3, <3>1, ClosingTell
  <2>4. CASE Abort
    <3>1. /\ \A t \in Tasks : closing'[t] = {} /\ wst'[t] = "no"
          /\ aborting' /\ UNCHANGED <<streams, told>>
      BY <2>4 DEF Abort, protocolVars, queueVars
    <3> QED BY <2>1, <3>1 DEF TellInv, Disconnects, DisconnectOnce, DisconnectNotLost,
                              Waits, Telling
  <2>5. CASE /\ UNCHANGED <<streams, told, closing, aborting>>
             /\ \A t \in Tasks : wst'[t] = "put" <=> wst[t] = "put"
    <3>1. \A t \in Tasks, s \in Streams : Telling(t, s)' <=> Telling(t, s)
      BY <2>5 DEF Telling
    <3> QED BY <2>1, <2>5, <3>1
            DEF TellInv, Disconnects, DisconnectOnce, DisconnectNotLost, Waits
  <2> QED BY <1>1, <1>3, <2>2, <2>3, <2>4, <2>5 DEF TellStep
<1> QED BY <1>2, <1>3

\* Whichever of the reader, a failed flush, the client's reset and the
\* application's own end closes a stream (H2Protocol._close_stream), its
\* application is told http.disconnect, and told once: it leaves the table in
\* the step that tells it or makes one task wait to tell it, and no task that
\* finds it gone tells it again.
THEOREM DisconnectsCorrect == Spec => []Disconnects
<1> DEFINE Inv == TypeInv /\ OpenedOnce /\ TellInv
<1>1. Init => Inv
  BY TypeInit, OpenedInit, TellInit
<1>2. Inv /\ [Next]_vars => Inv'
  BY TypeStep, OpenedStep, TellKept
<1>3. Inv => Disconnects
  BY DEF TellInv
<1> QED BY <1>1, <1>2, <1>3, PTL DEF Spec

----------------------------------------------------------------------------
(* The idle timer.                                                         *)

LEMMA TableShrinks ==
  ASSUME TypeInv, Waits, [Next]_vars, ~CreateStream
  PROVE  streams' \subseteq streams
<1>1. TellStep
  BY Tells
<1>2. Abort => UNCHANGED streams
  BY DEF Abort, protocolVars
<1> QED BY <1>1, <1>2 DEF TellStep, Closing

\* The timer is armed by a stream that has left the table, and a shutdown is
\* never taken back.
LEMMA ServerSteps ==
  ASSUME [Next]_vars
  PROVE  /\ terminated => terminated'
         /\ idle' => idle \/ \E r \in Streams : StreamLeft(r) \/ LastStreamTimer(r)
<1> DEFINE P == (terminated => terminated') /\ (idle' => idle)
<1>1. CASE ReaderStep
  <2>1. CASE CreateStream
    BY <2>1 DEF CreateStream
  <2>3. CASE ReadFrames \/ ReadEnds \/ ReadError \/ RefuseRequest \/ BodyReceived
             \/ PutBody \/ LateBody \/ StreamReset \/ WindowUpdated
    <3>1. UNCHANGED serverVars
      BY <2>3 DEF ReadFrames, ReadEnds, ReadError, RefuseRequest, BodyReceived,
         PutBody, LateBody, StreamReset, WindowUpdated
    <3> QED BY <3>1 DEF serverVars
  <2>2. CASE PriorityUpdated \/ NothingTold \/ ConnectionTerminated \/ EventsHandled
             \/ ReaderCloses \/ ReaderClosed \/ HandleClosed \/ Join \/ FinalClose
             \/ FinalClosed \/ WriteStep(Reader)
    BY <2>2 DEF PriorityUpdated, NothingTold, ConnectionTerminated, EventsHandled,
       ReaderCloses, ReaderClosed, HandleClosed, Join, FinalClose, FinalClosed, WriteStep,
       Flushed, FlushFails, PutLate, serverVars
  <2> QED BY <1>1, <2>1, <2>2, <2>3 DEF ReaderStep
<1>2. CASE SenderStep
  BY <1>2 DEF SenderStep, Serve, ServeData, ServeNothing, ServeEnd, ServeFails, ServeCrashes,
       EndStream, EndAfterData, TurnOver, Finished, WaitForData, HasData, SenderEnds,
       WriteStep, Flushed, FlushFails, PutLate, serverVars
<1>3. ASSUME NEW r \in Streams, StreamStep(r)
      PROVE  (terminated => terminated') /\ (idle' => idle \/ StreamLeft(r) \/ LastStreamTimer(r))
  <2>1. CASE StreamLeft(r) \/ LastStreamTimer(r)
    BY <2>1 DEF StreamLeft, LastStreamTimer
  <2>2. CASE Started(r) \/ Resumed(r) \/ EndResponse(r) \/ Drained(r) \/ Finish(r)
             \/ ErrorResponseEnd(r) \/ StreamEnded(r) \/ LastStreamLeft(r) \/ WriteStep(r)
    BY <2>2 DEF Started, Resumed, EndResponse, EndBody, Drained, Finish, ErrorResponseEnd,
       StreamEnded, LastStreamLeft, WriteStep, Flushed, FlushFails, PutLate, serverVars
  <2> QED BY <1>3, <2>1, <2>2 DEF StreamStep
<1>4. ASSUME NEW r \in Streams, AppStep(r) PROVE P
  BY <1>4 DEF AppStep, Receive, SendStart, Return, SendBody, SendFlush, EndResponse,
     EndBody, EndWithHeaders, serverVars
<1>5. CASE Environment
  <2>1. CASE Abort
    BY <2>1 DEF Abort
  <2>2. CASE ReadTimeout \/ IdleTimeout \/ Terminate
    BY <2>2 DEF ReadTimeout, IdleTimeout, Terminate, serverVars
  <2>3. CASE ClientSends \/ ClientEof
    BY <2>3 DEF ClientSends, ClientEof, serverVars
  <2>4. CASE ConnectionLost
    BY <2>4 DEF ConnectionLost
  <2> QED BY <1>5, <2>1, <2>2, <2>3, <2>4 DEF Environment
<1>6. CASE UNCHANGED vars
  BY <1>6 DEF vars, serverVars
<1> QED BY <1>1, <1>2, <1>3, <1>4, <1>5, <1>6 DEF Next

\* A task comes to arm the timer after its GOAWAY, and only so.
LEMMA Updating ==
  ASSUME TypeInv, [Next]_vars, NEW r \in Streams, pc'[r] = "update"
  PROVE  pc[r] = "update" \/ (LastStreamLeft(r) /\ streams = {} /\ terminated)
<1>1. CASE CreateStream
  BY <1>1, CreateFacts, TaskFacts
<1>2. ASSUME StreamStep(r) \/ AppStep(r), ~LastStreamLeft(r), pc[r] # "update" PROVE FALSE
  <2>1. ASSUME NEW l, l # "update", Goto(r, l) PROVE FALSE
    BY <2>1, TaskFacts DEF Goto, TypeInv, TypeOK
  <2>2. pc' # pc
    BY <1>2
  <2>3. Back(r) # "update"
    BY DEF Back
  <2>4. CASE StreamStep(r)
    <3>1. CASE WriteStep(r)
      BY <2>2, <3>1, WriteType, TaskFacts
    <3>2. CASE Started(r) \/ Resumed(r) \/ EndResponse(r) \/ Drained(r) \/ ErrorResponseEnd(r)
      BY <2>1, <3>2 DEF Started, Resumed, EndResponse, EndBody, Drained, ErrorResponseEnd
    <3>3. CASE Finish(r) \/ StreamEnded(r) \/ StreamLeft(r) \/ LastStreamTimer(r)
      BY <2>1, <2>3, <3>3 DEF Finish, SendHeaders, Flush, StreamEnded, StreamLeft,
         LastStreamTimer
    <3> QED BY <1>2, <2>4, <3>1, <3>2, <3>3 DEF StreamStep
  <2>5. CASE AppStep(r)
    BY <2>1, <2>2, <2>5 DEF AppStep, Receive, SendStart, Return, SendBody, SendFlush,
       EndResponse, EndBody, EndWithHeaders, SendHeaders, Flush
  <2> QED BY <1>2, <2>4, <2>5
<1>3. CASE LastStreamLeft(r)
  BY <1>3 DEF LastStreamLeft
<1>4. ASSUME NEW u \in Streams, u # r, StreamStep(u) \/ AppStep(u) PROVE pc'[r] = pc[r]
  <2>1. r \in Tasks \ {u} /\ u \in Tasks
    BY <1>4, TaskFacts
  <2> QED BY <1>4, <2>1, AppSpawns
<1>5. CASE Environment
  <2>1. CASE Abort
    BY <2>1, AbortFacts, TaskFacts DEF Cancelled
  <2>2. CASE ReadTimeout
    BY <2>2, TaskFacts DEF ReadTimeout, Goto, TypeInv, TypeOK
  <2>3. CASE IdleTimeout \/ Terminate \/ ClientSends \/ ClientEof \/ ConnectionLost
    BY <2>3 DEF IdleTimeout, Terminate, ClientSends, ClientEof, ConnectionLost
  <2> QED BY <1>5, <2>1, <2>2, <2>3 DEF Environment
<1>6. CASE UNCHANGED vars
  BY <1>6 DEF vars
<1> QED BY <1>1, <1>2, <1>3, <1>4, <1>5, <1>6, ReaderSpawns, SenderSpawns DEF Next

LEMMA TimerKept == TypeInv /\ TellInv /\ TimerInv /\ [Next]_vars => TimerInv'
<1> SUFFICES ASSUME TypeInv, TellInv, TimerInv, [Next]_vars PROVE TimerInv'
  OBVIOUS
<1>1. CASE CreateStream
  <2>1. ~idle' /\ ~terminated
    BY <1>1, CreateFacts
  <2>2. \A r \in Streams : pc'[r] # "update"
    BY <2>1, Updating DEF TimerInv
  <2> QED BY <2>1, <2>2 DEF TimerInv, IdleBetweenRequests
<1>2. CASE ~CreateStream
  <2>1. streams' \subseteq streams
    BY <1>2, TableShrinks DEF TellInv
  <2>2. terminated => terminated'
    BY ServerSteps
  <2>3. \A r \in Streams : pc'[r] = "update" => streams' = {} /\ terminated'
    BY <2>1, <2>2, Updating DEF TimerInv
  <2>4. idle' => streams' = {}
    <3>1. ASSUME NEW r \in Streams, StreamLeft(r), idle' PROVE streams = {}
      BY <3>1 DEF StreamLeft, Timer
    <3>2. ASSUME NEW r \in Streams, LastStreamTimer(r) PROVE streams = {}
      BY <3>2 DEF LastStreamTimer, At, TimerInv
    <3> QED BY <2>1, <3>1, <3>2, ServerSteps DEF TimerInv, IdleBetweenRequests
  <2> QED BY <2>3, <2>4 DEF TimerInv, IdleBetweenRequests
<1> QED BY <1>1, <1>2

\* The idle timer (TCPServer._start_idle) never runs while a request is
\* processed: the stream that leaves last arms it, and none is created between
\* that test and the timer.
THEOREM TimerCorrect == Spec => []IdleBetweenRequests
<1> DEFINE Inv == TypeInv /\ OpenedOnce /\ TellInv /\ TimerInv
<1>1. Init => Inv
  <2>1. Init => TimerInv
    BY TaskFacts DEF Init, TimerInv, IdleBetweenRequests
  <2> QED BY <2>1, TypeInit, OpenedInit, TellInit
<1>2. Inv /\ [Next]_vars => Inv'
  BY TypeStep, OpenedStep, TellKept, TimerKept
<1>3. Inv => IdleBetweenRequests
  BY DEF TimerInv
<1> QED BY <1>1, <1>2, <1>3, PTL DEF Spec

----------------------------------------------------------------------------
(* The sender: buffers, and how far the reader is.                         *)

\* Applications change their buffers but not whether they are there.
LEMMA AppBuffers ==
  ASSUME TypeInv, NEW r \in Streams, StreamStep(r) \/ AppStep(r)
  PROVE  \A s \in Streams : buf'[s].live <=> buf[s].live
<1>1. buf \in [Streams -> Buffers]
  BY DEF TypeInv, TypeOK
<1>2. ASSUME NEW b, b.live = buf[r].live, buf' = [buf EXCEPT ![r] = b]
      PROVE  \A s \in Streams : buf'[s].live <=> buf[s].live
  BY <1>1, <1>2
<1>3. ASSUME UNCHANGED buf PROVE \A s \in Streams : buf'[s].live <=> buf[s].live
  BY <1>3
<1>4. ASSUME NEW n \in ChunkSizes, NEW last \in BOOLEAN, SendBody(r, n, last)
      PROVE  \A s \in Streams : buf'[s].live <=> buf[s].live
  <2>1. Pushed(r, n).live = buf[r].live
    BY <1>4, PushedFacts DEF SendBody, TypeInv
  <2> QED BY <1>2, <1>3, <1>4, <2>1 DEF SendBody
<1>5. CASE Resumed(r)
  <2> DEFINE b == [buf[r] EXCEPT !.paused = FALSE]
  <2>1. b.live = buf[r].live
    BY <1>1, FieldFacts
  <2>2. buf' = [buf EXCEPT ![r] = b]
    BY <1>5 DEF Resumed
  <2> HIDE DEF b
  <2> QED BY <1>2, <2>1, <2>2
<1>6. CASE EndBody(r)
  <2> DEFINE b == [buf[r] EXCEPT !.complete = TRUE]
  <2>1. b.live = buf[r].live
    BY <1>1, FieldFacts
  <2>2. UNCHANGED buf \/ buf' = [buf EXCEPT ![r] = b]
    BY <1>6 DEF EndBody
  <2> HIDE DEF b
  <2> QED BY <1>2, <1>3, <2>1, <2>2
<1>7. CASE Started(r) \/ Drained(r) \/ Finish(r) \/ StreamEnded(r) \/ StreamLeft(r)
           \/ LastStreamLeft(r) \/ LastStreamTimer(r) \/ WriteStep(r)
  BY <1>3, <1>7 DEF Started, Drained, Finish, StreamEnded, StreamLeft, LastStreamLeft,
     LastStreamTimer, WriteStep, Flushed, FlushFails, PutLate, sendVars
<1>8. CASE Receive(r) \/ SendStart(r) \/ Return(r) \/ EndWithHeaders(r)
           \/ \E n \in ChunkSizes : SendFlush(r, n)
  BY <1>3, <1>8 DEF Receive, SendStart, Return, EndWithHeaders, SendFlush, sendVars
<1> QED BY <1>4, <1>5, <1>6, <1>7, <1>8
        DEF StreamStep, AppStep, EndResponse, ErrorResponseEnd

\* The sender takes from buffers, or takes them away.
LEMMA SenderBuffers ==
  ASSUME TypeInv, SenderStep
  PROVE  \A s \in Streams : buf'[s].live => buf[s].live
<1>0. TypeOK /\ buf \in [Streams -> Buffers]
  BY DEF TypeInv, TypeOK
<1>1. ASSUME NEW r \in Streams, NEW b, b.live => buf[r].live, buf' = [buf EXCEPT ![r] = b]
      PROVE  \A s \in Streams : buf'[s].live => buf[s].live
  BY <1>0, <1>1
<1>2. ASSUME NEW r \in Streams, NEW n \in {0, ToPop(r)}, buf' = [buf EXCEPT ![r] = Popped(r, n)]
      PROVE  \A s \in Streams : buf'[s].live => buf[s].live
  <2>1. n \in Nat /\ n <= Len(buf[r].data)
    BY <1>0, <1>2, PopFacts, LenProperties DEF Buffers
  <2>2. Popped(r, n).live = buf[r].live
    BY <1>0, <2>1, PoppedFacts
  <2> QED BY <1>1, <1>2, <2>2
<1>3. ASSUME NEW r \in Streams, Serve(r) PROVE \A s \in Streams : buf'[s].live => buf[s].live
  <2>1. CASE ServeData(r) \/ ServeNothing(r) \/ ServeEnd(r)
    BY <1>2, <2>1 DEF ServeData, ServeNothing, ServeEnd
  <2>2. CASE ServeFails(r)
    BY <1>0, <1>1, <2>2 DEF ServeFails, ForceClose
  <2>3. CASE ServeCrashes(r)
    BY <2>3 DEF ServeCrashes, sendVars
  <2> QED BY <1>3, <2>1, <2>2, <2>3 DEF Serve
<1>4. CASE Finished
  <2> DEFINE b == [buf[serving] EXCEPT !.live = FALSE]
  <2>1. serving \in Streams
    BY <1>4, ServedFacts DEF Finished, At
  <2>2. buf' = [buf EXCEPT ![serving] = b] /\ ~b.live
    BY <1>0, <1>4, <2>1, FieldFacts DEF Finished
  <2> HIDE DEF b
  <2> QED BY <1>1, <2>1, <2>2
<1>5. CASE EndAfterData \/ TurnOver \/ WaitForData \/ HasData \/ SenderEnds \/ WriteStep(Sender)
  BY <1>5 DEF EndAfterData, TurnOver, WaitForData, HasData, SenderEnds, WriteStep, Flushed,
     FlushFails, PutLate, sendVars
<1> QED BY <1>3, <1>4, <1>5 DEF SenderStep

\* Nobody else touches them, but that they are created.
LEMMA ReaderBuffers == ASSUME ReaderStep, ~CreateStream PROVE UNCHANGED buf
BY DEF ReaderStep, ReadFrames, ReadError, ReadEnds, RefuseRequest, BodyReceived, LateBody, PutBody,
     StreamReset, WindowUpdated, PriorityUpdated, NothingTold, ConnectionTerminated,
     EventsHandled, ReaderCloses, ReaderClosed, HandleClosed, Join, FinalClose, FinalClosed,
     WriteStep, Flushed, FlushFails, PutLate, sendVars

LEMMA EnvironmentBuffers == ASSUME Environment PROVE UNCHANGED <<buf, tree, ready, h2Vars>>
BY DEF Environment, Abort, ReadTimeout, IdleTimeout, Terminate, ClientSends, ClientEof,
     ConnectionLost, sendVars

LEMMA Lives ==
  ASSUME TypeInv, [Next]_vars
  PROVE  CreateStream \/ \A s \in Streams : buf'[s].live => buf[s].live
<1>1. CASE UNCHANGED vars
  BY <1>1 DEF vars, sendVars
<1> QED BY <1>1, AppBuffers, SenderBuffers, ReaderBuffers, EnvironmentBuffers DEF Next

LEMMA BufferKept == TypeInv /\ BufferInv /\ [Next]_vars => BufferInv'
<1> SUFFICES ASSUME TypeInv, BufferInv, [Next]_vars PROVE BufferInv'
  OBVIOUS
<1>1. CASE CreateStream
  <2>1. \A s \in Streams \ {EventStream} : buf'[s] = buf[s] /\ pc'[s] = pc[s]
    BY <1>1, CreateFacts, TaskFacts DEF TypeInv, TypeOK
  <2> QED BY <1>1, <2>1, CreateFacts DEF BufferInv, Spawned
<1>2. CASE ~CreateStream
  BY <1>2, Spawns, Lives DEF BufferInv
<1> QED BY <1>1, <1>2

\* A connection that h2 has closed stays closed.
LEMMA ConnStays == ASSUME TypeInv, [Next]_vars PROVE conn = "closed" => conn' = "closed"
<1>1. CASE ReaderStep
  BY <1>1 DEF ReaderStep, ReadFrames, ReadError, ReadEnds, RefuseRequest, CreateStream,
     BodyReceived, LateBody, PutBody, StreamReset, WindowUpdated, PriorityUpdated,
     NothingTold, ConnectionTerminated, EventsHandled, ReaderCloses, ReaderClosed,
     HandleClosed, Join, FinalClose, FinalClosed, WriteStep, Flushed, FlushFails, PutLate,
     h2Vars
<1>2. CASE SenderStep
  BY <1>2 DEF SenderStep, Serve, ServeData, ServeNothing, ServeEnd, ServeFails, ServeCrashes,
     EndStream, EndAfterData, TurnOver, Finished, WaitForData, HasData, SenderEnds,
     WriteStep, Flushed, FlushFails, PutLate, h2Vars
<1>3. ASSUME NEW r \in Streams, StreamStep(r) PROVE conn = "closed" => conn' = "closed"
  BY <1>3 DEF StreamStep, Started, Resumed, EndResponse, EndBody, Drained, Finish,
     ErrorResponseEnd, StreamEnded, StreamLeft, LastStreamLeft, LastStreamTimer,
     WriteStep, Flushed, FlushFails, PutLate, h2Vars
<1>4. ASSUME NEW r \in Streams, AppStep(r) PROVE conn = "closed" => conn' = "closed"
  BY <1>4 DEF AppStep, Receive, SendStart, Return, SendBody, SendFlush, EndResponse,
     EndBody, EndWithHeaders, h2Vars
<1>5. CASE Environment \/ UNCHANGED vars
  BY <1>5, EnvironmentBuffers DEF vars, h2Vars
<1> QED BY <1>1, <1>2, <1>3, <1>4, <1>5 DEF Next

\* The reader moves in its own steps, or is cancelled or times out.
LEMMA OthersMoveNoReader ==
  ASSUME TypeInv, [Next]_vars, ~ReaderStep, ~Abort, ~ReadTimeout
  PROVE  pc'[Reader] = pc[Reader] /\ UNCHANGED events
<1>1. CASE SenderStep
  <2>1. ASSUME NEW l \in SenderPC, Goto(Sender, l) PROVE pc'[Reader] = pc[Reader]
    BY <2>1, GotoType, TaskFacts DEF TypeInv
  <2>2. UNCHANGED pc \/ \E l \in SenderPC : Goto(Sender, l)
    <3>1. ASSUME NEW s \in Streams, Serve(s) PROVE UNCHANGED pc \/ \E l \in SenderPC : Goto(Sender, l)
      BY <3>1 DEF Serve, ServeData, ServeNothing, ServeEnd, ServeFails,
         ServeCrashes, EndStream, Flush, SenderPC
    <3>2. CASE EndAfterData \/ TurnOver \/ Finished \/ WaitForData \/ HasData \/ SenderEnds
      BY <3>2 DEF EndAfterData, EndStream, TurnOver, Finished, WaitForData, HasData,
         SenderEnds, Flush, SenderPC
    <3>3. CASE WriteStep(Sender)
      BY <3>3, WriteType, TaskFacts
    <3> QED BY <1>1, <3>1, <3>2, <3>3 DEF SenderStep
  <2> QED BY <1>1, <2>1, <2>2, SenderQueues DEF clientVars
<1>2. ASSUME NEW r \in Streams, StreamStep(r) \/ AppStep(r)
      PROVE  pc'[Reader] = pc[Reader] /\ UNCHANGED events
  <2>1. Reader \in Tasks \ {r}
    BY TaskFacts
  <2> QED BY <1>2, <2>1, AppSpawns, AppQueues DEF clientVars
<1>3. CASE IdleTimeout \/ Terminate \/ ClientSends \/ ClientEof \/ ConnectionLost
  BY <1>3 DEF IdleTimeout, Terminate, ClientSends, ClientEof, ConnectionLost, clientVars
<1>4. CASE UNCHANGED vars
  BY <1>4 DEF vars, clientVars
<1> QED BY <1>1, <1>2, <1>3, <1>4 DEF Next, Environment

LEMMA ReadKept == TypeInv /\ ReadInv /\ [Next]_vars => ReadInv'
<1> SUFFICES ASSUME TypeInv, ReadInv, [Next]_vars PROVE ReadInv'
  OBVIOUS
<1>0. TypeOK
  BY DEF TypeInv
<1>1. conn = "closed" => conn' = "closed"
  BY ConnStays
<1>2. ASSUME NEW l \in ReaderPC, Goto(Reader, l) PROVE pc'[Reader] = l
  BY <1>0, <1>2, GotoType, TaskFacts
<1>3. \A i \in 1 .. Len(events') : events'[i][1] = "goaway" => conn' = "closed"
  <2>1. CASE UNCHANGED events
    BY <1>1, <2>1 DEF ReadInv
  <2>2. CASE events # <<>> /\ Done
    <3>1. /\ Len(events) \in Nat \ {0} /\ Len(events') = Len(events) - 1
          /\ \A i \in 1 .. Len(events') : events'[i] = events[i + 1]
      BY <1>0, <2>2, EventFacts DEF Done
    <3>2. \A i \in 1 .. Len(events') : i + 1 \in 1 .. Len(events)
      BY <3>1
    <3> QED BY <1>1, <3>1, <3>2 DEF ReadInv
  <2>3. CASE ReadFrames
    <3>1. /\ Len(inbox) \in Nat /\ Len(events') = Len(inbox)
          /\ \A i \in 1 .. Len(inbox) : events'[i] \in {inbox[i], NoEvent}
      BY <1>0, <2>3, ReadFramesFacts
    <3>2. ASSUME NEW i \in 1 .. Len(inbox), inbox[i][1] = "goaway" PROVE Received("goaway", 0)
      <4>1. inbox[i] \in Frames /\ DOMAIN inbox = 1 .. Len(inbox)
        BY <1>0, ElementOfSeq, LenProperties DEF TypeOK
      <4>2. inbox[i] = <<"goaway", 0>>
        BY <3>2, <4>1 DEF Frames
      <4> QED BY <4>1, <4>2 DEF Received
    <3>3. NoEvent[1] # "goaway"
      BY DEF NoEvent
    <3> QED BY <2>3, <3>1, <3>2, <3>3 DEF ReadFrames
  <2> QED BY <2>1, <2>2, <2>3, Queues DEF QueueStep, ClientSends
<1>4. CASE ~ReaderStep /\ ~Abort /\ ~ReadTimeout
  BY <1>1, <1>3, <1>4, OthersMoveNoReader DEF ReadInv
<1>5. CASE Abort
  <2>1. pc'[Reader] = "read" => events' = <<>>
    <3>1. pc'[Reader] = Cancelled(Reader)
      BY <1>5, TaskFacts DEF Abort
    <3>2. CASE pc[Reader] = "waitClosed" /\ events = <<>>
      BY <1>5, <3>2 DEF Abort
    <3>3. CASE pc[Reader] = "waitClosed" /\ events # <<>>
      BY <3>1, <3>3 DEF Cancelled, AfterClosing
    <3>4. CASE pc[Reader] # "waitClosed"
      BY <3>1, <3>4 DEF Cancelled
    <3> QED BY <3>2, <3>3, <3>4
  <2> QED BY <1>3, <1>5, <2>1, AbortFacts DEF ReadInv
<1>6. CASE ReadTimeout
  <2>1. pc'[Reader] = "closed"
    BY <1>2, <1>6 DEF ReadTimeout, ReaderPC
  <2> QED BY <1>3, <2>1 DEF ReadInv
<1>7. CASE ReaderStep
  <2>1. CASE ReadFrames \/ ReadError \/ ReadEnds
    <3>1. pc'[Reader] \in {"events", "close", "closed"}
      BY <1>2, <2>1 DEF ReadFrames, ReadError, ReadEnds, Flush, ReaderPC
    <3>2. pc'[Reader] = "close" => conn' = "closed"
      BY <1>2, <2>1 DEF ReadFrames, ReadError, ReadEnds, Flush, ReaderPC
    <3> QED BY <1>3, <3>1, <3>2 DEF ReadInv
  <2>2. CASE RefuseRequest \/ CreateStream \/ BodyReceived \/ PutBody \/ LateBody
             \/ StreamReset \/ WindowUpdated \/ PriorityUpdated \/ NothingTold
    <3>1. CASE pc'[Reader] = pc[Reader] /\ pc[Reader] = "events"
      BY <1>3, <3>1 DEF ReadInv
    <3>2. CASE pc'[Reader] \in {"events", "raised", "putBody", "window"}
      BY <1>3, <3>2 DEF ReadInv
    <3>3. {"events", "raised", "putBody", "window"} \subseteq ReaderPC
      BY DEF ReaderPC
    <3>4. CASE CreateStream
      BY <3>1, <3>4, CreateFacts, TaskFacts
    <3> QED BY <1>2, <2>2, <3>1, <3>2, <3>3, <3>4
            DEF RefuseRequest, BodyReceived, PutBody, LateBody, StreamReset, WindowUpdated,
                PriorityUpdated, NothingTold, Handle, At
  <2>3. CASE ConnectionTerminated
    <3>1. pc'[Reader] = "close" /\ Head(events)[1] = "goaway" /\ events # <<>> /\ conn' = conn
      BY <1>2, <2>3 DEF ConnectionTerminated, Handle, ReaderPC, h2Vars
    <3>2. Head(events) = events[1] /\ 1 \in 1 .. Len(events)
      BY <1>0, <3>1, EventFacts
    <3> QED BY <1>3, <3>1, <3>2 DEF ReadInv
  <2>4. CASE EventsHandled
    <3>1. pc'[Reader] = NextRead /\ events' = <<>>
      BY <1>2, <2>4, NextReads DEF EventsHandled, Flush, ReaderPC, clientVars
    <3> QED BY <1>3, <3>1, NextReads DEF ReadInv
  <2>5. CASE ReaderCloses
    <3>1. pc'[Reader] = "waitClosed" /\ pc[Reader] = "close" /\ conn' = conn
      BY <1>2, <2>5 DEF ReaderCloses, At, ReaderPC, h2Vars
    <3> QED BY <1>3, <3>1 DEF ReadInv
  <2>6. CASE ReaderClosed
    <3>1. pc'[Reader] = AfterClosing
      BY <1>2, <2>6, NextReads DEF ReaderClosed, ReaderPC
    <3>2. pc'[Reader] = "read" => events' = <<>>
      BY <2>6, <3>1 DEF ReaderClosed, AfterClosing
    <3> QED BY <1>3, <3>1, <3>2, NextReads DEF ReadInv
  <2>7. CASE HandleClosed \/ Join \/ FinalClose \/ FinalClosed
    <3>1. pc'[Reader] \in {"join", "finalClose", "finalWait", "stopped"}
      BY <1>2, <2>7 DEF HandleClosed, Join, FinalClose, FinalClosed, ReaderPC
    <3> QED BY <1>3, <3>1 DEF ReadInv
  <2>8. CASE WriteStep(Reader)
    <3>1. UNCHANGED <<pc, events>>
      BY <2>8, WriteType, TaskFacts
    <3> QED BY <1>1, <1>3, <3>1 DEF ReadInv
  <2> QED BY <1>7, <2>1, <2>2, <2>3, <2>4, <2>5, <2>6, <2>7, <2>8 DEF ReaderStep
<1> QED BY <1>4, <1>5, <1>6, <1>7

----------------------------------------------------------------------------
(* The sender is awake while there is something for it to do.              *)

\* What keeps the sender waiting: nothing is unblocked, and the connection is
\* closed by a task that will still set has_data.
Asleep ==
  /\ pc'[Sender] = pc[Sender] /\ (hasData => hasData') /\ ready' \subseteq ready
  /\ closed' => closed \/ \E t \in Tasks : wst'[t] = "put"
  /\ \A t \in Tasks : wst[t] = "put" => wst'[t] = "put"
WakeStep == hasData' \/ pc'[Sender] # "wait" \/ WaitForData \/ Asleep

\* Who closes streams for a connection that is closed wakes the sender, or
\* waits to tell an application.
LEMMA ClosingWakes ==
  ASSUME TypeOK, NEW t \in Tasks, NEW ids, NEW now, CloseStreams(t, ids, now)
  PROVE  /\ hasData => hasData'
         /\ now # {} => hasData'
         /\ hasData' \/ wst'[t] = "put"
         /\ \A u \in Tasks \ {t} : wst'[u] = wst[u]
<1> DEFINE open == ids \cap streams
           full == {s \in open : ~HasRoom(s)}
           before == {s \in open : \A u \in full : s < u}
<1>1. hasData' = (hasData \/ (now \cup before # {} \/ full = {}))
  BY DEF CloseStreams, WakeIf
<1>2. (full = {} /\ Released(t)) \/ wst' = [wst EXCEPT ![t] = "put"]
  BY DEF CloseStreams
<1>3. wst \in [Tasks -> {"no", "flush", "put"}]
  BY DEF TypeOK
<1> HIDE DEF open, full, before
<1> QED BY <1>1, <1>2, <1>3 DEF Released

LEMMA WriteWakes == ASSUME TypeInv, NEW t \in Tasks, WriteStep(t) PROVE WakeStep
<1>0. TypeOK /\ UNCHANGED pc
  BY WriteType DEF TypeInv
<1>1. CASE Flushed(t)
  <2>1. /\ UNCHANGED <<hasData, ready, closed>> /\ wst[t] # "put"
        /\ wst' = [wst EXCEPT ![t] = "no"]
    BY <1>1 DEF Flushed, Released, sendVars, protocolVars
  <2> QED BY <1>0, <2>1 DEF WakeStep, Asleep, TypeOK
<1>2. CASE FlushFails(t)
  <2>1. UNCHANGED ready /\ wst[t] # "put" /\ CloseStreams(t, streams, {})
    BY <1>2 DEF FlushFails
  <2> QED BY <1>0, <2>1, ClosingWakes DEF WakeStep, Asleep
<1>3. CASE PutLate(t)
  <2>1. PICK s \in Streams : CloseStreams(t, closing[t] \ {s}, {s})
    BY <1>3 DEF PutLate
  <2> QED BY <1>0, <2>1, ClosingWakes DEF WakeStep
<1> QED BY <1>1, <1>2, <1>3 DEF WriteStep

\* Steps that leave all of it alone, but where other tasks are.
LEMMA QuietWakes ==
  ASSUME TypeInv, pc'[Sender] = pc[Sender], UNCHANGED <<hasData, ready, closed>>,
         \A t \in Tasks : wst[t] = "put" => wst'[t] = "put"
  PROVE  WakeStep
BY DEF WakeStep, Asleep

\* A task that is not told to wait may flush.
LEMMA PutsKept ==
  ASSUME TypeInv, NEW t \in Tasks, NEW l, wst[t] = "no", Flush(t, l)
  PROVE  \A u \in Tasks : wst[u] = "put" => wst'[u] = "put"
BY DEF Flush, TypeInv, TypeOK

LEMMA ReaderMoves ==
  ASSUME TypeInv, ReaderStep
  PROVE  pc'[Sender] = pc[Sender]
<1>1. ASSUME NEW l \in ReaderPC, Goto(Reader, l) PROVE pc'[Sender] = pc[Sender]
  BY <1>1, GotoType, TaskFacts DEF TypeInv
<1>2. /\ {"events", "close", "closed", "raised", "putBody", "window", "waitClosed", "join",
          "finalClose", "finalWait", "stopped"} \subseteq ReaderPC
      /\ NextRead \in ReaderPC /\ AfterClosing \in ReaderPC
  BY NextReads DEF ReaderPC
<1>3. CASE CreateStream
  BY <1>3, CreateFacts, TaskFacts
<1>4. CASE RefuseRequest \/ BodyReceived \/ LateBody \/ PutBody \/ StreamReset
  BY <1>1, <1>2, <1>4
  DEF RefuseRequest, BodyReceived, LateBody, PutBody, StreamReset
<1>5. CASE WindowUpdated \/ PriorityUpdated \/ NothingTold \/ ReaderClosed \/ ReadFrames
           \/ ReadError
  BY <1>1, <1>2, <1>5
  DEF WindowUpdated, PriorityUpdated, NothingTold, ReaderClosed, ReadFrames, ReadError, Flush
<1>6. CASE ReadEnds \/ ConnectionTerminated \/ EventsHandled \/ ReaderCloses
  BY <1>1, <1>2, <1>6
  DEF ReadEnds, ConnectionTerminated, EventsHandled, ReaderCloses, Flush
<1>7. CASE HandleClosed \/ Join \/ FinalClose \/ FinalClosed \/ WriteStep(Reader)
  BY <1>1, <1>2, <1>7, WriteType, TaskFacts
  DEF HandleClosed, Join, FinalClose, FinalClosed
<1> QED BY <1>3, <1>4, <1>5, <1>6, <1>7 DEF ReaderStep

LEMMA ReaderWakes == ASSUME TypeInv, ReaderStep PROVE WakeStep
<1>0. TypeOK /\ pc'[Sender] = pc[Sender]
  BY ReaderMoves DEF TypeInv
<1>1. CASE WriteStep(Reader)
  BY <1>1, WriteWakes, TaskFacts
<1>2. CASE StreamReset
  <2>1. UNCHANGED <<ready, closed>> /\ wst[Reader] = "no"
    BY <1>2 DEF StreamReset, Handle, At
  <2>2. CASE CloseStreams(Reader, {EventStream}, {})
    BY <1>0, <2>1, <2>2, ClosingWakes, TaskFacts DEF WakeStep, Asleep
  <2>3. CASE UNCHANGED <<streams, hasData, queueVars, waitVars>>
    BY <1>0, <2>1, <2>3, QuietWakes DEF waitVars
  <2> QED BY <1>2, <2>2, <2>3 DEF StreamReset
<1>3. CASE HandleClosed
  <2>1. UNCHANGED ready /\ wst[Reader] = "no" /\ CloseStreams(Reader, streams, {})
    BY <1>3 DEF HandleClosed, At
  <2> QED BY <1>0, <2>1, ClosingWakes, TaskFacts DEF WakeStep, Asleep
<1>4. CASE WindowUpdated \/ PriorityUpdated
  BY <1>4 DEF WindowUpdated, PriorityUpdated, Wake, WakeStep
<1>5. CASE ReadError \/ EventsHandled
  <2>1. UNCHANGED <<hasData, ready, closed>> /\ wst[Reader] = "no"
    BY <1>5 DEF ReadError, EventsHandled, At, protocolVars, sendVars
  <2>2. CASE UNCHANGED waitVars
    BY <1>0, <2>1, <2>2, QuietWakes DEF waitVars
  <2>3. CASE \E l \in ReaderPC : Flush(Reader, l)
    BY <1>0, <2>1, <2>3, PutsKept, QuietWakes, TaskFacts
  <2> QED BY <1>5, <2>2, <2>3, NextReads DEF ReadError, EventsHandled, ReaderPC
<1>6. CASE ReadFrames \/ ReadEnds \/ RefuseRequest \/ CreateStream \/ BodyReceived
           \/ PutBody \/ LateBody \/ NothingTold
  <2>1. UNCHANGED <<hasData, ready, closed, waitVars>>
    BY <1>6 DEF ReadFrames, ReadEnds, RefuseRequest, CreateStream, BodyReceived, PutBody,
       LateBody, NothingTold, protocolVars, sendVars
  <2> QED BY <1>0, <2>1, QuietWakes DEF waitVars
<1>7. CASE ConnectionTerminated \/ ReaderCloses \/ ReaderClosed \/ Join \/ FinalClose
           \/ FinalClosed
  <2>1. UNCHANGED <<hasData, ready, closed, waitVars>>
    BY <1>7 DEF ConnectionTerminated, ReaderCloses, ReaderClosed, Join, FinalClose,
       FinalClosed, protocolVars, sendVars
  <2> QED BY <1>0, <2>1, QuietWakes DEF waitVars
<1> QED BY <1>1, <1>2, <1>3, <1>4, <1>5, <1>6, <1>7 DEF ReaderStep

\* The sender waits only in WaitForData.
LEMMA SenderWakes == ASSUME TypeInv, SenderStep PROVE WakeStep
<1>1. ASSUME NEW l \in SenderPC \ {"wait"}, Goto(Sender, l) PROVE WakeStep
  BY <1>1, GotoType, TaskFacts DEF TypeInv, WakeStep
<1>2. {"loop", "sent", "finished", "raised", "done"} \subseteq SenderPC \ {"wait"}
  BY DEF SenderPC
<1>3. CASE WriteStep(Sender)
  BY <1>3, WriteWakes, TaskFacts
<1>4. ASSUME NEW s \in Streams, ServeNothing(s) PROVE WakeStep
  <2>1. pc[Sender] = "loop" /\ UNCHANGED pc
    BY <1>4 DEF ServeNothing, Serving, At
  <2> QED BY <2>1 DEF WakeStep
<1>5. ASSUME NEW s \in Streams,
             ServeData(s) \/ ServeEnd(s) \/ ServeFails(s) \/ ServeCrashes(s)
      PROVE  WakeStep
  BY <1>1, <1>2, <1>5 DEF ServeData, ServeEnd, ServeFails, ServeCrashes, EndStream, Flush
<1>6. CASE EndAfterData \/ TurnOver \/ Finished \/ HasData \/ SenderEnds
  BY <1>1, <1>2, <1>6 DEF EndAfterData, TurnOver, Finished, HasData, SenderEnds, EndStream, Flush
<1>7. CASE WaitForData
  BY <1>7 DEF WakeStep
<1> QED BY <1>3, <1>4, <1>5, <1>6, <1>7 DEF SenderStep, Serve

LEMMA AppWakes ==
  ASSUME TypeInv, NEW r \in Streams, StreamStep(r) \/ AppStep(r)
  PROVE  WakeStep
<1>0. TypeOK /\ pc'[Sender] = pc[Sender] /\ r \in Tasks
  BY AppSpawns, TaskFacts DEF TypeInv
<1>1. CASE WriteStep(r)
  BY <1>0, <1>1, WriteWakes
<1>2. CASE StreamEnded(r)
  <2>1. UNCHANGED <<ready, closed>> /\ wst[r] = "no"
    BY <1>2 DEF StreamEnded, At
  <2>2. CASE CloseStreams(r, {r}, {})
    BY <1>0, <2>1, <2>2, ClosingWakes DEF WakeStep, Asleep
  <2>3. CASE UNCHANGED <<streams, hasData, queueVars, waitVars>>
    BY <1>0, <2>1, <2>3, QuietWakes DEF waitVars
  <2> QED BY <1>2, <2>2, <2>3 DEF StreamEnded
<1>3. CASE LastStreamLeft(r) \/ SendStart(r) \/ EndWithHeaders(r) \/ Finish(r)
           \/ \E n \in ChunkSizes : SendFlush(r, n)
  <2>1. UNCHANGED <<hasData, ready, closed>> /\ wst[r] = "no"
    BY <1>3 DEF LastStreamLeft, SendStart, EndWithHeaders, Finish, SendFlush, MayStart,
       MayRespond, At, protocolVars, sendVars
  <2>2. UNCHANGED waitVars \/ \E l : Flush(r, l)
    BY <1>3 DEF LastStreamLeft, SendStart, EndWithHeaders, Finish, SendFlush, SendHeaders
  <2> QED BY <1>0, <2>1, <2>2, PutsKept, QuietWakes DEF waitVars
<1>4. CASE \E n \in ChunkSizes, last \in BOOLEAN : SendBody(r, n, last)
  <2>1. hasData' \/ UNCHANGED <<hasData, ready>>
    BY <1>4 DEF SendBody, Wake
  <2>2. UNCHANGED <<closed, wst>>
    BY <1>4 DEF SendBody, protocolVars, waitVars
  <2> QED BY <1>0, <2>1, <2>2, QuietWakes DEF WakeStep
<1>5. CASE EndBody(r)
  <2>1. hasData' \/ UNCHANGED <<hasData, ready>>
    BY <1>5 DEF EndBody, Wake
  <2>2. UNCHANGED <<closed, wst>>
    BY <1>5 DEF EndBody, protocolVars, waitVars
  <2> QED BY <1>0, <2>1, <2>2, QuietWakes DEF WakeStep
<1>6. CASE Started(r) \/ Resumed(r) \/ Drained(r) \/ StreamLeft(r) \/ LastStreamTimer(r)
           \/ Receive(r) \/ Return(r)
  <2>1. UNCHANGED <<hasData, ready, closed, waitVars>>
    BY <1>6 DEF Started, Resumed, Drained, StreamLeft, LastStreamTimer, Receive, Return,
       protocolVars, sendVars
  <2> QED BY <1>0, <2>1, QuietWakes DEF waitVars
<1> QED BY <1>1, <1>2, <1>3, <1>4, <1>5, <1>6
        DEF StreamStep, AppStep, EndResponse, ErrorResponseEnd

LEMMA Wakes == ASSUME TypeInv, [Next]_vars PROVE WakeStep
<1>1. CASE Environment
  <2>1. CASE Abort
    BY <2>1, AbortFacts DEF WakeStep
  <2>2. CASE ReadTimeout
    <3>1. pc'[Sender] = pc[Sender]
      BY <2>2, TaskFacts DEF ReadTimeout, Goto, TypeInv, TypeOK
    <3> QED BY <2>2, <3>1, QuietWakes DEF ReadTimeout, protocolVars, sendVars, waitVars
  <2>3. CASE IdleTimeout
    BY <2>3 DEF IdleTimeout, Wake, WakeStep
  <2>4. CASE Terminate \/ ClientSends \/ ClientEof \/ ConnectionLost
    <3>1. UNCHANGED <<pc, protocolVars, sendVars, waitVars>>
      BY <2>4 DEF Terminate, ClientSends, ClientEof, ConnectionLost
    <3> QED BY <3>1, QuietWakes DEF protocolVars, sendVars, waitVars
  <2> QED BY <1>1, <2>1, <2>2, <2>3, <2>4 DEF Environment
<1>2. CASE UNCHANGED vars
  BY <1>2, QuietWakes DEF vars, protocolVars, sendVars, waitVars
<1> QED BY <1>1, <1>2, ReaderWakes, SenderWakes, AppWakes DEF Next

LEMMA AwakeKept == TypeInv /\ SenderAwake /\ [Next]_vars => SenderAwake'
<1> SUFFICES ASSUME TypeInv, SenderAwake, [Next]_vars, pc'[Sender] = "wait", ~hasData'
             PROVE  ready' = {} /\ (closed' => \E t \in Tasks : wst'[t] = "put")
  BY DEF SenderAwake
<1>1. CASE WaitForData
  BY <1>1 DEF WaitForData, protocolVars, sendVars
<1>2. CASE Asleep
  BY <1>2 DEF Asleep, SenderAwake
<1> QED BY <1>1, <1>2, Wakes DEF WakeStep

----------------------------------------------------------------------------
(* What can be sent is given to the sender.                                *)

LEMMA RoomBoth ==
  ASSUME TypeOK, TypeOK', NEW s \in Streams
  PROVE  /\ Room(s) > 0 <=> window[s] > 0 /\ window[0] > 0
         /\ Room(s)' > 0 <=> window'[s] > 0 /\ window'[0] > 0
         /\ window[s] \in Nat /\ window[0] \in Nat /\ window'[s] \in Nat /\ window'[0] \in Nat
<1>1. /\ window[s] \in Nat /\ window[0] \in Nat /\ FrameSize \in Nat \ {0}
      /\ window'[s] \in Nat /\ window'[0] \in Nat
  BY TaskFacts, H2Assumption DEF TypeOK
<1> DEFINE a == window'[s]
           b == window'[0]
<1>2. Min({a, b, FrameSize}) \in {a, b, FrameSize} /\ Min({a, b, FrameSize}) <= a /\ Min({a, b, FrameSize}) <= b
  <2>1. a \in Nat /\ b \in Nat /\ FrameSize \in Nat
    BY <1>1
  <2> HIDE DEF a, b
  <2> QED BY <2>1, MinOfThree
<1>3. Room(s)' = Min({a, b, FrameSize})
  BY DEF Room
<1> HIDE DEF a, b
<1>4. Room(s)' > 0 <=> a > 0 /\ b > 0
  BY <1>1, <1>2, <1>3 DEF a, b
<1>5. Room(s) > 0 <=> window[s] > 0 /\ window[0] > 0
  BY <1>1, RoomFacts
<1> QED BY <1>1, <1>4, <1>5 DEF a, b

\* A step that gives a stream no more to send, nor takes it from the sender.
LEMMA Lessens ==
  ASSUME TypeOK, TypeOK', SendableIsReady, NEW s \in Streams, Sendable(s)',
         buf'[s].live => buf[s].live,
         buf'[s].data = buf[s].data, buf'[s].complete = buf[s].complete,
         CanSend(s)' => CanSend(s), window'[s] <= window[s], window'[0] <= window[0],
         s \in ready => s \in ready',
         WindowPending(s) => WindowPending(s)' \/ s \in ready'
  PROVE  s \in ready' \/ WindowPending(s)'
<1>1. Room(s)' > 0 => Room(s) > 0
  BY RoomBoth
<1>2. Sendable(s)
  BY <1>1 DEF Sendable, Complete
<1> QED BY <1>2 DEF SendableIsReady

LEMMA QuietSendable ==
  ASSUME TypeOK, TypeOK', SendableIsReady, NEW s \in Streams, Sendable(s)',
         UNCHANGED <<buf, ready, h2Vars>>,
         WindowPending(s) => WindowPending(s)'
  PROVE  s \in ready' \/ WindowPending(s)'
BY RoomBoth, Lessens DEF h2Vars, CanSend

LEMMA PendingKept ==
  ASSUME TypeOK, events # <<>>, Done, NEW s \in Streams, WindowPending(s),
         Head(events)[1] # "window" \/ Head(events)[2] \notin {0, s}
  PROVE  WindowPending(s)'
<1>1. /\ Len(events) \in Nat \ {0} /\ Len(events') = Len(events) - 1 /\ Head(events) = events[1]
      /\ \A i \in 1 .. Len(events') : events'[i] = events[i + 1]
      /\ events \in Seq(Events) /\ events' \in Seq(Events)
  BY EventFacts DEF Done, TypeOK
<1>2. DOMAIN events = 1 .. Len(events) /\ DOMAIN events' = 1 .. Len(events')
  BY <1>1, LenProperties
<1>3. PICK i \in 1 .. Len(events) : events[i][1] = "window" /\ events[i][2] \in {0, s}
  BY <1>2 DEF WindowPending
<1>4. i # 1
  BY <1>1, <1>3
<1>5. i - 1 \in 1 .. Len(events') /\ (i - 1) + 1 = i
  BY <1>1, <1>4
<1>6. events'[i - 1] = events[i]
  BY <1>1, <1>5
<1> QED BY <1>2, <1>3, <1>5, <1>6 DEF WindowPending

\* An increment of a window is an event the reader has still to handle.
LEMMA ReadFramesSendable ==
  ASSUME TypeInv, TypeInv', OpenedOnce, BufferInv, ReadInv, SendableIsReady, ReadFrames,
         NEW s \in Streams, Sendable(s)'
  PROVE  s \in ready' \/ WindowPending(s)'
<1>0. TypeOK /\ TypeOK'
  BY DEF TypeInv
<1>1. /\ Len(inbox) \in Nat /\ Len(events') = Len(inbox)
      /\ \A i \in 1 .. Len(inbox) : Told(inbox[i]) => events'[i] = inbox[i]
      /\ DOMAIN inbox = 1 .. Len(inbox) /\ DOMAIN events' = 1 .. Len(inbox)
  <2>1. events' \in Seq(Events) /\ inbox \in Seq(Frames)
    BY <1>0 DEF TypeOK
  <2> QED BY <1>0, <2>1, ReadFramesFacts, LenProperties
<1>2. buf' = buf /\ ready' = ready /\ events = <<>> /\ conn = "open" /\ CanSend(s)'
  BY DEF ReadFrames, sendVars, Sendable, At, ReadInv
<1>3. half[s] = "open"
  <2>1. Spawned(s)
    BY <1>2 DEF Sendable, BufferInv
  <2>2. ~Received("headers", s)
    <3>1. ~Unread(s)
      BY <2>1 DEF OpenedOnce
    <3> QED BY <1>1, <3>1 DEF Received, Unread
  <2>3. half'[s] = "open"
    BY <1>2 DEF CanSend
  <2>4. half'[s] \in {"reset", half[s]}
    BY <2>2 DEF ReadFrames
  <2> QED BY <2>3, <2>4
<1>4. \A u \in {0, s} : window'[u] > window[u] => WindowPending(s)'
  <2> SUFFICES ASSUME NEW u \in {0, s}, window'[u] > window[u] PROVE WindowPending(s)'
    OBVIOUS
  <2>1. u \in 0 .. MaxReq /\ window[u] \in Nat /\ Windows(u) \in Nat /\ WindowIncrement \in Nat
    <3>1. u \in 0 .. MaxReq
      BY TaskFacts
    <3>2. window \in [0 .. MaxReq -> Nat]
      BY <1>0 DEF TypeOK
    <3>3. Windows(u) \in Nat
      BY <1>0, WindowsType
    <3>4. WindowIncrement \in Nat
      BY H2Assumption
    <3> QED BY <3>1, <3>2, <3>3, <3>4
  <2>2. window'[u] = window[u] + WindowIncrement * Windows(u)
    BY <2>1 DEF ReadFrames
  <2>3. Windows(u) # 0
    BY <2>1, <2>2
  <2>4. {i \in DOMAIN inbox : inbox[i] = <<"window", u>>} # {}
    BY <2>3, FS_EmptySet DEF Windows
  <2>5. PICK i \in 1 .. Len(inbox) : inbox[i] = <<"window", u>>
    BY <1>1, <2>4
  <2>6. Told(inbox[i])
    BY <1>3, <2>5, TaskFacts DEF Told, Gone
  <2>7. events'[i] = <<"window", u>>
    BY <1>1, <2>5, <2>6
  <2> QED BY <1>1, <2>7 DEF WindowPending
<1>5. CASE window'[s] <= window[s] /\ window'[0] <= window[0]
  <2>1. ~WindowPending(s)
    <3>1. DOMAIN events = {}
      BY <1>2, EmptySeq
    <3> QED BY <3>1 DEF WindowPending
  <2>2. CanSend(s)
    BY <1>2, <1>3 DEF CanSend
  <2> QED BY <1>0, <1>2, <1>5, <2>1, <2>2, Lessens
<1>6. window[s] \in Nat /\ window'[s] \in Nat /\ window[0] \in Nat /\ window'[0] \in Nat
  BY <1>0, RoomBoth
<1> QED BY <1>4, <1>5, <1>6

LEMMA ReaderSendable ==
  ASSUME TypeInv, TypeInv', OpenedOnce, BufferInv, ReadInv, SendableIsReady, ReaderStep,
         NEW s \in Streams, Sendable(s)'
  PROVE  s \in ready' \/ WindowPending(s)'
<1>0. TypeOK /\ TypeOK'
  BY DEF TypeInv
<1>1. CASE ReadFrames
  BY <1>1, ReadFramesSendable
<1>2. CASE ReadError
  BY <1>2 DEF ReadError, Sendable, CanSend
<1>3. CASE WindowUpdated
  <2>1. /\ events # <<>> /\ Done /\ UNCHANGED <<buf, h2Vars>> /\ ready' = ready \cup Updated
        /\ Head(events)[1] \in {"window", "reset"}
    BY <1>3 DEF WindowUpdated, Handle, TypeInv, HeadInv, At
  <2>2. buf[s].live
    BY <2>1 DEF Sendable
  <2>3. CASE Head(events)[2] \in {0, s}
    BY <2>1, <2>2, <2>3 DEF Updated, EventStream
  <2>4. CASE Head(events)[2] \notin {0, s}
    <3>1. WindowPending(s) => WindowPending(s)'
      BY <1>0, <2>1, <2>4, PendingKept
    <3>2. window'[s] <= window[s] /\ window'[0] <= window[0]
      BY <1>0, <2>1, RoomBoth DEF h2Vars
    <3>3. CanSend(s)' => CanSend(s)
      BY <2>1 DEF h2Vars, CanSend
    <3> QED BY <1>0, <2>1, <3>1, <3>2, <3>3, Lessens
  <2> QED BY <2>3, <2>4
<1>4. CASE CreateStream
  <2>1. s # EventStream
    <3> SUFFICES ASSUME s = EventStream PROVE FALSE
      OBVIOUS
    <3>1. buf' = [buf EXCEPT ![s] = NewBuffer] /\ buf \in [Streams -> Buffers]
      BY <1>0, <1>4 DEF CreateStream, TypeOK
    <3>2. buf'[s] = NewBuffer
      BY <3>1
    <3>3. buf'[s].data = <<>> /\ buf'[s].complete = FALSE
      BY <3>2 DEF NewBuffer
    <3> QED BY <3>3 DEF Sendable, Complete
  <2>2. buf'[s] = buf[s] /\ conn' \in {conn, "closed"} /\ UNCHANGED <<half, window, ready>>
    BY <1>0, <1>4, <2>1, CreateFacts DEF CreateStream, TypeOK
  <2>3. WindowPending(s) => WindowPending(s)'
    BY <1>0, <1>4, PendingKept DEF CreateStream, Handle
  <2>4. window'[s] <= window[s] /\ window'[0] <= window[0]
    BY <1>0, <2>2, RoomBoth
  <2>5. CanSend(s)' => CanSend(s)
    BY <1>0, <2>2 DEF CanSend, TypeOK
  <2> QED BY <1>0, <2>2, <2>3, <2>4, <2>5, Lessens
<1>5. CASE RefuseRequest
  <2>1. UNCHANGED <<buf, conn, window, ready>>
    BY <1>5 DEF RefuseRequest, sendVars
  <2>2. half'[s] \in {half[s], "reset"}
    BY <1>0, <1>5 DEF RefuseRequest, TypeOK
  <2>3. WindowPending(s) => WindowPending(s)'
    BY <1>0, <1>5, PendingKept DEF RefuseRequest, Handle
  <2>4. window'[s] <= window[s] /\ window'[0] <= window[0]
    BY <1>0, <2>1, RoomBoth
  <2>5. CanSend(s)' => CanSend(s)
    BY <2>1, <2>2 DEF CanSend
  <2> QED BY <1>0, <2>1, <2>3, <2>4, <2>5, Lessens
<1>6. CASE BodyReceived \/ PutBody \/ LateBody \/ PriorityUpdated \/ NothingTold
  <2>1. UNCHANGED <<buf, ready, h2Vars>>
    BY <1>6 DEF BodyReceived, PutBody, LateBody, PriorityUpdated, NothingTold, sendVars
  <2>2. CASE UNCHANGED events
    BY <1>0, <2>1, <2>2, QuietSendable DEF WindowPending
  <2>3. CASE Done /\ events # <<>> /\ Head(events)[1] # "window"
    BY <1>0, <2>1, <2>3, PendingKept, QuietSendable
  <2> QED BY <1>6, <2>2, <2>3
          DEF BodyReceived, PutBody, LateBody, PriorityUpdated, NothingTold, Handle, At,
              TypeInv, HeadInv
<1>7. CASE ReaderClosed
  <2>1. conn' = "closed"
    BY <1>7 DEF ReaderClosed, At, ReadInv, h2Vars
  <2> QED BY <2>1 DEF Sendable, CanSend
<1>8. CASE ReadEnds \/ StreamReset \/ ConnectionTerminated \/ EventsHandled \/ ReaderCloses
           \/ HandleClosed \/ Join \/ FinalClose \/ FinalClosed \/ WriteStep(Reader)
  <2>1. UNCHANGED <<buf, ready, h2Vars, events>>
    BY <1>8 DEF ReadEnds, StreamReset, ConnectionTerminated, EventsHandled, ReaderCloses,
       HandleClosed, Join, FinalClose, FinalClosed, WriteStep, Flushed, FlushFails, PutLate,
       clientVars, sendVars
  <2> QED BY <1>0, <2>1, QuietSendable DEF WindowPending
<1> QED BY <1>1, <1>2, <1>3, <1>4, <1>5, <1>6, <1>7, <1>8 DEF ReaderStep

LEMMA EndStreamSendable ==
  ASSUME TypeInv, TypeInv', SendableIsReady, NEW r \in Streams, EndStream(r),
         NEW s \in Streams, Sendable(s)', s # r => buf'[s] = buf[s],
         ready' \in {ready, ready \ {r}}
  PROVE  s \in ready' \/ WindowPending(s)'
<1>0. TypeOK /\ TypeOK'
  BY DEF TypeInv
<1>1. /\ half' = [half EXCEPT ![r] = "ended"] /\ UNCHANGED <<conn, window, events>>
  BY DEF EndStream, clientVars
<1>2. s # r /\ half'[s] = half[s]
  BY <1>0, <1>1 DEF Sendable, CanSend, TypeOK
<1>3. window'[s] <= window[s] /\ window'[0] <= window[0]
  BY <1>0, <1>1, RoomBoth
<1>4. CanSend(s)' => CanSend(s)
  BY <1>1, <1>2 DEF CanSend
<1>5. WindowPending(s) => WindowPending(s)'
  BY <1>1 DEF WindowPending
<1> QED BY <1>0, <1>2, <1>3, <1>4, <1>5, Lessens

\* A stream leaves the sender's streams only with its buffer.
LEMMA ForgottenSendable ==
  ASSUME TypeInv, TypeInv', SendableIsReady, NEW r \in Streams, NEW s \in Streams, Sendable(s)',
         ~buf'[r].live, s # r => buf'[s] = buf[s], ready' = ready \ {r},
         UNCHANGED <<h2Vars, events>>
  PROVE  s \in ready' \/ WindowPending(s)'
<1>0. TypeOK /\ TypeOK'
  BY DEF TypeInv
<1>1. s # r
  BY DEF Sendable
<1>2. window'[s] <= window[s] /\ window'[0] <= window[0]
  BY <1>0, RoomBoth DEF h2Vars
<1>3. CanSend(s)' => CanSend(s)
  BY DEF CanSend, h2Vars
<1>4. WindowPending(s) => WindowPending(s)'
  BY DEF WindowPending
<1> QED BY <1>0, <1>1, <1>2, <1>3, <1>4, Lessens

LEMMA SenderSendable ==
  ASSUME TypeInv, TypeInv', SendableIsReady, SenderStep, NEW s \in Streams, Sendable(s)'
  PROVE  s \in ready' \/ WindowPending(s)'
<1>0. TypeOK /\ TypeOK' /\ buf \in [Streams -> Buffers]
  BY DEF TypeInv, TypeOK
<1>1. ASSUME NEW r \in Streams, ServeData(r) PROVE s \in ready' \/ WindowPending(s)'
  <2>1. UNCHANGED <<conn, half, ready, events>> /\ r \in ready
    BY <1>1 DEF ServeData, clientVars, Serving
  <2>2. CASE s = r
    BY <2>1, <2>2
  <2>3. CASE s # r
    <3>1. buf'[s] = buf[s]
      BY <1>0, <1>1, <2>3 DEF ServeData
    <3> DEFINE n == ToPop(r)
    <3>2. n \in Nat /\ n <= Len(buf[r].data) /\ n <= Room(r)
      BY <1>0, PopFacts
    <3>3. Len(SubSeq(buf[r].data, 1, n)) = n
      BY <1>0, <3>2, PoppedFacts
    <3>4. window' = [window EXCEPT ![r] = @ - n, ![0] = @ - n]
      BY <1>1, <3>3 DEF ServeData, SendData
    <3> HIDE DEF n
    <3>5. window[0] \in Nat /\ window[s] \in Nat /\ window'[s] = window[s] /\ window'[0] = window[0] - n
      BY <1>0, <2>3, <3>4, RoomBoth, TaskFacts DEF TypeOK
    <3>6. window'[s] <= window[s] /\ window'[0] <= window[0]
      BY <3>2, <3>5
    <3>7. (CanSend(s)' => CanSend(s)) /\ (WindowPending(s) => WindowPending(s)')
      BY <2>1 DEF CanSend, WindowPending
    <3> QED BY <1>0, <2>1, <3>1, <3>6, <3>7, Lessens
  <2> QED BY <2>2, <2>3
<1>2. ASSUME NEW r \in Streams, ServeNothing(r) PROVE s \in ready' \/ WindowPending(s)'
  <2>1. UNCHANGED <<h2Vars, events>> /\ buf' = [buf EXCEPT ![r] = Popped(r, 0)]
        /\ ready' = ready \ {r} /\ ToPop(r) = 0 /\ ~Complete(r)
    BY <1>2 DEF ServeNothing, clientVars
  <2>2. CASE s = r
    <3>1. 0 \in Nat /\ 0 <= Len(buf[r].data) /\ buf[r].data \in Seq(1 .. MaxBody)
      BY <1>0, LenProperties DEF Buffers
    <3>2. /\ Popped(r, 0).data \in Seq(1 .. MaxBody)
          /\ Len(Popped(r, 0).data) = Len(buf[r].data) - 0
          /\ Popped(r, 0).complete = buf[r].complete
      BY <1>0, <3>1, PoppedFacts DEF Buffers
    <3>3. Popped(r, 0).data = <<>> <=> buf[r].data = <<>>
      BY <3>1, <3>2, EmptySeq, LenProperties
    <3>4. buf'[r].data = <<>> <=> buf[r].data = <<>>
      BY <1>0, <2>1, <3>3
    <3>5. buf'[r].complete = buf[r].complete
      BY <1>0, <2>1, <3>2
    <3>6. buf[r].data # <<>> /\ Room(r)' > 0
      BY <2>1, <2>2, <3>4, <3>5 DEF Sendable, Complete
    <3>7. Room(r)' = Room(r)
      BY <2>1 DEF Room, h2Vars
    <3> QED BY <1>0, <2>1, <3>6, <3>7, PopFacts, RoomFacts
  <2>3. CASE s # r
    <3>1. buf'[s] = buf[s]
      BY <1>0, <2>1, <2>3
    <3>2. window'[s] <= window[s] /\ window'[0] <= window[0]
      BY <1>0, <2>1, RoomBoth DEF h2Vars
    <3>3. (CanSend(s)' => CanSend(s)) /\ (WindowPending(s) => WindowPending(s)')
      BY <2>1 DEF CanSend, WindowPending, h2Vars
    <3> QED BY <1>0, <2>1, <2>3, <3>1, <3>2, <3>3, Lessens
  <2> QED BY <2>2, <2>3
<1>3. ASSUME NEW r \in Streams, ServeEnd(r) PROVE s \in ready' \/ WindowPending(s)'
  BY <1>0, <1>3, EndStreamSendable DEF ServeEnd
<1>4. ASSUME NEW r \in Streams, ServeFails(r) PROVE s \in ready' \/ WindowPending(s)'
  BY <1>0, <1>4, ForgottenSendable DEF ServeFails, ForceClose, clientVars
<1>5. CASE EndAfterData
  BY <1>5, ServedFacts, EndStreamSendable DEF EndAfterData, At
<1>6. CASE Finished
  <2>1. serving \in Streams
    BY <1>6, ServedFacts DEF Finished, At
  <2> DEFINE b == [buf[serving] EXCEPT !.live = FALSE]
  <2>2. buf' = [buf EXCEPT ![serving] = b] /\ ~b.live
    BY <1>0, <1>6, <2>1, FieldFacts DEF Finished
  <2> HIDE DEF b
  <2>3. ~buf'[serving].live /\ (s # serving => buf'[s] = buf[s])
    BY <1>0, <2>1, <2>2
  <2>4. ready' = ready \ {serving} /\ UNCHANGED <<h2Vars, events>>
    BY <1>6 DEF Finished, clientVars
  <2> QED BY <2>1, <2>3, <2>4, ForgottenSendable
<1>7. CASE TurnOver \/ WaitForData \/ HasData \/ SenderEnds \/ WriteStep(Sender)
           \/ \E r \in Streams : ServeCrashes(r)
  <2>1. UNCHANGED <<buf, ready, h2Vars, events>>
    BY <1>7 DEF TurnOver, WaitForData, HasData, SenderEnds, ServeCrashes,
       WriteStep, Flushed, FlushFails, PutLate, clientVars, sendVars
  <2> QED BY <1>0, <2>1, QuietSendable DEF WindowPending
<1> QED BY <1>1, <1>2, <1>3, <1>4, <1>5, <1>6, <1>7 DEF SenderStep, Serve

LEMMA AppSendable ==
  ASSUME TypeInv, TypeInv', SendableIsReady, NEW r \in Streams, StreamStep(r) \/ AppStep(r),
         NEW s \in Streams, Sendable(s)'
  PROVE  s \in ready' \/ WindowPending(s)'
<1>0. TypeOK /\ TypeOK' /\ buf \in [Streams -> Buffers]
  BY DEF TypeInv, TypeOK
<1>1. UNCHANGED events /\ (WindowPending(s) => WindowPending(s)')
  BY AppQueues DEF clientVars, WindowPending
<1>2. ASSUME ready' \in {ready, ready \cup {r}}, UNCHANGED h2Vars,
             \/ buf' = buf
             \/ \E b : buf' = [buf EXCEPT ![r] = b] /\ r \in ready'
      PROVE  s \in ready' \/ WindowPending(s)'
  <2>1. CASE s = r /\ r \in ready'
    BY <2>1
  <2>2. CASE buf'[s] = buf[s]
    <3>1. window'[s] <= window[s] /\ window'[0] <= window[0]
      BY <1>0, <1>2, RoomBoth DEF h2Vars
    <3>2. CanSend(s)' => CanSend(s)
      BY <1>2 DEF CanSend, h2Vars
    <3> QED BY <1>0, <1>1, <1>2, <2>2, <3>1, <3>2, Lessens
  <2> QED BY <1>0, <1>2, <2>1, <2>2
<1>3. ASSUME NEW n \in ChunkSizes, NEW last \in BOOLEAN, SendBody(r, n, last)
      PROVE  s \in ready' \/ WindowPending(s)'
  BY <1>2, <1>3 DEF SendBody, Unblock
<1>4. CASE EndBody(r)
  <2>1. CASE UNCHANGED buf
    BY <1>2, <1>4, <2>1 DEF EndBody, Unblock
  <2>2. CASE buf[r].live
    <3> DEFINE b == [buf[r] EXCEPT !.complete = TRUE]
    <3>1. r \in tree
      BY <2>2 DEF TypeInv, TreeInv
    <3>2. buf' = [buf EXCEPT ![r] = b] /\ ready' = ready \cup {r} /\ UNCHANGED h2Vars
      BY <1>4, <2>2, <3>1 DEF EndBody, Unblock
    <3> HIDE DEF b
    <3> QED BY <1>2, <3>2
  <2> QED BY <1>4, <2>1, <2>2 DEF EndBody
<1>5. CASE Resumed(r)
  <2> DEFINE b == [buf[r] EXCEPT !.paused = FALSE]
  <2>1. b.live = buf[r].live /\ b.data = buf[r].data /\ b.complete = buf[r].complete
    BY <1>0, FieldFacts
  <2>2. buf' = [buf EXCEPT ![r] = b] /\ UNCHANGED <<h2Vars, ready>>
    BY <1>5 DEF Resumed
  <2> HIDE DEF b
  <2>3. buf'[s].live = buf[s].live /\ buf'[s].data = buf[s].data /\ buf'[s].complete = buf[s].complete
    BY <1>0, <2>1, <2>2
  <2>4. window'[s] <= window[s] /\ window'[0] <= window[0]
    BY <1>0, <2>2, RoomBoth DEF h2Vars
  <2>5. CanSend(s)' => CanSend(s)
    BY <2>2 DEF CanSend, h2Vars
  <2> QED BY <1>0, <1>1, <2>2, <2>3, <2>4, <2>5, Lessens
<1>6. ASSUME NEW n \in ChunkSizes, SendFlush(r, n) PROVE s \in ready' \/ WindowPending(s)'
  <2>1. UNCHANGED <<buf, ready, conn, half>> /\ n \in Nat
    BY <1>6, H2Assumption DEF SendFlush, sendVars
  <2>2. window'[s] <= window[s] /\ window'[0] <= window[0]
    <3>1. CASE UNCHANGED window
      BY <1>0, <3>1, RoomBoth
    <3>2. CASE SendData(r, Chunk(r, n))
      <4>1. Len(Chunk(r, n)) = n
        BY <1>0, <1>6, ChunkFacts DEF SendFlush
      <4>2. window' = [window EXCEPT ![r] = @ - n, ![0] = @ - n]
        BY <3>2, <4>1 DEF SendData
      <4>3. /\ window[0] \in Nat /\ window[s] \in Nat /\ window'[0] = window[0] - n
            /\ window'[s] \in {window[s], window[s] - n}
        BY <1>0, <4>2, RoomBoth, TaskFacts DEF TypeOK
      <4> QED BY <2>1, <4>3
    <3> QED BY <1>6, <3>1, <3>2 DEF SendFlush
  <2>3. CanSend(s)' => CanSend(s)
    BY <2>1 DEF CanSend
  <2> QED BY <1>0, <1>1, <2>1, <2>2, <2>3, Lessens
<1>7. CASE EndWithHeaders(r) \/ LastStreamLeft(r)
  <2>1. UNCHANGED <<buf, ready, window>> /\ conn' \in {conn, "closed"}
        /\ half' \in {half, [half EXCEPT ![r] = "ended"]}
    BY <1>7 DEF EndWithHeaders, LastStreamLeft, sendVars
  <2>2. CanSend(s)' => CanSend(s)
    BY <1>0, <2>1 DEF CanSend, TypeOK
  <2>3. window'[s] <= window[s] /\ window'[0] <= window[0]
    BY <1>0, <2>1, RoomBoth
  <2> QED BY <1>0, <1>1, <2>1, <2>2, <2>3, Lessens
<1>8. CASE Started(r) \/ Drained(r) \/ Finish(r) \/ StreamEnded(r) \/ StreamLeft(r)
           \/ LastStreamTimer(r) \/ WriteStep(r) \/ Receive(r) \/ SendStart(r) \/ Return(r)
  <2>1. UNCHANGED <<buf, ready, h2Vars>>
    BY <1>8 DEF Started, Drained, Finish, StreamEnded, StreamLeft, LastStreamTimer,
       WriteStep, Flushed, FlushFails, PutLate, Receive, SendStart, Return, sendVars
  <2> QED BY <1>0, <1>1, <2>1, QuietSendable
<1> QED BY <1>3, <1>4, <1>5, <1>6, <1>7, <1>8
        DEF StreamStep, AppStep, EndResponse, ErrorResponseEnd

LEMMA SendableKept ==
  TypeInv /\ OpenedOnce /\ BufferInv /\ ReadInv /\ SendableIsReady /\ [Next]_vars
    => SendableIsReady'
<1> SUFFICES ASSUME TypeInv, OpenedOnce, BufferInv, ReadInv, SendableIsReady, [Next]_vars,
                    NEW s \in Streams, Sendable(s)'
             PROVE  s \in ready' \/ WindowPending(s)'
  BY DEF SendableIsReady
<1>0. TypeInv' /\ TypeOK /\ TypeOK'
  BY TypeStep DEF TypeInv
<1>1. CASE Environment
  <2>1. UNCHANGED <<buf, ready, h2Vars>>
    BY <1>1, EnvironmentBuffers
  <2>2. CASE UNCHANGED events
    BY <1>0, <2>1, <2>2, QuietSendable DEF WindowPending
  <2>3. CASE pc[Reader] = "waitClosed"
    BY <2>1, <2>3 DEF ReadInv, Sendable, CanSend, h2Vars
  <2> QED BY <1>1, <2>2, <2>3
          DEF Environment, Abort, ReadTimeout, IdleTimeout, Terminate, ClientSends, ClientEof,
              ConnectionLost, clientVars
<1>2. CASE UNCHANGED vars
  BY <1>0, <1>2, QuietSendable DEF vars, sendVars, clientVars, WindowPending
<1> QED BY <1>0, <1>1, <1>2, ReaderSendable, SenderSendable, AppSendable DEF Next

\* The sending task is in step with all that makes a stream sendable: whenever
\* it sleeps on has_data (H2Protocol.send_task) no stream is unblocked and the
\* connection is not closed, unless a task has still to set the event; and a
\* stream with data, or its end, to send and the windows for it is unblocked, or
\* an update of a window it was blocked for is an event still to be handled.
THEOREM SenderCorrect == Spec => []SenderInStep
<1> DEFINE Inv == TypeInv /\ OpenedOnce /\ SenderInv
<1>1. Init => Inv
  <2> SUFFICES ASSUME Init PROVE SenderInv
    BY TypeInit, OpenedInit
  <2>1. \A s \in Streams : ~buf[s].live
    BY DEF Init, NewBuffer
  <2>2. pc[Sender] = "loop" /\ pc[Reader] = "read" /\ events = <<>> /\ Len(events) = 0
    BY TaskFacts, EmptySeq DEF Init
  <2> QED BY <2>1, <2>2
          DEF SenderInv, BufferInv, ReadInv, SenderInStep, SenderAwake, SendableIsReady, Sendable
<1>2. Inv /\ [Next]_vars => Inv'
  BY TypeStep, OpenedStep, BufferKept, ReadKept, AwakeKept, SendableKept
  DEF SenderInv, SenderInStep
<1>3. Inv => SenderInStep
  BY DEF SenderInv
<1> QED BY <1>1, <1>2, <1>3, PTL DEF Spec

----------------------------------------------------------------------------
(* No task fails.                                                          *)

LEMMA CalmNothing == \A e \in Events : <<NoEvent, e>> \in CalmPairs /\ <<e, NoEvent>> \in CalmPairs
<1> SUFFICES ASSUME NEW e \in Events
             PROVE  <<NoEvent, e>> \in CalmPairs /\ <<e, NoEvent>> \in CalmPairs
  OBVIOUS
<1>1. NoEvent \in Events /\ NoEvent[1] = "nothing" /\ NoEvent # <<"priority", e[2]>>
  BY DEF NoEvent, Events
<1> QED BY <1>1 DEF CalmPairs

LEMMA CalmAfter ==
  ASSUME NEW s \in Streams, <<<<"headers", s>>, <<"priority", s>>>> \in CalmPairs
  PROVE  FALSE
BY DEF CalmPairs

\* Frames of a kind stay so on their way.
LEMMA WithinStep ==
  ASSUME NEW F, NoEvent \in F, TypeInv, Within(F), QueueStep
  PROVE  Within(F)'
<1>0. TypeOK
  BY DEF TypeInv
<1>1. CASE UNCHANGED <<script, inbox, events>>
  BY <1>1 DEF Within
<1>2. CASE events # <<>> /\ Done /\ UNCHANGED <<script, inbox>>
  <2>1. /\ Len(events) \in Nat \ {0} /\ Len(events') = Len(events) - 1
        /\ \A i \in 1 .. Len(events') : events'[i] = events[i + 1]
    BY <1>0, <1>2, EventFacts DEF Done
  <2>2. \A i \in 1 .. Len(events') : i + 1 \in 1 .. Len(events)
    BY <2>1
  <2> QED BY <1>2, <2>1, <2>2 DEF Within
<1>3. CASE inbox' = <<>> /\ UNCHANGED <<script, events>>
  <2>1. Len(inbox') = 0
    BY <1>3, EmptySeq
  <2> QED BY <1>3, <2>1 DEF Within
<1>4. CASE ReadFrames
  <2>1. /\ Len(inbox) \in Nat /\ Len(events') = Len(inbox) /\ Len(inbox') = 0
        /\ \A i \in 1 .. Len(inbox) : events'[i] \in {inbox[i], NoEvent}
        /\ UNCHANGED script
    BY <1>0, <1>4, ReadFramesFacts
  <2> QED BY <2>1 DEF Within
<1>5. CASE ClientSends
  <2>1. /\ Len(script) \in Nat \ {0} /\ Len(inbox) \in Nat /\ Len(script') = Len(script) - 1
        /\ \A i \in 1 .. Len(script') : script'[i] = script[i + 1]
        /\ Len(inbox') = Len(inbox) + 1
        /\ \A i \in 1 .. Len(inbox) : inbox'[i] = inbox[i]
        /\ inbox'[Len(inbox) + 1] = script[1]
        /\ UNCHANGED events
    BY <1>0, <1>5, ClientSendsFacts
  <2>2. /\ \A i \in 1 .. Len(script') : i + 1 \in 1 .. Len(script)
        /\ 1 \in 1 .. Len(script)
        /\ \A i \in 1 .. Len(inbox') : i \in 1 .. Len(inbox) \/ i = Len(inbox) + 1
    BY <2>1
  <2> QED BY <2>1, <2>2 DEF Within
<1> QED BY <1>1, <1>2, <1>3, <1>4, <1>5 DEF QueueStep

LEMMA NeverTerminated == ASSUME Calm, ~terminated, [Next]_vars PROVE ~terminated'
<1>1. CASE ReaderStep
  <2>1. CASE CreateStream
    BY <2>1 DEF CreateStream
  <2>2. CASE ReadFrames \/ ReadEnds \/ ReadError \/ RefuseRequest \/ BodyReceived
             \/ PutBody \/ LateBody \/ StreamReset \/ WindowUpdated
    <3>1. UNCHANGED serverVars
      BY <2>2 DEF ReadFrames, ReadEnds, ReadError, RefuseRequest, BodyReceived,
         PutBody, LateBody, StreamReset, WindowUpdated
    <3> QED BY <3>1 DEF serverVars
  <2>3. CASE PriorityUpdated \/ NothingTold \/ ConnectionTerminated \/ EventsHandled
             \/ ReaderCloses \/ ReaderClosed \/ HandleClosed \/ Join \/ FinalClose
             \/ FinalClosed \/ WriteStep(Reader)
    BY <2>3 DEF PriorityUpdated, NothingTold, ConnectionTerminated, EventsHandled,
       ReaderCloses, ReaderClosed, HandleClosed, Join, FinalClose, FinalClosed, WriteStep,
       Flushed, FlushFails, PutLate, serverVars
  <2> QED BY <1>1, <2>1, <2>2, <2>3 DEF ReaderStep
<1>2. CASE SenderStep
  BY <1>2 DEF SenderStep, Serve, ServeData, ServeNothing, ServeEnd, ServeFails, ServeCrashes,
       EndStream, EndAfterData, TurnOver, Finished, WaitForData, HasData, SenderEnds,
       WriteStep, Flushed, FlushFails, PutLate, serverVars
<1>3. ASSUME NEW r \in Streams, StreamStep(r) PROVE ~terminated'
  BY <1>3 DEF StreamStep, Started, Resumed, EndResponse, EndBody, Drained, Finish,
     ErrorResponseEnd, StreamEnded, StreamLeft, LastStreamLeft, LastStreamTimer, WriteStep,
     Flushed, FlushFails, PutLate, serverVars
<1>4. ASSUME NEW r \in Streams, AppStep(r) PROVE ~terminated'
  BY <1>4 DEF AppStep, Receive, SendStart, Return, SendBody, SendFlush, EndResponse,
     EndBody, EndWithHeaders, serverVars
<1>5. CASE Environment
  BY <1>5 DEF Environment, Abort, ReadTimeout, IdleTimeout, Terminate, ClientSends, ClientEof,
     ConnectionLost, serverVars, Calm
<1>6. CASE UNCHANGED vars
  BY <1>6 DEF vars, serverVars
<1> QED BY <1>1, <1>2, <1>3, <1>4, <1>5, <1>6 DEF Next

\* What the tree holds, and what it may return: only a new stream and a PRIORITY
\* insert a stream, only a stream that is in it is unblocked.
TreeStep ==
  /\ \A s \in Streams : s \in tree' => s \in tree /\ (buf[s].live => buf'[s].live)
  /\ \A s \in Streams : s \in ready' => s \in ready \/ buf[s].live \/ Spawned(s)

LEMMA QuietTree ==
  ASSUME UNCHANGED <<tree, ready>>, \A s \in Streams : buf[s].live => buf'[s].live
  PROVE  TreeStep
BY DEF TreeStep

LEMMA ReaderTree ==
  ASSUME TypeInv, ReaderStep, ~CreateStream, ~PriorityUpdated
  PROVE  TreeStep
<1>1. UNCHANGED buf
  BY ReaderBuffers
<1>2. CASE WindowUpdated
  BY <1>1, <1>2 DEF WindowUpdated, Updated, TreeStep
<1>3. CASE ~WindowUpdated
  <2>1. UNCHANGED <<tree, ready>>
    BY <1>3 DEF ReaderStep, ReadFrames, ReadError, ReadEnds, RefuseRequest, BodyReceived,
       LateBody, PutBody, StreamReset, NothingTold, ConnectionTerminated, EventsHandled,
       ReaderCloses, ReaderClosed, HandleClosed, Join, FinalClose, FinalClosed, WriteStep,
       Flushed, FlushFails, PutLate, sendVars
  <2> QED BY <1>1, <2>1, QuietTree
<1> QED BY <1>2, <1>3

LEMMA SenderTree ==
  ASSUME TypeInv, SenderStep
  PROVE  TreeStep
<1>0. TypeOK /\ buf \in [Streams -> Buffers] /\ ready \subseteq tree
  BY DEF TypeInv, TypeOK
<1>1. ASSUME NEW r \in Streams, NEW b, buf' = [buf EXCEPT ![r] = b],
             \/ b.live = buf[r].live /\ tree' = tree
             \/ tree' = tree \ {r},
             ready' \subseteq ready
      PROVE  TreeStep
  BY <1>0, <1>1 DEF TreeStep
<1>2. ASSUME NEW r \in Streams, NEW n \in {0, ToPop(r)}, buf' = [buf EXCEPT ![r] = Popped(r, n)],
             tree' = tree, ready' \subseteq ready
      PROVE  TreeStep
  <2>1. n \in Nat /\ n <= Len(buf[r].data)
    BY <1>0, <1>2, PopFacts, LenProperties DEF Buffers
  <2>2. Popped(r, n).live = buf[r].live
    BY <1>0, <2>1, PoppedFacts
  <2> QED BY <1>1, <1>2, <2>2
<1>3. ASSUME NEW r \in Streams, Serve(r) PROVE TreeStep
  <2>1. CASE ServeData(r) \/ ServeNothing(r) \/ ServeEnd(r)
    BY <1>2, <2>1 DEF ServeData, ServeNothing, ServeEnd, EndStream
  <2>2. CASE ServeFails(r)
    BY <1>0, <1>1, <2>2 DEF ServeFails, ForceClose
  <2>3. CASE ServeCrashes(r)
    BY <2>3, QuietTree DEF ServeCrashes, sendVars
  <2> QED BY <1>3, <2>1, <2>2, <2>3 DEF Serve
<1>4. CASE Finished
  <2> DEFINE b == [buf[serving] EXCEPT !.live = FALSE]
  <2>1. serving \in Streams
    BY <1>4, ServedFacts DEF Finished, At
  <2>2. buf' = [buf EXCEPT ![serving] = b] /\ tree' = tree \ {serving} /\ ready' \subseteq ready
    BY <1>0, <1>4, <2>1, FieldFacts DEF Finished
  <2> HIDE DEF b
  <2> QED BY <1>1, <2>1, <2>2
<1>5. CASE EndAfterData \/ TurnOver \/ WaitForData \/ HasData \/ SenderEnds \/ WriteStep(Sender)
  BY <1>5, QuietTree DEF EndAfterData, EndStream, TurnOver, WaitForData, HasData, SenderEnds,
     WriteStep, Flushed, FlushFails, PutLate, sendVars
<1> QED BY <1>3, <1>4, <1>5 DEF SenderStep

LEMMA AppTree ==
  ASSUME TypeInv, NEW r \in Streams, StreamStep(r) \/ AppStep(r)
  PROVE  TreeStep
<1>1. \A s \in Streams : buf'[s].live <=> buf[s].live
  BY AppBuffers
<1>2. tree' = tree /\ (UNCHANGED ready \/ Unblock(r))
  BY DEF StreamStep, Started, Resumed, EndResponse, EndBody, Drained, Finish,
     ErrorResponseEnd, StreamEnded, StreamLeft, LastStreamLeft, LastStreamTimer, WriteStep,
     Flushed, FlushFails, PutLate, AppStep, Receive, SendStart, Return, SendBody, SendFlush,
     EndWithHeaders, sendVars
<1>3. Unblock(r) => UNCHANGED ready \/ Spawned(r)
  <2>1. CASE WriteStep(r)
    BY <2>1 DEF WriteStep, Flushed, FlushFails, PutLate, sendVars
  <2> QED BY <2>1, AppSpawns
<1> QED BY <1>1, <1>2, <1>3 DEF TreeStep, Unblock

LEMMA Trees ==
  ASSUME TypeInv, [Next]_vars
  PROVE  CreateStream \/ PriorityUpdated \/ TreeStep
<1>1. CASE UNCHANGED vars
  BY <1>1, QuietTree DEF vars, sendVars
<1>2. CASE Environment
  BY <1>2, EnvironmentBuffers, QuietTree
<1> QED BY <1>1, <1>2, ReaderTree, SenderTree, AppTree DEF Next

\* A task fails when h2 refuses to reset a stream, when a part of a body comes
\* late, and when the sender is given a stream that has no buffer.
LEMMA ReaderFails ==
  ASSUME TypeInv, ReaderStep, NoTaskFails, ~terminated, Within(Bodiless)
  PROVE  NoTaskFails'
<1>0. TypeOK
  BY DEF TypeInv
<1>1. pc[Reader] # "raised" /\ \A s \in Streams : pc[s] # "raised"
  BY TaskFacts DEF NoTaskFails
<1>2. ~RefuseRequest
  BY DEF RefuseRequest
<1>3. LateBody => Handle("end")
  <2>1. ASSUME Handle("data") PROVE FALSE
    <3>1. events # <<>> /\ Head(events)[1] = "data"
      BY <2>1 DEF Handle
    <3>2. Head(events) = events[1] /\ Len(events) \in Nat \ {0}
      BY <1>0, <3>1, EventFacts
    <3>3. events[1] \in Bodiless
      BY <3>2 DEF Within
    <3> QED BY <3>1, <3>2, <3>3 DEF Bodiless
  <2> QED BY <2>1 DEF LateBody
<1>4. pc'[Reader] # "raised"
  <2>1. ASSUME NEW l \in ReaderPC \ {"raised"}, Goto(Reader, l) PROVE pc'[Reader] # "raised"
    BY <1>0, <2>1, GotoType, TaskFacts
  <2>2. ASSUME UNCHANGED pc PROVE pc'[Reader] # "raised"
    BY <1>1, <2>2
  <2>3. /\ {"events", "close", "closed", "putBody", "window", "waitClosed", "join",
            "finalClose", "finalWait", "stopped"} \subseteq ReaderPC \ {"raised"}
        /\ NextRead \in ReaderPC \ {"raised"} /\ AfterClosing \in ReaderPC \ {"raised"}
    BY NextReads DEF ReaderPC
  <2>4. CASE BodyReceived \/ LateBody \/ PutBody \/ StreamReset
    <3>1. Handle("end") => ~Handle("data")
      BY DEF Handle
    <3> QED BY <1>3, <2>1, <2>2, <2>3, <2>4, <3>1 DEF BodyReceived, LateBody, PutBody, StreamReset
  <2>5. CASE CreateStream
    BY <1>1, <2>5, CreateFacts, TaskFacts
  <2>6. CASE WindowUpdated \/ PriorityUpdated \/ NothingTold \/ ReaderClosed \/ ReadFrames
             \/ ReadError
    BY <2>1, <2>2, <2>3, <2>6
    DEF WindowUpdated, PriorityUpdated, NothingTold, ReaderClosed, ReadFrames, ReadError, Flush
  <2>7. CASE ReadEnds \/ ConnectionTerminated \/ EventsHandled \/ ReaderCloses
    BY <2>1, <2>3, <2>7 DEF ReadEnds, ConnectionTerminated, EventsHandled, ReaderCloses, Flush
  <2>8. CASE HandleClosed \/ Join \/ FinalClose \/ FinalClosed \/ WriteStep(Reader)
    BY <2>1, <2>2, <2>3, <2>8, WriteType, TaskFacts
    DEF HandleClosed, Join, FinalClose, FinalClosed
  <2> QED BY <1>2, <2>4, <2>5, <2>6, <2>7, <2>8 DEF ReaderStep
<1>5. pc'[Sender] = pc[Sender]
  BY ReaderMoves
<1>6. \A s \in Streams : pc'[s] # "raised"
  <2>1. CASE CreateStream
    BY <1>1, <2>1, CreateFacts, TaskFacts
  <2> QED BY <1>1, <2>1, ReaderSpawns
<1> QED BY <1>4, <1>5, <1>6, TaskFacts DEF NoTaskFails

LEMMA SenderFails ==
  ASSUME TypeInv, SenderStep, NoTaskFails, ReadyHasBuffer
  PROVE  NoTaskFails'
<1>0. TypeOK
  BY DEF TypeInv
<1>1. \A s \in Streams : ~ServeCrashes(s)
  BY DEF ServeCrashes, Serving, ReadyHasBuffer
<1>2. ASSUME NEW l \in SenderPC \ {"raised"}, Goto(Sender, l) PROVE NoTaskFails'
  <2>1. pc'[Sender] = l /\ \A u \in Tasks \ {Sender} : pc'[u] = pc[u]
    BY <1>0, <1>2, GotoType, TaskFacts
  <2> QED BY <2>1 DEF NoTaskFails
<1>3. ASSUME UNCHANGED pc PROVE NoTaskFails'
  BY <1>3 DEF NoTaskFails
<1>4. {"loop", "wait", "sent", "finished", "done"} \subseteq SenderPC \ {"raised"}
  BY DEF SenderPC
<1>5. ASSUME NEW s \in Streams, Serve(s) PROVE NoTaskFails'
  BY <1>1, <1>2, <1>3, <1>4, <1>5
  DEF Serve, ServeData, ServeNothing, ServeEnd, ServeFails, EndStream, Flush
<1>6. CASE WriteStep(Sender)
  BY <1>3, <1>6, WriteType, TaskFacts
<1>7. CASE EndAfterData \/ TurnOver \/ Finished \/ WaitForData \/ HasData \/ SenderEnds
  BY <1>2, <1>4, <1>7
  DEF EndAfterData, EndStream, TurnOver, Finished, WaitForData, HasData, SenderEnds, Flush
<1> QED BY <1>5, <1>6, <1>7 DEF SenderStep

LEMMA Fails ==
  ASSUME TypeInv, TypeInv', [Next]_vars, NoTaskFails, ReadyHasBuffer, ~terminated, Within(Bodiless)
  PROVE  NoTaskFails'
<1>1. ASSUME UNCHANGED pc PROVE NoTaskFails'
  BY <1>1 DEF NoTaskFails
<1>2. ASSUME NEW r \in Streams, StreamStep(r) \/ AppStep(r) PROVE NoTaskFails'
  <2>1. \A u \in Tasks \ {r} : pc'[u] = pc[u]
    BY <1>2, AppSpawns
  <2>2. pc'[r] \in AppPC
    BY DEF TypeInv, TypeOK
  <2>3. pc'[r] # "raised"
    BY <2>2 DEF AppPC
  <2> QED BY <2>1, <2>3 DEF NoTaskFails
<1>3. CASE Environment
  <2>1. ~Abort
    BY DEF Abort, At, NoTaskFails
  <2>2. CASE ReadTimeout
    <3>1. Goto(Reader, "closed") /\ "closed" \in ReaderPC
      BY <2>2 DEF ReadTimeout, ReaderPC
    <3>2. pc'[Reader] = "closed" /\ \A u \in Tasks \ {Reader} : pc'[u] = pc[u]
      BY <3>1, GotoType, TaskFacts DEF TypeInv
    <3> QED BY <3>2 DEF NoTaskFails
  <2>3. CASE IdleTimeout \/ Terminate \/ ClientSends \/ ClientEof \/ ConnectionLost
    BY <1>1, <2>3 DEF IdleTimeout, Terminate, ClientSends, ClientEof, ConnectionLost
  <2> QED BY <1>3, <2>1, <2>2, <2>3 DEF Environment
<1>4. CASE UNCHANGED vars
  BY <1>1, <1>4 DEF vars
<1> QED BY <1>2, <1>3, <1>4, ReaderFails, SenderFails DEF Next

LEMMA SurviveInit == ASSUME Calm, Init PROVE SurviveInv
<1>1. /\ Len(inbox) = 0 /\ Len(events) = 0 /\ script \in Seq(Frames) /\ script \in Scripts
  BY H2Assumption, EmptySeq DEF Init
<1>2. \A i \in 1 .. Len(script) : script[i] \in Events /\ script[i] \in Bodiless
  BY <1>1, LenProperties, ElementOfSeq DEF Events, Calm
<1>3. Ordered(CalmPairs) /\ Within(Bodiless)
  BY <1>1, <1>2 DEF Ordered, Within, Calm
<1>4. \A s \in Streams : ~Spawned(s)
  BY TaskFacts DEF Init, Spawned
<1>5. TasksSurvive /\ ~terminated /\ ready = {}
  BY TaskFacts DEF Init, TasksSurvive, ReadyHasBuffer, NoTaskFails
<1> QED BY <1>3, <1>4, <1>5 DEF SurviveInv

LEMMA SurviveKept ==
  ASSUME Calm, TypeInv, TypeInv', BufferInv, SurviveInv, [Next]_vars
  PROVE  SurviveInv'
<1>0. TypeOK /\ TypeOK' /\ QueueStep
  BY Queues DEF TypeInv
<1>1. NoEvent \in Bodiless /\ \A s \in Streams : NoEvent \in Events \ {<<"priority", s>>}
  BY DEF NoEvent, Bodiless, Events
<1>2. Ordered(CalmPairs)' /\ Within(Bodiless)' /\ ~terminated'
  BY <1>0, <1>1, CalmNothing, OrderedStep, WithinStep, NeverTerminated DEF SurviveInv
<1>3. NoTaskFails'
  BY Fails DEF SurviveInv, TasksSurvive
<1>4. \A s \in Streams : Within(Events \ {<<"priority", s>>}) => Within(Events \ {<<"priority", s>>})'
  BY <1>0, <1>1, WithinStep
<1>5. CASE CreateStream
  <2>0. PICK r \in Streams : r = EventStream
    BY <1>5, CreateFacts
  <2>1. /\ pc'[r] = "run" /\ \A t \in Tasks \ {r} : pc'[t] = pc[t]
        /\ tree' = tree \cup {r} /\ buf' = [buf EXCEPT ![r] = NewBuffer] /\ UNCHANGED ready
    BY <1>5, <2>0, CreateFacts DEF CreateStream
  <2>2. /\ Len(events) \in Nat \ {0} /\ events[1] = <<"headers", r>>
        /\ Len(events') = Len(events) - 1
        /\ \A i \in 1 .. Len(events') : events'[i] = events[i + 1]
        /\ UNCHANGED <<inbox, script>>
    BY <1>5, <2>0, RequestFacts
  <2>3. buf'[r].live /\ \A s \in Streams \ {r} : buf'[s] = buf[s]
    BY <1>0, <2>1 DEF NewBuffer, TypeOK
  <2>4. Spawned(r)' /\ \A s \in Streams \ {r} : Spawned(s)' <=> Spawned(s)
    BY <2>1, TaskFacts DEF Spawned
  <2>5. Within(Events \ {<<"priority", r>>})'
    <3>1. /\ \A i \in 2 .. Len(events) : <<events[1], events[i]>> \in CalmPairs
          /\ \A i \in 1 .. Len(inbox) : <<events[1], inbox[i]>> \in CalmPairs
          /\ \A i \in 1 .. Len(script) : <<events[1], script[i]>> \in CalmPairs
      <4>1. 1 \in 1 .. Len(events) /\ \A i \in 2 .. Len(events) : 1 < i /\ i \in 1 .. Len(events)
        BY <2>2
      <4> QED BY <4>1 DEF SurviveInv, Ordered
    <3>2. ASSUME NEW f, <<events[1], f>> \in CalmPairs PROVE f \in Events \ {<<"priority", r>>}
      <4>1. f \in Events
        BY <3>2 DEF CalmPairs
      <4> QED BY <2>1, <2>2, <3>2, <4>1, CalmAfter
    <3>3. \A i \in 1 .. Len(events') : i + 1 \in 2 .. Len(events)
      BY <2>2
    <3>4. \A i \in 1 .. Len(events') : events'[i] \in Events \ {<<"priority", r>>}
      BY <2>2, <3>1, <3>2, <3>3
    <3>5. /\ \A i \in 1 .. Len(inbox') : inbox'[i] \in Events \ {<<"priority", r>>}
          /\ \A i \in 1 .. Len(script') : script'[i] \in Events \ {<<"priority", r>>}
      BY <2>2, <3>1, <3>2
    <3> QED BY <3>4, <3>5 DEF Within
  <2>6. ASSUME NEW s \in Streams, Spawned(s)'
        PROVE  (s \in tree' => buf'[s].live) /\ Within(Events \ {<<"priority", s>>})'
    <3>1. CASE s = r
      BY <2>3, <2>5, <3>1
    <3>2. CASE s # r
      <4>1. Spawned(s) /\ buf'[s] = buf[s] /\ (s \in tree' => s \in tree)
        BY <2>1, <2>3, <2>4, <2>6, <3>2
      <4>2. (s \in tree => buf[s].live) /\ Within(Events \ {<<"priority", s>>})
        BY <4>1 DEF SurviveInv
      <4>3. Within(Events \ {<<"priority", s>>})'
        BY <1>4, <4>2
      <4> QED BY <4>1, <4>2, <4>3
    <3> QED BY <3>1, <3>2
  <2>7. \A s \in ready' : Spawned(s)' /\ buf'[s].live
    <3>1. ready \subseteq Streams /\ \A s \in ready : Spawned(s) /\ buf[s].live
      BY <1>0 DEF SurviveInv, TasksSurvive, ReadyHasBuffer, TypeOK
    <3> QED BY <2>1, <2>3, <2>4, <3>1
  <2> QED BY <1>2, <1>3, <2>6, <2>7 DEF SurviveInv, TasksSurvive, ReadyHasBuffer
<1>6. CASE ~CreateStream
  <2>1. \A s \in Streams : Spawned(s)' <=> Spawned(s)
    BY <1>6, Spawns
  <2>2. \A s \in Streams : Spawned(s) /\ s \in tree' => buf'[s].live
    <3>1. CASE PriorityUpdated
      <4>1. Handle("priority") /\ tree' = tree \cup {EventStream} /\ UNCHANGED buf
        BY <3>1 DEF PriorityUpdated
      <4>2. /\ Head(events)[1] = "priority" /\ Head(events) \in Events /\ EventStream \in Streams
            /\ Head(events) = events[1] /\ Len(events) \in Nat \ {0}
        BY <1>0, <4>1, EventFacts DEF Handle
      <4>3. events[1] = <<"priority", EventStream>>
        <5>1. \A e \in Events : e = <<e[1], e[2]>>
          BY DEF Events, Frames, NoEvent
        <5> QED BY <4>2, <5>1 DEF EventStream
      <4>4. ~Within(Events \ {<<"priority", EventStream>>})
        <5>1. 1 \in 1 .. Len(events)
          BY <4>2
        <5> QED BY <4>3, <5>1 DEF Within
      <4>5. ~Spawned(EventStream)
        BY <4>2, <4>4 DEF SurviveInv
      <4> QED BY <4>1, <4>5 DEF SurviveInv
    <3>2. CASE TreeStep
      BY <3>2 DEF TreeStep, SurviveInv
    <3> QED BY <1>6, <3>1, <3>2, Trees
  <2>3. \A s \in ready' : Spawned(s)
    <3>1. CASE PriorityUpdated
      BY <3>1 DEF PriorityUpdated, SurviveInv
    <3>2. CASE TreeStep
      BY <1>0, <3>2 DEF TreeStep, SurviveInv, BufferInv, TypeOK
    <3> QED BY <1>6, <3>1, <3>2, Trees
  <2>4. ready' \subseteq tree' /\ tree' \subseteq Streams
    BY <1>0 DEF TypeOK
  <2>5. ReadyHasBuffer'
    BY <2>2, <2>3, <2>4 DEF ReadyHasBuffer
  <2>6. \A s \in Streams : Spawned(s)' =>
          (s \in tree' => buf'[s].live) /\ Within(Events \ {<<"priority", s>>})'
    BY <1>4, <2>1, <2>2 DEF SurviveInv
  <2> QED BY <1>2, <1>3, <2>1, <2>3, <2>4, <2>5, <2>6 DEF SurviveInv, TasksSurvive
<1> QED BY <1>5, <1>6

\* Closing a stream takes no task along: while the worker is not shut down and
\* the client sends neither a body nor a PRIORITY for a stream it has opened,
\* the sender (H2Protocol._send_data) is never given a stream whose buffer is
\* gone, and neither it nor the reader (H2Protocol._handle_events) raises.
THEOREM SurviveCorrect == ASSUME Calm PROVE Spec => []TasksSurvive
<1> DEFINE Inv == TypeInv /\ BufferInv /\ SurviveInv
<1>1. Init => Inv
  <2>1. Init => BufferInv
    BY DEF Init, BufferInv, NewBuffer
  <2> QED BY <2>1, TypeInit, SurviveInit
<1>2. Inv /\ [Next]_vars => Inv'
  BY TypeStep, BufferKept, SurviveKept
<1>3. Inv => TasksSurvive
  BY DEF SurviveInv
<1> QED BY <1>1, <1>2, <1>3, PTL DEF Spec

----------------------------------------------------------------------------
(* The responses: where each application is with its own.                  *)

\* Only the applications and a cancellation change this.
LEMMA AppVarsKept ==
  ASSUME ReaderStep \/ SenderStep \/ (Environment /\ ~Abort)
  PROVE  UNCHANGED appVars
<1>1. CASE ReaderStep
  BY <1>1 DEF ReaderStep, ReadFrames, ReadError, ReadEnds, RefuseRequest, CreateStream,
     BodyReceived, LateBody, PutBody, StreamReset, WindowUpdated, PriorityUpdated,
     NothingTold, ConnectionTerminated, EventsHandled, ReaderCloses, ReaderClosed,
     HandleClosed, Join, FinalClose, FinalClosed, WriteStep, Flushed, FlushFails, PutLate
<1>2. CASE SenderStep
  BY <1>2 DEF SenderStep, Serve, ServeData, ServeNothing, ServeEnd, ServeFails, ServeCrashes,
     EndStream, EndAfterData, TurnOver, Finished, WaitForData, HasData, SenderEnds,
     WriteStep, Flushed, FlushFails, PutLate
<1>3. CASE Environment /\ ~Abort
  BY <1>3 DEF Environment, ReadTimeout, IdleTimeout, Terminate, ClientSends, ClientEof,
     ConnectionLost
<1> QED BY <1>1, <1>2, <1>3

AppProgress == AppInv' /\ \A s \in Streams : AppEnded(s) => AppEnded(s)'

LEMMA QuietProgress ==
  ASSUME AppInv, UNCHANGED appVars, \A s \in Streams : pc'[s] = pc[s]
  PROVE  AppProgress
BY DEF AppInv, AppProgress, AppEnded, Spawned, appVars

\* An application's step, to l.
LEMMA AppMoves ==
  ASSUME TypeInv, AppInv, NEW r \in Streams, Spawned(r), NEW l \in AppPC \ {"none"}, Goto(r, l),
         \/ UNCHANGED <<sstate, fin>>
         \/ UNCHANGED fin /\ sstate' = [sstate EXCEPT ![r] = "CLOSED"]
         \/ UNCHANGED fin /\ sstate[r] # "CLOSED" /\ sstate' = [sstate EXCEPT ![r] = "RESPONSE"]
         \/ UNCHANGED sstate /\ fin' = [fin EXCEPT ![r] = TRUE],
         fin'[r] => l \in Finishing, l \in {"finish", "errEnd"} => fin'[r],
         l = "started" => sstate'[r] # "CLOSED"
  PROVE  AppProgress
<1>1. /\ sstate \in [Streams -> {"REQUEST", "RESPONSE", "CLOSED"}] /\ fin \in [Streams -> BOOLEAN]
      /\ TypeOK
  BY DEF TypeInv, TypeOK
<1>2. pc'[r] = l /\ \A u \in Tasks \ {r} : pc'[u] = pc[u]
  BY <1>1, GotoType, TaskFacts
<1>3. \A s \in Streams \ {r} : pc'[s] = pc[s] /\ sstate'[s] = sstate[s] /\ fin'[s] = fin[s]
  BY <1>1, <1>2, TaskFacts
<1>4. AppEnded(r) => AppEnded(r)'
  BY <1>1 DEF AppEnded
<1>5. \A s \in Streams \ {r} : (AppEnded(s)' <=> AppEnded(s)) /\ (Spawned(s)' <=> Spawned(s))
  BY <1>3 DEF AppEnded, Spawned
<1>6. Spawned(r)'
  BY <1>2 DEF Spawned
<1>7. ASSUME NEW s \in Streams
      PROVE  /\ ~Spawned(s)' => ~AppEnded(s)'
             /\ fin'[s] => pc'[s] \in Finishing
             /\ pc'[s] \in {"finish", "errEnd"} => fin'[s]
             /\ pc'[s] = "started" => sstate'[s] # "CLOSED"
  <2>1. CASE s = r
    BY <1>2, <1>6, <2>1
  <2>2. CASE s # r
    BY <1>3, <1>5, <2>2 DEF AppInv
  <2> QED BY <2>1, <2>2
<1> QED BY <1>4, <1>5, <1>7 DEF AppInv, AppProgress

LEMMA AppProgresses ==
  ASSUME TypeInv, AppInv, NEW r \in Streams, StreamStep(r) \/ AppStep(r)
  PROVE  AppProgress
<1>0. TypeOK /\ r \in Tasks /\ fin \in [Streams -> BOOLEAN]
      /\ sstate \in [Streams -> {"REQUEST", "RESPONSE", "CLOSED"}]
  BY TaskFacts DEF TypeInv, TypeOK
<1>1. /\ fin[r] => pc[r] \in Finishing
      /\ pc[r] \in {"finish", "errEnd"} => fin[r]
      /\ pc[r] = "started" => sstate[r] # "CLOSED"
  BY DEF AppInv
<1>2. /\ {"run", "started", "push", "pushLast", "bodyEnd", "drain", "errEnd", "ended",
          "left", "update", "finish", "done"} \subseteq AppPC \ {"none"}
      /\ {"run", "started", "push", "pushLast", "bodyEnd"} \cap Finishing = {}
      /\ {"drain", "errEnd", "ended", "left", "update", "finish", "done"} \subseteq Finishing
  BY DEF AppPC, Finishing
<1>3. CASE WriteStep(r)
  <2>1. UNCHANGED appVars /\ UNCHANGED pc
    BY <1>0, <1>3, WriteType DEF WriteStep, Flushed, FlushFails, PutLate
  <2> QED BY <2>1, QuietProgress
<1>4. CASE Started(r)
  <2>1. /\ Spawned(r) /\ Goto(r, "run") /\ UNCHANGED fin /\ sstate[r] # "CLOSED"
        /\ sstate' = [sstate EXCEPT ![r] = "RESPONSE"] /\ ~fin[r]
    BY <1>1, <1>2, <1>4 DEF Started, At, Spawned
  <2> QED BY <1>2, <2>1, AppMoves
<1>5. CASE Resumed(r)
  <2>1. /\ Spawned(r) /\ \E l \in {"run", "bodyEnd"} : Goto(r, l)
        /\ UNCHANGED <<sstate, fin>> /\ ~fin[r]
    BY <1>1, <1>2, <1>5 DEF Resumed, At, Spawned, appVars
  <2> QED BY <1>2, <2>1, AppMoves
<1>6. CASE EndResponse(r)
  <2>1. /\ Spawned(r) /\ \E l \in {"drain", "ended"} : Goto(r, l)
        /\ UNCHANGED fin /\ sstate' = [sstate EXCEPT ![r] = "CLOSED"]
    BY <1>1, <1>2, <1>6 DEF EndResponse, EndBody, At, MayRespond, Spawned
  <2>2. "drain" \in Finishing /\ "ended" \in Finishing
    BY <1>2
  <2> QED BY <1>2, <2>1, <2>2, AppMoves
<1>7. CASE Drained(r) \/ ErrorResponseEnd(r) \/ StreamEnded(r)
  <2>1. /\ Spawned(r) /\ \E l \in {"drain", "ended", "left"} : Goto(r, l)
        /\ UNCHANGED <<sstate, fin>>
    BY <1>1, <1>2, <1>7
    DEF Drained, ErrorResponseEnd, StreamEnded, EndBody, At, Spawned, appVars
  <2>2. "drain" \in Finishing /\ "ended" \in Finishing /\ "left" \in Finishing
    BY <1>2
  <2> QED BY <1>2, <2>1, <2>2, AppMoves
<1>8. CASE Finish(r)
  <2>1. /\ Spawned(r) /\ \E l \in {"errEnd", "ended", "done"} : Goto(r, l)
        /\ UNCHANGED <<sstate, fin>> /\ fin[r]
    BY <1>1, <1>2, <1>8 DEF Finish, SendHeaders, Flush, At, Spawned, appVars
  <2>2. "errEnd" \in Finishing /\ "ended" \in Finishing /\ "done" \in Finishing
    BY <1>2
  <2> QED BY <1>2, <2>1, <2>2, AppMoves
<1>9. CASE StreamLeft(r) \/ LastStreamLeft(r) \/ LastStreamTimer(r)
  <2>1. /\ Spawned(r) /\ UNCHANGED <<sstate, fin>>
        /\ Goto(r, "update") \/ (Goto(r, "run") /\ ~fin[r]) \/ Goto(r, "done")
    BY <1>9 DEF StreamLeft, LastStreamLeft, LastStreamTimer, Back, Flush, At, Spawned, appVars
  <2>2. "update" \in Finishing /\ "done" \in Finishing
    BY <1>2
  <2> QED BY <1>2, <2>1, <2>2, AppMoves
<1>10. CASE AppStep(r)
  <2>0. pc[r] = "run" \/ pc[r] = "bodyEnd"
    BY <1>10 DEF AppStep, Receive, SendStart, Return, SendBody, SendFlush, EndResponse,
       EndWithHeaders, MayStart, MayRespond, At
  <2>1. Spawned(r) /\ ~fin[r]
    BY <1>1, <1>2, <2>0 DEF Spawned
  <2>2. CASE Receive(r)
    BY <2>2, QuietProgress DEF Receive
  <2>3. CASE SendStart(r)
    <3>1. Goto(r, "started") /\ UNCHANGED <<sstate, fin>> /\ sstate[r] # "CLOSED"
      BY <2>3 DEF SendStart, MayStart, SendHeaders, Flush, appVars
    <3> QED BY <1>2, <2>1, <3>1, AppMoves
  <2>4. CASE Return(r)
    <3>1. Goto(r, "finish") /\ UNCHANGED sstate /\ fin' = [fin EXCEPT ![r] = TRUE] /\ fin'[r]
      BY <1>0, <2>4 DEF Return
    <3>2. "finish" \in Finishing
      BY <1>2
    <3> QED BY <1>2, <2>1, <3>1, <3>2, AppMoves
  <2>5. ASSUME NEW n \in ChunkSizes, NEW last \in BOOLEAN, SendBody(r, n, last) \/ SendFlush(r, n)
        PROVE  AppProgress
    <3>1. /\ \E l \in {"run", "bodyEnd", "push", "pushLast"} : Goto(r, l)
          /\ UNCHANGED <<sstate, fin>>
      BY <2>5 DEF SendBody, SendFlush, Flush
    <3> QED BY <1>2, <2>1, <3>1, AppMoves
  <2>6. CASE EndWithHeaders(r)
    <3>1. Goto(r, "ended") /\ UNCHANGED fin /\ sstate' = [sstate EXCEPT ![r] = "CLOSED"]
      BY <2>6 DEF EndWithHeaders, SendHeaders, Flush
    <3>2. "ended" \in Finishing
      BY <1>2
    <3> QED BY <1>2, <2>1, <3>1, <3>2, AppMoves
  <2>7. ASSUME NEW n \in ChunkSizes, SendFlush(r, n) PROVE AppProgress
    BY <2>5, <2>7
  <2> QED BY <1>6, <1>10, <2>2, <2>3, <2>4, <2>5, <2>6, <2>7 DEF AppStep
<1> QED BY <1>3, <1>4, <1>5, <1>6, <1>7, <1>8, <1>9, <1>10 DEF StreamStep

\* A stream is created once.
LEMMA NewStream == ASSUME TypeInv, OpenedOnce, CreateStream PROVE ~Spawned(EventStream)
<1>1. /\ Len(events) \in Nat \ {0} /\ events[1] = <<"headers", EventStream>>
      /\ EventStream \in Streams
  BY RequestFacts
<1>2. 1 \in 1 .. Len(events)
  BY <1>1
<1> QED BY <1>1, <1>2 DEF OpenedOnce, Coming

LEMMA Progress == ASSUME TypeInv, OpenedOnce, AppInv, [Next]_vars PROVE AppProgress
<1>1. CASE ReaderStep \/ SenderStep
  <2>1. UNCHANGED appVars
    BY <1>1, AppVarsKept
  <2>2. CASE CreateStream
    <3>1. PICK r \in Streams : r = EventStream
      BY <2>2, CreateFacts
    <3>2. pc'[r] = "run" /\ \A s \in Streams \ {r} : pc'[s] = pc[s]
      BY <2>2, <3>1, CreateFacts, TaskFacts
    <3>3. pc[r] = "none"
      BY <2>2, <3>1, NewStream DEF Spawned
    <3> QED BY <2>1, <3>2, <3>3 DEF AppInv, AppProgress, AppEnded, Spawned, appVars, Finishing
  <2>3. CASE ~CreateStream
    <3>1. \A s \in Streams : pc'[s] = pc[s]
      BY <1>1, <2>3, ReaderSpawns, SenderSpawns
    <3> QED BY <2>1, <3>1, QuietProgress
  <2> QED BY <2>2, <2>3
<1>2. CASE Environment
  <2>1. CASE Abort
    <3>1. /\ \A s \in Streams : pc'[s] = Cancelled(s)
          /\ \A s \in Streams : fin'[s] = (fin[s] \/ Cancelled(s) = "finish")
          /\ UNCHANGED sstate
      BY <2>1, AbortFacts DEF Abort
    <3>2. ASSUME NEW s \in Streams
          PROVE  /\ Cancelled(s) \in {pc[s], "done", "finish"}
                 /\ Cancelled(s) = pc[s] => pc[s] \in {"none", "raised", "done", "finish"}
                 /\ pc[s] = "none" => Cancelled(s) = "none"
                 /\ fin[s] => Cancelled(s) \in {pc[s], "done"}
                 /\ pc[s] = "finish" => Cancelled(s) = "done"
      BY <3>2, TaskFacts DEF Cancelled, AppInv
    <3> QED BY <3>1, <3>2 DEF AppInv, AppProgress, AppEnded, Spawned, Finishing
  <2>2. CASE ReadTimeout
    <3>1. Goto(Reader, "closed") /\ "closed" \in ReaderPC
      BY <2>2 DEF ReadTimeout, ReaderPC
    <3>2. \A s \in Streams : pc'[s] = pc[s]
      BY <3>1, GotoType, TaskFacts DEF TypeInv
    <3> QED BY <2>2, <3>2, QuietProgress DEF ReadTimeout
  <2>3. CASE IdleTimeout \/ Terminate \/ ClientSends \/ ClientEof \/ ConnectionLost
    <3>1. UNCHANGED pc /\ UNCHANGED appVars
      BY <2>3 DEF IdleTimeout, Terminate, ClientSends, ClientEof, ConnectionLost
    <3> QED BY <3>1, QuietProgress
  <2> QED BY <1>2, <2>1, <2>2, <2>3 DEF Environment
<1>3. CASE UNCHANGED vars
  BY <1>3, QuietProgress DEF vars
<1> QED BY <1>1, <1>2, <1>3, AppProgresses DEF Next

----------------------------------------------------------------------------
(* The responses: their bodies.                                            *)

\* The units of a buffer that is kept stay what they are.
Still(s) ==
  buf'[s].live =>
    /\ buf[s].live
    /\ Len(buf'[s].data) = Len(buf[s].data)
    /\ \A i \in 1 .. Len(buf[s].data) : buf'[s].data[i] = buf[s].data[i]
    /\ buf'[s].complete => buf[s].complete \/ AppEnded(s)'
BodyStep ==
  \/ UNCHANGED <<made, sent>> /\ \A s \in Streams : Still(s)
  \/ \E s \in Streams : ServeData(s)
  \/ \E r \in Streams, n \in ChunkSizes, last \in BOOLEAN : SendBody(r, n, last)
  \/ CreateStream

LEMMA StillBuffers ==
  ASSUME TypeInv, UNCHANGED <<made, sent, buf>>
  PROVE  BodyStep
BY DEF BodyStep, Still

LEMMA StillBuffer ==
  ASSUME TypeInv, UNCHANGED <<made, sent>>, NEW r \in Streams, NEW b,
         buf' = [buf EXCEPT ![r] = b],
         b.live => /\ buf[r].live
                   /\ Len(b.data) = Len(buf[r].data)
                   /\ \A i \in 1 .. Len(buf[r].data) : b.data[i] = buf[r].data[i]
                   /\ b.complete => buf[r].complete \/ AppEnded(r)'
  PROVE  BodyStep
<1>1. buf \in [Streams -> Buffers]
  BY DEF TypeInv, TypeOK
<1>2. buf'[r] = b /\ \A s \in Streams \ {r} : buf'[s] = buf[s]
  BY <1>1
<1>3. ASSUME NEW s \in Streams PROVE Still(s)
  BY <1>2 DEF Still
<1> QED BY <1>3 DEF BodyStep

LEMMA SenderBodies == ASSUME TypeInv, SenderStep PROVE BodyStep
<1>0. TypeOK /\ buf \in [Streams -> Buffers]
  BY DEF TypeInv, TypeOK
<1>1. ASSUME NEW s \in Streams, buf' = [buf EXCEPT ![s] = Popped(s, 0)], UNCHANGED <<made, sent>>
      PROVE  BodyStep
  <2>1. 0 \in Nat /\ 0 <= Len(buf[s].data) /\ Len(buf[s].data) \in Nat
    BY <1>0, LenProperties DEF Buffers
  <2>2. /\ Popped(s, 0).complete = buf[s].complete /\ Popped(s, 0).live = buf[s].live
        /\ Len(Popped(s, 0).data) = Len(buf[s].data) - 0
        /\ \A i \in 1 .. Len(Popped(s, 0).data) : Popped(s, 0).data[i] = buf[s].data[0 + i]
    BY <1>0, <2>1, PoppedFacts
  <2>3. Len(Popped(s, 0).data) = Len(buf[s].data) /\ \A i \in 1 .. Len(buf[s].data) : 0 + i = i
    BY <2>1, <2>2
  <2>4. \A i \in 1 .. Len(buf[s].data) : Popped(s, 0).data[i] = buf[s].data[i]
    BY <2>2, <2>3
  <2> DEFINE b == Popped(s, 0)
  <2>5. /\ b.complete = buf[s].complete /\ b.live = buf[s].live
        /\ Len(b.data) = Len(buf[s].data)
        /\ \A i \in 1 .. Len(buf[s].data) : b.data[i] = buf[s].data[i]
        /\ buf' = [buf EXCEPT ![s] = b]
    BY <1>1, <2>2, <2>3, <2>4
  <2> HIDE DEF b
  <2> QED BY <1>1, <2>5, StillBuffer
<1>2. ASSUME NEW s \in Streams, Serve(s) PROVE BodyStep
  <2>1. CASE ServeData(s)
    BY <2>1 DEF BodyStep
  <2>2. CASE ServeNothing(s) \/ ServeEnd(s)
    BY <1>1, <2>2 DEF ServeNothing, ServeEnd, EndStream, h2Vars, appVars
  <2>3. CASE ServeFails(s)
    <3> DEFINE b == [data |-> <<>>, complete |-> TRUE, empty |-> TRUE,
                     paused |-> TRUE, live |-> FALSE]
    <3>1. buf' = [buf EXCEPT ![s] = b] /\ ~b.live /\ UNCHANGED <<made, sent>>
      BY <2>3 DEF ServeFails, ForceClose, h2Vars, appVars
    <3> HIDE DEF b
    <3> QED BY <3>1, StillBuffer
  <2>4. CASE ServeCrashes(s)
    BY <2>4, StillBuffers DEF ServeCrashes, sendVars, h2Vars, appVars
  <2> QED BY <1>2, <2>1, <2>2, <2>3, <2>4 DEF Serve
<1>3. CASE Finished
  <2> DEFINE b == [buf[serving] EXCEPT !.live = FALSE]
  <2>1. PICK s \in Streams : s = serving
    BY <1>3, ServedFacts DEF Finished, At
  <2>2. buf' = [buf EXCEPT ![s] = b] /\ ~b.live /\ UNCHANGED <<made, sent>>
    BY <1>0, <1>3, <2>1, FieldFacts DEF Finished, h2Vars, appVars
  <2> HIDE DEF b
  <2> QED BY <2>2, StillBuffer
<1>4. CASE EndAfterData \/ TurnOver \/ WaitForData \/ HasData \/ SenderEnds \/ WriteStep(Sender)
  BY <1>4, StillBuffers DEF EndAfterData, EndStream, TurnOver, WaitForData, HasData, SenderEnds,
     WriteStep, Flushed, FlushFails, PutLate, sendVars, h2Vars, appVars
<1> QED BY <1>2, <1>3, <1>4 DEF SenderStep

LEMMA EndBodies ==
  ASSUME TypeInv, NEW r \in Streams, EndBody(r), AppEnded(r)'
  PROVE  BodyStep
<1>1. UNCHANGED <<made, sent>> /\ buf[r] \in Buffers
  BY DEF EndBody, h2Vars, TypeInv, TypeOK
<1> DEFINE b == [buf[r] EXCEPT !.complete = TRUE]
<1>2. UNCHANGED buf \/ buf' = [buf EXCEPT ![r] = b]
  BY DEF EndBody
<1>3. b.live = buf[r].live /\ b.data = buf[r].data
  BY <1>1, FieldFacts
<1> HIDE DEF b
<1> QED BY <1>1, <1>2, <1>3, StillBuffer, StillBuffers

LEMMA AppBodies ==
  ASSUME Extensions = {}, TypeInv, AppInv, NEW r \in Streams, StreamStep(r) \/ AppStep(r)
  PROVE  BodyStep
<1>0. TypeOK /\ buf \in [Streams -> Buffers] /\ sstate \in [Streams -> {"REQUEST", "RESPONSE", "CLOSED"}]
  BY DEF TypeInv, TypeOK
<1>1. CASE EndResponse(r)
  <2>1. EndBody(r) /\ AppEnded(r)'
    BY <1>0, <1>1 DEF EndResponse, AppEnded
  <2> QED BY <2>1, EndBodies
<1>2. CASE ErrorResponseEnd(r)
  <2>1. EndBody(r) /\ AppEnded(r)'
    BY <1>2 DEF ErrorResponseEnd, AppEnded, At, AppInv, EndBody
  <2> QED BY <2>1, EndBodies
<1>3. CASE Resumed(r)
  <2> DEFINE b == [buf[r] EXCEPT !.paused = FALSE]
  <2>1. b.live = buf[r].live /\ b.data = buf[r].data /\ b.complete = buf[r].complete
    BY <1>0, FieldFacts
  <2>2. buf' = [buf EXCEPT ![r] = b] /\ UNCHANGED <<made, sent>>
    BY <1>3 DEF Resumed, h2Vars, appVars
  <2> HIDE DEF b
  <2> QED BY <2>1, <2>2, StillBuffer
<1>4. CASE Started(r) \/ Drained(r) \/ Finish(r) \/ StreamEnded(r) \/ StreamLeft(r)
           \/ LastStreamLeft(r) \/ LastStreamTimer(r) \/ WriteStep(r)
  BY <1>4, StillBuffers DEF Started, Drained, Finish, StreamEnded, StreamLeft, LastStreamLeft,
     LastStreamTimer, WriteStep, Flushed, FlushFails, PutLate, sendVars, h2Vars, appVars
<1>5. CASE Receive(r) \/ SendStart(r) \/ Return(r)
  BY <1>5, StillBuffers DEF Receive, SendStart, Return, sendVars, h2Vars, appVars
<1>6. ASSUME NEW n \in ChunkSizes, NEW last \in BOOLEAN, SendBody(r, n, last) PROVE BodyStep
  BY <1>6 DEF BodyStep
<1>7. ~EndWithHeaders(r) /\ \A n \in ChunkSizes : ~SendFlush(r, n)
  BY DEF EndWithHeaders, SendFlush
<1> QED BY <1>1, <1>2, <1>3, <1>4, <1>5, <1>6, <1>7 DEF StreamStep, AppStep

LEMMA Bodies == ASSUME Extensions = {}, TypeInv, AppInv, [Next]_vars PROVE BodyStep
<1>1. CASE ReaderStep /\ ~CreateStream
  <2>1. UNCHANGED buf /\ UNCHANGED appVars
    BY <1>1, ReaderBuffers, AppVarsKept
  <2>2. UNCHANGED sent
    BY <1>1 DEF ReaderStep, ReadFrames, ReadError, ReadEnds, RefuseRequest,
       BodyReceived, LateBody, PutBody, StreamReset, WindowUpdated, PriorityUpdated,
       NothingTold, ConnectionTerminated, EventsHandled, ReaderCloses, ReaderClosed,
       HandleClosed, Join, FinalClose, FinalClosed, WriteStep, Flushed, FlushFails, PutLate,
       h2Vars
  <2> QED BY <2>1, <2>2, StillBuffers DEF appVars
<1>2. CASE CreateStream
  BY <1>2 DEF BodyStep
<1>3. CASE Environment
  <2>1. UNCHANGED made
    BY <1>3, AppVarsKept DEF Abort, appVars
  <2> QED BY <1>3, <2>1, EnvironmentBuffers, StillBuffers DEF h2Vars
<1>4. CASE UNCHANGED vars
  BY <1>4, StillBuffers DEF vars, sendVars, h2Vars, appVars
<1> QED BY <1>1, <1>2, <1>3, <1>4, SenderBodies, AppBodies DEF Next

\* What may happen to the streams in h2: the end of one whose buffer is complete
\* and empty, or others are cut.
Cutting ==
  /\ UNCHANGED <<made, sent>> /\ (conn = "closed" => conn' = "closed")
  /\ \A s \in Streams : half'[s] = "ended" <=> half[s] = "ended"
  /\ \A s \in Streams : half[s] = "reset" => half'[s] = "reset"
Ending(s) ==
  /\ CanSend(s) /\ buf[s].live /\ Complete(s)
  /\ half' = [half EXCEPT ![s] = "ended"]
  /\ UNCHANGED <<made, sent, conn>>
LibraryStep ==
  \/ Cutting
  \/ \E s \in Streams : Ending(s)
  \/ \E s \in Streams : ServeData(s)
  \/ \E r \in Streams, n \in ChunkSizes, last \in BOOLEAN : SendBody(r, n, last)

LEMMA QuietLibrary ==
  ASSUME UNCHANGED <<made, sent, half>>, conn = "closed" => conn' = "closed"
  PROVE  LibraryStep
BY DEF LibraryStep, Cutting

LEMMA ReaderLibrary ==
  ASSUME TypeInv, OpenedOnce, AppInv, BodyInv, ReaderStep, conn = "closed" => conn' = "closed"
  PROVE  LibraryStep
<1>1. UNCHANGED appVars
  BY AppVarsKept
<1>2. UNCHANGED sent
  BY DEF ReaderStep, ReadFrames, ReadError, ReadEnds, RefuseRequest, CreateStream,
     BodyReceived, LateBody, PutBody, StreamReset, WindowUpdated, PriorityUpdated,
     NothingTold, ConnectionTerminated, EventsHandled, ReaderCloses, ReaderClosed,
     HandleClosed, Join, FinalClose, FinalClosed, WriteStep, Flushed, FlushFails, PutLate,
     h2Vars
<1>3. CASE ReadFrames
  <2>1. DOMAIN inbox = 1 .. Len(inbox)
    BY LenProperties DEF TypeInv, TypeOK
  <2>2. \A s \in Streams : Received("headers", s) => half[s] = "idle"
    BY <2>1 DEF Received, OpenedOnce, Unread
  <2>3. half' = [s \in Streams |->
          IF Received("reset", s) /\ half[s] # "ended" THEN "reset"
          ELSE IF Received("headers", s) THEN "open" ELSE half[s]]
    BY <1>3 DEF ReadFrames
  <2>4. ASSUME NEW s \in Streams
        PROVE  (half'[s] = "ended" <=> half[s] = "ended") /\ (half[s] = "reset" => half'[s] = "reset")
    BY <2>2, <2>3
  <2> QED BY <1>1, <1>2, <2>4 DEF LibraryStep, Cutting, appVars
<1>4. CASE RefuseRequest
  <2>1. PICK r \in Streams : r = EventStream /\ ~Spawned(r)
    <3>1. /\ Len(events) \in Nat \ {0} /\ events[1] = <<"headers", EventStream>>
          /\ EventStream \in Streams
      BY <1>4, RequestFacts
    <3>2. 1 \in 1 .. Len(events)
      BY <3>1
    <3> QED BY <3>1, <3>2 DEF OpenedOnce, Coming
  <2>2. half[r] # "ended"
    BY <2>1 DEF AppInv, BodyInv
  <2>3. half' = half \/ half' = [half EXCEPT ![r] = "reset"]
    BY <1>4, <2>1 DEF RefuseRequest
  <2>4. half \in [Streams -> {"idle", "open", "ended", "reset"}]
    BY DEF TypeInv, TypeOK
  <2> QED BY <1>1, <1>2, <2>2, <2>3, <2>4 DEF LibraryStep, Cutting, appVars
<1>5. CASE ~ReadFrames /\ ~RefuseRequest
  <2>1. UNCHANGED half
    BY <1>5 DEF ReaderStep, ReadError, ReadEnds, CreateStream, BodyReceived, LateBody, PutBody,
       StreamReset, WindowUpdated, PriorityUpdated, NothingTold, ConnectionTerminated,
       EventsHandled, ReaderCloses, ReaderClosed, HandleClosed, Join, FinalClose, FinalClosed,
       WriteStep, Flushed, FlushFails, PutLate, h2Vars
  <2> QED BY <1>1, <1>2, <2>1, QuietLibrary DEF appVars
<1> QED BY <1>3, <1>4, <1>5

LEMMA SenderLibrary ==
  ASSUME TypeInv, BodyInv, SenderStep
  PROVE  LibraryStep
<1>1. UNCHANGED appVars
  BY AppVarsKept
<1>2. ASSUME NEW s \in Streams, EndStream(s), buf[s].live, Complete(s) PROVE LibraryStep
  BY <1>1, <1>2 DEF EndStream, LibraryStep, Ending, appVars
<1>3. ASSUME NEW s \in Streams, Serve(s) PROVE LibraryStep
  <2>1. CASE ServeData(s)
    BY <2>1 DEF LibraryStep
  <2>2. CASE ServeEnd(s)
    BY <1>2, <2>2 DEF ServeEnd
  <2>3. CASE ServeNothing(s) \/ ServeFails(s) \/ ServeCrashes(s)
    BY <2>3, QuietLibrary DEF ServeNothing, ServeFails, ServeCrashes, h2Vars, appVars
  <2> QED BY <1>3, <2>1, <2>2, <2>3 DEF Serve
<1>4. CASE EndAfterData
  <2>1. PICK s \in Streams : s = serving
    BY <1>4, ServedFacts DEF EndAfterData, At
  <2>2. EndStream(s) /\ buf[s].live /\ Complete(s)
    BY <1>4, <2>1 DEF EndAfterData, At, BodyInv
  <2> QED BY <1>2, <2>2
<1>5. CASE TurnOver \/ Finished \/ WaitForData \/ HasData \/ SenderEnds \/ WriteStep(Sender)
  BY <1>5, QuietLibrary DEF TurnOver, Finished, WaitForData, HasData, SenderEnds, WriteStep,
     Flushed, FlushFails, PutLate, h2Vars, appVars
<1> QED BY <1>3, <1>4, <1>5 DEF SenderStep

LEMMA AppLibrary ==
  ASSUME Extensions = {}, NEW r \in Streams, StreamStep(r) \/ AppStep(r)
  PROVE  LibraryStep
<1>1. ASSUME NEW n \in ChunkSizes, NEW last \in BOOLEAN, SendBody(r, n, last) PROVE LibraryStep
  BY <1>1 DEF LibraryStep
<1>2. ~EndWithHeaders(r) /\ \A n \in ChunkSizes : ~SendFlush(r, n)
  BY DEF EndWithHeaders, SendFlush
<1>3. CASE LastStreamLeft(r)
  BY <1>3, QuietLibrary DEF LastStreamLeft, appVars
<1>4. CASE StreamStep(r) /\ ~LastStreamLeft(r)
  BY <1>4, QuietLibrary DEF StreamStep, Started, Resumed, EndResponse, EndBody, Drained, Finish,
     ErrorResponseEnd, StreamEnded, StreamLeft, LastStreamTimer, WriteStep, Flushed, FlushFails,
     PutLate, h2Vars, appVars
<1>5. CASE Receive(r) \/ SendStart(r) \/ Return(r) \/ EndResponse(r)
  BY <1>5, QuietLibrary DEF Receive, SendStart, Return, EndResponse, EndBody, h2Vars, appVars
<1> QED BY <1>1, <1>2, <1>3, <1>4, <1>5 DEF AppStep

LEMMA Libraries ==
  ASSUME Extensions = {}, TypeInv, OpenedOnce, AppInv, BodyInv, [Next]_vars
  PROVE  LibraryStep
<1>1. CASE Environment
  <2>1. UNCHANGED made
    BY <1>1, AppVarsKept DEF Abort, appVars
  <2> QED BY <1>1, <2>1, EnvironmentBuffers, QuietLibrary DEF h2Vars
<1>2. CASE UNCHANGED vars
  BY <1>2, QuietLibrary DEF vars, h2Vars, appVars
<1> QED BY <1>1, <1>2, ConnStays, ReaderLibrary, SenderLibrary, AppLibrary DEF Next

\* What the sender is about to end is still in the dictionary.
LEMMA SentKept ==
  ASSUME TypeInv, BodyInv, [Next]_vars, pc'[Sender] = "sent"
  PROVE  buf'[serving'].live
<1>0. TypeOK /\ buf \in [Streams -> Buffers] /\ pc \in [Tasks -> AppPC \cup SenderPC \cup ReaderPC]
  BY DEF TypeInv, TypeOK
<1>1. ASSUME pc'[Sender] = pc[Sender], UNCHANGED serving,
             \A s \in Streams : buf[s].live => buf'[s].live
      PROVE  buf'[serving'].live
  BY <1>1, ServedFacts DEF BodyInv
<1>2. CASE ReaderStep
  <2>1. pc'[Sender] = pc[Sender]
    BY <1>2, ReaderMoves
  <2>2. UNCHANGED serving
    BY <1>2 DEF ReaderStep, ReadFrames, ReadError, ReadEnds, RefuseRequest, CreateStream,
       BodyReceived, LateBody, PutBody, StreamReset, WindowUpdated, PriorityUpdated,
       NothingTold, ConnectionTerminated, EventsHandled, ReaderCloses, ReaderClosed,
       HandleClosed, Join, FinalClose, FinalClosed, WriteStep, Flushed, FlushFails, PutLate,
       sendVars
  <2>3. \A s \in Streams : buf[s].live => buf'[s].live
    <3>1. CASE CreateStream
      BY <1>0, <3>1, CreateFacts DEF NewBuffer
    <3> QED BY <1>2, <3>1, ReaderBuffers
  <2> QED BY <1>1, <2>1, <2>2, <2>3
<1>3. CASE SenderStep
  <2>1. ASSUME NEW l, l # "sent", Goto(Sender, l) PROVE FALSE
    BY <1>0, <2>1, TaskFacts DEF Goto
  <2>2. ASSUME NEW s \in Streams, Serve(s) PROVE buf'[serving'].live
    <3>1. CASE ServeData(s)
      <4>1. ToPop(s) \in Nat /\ ToPop(s) <= Len(buf[s].data) /\ buf[s].live
        BY <1>0, <3>1, PopFacts DEF ServeData
      <4>2. Popped(s, ToPop(s)).live
        BY <1>0, <4>1, PoppedFacts
      <4> QED BY <1>0, <3>1, <4>2 DEF ServeData
    <3>2. CASE ServeNothing(s)
      BY <3>2 DEF ServeNothing, Serving, At
    <3>3. CASE ServeEnd(s) \/ ServeFails(s) \/ ServeCrashes(s)
      BY <2>1, <3>3 DEF ServeEnd, EndStream, Flush, ServeFails, ServeCrashes
    <3> QED BY <2>2, <3>1, <3>2, <3>3 DEF Serve
  <2>3. CASE WriteStep(Sender)
    <3>1. UNCHANGED <<pc, serving>> /\ UNCHANGED buf
      BY <2>3, WriteType, TaskFacts DEF WriteStep, Flushed, FlushFails, PutLate, sendVars
    <3> QED BY <1>1, <3>1
  <2>4. CASE EndAfterData \/ TurnOver \/ Finished \/ WaitForData \/ HasData \/ SenderEnds
    BY <2>1, <2>4 DEF EndAfterData, EndStream, Flush, TurnOver, Finished, WaitForData, HasData,
       SenderEnds
  <2> QED BY <1>3, <2>2, <2>3, <2>4 DEF SenderStep
<1>4. ASSUME NEW r \in Streams, StreamStep(r) \/ AppStep(r) PROVE buf'[serving'].live
  <2>1. pc'[Sender] = pc[Sender]
    BY <1>4, AppSpawns, TaskFacts
  <2>2. UNCHANGED serving
    BY <1>4 DEF StreamStep, Started, Resumed, EndResponse, EndBody, Drained, Finish,
       ErrorResponseEnd, StreamEnded, StreamLeft, LastStreamLeft, LastStreamTimer, WriteStep,
       Flushed, FlushFails, PutLate, AppStep, Receive, SendStart, Return, SendBody, SendFlush,
       EndWithHeaders, sendVars
  <2> QED BY <1>1, <1>4, <2>1, <2>2, AppBuffers
<1>5. CASE Environment
  <2>1. ~Abort
    BY AbortFacts
  <2>2. UNCHANGED <<buf, serving>>
    BY <1>5, <2>1 DEF Environment, ReadTimeout, IdleTimeout, Terminate, ClientSends, ClientEof,
       ConnectionLost, sendVars
  <2>3. pc'[Sender] = pc[Sender]
    <3>1. ReadTimeout => pc'[Sender] = pc[Sender]
      BY <1>0, TaskFacts DEF ReadTimeout, Goto
    <3> QED BY <1>5, <2>1, <3>1 DEF Environment, IdleTimeout, Terminate, ClientSends, ClientEof,
       ConnectionLost
  <2> QED BY <1>1, <2>2, <2>3
<1>6. CASE UNCHANGED vars
  BY <1>1, <1>6 DEF vars, sendVars
<1> QED BY <1>2, <1>3, <1>4, <1>5, <1>6 DEF Next

LEMMA Numbered ==
  ASSUME NEW S, NEW a \in Seq(S), NEW b \in Seq(S), NEW k \in Nat, NEW m \in Nat,
         From(a, k), From(b, m), m = k + Len(a)
  PROVE  /\ Len(a \o b) = Len(a) + Len(b)
         /\ From(a \o b, k)
<1>1. /\ Len(a) \in Nat /\ Len(b) \in Nat
      /\ \A i \in 1 .. Len(a) : a[i] = k + i
      /\ \A i \in 1 .. Len(b) : b[i] = k + Len(a) + i
  BY LenProperties DEF From
<1> DEFINE c == a \o b
<1>2. /\ Len(c) = Len(a) + Len(b)
      /\ \A i \in 1 .. Len(a) + Len(b) :
           c[i] = IF i <= Len(a) THEN a[i] ELSE b[i - Len(a)]
  BY ConcatProperties
<1> HIDE DEF c
<1>3. ASSUME NEW i \in 1 .. Len(c) PROVE c[i] = k + i
  <2>1. CASE i <= Len(a)
    <3>1. i \in 1 .. Len(a) /\ c[i] = a[i]
      BY <1>1, <1>2, <1>3, <2>1
    <3> QED BY <1>1, <3>1
  <2>2. CASE ~(i <= Len(a))
    <3> DEFINE j == i - Len(a)
    <3>1. j \in 1 .. Len(b) /\ c[i] = b[j] /\ k + Len(a) + j = k + i
      BY <1>1, <1>2, <1>3, <2>2
    <3> HIDE DEF j
    <3> QED BY <1>1, <3>1
  <2> QED BY <2>1, <2>2
<1> QED BY <1>2, <1>3 DEF c, From

LEMMA PartsFrom ==
  ASSUME NEW q, Len(q) \in Nat, NEW k \in Nat, NEW n \in Nat, n <= Len(q), From(q, k),
         NEW h, Len(h) = n, \A i \in 1 .. n : h[i] = q[i],
         NEW t, Len(t) = Len(q) - n, \A i \in 1 .. Len(q) - n : t[i] = q[n + i]
  PROVE  From(h, k) /\ From(t, k + n)
<1>1. \A i \in 1 .. Len(q) : q[i] = k + i
  BY DEF From
<1>2. ASSUME NEW i \in 1 .. n PROVE h[i] = k + i
  <2>1. i \in 1 .. Len(q)
    BY <1>2
  <2> QED BY <1>1, <1>2, <2>1
<1>3. ASSUME NEW i \in 1 .. Len(q) - n PROVE t[i] = k + n + i
  <2>1. n + i \in 1 .. Len(q) /\ k + (n + i) = k + n + i
    BY <1>3
  <2> QED BY <1>1, <1>3, <2>1
<1> QED BY <1>2, <1>3 DEF From

\* A chunk that is popped is what h2 lacks next, and what is left follows it.
LEMMA ServedBody ==
  ASSUME TypeInv, BodyInv, NEW s \in Streams, ServeData(s)
  PROVE  /\ ToPop(s) \in 1 .. Len(buf[s].data)
         /\ sent' = [sent EXCEPT ![s] = @ \o SubSeq(buf[s].data, 1, ToPop(s))]
         /\ SubSeq(buf[s].data, 1, ToPop(s)) \in Seq(1 .. MaxBody)
         /\ Len(SubSeq(buf[s].data, 1, ToPop(s))) = ToPop(s)
         /\ From(SubSeq(buf[s].data, 1, ToPop(s)), Len(sent[s]))
         /\ \A u \in Streams \ {s} : sent'[u] = sent[u] /\ buf'[u] = buf[u]
         /\ buf'[s].complete = buf[s].complete
         /\ UNCHANGED made
         /\ InOrder(s)' /\ Whole(s)'
<1> DEFINE n == ToPop(s)
           d == buf[s].data
           a == sent[s]
           h == SubSeq(d, 1, n)
           t == SubSeq(d, n + 1, Len(d))
<1>1. /\ TypeOK /\ d \in Seq(1 .. MaxBody) /\ a \in Seq(1 .. MaxBody)
      /\ buf \in [Streams -> Buffers] /\ sent \in [Streams -> Seq(1 .. MaxBody)]
      /\ made[s] \in Nat
  <2>1. TypeOK /\ buf[s] \in Buffers /\ sent[s] \in Seq(1 .. MaxBody) /\ made[s] \in 0 .. MaxBody
    BY DEF TypeInv, TypeOK
  <2>2. d \in Seq(1 .. MaxBody)
    BY <2>1 DEF Buffers
  <2>3. made[s] \in Nat
    BY <2>1, H2Assumption
  <2> QED BY <2>1, <2>2, <2>3 DEF TypeOK
<1>2. /\ n \in Nat /\ n <= Len(d) /\ n > 0 /\ Len(d) \in Nat /\ Len(a) \in Nat
      /\ InOrder(s) /\ Whole(s)
  BY <1>1, PopFacts, LenProperties DEF ServeData, BodyInv
<1>3. Popped(s, n).complete = buf[s].complete /\ Popped(s, n).data = t
  BY <1>1, <1>2, PoppedFacts
<1>4. /\ sent' = [sent EXCEPT ![s] = @ \o h] /\ buf' = [buf EXCEPT ![s] = Popped(s, n)]
      /\ UNCHANGED made
  BY DEF ServeData, SendData, appVars
<1>5. /\ sent'[s] = a \o h /\ buf'[s] = Popped(s, n)
      /\ \A u \in Streams \ {s} : sent'[u] = sent[u] /\ buf'[u] = buf[u]
  BY <1>1, <1>4
<1>6. From(d, Len(a)) /\ From(a, 0) /\ Len(a) + Len(d) = made[s]
  BY <1>2 DEF InOrder, Whole
<1>7. n \in 1 .. Len(d)
  BY <1>2
<1>8. /\ Len(h) = n /\ h \in Seq(1 .. MaxBody) /\ From(h, Len(a))
      /\ Len(t) = Len(d) - n /\ From(t, Len(a) + n)
  <2>1. /\ Len(h) = n /\ h \in Seq(1 .. MaxBody)
        /\ \A i \in 1 .. n : h[i] = d[i]
        /\ Len(t) = Len(d) - n
        /\ \A i \in 1 .. Len(d) - n : t[i] = d[n + i]
    <3>1. /\ SubSeq(buf[s].data, 1, ToPop(s)) \in Seq(1 .. MaxBody)
          /\ Len(SubSeq(buf[s].data, 1, ToPop(s))) = ToPop(s)
          /\ \A i \in 1 .. ToPop(s) : SubSeq(buf[s].data, 1, ToPop(s))[i] = buf[s].data[i]
      BY <1>1, <1>2, PoppedFacts
    <3>2. /\ Len(Popped(s, n).data) = Len(buf[s].data) - n
          /\ \A i \in 1 .. Len(Popped(s, n).data) : Popped(s, n).data[i] = buf[s].data[n + i]
      BY <1>1, <1>2, PoppedFacts
    <3>3. t = Popped(s, n).data
      BY <1>3
    <3> HIDE DEF t, n
    <3>4. Len(t) = Len(d) - n /\ \A i \in 1 .. Len(d) - n : t[i] = d[n + i]
      BY <3>2, <3>3
    <3> QED BY <3>1, <3>4 DEF n
  <2> HIDE DEF h, t, n, d, a
  <2>2. From(h, Len(a)) /\ From(t, Len(a) + n)
    BY <1>2, <1>6, <2>1, PartsFrom
  <2> QED BY <2>1, <2>2
<1> HIDE DEF n, d, a
<1> HIDE DEF h, t
<1>9. Len(a \o h) = Len(a) + n /\ From(a \o h, 0)
  <2>1. 0 \in Nat /\ Len(a) = 0 + Len(a) /\ Len(a) \in Nat
    BY <1>2
  <2> QED BY <1>1, <1>6, <1>8, <2>1, Numbered
<1>10. InOrder(s)' /\ Whole(s)'
  <2>1. sent'[s] = a \o h /\ buf'[s].data = t /\ made'[s] = made[s]
    BY <1>3, <1>4, <1>5
  <2>2. From(t, Len(a \o h))
    BY <1>8, <1>9
  <2>3. Len(a \o h) + Len(t) = made[s]
    BY <1>2, <1>6, <1>8, <1>9
  <2> QED BY <1>9, <2>1, <2>2, <2>3 DEF InOrder, Whole, From
<1>11. buf'[s].complete = buf[s].complete
  BY <1>3, <1>5
<1> QED BY <1>4, <1>5, <1>7, <1>8, <1>10, <1>11 DEF n, d, h, a

\* A chunk that is pushed follows what the buffer has; the response has not ended.
LEMMA SentBody ==
  ASSUME TypeInv, AppInv, BodyInv, NEW r \in Streams, NEW n \in ChunkSizes, NEW last \in BOOLEAN,
         SendBody(r, n, last)
  PROVE  /\ Spawned(r) /\ ~AppEnded(r)
         /\ made[r] \in Nat /\ n \in Nat \ {0} /\ made[r] + n <= MaxBody
         /\ made' = [made EXCEPT ![r] = @ + n] /\ UNCHANGED <<sent, half, conn>>
         /\ \A u \in Streams \ {r} : buf'[u] = buf[u] /\ made'[u] = made[u]
         /\ buf'[r].live <=> buf[r].live
         /\ buf'[r].complete = buf[r].complete
         /\ buf[r].live => InOrder(r)' /\ Whole(r)'
<1>1. /\ TypeOK /\ buf[r].data \in Seq(1 .. MaxBody) /\ sent[r] \in Seq(1 .. MaxBody)
      /\ buf \in [Streams -> Buffers] /\ made \in [Streams -> 0 .. MaxBody]
  BY DEF TypeInv, TypeOK, Buffers
<1>2. /\ made[r] + n <= MaxBody /\ made' = [made EXCEPT ![r] = @ + n]
      /\ UNCHANGED <<sent, half, conn>> /\ UNCHANGED half
      /\ pc[r] = "run" /\ sstate[r] = "RESPONSE"
  BY DEF SendBody, h2Vars, MayRespond, At
<1>3. Spawned(r) /\ ~AppEnded(r)
  BY <1>2 DEF Spawned, AppEnded, AppInv, Finishing
<1>4. /\ n \in Nat \ {0} /\ made[r] \in Nat
      /\ Chunk(r, n) \in Seq(1 .. MaxBody) /\ Len(Chunk(r, n)) = n
      /\ \A i \in 1 .. n : Chunk(r, n)[i] = made[r] + i
  BY <1>1, <1>2, ChunkFacts
<1>5. /\ Pushed(r, n).data = buf[r].data \o Chunk(r, n)
      /\ Pushed(r, n).complete = buf[r].complete /\ Pushed(r, n).live = buf[r].live
  BY <1>1, <1>2, PushedFacts
<1>6. UNCHANGED buf \/ buf' = [buf EXCEPT ![r] = Pushed(r, n)]
  BY DEF SendBody
<1>7. /\ \A u \in Streams \ {r} : buf'[u] = buf[u] /\ made'[u] = made[u]
      /\ made'[r] = made[r] + n
  BY <1>1, <1>2, <1>6
<1>8. /\ buf'[r].live <=> buf[r].live
      /\ buf'[r].complete = buf[r].complete
  BY <1>1, <1>5, <1>6
<1>9. ASSUME buf[r].live PROVE InOrder(r)' /\ Whole(r)'
  <2>1. /\ InOrder(r) /\ Whole(r) /\ ~buf[r].complete /\ r \in tree
    BY <1>3, <1>9 DEF BodyInv, TypeInv, TreeInv
  <2>2. buf'[r] = Pushed(r, n)
    BY <1>1, <1>9, <2>1 DEF SendBody
  <2> DEFINE d == buf[r].data
             c == Chunk(r, n)
             e == buf'[r].data
  <2>3. /\ e = d \o c /\ d \in Seq(1 .. MaxBody) /\ c \in Seq(1 .. MaxBody) /\ Len(c) = n
        /\ Len(d) \in Nat /\ Len(sent[r]) \in Nat
        /\ Len(sent[r]) + Len(d) = made[r] /\ From(d, Len(sent[r])) /\ From(sent[r], 0)
        /\ From(c, made[r])
    BY <1>1, <1>4, <1>5, <2>1, <2>2, LenProperties DEF Whole, InOrder, From
  <2> HIDE DEF d, c, e
  <2>4. Len(e) = Len(d) + n /\ From(e, Len(sent[r]))
    BY <1>4, <2>3, Numbered
  <2>5. UNCHANGED sent
    BY <1>2
  <2>6. InOrder(r)'
    BY <2>3, <2>4, <2>5 DEF InOrder, e, From
  <2>7. Whole(r)'
    <3>1. Len(sent[r]) + Len(e) = made[r] + n
      BY <1>4, <2>3, <2>4
    <3> QED BY <1>7, <2>5, <3>1 DEF Whole, e
  <2> QED BY <2>6, <2>7
<1> QED BY <1>2, <1>3, <1>4, <1>7, <1>8, <1>9

\* What is asked of each stream outlives a step.
LEMMA EndedKept ==
  ASSUME TypeInv, AppInv, BodyInv, LibraryStep, AppProgress, NEW s \in Streams,
         half'[s] = "ended"
  PROVE  AppEnded(s)'
<1>1. half \in [Streams -> {"idle", "open", "ended", "reset"}]
  BY DEF TypeInv, TypeOK
<1>2. half[s] = "ended" => AppEnded(s)'
  BY DEF BodyInv, AppProgress
<1>3. ASSUME NEW u \in Streams, Ending(u) PROVE AppEnded(s)'
  <2>1. AppEnded(u)
    BY <1>3 DEF Ending, Complete, BodyInv
  <2>2. u # s => half'[s] = half[s]
    BY <1>1, <1>3 DEF Ending
  <2> QED BY <1>2, <2>1, <2>2 DEF AppProgress
<1>4. ASSUME NEW u \in Streams, ServeData(u) PROVE AppEnded(s)'
  BY <1>2, <1>4 DEF ServeData
<1>5. ASSUME NEW r \in Streams, NEW n \in ChunkSizes, NEW last \in BOOLEAN, SendBody(r, n, last)
      PROVE  AppEnded(s)'
  BY <1>2, <1>5, SentBody
<1> QED BY <1>2, <1>3, <1>4, <1>5 DEF LibraryStep, Cutting

LEMMA CompleteKept ==
  ASSUME TypeInv, AppInv, BodyInv, BodyStep, AppProgress, NEW s \in Streams,
         buf'[s].live, buf'[s].complete
  PROVE  AppEnded(s)'
<1>1. buf[s].live /\ buf[s].complete => AppEnded(s)'
  BY DEF BodyInv, AppProgress
<1>2. CASE \A u \in Streams : Still(u)
  BY <1>1, <1>2 DEF Still
<1>3. ASSUME NEW u \in Streams, ServeData(u) PROVE AppEnded(s)'
  <2>1. /\ buf'[u].complete = buf[u].complete /\ buf[u].live
        /\ \A v \in Streams \ {u} : buf'[v] = buf[v]
    BY <1>3, ServedBody DEF ServeData
  <2> QED BY <1>1, <2>1
<1>4. ASSUME NEW r \in Streams, NEW n \in ChunkSizes, NEW last \in BOOLEAN, SendBody(r, n, last)
      PROVE  AppEnded(s)'
  <2>1. /\ buf'[r].complete = buf[r].complete /\ (buf'[r].live <=> buf[r].live)
        /\ \A v \in Streams \ {r} : buf'[v] = buf[v]
    BY <1>4, SentBody
  <2> QED BY <1>1, <2>1
<1>5. CASE CreateStream
  <2>1. PICK r \in Streams : r = EventStream
    BY <1>5, CreateFacts
  <2>2. buf' = [buf EXCEPT ![r] = NewBuffer] /\ buf \in [Streams -> Buffers]
    BY <1>5, <2>1, CreateFacts DEF TypeInv, TypeOK
  <2>3. s # r => buf'[s] = buf[s]
    BY <2>2
  <2>4. ~buf'[r].complete
    BY <2>2 DEF NewBuffer
  <2> QED BY <1>1, <2>3, <2>4
<1> QED BY <1>2, <1>3, <1>4, <1>5 DEF BodyStep

LEMMA BeforeKept ==
  ASSUME TypeInv, OpenedOnce, BufferInv, AppInv, BodyInv, BodyStep, [Next]_vars,
         NEW s \in Streams, ~Spawned(s)'
  PROVE  made'[s] = 0 /\ sent'[s] = <<>>
<1>1. ~Spawned(s) /\ made[s] = 0 /\ sent[s] = <<>>
  <2>1. CASE CreateStream
    <3>1. PICK r \in Streams : r = EventStream
      BY <2>1, CreateFacts
    <3>2. pc'[r] = "run" /\ \A t \in Tasks \ {r} : pc'[t] = pc[t]
      BY <2>1, <3>1, CreateFacts
    <3> QED BY <3>2, TaskFacts DEF Spawned, BodyInv
  <2> QED BY <2>1, Spawns DEF BodyInv
<1>2. CASE UNCHANGED <<made, sent>>
  BY <1>1, <1>2
<1>3. ASSUME NEW u \in Streams, ServeData(u) PROVE made'[s] = 0 /\ sent'[s] = <<>>
  <2>1. Spawned(u)
    BY <1>3 DEF ServeData, BufferInv
  <2> QED BY <1>1, <1>3, <2>1, ServedBody
<1>4. ASSUME NEW r \in Streams, NEW n \in ChunkSizes, NEW last \in BOOLEAN, SendBody(r, n, last)
      PROVE  made'[s] = 0 /\ sent'[s] = <<>>
  BY <1>1, <1>4, SentBody
<1>5. CASE CreateStream
  BY <1>1, <1>5 DEF CreateStream, appVars
<1> QED BY <1>2, <1>3, <1>4, <1>5 DEF BodyStep

LEMMA OrderKept ==
  ASSUME TypeInv, OpenedOnce, BufferInv, AppInv, BodyInv, BodyStep,
         NEW s \in Streams, buf'[s].live
  PROVE  InOrder(s)' /\ Whole(s)'
<1>1. ASSUME buf'[s] = buf[s], sent'[s] = sent[s], made'[s] = made[s]
      PROVE  InOrder(s)' /\ Whole(s)'
  <2>1. InOrder(s) /\ Whole(s)
    BY <1>1 DEF BodyInv
  <2>2. Whole(s)'
    BY <1>1, <2>1 DEF Whole
  <2>3. InOrder(s)'
    BY <1>1, <2>1 DEF InOrder, From
  <2> QED BY <2>2, <2>3
<1>2. CASE UNCHANGED <<made, sent>> /\ \A u \in Streams : Still(u)
  <2>1. /\ buf[s].live /\ Len(buf'[s].data) = Len(buf[s].data)
        /\ \A i \in 1 .. Len(buf[s].data) : buf'[s].data[i] = buf[s].data[i]
    BY <1>2 DEF Still
  <2> DEFINE d == buf[s].data
             e == buf'[s].data
  <2>2. /\ Len(e) = Len(d) /\ \A i \in 1 .. Len(d) : e[i] = d[i]
        /\ From(d, Len(sent[s])) /\ From(sent[s], 0) /\ Len(sent[s]) + Len(d) = made[s]
    BY <2>1 DEF BodyInv, InOrder, Whole
  <2> HIDE DEF d, e
  <2>3. From(e, Len(sent[s])) /\ Len(sent[s]) + Len(e) = made[s]
    BY <2>2 DEF From
  <2> QED BY <1>2, <2>2, <2>3 DEF InOrder, Whole, From, e
<1>3. ASSUME NEW u \in Streams, ServeData(u) PROVE InOrder(s)' /\ Whole(s)'
  BY <1>1, <1>3, ServedBody
<1>4. ASSUME NEW r \in Streams, NEW n \in ChunkSizes, NEW last \in BOOLEAN, SendBody(r, n, last)
      PROVE  InOrder(s)' /\ Whole(s)'
  <2>1. CASE s = r
    BY <1>4, <2>1, SentBody
  <2>2. CASE s # r
    BY <1>1, <1>4, <2>2, SentBody
  <2> QED BY <2>1, <2>2
<1>5. CASE CreateStream
  <2>1. PICK r \in Streams : r = EventStream
    BY <1>5, CreateFacts
  <2>2. buf' = [buf EXCEPT ![r] = NewBuffer] /\ buf \in [Streams -> Buffers]
    BY <1>5, <2>1, CreateFacts DEF TypeInv, TypeOK
  <2>3. UNCHANGED <<made, sent>>
    BY <1>5 DEF CreateStream, appVars
  <2>4. CASE s = r
    <3>1. made[s] = 0 /\ sent[s] = <<>>
      BY <1>5, <2>1, <2>4, NewStream DEF BodyInv
    <3>2. made'[s] = 0 /\ sent'[s] = <<>> /\ buf'[s].data = <<>>
      BY <2>2, <2>3, <2>4, <3>1 DEF NewBuffer
    <3>3. Len(<<>>) = 0 /\ \A i \in 1 .. 0 : FALSE
      BY EmptySeq
    <3> QED BY <3>2, <3>3 DEF InOrder, Whole, From
  <2>5. CASE s # r
    <3>1. buf'[s] = buf[s]
      BY <2>2, <2>5
    <3> QED BY <1>1, <2>3, <3>1
  <2> QED BY <2>4, <2>5
<1> QED BY <1>2, <1>3, <1>4, <1>5 DEF BodyStep

LEMMA BodyKept ==
  ASSUME Extensions = {}, TypeInv, OpenedOnce, BufferInv, AppInv, BodyInv, [Next]_vars
  PROVE  BodyInv'
<1>1. AppProgress /\ BodyStep /\ LibraryStep
  BY Progress, Bodies, Libraries
<1>2. pc'[Sender] = "sent" => buf'[serving'].live
  BY SentKept
<1>3. ASSUME NEW s \in Streams
      PROVE  /\ buf'[s].live => InOrder(s)' /\ Whole(s)'
             /\ ~Spawned(s)' => made'[s] = 0 /\ sent'[s] = <<>>
             /\ buf'[s].live /\ buf'[s].complete => AppEnded(s)'
             /\ half'[s] = "ended" => AppEnded(s)'
  BY <1>1, EndedKept, CompleteKept, BeforeKept, OrderKept
<1> QED BY <1>2, <1>3 DEF BodyInv

LEMMA BodyInit == Init => AppInv /\ BodyInv
<1> SUFFICES ASSUME Init PROVE AppInv /\ BodyInv
  OBVIOUS
<1>1. /\ \A s \in Streams : pc[s] = "none" /\ ~fin[s] /\ sstate[s] = "REQUEST"
      /\ \A s \in Streams : half[s] = "idle" /\ made[s] = 0 /\ sent[s] = <<>>
      /\ pc[Sender] = "loop"
  BY TaskFacts DEF Init
<1>2. \A s \in Streams : ~buf[s].live
  BY DEF Init, NewBuffer
<1> QED BY <1>1, <1>2 DEF AppInv, BodyInv, AppEnded, Spawned, Finishing

ResponseInv == TypeInv /\ OpenedOnce /\ BufferInv /\ AppInv /\ BodyInv

LEMMA ResponseInvariant == ASSUME Extensions = {} PROVE Spec => []ResponseInv
<1>1. Init => ResponseInv
  <2>1. Init => BufferInv
    BY DEF Init, BufferInv, NewBuffer
  <2> QED BY <2>1, TypeInit, OpenedInit, BodyInit DEF ResponseInv
<1>2. ResponseInv /\ [Next]_vars => ResponseInv'
  <2> SUFFICES ASSUME ResponseInv, [Next]_vars PROVE ResponseInv'
    OBVIOUS
  <2>1. TypeInv' /\ OpenedOnce' /\ BufferInv'
    BY TypeStep, OpenedStep, BufferKept DEF ResponseInv
  <2>2. AppInv'
    BY Progress DEF AppProgress, ResponseInv
  <2>3. BodyInv'
    BY BodyKept DEF ResponseInv
  <2> QED BY <2>1, <2>2, <2>3 DEF ResponseInv
<1> QED BY <1>1, <1>2, PTL DEF Spec

----------------------------------------------------------------------------
(* The connection implements ResponseStream.                               *)

LEMMA SameStates ==
  ASSUME UNCHANGED <<half, conn>>
  PROVE  [s \in Streams |-> StreamState(s)]' = [s \in Streams |-> StreamState(s)]
BY DEF StreamState

LEMMA CutStep == ASSUME TypeInv, Cutting PROVE Promise!ResponseNext
<1> DEFINE st == [s \in Streams |-> StreamState(s)]
<1>1. PICK ss \in SUBSET Streams : ss = {s \in Streams : StreamState(s)' = "cut"}
  OBVIOUS
<1>2. conn \in {"open", "closed"} /\ UNCHANGED <<made, sent>>
  BY DEF TypeInv, TypeOK, Cutting
<1>3. ASSUME NEW s \in Streams
      PROVE  StreamState(s)' = IF s \in ss /\ StreamState(s) = "open" THEN "cut"
                               ELSE StreamState(s)
  BY <1>1, <1>3 DEF StreamState, Cutting
<1>4. st' = [s \in Streams |-> IF s \in ss /\ st[s] = "open" THEN "cut" ELSE st[s]]
  BY <1>3
<1>5. Promise!Cut(ss)
  BY <1>2, <1>4 DEF Promise!Cut
<1> QED BY <1>5 DEF Promise!ResponseNext

LEMMA EndStep ==
  ASSUME TypeInv, BodyInv, NEW u \in Streams, Ending(u)
  PROVE  Promise!ResponseNext
<1> DEFINE st == [s \in Streams |-> StreamState(s)]
<1>1. /\ conn = "open" /\ half[u] = "open" /\ UNCHANGED <<made, sent, conn>>
      /\ half' = [half EXCEPT ![u] = "ended"]
      /\ half \in [Streams -> {"idle", "open", "ended", "reset"}]
  BY DEF Ending, CanSend, TypeInv, TypeOK
<1>2. half'[u] = "ended" /\ \A s \in Streams \ {u} : half'[s] = half[s]
  BY <1>1
<1>3. \A s \in Streams : StreamState(s)' = IF s = u THEN "ended" ELSE StreamState(s)
  BY <1>1, <1>2 DEF StreamState
<1>4. st' = [st EXCEPT ![u] = "ended"] /\ st[u] = "open"
  BY <1>1, <1>3 DEF StreamState
<1>5. Len(sent[u]) = made[u]
  <2>1. Len(sent[u]) + Len(buf[u].data) = made[u] /\ buf[u].data = <<>>
    BY DEF Ending, Complete, BodyInv, Whole
  <2>2. Len(<<>>) = 0 /\ Len(sent[u]) \in Nat
    BY EmptySeq, LenProperties DEF TypeInv, TypeOK
  <2> QED BY <2>1, <2>2
<1>6. Promise!End(u)
  BY <1>1, <1>4, <1>5 DEF Promise!End
<1> QED BY <1>6 DEF Promise!ResponseNext

LEMMA DeliverStep ==
  ASSUME TypeInv, BodyInv, NEW s \in Streams, ServeData(s)
  PROVE  Promise!ResponseNext
<1> DEFINE st == [u \in Streams |-> StreamState(u)]
<1>1. UNCHANGED <<half, conn>> /\ UNCHANGED made /\ st[s] = "open"
  BY DEF ServeData, CanSend, StreamState, appVars
<1>2. st' = st
  BY <1>1, SameStates
<1>3. PICK n \in Nat : n = ToPop(s)
  BY PopFacts DEF TypeInv
<1>4. PICK h \in Seq(1 .. MaxBody) : h = SubSeq(buf[s].data, 1, n)
  BY <1>3, ServedBody
<1>5. /\ n \in 1 .. Len(buf[s].data) /\ Len(h) = n
      /\ sent' = [sent EXCEPT ![s] = @ \o h]
      /\ From(h, Len(sent[s]))
  BY <1>3, <1>4, ServedBody
<1>6. Len(sent[s]) \in Nat /\ Len(buf[s].data) \in Nat /\ made[s] = Len(sent[s]) + Len(buf[s].data)
  BY LenProperties DEF TypeInv, TypeOK, Buffers, ServeData, BodyInv, Whole
<1>7. n \in 1 .. made[s] - Len(sent[s])
  BY <1>5, <1>6
<1>8. h = [i \in 1 .. n |-> Len(sent[s]) + i]
  <2> DEFINE k == Len(sent[s])
             g == [i \in 1 .. n |-> k + i]
  <2>1. g \in Seq(Nat) /\ Len(g) = n /\ \A i \in 1 .. n : g[i] = k + i
    BY <1>6, LenProperties, SeqDef
  <2>2. \A i \in 1 .. n : h[i] = k + i
    BY <1>5 DEF From
  <2> HIDE DEF g
  <2>3. h = g
    BY <1>5, <2>1, <2>2, SeqEqual
  <2> QED BY <2>3 DEF g
<1>9. Promise!Deliver(s)
  BY <1>1, <1>2, <1>5, <1>7, <1>8 DEF Promise!Deliver
<1> QED BY <1>9 DEF Promise!ResponseNext

LEMMA AcceptStep ==
  ASSUME TypeInv, AppInv, BodyInv, NEW r \in Streams, NEW n \in ChunkSizes,
         NEW last \in BOOLEAN, SendBody(r, n, last)
  PROVE  Promise!ResponseNext
<1> DEFINE st == [s \in Streams |-> StreamState(s)]
<1>1. /\ ~AppEnded(r) /\ made[r] \in Nat /\ n \in Nat \ {0} /\ made[r] + n <= MaxBody
      /\ made' = [made EXCEPT ![r] = @ + n] /\ UNCHANGED <<sent, half, conn>>
  BY SentBody
<1>2. st' = st
  BY <1>1, SameStates
<1>3. st[r] # "ended"
  BY <1>1 DEF StreamState, BodyInv
<1>4. n \in 1 .. MaxBody - made[r]
  BY <1>1, H2Assumption
<1>5. Promise!Accept(r)
  BY <1>1, <1>2, <1>3, <1>4 DEF Promise!Accept
<1> QED BY <1>5 DEF Promise!ResponseNext

\* The body of every response reaches the client in order and whole before its
\* end, whatever is pushed, popped, blocked, reset or closed in between
\* (H2Protocol.send_task, _send_data and stream_send, StreamBuffer), for
\* applications that use neither the flush nor the headers of the h2 extension.
THEOREM ResponsesCorrect == ASSUME Extensions = {} PROVE Spec => ImplementsResponses
<1>1. Init => Promise!ResponseInit
  <2>1. Init => \A s \in Streams : StreamState(s) = "open"
    BY DEF Init, StreamState
  <2> QED BY <2>1 DEF Init, Promise!ResponseInit
<1>2. ResponseInv /\ [Next]_vars => [Promise!ResponseNext]_(Promise!responseVars)
  <2> SUFFICES ASSUME ResponseInv, [Next]_vars PROVE Promise!ResponseNext
    OBVIOUS
  <2> USE DEF ResponseInv
  <2>1. LibraryStep
    BY Libraries
  <2> QED BY <2>1, CutStep, EndStep, DeliverStep, AcceptStep DEF LibraryStep
<1> QED BY <1>1, <1>2, ResponseInvariant, PTL DEF Spec, ImplementsResponses, Promise!ResponseSpec

=============================================================================
