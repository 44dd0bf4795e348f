--------------------------- MODULE WSConnectionProofs ---------------------------
(***************************************************************************)
(* Theorems about WSConnection, for any size of the application's queue,   *)
(* any limit on messages and any number of frames: three tasks lead one    *)
(* conversation, the application is told of its end once, and only what    *)
(* the properties name ends the connection by an exception.                *)
(***************************************************************************)
EXTENDS WSConnection, SequenceTheorems, TLAPS

----------------------------------------------------------------------------
(* What a task may have to do.                                             *)

Fails == {"closeStream", "disconnect", "forget", "release"}
OpsOf(t) ==
  Fails \cup
  (IF t = "reader"
   THEN {"connect", "head", "end", "shut", "events", "receive", "clear", "frame", "close",
         "closeTransport"}
   ELSE IF t = "app"
   THEN {"switch", "pings", "head", "RESPONSE", "body", "HTTPCLOSED", "end", "frame", "close",
         "closeTransport"}
   ELSE {"frame"})
Ops == OpsOf("reader") \cup OpsOf("app")

\* What may be left when a write has been made.
Rest == {"RESPONSE", "body", "HTTPCLOSED", "end", "shut", "closeStream", "closeTransport",
         "pings", "events"}

\* The operations that a task may have to do at any time after op.
Later(op) ==
  CASE op = "head" -> {"RESPONSE", "body", "HTTPCLOSED", "end", "shut", "closeStream",
                       "closeTransport"}
    [] op = "switch" -> {"pings"}
    [] op = "RESPONSE" -> {"body", "HTTPCLOSED", "end"}
    [] op = "body" -> {"HTTPCLOSED", "end"}
    [] op = "HTTPCLOSED" -> {"end"}
    [] op = "end" -> {"HTTPCLOSED", "shut", "closeStream", "closeTransport"}
    [] op \in {"frame", "clear", "closeTransport"} -> {"events"}
    [] op = "receive" -> {"clear", "events"}
    [] op = "close" -> {"closeStream", "closeTransport", "events"}
    [] op \in {"closeStream", "forget"} -> Rest \cup {"release"}
    [] op = "disconnect" -> Rest \cup {"release", "forget"}
    [] op = "release" -> Rest
    [] OTHER -> {}

Program(t, q) ==
  /\ q \in Seq(Ops)
  /\ \A i \in 1 .. Len(q) : q[i] \in OpsOf(t)
  /\ \A i, j \in 1 .. Len(q) : i < j => q[j] \in Later(q[i])

Within(op, q) == \E i \in 1 .. Len(q) : q[i] = op
Has(t, op) == Within(op, todo[t])

----------------------------------------------------------------------------
(* The inductive invariants.                                               *)

TodoInv == todo \in [Tasks -> Seq(Ops)] /\ \A t \in Tasks : Program(t, todo[t])

\* Who waits, and what is left to do meanwhile.
WaitInv ==
  /\ wait \in [Tasks -> {"no", "drain", "put", "gone"}]
  /\ \A t \in Tasks :
       /\ wait[t] = "put" => todo[t] # <<>> /\ Head(todo[t]) \in Puts
       /\ wait[t] \in {"drain", "gone"} => \A i \in 1 .. Len(todo[t]) : todo[t][i] \in Rest
       /\ cpu = t => todo[t] # <<>> /\ wait[t] = "no"
       /\ cpu # t /\ wait[t] = "no" => todo[t] = <<>>

\* Who is in the lock: the one at its head drains or has to release it.
LockInv ==
  /\ lock \in Seq(Tasks)
  /\ \A i, j \in 1 .. Len(lock) : i # j => lock[i] # lock[j]
  /\ \A i \in 1 .. Len(lock) : wait[lock[i]] = "drain" \/ Has(lock[i], "release")
  /\ \A t \in Tasks : wait[t] = "drain" => \E i \in 1 .. Len(lock) : lock[i] = t
  /\ \A t \in Tasks : Has(t, "release") => lock # <<>> /\ Head(lock) = t

TaskInv == TodoInv /\ WaitInv /\ LockInv

\* Where the parts of the connection are.
PartInv ==
  /\ reader = "new" => /\ ~closed /\ app = "none" /\ ping # "on" /\ h11 = "response"
                       /\ \A t \in Tasks : todo[t] = <<>> /\ wait[t] = "no"
  /\ app \in {"none", "raised"} => todo["app"] = <<>> /\ wait["app"] = "no"
  /\ accepted => conn # "none"
  /\ \A t \in Tasks : Has(t, "events") \/ Has(t, "pings") => accepted
  /\ ping = "on" => accepted
  /\ \A t \in {"reader", "ping"} : Has(t, "frame") \/ Has(t, "close") => accepted

\* Who has been told, or is about to be.
TellInv ==
  /\ told \in {0, 1} /\ (told = 1 => closed)
  /\ \A t \in Tasks : Has(t, "disconnect") => closed /\ told = 0
  /\ \A s, t \in Tasks : Has(s, "disconnect") /\ Has(t, "disconnect") => s = t
  /\ \A t \in Tasks : Has(t, "shut") => early \/ app = "none"
  /\ closed /\ app # "none" /\ reader # "crashed" /\ ~early =>
       told = 1 \/ \E t \in Tasks : Has(t, "disconnect")

\* How far the response is when no data came early.
HeadInv ==
  /\ \A t \in Tasks : Has(t, "head") \/ Has(t, "switch") => h11 = "response"
  /\ Has("app", "switch") => state = "CONNECTED" /\ conn = "open"
  /\ state = "HANDSHAKE" /\ app \in {"running", "raised"} =>
       h11 = "response" \/ Has("app", "RESPONSE")
  /\ Has("app", "head") /\ state = "HANDSHAKE" /\ app = "running" => Has("app", "RESPONSE")
  /\ Has("reader", "head") \/ Has("reader", "end") => app = "none"
  /\ app # "running" => ~Has("app", "body") /\ ~Has("app", "RESPONSE") /\ ~Has("app", "switch")
  /\ \A t \in Tasks :
       Has(t, "end") /\ ~Has(t, "head") /\ (t = "app" => app # "running") => h11 = "body"

\* Who sends frames has a connection that makes them.
FrameInv ==
  /\ state = "CONNECTED" => accepted
  /\ app # "running" /\ (Has("app", "frame") \/ Has("app", "close")) => accepted
  /\ reader # "crashed"

\* What the client has been sent so far.
Written ==
  CASE h11 = "response" -> "none"
    [] h11 = "body" -> "head"
    [] h11 = "done" -> "ended"
    [] h11 = "switched" -> IF conn \in {"open", "remote"} THEN "switched" ELSE "closed"

WireInv ==
  /\ wire # "broken"
  /\ transport = "open" => wire = Written
  /\ conn # "none" => h11 = "switched" \/ Has("app", "switch")

\* A close that came from the client is followed by that of the transport.
CloseInv ==
  conn \in {"remote", "closed"} /\ transport = "open" => Has("reader", "closeTransport")

BigInv ==
  tooBig => length = MaxLength + 1 /\ ~Has("reader", "receive") /\ ~Has("reader", "clear")

BaseInv ==
  /\ state \in {"HANDSHAKE", "CONNECTED", "RESPONSE", "CLOSED", "HTTPCLOSED"}
  /\ closed \in BOOLEAN /\ stream \in BOOLEAN /\ accepted \in BOOLEAN
  /\ response \in {"none", "plain", "trailers"}
  /\ conn \in {"none", "open", "local", "remote", "closed"}
  /\ length \in 0 .. MaxLength + 1
  /\ h11 \in {"response", "body", "done", "switched"}
  /\ frames \in Seq(FrameKinds) /\ sent \in 0 .. MaxFrames
  /\ transport \in {"open", "closing", "lost"}
  /\ cpu \in Tasks \cup {"none"}
  /\ reader \in {"new", "reading", "ended", "crashed"}
  /\ app \in {"none", "running", "raised", "finishing"}
  /\ ping \in {"none", "on", "ended"}
  /\ queue \in 0 .. QueueSize
  /\ wire \in {"none", "head", "ended", "switched", "closed", "broken"}
  /\ early \in BOOLEAN /\ badAccept \in BOOLEAN /\ tooBig \in BOOLEAN

ConvInv ==
  /\ BaseInv /\ TaskInv /\ PartInv /\ TellInv /\ CloseInv /\ BigInv
  /\ ~early => HeadInv /\ WireInv
  /\ ~early /\ ~badAccept => FrameInv


----------------------------------------------------------------------------
(* Programs.                                                               *)

\* The operations that come first only.
First == {"head", "switch", "frame", "close", "receive", "connect", "disconnect"}

LEMMA LaterFacts ==
  /\ Ops = Fails \cup First \cup Rest \cup {"clear"}
  /\ \A op \in Ops : Later(op) \subseteq (Rest \cup {"release", "forget", "clear"})
  /\ \A op \in {"head", "switch", "body", "end", "frame", "close", "release", "closeTransport"} :
       Later(op) \subseteq Rest
  /\ \A op \in Ops : "release" \in Later(op) => op \in {"closeStream", "disconnect", "forget"}
<1>1. Ops = Fails \cup First \cup Rest \cup {"clear"}
  BY DEF Ops, OpsOf, Fails, First, Rest
<1>2. \A op \in Ops : Later(op) \subseteq (Rest \cup {"release", "forget", "clear"})
  BY <1>1 DEF Later, Fails, First, Rest
<1>3. \A op \in {"head", "switch", "body", "end", "frame", "close", "release", "closeTransport"} :
        Later(op) \subseteq Rest
  BY DEF Later, Rest
<1>4. \A op \in Ops : "release" \in Later(op) => op \in {"closeStream", "disconnect", "forget"}
  BY <1>1 DEF Later, Fails, First, Rest
<1> QED BY <1>1, <1>2, <1>3, <1>4

LEMMA OpsOfTask == \A t \in Tasks : OpsOf(t) \subseteq Ops
BY DEF Tasks, Ops, OpsOf

LEMMA NoProgram ==
  /\ \A t : Program(t, <<>>)
  /\ \A op : ~Within(op, <<>>)
BY DEF Program, Within

LEMMA Shortened ==
  ASSUME NEW t \in Tasks, NEW q, Program(t, q), q # <<>>
  PROVE  /\ Program(t, Tail(q)) /\ Head(q) \in OpsOf(t) /\ Head(q) \in Ops
         /\ \A i \in 1 .. Len(Tail(q)) : Tail(q)[i] \in Later(Head(q)) /\ Tail(q)[i] \in OpsOf(t)
         /\ Tail(q) # <<>> => Head(Tail(q)) \in Later(Head(q))
         /\ \A op : Within(op, Tail(q)) => Within(op, q)
         /\ \A op : Within(op, q) => Head(q) = op \/ Within(op, Tail(q))
         /\ \A op : Head(q) = op => Within(op, q)
<1> DEFINE r == Tail(q)
<1>1. /\ q \in Seq(Ops) /\ \A i \in 1 .. Len(q) : q[i] \in OpsOf(t)
      /\ \A i, j \in 1 .. Len(q) : i < j => q[j] \in Later(q[i])
  BY DEF Program
<1>2. PICK n \in Nat : n = Len(q)
  BY <1>1
<1>3. n > 0 /\ Head(q) = q[1] /\ r \in Seq(Ops) /\ Len(r) = n - 1
      /\ \A i \in 1 .. n - 1 : r[i] = q[i + 1]
  BY <1>1, <1>2, EmptySeq, HeadTailProperties
<1> HIDE DEF r
<1>4. ASSUME NEW i \in 1 .. n - 1
      PROVE  r[i] \in OpsOf(t) /\ r[i] \in Later(Head(q))
  <2>1. i + 1 \in 1 .. n /\ 1 \in 1 .. n /\ 1 < i + 1
    BY <1>3
  <2>2. q[i + 1] \in OpsOf(t) /\ q[i + 1] \in Later(q[1])
    BY <2>1, <1>1, <1>2
  <2> QED BY <2>2, <1>3
<1>5. ASSUME NEW i \in 1 .. n - 1, NEW j \in 1 .. n - 1, i < j
      PROVE  r[j] \in Later(r[i])
  <2>1. i + 1 \in 1 .. n /\ j + 1 \in 1 .. n /\ i + 1 < j + 1
    BY <1>5
  <2>2. q[j + 1] \in Later(q[i + 1])
    BY <2>1, <1>1, <1>2
  <2> QED BY <2>2, <1>3
<1>6. Program(t, r)
  BY <1>3, <1>4, <1>5 DEF Program
<1>7. Head(q) \in OpsOf(t) /\ Head(q) \in Ops
  <2>1. 1 \in 1 .. n
    BY <1>3
  <2>2. q[1] \in OpsOf(t)
    BY <2>1, <1>1, <1>2
  <2> QED BY <2>2, <1>3, OpsOfTask
<1>8. r # <<>> => Head(r) \in Later(Head(q))
  <2> SUFFICES ASSUME r # <<>>
               PROVE  Head(r) \in Later(Head(q))
    OBVIOUS
  <2>1. Len(r) # 0 /\ Head(r) = r[1]
    BY <1>3, EmptySeq, HeadTailProperties
  <2>2. 1 \in 1 .. n - 1
    BY <2>1, <1>3
  <2> QED BY <2>1, <2>2, <1>4
<1>9. ASSUME NEW op, Within(op, r)
      PROVE  Within(op, q)
  <2>1. PICK i \in 1 .. n - 1 : r[i] = op
    BY <1>3, <1>9 DEF Within
  <2>2. i + 1 \in 1 .. n /\ q[i + 1] = op
    BY <2>1, <1>3
  <2> QED BY <2>2, <1>2 DEF Within
<1>10. ASSUME NEW op, Within(op, q), Head(q) # op
       PROVE  Within(op, r)
  <2>1. PICK i \in 1 .. n : q[i] = op
    BY <1>2, <1>10 DEF Within
  <2>2. i # 1
    BY <2>1, <1>3, <1>10
  <2>3. i - 1 \in 1 .. n - 1 /\ (i - 1) + 1 = i
    BY <2>2
  <2>4. r[i - 1] = op
    BY <2>1, <2>3, <1>3
  <2> QED BY <2>3, <2>4, <1>3 DEF Within
<1>11. ASSUME NEW op, Head(q) = op
       PROVE  Within(op, q)
  <2>1. 1 \in 1 .. n
    BY <1>3
  <2> QED BY <2>1, <1>2, <1>3, <1>11 DEF Within
<1> QED BY <1>3, <1>4, <1>6, <1>7, <1>8, <1>9, <1>10, <1>11 DEF r

LEMMA Joined ==
  ASSUME NEW t \in Tasks, NEW p, Program(t, p), NEW q, Program(t, q),
         \A i \in 1 .. Len(p) : \A j \in 1 .. Len(q) : q[j] \in Later(p[i])
  PROVE  /\ Program(t, p \o q)
         /\ p # <<>> => p \o q # <<>> /\ Head(p \o q) = Head(p)
         /\ p = <<>> => p \o q = q
         /\ \A op : Within(op, p \o q) <=> Within(op, p) \/ Within(op, q)
<1> DEFINE r == p \o q
<1>1. p \in Seq(Ops) /\ q \in Seq(Ops)
  BY DEF Program
<1>2. PICK m \in Nat : m = Len(p)
  BY <1>1
<1>3. PICK n \in Nat : n = Len(q)
  BY <1>1
<1>4. r \in Seq(Ops) /\ Len(r) = m + n
  BY <1>1, <1>2, <1>3, ConcatProperties
<1>5. \A i \in 1 .. m + n : r[i] = IF i <= m THEN p[i] ELSE q[i - m]
  BY <1>1, <1>2, <1>3, ConcatProperties
<1> HIDE DEF r
<1>6. ASSUME NEW i \in 1 .. m + n
      PROVE  \/ i \in 1 .. m /\ r[i] = p[i]
             \/ i > m /\ i - m \in 1 .. n /\ r[i] = q[i - m]
  BY <1>5
<1>7. ASSUME NEW i \in 1 .. m + n
      PROVE  r[i] \in OpsOf(t)
  BY <1>2, <1>3, <1>6 DEF Program
<1>8. ASSUME NEW i \in 1 .. m + n, NEW j \in 1 .. m + n, i < j
      PROVE  r[j] \in Later(r[i])
  <2>1. CASE j \in 1 .. m /\ r[j] = p[j]
    <3>1. i \in 1 .. m /\ r[i] = p[i]
      BY <2>1, <1>6, <1>8
    <3> QED BY <2>1, <3>1, <1>2, <1>8 DEF Program
  <2>2. CASE j > m /\ j - m \in 1 .. n /\ r[j] = q[j - m]
    <3>1. CASE i \in 1 .. m /\ r[i] = p[i]
      BY <2>2, <3>1, <1>2, <1>3
    <3>2. CASE i > m /\ i - m \in 1 .. n /\ r[i] = q[i - m]
      <4>1. i - m < j - m
        BY <1>8
      <4>2. q[j - m] \in Later(q[i - m])
        BY <4>1, <2>2, <3>2, <1>3 DEF Program
      <4> QED BY <4>2, <2>2, <3>2
    <3> QED BY <3>1, <3>2, <1>6
  <2> QED BY <2>1, <2>2, <1>6
<1>9. Program(t, r)
  BY <1>4, <1>7, <1>8 DEF Program
<1>10. p # <<>> => r # <<>> /\ Head(r) = Head(p)
  <2> SUFFICES ASSUME p # <<>>
               PROVE  r # <<>> /\ Head(r) = Head(p)
    OBVIOUS
  <2>1. m > 0 /\ Head(p) = p[1]
    BY <1>1, <1>2, EmptySeq, HeadTailProperties
  <2>2. 1 \in 1 .. m + n /\ Len(r) # 0
    BY <2>1, <1>4
  <2>3. r[1] = p[1] /\ r # <<>>
    BY <2>1, <2>2, <1>5, EmptySeq
  <2> QED BY <2>1, <2>3, <1>4, HeadTailProperties
<1>11. p = <<>> => r = q
  BY <1>1, ConcatEmptySeq DEF r
<1>12. ASSUME NEW op
       PROVE  Within(op, r) <=> Within(op, p) \/ Within(op, q)
  <2>1. ASSUME Within(op, r)
        PROVE  Within(op, p) \/ Within(op, q)
    <3>1. PICK i \in 1 .. m + n : r[i] = op
      BY <2>1, <1>4 DEF Within
    <3> QED BY <3>1, <1>2, <1>3, <1>6 DEF Within
  <2>2. ASSUME Within(op, p)
        PROVE  Within(op, r)
    <3>1. PICK i \in 1 .. m : p[i] = op
      BY <2>2, <1>2 DEF Within
    <3>2. i \in 1 .. m + n /\ r[i] = p[i]
      BY <1>5
    <3> QED BY <3>1, <3>2, <1>4 DEF Within
  <2>3. ASSUME Within(op, q)
        PROVE  Within(op, r)
    <3>1. PICK i \in 1 .. n : q[i] = op
      BY <2>3, <1>3 DEF Within
    <3>2. m + i \in 1 .. m + n /\ ~(m + i <= m) /\ (m + i) - m = i
      OBVIOUS
    <3>3. r[m + i] = q[i]
      BY <3>2, <1>5
    <3> QED BY <3>1, <3>2, <3>3, <1>4 DEF Within
  <2> QED BY <2>1, <2>2, <2>3
<1> QED BY <1>9, <1>10, <1>11, <1>12 DEF r

LEMMA LaterOf ==
  /\ Later("head") = {"RESPONSE", "body", "HTTPCLOSED", "end", "shut", "closeStream",
                      "closeTransport"}
  /\ Later("switch") = {"pings"} /\ Later("pings") = {}
  /\ Later("RESPONSE") = {"body", "HTTPCLOSED", "end"} /\ Later("body") = {"HTTPCLOSED", "end"}
  /\ Later("HTTPCLOSED") = {"end"}
  /\ Later("end") = {"HTTPCLOSED", "shut", "closeStream", "closeTransport"}
  /\ Later("frame") = {"events"} /\ Later("clear") = {"events"}
  /\ Later("closeTransport") = {"events"} /\ Later("receive") = {"clear", "events"}
  /\ Later("close") = {"closeStream", "closeTransport", "events"}
  /\ Later("closeStream") = Rest \cup {"release"} /\ Later("forget") = Rest \cup {"release"}
  /\ Later("disconnect") = Rest \cup {"release", "forget"} /\ Later("release") = Rest
  /\ Later("shut") = {} /\ Later("events") = {} /\ Later("connect") = {}
BY DEF Later

LEMMA One ==
  ASSUME NEW t \in Tasks, NEW a \in OpsOf(t)
  PROVE  /\ Program(t, <<a>>) /\ <<a>> # <<>> /\ Head(<<a>>) = a /\ Tail(<<a>>) = <<>>
         /\ \A op : Within(op, <<a>>) <=> a = op
         /\ \A i \in 1 .. Len(<<a>>) : <<a>>[i] = a
<1>1. a \in Ops
  BY OpsOfTask
<1>2. <<a>> \in Seq(Ops) /\ Len(<<a>>) = 1 /\ <<a>>[1] = a
  BY <1>1
<1>3. <<a>> # <<>> /\ Head(<<a>>) = a /\ Tail(<<a>>) = <<>>
  OBVIOUS
<1> DEFINE q == <<a>>
<1>4. q \in Seq(Ops) /\ Len(q) = 1 /\ q[1] = a
  BY <1>2
<1> HIDE DEF q
<1>5. Program(t, q)
  BY <1>4 DEF Program
<1>6. \A op : Within(op, q) <=> a = op
  BY <1>4 DEF Within
<1>7. \A i \in 1 .. Len(q) : q[i] = a
  BY <1>4
<1> QED BY <1>3, <1>5, <1>6, <1>7 DEF q

LEMMA Two ==
  ASSUME NEW t \in Tasks, NEW a \in OpsOf(t), NEW b \in OpsOf(t), b \in Later(a)
  PROVE  /\ Program(t, <<a, b>>) /\ <<a, b>> # <<>> /\ Head(<<a, b>>) = a
         /\ \A op : Within(op, <<a, b>>) <=> a = op \/ b = op
         /\ \A i \in 1 .. Len(<<a, b>>) : <<a, b>>[i] \in {a, b}
<1>1. a \in Ops /\ b \in Ops
  BY OpsOfTask
<1>2. <<a, b>> # <<>> /\ Head(<<a, b>>) = a
  OBVIOUS
<1> DEFINE q == <<a, b>>
<1>4. q \in Seq(Ops) /\ Len(q) = 2 /\ q[1] = a /\ q[2] = b
  BY <1>1
<1> HIDE DEF q
<1>5. Program(t, q)
  BY <1>4 DEF Program
<1>6. \A op : Within(op, q) <=> a = op \/ b = op
  <2>1. \A i \in 1 .. Len(q) : i = 1 \/ i = 2
    BY <1>4
  <2>2. 1 \in 1 .. Len(q) /\ 2 \in 1 .. Len(q)
    BY <1>4
  <2> QED BY <1>4, <2>1, <2>2 DEF Within
<1>7. \A i \in 1 .. Len(q) : q[i] \in {a, b}
  BY <1>4
<1> QED BY <1>2, <1>5, <1>6, <1>7 DEF q

\* Longer programs, whose operations may follow each other.
LEMMA Longer ==
  ASSUME NEW t \in Tasks, NEW a \in OpsOf(t), NEW q, Program(t, q),
         \A i \in 1 .. Len(q) : q[i] \in Later(a)
  PROVE  /\ Program(t, <<a>> \o q) /\ <<a>> \o q # <<>> /\ Head(<<a>> \o q) = a
         /\ \A op : Within(op, <<a>> \o q) <=> a = op \/ Within(op, q)
<1> DEFINE p == <<a>>
<1>1. /\ Program(t, p) /\ p # <<>> /\ Head(p) = a
      /\ \A op : Within(op, p) <=> a = op
      /\ \A i \in 1 .. Len(p) : p[i] = a
  BY One
<1> HIDE DEF p
<1>2. \A i \in 1 .. Len(p) : \A j \in 1 .. Len(q) : q[j] \in Later(p[i])
  BY <1>1
<1>3. /\ Program(t, p \o q) /\ p \o q # <<>> /\ Head(p \o q) = a
      /\ \A op : Within(op, p \o q) <=> Within(op, p) \/ Within(op, q)
  BY <1>1, <1>2, Joined
<1> QED BY <1>1, <1>3 DEF p

\* What a program is made of, as a set.
LEMMA Made ==
  ASSUME NEW q, NEW i \in 1 .. Len(q), NEW op
  PROVE  q[i] = op => Within(op, q)
BY DEF Within

\* An operation is replaced by others.
LEMMA Replaced ==
  ASSUME NEW t \in Tasks, NEW q, Program(t, q), q # <<>>, NEW p, Program(t, p),
         \A i \in 1 .. Len(p) : Later(Head(q)) \subseteq Later(p[i])
  PROVE  /\ Program(t, p \o Tail(q))
         /\ p # <<>> => p \o Tail(q) # <<>> /\ Head(p \o Tail(q)) = Head(p)
         /\ p = <<>> => p \o Tail(q) = Tail(q)
         /\ \A op : Within(op, p \o Tail(q)) <=> Within(op, p) \/ Within(op, Tail(q))
<1>1. Program(t, Tail(q)) /\ \A i \in 1 .. Len(Tail(q)) : Tail(q)[i] \in Later(Head(q))
  BY Shortened
<1>2. \A i \in 1 .. Len(p) : \A j \in 1 .. Len(Tail(q)) : Tail(q)[j] \in Later(p[i])
  BY <1>1
<1> QED BY <1>1, <1>2, Joined

LEMMA More ==
  ASSUME NEW t \in Tasks,
         NEW a \in OpsOf(t), NEW b \in OpsOf(t), b \in Later(a),
         NEW c \in OpsOf(t), c \in Later(a) \cap Later(b)
  PROVE  /\ Program(t, <<a, b, c>>) /\ <<a, b, c>> # <<>> /\ Head(<<a, b, c>>) = a
         /\ \A op : Within(op, <<a, b, c>>) <=> a = op \/ b = op \/ c = op
         /\ \A i \in 1 .. Len(<<a, b, c>>) : <<a, b, c>>[i] \in {a, b, c}
<1>1. a \in Ops /\ b \in Ops /\ c \in Ops
  BY OpsOfTask
<1>2. <<a, b, c>> # <<>> /\ Head(<<a, b, c>>) = a
  OBVIOUS
<1> DEFINE q == <<a, b, c>>
<1>4. q \in Seq(Ops) /\ Len(q) = 3 /\ q[1] = a /\ q[2] = b /\ q[3] = c
  BY <1>1
<1> HIDE DEF q
<1>5. Program(t, q)
  BY <1>4 DEF Program
<1>6. \A op : Within(op, q) <=> a = op \/ b = op \/ c = op
  <2>1. \A i \in 1 .. Len(q) : i = 1 \/ i = 2 \/ i = 3
    BY <1>4
  <2>2. 1 \in 1 .. Len(q) /\ 2 \in 1 .. Len(q) /\ 3 \in 1 .. Len(q)
    BY <1>4
  <2> QED BY <1>4, <2>1, <2>2 DEF Within
<1>7. \A i \in 1 .. Len(q) : q[i] \in {a, b, c}
  BY <1>4
<1> QED BY <1>2, <1>5, <1>6, <1>7 DEF q

----------------------------------------------------------------------------
(* What a step does to the tasks.                                          *)

LEMMA TodoSet ==
  ASSUME TodoInv, NEW t \in Tasks, NEW q, Program(t, q), todo' = [todo EXCEPT ![t] = q]
  PROVE  TodoInv' /\ todo'[t] = q /\ \A s \in Tasks : s # t => todo'[s] = todo[s]
<1>1. q \in Seq(Ops) /\ todo \in [Tasks -> Seq(Ops)] /\ \A s \in Tasks : Program(s, todo[s])
  BY DEF TodoInv, Program
<1>2. todo'[t] = q /\ \A s \in Tasks : s # t => todo'[s] = todo[s]
  BY <1>1
<1>3. todo' \in [Tasks -> Seq(Ops)]
  BY <1>1
<1>4. \A s \in Tasks : Program(s, todo'[s])
  BY <1>1, <1>2
<1> QED BY <1>2, <1>3, <1>4 DEF TodoInv

\* The operation that a task has done is gone.
Shrunk(t) == todo[t] # <<>> /\ todo' = [todo EXCEPT ![t] = Tail(@)]

LEMMA ShrunkTodo ==
  ASSUME TodoInv, NEW t \in Tasks, Shrunk(t)
  PROVE  /\ TodoInv' /\ \A s \in Tasks : s # t => todo'[s] = todo[s]
         /\ todo'[t] = Tail(todo[t])
         /\ Head(todo[t]) \in OpsOf(t) /\ Head(todo[t]) \in Ops
         /\ \A op : Has(t, op)' => Has(t, op)
         /\ \A op : Has(t, op) => Head(todo[t]) = op \/ Has(t, op)'
         /\ \A i \in 1 .. Len(todo'[t]) : todo'[t][i] \in Later(Head(todo[t]))
         /\ \A op : Has(t, op)' => op \in Later(Head(todo[t]))
<1> PICK q : q = todo[t]
  OBVIOUS
<1> PICK r : r = Tail(q)
  OBVIOUS
<1>1. Program(t, q) /\ q # <<>> /\ todo' = [todo EXCEPT ![t] = r]
  BY DEF TodoInv, Shrunk
<1>2. /\ Program(t, r) /\ Head(q) \in OpsOf(t) /\ Head(q) \in Ops
      /\ \A i \in 1 .. Len(r) : r[i] \in Later(Head(q))
      /\ r # <<>> => Head(r) \in Later(Head(q))
      /\ \A op : Within(op, r) => Within(op, q)
      /\ \A op : Within(op, q) => Head(q) = op \/ Within(op, r)
  BY <1>1, Shortened
<1>3. TodoInv' /\ todo'[t] = r /\ \A s \in Tasks : s # t => todo'[s] = todo[s]
  BY <1>1, <1>2, TodoSet
<1>4. \A op : Within(op, r) => op \in Later(Head(q))
  BY <1>2 DEF Within
<1> QED BY <1>2, <1>3, <1>4 DEF Has

\* The operation is replaced by others.
LEMMA GoesTodo ==
  ASSUME TodoInv, NEW t \in Tasks, todo[t] # <<>>, NEW p, Program(t, p), Goes(t, p),
         \A i \in 1 .. Len(p) : Later(Head(todo[t])) \subseteq Later(p[i])
  PROVE  /\ TodoInv' /\ \A s \in Tasks : s # t => todo'[s] = todo[s]
         /\ cpu' = IF todo'[t] = <<>> THEN "none" ELSE t
         /\ p = <<>> => Shrunk(t)
         /\ p # <<>> => todo'[t] # <<>> /\ Head(todo'[t]) = Head(p)
         /\ \A op : Has(t, op)' => Within(op, p) \/ Has(t, op)
         /\ \A op : Within(op, p) => Has(t, op)'
         /\ \A op : Has(t, op) => Head(todo[t]) = op \/ Has(t, op)'
         /\ \A op : Has(t, op)' => Within(op, p) \/ op \in Later(Head(todo[t]))
<1> PICK q : q = todo[t]
  OBVIOUS
<1> PICK r : r = p \o Tail(q)
  OBVIOUS
<1>1. Program(t, q) /\ q # <<>> /\ todo' = [todo EXCEPT ![t] = r] /\ todo[t] = q
  BY DEF TodoInv, Goes
<1>2. /\ Program(t, r)
      /\ p # <<>> => r # <<>> /\ Head(r) = Head(p)
      /\ p = <<>> => r = Tail(q)
      /\ \A op : Within(op, r) <=> Within(op, p) \/ Within(op, Tail(q))
  BY <1>1, Replaced
<1>3. /\ \A op : Within(op, Tail(q)) => Within(op, q)
      /\ \A op : Within(op, q) => Head(q) = op \/ Within(op, Tail(q))
      /\ \A i \in 1 .. Len(Tail(q)) : Tail(q)[i] \in Later(Head(q))
  BY <1>1, Shortened
<1>4. TodoInv' /\ todo'[t] = r /\ \A s \in Tasks : s # t => todo'[s] = todo[s]
  BY <1>1, <1>2, TodoSet
<1>5. cpu' = IF todo'[t] = <<>> THEN "none" ELSE t
  BY DEF Goes
<1>6. p = <<>> => Shrunk(t)
  BY <1>1, <1>2 DEF Shrunk
<1>7. \A op : Within(op, Tail(q)) => op \in Later(Head(q))
  BY <1>3 DEF Within
<1> QED BY <1>1, <1>2, <1>3, <1>4, <1>5, <1>6, <1>7 DEF Has

LEMMA BeginTodo ==
  ASSUME TodoInv, NEW t \in Tasks, NEW p, Program(t, p), Begin(t, p)
  PROVE  /\ TodoInv' /\ \A s \in Tasks : s # t => todo'[s] = todo[s]
         /\ todo'[t] = p /\ cpu' = IF p = <<>> THEN "none" ELSE t
BY TodoSet DEF Begin

LEMMA TaskFacts == "none" \notin Tasks /\ {"reader", "app", "ping"} = Tasks
BY DEF Tasks

\* Everything about the lock but who has to release it depends on who waits.
LEMMA LockSame ==
  ASSUME LockInv, UNCHANGED <<lock, wait>>,
         \A s \in Tasks : Has(s, "release")' <=> Has(s, "release")
  PROVE  LockInv'
<1>1. \A i \in 1 .. Len(lock) : lock[i] \in Tasks
  BY DEF LockInv
<1> QED BY <1>1 DEF LockInv

LEMMA TaskGoes ==
  ASSUME TaskInv, NEW t \in Tasks, cpu = t, NEW p, Program(t, p), Goes(t, p),
         \A i \in 1 .. Len(p) : Later(Head(todo[t])) \subseteq Later(p[i]),
         ~Within("release", p), Head(todo[t]) # "release", UNCHANGED <<wait, lock>>
  PROVE  TaskInv'
<1>1. todo[t] # <<>> /\ wait[t] = "no" /\ t # "none" /\ TodoInv
  BY TaskFacts DEF TaskInv, WaitInv
<1>2. /\ TodoInv' /\ \A s \in Tasks : s # t => todo'[s] = todo[s]
      /\ cpu' = IF todo'[t] = <<>> THEN "none" ELSE t
      /\ Has(t, "release")' <=> Has(t, "release")
  BY <1>1, GoesTodo
<1>3. WaitInv'
  <2>1. ASSUME NEW s \in Tasks, s # t
        PROVE  /\ wait'[s] = "put" => todo'[s] # <<>> /\ Head(todo'[s]) \in Puts
               /\ wait'[s] \in {"drain", "gone"} => \A i \in 1 .. Len(todo'[s]) : todo'[s][i] \in Rest
               /\ cpu' # s /\ (wait'[s] = "no" => todo'[s] = <<>>)
    BY <1>2, <2>1, TaskFacts DEF TaskInv, WaitInv
  <2>2. /\ wait'[t] = "no" /\ (cpu' = t => todo'[t] # <<>>)
        /\ cpu' # t => todo'[t] = <<>>
    BY <1>1, <1>2
  <2>3. wait' \in [Tasks -> {"no", "drain", "put", "gone"}]
    BY DEF TaskInv, WaitInv
  <2> QED BY <2>1, <2>2, <2>3 DEF WaitInv
<1>4. LockInv'
  <2>1. \A s \in Tasks : Has(s, "release")' <=> Has(s, "release")
    BY <1>2 DEF Has
  <2> QED BY <2>1, LockSame DEF TaskInv
<1> QED BY <1>2, <1>3, <1>4 DEF TaskInv

LEMMA TaskBegin ==
  ASSUME TaskInv, NEW t \in Tasks, cpu = "none", todo[t] = <<>>, wait[t] = "no",
         NEW p, Program(t, p), Begin(t, p), ~Within("release", p), UNCHANGED <<wait, lock>>
  PROVE  TaskInv'
<1>1. todo[t] = <<>> /\ wait[t] = "no" /\ t # "none" /\ TodoInv /\ cpu = "none"
  BY TaskFacts DEF TaskInv
<1>2. /\ TodoInv' /\ \A s \in Tasks : s # t => todo'[s] = todo[s]
      /\ todo'[t] = p /\ cpu' = IF p = <<>> THEN "none" ELSE t
  BY <1>1, BeginTodo
<1>3. WaitInv'
  <2>1. ASSUME NEW s \in Tasks, s # t
        PROVE  /\ wait'[s] = "put" => todo'[s] # <<>> /\ Head(todo'[s]) \in Puts
               /\ wait'[s] \in {"drain", "gone"} => \A i \in 1 .. Len(todo'[s]) : todo'[s][i] \in Rest
               /\ cpu' # s /\ (wait'[s] = "no" => todo'[s] = <<>>)
    BY <1>1, <1>2, <2>1, TaskFacts DEF TaskInv, WaitInv
  <2>2. /\ wait'[t] = "no" /\ (cpu' = t => todo'[t] # <<>>)
        /\ cpu' # t => todo'[t] = <<>>
    BY <1>1, <1>2
  <2>3. wait' \in [Tasks -> {"no", "drain", "put", "gone"}]
    BY DEF TaskInv, WaitInv
  <2> QED BY <2>1, <2>2, <2>3 DEF WaitInv
<1>4. LockInv'
  <2>1. \A s \in Tasks : Has(s, "release")' <=> Has(s, "release")
    BY <1>1, <1>2, NoProgram DEF Has
  <2> QED BY <2>1, LockSame DEF TaskInv
<1> QED BY <1>2, <1>3, <1>4 DEF TaskInv

\* A task goes on to wait for something else than a put.
LEMMA TaskSuspends ==
  ASSUME TaskInv, NEW t \in Tasks, cpu = t, Shrunk(t), NEW w \in {"drain", "gone"},
         wait' = [wait EXCEPT ![t] = w], cpu' = "none",
         Head(todo[t]) \in {"head", "switch", "body", "end", "frame", "close", "closeTransport"},
         lock' = IF w = "drain" THEN Append(lock, t) ELSE lock
  PROVE  TaskInv'
<1>1. wait[t] = "no" /\ t # "none" /\ TodoInv
  BY TaskFacts DEF TaskInv, WaitInv
<1>2. /\ TodoInv' /\ \A s \in Tasks : s # t => todo'[s] = todo[s]
      /\ \A i \in 1 .. Len(todo'[t]) : todo'[t][i] \in Later(Head(todo[t]))
      /\ Has(t, "release")' => Has(t, "release")
  BY <1>1, ShrunkTodo
<1>3. \A i \in 1 .. Len(todo'[t]) : todo'[t][i] \in Rest
  BY <1>2, LaterFacts
<1>4. ~Has(t, "release") /\ ~Has(t, "release")'
  <2>1. ~Has(t, "release")'
    BY <1>3 DEF Has, Within, Rest
  <2> QED BY <2>1, <1>1, ShrunkTodo
<1>5. /\ wait'[t] = w /\ wait' \in [Tasks -> {"no", "drain", "put", "gone"}]
      /\ \A s \in Tasks : s # t => wait'[s] = wait[s]
  BY DEF TaskInv, WaitInv
<1>6. WaitInv'
  <2>1. ASSUME NEW s \in Tasks, s # t
        PROVE  /\ wait'[s] = "put" => todo'[s] # <<>> /\ Head(todo'[s]) \in Puts
               /\ wait'[s] \in {"drain", "gone"} => \A i \in 1 .. Len(todo'[s]) : todo'[s][i] \in Rest
               /\ cpu' # s /\ (wait'[s] = "no" => todo'[s] = <<>>)
    BY <1>2, <1>5, <2>1, TaskFacts DEF TaskInv, WaitInv
  <2> QED BY <1>1, <1>3, <1>5, <2>1 DEF WaitInv
<1>7. lock \in Seq(Tasks) /\ \A i \in 1 .. Len(lock) : lock[i] # t
  BY <1>1, <1>4 DEF TaskInv, LockInv
<1>8. CASE w = "gone"
  <2>1. lock' = lock /\ \A s \in Tasks : Has(s, "release")' <=> Has(s, "release")
    BY <1>2, <1>4, <1>8 DEF Has
  <2>2. LockInv
    BY DEF TaskInv
  <2>3. ASSUME NEW i \in 1 .. Len(lock)
        PROVE  (wait[lock[i]] = "drain" \/ Has(lock[i], "release"))'
    <3>1. PICK s : s = lock[i]
      OBVIOUS
    <3>2. s \in Tasks /\ s # t /\ lock'[i] = s
      BY <3>1, <1>7, <2>1
    <3>3. wait[s] = "drain" \/ Has(s, "release")
      BY <3>1, <2>2 DEF LockInv
    <3>4. wait'[s] = "drain" \/ Has(s, "release")'
      BY <3>2, <3>3, <2>1, <1>5
    <3> QED BY <3>2, <3>4 DEF Has
  <2>4. \A s \in Tasks : wait'[s] = "drain" => \E i \in 1 .. Len(lock) : lock[i] = s
    BY <2>2, <1>5, <1>8 DEF LockInv
  <2>5. LockInv'
    BY <2>1, <2>2, <2>3, <2>4 DEF LockInv
  <2> QED BY <1>2, <1>6, <2>5 DEF TaskInv
<1>9. CASE w = "drain"
  <2>1. /\ lock' \in Seq(Tasks) /\ Len(lock') = Len(lock) + 1 /\ Len(lock) \in Nat
        /\ lock'[Len(lock) + 1] = t /\ \A i \in 1 .. Len(lock) : lock'[i] = lock[i]
    BY <1>7, <1>9, AppendProperties
  <2>2. \A i \in 1 .. Len(lock') : i \in 1 .. Len(lock) \/ i = Len(lock) + 1
    BY <2>1
  <2>3. \A i, j \in 1 .. Len(lock') : i # j => lock'[i] # lock'[j]
    BY <1>7, <2>1, <2>2 DEF TaskInv, LockInv
  <2>4. \A s \in Tasks : Has(s, "release")' <=> Has(s, "release")
    BY <1>2, <1>4 DEF Has
  <2>5. ASSUME NEW i \in 1 .. Len(lock')
        PROVE  (wait[lock[i]] = "drain" \/ Has(lock[i], "release"))'
    <3>1. PICK s : s = lock'[i]
      OBVIOUS
    <3>2. CASE i = Len(lock) + 1
      BY <3>2, <2>1, <1>5, <1>9
    <3>3. CASE i \in 1 .. Len(lock)
      <4>1. s = lock[i] /\ s \in Tasks /\ s # t
        BY <3>1, <3>3, <2>1, <1>7
      <4>2. wait[s] = "drain" \/ Has(s, "release")
        BY <3>3, <4>1 DEF TaskInv, LockInv
      <4>3. wait'[s] = "drain" \/ Has(s, "release")'
        BY <4>1, <4>2, <2>4, <1>5
      <4> QED BY <3>1, <4>3 DEF Has
    <3> QED BY <2>2, <3>2, <3>3
  <2>6. ASSUME NEW s \in Tasks, wait'[s] = "drain"
        PROVE  \E i \in 1 .. Len(lock') : lock'[i] = s
    <3>1. CASE s = t
      <4>1. Len(lock) + 1 \in 1 .. Len(lock')
        BY <2>1
      <4> QED BY <3>1, <4>1, <2>1
    <3>2. CASE s # t
      <4>1. PICK i \in 1 .. Len(lock) : lock[i] = s
        BY <2>6, <3>2, <1>5 DEF TaskInv, LockInv
      <4>2. i \in 1 .. Len(lock') /\ lock'[i] = s
        BY <4>1, <2>1
      <4> QED BY <4>2
    <3> QED BY <3>1, <3>2
  <2>7. ASSUME NEW s \in Tasks, Has(s, "release")'
        PROVE  lock' # <<>> /\ Head(lock') = s
    <3>1. lock # <<>> /\ Head(lock) = s
      BY <2>4, <2>7 DEF TaskInv, LockInv
    <3>2. Len(lock) # 0 /\ Head(lock) = lock[1]
      BY <3>1, <1>7, EmptySeq
    <3>3. 1 \in 1 .. Len(lock) /\ Len(lock') # 0
      BY <3>2, <2>1
    <3> QED BY <3>1, <3>2, <3>3, <2>1, EmptySeq
  <2>8. LockInv'
    BY <2>1, <2>3, <2>5, <2>6, <2>7 DEF LockInv
  <2> QED BY <1>2, <1>6, <2>8 DEF TaskInv
<1> QED BY <1>8, <1>9

----------------------------------------------------------------------------
(* What else a step does to the lock.                                      *)

Others(t) == \A s \in Tasks : s # t => todo'[s] = todo[s]

LEMMA FirstOnly ==
  ASSUME NEW t \in Tasks, NEW q, Program(t, q), NEW op \in First, Within(op, q)
  PROVE  q # <<>> /\ Head(q) = op /\ q[1] = op /\ 1 \in 1 .. Len(q)
<1>1. PICK i \in 1 .. Len(q) : q[i] = op
  BY DEF Within
<1>2. q \in Seq(Ops) /\ Len(q) \in Nat
  BY DEF Program
<1>3. q # <<>> /\ Head(q) = q[1] /\ 1 \in 1 .. Len(q)
  BY <1>1, <1>2, EmptySeq
<1>4. CASE i = 1
  BY <1>1, <1>3, <1>4
<1>5. CASE i # 1
  <2>1. 1 < i
    BY <1>1, <1>2, <1>5
  <2>2. q[i] \in Later(q[1]) /\ q[1] \in Ops
    BY <1>2, <1>3, <2>1 DEF Program
  <2>3. op \in Rest \cup {"release", "forget", "clear"}
    BY <1>1, <2>2, LaterFacts
  <2> QED BY <2>3 DEF First, Rest
<1> QED BY <1>4, <1>5

\* The operations that come first only, but for the puts, are those of the task that runs.
LEMMA Running ==
  ASSUME TaskInv, NEW t \in Tasks, NEW op \in {"head", "switch", "frame", "close"}, Has(t, op)
  PROVE  cpu = t /\ Head(todo[t]) = op
<1>1. op \in First /\ op \notin Rest /\ op \notin Puts
  BY DEF First, Rest, Puts
<1>2. Program(t, todo[t])
  BY DEF TaskInv, TodoInv
<1>3. todo[t] # <<>> /\ Head(todo[t]) = op /\ todo[t][1] = op /\ 1 \in 1 .. Len(todo[t])
  BY <1>1, <1>2, FirstOnly DEF Has
<1>4. wait[t] \notin {"put", "drain", "gone"}
  BY <1>1, <1>3 DEF TaskInv, WaitInv
<1> QED BY <1>3, <1>4 DEF TaskInv, WaitInv

LEMMA LockKept ==
  ASSUME LockInv, lock' = lock,
         \A s \in Tasks : Has(s, "release")' <=> Has(s, "release"),
         \A s \in Tasks : wait'[s] = "drain" <=> wait[s] = "drain"
  PROVE  LockInv'
<1>1. ASSUME NEW i \in 1 .. Len(lock)
      PROVE  (wait[lock[i]] = "drain" \/ Has(lock[i], "release"))'
  <2>1. PICK s \in Tasks : s = lock[i]
    BY DEF LockInv
  <2>2. wait[s] = "drain" \/ Has(s, "release")
    BY <2>1 DEF LockInv
  <2>3. wait'[s] = "drain" \/ Has(s, "release")'
    BY <2>2
  <2> QED BY <2>1, <2>3 DEF Has
<1>2. \A s \in Tasks : wait'[s] = "drain" => \E i \in 1 .. Len(lock) : lock[i] = s
  BY DEF LockInv
<1>3. \A s \in Tasks : Has(s, "release")' => lock # <<>> /\ Head(lock) = s
  BY DEF LockInv
<1> QED BY <1>1, <1>2, <1>3 DEF LockInv

\* The one at the head of the lock leaves it.
LEMMA LockLeft ==
  ASSUME LockInv, NEW t \in Tasks, lock # <<>>, Head(lock) = t, lock' = Tail(lock),
         Others(t), \A s \in Tasks : ~Has(s, "release")',
         wait' \in [Tasks -> {"no", "drain", "put", "gone"}],
         wait'[t] # "drain", \A s \in Tasks : s # t => wait'[s] = wait[s]
  PROVE  LockInv'
<1>1. lock \in Seq(Tasks)
  BY DEF LockInv
<1> PICK n \in Nat : n = Len(lock)
  BY <1>1
<1>2. n > 0 /\ Head(lock) = lock[1] /\ lock' \in Seq(Tasks) /\ Len(lock') = n - 1
      /\ \A i \in 1 .. n - 1 : lock'[i] = lock[i + 1]
  BY <1>1, EmptySeq, HeadTailProperties
<1>3. 1 \in 1 .. n /\ \A i \in 1 .. n - 1 : i + 1 \in 1 .. n /\ i + 1 # 1
  BY <1>2
<1>4. \A i, j \in 1 .. n : i # j => lock[i] # lock[j]
  BY DEF LockInv
<1>5. ASSUME NEW i \in 1 .. n - 1, NEW j \in 1 .. n - 1, i # j
      PROVE  lock'[i] # lock'[j]
  <2>1. i + 1 \in 1 .. n /\ j + 1 \in 1 .. n /\ i + 1 # j + 1
    BY <1>5
  <2> QED BY <2>1, <1>2, <1>4
<1>6. ASSUME NEW i \in 1 .. n - 1
      PROVE  wait'[lock'[i]] = "drain"
  <2>1. PICK s \in Tasks : s = lock[i + 1]
    BY <1>1, <1>3
  <2>2. s # t
    BY <2>1, <1>2, <1>3, <1>4
  <2>3. wait[s] = "drain" \/ Has(s, "release")
    BY <2>1, <1>3 DEF LockInv
  <2>4. Has(s, "release")' <=> Has(s, "release")
    BY <2>2 DEF Others, Has
  <2>5. wait'[s] = "drain"
    BY <2>2, <2>3, <2>4
  <2> QED BY <2>1, <2>5, <1>2
<1>7. ASSUME NEW s \in Tasks, wait'[s] = "drain"
      PROVE  \E i \in 1 .. n - 1 : lock'[i] = s
  <2>1. s # t /\ wait[s] = "drain"
    BY <1>7
  <2>2. PICK j \in 1 .. n : lock[j] = s
    BY <2>1 DEF LockInv
  <2>3. j # 1
    BY <2>1, <2>2, <1>2
  <2>4. j - 1 \in 1 .. n - 1 /\ (j - 1) + 1 = j
    BY <2>3
  <2>5. lock'[j - 1] = s
    BY <2>2, <2>4, <1>2
  <2> QED BY <2>4, <2>5
<1>8. \A i \in 1 .. Len(lock') : (wait[lock[i]] = "drain" \/ Has(lock[i], "release"))'
  BY <1>2, <1>6
<1> QED BY <1>2, <1>5, <1>7, <1>8 DEF LockInv

\* A step of one task, and what the others wait for.
LEMMA WaitOthers ==
  ASSUME WaitInv, NEW t \in Tasks, Others(t), wait' \in [Tasks -> {"no", "drain", "put", "gone"}],
         \A s \in Tasks : s # t => wait'[s] = wait[s],
         cpu \in {"none", t}, cpu' \in {"none", t},
         wait'[t] = "put" => todo'[t] # <<>> /\ Head(todo'[t]) \in Puts,
         wait'[t] \in {"drain", "gone"} => \A i \in 1 .. Len(todo'[t]) : todo'[t][i] \in Rest,
         cpu' = t => todo'[t] # <<>> /\ wait'[t] = "no",
         cpu' # t /\ wait'[t] = "no" => todo'[t] = <<>>
  PROVE  WaitInv'
<1>1. ASSUME NEW s \in Tasks, s # t
      PROVE  /\ wait'[s] = "put" => todo'[s] # <<>> /\ Head(todo'[s]) \in Puts
             /\ wait'[s] \in {"drain", "gone"} => \A i \in 1 .. Len(todo'[s]) : todo'[s][i] \in Rest
             /\ cpu' # s /\ (wait'[s] = "no" => todo'[s] = <<>>)
  <2>1. todo'[s] = todo[s] /\ wait'[s] = wait[s] /\ cpu # s /\ cpu' # s
    BY <1>1, TaskFacts DEF Others
  <2> QED BY <2>1 DEF WaitInv
<1> QED BY <1>1 DEF WaitInv

----------------------------------------------------------------------------
(* A task has done h, and has to do N in its place.                        *)
Did(t, h, N) ==
  /\ Others(t) /\ todo[t] # <<>> /\ Head(todo[t]) = h /\ Has(t, h)
  /\ \A op : Has(t, op)' => op \in N \/ (Has(t, op) /\ op \in Later(h))
  /\ \A op \in N : Has(t, op)'
  /\ \A op : Has(t, op) => op = h \/ Has(t, op)'

\* An idle task has to do N.
Started(t, N) ==
  /\ Others(t) /\ todo[t] = <<>> /\ cpu = "none" /\ wait[t] = "no"
  /\ \A op : ~Has(t, op)
  /\ \A op : Has(t, op)' <=> op \in N

LEMMA TaskDoes ==
  ASSUME TaskInv, NEW t \in Tasks, NEW h, Does(t, h), NEW p, NEW N, Program(t, p), Goes(t, p),
         \A op : Within(op, p) <=> op \in N,
         \A op \in N : Later(h) \subseteq Later(op), "release" \notin N,
         h # "release", UNCHANGED <<wait, lock>>
  PROVE  TaskInv' /\ Did(t, h, N)
<1>1. cpu = t /\ todo[t] # <<>> /\ Head(todo[t]) = h
  BY DEF Does
<1>6. \A i \in 1 .. Len(p) : Later(h) \subseteq Later(p[i])
  BY DEF Within
<1>2. TaskInv'
  BY <1>1, <1>6, TaskGoes
<1>3. Program(t, todo[t]) /\ TodoInv
  BY DEF TaskInv, TodoInv
<1>4. Has(t, h)
  BY <1>1, <1>3, Shortened DEF Has
<1>5. /\ \A op : Has(t, op)' => Within(op, p) \/ Has(t, op)
      /\ \A op : Within(op, p) => Has(t, op)'
      /\ \A op : Has(t, op) => Head(todo[t]) = op \/ Has(t, op)'
      /\ \A op : Has(t, op)' => Within(op, p) \/ op \in Later(Head(todo[t]))
      /\ Others(t)
  BY <1>1, <1>3, <1>6, GoesTodo DEF Others
<1> QED BY <1>1, <1>2, <1>4, <1>5 DEF Did

LEMMA TaskDoesOnly ==
  ASSUME TaskInv, NEW t \in Tasks, NEW h, Does(t, h), Goes(t, <<>>), h # "release",
         UNCHANGED <<wait, lock>>
  PROVE  TaskInv' /\ Did(t, h, {})
<1>1. Program(t, <<>>) /\ \A op : ~Within(op, <<>>)
  BY NoProgram
<1> QED BY <1>1, TaskDoes

LEMMA TaskStarts ==
  ASSUME TaskInv, NEW t \in Tasks, cpu = "none", todo[t] = <<>>, wait[t] = "no",
         NEW p, NEW N, Program(t, p), Begin(t, p),
         \A op : Within(op, p) <=> op \in N, "release" \notin N, UNCHANGED <<wait, lock>>
  PROVE  TaskInv' /\ Started(t, N)
<1>1. TaskInv'
  BY TaskBegin
<1>2. todo'[t] = p /\ Others(t)
  BY BeginTodo DEF Others, TaskInv
<1> QED BY <1>1, <1>2, NoProgram DEF Started, Has

\* A step that leaves what is to do as it is.
LEMMA TaskStays ==
  ASSUME TaskInv, UNCHANGED taskVars
  PROVE  TaskInv' /\ \A s \in Tasks : todo'[s] = todo[s]
BY DEF TaskInv, TodoInv, WaitInv, LockInv, taskVars, Has

LEMMA TaskDrained ==
  ASSUME TaskInv, NEW t \in Tasks, Drained(t)
  PROVE  TaskInv' /\ todo' = todo
<1>1. /\ cpu = "none" /\ wait[t] = "drain" /\ Head(lock) = t /\ lock' = Tail(lock)
      /\ wait' = [wait EXCEPT ![t] = "no"] /\ cpu' = (IF todo[t] = <<>> THEN "none" ELSE t)
      /\ todo' = todo
  BY DEF Drained, Drains
<1>2. wait' \in [Tasks -> {"no", "drain", "put", "gone"}] /\ wait'[t] = "no"
      /\ \A s \in Tasks : s # t => wait'[s] = wait[s]
  BY <1>1 DEF TaskInv, WaitInv
<1>3. TodoInv' /\ Others(t)
  BY <1>1 DEF TaskInv, TodoInv, Others
<1>4. WaitInv'
  BY <1>1, <1>2, <1>3, WaitOthers, TaskFacts DEF TaskInv
<1>5. \E i \in 1 .. Len(lock) : lock[i] = t
  BY <1>1 DEF TaskInv, LockInv
<1>6. lock # <<>>
  BY <1>5
<1>7. ~Has(t, "release")
  BY <1>1 DEF TaskInv, WaitInv, Has, Within, Rest
<1>8. \A s \in Tasks : ~Has(s, "release")
  BY <1>1, <1>7 DEF TaskInv, LockInv
<1>9. \A s \in Tasks : ~Has(s, "release")'
  BY <1>1, <1>8 DEF Has
<1>10. LockInv'
  BY <1>1, <1>2, <1>3, <1>6, <1>9, LockLeft DEF TaskInv
<1> QED BY <1>1, <1>3, <1>4, <1>10 DEF TaskInv

LEMMA TaskRelease ==
  ASSUME TaskInv, NEW t \in Tasks, Release(t)
  PROVE  TaskInv' /\ Did(t, "release", {})
<1>1. /\ cpu = t /\ todo[t] # <<>> /\ Head(todo[t]) = "release" /\ lock' = Tail(lock)
      /\ Goes(t, <<>>) /\ wait' = wait /\ wait[t] = "no" /\ TodoInv /\ Program(t, todo[t])
  BY DEF Release, Does, TaskInv, WaitInv, TodoInv
<1>2. Program(t, <<>>) /\ (\A op : ~Within(op, <<>>)) /\ \A i \in 1 .. Len(<<>>) : FALSE
  BY NoProgram
<1>3. /\ TodoInv' /\ Others(t) /\ cpu' = IF todo'[t] = <<>> THEN "none" ELSE t
      /\ \A op : Has(t, op)' => Has(t, op) /\ op \in Later("release")
      /\ \A op : Has(t, op) => op = "release" \/ Has(t, op)'
  BY <1>1, <1>2, GoesTodo DEF Others
<1>4. Has(t, "release")
  BY <1>1, Shortened DEF Has
<1>5. ~Has(t, "release")'
  BY <1>3, LaterOf DEF Rest
<1>6. lock # <<>> /\ Head(lock) = t /\ \A s \in Tasks : Has(s, "release") => s = t
  BY <1>4 DEF TaskInv, LockInv
<1>7. \A s \in Tasks : ~Has(s, "release")'
  BY <1>3, <1>5, <1>6 DEF Others, Has
<1>8. wait' \in [Tasks -> {"no", "drain", "put", "gone"}] /\ wait'[t] = "no"
  BY <1>1 DEF TaskInv, WaitInv
<1>9. LockInv'
  BY <1>1, <1>3, <1>6, <1>7, <1>8, LockLeft DEF TaskInv
<1>10. WaitInv'
  BY <1>1, <1>3, <1>8, WaitOthers, TaskFacts DEF TaskInv
<1>11. Did(t, "release", {})
  BY <1>1, <1>3, <1>4 DEF Did
<1> QED BY <1>3, <1>9, <1>10, <1>11 DEF TaskInv

LEMMA TaskGone ==
  ASSUME TaskInv, NEW t \in Tasks, Gone(t)
  PROVE  TaskInv' /\ todo' = todo
<1>1. /\ cpu = "none" /\ wait[t] = "gone" /\ lock' = lock
      /\ wait' = [wait EXCEPT ![t] = "no"] /\ cpu' = (IF todo[t] = <<>> THEN "none" ELSE t)
      /\ todo' = todo
  BY DEF Gone
<1>2. wait' \in [Tasks -> {"no", "drain", "put", "gone"}] /\ wait'[t] = "no"
      /\ \A s \in Tasks : s # t => wait'[s] = wait[s]
  BY <1>1 DEF TaskInv, WaitInv
<1>3. TodoInv' /\ Others(t)
  BY <1>1 DEF TaskInv, TodoInv, Others
<1>4. WaitInv'
  BY <1>1, <1>2, <1>3, WaitOthers, TaskFacts DEF TaskInv
<1>5. \A s \in Tasks : Has(s, "release")' <=> Has(s, "release")
  BY <1>1 DEF Has
<1>6. \A s \in Tasks : wait'[s] = "drain" <=> wait[s] = "drain"
  BY <1>1, <1>2
<1>7. LockInv'
  BY <1>1, <1>5, <1>6, LockKept DEF TaskInv
<1> QED BY <1>1, <1>3, <1>4, <1>7 DEF TaskInv

LEMMA TaskPutWaits ==
  ASSUME TaskInv, NEW t \in Tasks, PutWaits(t)
  PROVE  TaskInv' /\ todo' = todo
<1>1. /\ cpu = t /\ wait[t] = "no" /\ Head(todo[t]) \in Puts /\ lock' = lock
      /\ wait' = [wait EXCEPT ![t] = "put"] /\ cpu' = "none" /\ todo' = todo
  BY DEF PutWaits
<1>2. wait' \in [Tasks -> {"no", "drain", "put", "gone"}] /\ wait'[t] = "put"
      /\ \A s \in Tasks : s # t => wait'[s] = wait[s]
  BY <1>1 DEF TaskInv, WaitInv
<1>3. TodoInv' /\ Others(t) /\ todo[t] # <<>>
  BY <1>1 DEF TaskInv, TodoInv, Others, WaitInv
<1>4. WaitInv'
  BY <1>1, <1>2, <1>3, WaitOthers, TaskFacts DEF TaskInv
<1>5. \A s \in Tasks : Has(s, "release")' <=> Has(s, "release")
  BY <1>1 DEF Has
<1>6. \A s \in Tasks : wait'[s] = "drain" <=> wait[s] = "drain"
  BY <1>1, <1>2
<1>7. LockInv'
  BY <1>1, <1>5, <1>6, LockKept DEF TaskInv
<1> QED BY <1>1, <1>3, <1>4, <1>7 DEF TaskInv

LEMMA TaskPut ==
  ASSUME TaskInv, NEW t \in Tasks, NEW h \in Puts, Put(t, h)
  PROVE  TaskInv' /\ Did(t, h, {})
<1>1. /\ todo[t] # <<>> /\ Head(todo[t]) = h /\ cpu \in {"none", t} /\ wait[t] \in {"no", "put"}
      /\ Goes(t, <<>>) /\ wait' = [wait EXCEPT ![t] = "no"] /\ lock' = lock
      /\ TodoInv /\ Program(t, todo[t])
  BY DEF Put, Does, TaskInv, WaitInv, TodoInv
<1>2. Program(t, <<>>) /\ (\A op : ~Within(op, <<>>)) /\ \A i \in 1 .. Len(<<>>) : FALSE
  BY NoProgram
<1>3. /\ TodoInv' /\ Others(t) /\ cpu' = IF todo'[t] = <<>> THEN "none" ELSE t
      /\ \A op : Has(t, op)' => Has(t, op) /\ op \in Later(h)
      /\ \A op : Has(t, op) => op = h \/ Has(t, op)'
  BY <1>1, <1>2, GoesTodo DEF Others
<1>4. Has(t, h)
  BY <1>1, Shortened DEF Has
<1>5. wait' \in [Tasks -> {"no", "drain", "put", "gone"}] /\ wait'[t] = "no"
      /\ \A s \in Tasks : s # t => wait'[s] = wait[s]
  BY <1>1 DEF TaskInv, WaitInv
<1>6. WaitInv'
  BY <1>1, <1>3, <1>5, WaitOthers, TaskFacts DEF TaskInv
<1>7. \A s \in Tasks : Has(s, "release")' <=> Has(s, "release")
  <2>1. Has(t, "release")' <=> Has(t, "release")
    BY <1>3 DEF Puts
  <2> QED BY <1>3, <2>1 DEF Others, Has
<1>8. \A s \in Tasks : wait'[s] = "drain" <=> wait[s] = "drain"
  BY <1>1, <1>5
<1>9. LockInv'
  BY <1>1, <1>7, <1>8, LockKept DEF TaskInv
<1>10. Did(t, h, {})
  BY <1>1, <1>3, <1>4 DEF Did
<1> QED BY <1>3, <1>6, <1>9, <1>10 DEF TaskInv

\* The prefix of a task whose write has failed.
LEMMA TaskDrainFails ==
  ASSUME TaskInv, NEW t \in Tasks, DrainFails(t)
  PROVE  /\ TaskInv' /\ Others(t)
         /\ \A op : Has(t, op)' <=> op \in {"closeStream", "release"} \/ Has(t, op)
         /\ \A op \in First \cup {"forget"} : ~Has(t, op)
<1> DEFINE p == <<"closeStream", "release">>
<1>1. /\ cpu = "none" /\ wait[t] = "drain" /\ Head(lock) = t /\ lock' = lock
      /\ wait' = [wait EXCEPT ![t] = "no"] /\ Begin(t, p \o todo[t])
      /\ TodoInv /\ Program(t, todo[t])
  BY DEF DrainFails, Drains, TaskInv, TodoInv
<1>2. \A i \in 1 .. Len(todo[t]) : todo[t][i] \in Rest
  BY <1>1 DEF TaskInv, WaitInv
<1>3. "closeStream" \in OpsOf(t) /\ "release" \in OpsOf(t)
  BY DEF OpsOf, Fails
<1>4. "release" \in Later("closeStream") /\ Rest \subseteq Later("closeStream")
      /\ Rest \subseteq Later("release")
  BY LaterOf
<1>5. /\ Program(t, p) /\ p # <<>>
      /\ \A op : Within(op, p) <=> "closeStream" = op \/ "release" = op
      /\ \A i \in 1 .. Len(p) : p[i] \in {"closeStream", "release"}
  BY <1>3, <1>4, Two
<1> HIDE DEF p
<1>6. \A i \in 1 .. Len(p) : \A j \in 1 .. Len(todo[t]) : todo[t][j] \in Later(p[i])
  BY <1>2, <1>4, <1>5
<1>7. /\ Program(t, p \o todo[t]) /\ p \o todo[t] # <<>>
      /\ \A op : Within(op, p \o todo[t]) <=> Within(op, p) \/ Within(op, todo[t])
  BY <1>1, <1>5, <1>6, Joined
<1>8. TodoInv' /\ Others(t) /\ todo'[t] = p \o todo[t] /\ cpu' = t
  BY <1>1, <1>7, BeginTodo DEF Others
<1>9. \A op : Has(t, op)' <=> op \in {"closeStream", "release"} \/ Has(t, op)
  BY <1>5, <1>7, <1>8 DEF Has
<1>10. \A op \in First \cup {"forget"} : ~Has(t, op)
  BY <1>2 DEF First, Rest, Has, Within
<1>11. wait' \in [Tasks -> {"no", "drain", "put", "gone"}] /\ wait'[t] = "no"
       /\ \A s \in Tasks : s # t => wait'[s] = wait[s]
  BY <1>1 DEF TaskInv, WaitInv
<1>12. WaitInv'
  BY <1>1, <1>7, <1>8, <1>11, WaitOthers DEF TaskInv
<1>13. \A s \in Tasks : s # t => (Has(s, "release")' <=> Has(s, "release"))
  BY <1>8 DEF Others, Has
<1>14. Has(t, "release")'
  BY <1>9
<1>15. ASSUME NEW i \in 1 .. Len(lock)
       PROVE  (wait[lock[i]] = "drain" \/ Has(lock[i], "release"))'
  <2>1. PICK s \in Tasks : s = lock[i]
    BY DEF TaskInv, LockInv
  <2>2. wait[s] = "drain" \/ Has(s, "release")
    BY <2>1 DEF TaskInv, LockInv
  <2>3. wait'[s] = "drain" \/ Has(s, "release")'
    BY <2>2, <1>11, <1>13, <1>14
  <2> QED BY <2>1, <2>3, <1>1 DEF Has
<1>16. lock # <<>>
  <2>1. \E i \in 1 .. Len(lock) : lock[i] = t
    BY <1>1 DEF TaskInv, LockInv
  <2> QED BY <2>1
<1>17. \A s \in Tasks : Has(s, "release")' => lock # <<>> /\ Head(lock) = s
  BY <1>1, <1>13, <1>16 DEF TaskInv, LockInv
<1>18. \A s \in Tasks : wait'[s] = "drain" => \E i \in 1 .. Len(lock) : lock[i] = s
  BY <1>11 DEF TaskInv, LockInv
<1>19. LockInv'
  BY <1>1, <1>15, <1>17, <1>18 DEF TaskInv, LockInv
<1> QED BY <1>8, <1>9, <1>10, <1>12, <1>19 DEF TaskInv

----------------------------------------------------------------------------
(* Writes, and what ends them.                                             *)

Sent == {"head", "switch", "body", "end", "frame", "close"}

LEMMA TaskWrite ==
  ASSUME TaskInv, NEW t \in Tasks, NEW h \in Sent, Does(t, h), Write(t, h)
  PROVE  TaskInv' /\ Did(t, h, {})
<1>1. h # "release"
  BY DEF Sent
<1>2. CASE Goes(t, <<>>) /\ UNCHANGED <<wait, lock>>
  BY <1>1, <1>2, TaskDoesOnly
<1>3. CASE /\ lock' = Append(lock, t) /\ wait' = [wait EXCEPT ![t] = "drain"]
           /\ todo' = [todo EXCEPT ![t] = Tail(@)] /\ cpu' = "none"
  <2>1. Shrunk(t) /\ cpu = t /\ Head(todo[t]) = h /\ todo[t] # <<>>
    BY <1>3 DEF Does, Shrunk
  <2>2. TaskInv'
    BY <1>3, <2>1, TaskSuspends DEF Sent
  <2>3. Did(t, h, {})
    <3>1. TodoInv /\ Program(t, todo[t])
      BY DEF TaskInv, TodoInv
    <3>2. Has(t, h)
      BY <2>1, <3>1, Shortened DEF Has
    <3> QED BY <2>1, <3>1, <3>2, ShrunkTodo DEF Did, Others
  <2> QED BY <2>2, <2>3
<1> QED BY <1>2, <1>3 DEF Write

LEMMA TaskCloseTransport ==
  ASSUME TaskInv, NEW t \in Tasks, CloseTransport(t)
  PROVE  TaskInv' /\ Did(t, "closeTransport", {})
<1>1. /\ Shrunk(t) /\ cpu = t /\ Head(todo[t]) = "closeTransport" /\ todo[t] # <<>>
      /\ wait' = [wait EXCEPT ![t] = "gone"] /\ lock' = lock /\ cpu' = "none"
  BY DEF Does, Shrunk, CloseTransport
<1>2. TaskInv'
  BY <1>1, TaskSuspends
<1>3. TodoInv /\ Program(t, todo[t])
  BY DEF TaskInv, TodoInv
<1>4. Has(t, "closeTransport")
  BY <1>1, <1>3, Shortened DEF Has
<1>5. Did(t, "closeTransport", {})
  BY <1>1, <1>3, <1>4, ShrunkTodo DEF Did, Others
<1> QED BY <1>2, <1>5

\* An exception ends the application's send, or the connection.
LEMMA TaskRaise ==
  ASSUME TaskInv, NEW t \in Tasks, NEW h \in Sent, Does(t, h), Raise(t)
  PROVE  /\ TaskInv' /\ Has(t, h) /\ Head(todo[t]) = h /\ cpu = t /\ todo[t] # <<>>
         /\ \/ /\ t = "app" /\ app = "running" /\ app' = "raised" /\ reader' = reader
               /\ Others(t) /\ (\A op : ~Has(t, op)') /\ transport' = transport
               /\ todo'[t] = <<>> /\ wait'[t] = "no"
            \/ /\ ~(t = "app" /\ app = "running") /\ app' = app /\ reader' = "crashed"
               /\ \A s \in Tasks : todo'[s] = <<>> /\ wait'[s] = "no" /\ \A op : ~Has(s, op)'
               /\ transport' = Closing
<1>1. /\ cpu = t /\ todo[t] # <<>> /\ Head(todo[t]) = h /\ cpu' = "none"
      /\ TodoInv /\ Program(t, todo[t]) /\ wait[t] = "no"
  BY DEF Does, Raise, TaskInv, TodoInv, WaitInv
<1>2. Has(t, h)
  BY <1>1, Shortened DEF Has
<1>3. CASE t = "app" /\ app = "running"
  <2>1. /\ app' = "raised" /\ reader' = reader /\ transport' = transport
        /\ todo' = [todo EXCEPT ![t] = <<>>] /\ wait' = wait /\ lock' = lock
    BY <1>3 DEF Raise
  <2>2. TodoInv' /\ todo'[t] = <<>> /\ Others(t) /\ \A op : ~Has(t, op)'
    BY <1>1, <2>1, NoProgram, TodoSet DEF Has, Others
  <2>3. WaitInv'
    BY <1>1, <2>1, <2>2, WaitOthers, TaskFacts DEF TaskInv, WaitInv
  <2>4. ~Has(t, "release")
    <3>1. \A i \in 1 .. Len(Tail(todo[t])) : Tail(todo[t])[i] \in Later(h)
      BY <1>1, Shortened
    <3>2. Later(h) \subseteq Rest
      BY LaterFacts DEF Sent
    <3>3. ~Within("release", Tail(todo[t]))
      BY <3>1, <3>2 DEF Within, Rest
    <3>4. h # "release"
      BY DEF Sent
    <3> QED BY <1>1, <3>3, <3>4, Shortened DEF Has
  <2>5. \A s \in Tasks : Has(s, "release")' <=> Has(s, "release")
    BY <2>2, <2>4 DEF Others, Has
  <2>6. LockInv'
    BY <2>1, <2>5, LockKept DEF TaskInv
  <2> QED BY <1>1, <1>2, <1>3, <2>1, <2>2, <2>3, <2>6 DEF TaskInv
<1>4. CASE ~(t = "app" /\ app = "running")
  <2>1. /\ app' = app /\ reader' = "crashed" /\ todo' = [s \in Tasks |-> <<>>]
        /\ wait' = [s \in Tasks |-> "no"] /\ lock' = <<>> /\ transport' = Closing
    BY <1>4 DEF Raise
  <2>2. \A s \in Tasks : todo'[s] = <<>> /\ wait'[s] = "no" /\ \A op : ~Has(s, op)'
    BY <2>1, NoProgram DEF Has
  <2>3. TodoInv'
    BY <2>1, <2>2, NoProgram DEF TodoInv
  <2>4. WaitInv'
    BY <1>1, <2>1, <2>2, TaskFacts DEF WaitInv
  <2>5. LockInv'
    BY <2>1, <2>2 DEF LockInv
  <2> QED BY <1>1, <1>2, <1>4, <2>1, <2>2, <2>3, <2>4, <2>5 DEF TaskInv
<1> QED BY <1>3, <1>4

LEMMA TaskSendH11 ==
  ASSUME TaskInv, NEW t \in Tasks, NEW h \in {"head", "switch", "body", "end"}, SendH11(t, h)
  PROVE  /\ TaskInv' /\ Does(t, h)
         /\ \/ H11After(h) # "error" /\ h11' = H11After(h) /\ Did(t, h, {})
               /\ wire' = (IF transport = "open" THEN OnWire(h) ELSE wire)
               /\ UNCHANGED <<roleVars, clientVars, queue>>
            \/ H11After(h) = "error" /\ Raise(t) /\ UNCHANGED <<h11, wire>>
         /\ UNCHANGED <<state, closed, stream, accepted, response, conn, length, told,
                        early, badAccept, tooBig>>
<1>1. h \in Sent /\ Does(t, h)
  BY DEF Sent, SendH11
<1>2. CASE /\ H11After(h) # "error" /\ h11' = H11After(h) /\ Write(t, h)
           /\ UNCHANGED <<roleVars, clientVars, queue>>
  <2>1. TaskInv' /\ Did(t, h, {})
    BY <1>1, <1>2, TaskWrite
  <2>2. wire' = (IF transport = "open" THEN OnWire(h) ELSE wire)
    BY <1>2 DEF Write
  <2> QED BY <1>1, <1>2, <2>1, <2>2 DEF SendH11
<1>3. CASE H11After(h) = "error" /\ Raise(t) /\ UNCHANGED <<h11, wire>>
  BY <1>1, <1>3, TaskRaise DEF SendH11
<1> QED BY <1>2, <1>3 DEF SendH11

LEMMA TaskSendFrame ==
  ASSUME TaskInv, NEW t \in Tasks, NEW h \in {"frame", "close"}, SendFrame(t, h)
  PROVE  /\ TaskInv' /\ Does(t, h)
         /\ \/ conn = "none" /\ Raise(t) /\ UNCHANGED <<conn, wire>>
            \/ /\ conn # "none" /\ MaySend(h) /\ conn' = AfterSend(h) /\ Did(t, h, {})
               /\ wire' = (IF transport = "open" THEN OnWire(h) ELSE wire)
               /\ UNCHANGED <<roleVars, clientVars, queue>>
            \/ /\ conn # "none" /\ ~MaySend(h) /\ Did(t, h, {})
               /\ UNCHANGED <<conn, wire, roleVars, clientVars, queue>>
         /\ UNCHANGED <<state, closed, stream, accepted, response, length, h11, told,
                        early, badAccept, tooBig>>
<1>1. h \in Sent /\ Does(t, h) /\ h # "release"
  BY DEF Sent, SendFrame
<1>2. CASE conn = "none" /\ Raise(t) /\ UNCHANGED <<conn, wire>>
  BY <1>1, <1>2, TaskRaise DEF SendFrame
<1>3. CASE /\ conn # "none" /\ MaySend(h) /\ conn' = AfterSend(h) /\ Write(t, h)
           /\ UNCHANGED <<roleVars, clientVars, queue>>
  <2>1. TaskInv' /\ Did(t, h, {})
    BY <1>1, <1>3, TaskWrite
  <2>2. wire' = (IF transport = "open" THEN OnWire(h) ELSE wire)
    BY <1>3 DEF Write
  <2> QED BY <1>1, <1>3, <2>1, <2>2 DEF SendFrame
<1>4. CASE /\ conn # "none" /\ ~MaySend(h) /\ Goes(t, <<>>)
           /\ UNCHANGED <<conn, wait, lock, wire, roleVars, clientVars, queue>>
  <2>1. TaskInv' /\ Did(t, h, {})
    BY <1>1, <1>4, TaskDoesOnly
  <2> QED BY <1>1, <1>4, <2>1 DEF SendFrame
<1> QED BY <1>2, <1>3, <1>4 DEF SendFrame

----------------------------------------------------------------------------
(* What the tasks go on to do.                                             *)

LEMMA TaskCloseStream ==
  ASSUME TaskInv, NEW t \in Tasks, CloseStream(t)
  PROVE  /\ TaskInv'
         /\ \/ /\ stream /\ ~closed /\ closed' = TRUE /\ stream' = stream
               /\ \/ app = "none" /\ Did(t, "closeStream", {"forget"})
                  \/ app # "none" /\ Did(t, "closeStream", {"disconnect", "forget"})
            \/ /\ ~(stream /\ ~closed) /\ closed' = closed /\ stream' = FALSE
               /\ Did(t, "closeStream", {})
<1>1. Does(t, "closeStream") /\ UNCHANGED <<wait, lock>>
  BY DEF CloseStream
<1>2. CASE stream /\ Open
  <2>1. closed' = TRUE /\ stream' = stream /\ ~closed /\ Goes(t, Tell \o <<"forget">>)
    BY <1>2 DEF CloseStream, Open
  <2>2. "forget" \in OpsOf(t) /\ "disconnect" \in OpsOf(t) /\ "forget" \in Later("disconnect")
        /\ Later("closeStream") \subseteq Later("forget")
        /\ Later("closeStream") \subseteq Later("disconnect")
    BY LaterOf DEF OpsOf, Fails
  <2>3. CASE app = "none"
    <3> DEFINE p == <<"forget">>
    <3>1. Tell \o <<"forget">> = p
      BY <2>3 DEF Tell
    <3>2. Program(t, p) /\ \A op : Within(op, p) <=> op \in {"forget"}
      BY <2>2, One
    <3>3. Goes(t, p)
      BY <2>1, <3>1
    <3> HIDE DEF p
    <3>4. TaskInv' /\ Did(t, "closeStream", {"forget"})
      BY <1>1, <2>2, <3>2, <3>3, TaskDoes
    <3> QED BY <1>2, <2>1, <2>3, <3>4
  <2>4. CASE app # "none"
    <3> DEFINE f == <<"forget">>
               p == <<"disconnect">> \o f
    <3>1. Goes(t, p)
      BY <2>1, <2>4 DEF Tell
    <3>2. /\ Program(t, f) /\ \A op : Within(op, f) <=> op \in {"forget"}
          /\ \A i \in 1 .. Len(f) : f[i] = "forget"
      BY <2>2, One
    <3> HIDE DEF f
    <3>3. Program(t, p) /\ \A op : Within(op, p) <=> op \in {"disconnect", "forget"}
      BY <2>2, <3>2, Longer
    <3> HIDE DEF p
    <3>4. TaskInv' /\ Did(t, "closeStream", {"disconnect", "forget"})
      BY <1>1, <2>2, <3>1, <3>3, TaskDoes
    <3> QED BY <1>2, <2>1, <2>4, <3>4
  <2> QED BY <2>3, <2>4
<1>3. CASE ~(stream /\ Open)
  <2>1. stream' = FALSE /\ Goes(t, <<>>) /\ closed' = closed
    BY <1>3 DEF CloseStream
  <2>2. TaskInv' /\ Did(t, "closeStream", {})
    BY <1>1, <2>1, TaskDoesOnly
  <2> QED BY <1>3, <2>1, <2>2 DEF Open
<1> QED BY <1>2, <1>3

----------------------------------------------------------------------------
\* p is a program of t, of the operations N.
Is(t, p, N) == Program(t, p) /\ \A op : Within(op, p) <=> op \in N

LEMMA IsNone == \A t : Is(t, <<>>, {})
BY NoProgram DEF Is

LEMMA IsOne ==
  ASSUME NEW t \in Tasks, NEW a \in OpsOf(t)
  PROVE  Is(t, <<a>>, {a})
BY One DEF Is

LEMMA IsTwo ==
  ASSUME NEW t \in Tasks, NEW a \in OpsOf(t), NEW b \in OpsOf(t), b \in Later(a)
  PROVE  Is(t, <<a, b>>, {a, b})
BY Two DEF Is

LEMMA IsMore ==
  ASSUME NEW t \in Tasks, NEW a \in OpsOf(t), NEW b \in OpsOf(t), b \in Later(a),
         NEW c \in OpsOf(t), c \in Later(a) \cap Later(b)
  PROVE  Is(t, <<a, b, c>>, {a, b, c})
<1>1. Program(t, <<a, b, c>>)
      /\ \A op : Within(op, <<a, b, c>>) <=> a = op \/ b = op \/ c = op
  BY More
<1> QED BY <1>1 DEF Is

LEMMA IsJoined ==
  ASSUME NEW t \in Tasks, NEW p, NEW M, Is(t, p, M), NEW q, NEW N, Is(t, q, N),
         \A a \in M : N \subseteq Later(a)
  PROVE  Is(t, p \o q, M \cup N)
<1>1. Program(t, p) /\ Program(t, q)
  BY DEF Is
<1>2. \A i \in 1 .. Len(p) : \A j \in 1 .. Len(q) : q[j] \in Later(p[i])
  BY DEF Is, Within
<1>3. /\ Program(t, p \o q)
      /\ \A op : Within(op, p \o q) <=> Within(op, p) \/ Within(op, q)
  BY <1>1, <1>2, Joined
<1> QED BY <1>3 DEF Is

LEMMA DoesIs ==
  ASSUME TaskInv, NEW t \in Tasks, NEW h, Does(t, h), NEW p, NEW N, Is(t, p, N), Goes(t, p),
         \A op \in N : Later(h) \subseteq Later(op), "release" \notin N,
         h # "release", UNCHANGED <<wait, lock>>
  PROVE  TaskInv' /\ Did(t, h, N)
BY TaskDoes DEF Is

LEMMA StartsIs ==
  ASSUME TaskInv, NEW t \in Tasks, cpu = "none", todo[t] = <<>>, wait[t] = "no",
         NEW p, NEW N, Is(t, p, N), Begin(t, p), "release" \notin N, UNCHANGED <<wait, lock>>
  PROVE  TaskInv' /\ Started(t, N)
BY TaskStarts DEF Is

\* Whose an operation is.
LEMMA DoesOps ==
  ASSUME TaskInv, NEW t \in Tasks, NEW h, Does(t, h)
  PROVE  h \in OpsOf(t) /\ cpu = t /\ todo[t] # <<>> /\ Head(todo[t]) = h
BY Shortened DEF TaskInv, TodoInv, Does

LEMMA HasOps ==
  ASSUME TaskInv, NEW t \in Tasks, NEW h, Has(t, h)
  PROVE  h \in OpsOf(t)
BY DEF TaskInv, TodoInv, Program, Has, Within

LEMMA OpsOfReader ==
  /\ OpsOf("reader") = Fails \cup {"connect", "head", "end", "shut", "events", "receive", "clear",
                                   "frame", "close", "closeTransport"}
  /\ OpsOf("app") = Fails \cup {"switch", "pings", "head", "RESPONSE", "body", "HTTPCLOSED",
                                "end", "frame", "close", "closeTransport"}
  /\ OpsOf("ping") = Fails \cup {"frame"}
  /\ "reader" \in Tasks /\ "app" \in Tasks /\ "ping" \in Tasks
BY DEF OpsOf, Tasks

LEMMA TaskForget ==
  ASSUME TaskInv, NEW t \in Tasks, Forget(t)
  PROVE  TaskInv' /\ Did(t, "forget", {})
BY TaskDoesOnly DEF Forget

Assigned == {"RESPONSE", "HTTPCLOSED", "shut", "clear", "pings"}
LEMMA TaskAssign ==
  ASSUME TaskInv, NEW t \in Tasks, Assign(t)
  PROVE  /\ TaskInv' /\ \E h \in Assigned : Did(t, h, {})
         /\ \/ /\ \E s \in {"RESPONSE", "HTTPCLOSED"} : Did(t, s, {}) /\ state' = s
               /\ UNCHANGED <<closed, length, ping>>
            \/ Did(t, "shut", {}) /\ closed' = TRUE /\ UNCHANGED <<state, length, ping>>
            \/ Did(t, "clear", {}) /\ length' = 0 /\ UNCHANGED <<state, closed, ping>>
            \/ Did(t, "pings", {}) /\ ping' = "on" /\ UNCHANGED <<state, closed, length>>
<1>1. Goes(t, <<>>) /\ UNCHANGED <<wait, lock>>
  BY DEF Assign
<1>2. \A h \in Assigned : Does(t, h) => TaskInv' /\ Did(t, h, {})
  BY <1>1, TaskDoesOnly DEF Assigned
<1>3. CASE /\ \E s \in {"RESPONSE", "HTTPCLOSED"} : Does(t, s) /\ state' = s
           /\ UNCHANGED <<closed, length, ping>>
  <2>1. PICK s \in {"RESPONSE", "HTTPCLOSED"} : Does(t, s) /\ state' = s
    BY <1>3
  <2>2. TaskInv' /\ Did(t, s, {}) /\ s \in Assigned
    BY <1>2, <2>1 DEF Assigned
  <2> QED BY <1>3, <2>1, <2>2
<1>4. CASE Does(t, "shut") /\ closed' = TRUE /\ UNCHANGED <<state, length, ping>>
  BY <1>2, <1>4 DEF Assigned
<1>5. CASE Does(t, "clear") /\ length' = 0 /\ UNCHANGED <<state, closed, ping>>
  BY <1>2, <1>5 DEF Assigned
<1>6. CASE Does(t, "pings") /\ ping' = "on" /\ UNCHANGED <<state, closed, length>>
  BY <1>2, <1>6 DEF Assigned
<1>7. \/ /\ \E s \in {"RESPONSE", "HTTPCLOSED"} : Does(t, s) /\ state' = s
         /\ UNCHANGED <<closed, length, ping>>
      \/ Does(t, "shut") /\ closed' = TRUE /\ UNCHANGED <<state, length, ping>>
      \/ Does(t, "clear") /\ length' = 0 /\ UNCHANGED <<state, closed, ping>>
      \/ Does(t, "pings") /\ ping' = "on" /\ UNCHANGED <<state, closed, length>>
  BY DEF Assign
<1> QED BY <1>3, <1>4, <1>5, <1>6, <1>7

\* What the reader goes on to do after a frame.
LEMMA TaskEvents ==
  ASSUME TaskInv, NEW t \in Tasks, Does(t, "events"), NEW p, NEW N, Is("reader", p, N),
         Goes(t, p), "release" \notin N, UNCHANGED <<wait, lock>>
  PROVE  t = "reader" /\ TaskInv' /\ Did("reader", "events", N)
<1>1. t = "reader"
  BY DoesOps, OpsOfReader DEF Fails, Tasks
<1>2. \A op \in N : Later("events") \subseteq Later(op)
  BY LaterOf
<1> QED BY <1>1, <1>2, DoesIs

LEMMA TaskFragment ==
  ASSUME TaskInv, length \in 0 .. MaxLength + 1, NEW t \in Tasks, Fragment(t)
  PROVE  /\ t = "reader" /\ TaskInv' /\ Does("reader", "events")
         /\ frames # <<>> /\ frames' = Tail(frames)
         /\ \/ tooBig' = TRUE /\ length' = MaxLength + 1 /\ Did("reader", "events", {"close"})
            \/ /\ length # MaxLength + 1 /\ tooBig' = tooBig /\ length' \in 0 .. MaxLength
               /\ \/ Did("reader", "events", {"receive", "clear", "events"})
                  \/ Did("reader", "events", {"events"})
<1> DEFINE size == length + (IF Head(frames) = "long" THEN MaxLength + 1 ELSE 1)
<1>1. /\ Does(t, "events") /\ UNCHANGED <<wait, lock>> /\ frames # <<>>
      /\ frames' = Tail(frames) /\ length' = Kept(size)
  BY DEF Fragment
<1>2. /\ MaxLength \in Nat /\ size \in Nat /\ size > length
      /\ (length = MaxLength + 1 => size > MaxLength)
      /\ (size > MaxLength => length' = MaxLength + 1)
      /\ (size <= MaxLength => length' \in 0 .. MaxLength)
  BY <1>1, WSAssumption DEF Kept
<1>3. \/ size > MaxLength /\ tooBig' = TRUE /\ Goes(t, <<"close">>)
      \/ /\ size <= MaxLength /\ UNCHANGED tooBig
         /\ Goes(t, IF Head(frames) = "message" THEN <<"receive", "clear", "events">>
                    ELSE <<"events">>)
  BY DEF Fragment
<1> HIDE DEF size
<1>4. t = "reader" /\ "reader" \in Tasks
  BY <1>1, DoesOps, OpsOfReader DEF Fails, Tasks
<1>5. CASE size > MaxLength /\ tooBig' = TRUE /\ Goes(t, <<"close">>)
  <2>1. Is("reader", <<"close">>, {"close"})
    BY IsOne, OpsOfReader
  <2>2. TaskInv' /\ Did("reader", "events", {"close"})
    BY <1>1, <1>5, <2>1, TaskEvents
  <2> QED BY <1>1, <1>2, <1>4, <1>5, <2>2
<1>6. CASE size <= MaxLength /\ tooBig' = tooBig /\ Goes(t, <<"receive", "clear", "events">>)
  <2>1. Is("reader", <<"receive", "clear", "events">>, {"receive", "clear", "events"})
    BY IsMore, OpsOfReader, LaterOf
  <2>2. TaskInv' /\ Did("reader", "events", {"receive", "clear", "events"})
    BY <1>1, <1>6, <2>1, TaskEvents
  <2> QED BY <1>1, <1>2, <1>4, <1>6, <2>2
<1>7. CASE size <= MaxLength /\ tooBig' = tooBig /\ Goes(t, <<"events">>)
  <2>1. Is("reader", <<"events">>, {"events"})
    BY IsOne, OpsOfReader
  <2>2. TaskInv' /\ Did("reader", "events", {"events"})
    BY <1>1, <1>7, <2>1, TaskEvents
  <2> QED BY <1>1, <1>2, <1>4, <1>7, <2>2
<1> QED BY <1>3, <1>5, <1>6, <1>7

LEMMA TaskControl ==
  ASSUME TaskInv, NEW t \in Tasks, Control(t)
  PROVE  /\ t = "reader" /\ TaskInv' /\ Does("reader", "events")
         /\ \/ frames = <<>> /\ frames' = frames /\ conn' = conn /\ Did("reader", "events", {})
            \/ /\ frames # <<>> /\ frames' = Tail(frames)
               /\ \/ conn' = conn /\ Did("reader", "events", {"frame", "events"})
                  \/ conn' = conn /\ Did("reader", "events", {"closeStream", "closeTransport"})
                  \/ /\ conn = "local" /\ conn' = "closed"
                     /\ Did("reader", "events", {"closeStream", "closeTransport", "events"})
                  \/ /\ conn # "local" /\ conn' = "remote"
                     /\ Did("reader", "events",
                            {"close", "closeStream", "closeTransport", "events"})
<1>1. Does(t, "events") /\ UNCHANGED <<wait, lock>>
  BY DEF Control
<1>2. t = "reader" /\ "reader" \in Tasks
  BY <1>1, DoesOps, OpsOfReader DEF Fails, Tasks
<1>3. CASE frames = <<>> /\ Goes(t, <<>>) /\ UNCHANGED <<frames, conn>>
  <2>1. TaskInv' /\ Did("reader", "events", {})
    BY <1>1, <1>2, <1>3, TaskDoesOnly
  <2> QED BY <1>1, <1>2, <1>3, <2>1
<1>4. CASE frames # <<>> /\ frames' = Tail(frames) /\ Goes(t, <<"frame", "events">>) /\ conn' = conn
  <2>1. Is("reader", <<"frame", "events">>, {"frame", "events"})
    BY IsTwo, OpsOfReader, LaterOf
  <2>2. TaskInv' /\ Did("reader", "events", {"frame", "events"})
    BY <1>1, <1>4, <2>1, TaskEvents
  <2> QED BY <1>1, <1>2, <1>4, <2>2
<1> DEFINE both == <<"closeStream", "closeTransport">>
           all == both \o <<"events">>
<1>5. Is("reader", both, {"closeStream", "closeTransport"})
  BY IsTwo, OpsOfReader, LaterOf DEF Fails, Rest
<1>6. StreamClosed = both
  BY DEF StreamClosed
<1>7. CASE frames # <<>> /\ frames' = Tail(frames) /\ Goes(t, both) /\ conn' = conn
  <2>1. TaskInv' /\ Did("reader", "events", {"closeStream", "closeTransport"})
    BY <1>1, <1>5, <1>7, TaskEvents
  <2> QED BY <1>1, <1>2, <1>7, <2>1
<1> HIDE DEF both
<1>8. Is("reader", all, {"closeStream", "closeTransport", "events"})
  <2>1. Is("reader", <<"events">>, {"events"})
    BY IsOne, OpsOfReader
  <2>2. \A a \in {"closeStream", "closeTransport"} : {"events"} \subseteq Later(a)
    BY LaterOf DEF Rest
  <2>3. Is("reader", all, {"closeStream", "closeTransport"} \cup {"events"})
    BY <1>2, <1>5, <2>1, <2>2, IsJoined
  <2>4. {"closeStream", "closeTransport"} \cup {"events"}
          = {"closeStream", "closeTransport", "events"}
    OBVIOUS
  <2> QED BY <2>3, <2>4
<1>9. CASE /\ frames # <<>> /\ frames' = Tail(frames) /\ conn = "local" /\ conn' = "closed"
           /\ Goes(t, <<>> \o both \o <<"events">>)
  <2>1. both \in Seq(Ops)
    BY <1>5 DEF Is, Program
  <2>2. <<>> \o both = both
    BY <2>1, ConcatEmptySeq
  <2>3. Goes(t, all)
    BY <1>9, <2>2
  <2> HIDE DEF all
  <2>4. TaskInv' /\ Did("reader", "events", {"closeStream", "closeTransport", "events"})
    BY <1>1, <1>8, <2>3, TaskEvents
  <2> QED BY <1>1, <1>2, <1>9, <2>4
<1>10. CASE /\ frames # <<>> /\ frames' = Tail(frames) /\ conn # "local" /\ conn' = "remote"
            /\ Goes(t, <<"close">> \o both \o <<"events">>)
  <2> DEFINE N == {"close", "closeStream", "closeTransport", "events"}
             p == <<"close">> \o both
  <2>1. Is("reader", <<"close">>, {"close"}) /\ Is("reader", <<"events">>, {"events"})
    BY IsOne, OpsOfReader
  <2>2. \A a \in {"close"} : {"closeStream", "closeTransport"} \subseteq Later(a)
    BY LaterOf
  <2>3. Is("reader", p, {"close"} \cup {"closeStream", "closeTransport"})
    BY <1>2, <1>5, <2>1, <2>2, IsJoined
  <2> HIDE DEF p
  <2>4. \A a \in {"close"} \cup {"closeStream", "closeTransport"} : {"events"} \subseteq Later(a)
    BY LaterOf DEF Rest
  <2>5. Is("reader", p \o <<"events">>,
           ({"close"} \cup {"closeStream", "closeTransport"}) \cup {"events"})
    BY <1>2, <2>1, <2>3, <2>4, IsJoined
  <2>6. ({"close"} \cup {"closeStream", "closeTransport"}) \cup {"events"} = N
    OBVIOUS
  <2>7. Goes(t, p \o <<"events">>)
    BY <1>10 DEF p
  <2>8. Is("reader", p \o <<"events">>, N) /\ "release" \notin N
    BY <2>5, <2>6
  <2> HIDE DEF N
  <2>9. TaskInv' /\ Did("reader", "events", N)
    BY <1>1, <2>7, <2>8, TaskEvents
  <2> QED BY <1>1, <1>2, <1>10, <2>9 DEF N
<1>11. \/ frames = <<>> /\ Goes(t, <<>>) /\ UNCHANGED <<frames, conn>>
       \/ frames # <<>> /\ frames' = Tail(frames) /\ Goes(t, <<"frame", "events">>) /\ conn' = conn
       \/ frames # <<>> /\ frames' = Tail(frames) /\ Goes(t, both) /\ conn' = conn
       \/ /\ frames # <<>> /\ frames' = Tail(frames) /\ conn = "local" /\ conn' = "closed"
          /\ Goes(t, <<>> \o both \o <<"events">>)
       \/ /\ frames # <<>> /\ frames' = Tail(frames) /\ conn # "local" /\ conn' = "remote"
          /\ Goes(t, <<"close">> \o both \o <<"events">>)
  BY <1>6 DEF Control
<1> QED BY <1>3, <1>4, <1>7, <1>9, <1>10, <1>11

----------------------------------------------------------------------------
(* What an idle task begins.                                               *)

LEMMA IsError ==
  /\ Is("reader", ErrorResponse \o <<"shut">>, {"head", "end", "shut"})
  /\ Is("app", ErrorResponse, {"head", "end"})
<1> DEFINE p == <<"head", "end">>
<1>1. Is("reader", p, {"head", "end"}) /\ Is("app", p, {"head", "end"})
  BY IsTwo, OpsOfReader, LaterOf
<1>2. ErrorResponse = p
  BY DEF ErrorResponse
<1> HIDE DEF p
<1>3. Is("reader", <<"shut">>, {"shut"})
  BY IsOne, OpsOfReader
<1>4. \A a \in {"head", "end"} : {"shut"} \subseteq Later(a)
  BY LaterOf
<1>5. Is("reader", p \o <<"shut">>, {"head", "end"} \cup {"shut"})
  BY <1>1, <1>3, <1>4, IsJoined, OpsOfReader
<1>6. {"head", "end"} \cup {"shut"} = {"head", "end", "shut"}
  OBVIOUS
<1> QED BY <1>1, <1>2, <1>5, <1>6

LEMMA TaskRequest ==
  ASSUME BaseInv, TaskInv, PartInv, NEW valid \in BOOLEAN, Request(valid)
  PROVE  /\ TaskInv'
         /\ \/ app' = "running" /\ Started("reader", {"connect"})
            \/ app' = app /\ Started("reader", {"head", "end", "shut"})
<1>1. "reader" \in Tasks /\ todo["reader"] = <<>> /\ wait["reader"] = "no" /\ reader = "new"
      /\ \A t \in Tasks : todo[t] = <<>> /\ wait[t] = "no"
  BY OpsOfReader DEF Request, PartInv
<1>2. cpu = "none"
  BY <1>1 DEF BaseInv, TaskInv, WaitInv
<1>3. UNCHANGED <<wait, lock>>
  BY DEF Request
<1>4. CASE valid
  <2>1. Begin("reader", <<"connect">>) /\ app' = "running"
    BY <1>4 DEF Request
  <2>2. Is("reader", <<"connect">>, {"connect"})
    BY IsOne, OpsOfReader
  <2>3. TaskInv' /\ Started("reader", {"connect"})
    BY <1>1, <1>2, <1>3, <2>1, <2>2, StartsIs
  <2> QED BY <2>1, <2>3
<1>5. CASE ~valid
  <2>1. Begin("reader", ErrorResponse \o <<"shut">>) /\ app' = app
    BY <1>5 DEF Request
  <2>2. TaskInv' /\ Started("reader", {"head", "end", "shut"})
    BY <1>1, <1>2, <1>3, <2>1, IsError, StartsIs
  <2> QED BY <2>1, <2>2
<1> QED BY <1>4, <1>5

LEMMA IdleFacts ==
  ASSUME NEW t \in Tasks, Idle(t)
  PROVE  cpu = "none" /\ todo[t] = <<>> /\ wait[t] = "no" /\ reader # "crashed"
BY DEF Idle

LEMMA TaskReadData ==
  ASSUME TaskInv, NEW data, ReadData(data)
  PROVE  /\ TaskInv' /\ reader = "reading"
         /\ \/ UNCHANGED <<todo, cpu, frames, early>>
            \/ early' = TRUE /\ UNCHANGED frames /\ Started("reader", {"head", "end", "shut"})
            \/ accepted /\ early' = early /\ frames' = frames \o data
               /\ Started("reader", {"events"})
<1>1. Idle("reader") /\ reader = "reading" /\ UNCHANGED <<wait, lock>> /\ "reader" \in Tasks
  BY OpsOfReader DEF ReadData
<1>2. CASE UNCHANGED <<todo, cpu, frames, early>>
  BY <1>1, <1>2, TaskStays DEF taskVars
<1>3. CASE early' = TRUE /\ frames' = frames /\ Begin("reader", ErrorResponse \o <<"shut">>)
  <2>1. TaskInv' /\ Started("reader", {"head", "end", "shut"})
    BY <1>1, <1>3, IdleFacts, IsError, StartsIs
  <2> QED BY <1>1, <1>3, <2>1
<1>4. CASE accepted /\ early' = early /\ frames' = frames \o data /\ Begin("reader", <<"events">>)
  <2>1. Is("reader", <<"events">>, {"events"})
    BY IsOne, OpsOfReader
  <2>2. TaskInv' /\ Started("reader", {"events"})
    BY <1>1, <1>4, <2>1, IdleFacts, StartsIs
  <2> QED BY <1>1, <1>4, <2>2
<1>5. \/ UNCHANGED <<todo, cpu, frames, early>>
      \/ early' = TRUE /\ frames' = frames /\ Begin("reader", ErrorResponse \o <<"shut">>)
      \/ accepted /\ early' = early /\ frames' = frames \o data /\ Begin("reader", <<"events">>)
  BY DEF ReadData
<1> QED BY <1>2, <1>3, <1>4, <1>5

LEMMA TaskReadEof ==
  ASSUME TaskInv, ReadEof
  PROVE  TaskInv' /\ Started("reader", {"closeStream"})
<1>1. Idle("reader") /\ UNCHANGED <<wait, lock>> /\ "reader" \in Tasks
      /\ Begin("reader", <<"closeStream">>)
  BY OpsOfReader DEF ReadEof
<1>2. Is("reader", <<"closeStream">>, {"closeStream"})
  BY IsOne, OpsOfReader DEF Fails
<1> QED BY <1>1, <1>2, IdleFacts, StartsIs

\* An application that may send.
LEMMA AppStarts ==
  ASSUME TaskInv, Idle("app"), NEW p, NEW N, Is("app", p, N), Begin("app", p),
         "release" \notin N, UNCHANGED <<wait, lock>>
  PROVE  TaskInv' /\ Started("app", N)
<1>1. "app" \in Tasks
  BY OpsOfReader
<1> QED BY <1>1, IdleFacts, StartsIs

LEMMA TaskAccept ==
  ASSUME TaskInv, Accept
  PROVE  /\ TaskInv' /\ Idle("app") /\ app = "running" /\ state = "HANDSHAKE"
         /\ \/ accepted' = TRUE /\ conn' = "open" /\ Started("app", {"switch", "pings"})
               /\ UNCHANGED <<app, badAccept>>
            \/ badAccept' = TRUE /\ app' = "raised" /\ UNCHANGED <<accepted, conn, todo, cpu>>
<1>1. Idle("app") /\ app = "running" /\ state = "HANDSHAKE" /\ UNCHANGED <<wait, lock>>
  BY DEF Accept, Sends
<1>2. CASE /\ accepted' = TRUE /\ conn' = "open" /\ Begin("app", <<"switch", "pings">>)
           /\ UNCHANGED <<app, badAccept>>
  <2>1. Is("app", <<"switch", "pings">>, {"switch", "pings"})
    BY IsTwo, OpsOfReader, LaterOf
  <2> QED BY <1>1, <1>2, <2>1, AppStarts
<1>3. CASE badAccept' = TRUE /\ app' = "raised" /\ UNCHANGED <<accepted, conn, todo, cpu>>
  BY <1>1, <1>3, TaskStays DEF taskVars
<1> QED BY <1>2, <1>3 DEF Accept

LEMMA TaskReject ==
  ASSUME TaskInv, NEW suppressed \in BOOLEAN, NEW more \in BOOLEAN, Reject(suppressed, more)
  PROVE  /\ TaskInv' /\ Idle("app") /\ app = "running"
         /\ \/ state = "HANDSHAKE" /\ \E N : /\ Started("app", N)
                 /\ N \subseteq {"head", "RESPONSE", "body", "HTTPCLOSED", "end"}
                 /\ {"head", "RESPONSE"} \subseteq N
            \/ state # "HANDSHAKE" /\ \E N : /\ Started("app", N)
                 /\ N \subseteq {"body", "HTTPCLOSED", "end"}
<1>1. Idle("app") /\ app = "running" /\ UNCHANGED <<wait, lock>> /\ "app" \in Tasks
  BY OpsOfReader DEF Reject, Sends
<1> DEFINE body == IF suppressed THEN <<>> ELSE <<"body">>
           last == IF more \/ response = "trailers" THEN <<>> ELSE <<"HTTPCLOSED", "end">>
<1>2. Begin("app", FirstHead \o body \o last)
  BY DEF Reject
<1>3. PICK H : /\ Is("app", FirstHead, H)
               /\ H = IF state = "HANDSHAKE" THEN {"head", "RESPONSE"} ELSE {}
  <2>1. Is("app", <<"head", "RESPONSE">>, {"head", "RESPONSE"})
    BY IsTwo, OpsOfReader, LaterOf
  <2> QED BY <2>1, IsNone DEF FirstHead
<1>4. PICK B : Is("app", body, B) /\ B \subseteq {"body"}
  <2>1. Is("app", <<"body">>, {"body"})
    BY IsOne, OpsOfReader
  <2>2. CASE suppressed
    BY <2>2, IsNone
  <2>3. CASE ~suppressed
    BY <2>1, <2>3
  <2> QED BY <2>2, <2>3
<1>5. PICK L : Is("app", last, L) /\ L \subseteq {"HTTPCLOSED", "end"}
  <2>1. Is("app", <<"HTTPCLOSED", "end">>, {"HTTPCLOSED", "end"})
    BY IsTwo, OpsOfReader, LaterOf
  <2>2. CASE more \/ response = "trailers"
    BY <2>2, IsNone
  <2>3. CASE ~(more \/ response = "trailers")
    BY <2>1, <2>3
  <2> QED BY <2>2, <2>3
<1> HIDE DEF body, last
<1>6. \A a \in H : B \subseteq Later(a)
  BY <1>3, <1>4, LaterOf
<1>7. Is("app", FirstHead \o body, H \cup B)
  BY <1>1, <1>3, <1>4, <1>6, IsJoined
<1>8. \A a \in H \cup B : L \subseteq Later(a)
  BY <1>3, <1>4, <1>5, LaterOf
<1>9. Is("app", FirstHead \o body \o last, H \cup B \cup L)
  BY <1>1, <1>5, <1>7, <1>8, IsJoined
<1> DEFINE N == H \cup B \cup L
<1>10. "release" \notin N
  BY <1>3, <1>4, <1>5
<1>11. TaskInv' /\ Started("app", N)
  BY <1>1, <1>2, <1>9, <1>10, AppStarts
<1>12. CASE state = "HANDSHAKE"
  <2>1. N \subseteq {"head", "RESPONSE", "body", "HTTPCLOSED", "end"} /\ {"head", "RESPONSE"} \subseteq N
    BY <1>3, <1>4, <1>5, <1>12
  <2> QED BY <1>1, <1>11, <1>12, <2>1
<1>13. CASE state # "HANDSHAKE"
  <2>1. N \subseteq {"body", "HTTPCLOSED", "end"}
    BY <1>3, <1>4, <1>5, <1>13
  <2> QED BY <1>1, <1>11, <1>13, <2>1
<1> QED BY <1>12, <1>13

LEMMA TaskTrailers ==
  ASSUME TaskInv, NEW more \in BOOLEAN, Trailers(more)
  PROVE  /\ TaskInv' /\ Idle("app") /\ app = "running"
         /\ Started("app", {"end"}) \/ Started("app", {"end", "HTTPCLOSED"})
<1>1. Idle("app") /\ app = "running" /\ UNCHANGED <<wait, lock>> /\ "app" \in Tasks
  BY OpsOfReader DEF Trailers, Sends
<1>2. Is("app", <<"end">>, {"end"}) /\ Is("app", <<"HTTPCLOSED">>, {"HTTPCLOSED"})
  BY IsOne, OpsOfReader
<1>3. CASE more
  <2>1. Begin("app", <<"end">> \o <<>>) /\ <<"end">> \o <<>> = <<"end">>
    BY <1>3 DEF Trailers
  <2> QED BY <1>1, <1>2, <2>1, AppStarts
<1>4. CASE ~more
  <2>1. Begin("app", <<"end">> \o <<"HTTPCLOSED">>)
    BY <1>4 DEF Trailers
  <2>2. Is("app", <<"end">> \o <<"HTTPCLOSED">>, {"end"} \cup {"HTTPCLOSED"})
    BY <1>1, <1>2, LaterOf, IsJoined
  <2>3. {"end"} \cup {"HTTPCLOSED"} = {"end", "HTTPCLOSED"}
    OBVIOUS
  <2>4. Is("app", <<"end">> \o <<"HTTPCLOSED">>, {"end", "HTTPCLOSED"})
    BY <2>2, <2>3
  <2>5. "release" \notin {"end", "HTTPCLOSED"}
    OBVIOUS
  <2> QED BY <1>1, <2>1, <2>4, <2>5, AppStarts
<1> QED BY <1>3, <1>4

LEMMA TaskSendMessage ==
  ASSUME TaskInv, SendMessage
  PROVE  TaskInv' /\ Idle("app") /\ app = "running" /\ Started("app", {"frame"})
<1>1. Idle("app") /\ app = "running" /\ UNCHANGED <<wait, lock>> /\ Begin("app", <<"frame">>)
  BY DEF SendMessage, Sends
<1>2. Is("app", <<"frame">>, {"frame"})
  BY IsOne, OpsOfReader
<1> QED BY <1>1, <1>2, AppStarts

LEMMA TaskClose ==
  ASSUME TaskInv, Close
  PROVE  /\ TaskInv' /\ Idle("app") /\ app = "running"
         /\ \/ state = "HANDSHAKE" /\ state' = "HTTPCLOSED" /\ Started("app", {"head", "end"})
            \/ state # "HANDSHAKE" /\ state' = "CLOSED" /\ Started("app", {"close"})
<1>1. Idle("app") /\ app = "running" /\ UNCHANGED <<wait, lock>>
  BY DEF Close, Sends
<1>2. CASE state = "HANDSHAKE"
  BY <1>1, <1>2, IsError, AppStarts DEF Close
<1>3. CASE state # "HANDSHAKE"
  <2>1. Is("app", <<"close">>, {"close"})
    BY IsOne, OpsOfReader
  <2> QED BY <1>1, <1>3, <2>1, AppStarts DEF Close
<1> QED BY <1>2, <1>3

LEMMA TaskFinish ==
  ASSUME TaskInv, Finish
  PROVE  /\ TaskInv' /\ Idle("app")
         /\ \/ \E N : Started("app", N) /\ N \subseteq {"closeStream", "closeTransport"}
            \/ /\ state = "HANDSHAKE"
               /\ Started("app", {"head", "end", "closeStream", "closeTransport"})
            \/ /\ state = "CONNECTED"
               /\ Started("app", {"close", "closeStream", "closeTransport"})
<1> DEFINE both == <<"closeStream", "closeTransport">>
           two == {"closeStream", "closeTransport"}
<1>1. Idle("app") /\ UNCHANGED <<wait, lock>> /\ "app" \in Tasks
      /\ Begin("app", IF closed THEN <<>> ELSE AtEnd \o both)
  BY OpsOfReader DEF Finish, StreamClosed
<1>2. Is("app", both, two)
  BY IsTwo, OpsOfReader, LaterOf DEF Fails, Rest
<1> HIDE DEF both
<1>3. CASE closed
  BY <1>1, <1>3, IsNone, AppStarts
<1>4. CASE ~closed /\ state = "HANDSHAKE"
  <2>1. Begin("app", ErrorResponse \o both)
    BY <1>1, <1>4 DEF AtEnd
  <2>2. \A a \in {"head", "end"} : two \subseteq Later(a)
    BY LaterOf
  <2>3. Is("app", ErrorResponse \o both, {"head", "end"} \cup two)
    BY <1>1, <1>2, <2>2, IsError, IsJoined
  <2>4. {"head", "end"} \cup two = {"head", "end", "closeStream", "closeTransport"}
    OBVIOUS
  <2>5. "release" \notin {"head", "end", "closeStream", "closeTransport"}
    OBVIOUS
  <2>6. Is("app", ErrorResponse \o both, {"head", "end", "closeStream", "closeTransport"})
    BY <2>3, <2>4
  <2> QED BY <1>1, <1>4, <2>1, <2>5, <2>6, AppStarts
<1>5. CASE ~closed /\ state = "CONNECTED"
  <2>1. Begin("app", <<"close">> \o both)
    BY <1>1, <1>5 DEF AtEnd
  <2>2. \A a \in {"close"} : two \subseteq Later(a)
    BY LaterOf
  <2>3. Is("app", <<"close">>, {"close"})
    BY IsOne, OpsOfReader
  <2>4. Is("app", <<"close">> \o both, {"close"} \cup two)
    BY <1>1, <1>2, <2>2, <2>3, IsJoined
  <2>5. {"close"} \cup two = {"close", "closeStream", "closeTransport"}
    OBVIOUS
  <2>6. "release" \notin {"close", "closeStream", "closeTransport"}
    OBVIOUS
  <2>7. Is("app", <<"close">> \o both, {"close", "closeStream", "closeTransport"})
    BY <2>4, <2>5
  <2> QED BY <1>1, <1>5, <2>1, <2>6, <2>7, AppStarts
<1>6. CASE ~closed /\ state \notin {"HANDSHAKE", "CONNECTED"}
  <2>1. Begin("app", <<>> \o both)
    BY <1>1, <1>6 DEF AtEnd
  <2>2. both \in Seq(Ops)
    BY <1>2 DEF Is, Program
  <2>3. <<>> \o both = both
    BY <2>2, ConcatEmptySeq
  <2>4. "release" \notin two
    OBVIOUS
  <2> QED BY <1>1, <1>2, <2>1, <2>3, <2>4, AppStarts
<1> QED BY <1>3, <1>4, <1>5, <1>6

LEMMA TaskPingLoop ==
  ASSUME TaskInv, PingLoop
  PROVE  /\ TaskInv' /\ ping = "on"
         /\ \/ ping' = ping /\ Started("ping", {"frame"})
            \/ ping' = "ended" /\ UNCHANGED <<todo, cpu>>
<1>1. Idle("ping") /\ UNCHANGED <<wait, lock>> /\ "ping" \in Tasks /\ ping = "on"
  BY OpsOfReader DEF PingLoop
<1>2. CASE PingsOn
  <2>1. Is("ping", <<"frame">>, {"frame"})
    BY IsOne, OpsOfReader
  <2>2. Begin("ping", <<"frame">>) /\ ping' = ping
    BY <1>2 DEF PingLoop
  <2> QED BY <1>1, <2>1, <2>2, IdleFacts, StartsIs
<1>3. CASE ~PingsOn
  BY <1>1, <1>3, TaskStays DEF PingLoop, taskVars
<1> QED BY <1>2, <1>3

----------------------------------------------------------------------------
(* The types.                                                              *)

LEMMA CpuSet ==
  ASSUME NEW t \in Tasks, NEW p, Goes(t, p) \/ Begin(t, p)
  PROVE  cpu' \in Tasks \cup {"none"}
BY DEF Goes, Begin

LEMMA TailFrames ==
  ASSUME BaseInv, frames # <<>>
  PROVE  Tail(frames) \in Seq(FrameKinds)
BY HeadTailProperties, EmptySeq DEF BaseInv

LEMMA BaseStep ==
  ASSUME BaseInv, TaskInv, NEW t \in Tasks, Step(t)
  PROVE  BaseInv'
<1>1. CASE Drained(t)
  <2>1. cpu' \in Tasks \cup {"none"}
    BY <1>1 DEF Drained
  <2> QED BY <1>1, <2>1 DEF Drained, BaseInv, streamVars, roleVars, clientVars, history
<1>2. CASE DrainFails(t)
  <2>1. cpu' \in Tasks \cup {"none"}
    BY <1>2, CpuSet DEF DrainFails
  <2> QED BY <1>2, <2>1 DEF DrainFails, BaseInv, streamVars, roleVars, clientVars, history
<1>3. CASE Release(t)
  <2>1. cpu' \in Tasks \cup {"none"}
    BY <1>3, CpuSet DEF Release
  <2> QED BY <1>3, <2>1 DEF Release, BaseInv, streamVars, roleVars, clientVars, history
<1>4. CASE Gone(t)
  <2>1. cpu' \in Tasks \cup {"none"}
    BY <1>4 DEF Gone
  <2> QED BY <1>4, <2>1 DEF Gone, BaseInv, streamVars, roleVars, clientVars, history
<1>5. ASSUME NEW h \in {"head", "switch", "body", "end"}, SendH11(t, h)
      PROVE  BaseInv'
  <2>1. CASE /\ H11After(h) # "error" /\ h11' = H11After(h) /\ Write(t, h)
             /\ UNCHANGED <<roleVars, clientVars, queue>>
    <3>1. cpu' \in Tasks \cup {"none"}
      BY <2>1, CpuSet DEF Write
    <3>2. h11' \in {"response", "body", "done", "switched"}
      BY <2>1, <1>5 DEF H11After
    <3>3. wire' \in {"none", "head", "ended", "switched", "closed", "broken"}
      BY <2>1 DEF Write, OnWire, BaseInv
    <3> QED BY <1>5, <2>1, <3>1, <3>2, <3>3 DEF SendH11, BaseInv, roleVars, clientVars
  <2>2. CASE H11After(h) = "error" /\ Raise(t) /\ UNCHANGED <<h11, wire>>
    BY <1>5, <2>2 DEF SendH11, Raise, Closing, BaseInv
  <2> QED BY <1>5, <2>1, <2>2 DEF SendH11
<1>6. ASSUME NEW h \in {"frame", "close"}, SendFrame(t, h)
      PROVE  BaseInv'
  <2>1. CASE conn = "none" /\ Raise(t) /\ UNCHANGED <<conn, wire>>
    BY <1>6, <2>1 DEF SendFrame, Raise, Closing, BaseInv
  <2>2. CASE /\ conn # "none" /\ MaySend(h) /\ conn' = AfterSend(h) /\ Write(t, h)
             /\ UNCHANGED <<roleVars, clientVars, queue>>
    <3>1. cpu' \in Tasks \cup {"none"}
      BY <2>2, CpuSet DEF Write
    <3>2. conn' \in {"none", "open", "local", "remote", "closed"}
      BY <2>2, <1>6 DEF AfterSend, BaseInv
    <3>3. wire' \in {"none", "head", "ended", "switched", "closed", "broken"}
      BY <2>2 DEF Write, OnWire, BaseInv
    <3> QED BY <1>6, <2>2, <3>1, <3>2, <3>3 DEF SendFrame, BaseInv, roleVars, clientVars
  <2>3. CASE /\ conn # "none" /\ ~MaySend(h) /\ Goes(t, <<>>)
             /\ UNCHANGED <<conn, wait, lock, wire, roleVars, clientVars, queue>>
    <3>1. cpu' \in Tasks \cup {"none"}
      BY <2>3, CpuSet
    <3> QED BY <1>6, <2>3, <3>1 DEF SendFrame, BaseInv, roleVars, clientVars
  <2> QED BY <1>6, <2>1, <2>2, <2>3 DEF SendFrame
<1>7. ASSUME NEW h \in Puts, Put(t, h)
      PROVE  BaseInv'
  <2>1. cpu' \in Tasks \cup {"none"}
    BY <1>7, CpuSet DEF Put
  <2>2. queue' \in 0 .. QueueSize
    BY <1>7, WSAssumption DEF Put, HasRoom, BaseInv
  <2> QED BY <1>7, <2>1, <2>2 DEF Put, BaseInv, streamVars, roleVars, clientVars
<1>8. CASE PutWaits(t)
  BY <1>8 DEF PutWaits, BaseInv, streamVars, roleVars, clientVars, history
<1>9. CASE CloseStream(t)
  <2>1. cpu' \in Tasks \cup {"none"}
    BY <1>9, CpuSet DEF CloseStream
  <2>2. closed' \in BOOLEAN /\ stream' \in BOOLEAN
    BY <1>9 DEF CloseStream, BaseInv
  <2> QED BY <1>9, <2>1, <2>2 DEF CloseStream, BaseInv, roleVars, clientVars, history
<1>10. CASE Forget(t)
  <2>1. cpu' \in Tasks \cup {"none"}
    BY <1>10, CpuSet DEF Forget
  <2>2. stream' \in BOOLEAN
    BY <1>10 DEF Forget
  <2> QED BY <1>10, <2>1, <2>2 DEF Forget, BaseInv, roleVars, clientVars, history
<1>11. CASE CloseTransport(t)
  BY <1>11 DEF CloseTransport, Closing, BaseInv, streamVars, roleVars, history
<1>12. CASE Assign(t)
  <2>1. cpu' \in Tasks \cup {"none"}
    BY <1>12, CpuSet DEF Assign
  <2>2. 0 \in 0 .. MaxLength + 1
    BY WSAssumption
  <2>3. /\ state' \in {"HANDSHAKE", "CONNECTED", "RESPONSE", "CLOSED", "HTTPCLOSED"}
        /\ closed' \in BOOLEAN /\ length' \in 0 .. MaxLength + 1 /\ ping' \in {"none", "on", "ended"}
    BY <1>12, <2>2 DEF Assign, BaseInv
  <2> QED BY <1>12, <2>1, <2>3 DEF Assign, BaseInv, clientVars, history
<1>13. CASE Fragment(t)
  <2>1. cpu' \in Tasks \cup {"none"}
    BY <1>13, CpuSet DEF Fragment
  <2>2. frames' \in Seq(FrameKinds)
    BY <1>13, TailFrames DEF Fragment
  <2>3. length' \in 0 .. MaxLength + 1 /\ tooBig' \in BOOLEAN
    <3>1. length \in 0 .. MaxLength + 1 /\ tooBig \in BOOLEAN
      BY DEF BaseInv
    <3>2. \/ tooBig' = TRUE /\ length' = MaxLength + 1
          \/ tooBig' = tooBig /\ length' \in 0 .. MaxLength
      BY <1>13, <3>1, TaskFragment
    <3>3. tooBig' \in BOOLEAN
      BY <3>1, <3>2
    <3>4. MaxLength \in Nat /\ (length' = MaxLength + 1 \/ length' \in 0 .. MaxLength)
      BY <3>2, WSAssumption
    <3>5. length' \in 0 .. MaxLength + 1
      BY <3>4
    <3> QED BY <3>3, <3>5
  <2> QED BY <1>13, <2>1, <2>2, <2>3 DEF Fragment, BaseInv, roleVars
<1>14. CASE Control(t)
  <2>1. cpu' \in Tasks \cup {"none"}
    BY <1>14, CpuSet DEF Control
  <2>2. frames' \in Seq(FrameKinds)
    BY <1>14, TailFrames DEF Control, BaseInv
  <2>3. conn' \in {"none", "open", "local", "remote", "closed"}
    BY <1>14 DEF Control, BaseInv
  <2> QED BY <1>14, <2>1, <2>2, <2>3 DEF Control, BaseInv, roleVars, history
<1> QED BY <1>1, <1>2, <1>3, <1>4, <1>5, <1>6, <1>7, <1>8, <1>9, <1>10, <1>11, <1>12, <1>13, <1>14
        DEF Step

LEMMA BaseReader ==
  ASSUME BaseInv, TaskInv
  PROVE  /\ \A valid \in BOOLEAN : Request(valid) => BaseInv'
         /\ \A data \in Chunks : ReadData(data) => BaseInv'
         /\ ReadEof => BaseInv'
<1>0. "reader" \in Tasks
  BY OpsOfReader
<1>1. ASSUME NEW valid \in BOOLEAN, Request(valid)
      PROVE  BaseInv'
  <2>1. cpu' \in Tasks \cup {"none"}
    BY <1>0, <1>1, CpuSet DEF Request
  <2>2. app' \in {"none", "running", "raised", "finishing"}
    BY <1>1 DEF Request, BaseInv
  <2> QED BY <1>1, <2>1, <2>2 DEF Request, BaseInv, streamVars, clientVars, history
<1>2. ASSUME NEW data \in Chunks, ReadData(data)
      PROVE  BaseInv'
  <2>1. data \in Seq(FrameKinds)
    <3>1. data \in [1 .. 1 -> FrameKinds] \/ data \in [1 .. 2 -> FrameKinds]
      BY DEF Chunks
    <3>2. Seq(FrameKinds) = UNION {[1 .. n -> FrameKinds] : n \in Nat}
      BY SeqDef
    <3> QED BY <3>1, <3>2
  <2>2. sent' \in 0 .. MaxFrames
    <3>1. Len(data) \in Nat /\ sent \in Nat /\ sent' = sent + Len(data) /\ sent + Len(data) <= MaxFrames
      BY <1>2, <2>1, WSAssumption DEF ReadData, BaseInv
    <3> QED BY <3>1, WSAssumption
  <2>3. cpu' \in Tasks \cup {"none"}
    BY <1>0, <1>2, CpuSet DEF ReadData, BaseInv
  <2>4. frames' \in Seq(FrameKinds) /\ early' \in BOOLEAN
    <3>1. frames \in Seq(FrameKinds) /\ early \in BOOLEAN
      BY DEF BaseInv
    <3>2. frames \o data \in Seq(FrameKinds)
      BY <2>1, <3>1, ConcatProperties
    <3> QED BY <1>2, <3>1, <3>2 DEF ReadData
  <2> QED BY <1>2, <2>2, <2>3, <2>4 DEF ReadData, BaseInv, streamVars, roleVars
<1>3. ASSUME ReadEof
      PROVE  BaseInv'
  <2>1. cpu' \in Tasks \cup {"none"}
    BY <1>0, <1>3, CpuSet DEF ReadEof
  <2> QED BY <1>3, <2>1 DEF ReadEof, BaseInv, streamVars, clientVars, history
<1> QED BY <1>1, <1>2, <1>3

LEMMA BaseApp ==
  ASSUME BaseInv, AppStep
  PROVE  BaseInv'
<1>0. "app" \in Tasks
  BY OpsOfReader
<1>1. CASE Receive
  <2>1. queue' \in 0 .. QueueSize
    BY <1>1, WSAssumption DEF Receive, BaseInv
  <2> QED BY <1>1, <2>1 DEF Receive, BaseInv, streamVars, taskVars, roleVars, clientVars, history
<1>2. CASE Accept
  <2>1. cpu' \in Tasks \cup {"none"}
    BY <1>0, <1>2, CpuSet DEF Accept, BaseInv
  <2>2. /\ accepted' \in BOOLEAN /\ badAccept' \in BOOLEAN
        /\ conn' \in {"none", "open", "local", "remote", "closed"}
        /\ app' \in {"none", "running", "raised", "finishing"}
    BY <1>2 DEF Accept, BaseInv
  <2> QED BY <1>2, <2>1, <2>2 DEF Accept, Sends, BaseInv, clientVars
<1>3. CASE Start
  <2>1. response' \in {"none", "plain", "trailers"}
    BY <1>3 DEF Start
  <2> QED BY <1>3, <2>1 DEF Start, Sends, BaseInv, clientVars
<1>4. CASE SendMessage
  <2>1. cpu' \in Tasks \cup {"none"}
    BY <1>0, <1>4, CpuSet DEF SendMessage
  <2> QED BY <1>4, <2>1 DEF SendMessage, Sends, BaseInv, streamVars, clientVars
<1>5. CASE Close
  <2>1. cpu' \in Tasks \cup {"none"}
    BY <1>0, <1>5, CpuSet DEF Close
  <2> QED BY <1>5, <2>1 DEF Close, Sends, BaseInv, clientVars
<1>6. CASE Finish
  <2>1. cpu' \in Tasks \cup {"none"}
    BY <1>0, <1>6, CpuSet DEF Finish
  <2> QED BY <1>6, <2>1 DEF Finish, BaseInv, streamVars, clientVars, history
<1>7. ASSUME NEW more \in BOOLEAN, Trailers(more)
      PROVE  BaseInv'
  <2>1. cpu' \in Tasks \cup {"none"}
    BY <1>0, <1>7, CpuSet DEF Trailers
  <2> QED BY <1>7, <2>1 DEF Trailers, Sends, BaseInv, streamVars, clientVars
<1>8. ASSUME NEW suppressed \in BOOLEAN, NEW more \in BOOLEAN, Reject(suppressed, more)
      PROVE  BaseInv'
  <2>1. cpu' \in Tasks \cup {"none"}
    BY <1>0, <1>8, CpuSet DEF Reject
  <2> QED BY <1>8, <2>1 DEF Reject, Sends, BaseInv, streamVars, clientVars
<1> QED BY <1>1, <1>2, <1>3, <1>4, <1>5, <1>6, <1>7, <1>8 DEF AppStep

LEMMA BaseRest ==
  ASSUME BaseInv, PingLoop \/ RunEnds \/ Lose
  PROVE  BaseInv'
<1>0. "ping" \in Tasks
  BY OpsOfReader
<1>1. CASE PingLoop
  <2>1. cpu' \in Tasks \cup {"none"} /\ ping' \in {"none", "on", "ended"}
    BY <1>0, <1>1, CpuSet DEF PingLoop, BaseInv
  <2> QED BY <1>1, <2>1 DEF PingLoop, BaseInv, streamVars, clientVars, history
<1>2. CASE RunEnds
  BY <1>2 DEF RunEnds, BaseInv, streamVars, taskVars, roleVars, history
<1>3. CASE Lose
  BY <1>3 DEF Lose, BaseInv, streamVars, taskVars, roleVars, history
<1> QED BY <1>1, <1>2, <1>3

----------------------------------------------------------------------------
(* Where the parts are.                                                    *)

LEMMA HasElse ==
  ASSUME NEW t \in Tasks, Others(t), NEW s \in Tasks, s # t
  PROVE  todo'[s] = todo[s] /\ \A op : Has(s, op)' <=> Has(s, op)
BY DEF Others, Has

LEMMA HasSame ==
  ASSUME todo' = todo
  PROVE  \A s \in Tasks : \A op : Has(s, op)' <=> Has(s, op)
BY DEF Has

LEMMA NotNew ==
  ASSUME PartInv, NEW t \in Tasks, todo[t] # <<>> \/ wait[t] # "no"
  PROVE  reader # "new" /\ (t = "app" => app \notin {"none", "raised"})
BY DEF PartInv

\* Facts of PartInv for a step of t.
LEMMA PartMove ==
  ASSUME PartInv, NEW t \in Tasks, Others(t), todo[t] # <<>> \/ wait[t] # "no",
         UNCHANGED <<reader, app, accepted>>,
         \A s \in Tasks : s # t => wait'[s] = wait[s],
         conn # "none" => conn' # "none",
         ping' = "on" => accepted,
         Has(t, "events")' \/ Has(t, "pings")' => accepted,
         t # "app" /\ (Has(t, "frame")' \/ Has(t, "close")') => accepted
  PROVE  PartInv'
<1>1. reader' # "new"
  BY NotNew
<1>2. app' \in {"none", "raised"} => todo'["app"] = <<>> /\ wait'["app"] = "no"
  <2>1. SUFFICES ASSUME app' \in {"none", "raised"}
                 PROVE  todo'["app"] = <<>> /\ wait'["app"] = "no"
    OBVIOUS
  <2>2. t # "app" /\ "app" \in Tasks
    BY <2>1, NotNew, OpsOfReader
  <2>3. todo["app"] = <<>> /\ wait["app"] = "no"
    BY <2>1 DEF PartInv
  <2> QED BY <2>2, <2>3, HasElse
<1>3. accepted' => conn' # "none"
  BY DEF PartInv
<1>4. \A s \in Tasks : Has(s, "events")' \/ Has(s, "pings")' => accepted
  <2>1. \A s \in Tasks : s # t => (Has(s, "events")' \/ Has(s, "pings")' => accepted)
    BY HasElse DEF PartInv
  <2> QED BY <2>1
<1>5. \A s \in {"reader", "ping"} : Has(s, "frame")' \/ Has(s, "close")' => accepted
  <2>1. \A s \in {"reader", "ping"} :
          s \in Tasks /\ s # "app" /\ (s # t => (Has(s, "frame")' \/ Has(s, "close")' => accepted))
    BY HasElse, OpsOfReader DEF PartInv
  <2> QED BY <2>1
<1> QED BY <1>1, <1>2, <1>3, <1>4, <1>5 DEF PartInv

LEMMA PartDid ==
  ASSUME PartInv, NEW t \in Tasks, NEW h, NEW N, Did(t, h, N), UNCHANGED <<reader, app, accepted>>,
         \A s \in Tasks : s # t => wait'[s] = wait[s],
         conn # "none" => conn' # "none",
         ping' = "on" => ping = "on" \/ h = "pings",
         \A op \in {"events", "pings", "frame", "close"} : op \in N => h = "events"
  PROVE  PartInv'
<1>1. h = "events" \/ h = "pings" => accepted
  BY DEF Did, PartInv
<1>2. ping' = "on" => accepted
  BY <1>1 DEF PartInv
<1>3. \A op : Has(t, op)' => op \in N \/ Has(t, op)
  BY DEF Did
<1>4. Has(t, "events")' \/ Has(t, "pings")' => accepted
  BY <1>1, <1>3 DEF PartInv
<1>5. t # "app" /\ (Has(t, "frame")' \/ Has(t, "close")') => accepted
  BY <1>1, <1>3 DEF PartInv, Tasks
<1>6. Others(t) /\ todo[t] # <<>>
  BY DEF Did
<1> QED BY <1>2, <1>4, <1>5, <1>6, PartMove

LEMMA PartStays ==
  ASSUME PartInv, todo' = todo, UNCHANGED <<reader, app, accepted, closed, h11, conn>>,
         ping' = "on" => ping = "on",
         \A s \in Tasks : wait'[s] # "no" => wait[s] # "no" \/ todo[s] # <<>>
  PROVE  PartInv'
<1>1. \A s \in Tasks : \A op : Has(s, op)' <=> Has(s, op)
  BY HasSame
<1>2. "app" \in Tasks /\ "reader" \in Tasks /\ "ping" \in Tasks
  BY OpsOfReader
<1>3. reader' = "new" => /\ ~closed' /\ app' = "none" /\ ping' # "on" /\ h11' = "response"
                         /\ \A s \in Tasks : todo'[s] = <<>> /\ wait'[s] = "no"
  BY DEF PartInv
<1>4. app' \in {"none", "raised"} => todo'["app"] = <<>> /\ wait'["app"] = "no"
  BY <1>2 DEF PartInv
<1>5. accepted' => conn' # "none"
  BY DEF PartInv
<1>6. \A s \in Tasks : Has(s, "events")' \/ Has(s, "pings")' => accepted'
  BY <1>1 DEF PartInv
<1>7. ping' = "on" => accepted'
  BY DEF PartInv
<1>8. \A s \in {"reader", "ping"} : Has(s, "frame")' \/ Has(s, "close")' => accepted'
  BY <1>1, <1>2 DEF PartInv
<1> QED BY <1>3, <1>4, <1>5, <1>6, <1>7, <1>8 DEF PartInv

LEMMA PartRaise ==
  ASSUME TaskInv, PartInv, NEW t \in Tasks, NEW h \in Sent, Does(t, h), Raise(t),
         UNCHANGED <<accepted, conn, closed, h11>>
  PROVE  PartInv'
<1>1. ping' = ping
  BY DEF Raise
<1>2. reader # "new" /\ todo[t] # <<>>
  BY NotNew DEF Does
<1>3. CASE /\ t = "app" /\ app = "running" /\ app' = "raised" /\ reader' = reader
           /\ Others(t) /\ (\A op : ~Has(t, op)') /\ todo'[t] = <<>> /\ wait'[t] = "no"
  <2>1. \A s \in Tasks : Has(s, "events")' \/ Has(s, "pings")' => accepted
    <3>1. \A s \in Tasks : s # t => (Has(s, "events")' \/ Has(s, "pings")' => accepted)
      BY <1>3, HasElse DEF PartInv
    <3> QED BY <1>3, <3>1
  <2>2. \A s \in {"reader", "ping"} : Has(s, "frame")' \/ Has(s, "close")' => accepted
    <3>1. \A s \in {"reader", "ping"} : s \in Tasks /\ s # t
      BY <1>3, OpsOfReader
    <3> QED BY <1>3, <3>1, HasElse DEF PartInv
  <2> QED BY <1>1, <1>2, <1>3, <2>1, <2>2 DEF PartInv
<1>4. CASE /\ ~(t = "app" /\ app = "running") /\ app' = app /\ reader' = "crashed"
           /\ \A s \in Tasks : todo'[s] = <<>> /\ wait'[s] = "no" /\ \A op : ~Has(s, op)'
  BY <1>1, <1>2, <1>4, OpsOfReader DEF PartInv
<1> QED BY <1>3, <1>4, TaskRaise

LEMMA PartStep ==
  ASSUME BaseInv, TaskInv, PartInv, NEW t \in Tasks, Step(t)
  PROVE  PartInv'
<1>0. wait \in [Tasks -> {"no", "drain", "put", "gone"}]
  BY DEF TaskInv, WaitInv
<1>1. CASE Drained(t)
  <2>1. todo' = todo /\ \A s \in Tasks : wait'[s] # "no" => wait[s] # "no"
    BY <1>0, <1>1 DEF Drained
  <2> QED BY <1>1, <2>1, PartStays DEF Drained, streamVars, roleVars
<1>2. CASE DrainFails(t)
  <2>1. /\ wait[t] # "no" /\ UNCHANGED <<reader, app, accepted, conn, ping>>
        /\ \A s \in Tasks : s # t => wait'[s] = wait[s]
    BY <1>0, <1>2 DEF DrainFails, Drains, streamVars, roleVars
  <2>2. Others(t) /\ \A op : Has(t, op)' <=> op \in {"closeStream", "release"} \/ Has(t, op)
    BY <1>2, TaskDrainFails
  <2>3. Has(t, "events")' \/ Has(t, "pings")' => accepted
    BY <2>2 DEF PartInv
  <2>4. t # "app" /\ (Has(t, "frame")' \/ Has(t, "close")') => accepted
    BY <2>2 DEF PartInv, Tasks
  <2>5. ping' = "on" => accepted
    BY <2>1 DEF PartInv
  <2> QED BY <2>1, <2>2, <2>3, <2>4, <2>5, PartMove
<1>3. CASE Release(t)
  <2>1. Did(t, "release", {})
    BY <1>3, TaskRelease
  <2> QED BY <1>3, <2>1, PartDid DEF Release, streamVars, roleVars
<1>4. CASE Gone(t)
  <2>1. todo' = todo /\ \A s \in Tasks : wait'[s] # "no" => wait[s] # "no"
    BY <1>0, <1>4 DEF Gone
  <2> QED BY <1>4, <2>1, PartStays DEF Gone, streamVars, roleVars
<1>5. ASSUME NEW h \in {"head", "switch", "body", "end"}, SendH11(t, h)
      PROVE  PartInv'
  <2>1. h \in Sent
    BY DEF Sent
  <2>2. CASE H11After(h) = "error" /\ Raise(t) /\ UNCHANGED <<h11, wire>>
    BY <1>5, <2>1, <2>2, PartRaise DEF SendH11
  <2>3. CASE H11After(h) # "error" /\ Write(t, h) /\ UNCHANGED <<roleVars, clientVars, queue>>
    <3>1. Did(t, h, {})
      BY <1>5, <2>1, <2>3, TaskWrite DEF SendH11
    <3>2. \A s \in Tasks : s # t => wait'[s] = wait[s]
      BY <1>0, <2>3 DEF Write
    <3>3. UNCHANGED <<reader, app, ping, accepted, conn>>
      BY <1>5, <2>3 DEF SendH11, roleVars
    <3> QED BY <3>1, <3>2, <3>3, PartDid
  <2> QED BY <1>5, <2>2, <2>3 DEF SendH11
<1>6. ASSUME NEW h \in {"frame", "close"}, SendFrame(t, h)
      PROVE  PartInv'
  <2>1. h \in Sent
    BY DEF Sent
  <2>2. CASE conn = "none" /\ Raise(t) /\ UNCHANGED <<conn, wire>>
    BY <1>6, <2>1, <2>2, PartRaise DEF SendFrame
  <2>3. CASE /\ conn # "none" /\ MaySend(h) /\ conn' = AfterSend(h) /\ Write(t, h)
             /\ UNCHANGED <<roleVars, clientVars, queue>>
    <3>1. Did(t, h, {})
      BY <1>6, <2>1, <2>3, TaskWrite DEF SendFrame
    <3>2. \A s \in Tasks : s # t => wait'[s] = wait[s]
      BY <1>0, <2>3 DEF Write
    <3>3. UNCHANGED <<reader, app, ping, accepted>> /\ conn' # "none"
      BY <1>6, <2>3 DEF SendFrame, roleVars, AfterSend
    <3> QED BY <3>1, <3>2, <3>3, PartDid
  <2>4. CASE /\ conn # "none" /\ ~MaySend(h) /\ Goes(t, <<>>)
             /\ UNCHANGED <<conn, wait, lock, wire, roleVars, clientVars, queue>>
    <3>1. Did(t, h, {})
      BY <1>6, <2>4, TaskDoesOnly DEF SendFrame
    <3>2. UNCHANGED <<reader, app, ping, accepted, conn, wait>>
      BY <1>6, <2>4 DEF SendFrame, roleVars
    <3> QED BY <3>1, <3>2, PartDid
  <2> QED BY <1>6, <2>2, <2>3, <2>4 DEF SendFrame
<1>7. ASSUME NEW h \in Puts, Put(t, h)
      PROVE  PartInv'
  <2>1. Did(t, h, {})
    BY <1>7, TaskPut
  <2>2. \A s \in Tasks : s # t => wait'[s] = wait[s]
    BY <1>0, <1>7 DEF Put
  <2> QED BY <1>7, <2>1, <2>2, PartDid DEF Put, streamVars, roleVars
<1>8. CASE PutWaits(t)
  <2>1. todo[t] # <<>>
    BY <1>8 DEF PutWaits, TaskInv, WaitInv
  <2>2. todo' = todo /\ \A s \in Tasks : wait'[s] # "no" => wait[s] # "no" \/ todo[s] # <<>>
    BY <1>0, <1>8, <2>1 DEF PutWaits
  <2> QED BY <1>8, <2>2, PartStays DEF PutWaits, streamVars, roleVars
<1>9. CASE CloseStream(t)
  <2>1. UNCHANGED <<reader, app, ping, accepted, conn, wait>>
    BY <1>9 DEF CloseStream, roleVars
  <2>2. PICK N \in {{"forget"}, {"disconnect", "forget"}, {}} : Did(t, "closeStream", N)
    BY <1>9, TaskCloseStream
  <2>3. \A op \in {"events", "pings", "frame", "close"} : op \notin N
    BY <2>2
  <2> QED BY <2>1, <2>2, <2>3, PartDid
<1>10. CASE Forget(t)
  <2>1. Did(t, "forget", {})
    BY <1>10, TaskForget
  <2> QED BY <1>10, <2>1, PartDid DEF Forget, roleVars
<1>11. CASE CloseTransport(t)
  <2>1. Did(t, "closeTransport", {})
    BY <1>11, TaskCloseTransport
  <2>2. \A s \in Tasks : s # t => wait'[s] = wait[s]
    BY <1>0, <1>11 DEF CloseTransport
  <2> QED BY <1>11, <2>1, <2>2, PartDid DEF CloseTransport, streamVars, roleVars
<1>12. CASE Assign(t)
  <2>1. PICK h : Did(t, h, {}) /\ (ping' = ping \/ h = "pings")
    BY <1>12, TaskAssign
  <2>2. UNCHANGED <<reader, app, accepted, conn, wait>>
    BY <1>12 DEF Assign
  <2> QED BY <2>1, <2>2, PartDid
<1>13. CASE Fragment(t)
  <2>1. PICK N : Did(t, "events", N)
    BY <1>13, TaskFragment DEF BaseInv
  <2>2. UNCHANGED <<reader, app, ping, accepted, conn, wait>>
    BY <1>13 DEF Fragment, roleVars
  <2> QED BY <2>1, <2>2, PartDid
<1>14. CASE Control(t)
  <2>1. PICK N : Did(t, "events", N) /\ (conn' = conn \/ conn' \in {"closed", "remote"})
    BY <1>14, TaskControl
  <2>2. UNCHANGED <<reader, app, ping, accepted, wait>>
    BY <1>14 DEF Control, roleVars
  <2> QED BY <2>1, <2>2, PartDid
<1> QED BY <1>1, <1>2, <1>3, <1>4, <1>5, <1>6, <1>7, <1>8, <1>9, <1>10, <1>11, <1>12, <1>13, <1>14
        DEF Step

LEMMA PartStarted ==
  ASSUME PartInv, NEW t \in Tasks, NEW N, Started(t, N), wait' = wait, reader' # "new",
         app' = app \/ app' \in {"running", "finishing"}, t = "app" => app' \notin {"none", "raised"},
         accepted => accepted', accepted' => conn' # "none", ping' = ping,
         "events" \in N \/ "pings" \in N => accepted',
         t # "app" /\ ("frame" \in N \/ "close" \in N) => accepted'
  PROVE  PartInv'
<1>1. Others(t) /\ \A op : Has(t, op)' <=> op \in N
  BY DEF Started
<1>2. app' \in {"none", "raised"} => todo'["app"] = <<>> /\ wait'["app"] = "no"
  <2>1. SUFFICES ASSUME app' \in {"none", "raised"}
                 PROVE  todo'["app"] = <<>> /\ wait'["app"] = "no"
    OBVIOUS
  <2>2. t # "app" /\ "app" \in Tasks /\ app' = app
    BY <2>1, OpsOfReader
  <2>3. todo["app"] = <<>> /\ wait["app"] = "no"
    BY <2>1, <2>2 DEF PartInv
  <2> QED BY <1>1, <2>2, <2>3, HasElse
<1>3. \A s \in Tasks : Has(s, "events")' \/ Has(s, "pings")' => accepted'
  <2>1. \A s \in Tasks : s # t => (Has(s, "events")' \/ Has(s, "pings")' => accepted)
    BY <1>1, HasElse DEF PartInv
  <2> QED BY <1>1, <2>1
<1>4. \A s \in {"reader", "ping"} : Has(s, "frame")' \/ Has(s, "close")' => accepted'
  <2>1. \A s \in {"reader", "ping"} :
          s \in Tasks /\ s # "app" /\ (s # t => (Has(s, "frame")' \/ Has(s, "close")' => accepted))
    BY <1>1, HasElse, OpsOfReader DEF PartInv
  <2> QED BY <1>1, <2>1
<1>5. ping' = "on" => accepted'
  BY DEF PartInv
<1> QED BY <1>2, <1>3, <1>4, <1>5 DEF PartInv

LEMMA PartReader ==
  ASSUME BaseInv, TaskInv, PartInv
  PROVE  /\ \A valid \in BOOLEAN : Request(valid) => PartInv'
         /\ \A data \in Chunks : ReadData(data) => PartInv'
         /\ ReadEof => PartInv'
<1>0. "reader" \in Tasks /\ "reader" # "app" /\ (accepted => conn # "none")
  BY OpsOfReader DEF PartInv
<1>1. ASSUME NEW valid \in BOOLEAN, Request(valid)
      PROVE  PartInv'
  <2>1. UNCHANGED <<wait, accepted, conn, ping>> /\ reader' # "new"
    BY <1>1 DEF Request, streamVars
  <2>2. CASE app' = "running" /\ Started("reader", {"connect"})
    BY <1>0, <2>1, <2>2, PartStarted
  <2>3. CASE app' = app /\ Started("reader", {"head", "end", "shut"})
    BY <1>0, <2>1, <2>3, PartStarted
  <2> QED BY <1>1, <2>2, <2>3, TaskRequest
<1>2. ASSUME NEW data \in Chunks, ReadData(data)
      PROVE  PartInv'
  <2>1. UNCHANGED <<wait, accepted, conn, ping, app, reader, closed, h11>> /\ reader' # "new"
    BY <1>2 DEF ReadData, streamVars, roleVars
  <2>2. CASE todo' = todo
    BY <2>1, <2>2, PartStays
  <2>3. CASE Started("reader", {"head", "end", "shut"})
    BY <1>0, <2>1, <2>3, PartStarted
  <2>4. CASE accepted /\ Started("reader", {"events"})
    BY <1>0, <2>1, <2>4, PartStarted
  <2> QED BY <1>2, <2>2, <2>3, <2>4, TaskReadData
<1>3. ASSUME ReadEof
      PROVE  PartInv'
  <2>1. UNCHANGED <<wait, accepted, conn, ping, app>> /\ reader' # "new"
    BY <1>3 DEF ReadEof, streamVars
  <2>2. Started("reader", {"closeStream"})
    BY <1>3, TaskReadEof
  <2> QED BY <1>0, <2>1, <2>2, PartStarted
<1> QED BY <1>1, <1>2, <1>3

LEMMA PartApp ==
  ASSUME BaseInv, TaskInv, PartInv, AppStep
  PROVE  PartInv'
<1>0. "app" \in Tasks /\ (accepted => conn # "none") /\ (reader = "new" => app = "none")
  BY OpsOfReader DEF PartInv
<1>1. CASE Receive
  BY <1>1, PartStays DEF Receive, streamVars, taskVars, roleVars
<1>2. CASE Accept
  <2>1. UNCHANGED <<wait, ping, reader, closed, h11>> /\ app = "running" /\ reader # "new"
    BY <1>0, <1>2 DEF Accept, Sends
  <2>2. CASE accepted' = TRUE /\ conn' = "open" /\ app' = app /\ Started("app", {"switch", "pings"})
    BY <1>0, <2>1, <2>2, PartStarted
  <2>3. CASE app' = "raised" /\ UNCHANGED <<accepted, conn, todo, cpu>>
    <3>1. todo["app"] = <<>> /\ wait["app"] = "no"
      BY <1>0, <1>2, IdleFacts DEF Accept, Sends
    <3>2. \A s \in Tasks : \A op : Has(s, op)' <=> Has(s, op)
      BY <2>3, HasSame
    <3>3. \A s \in {"reader", "ping"} : s \in Tasks
      BY OpsOfReader
    <3> QED BY <2>1, <2>3, <3>1, <3>2, <3>3 DEF PartInv
  <2> QED BY <1>2, <2>2, <2>3, TaskAccept
<1>3. CASE Start
  BY <1>3, PartStays DEF Start, Sends
<1>4. CASE SendMessage
  <2>1. UNCHANGED <<wait, ping, reader, app, accepted, conn>> /\ app = "running" /\ reader # "new"
    BY <1>0, <1>4 DEF SendMessage, Sends, streamVars
  <2>2. Started("app", {"frame"})
    BY <1>4, TaskSendMessage
  <2> QED BY <1>0, <2>1, <2>2, PartStarted
<1>5. CASE Close
  <2>1. UNCHANGED <<wait, ping, reader, app, accepted, conn>> /\ app = "running" /\ reader # "new"
    BY <1>0, <1>5 DEF Close, Sends
  <2>2. PICK N : Started("app", N) /\ "events" \notin N /\ "pings" \notin N
    <3>1. Started("app", {"head", "end"}) \/ Started("app", {"close"})
      BY <1>5, TaskClose
    <3> QED BY <3>1
  <2> QED BY <1>0, <2>1, <2>2, PartStarted
<1>6. CASE Finish
  <2>1. /\ UNCHANGED <<wait, ping, reader, accepted, conn>> /\ app' = "finishing"
        /\ app \in {"running", "raised"} /\ reader # "new"
    BY <1>0, <1>6 DEF Finish, streamVars
  <2>2. PICK N : Started("app", N) /\ "events" \notin N /\ "pings" \notin N
    <3>1. \/ \E N : Started("app", N) /\ N \subseteq {"closeStream", "closeTransport"}
          \/ Started("app", {"head", "end", "closeStream", "closeTransport"})
          \/ Started("app", {"close", "closeStream", "closeTransport"})
      BY <1>6, TaskFinish
    <3> QED BY <3>1
  <2> QED BY <1>0, <2>1, <2>2, PartStarted
<1>7. ASSUME NEW more \in BOOLEAN, Trailers(more)
      PROVE  PartInv'
  <2>1. UNCHANGED <<wait, ping, reader, app, accepted, conn>> /\ app = "running" /\ reader # "new"
    BY <1>0, <1>7 DEF Trailers, Sends, streamVars
  <2>2. PICK N : Started("app", N) /\ "events" \notin N /\ "pings" \notin N
    <3>1. Started("app", {"end"}) \/ Started("app", {"end", "HTTPCLOSED"})
      BY <1>7, TaskTrailers
    <3> QED BY <3>1
  <2> QED BY <1>0, <2>1, <2>2, PartStarted
<1>8. ASSUME NEW suppressed \in BOOLEAN, NEW more \in BOOLEAN, Reject(suppressed, more)
      PROVE  PartInv'
  <2>1. UNCHANGED <<wait, ping, reader, app, accepted, conn>> /\ app = "running" /\ reader # "new"
    BY <1>0, <1>8 DEF Reject, Sends, streamVars
  <2>2. PICK N : Started("app", N) /\ "events" \notin N /\ "pings" \notin N
    <3>1. \E N : /\ Started("app", N)
                 /\ \/ N \subseteq {"head", "RESPONSE", "body", "HTTPCLOSED", "end"}
                    \/ N \subseteq {"body", "HTTPCLOSED", "end"}
      BY <1>8, TaskReject
    <3> QED BY <3>1
  <2> QED BY <1>0, <2>1, <2>2, PartStarted
<1> QED BY <1>1, <1>2, <1>3, <1>4, <1>5, <1>6, <1>7, <1>8 DEF AppStep

LEMMA PartRest ==
  ASSUME BaseInv, TaskInv, PartInv, PingLoop \/ RunEnds \/ Lose
  PROVE  PartInv'
<1>1. CASE PingLoop
  <2>0. "ping" \in Tasks /\ "ping" # "app" /\ (accepted => conn # "none")
        /\ ping = "on" /\ accepted /\ reader # "new"
    BY <1>1, OpsOfReader DEF PartInv, PingLoop
  <2>1. UNCHANGED <<wait, reader, app, accepted, conn, closed, h11>>
    BY <1>1 DEF PingLoop, streamVars
  <2>2. CASE ping' = ping /\ Started("ping", {"frame"})
    BY <2>0, <2>1, <2>2, PartStarted
  <2>3. CASE ping' = "ended" /\ todo' = todo
    BY <2>1, <2>3, PartStays
  <2> QED BY <1>1, <2>2, <2>3, TaskPingLoop
<1>2. CASE RunEnds
  BY <1>2, PartStays DEF RunEnds, streamVars, taskVars, roleVars
<1>3. CASE Lose
  BY <1>3, PartStays DEF Lose, streamVars, taskVars, roleVars
<1> QED BY <1>1, <1>2, <1>3

----------------------------------------------------------------------------
(* Who is told.                                                            *)

LEMMA HeadOnly ==
  ASSUME TaskInv, NEW t \in Tasks, NEW h \in First, Has(t, h)
  PROVE  todo[t] # <<>> /\ Head(todo[t]) = h
BY FirstOnly DEF TaskInv, TodoInv, Has

\* A task does something else than what it has to do first.
LEMMA NotFirst ==
  ASSUME TaskInv, NEW t \in Tasks, NEW h, NEW N, Did(t, h, N), NEW op \in First
  PROVE  /\ h # op => ~Has(t, op)
         /\ Has(t, op)' <=> op \in N
<1>1. h # op => ~Has(t, op)
  BY HeadOnly DEF Did
<1>2. Has(t, op)' => op \in N \/ (Has(t, op) /\ op \in Later(h))
  BY DEF Did
<1>3. op \notin Later(h)
  <2>1. h \in Ops
    BY HasOps, OpsOfTask DEF Did
  <2>2. Later(h) \subseteq (Rest \cup {"release", "forget", "clear"})
    BY <2>1, LaterFacts
  <2> QED BY <2>2 DEF First, Rest
<1>4. op \in N => Has(t, op)'
  BY DEF Did
<1> QED BY <1>1, <1>2, <1>3, <1>4

LEMMA TellSame ==
  ASSUME TellInv, UNCHANGED <<told, closed>>, app' = "none" <=> app = "none",
         reader = "crashed" => reader' = "crashed", early => early',
         \A s \in Tasks : Has(s, "disconnect")' <=> Has(s, "disconnect"),
         \A s \in Tasks : Has(s, "shut")' => Has(s, "shut") \/ early' \/ app' = "none"
  PROVE  TellInv'
<1>1. closed' /\ app' # "none" /\ reader' # "crashed" /\ ~early' =>
        told' = 1 \/ \E t \in Tasks : Has(t, "disconnect")'
  BY DEF TellInv
<1>2. \A t \in Tasks : Has(t, "shut")' => early' \/ app' = "none"
  BY DEF TellInv
<1>3. \A s, t \in Tasks : Has(s, "disconnect")' /\ Has(t, "disconnect")' => s = t
  BY DEF TellInv
<1>4. \A t \in Tasks : Has(t, "disconnect")' => closed' /\ told' = 0
  BY DEF TellInv
<1>5. told' \in {0, 1} /\ (told' = 1 => closed')
  BY DEF TellInv
<1> QED BY <1>1, <1>2, <1>3, <1>4, <1>5 DEF TellInv

LEMMA TellStays ==
  ASSUME TellInv, todo' = todo, UNCHANGED <<told, closed, early>>, app' = "none" <=> app = "none",
         reader' = reader
  PROVE  TellInv'
BY HasSame, TellSame

LEMMA TellDid ==
  ASSUME TaskInv, TellInv, NEW t \in Tasks, NEW h, NEW N, Did(t, h, N), h # "disconnect",
         "disconnect" \notin N, "shut" \notin N, UNCHANGED <<told, closed, app, reader, early>>
  PROVE  TellInv'
<1>1. "disconnect" \in First /\ Others(t)
  BY DEF First, Did
<1>2. ~Has(t, "disconnect") /\ ~Has(t, "disconnect")'
  BY <1>1, NotFirst
<1>3. \A s \in Tasks : Has(s, "disconnect")' <=> Has(s, "disconnect")
  BY <1>1, <1>2, HasElse
<1>4. Has(t, "shut")' => Has(t, "shut")
  BY DEF Did
<1>5. \A s \in Tasks : Has(s, "shut")' => Has(s, "shut")
  BY <1>1, <1>4, HasElse
<1> QED BY <1>3, <1>5, TellSame

LEMMA TellStarted ==
  ASSUME TellInv, NEW t \in Tasks, NEW N, Started(t, N), "disconnect" \notin N,
         "shut" \in N => early' \/ app' = "none", UNCHANGED <<told, closed>>, early => early',
         app' = "none" <=> app = "none", reader # "crashed"
  PROVE  TellInv'
<1>1. Others(t) /\ ~Has(t, "disconnect") /\ ~Has(t, "disconnect")' /\ (Has(t, "shut")' => "shut" \in N)
  BY DEF Started
<1>2. \A s \in Tasks : Has(s, "disconnect")' <=> Has(s, "disconnect")
  BY <1>1, HasElse
<1>3. \A s \in Tasks : Has(s, "shut")' => Has(s, "shut") \/ early' \/ app' = "none"
  BY <1>1, HasElse
<1> QED BY <1>2, <1>3, TellSame

LEMMA TellRaise ==
  ASSUME TaskInv, TellInv, NEW t \in Tasks, NEW h \in Sent, Does(t, h), Raise(t),
         UNCHANGED <<told, closed, early>>
  PROVE  TellInv'
<1>1. CASE /\ t = "app" /\ app = "running" /\ app' = "raised" /\ reader' = reader
           /\ Others(t) /\ \A op : ~Has(t, op)'
  <2>1. ~Has(t, "disconnect")
    <3>1. "disconnect" \in First /\ h # "disconnect" /\ Head(todo[t]) = h
      BY DEF First, Sent, Does
    <3> QED BY <3>1, HeadOnly
  <2>2. \A s \in Tasks : Has(s, "disconnect")' <=> Has(s, "disconnect")
    BY <1>1, <2>1, HasElse
  <2>3. \A s \in Tasks : Has(s, "shut")' => Has(s, "shut")
    BY <1>1, HasElse
  <2> QED BY <1>1, <2>2, <2>3, TellSame
<1>2. CASE /\ reader' = "crashed" /\ \A s \in Tasks : \A op : ~Has(s, op)'
  BY <1>2 DEF TellInv
<1> QED BY <1>1, <1>2, TaskRaise

LEMMA TellStep ==
  ASSUME BaseInv, TaskInv, PartInv, TellInv, NEW t \in Tasks, Step(t)
  PROVE  TellInv'
<1>1. CASE Drained(t)
  BY <1>1, TellStays DEF Drained, streamVars, roleVars, history
<1>2. CASE DrainFails(t)
  <2>1. UNCHANGED <<told, closed, app, reader, early>>
    BY <1>2 DEF DrainFails, streamVars, roleVars, history
  <2>2. Others(t) /\ \A op : Has(t, op)' <=> op \in {"closeStream", "release"} \/ Has(t, op)
    BY <1>2, TaskDrainFails
  <2>3. \A s \in Tasks : \A op \in {"disconnect", "shut"} : Has(s, op)' <=> Has(s, op)
    BY <2>2, HasElse
  <2> QED BY <2>1, <2>3, TellSame
<1>3. CASE Release(t)
  <2>1. Did(t, "release", {})
    BY <1>3, TaskRelease
  <2> QED BY <1>3, <2>1, TellDid DEF Release, streamVars, roleVars, history
<1>4. CASE Gone(t)
  BY <1>4, TellStays DEF Gone, streamVars, roleVars, history
<1>5. ASSUME NEW h \in {"head", "switch", "body", "end"}, SendH11(t, h)
      PROVE  TellInv'
  <2>1. h \in Sent /\ h # "disconnect" /\ UNCHANGED <<told, closed, early>> /\ Does(t, h)
    BY <1>5 DEF Sent, SendH11
  <2>2. CASE Raise(t)
    BY <2>1, <2>2, TellRaise
  <2>3. CASE Did(t, h, {}) /\ UNCHANGED roleVars
    BY <2>1, <2>3, TellDid DEF roleVars
  <2> QED BY <1>5, <2>2, <2>3, TaskSendH11
<1>6. ASSUME NEW h \in {"frame", "close"}, SendFrame(t, h)
      PROVE  TellInv'
  <2>1. h \in Sent /\ h # "disconnect" /\ UNCHANGED <<told, closed, early>> /\ Does(t, h)
    BY <1>6 DEF Sent, SendFrame
  <2>2. CASE Raise(t)
    BY <2>1, <2>2, TellRaise
  <2>3. CASE Did(t, h, {}) /\ UNCHANGED roleVars
    BY <2>1, <2>3, TellDid DEF roleVars
  <2> QED BY <1>6, <2>2, <2>3, TaskSendFrame
<1>7. ASSUME NEW h \in Puts, Put(t, h)
      PROVE  TellInv'
  <2>1. Did(t, h, {}) /\ UNCHANGED <<closed, app, reader, early>>
    BY <1>7, TaskPut DEF Put, streamVars, roleVars
  <2>2. CASE h # "disconnect"
    <3>1. told' = told
      BY <1>7, <2>2 DEF Put, TellInv
    <3> QED BY <2>1, <2>2, <3>1, TellDid
  <2>3. CASE h = "disconnect"
    <3>1. Has(t, "disconnect") /\ Others(t) /\ \A op : Has(t, op)' => Has(t, op)
      BY <2>1, <2>3 DEF Did
    <3>2. closed /\ told = 0 /\ \A s \in Tasks : s # t => ~Has(s, "disconnect")
      BY <3>1 DEF TellInv
    <3>3. told' = 1
      BY <1>7, <2>3, <3>2 DEF Put
    <3>4. ~Has(t, "disconnect")'
      BY <2>1, NotFirst DEF First
    <3>5. \A s \in Tasks : ~Has(s, "disconnect")' /\ (Has(s, "shut")' => Has(s, "shut"))
      BY <3>1, <3>2, <3>4, HasElse
    <3> QED BY <2>1, <3>2, <3>3, <3>5 DEF TellInv
  <2> QED BY <2>2, <2>3
<1>8. CASE PutWaits(t)
  BY <1>8, TellStays DEF PutWaits, streamVars, roleVars, history
<1>9. CASE CloseStream(t)
  <2>1. UNCHANGED <<told, early, reader, app>> /\ "disconnect" \in First
    BY <1>9 DEF CloseStream, roleVars, history, First
  <2>2. CASE closed' = closed /\ Did(t, "closeStream", {})
    BY <2>1, <2>2, TellDid
  <2>3. CASE ~closed /\ closed' = TRUE
    <3>1. told = 0 /\ \A s \in Tasks : ~Has(s, "disconnect")
      BY <2>3 DEF TellInv
    <3>2. CASE app = "none" /\ Did(t, "closeStream", {"forget"})
      <4>0. ~Has(t, "disconnect")'
        <5>1. Has(t, "disconnect")' <=> "disconnect" \in {"forget"}
          BY <2>1, <3>2, NotFirst
        <5> QED BY <5>1
      <4>1. Others(t) /\ ~Has(t, "disconnect")' /\ (Has(t, "shut")' => Has(t, "shut"))
        BY <3>2, <4>0 DEF Did
      <4>2. \A s \in Tasks : ~Has(s, "disconnect")' /\ (Has(s, "shut")' => Has(s, "shut"))
        BY <3>1, <4>1, HasElse
      <4> QED BY <2>1, <2>3, <3>1, <3>2, <4>2 DEF TellInv
    <3>3. CASE app # "none" /\ Did(t, "closeStream", {"disconnect", "forget"})
      <4>1. Others(t) /\ Has(t, "disconnect")' /\ (Has(t, "shut")' => Has(t, "shut"))
        BY <3>3 DEF Did
      <4>2. \A s \in Tasks : (Has(s, "disconnect")' => s = t) /\ (Has(s, "shut")' => Has(s, "shut"))
        BY <3>1, <4>1, HasElse
      <4> QED BY <2>1, <2>3, <3>1, <4>1, <4>2 DEF TellInv
    <3> QED BY <1>9, <2>3, <3>2, <3>3, TaskCloseStream
  <2> QED BY <1>9, <2>2, <2>3, TaskCloseStream
<1>10. CASE Forget(t)
  <2>1. Did(t, "forget", {})
    BY <1>10, TaskForget
  <2> QED BY <1>10, <2>1, TellDid DEF Forget, roleVars, history
<1>11. CASE CloseTransport(t)
  <2>1. Did(t, "closeTransport", {})
    BY <1>11, TaskCloseTransport
  <2> QED BY <1>11, <2>1, TellDid DEF CloseTransport, streamVars, roleVars, history
<1>12. CASE Assign(t)
  <2>1. UNCHANGED <<told, early, reader, app>> /\ "disconnect" \in First
    BY <1>12 DEF Assign, history, First
  <2>2. CASE closed' = closed
    <3>1. PICK h \in Assigned : Did(t, h, {})
      BY <1>12, TaskAssign
    <3>2. h # "disconnect"
      BY DEF Assigned
    <3> QED BY <2>1, <2>2, <3>1, <3>2, TellDid
  <2>3. CASE Did(t, "shut", {}) /\ closed' = TRUE
    <3>1. early \/ app = "none"
      BY <2>3 DEF Did, TellInv
    <3>2. Others(t) /\ ~Has(t, "disconnect")' /\ (Has(t, "shut")' => Has(t, "shut"))
      BY <2>1, <2>3, NotFirst DEF Did
    <3>3. \A s \in Tasks : /\ Has(s, "disconnect")' => Has(s, "disconnect")
                           /\ Has(s, "shut")' => Has(s, "shut")
      BY <3>2, HasElse
    <3> QED BY <2>1, <2>3, <3>1, <3>3 DEF TellInv
  <2> QED BY <1>12, <2>2, <2>3, TaskAssign
<1>13. CASE Fragment(t)
  <2>1. PICK N \in {{"close"}, {"receive", "clear", "events"}, {"events"}} : Did(t, "events", N)
    BY <1>13, TaskFragment DEF BaseInv
  <2>2. "disconnect" \notin N /\ "shut" \notin N
    BY <2>1
  <2> QED BY <1>13, <2>1, <2>2, TellDid DEF Fragment, roleVars
<1>14. CASE Control(t)
  <2>1. PICK N \in {{}, {"frame", "events"}, {"closeStream", "closeTransport"},
                    {"closeStream", "closeTransport", "events"},
                    {"close", "closeStream", "closeTransport", "events"}} : Did(t, "events", N)
    BY <1>14, TaskControl
  <2>2. "disconnect" \notin N /\ "shut" \notin N
    BY <2>1
  <2> QED BY <1>14, <2>1, <2>2, TellDid DEF Control, roleVars, history
<1> QED BY <1>1, <1>2, <1>3, <1>4, <1>5, <1>6, <1>7, <1>8, <1>9, <1>10, <1>11, <1>12, <1>13, <1>14
        DEF Step

LEMMA TellElse ==
  ASSUME BaseInv, TaskInv, PartInv, TellInv
  PROVE  /\ \A valid \in BOOLEAN : Request(valid) => TellInv'
         /\ \A data \in Chunks : ReadData(data) => TellInv'
         /\ ReadEof \/ AppStep \/ PingLoop \/ RunEnds \/ Lose => TellInv'
<1>0. "reader" \in Tasks /\ "app" \in Tasks /\ "ping" \in Tasks
  BY OpsOfReader
<1>1. ASSUME NEW valid \in BOOLEAN, Request(valid)
      PROVE  TellInv'
  <2>1. /\ UNCHANGED <<told, closed, early>> /\ reader' # "crashed" /\ ~closed /\ reader # "crashed"
        /\ \A s \in Tasks : todo[s] = <<>>
    BY <1>1 DEF Request, PartInv, streamVars, history
  <2>2. CASE app' = app /\ Started("reader", {"head", "end", "shut"})
    <3>1. app = "none"
      BY <1>1 DEF Request, PartInv
    <3> QED BY <1>0, <2>1, <2>2, <3>1, TellStarted
  <2>3. CASE Started("reader", {"connect"})
    <3>1. \A s \in Tasks : ~Has(s, "disconnect") /\ ~Has(s, "shut")
      BY <2>1, NoProgram DEF Has
    <3>2. Others("reader") /\ ~Has("reader", "disconnect")' /\ ~Has("reader", "shut")'
      BY <2>3 DEF Started
    <3>3. \A s \in Tasks : ~Has(s, "disconnect")' /\ ~Has(s, "shut")'
      BY <1>0, <3>1, <3>2, HasElse
    <3> QED BY <2>1, <3>3 DEF TellInv
  <2> QED BY <1>1, <2>2, <2>3, TaskRequest
<1>2. ASSUME NEW data \in Chunks, ReadData(data)
      PROVE  TellInv'
  <2>1. UNCHANGED <<told, closed, app, reader>> /\ reader # "crashed"
    BY <1>2 DEF ReadData, streamVars, roleVars
  <2>2. CASE todo' = todo /\ early' = early
    BY <2>1, <2>2, TellStays
  <2>3. CASE Started("reader", {"head", "end", "shut"}) /\ early' = TRUE
    BY <1>0, <2>1, <2>3, TellStarted
  <2>4. CASE Started("reader", {"events"}) /\ early' = early
    BY <1>0, <2>1, <2>4, TellStarted
  <2> QED BY <1>2, <2>2, <2>3, <2>4, TaskReadData
<1>3. CASE ReadEof
  <2>1. UNCHANGED <<told, closed, app, early>> /\ reader # "crashed"
    BY <1>3 DEF ReadEof, streamVars, history
  <2>2. Started("reader", {"closeStream"})
    BY <1>3, TaskReadEof
  <2> QED BY <1>0, <2>1, <2>2, TellStarted
<1>4. CASE Receive
  BY <1>4, TellStays DEF Receive, streamVars, taskVars, roleVars, history
<1>5. CASE Start
  BY <1>5, TellStays DEF Start, Sends
<1>6. CASE Accept
  <2>1. UNCHANGED <<told, closed, early, reader>> /\ reader # "crashed" /\ app = "running"
    BY <1>6, IdleFacts DEF Accept, Sends, Idle
  <2>2. CASE app' = app /\ Started("app", {"switch", "pings"})
    BY <1>0, <2>1, <2>2, TellStarted
  <2>3. CASE app' = "raised" /\ todo' = todo
    BY <2>1, <2>3, TellStays
  <2> QED BY <1>6, <2>2, <2>3, TaskAccept
<1>7. CASE SendMessage
  <2>1. UNCHANGED <<told, closed, early, app>> /\ reader # "crashed"
    BY <1>7 DEF SendMessage, Sends, Idle, streamVars
  <2>2. Started("app", {"frame"})
    BY <1>7, TaskSendMessage
  <2> QED BY <1>0, <2>1, <2>2, TellStarted
<1>8. CASE Close
  <2>1. UNCHANGED <<told, closed, early, app>> /\ reader # "crashed"
    BY <1>8 DEF Close, Sends, Idle
  <2>2. Started("app", {"head", "end"}) \/ Started("app", {"close"})
    BY <1>8, TaskClose
  <2> QED BY <1>0, <2>1, <2>2, TellStarted
<1>9. CASE Finish
  <2>1. UNCHANGED <<told, closed, early>> /\ reader # "crashed" /\ app # "none" /\ app' # "none"
    BY <1>9 DEF Finish, Idle, streamVars, history
  <2>2. PICK N : Started("app", N) /\ "disconnect" \notin N /\ "shut" \notin N
    <3>1. \/ \E N : Started("app", N) /\ N \subseteq {"closeStream", "closeTransport"}
          \/ Started("app", {"head", "end", "closeStream", "closeTransport"})
          \/ Started("app", {"close", "closeStream", "closeTransport"})
      BY <1>9, TaskFinish
    <3> QED BY <3>1
  <2> QED BY <1>0, <2>1, <2>2, TellStarted
<1>10. ASSUME NEW more \in BOOLEAN, Trailers(more)
       PROVE  TellInv'
  <2>1. UNCHANGED <<told, closed, early, app>> /\ reader # "crashed"
    BY <1>10 DEF Trailers, Sends, Idle, streamVars
  <2>2. Started("app", {"end"}) \/ Started("app", {"end", "HTTPCLOSED"})
    BY <1>10, TaskTrailers
  <2> QED BY <1>0, <2>1, <2>2, TellStarted
<1>11. ASSUME NEW suppressed \in BOOLEAN, NEW more \in BOOLEAN, Reject(suppressed, more)
       PROVE  TellInv'
  <2>1. UNCHANGED <<told, closed, early, app>> /\ reader # "crashed"
    BY <1>11 DEF Reject, Sends, Idle, streamVars
  <2>2. PICK N : Started("app", N) /\ "disconnect" \notin N /\ "shut" \notin N
    <3>1. \E N : /\ Started("app", N)
                 /\ \/ N \subseteq {"head", "RESPONSE", "body", "HTTPCLOSED", "end"}
                    \/ N \subseteq {"body", "HTTPCLOSED", "end"}
      BY <1>11, TaskReject
    <3> QED BY <3>1
  <2> QED BY <1>0, <2>1, <2>2, TellStarted
<1>12. CASE PingLoop
  <2>1. UNCHANGED <<told, closed, early, app, reader>> /\ reader # "crashed"
    BY <1>12 DEF PingLoop, Idle, streamVars, history
  <2>2. Started("ping", {"frame"}) \/ todo' = todo
    BY <1>12, TaskPingLoop
  <2> QED BY <1>0, <2>1, <2>2, TellStarted, TellStays
<1>13. CASE RunEnds
  BY <1>13, TellStays DEF RunEnds, streamVars, taskVars, roleVars, history
<1>14. CASE Lose
  BY <1>14, TellStays DEF Lose, streamVars, taskVars, roleVars, history
<1> QED BY <1>1, <1>2, <1>3, <1>4, <1>5, <1>6, <1>7, <1>8, <1>9, <1>10, <1>11, <1>12, <1>13, <1>14
        DEF AppStep

----------------------------------------------------------------------------
(* Closes and messages that are too large.                                 *)

Ending(c) == c \in {"remote", "closed"}

LEMMA EndSame ==
  ASSUME CloseInv, BigInv, UNCHANGED <<tooBig, length>>,
         Ending(conn') => Ending(conn), transport' = "open" => transport = "open",
         Has("reader", "closeTransport") /\ transport' = "open" => Has("reader", "closeTransport")',
         \A op \in {"receive", "clear"} : Has("reader", op)' => Has("reader", op)
  PROVE  CloseInv' /\ BigInv'
<1>1. CloseInv'
  BY DEF CloseInv, Ending
<1>2. BigInv'
  BY DEF BigInv
<1> QED BY <1>1, <1>2

LEMMA EndStays ==
  ASSUME CloseInv, BigInv, todo' = todo, UNCHANGED <<tooBig, length>>,
         Ending(conn') => Ending(conn), transport' = "open" => transport = "open"
  PROVE  CloseInv' /\ BigInv'
<1>1. \A op : Has("reader", op)' <=> Has("reader", op)
  BY HasSame, OpsOfReader
<1> QED BY <1>1, EndSame

LEMMA EndDid ==
  ASSUME CloseInv, BigInv, NEW t \in Tasks, NEW h, NEW N, Did(t, h, N),
         "receive" \notin N, "clear" \notin N, UNCHANGED <<tooBig, length>>,
         Ending(conn') => Ending(conn), transport' = "open" => transport = "open",
         h = "closeTransport" => transport' # "open"
  PROVE  CloseInv' /\ BigInv'
<1>1. Others(t) /\ "reader" \in Tasks
  BY OpsOfReader DEF Did
<1>2. CASE t = "reader"
  <2>1. Has("reader", "closeTransport") /\ transport' = "open" => Has("reader", "closeTransport")'
    BY <1>2 DEF Did
  <2>2. \A op \in {"receive", "clear"} : Has("reader", op)' => Has("reader", op)
    BY <1>2 DEF Did
  <2> QED BY <2>1, <2>2, EndSame
<1>3. CASE t # "reader"
  <2>1. \A op : Has("reader", op)' <=> Has("reader", op)
    BY <1>1, <1>3, HasElse
  <2> QED BY <2>1, EndSame
<1> QED BY <1>2, <1>3

LEMMA EndStarted ==
  ASSUME CloseInv, BigInv, NEW t \in Tasks, NEW N, Started(t, N),
         "receive" \notin N, "clear" \notin N, UNCHANGED <<tooBig, length, transport>>,
         Ending(conn') => Ending(conn)
  PROVE  CloseInv' /\ BigInv'
<1>1. Others(t) /\ "reader" \in Tasks
  BY OpsOfReader DEF Started
<1>2. CASE t = "reader"
  <2>1. ~Has("reader", "closeTransport")
    BY <1>2 DEF Started
  <2>2. \A op \in {"receive", "clear"} : Has("reader", op)' => Has("reader", op)
    BY <1>2 DEF Started
  <2> QED BY <2>1, <2>2, EndSame
<1>3. CASE t # "reader"
  <2>1. \A op : Has("reader", op)' <=> Has("reader", op)
    BY <1>1, <1>3, HasElse
  <2> QED BY <2>1, EndSame
<1> QED BY <1>2, <1>3

LEMMA EndRaise ==
  ASSUME TaskInv, CloseInv, BigInv, NEW t \in Tasks, NEW h \in Sent, Does(t, h), Raise(t),
         UNCHANGED <<tooBig, length, conn>>
  PROVE  CloseInv' /\ BigInv'
<1>0. "reader" \in Tasks
  BY OpsOfReader
<1>1. CASE t = "app" /\ Others(t) /\ transport' = transport
  <2>1. \A op : Has("reader", op)' <=> Has("reader", op)
    BY <1>0, <1>1, HasElse
  <2> QED BY <1>1, <2>1, EndSame
<1>2. CASE (\A s \in Tasks : \A op : ~Has(s, op)') /\ transport' = Closing
  <2>1. transport' # "open" /\ \A op : ~Has("reader", op)'
    BY <1>0, <1>2 DEF Closing
  <2> QED BY <2>1, EndSame
<1> QED BY <1>1, <1>2, TaskRaise

LEMMA EndStep ==
  ASSUME BaseInv, TaskInv, PartInv, CloseInv, BigInv, NEW t \in Tasks, Step(t)
  PROVE  CloseInv' /\ BigInv'
<1>0. "reader" \in Tasks
  BY OpsOfReader
<1>1. CASE Drained(t)
  BY <1>1, EndStays DEF Drained, streamVars, clientVars, history
<1>2. CASE DrainFails(t)
  <2>1. UNCHANGED <<tooBig, length, conn, transport>>
    BY <1>2 DEF DrainFails, streamVars, clientVars, history
  <2>2. Others(t) /\ \A op : Has(t, op)' <=> op \in {"closeStream", "release"} \/ Has(t, op)
    BY <1>2, TaskDrainFails
  <2>3. \A op \in {"closeTransport", "receive", "clear"} : Has("reader", op)' <=> Has("reader", op)
    BY <1>0, <2>2, HasElse
  <2> QED BY <2>1, <2>3, EndSame
<1>3. CASE Release(t)
  <2>1. Did(t, "release", {})
    BY <1>3, TaskRelease
  <2> QED BY <1>3, <2>1, EndDid DEF Release, streamVars, clientVars, history
<1>4. CASE Gone(t)
  BY <1>4, EndStays DEF Gone, streamVars, clientVars, history
<1>5. ASSUME NEW h \in {"head", "switch", "body", "end"}, SendH11(t, h)
      PROVE  CloseInv' /\ BigInv'
  <2>1. h \in Sent /\ h # "closeTransport" /\ UNCHANGED <<tooBig, length, conn>> /\ Does(t, h)
    BY <1>5 DEF Sent, SendH11
  <2>2. CASE Raise(t)
    BY <2>1, <2>2, EndRaise
  <2>3. CASE Did(t, h, {}) /\ UNCHANGED clientVars
    BY <2>1, <2>3, EndDid DEF clientVars
  <2> QED BY <1>5, <2>2, <2>3, TaskSendH11
<1>6. ASSUME NEW h \in {"frame", "close"}, SendFrame(t, h)
      PROVE  CloseInv' /\ BigInv'
  <2>1. h \in Sent /\ h # "closeTransport" /\ UNCHANGED <<tooBig, length>> /\ Does(t, h)
    BY <1>6 DEF Sent, SendFrame
  <2>2. CASE Raise(t) /\ conn' = conn
    BY <2>1, <2>2, EndRaise
  <2>3. CASE MaySend(h) /\ conn' = AfterSend(h) /\ Did(t, h, {}) /\ UNCHANGED clientVars
    <3>1. Ending(conn') => Ending(conn)
      BY <2>3 DEF Ending, AfterSend, MaySend
    <3> QED BY <2>1, <2>3, <3>1, EndDid DEF clientVars
  <2>4. CASE Did(t, h, {}) /\ UNCHANGED clientVars /\ conn' = conn
    BY <2>1, <2>4, EndDid DEF clientVars
  <2> QED BY <1>6, <2>2, <2>3, <2>4, TaskSendFrame
<1>7. ASSUME NEW h \in Puts, Put(t, h)
      PROVE  CloseInv' /\ BigInv'
  <2>1. Did(t, h, {}) /\ h # "closeTransport"
    BY <1>7, TaskPut DEF Puts
  <2> QED BY <1>7, <2>1, EndDid DEF Put, streamVars, clientVars
<1>8. CASE PutWaits(t)
  BY <1>8, EndStays DEF PutWaits, streamVars, clientVars, history
<1>9. CASE CloseStream(t)
  <2>1. UNCHANGED <<tooBig, length, conn, transport>>
    BY <1>9 DEF CloseStream, clientVars, history
  <2>2. PICK N \in {{"forget"}, {"disconnect", "forget"}, {}} : Did(t, "closeStream", N)
    BY <1>9, TaskCloseStream
  <2>3. "receive" \notin N /\ "clear" \notin N
    BY <2>2
  <2> QED BY <2>1, <2>2, <2>3, EndDid
<1>10. CASE Forget(t)
  <2>1. Did(t, "forget", {})
    BY <1>10, TaskForget
  <2> QED BY <1>10, <2>1, EndDid DEF Forget, clientVars, history
<1>11. CASE CloseTransport(t)
  <2>1. Did(t, "closeTransport", {}) /\ transport' # "open"
    BY <1>11, TaskCloseTransport DEF CloseTransport, Closing
  <2> QED BY <1>11, <2>1, EndDid DEF CloseTransport, streamVars, history
<1>12. CASE Assign(t)
  <2>1. UNCHANGED <<tooBig, conn, transport>>
    BY <1>12 DEF Assign, clientVars, history
  <2>2. CASE length' = length
    <3>1. PICK h \in Assigned : Did(t, h, {})
      BY <1>12, TaskAssign
    <3>2. h # "closeTransport"
      BY DEF Assigned
    <3> QED BY <2>1, <2>2, <3>1, <3>2, EndDid
  <2>3. CASE Did(t, "clear", {})
    <3>1. t = "reader" /\ Has("reader", "clear")
      <4>1. "clear" \in OpsOf(t)
        BY <2>3, HasOps DEF Did
      <4>2. t = "reader"
        BY <4>1, OpsOfReader DEF Fails, Tasks
      <4> QED BY <2>3, <4>2 DEF Did
    <3>2. ~tooBig'
      BY <2>1, <3>1 DEF BigInv
    <3>3. Has("reader", "closeTransport") => Has("reader", "closeTransport")'
      BY <2>3, <3>1 DEF Did
    <3> QED BY <2>1, <3>2, <3>3 DEF CloseInv, BigInv
  <2> QED BY <1>12, <2>2, <2>3, TaskAssign
<1>13. CASE Fragment(t)
  <2>1. UNCHANGED <<conn, transport>>
    BY <1>13 DEF Fragment
  <2>2. \A N : Did("reader", "events", N) => CloseInv'
    BY <2>1 DEF Did, CloseInv
  <2>3. CASE tooBig' = TRUE /\ length' = MaxLength + 1 /\ Did("reader", "events", {"close"})
    <3>1. \A op \in {"receive", "clear"} : Has("reader", op)' => op \in Later("events")
      BY <2>3 DEF Did
    <3>2. ~Has("reader", "receive")' /\ ~Has("reader", "clear")'
      BY <3>1, LaterOf
    <3> QED BY <2>2, <2>3, <3>2 DEF BigInv
  <2>4. CASE /\ length # MaxLength + 1 /\ tooBig' = tooBig
             /\ \/ Did("reader", "events", {"receive", "clear", "events"})
                \/ Did("reader", "events", {"events"})
    <3>1. ~tooBig'
      BY <2>4 DEF BigInv
    <3> QED BY <2>2, <2>4, <3>1 DEF BigInv
  <2> QED BY <1>13, <2>3, <2>4, TaskFragment DEF BaseInv
<1>14. CASE Control(t)
  <2>1. UNCHANGED <<tooBig, length, transport>>
    BY <1>14 DEF Control, clientVars, history
  <2>2. CASE conn' = conn
    <3>1. PICK N \in {{}, {"frame", "events"}, {"closeStream", "closeTransport"},
                      {"closeStream", "closeTransport", "events"},
                      {"close", "closeStream", "closeTransport", "events"}} :
            Did("reader", "events", N)
      BY <1>14, TaskControl
    <3>2. "receive" \notin N /\ "clear" \notin N
      BY <3>1
    <3> QED BY <1>0, <2>1, <2>2, <3>1, <3>2, EndDid
  <2>3. CASE conn' # conn
    <3>1. PICK N \in {{"closeStream", "closeTransport", "events"},
                      {"close", "closeStream", "closeTransport", "events"}} :
            Did("reader", "events", N)
      BY <1>14, <2>3, TaskControl
    <3>2. "receive" \notin N /\ "clear" \notin N /\ "closeTransport" \in N
      BY <3>1
    <3>3. Has("reader", "closeTransport")' /\ \A op \in {"receive", "clear"} :
            Has("reader", op)' => Has("reader", op)
      BY <3>1, <3>2 DEF Did
    <3> QED BY <2>1, <3>3 DEF CloseInv, BigInv
  <2> QED BY <2>2, <2>3
<1> QED BY <1>1, <1>2, <1>3, <1>4, <1>5, <1>6, <1>7, <1>8, <1>9, <1>10, <1>11, <1>12, <1>13, <1>14
        DEF Step

LEMMA EndElse ==
  ASSUME BaseInv, TaskInv, PartInv, CloseInv, BigInv
  PROVE  /\ \A valid \in BOOLEAN : Request(valid) => CloseInv' /\ BigInv'
         /\ \A data \in Chunks : ReadData(data) => CloseInv' /\ BigInv'
         /\ ReadEof \/ AppStep \/ PingLoop \/ RunEnds \/ Lose => CloseInv' /\ BigInv'
<1>0. "reader" \in Tasks /\ "app" \in Tasks /\ "ping" \in Tasks
  BY OpsOfReader
<1>1. ASSUME NEW valid \in BOOLEAN, Request(valid)
      PROVE  CloseInv' /\ BigInv'
  <2>1. UNCHANGED <<tooBig, length, transport, conn>>
    BY <1>1 DEF Request, streamVars, clientVars, history
  <2>2. PICK N : Started("reader", N) /\ "receive" \notin N /\ "clear" \notin N
    <3>1. Started("reader", {"head", "end", "shut"}) \/ Started("reader", {"connect"})
      BY <1>1, TaskRequest
    <3> QED BY <3>1
  <2> QED BY <1>0, <2>1, <2>2, EndStarted
<1>2. ASSUME NEW data \in Chunks, ReadData(data)
      PROVE  CloseInv' /\ BigInv'
  <2>1. UNCHANGED <<tooBig, length, transport, conn>>
    BY <1>2 DEF ReadData, streamVars
  <2>2. todo' = todo \/ \E N : Started("reader", N) /\ "receive" \notin N /\ "clear" \notin N
    <3>1. \/ todo' = todo \/ Started("reader", {"head", "end", "shut"})
          \/ Started("reader", {"events"})
      BY <1>2, TaskReadData
    <3> QED BY <3>1
  <2> QED BY <1>0, <2>1, <2>2, EndStarted, EndStays
<1>3. CASE ReadEof
  <2>1. UNCHANGED <<tooBig, length, transport, conn>>
    BY <1>3 DEF ReadEof, streamVars, clientVars, history
  <2>2. Started("reader", {"closeStream"})
    BY <1>3, TaskReadEof
  <2> QED BY <1>0, <2>1, <2>2, EndStarted
<1>4. CASE Receive
  BY <1>4, EndStays DEF Receive, streamVars, taskVars, clientVars, history
<1>5. CASE Start
  BY <1>5, EndStays DEF Start, Sends, clientVars
<1>6. CASE Accept
  <2>1. UNCHANGED <<tooBig, length, transport>>
    BY <1>6 DEF Accept, Sends, clientVars
  <2>2. CASE conn' = "open" /\ Started("app", {"switch", "pings"})
    <3>1. ~Ending(conn')
      BY <2>2 DEF Ending
    <3> QED BY <1>0, <2>1, <2>2, <3>1, EndStarted
  <2>3. CASE conn' = conn /\ todo' = todo
    BY <2>1, <2>3, EndStays
  <2> QED BY <1>6, <2>2, <2>3, TaskAccept
<1>7. CASE SendMessage
  <2>1. UNCHANGED <<tooBig, length, transport, conn>>
    BY <1>7 DEF SendMessage, Sends, streamVars, clientVars
  <2>2. Started("app", {"frame"})
    BY <1>7, TaskSendMessage
  <2> QED BY <1>0, <2>1, <2>2, EndStarted
<1>8. CASE Close
  <2>1. UNCHANGED <<tooBig, length, transport, conn>>
    BY <1>8 DEF Close, Sends, clientVars
  <2>2. Started("app", {"head", "end"}) \/ Started("app", {"close"})
    BY <1>8, TaskClose
  <2> QED BY <1>0, <2>1, <2>2, EndStarted
<1>9. CASE Finish
  <2>1. UNCHANGED <<tooBig, length, transport, conn>>
    BY <1>9 DEF Finish, streamVars, clientVars, history
  <2>2. PICK N : Started("app", N) /\ "receive" \notin N /\ "clear" \notin N
    <3>1. \/ \E N : Started("app", N) /\ N \subseteq {"closeStream", "closeTransport"}
          \/ Started("app", {"head", "end", "closeStream", "closeTransport"})
          \/ Started("app", {"close", "closeStream", "closeTransport"})
      BY <1>9, TaskFinish
    <3> QED BY <3>1
  <2> QED BY <1>0, <2>1, <2>2, EndStarted
<1>10. ASSUME NEW more \in BOOLEAN, Trailers(more)
       PROVE  CloseInv' /\ BigInv'
  <2>1. UNCHANGED <<tooBig, length, transport, conn>>
    BY <1>10 DEF Trailers, Sends, streamVars, clientVars
  <2>2. Started("app", {"end"}) \/ Started("app", {"end", "HTTPCLOSED"})
    BY <1>10, TaskTrailers
  <2> QED BY <1>0, <2>1, <2>2, EndStarted
<1>11. ASSUME NEW suppressed \in BOOLEAN, NEW more \in BOOLEAN, Reject(suppressed, more)
       PROVE  CloseInv' /\ BigInv'
  <2>1. UNCHANGED <<tooBig, length, transport, conn>>
    BY <1>11 DEF Reject, Sends, streamVars, clientVars
  <2>2. PICK N : Started("app", N) /\ "receive" \notin N /\ "clear" \notin N
    <3>1. \E N : /\ Started("app", N)
                 /\ \/ N \subseteq {"head", "RESPONSE", "body", "HTTPCLOSED", "end"}
                    \/ N \subseteq {"body", "HTTPCLOSED", "end"}
      BY <1>11, TaskReject
    <3> QED BY <3>1
  <2> QED BY <1>0, <2>1, <2>2, EndStarted
<1>12. CASE PingLoop
  <2>1. UNCHANGED <<tooBig, length, transport, conn>>
    BY <1>12 DEF PingLoop, streamVars, clientVars, history
  <2>2. Started("ping", {"frame"}) \/ todo' = todo
    BY <1>12, TaskPingLoop
  <2> QED BY <1>0, <2>1, <2>2, EndStarted, EndStays
<1>13. CASE RunEnds
  BY <1>13, EndStays DEF RunEnds, streamVars, taskVars, history
<1>14. CASE Lose
  BY <1>14, EndStays DEF Lose, streamVars, taskVars, history
<1> QED BY <1>1, <1>2, <1>3, <1>4, <1>5, <1>6, <1>7, <1>8, <1>9, <1>10, <1>11, <1>12, <1>13, <1>14
        DEF AppStep

----------------------------------------------------------------------------
(* The response and the frames, when no data came early.                   *)

FlowInv == HeadInv /\ WireInv /\ (~badAccept => FrameInv)

HeadOps == {"head", "switch", "end", "body", "RESPONSE"}

LEMMA HasLater ==
  ASSUME TaskInv, NEW t \in Tasks, NEW op, Has(t, op)
  PROVE  todo[t] # <<>> /\ (op = Head(todo[t]) \/ op \in Later(Head(todo[t])))
<1>1. Program(t, todo[t]) /\ todo[t] # <<>>
  BY NoProgram DEF TaskInv, TodoInv, Has
<1>2. /\ Head(todo[t]) = op \/ Within(op, Tail(todo[t]))
      /\ \A i \in 1 .. Len(Tail(todo[t])) : Tail(todo[t])[i] \in Later(Head(todo[t]))
  BY <1>1, Shortened DEF Has
<1> QED BY <1>1, <1>2 DEF Within

LEMMA HeadCalm ==
  ASSUME HeadInv, \A s \in Tasks : \A op \in HeadOps : Has(s, op)' <=> Has(s, op),
         UNCHANGED <<h11, state, app>>, conn' = conn \/ ~Has("app", "switch")
  PROVE  HeadInv'
<1>1. \A s \in Tasks : /\ Has(s, "head")' <=> Has(s, "head")
                       /\ Has(s, "switch")' <=> Has(s, "switch")
                       /\ Has(s, "end")' <=> Has(s, "end")
                       /\ Has(s, "body")' <=> Has(s, "body")
                       /\ Has(s, "RESPONSE")' <=> Has(s, "RESPONSE")
  BY DEF HeadOps
<1> QED BY <1>1, OpsOfReader DEF HeadInv

LEMMA WireCalm ==
  ASSUME WireInv, UNCHANGED <<h11, conn, wire>>, transport' = "open" => transport = "open",
         Has("app", "switch") => Has("app", "switch")'
  PROVE  WireInv'
BY DEF WireInv, Written

LEMMA FrameCalm ==
  ASSUME FrameInv, UNCHANGED accepted, state' = "CONNECTED" => state = "CONNECTED",
         reader' = reader \/ reader' # "crashed",
         app' # "running" => app # "running" \/ (~Has("app", "frame")' /\ ~Has("app", "close")'),
         \A op \in {"frame", "close"} : Has("app", op)' => Has("app", op) \/ app' = "running"
  PROVE  FrameInv'
BY DEF FrameInv

LEMMA FlowStays ==
  ASSUME FlowInv, \A s \in Tasks : \A op : Has(s, op)' <=> Has(s, op),
         UNCHANGED <<h11, state, app, conn, wire, accepted, badAccept>>,
         reader' = reader \/ reader' # "crashed", transport' = "open" => transport = "open"
  PROVE  FlowInv'
<1>1. "app" \in Tasks
  BY OpsOfReader
<1>2. HeadInv'
  BY HeadCalm DEF FlowInv
<1>3. WireInv'
  BY <1>1, WireCalm DEF FlowInv
<1>4. ~badAccept' => FrameInv'
  BY <1>1, FrameCalm DEF FlowInv
<1> QED BY <1>2, <1>3, <1>4 DEF FlowInv

\* A task makes no step of the response.
Aside(t, h, N) ==
  /\ h \notin HeadOps /\ N \cap HeadOps = {}
  /\ t = "reader" \/ ("frame" \notin N /\ "close" \notin N)

LEMMA AsideHas ==
  ASSUME NEW t \in Tasks, NEW h, NEW N, Did(t, h, N), Aside(t, h, N)
  PROVE  /\ \A s \in Tasks : \A op \in HeadOps : Has(s, op)' <=> Has(s, op)
         /\ \A op \in {"frame", "close"} : Has("app", op)' => Has("app", op)
<1>1. Others(t) /\ "app" \in Tasks /\ "reader" # "app"
  BY OpsOfReader DEF Did
<1>2. \A op \in HeadOps : op \notin N /\ op # h
  BY DEF Aside
<1>3. \A op \in HeadOps : Has(t, op)' <=> Has(t, op)
  BY <1>2 DEF Did
<1>4. \A s \in Tasks : \A op \in HeadOps : Has(s, op)' <=> Has(s, op)
  BY <1>1, <1>3, HasElse
<1>5. ASSUME NEW op \in {"frame", "close"}, Has("app", op)'
      PROVE  Has("app", op)
  <2>1. CASE t = "app"
    <3>1. op \notin N
      BY <1>1, <2>1 DEF Aside
    <3> QED BY <1>5, <2>1, <3>1 DEF Did
  <2>2. CASE t # "app"
    BY <1>1, <1>5, <2>2, HasElse
  <2> QED BY <2>1, <2>2
<1> QED BY <1>4, <1>5

LEMMA FlowAside ==
  ASSUME FlowInv, NEW t \in Tasks, NEW h, NEW N, Did(t, h, N), Aside(t, h, N),
         UNCHANGED <<h11, state, app, conn, wire, accepted, badAccept>>,
         reader' = reader \/ reader' # "crashed", transport' = "open" => transport = "open"
  PROVE  FlowInv'
<1>1. "app" \in Tasks /\ "switch" \in HeadOps
  BY OpsOfReader DEF HeadOps
<1>2. HeadInv'
  BY AsideHas, HeadCalm DEF FlowInv
<1>3. WireInv'
  BY <1>1, AsideHas, WireCalm DEF FlowInv
<1>4. ~badAccept' => FrameInv'
  BY AsideHas, FrameCalm DEF FlowInv
<1> QED BY <1>2, <1>3, <1>4 DEF FlowInv

\* The application's task runs when it is to switch.
LEMMA NoSwitch ==
  ASSUME TaskInv, NEW t \in Tasks, cpu = t, Head(todo[t]) # "switch"
  PROVE  ~Has("app", "switch")
BY Running, OpsOfReader

LEMMA FlowState ==
  ASSUME TaskInv, FlowInv, NEW t \in Tasks, NEW h \in {"RESPONSE", "HTTPCLOSED"}, Did(t, h, {}),
         state' = h, UNCHANGED <<h11, app, conn, wire, accepted, badAccept, reader, transport>>
  PROVE  FlowInv'
<1>1. t = "app" /\ Others(t)
  <2>1. h \in OpsOf(t)
    BY HasOps DEF Did
  <2> QED BY <2>1, OpsOfReader DEF Fails, Tasks, Did
<1>2. "reader" \in Tasks /\ "app" \in Tasks /\ "head" \in First /\ "switch" \in First
      /\ h # "head" /\ h # "switch"
  BY OpsOfReader DEF First
<1>3. ~Has(t, "head") /\ ~Has(t, "switch") /\ \A op : Has(t, op)' => Has(t, op)
  <2>1. ~Has(t, "head") /\ ~Has(t, "switch")
    BY <1>2, NotFirst
  <2> QED BY <2>1 DEF Did
<1>4. \A s \in Tasks : s # t => \A op : Has(s, op)' <=> Has(s, op)
  BY <1>1, HasElse
<1>5. HeadInv'
  <2>1. \A s \in Tasks : Has(s, "head")' \/ Has(s, "switch")' => h11' = "response"
    BY <1>3, <1>4 DEF FlowInv, HeadInv
  <2>2. Has("reader", "head")' \/ Has("reader", "end")' => app' = "none"
    BY <1>1, <1>2, <1>4 DEF FlowInv, HeadInv
  <2>3. app' # "running" => ~Has("app", "body")' /\ ~Has("app", "RESPONSE")' /\ ~Has("app", "switch")'
    BY <1>1, <1>3 DEF FlowInv, HeadInv
  <2>4. \A s \in Tasks :
          Has(s, "end")' /\ ~Has(s, "head")' /\ (s = "app" => app' # "running") => h11' = "body"
    BY <1>3, <1>4 DEF FlowInv, HeadInv
  <2>5. ~Has("app", "switch")' /\ state' # "HANDSHAKE"
    BY <1>1, <1>3
  <2> QED BY <2>1, <2>2, <2>3, <2>4, <2>5 DEF HeadInv
<1>6. WireInv'
  BY <1>1, <1>3, WireCalm DEF FlowInv
<1>7. ~badAccept' => FrameInv'
  BY <1>1, <1>3, FrameCalm DEF FlowInv
<1> QED BY <1>5, <1>6, <1>7 DEF FlowInv

LEMMA H11Facts ==
  ASSUME TaskInv, PartInv, HeadInv, NEW t \in Tasks, NEW h \in {"head", "switch", "body", "end"},
         Does(t, h)
  PROVE  /\ cpu = t /\ Has(t, h) /\ t \in {"reader", "app"}
         /\ t = "reader" => h \in {"head", "end"} /\ app = "none"
         /\ t = "app" => app \notin {"none", "raised"}
         /\ \A s \in Tasks : s # t => ~Has(s, "head") /\ ~Has(s, "switch") /\ ~Has(s, "end")
         /\ h = "head" \/ h = "switch" => h11 = "response"
         /\ ~(t = "app" /\ app = "running") => h # "body" /\ h # "switch"
         /\ h = "end" /\ ~(t = "app" /\ app = "running") => h11 = "body"
<1>1. cpu = t /\ todo[t] # <<>> /\ Head(todo[t]) = h /\ h \in OpsOf(t) /\ Program(t, todo[t])
  BY DoesOps DEF TaskInv, TodoInv
<1>2. Has(t, h)
  BY <1>1, Shortened DEF Has
<1>3. t \in {"reader", "app"} /\ (t = "reader" => h \in {"head", "end"})
  BY <1>1, OpsOfReader DEF Tasks, Fails
<1>4. t = "reader" => app = "none"
  BY <1>2, <1>3 DEF HeadInv
<1>5. t = "app" => app \notin {"none", "raised"}
  BY <1>1, NotNew
<1>6. \A s \in Tasks : s # t => ~Has(s, "head") /\ ~Has(s, "switch")
  BY <1>1, Running
<1>7. ASSUME NEW s \in Tasks, s # t
      PROVE  ~Has(s, "end")
  <2>1. CASE s = "reader"
    BY <1>3, <1>5, <1>7, <2>1 DEF HeadInv
  <2>2. CASE s = "app"
    <3>1. todo["app"] = <<>>
      BY <1>3, <1>4, <1>7, <2>2 DEF PartInv
    <3> QED BY <2>2, <3>1, NoProgram DEF Has
  <2>3. CASE s = "ping"
    <3>1. "end" \notin OpsOf(s)
      BY <2>3, OpsOfReader DEF Fails
    <3> QED BY <3>1, HasOps
  <2> QED BY <2>1, <2>2, <2>3 DEF Tasks
<1>8. h = "head" \/ h = "switch" => h11 = "response"
  BY <1>2 DEF HeadInv
<1>9. ~(t = "app" /\ app = "running") => h # "body" /\ h # "switch"
  BY <1>2, <1>3 DEF HeadInv
<1>10. h = "end" /\ ~(t = "app" /\ app = "running") => h11 = "body"
  <2>1. h = "end" => ~Has(t, "head")
    BY <1>1, HeadOnly DEF First
  <2> QED BY <1>2, <2>1 DEF HeadInv
<1> QED BY <1>1, <1>2, <1>3, <1>4, <1>5, <1>6, <1>7, <1>8, <1>9, <1>10

LEMMA FlowH11 ==
  ASSUME BaseInv, TaskInv, PartInv, FlowInv, NEW t \in Tasks,
         NEW h \in {"head", "switch", "body", "end"}, Does(t, h), Did(t, h, {}),
         H11After(h) # "error", h11' = H11After(h),
         wire' = (IF transport = "open" THEN OnWire(h) ELSE wire),
         UNCHANGED <<app, reader, transport, state, conn, accepted, badAccept>>
  PROVE  FlowInv'
<1>1. /\ cpu = t /\ Has(t, h) /\ t \in {"reader", "app"}
      /\ t = "reader" => h \in {"head", "end"} /\ app = "none"
      /\ t = "app" => app \notin {"none", "raised"}
      /\ \A s \in Tasks : s # t => ~Has(s, "head") /\ ~Has(s, "switch") /\ ~Has(s, "end")
      /\ h = "head" \/ h = "switch" => h11 = "response"
      /\ ~(t = "app" /\ app = "running") => h # "body" /\ h # "switch"
  BY H11Facts DEF FlowInv
<1>2. Others(t) /\ Head(todo[t]) = h
      /\ (\A op : Has(t, op)' => Has(t, op)) /\ \A op : Has(t, op) => op = h \/ Has(t, op)'
  BY DEF Did
<1>3. "reader" \in Tasks /\ "app" \in Tasks /\ "head" \in First /\ "switch" \in First
  BY OpsOfReader DEF First
<1>4. ~Has(t, "head")' /\ ~Has(t, "switch")'
  <2>1. Has(t, "head")' <=> "head" \in {}
    BY <1>3, NotFirst
  <2>2. Has(t, "switch")' <=> "switch" \in {}
    BY <1>3, NotFirst
  <2> QED BY <2>1, <2>2
<1>5. \A s \in Tasks : ~Has(s, "head")' /\ ~Has(s, "switch")'
  BY <1>1, <1>2, <1>4, HasElse
<1>6. \A s \in Tasks : \A op : Has(s, op)' => Has(s, op)
  BY <1>2, HasElse
<1>7. h11' \in {"body", "switched", "done"}
      /\ (h = "head" => h11' = "body") /\ (h = "switch" => h11' = "switched")
      /\ (h = "body" \/ h = "end" => h11 = "body")
  BY DEF H11After
<1>8. HeadInv /\ WireInv /\ (~badAccept => FrameInv)
  BY DEF FlowInv
<1>9. HeadInv'
  <2>1. state' = "HANDSHAKE" /\ app' \in {"running", "raised"} =>
          h11' = "response" \/ Has("app", "RESPONSE")'
    <3>1. SUFFICES ASSUME state = "HANDSHAKE", app \in {"running", "raised"}
                   PROVE  Has("app", "RESPONSE")'
      OBVIOUS
    <3>2. t = "app" /\ app = "running"
      BY <1>1, <3>1
    <3>3. h # "switch"
      BY <1>1, <1>8, <3>1, <3>2 DEF HeadInv
    <3>4. Has("app", "RESPONSE")
      BY <1>1, <1>7, <1>8, <3>1, <3>2, <3>3 DEF HeadInv
    <3> QED BY <1>2, <3>2, <3>4
  <2>2. Has("reader", "head")' \/ Has("reader", "end")' => app' = "none"
    BY <1>3, <1>6, <1>8 DEF HeadInv
  <2>3. app' # "running" => ~Has("app", "body")' /\ ~Has("app", "RESPONSE")'
    BY <1>3, <1>6, <1>8 DEF HeadInv
  <2>4. ASSUME NEW s \in Tasks, Has(s, "end")', s = "app" => app # "running"
        PROVE  h11' = "body"
    <3>1. Has(s, "end")
      BY <1>6, <2>4
    <3>2. s = t
      BY <1>1, <3>1
    <3>3. h # "body" /\ h # "switch"
      BY <1>1, <2>4, <3>2
    <3>4. h # "end"
      <4>1. "end" \in Later(h)
        BY <2>4, <3>2 DEF Did
      <4> QED BY <4>1, LaterOf
    <3> QED BY <1>7, <3>3, <3>4
  <2> QED BY <1>3, <1>5, <2>1, <2>2, <2>3, <2>4 DEF HeadInv
<1>10. WireInv'
  <2>1. wire' # "broken" /\ (transport' = "open" => wire' = Written')
    <3>1. CASE transport # "open"
      BY <1>8, <3>1 DEF WireInv
    <3>2. CASE transport = "open"
      <4>1. wire = Written /\ wire' = OnWire(h)
        BY <1>8, <3>2 DEF WireInv
      <4>2. CASE h = "head"
        BY <1>1, <1>7, <4>1, <4>2 DEF Written, OnWire
      <4>3. CASE h = "switch"
        <5>1. conn = "open"
          BY <1>1, <1>8, <4>3 DEF HeadInv
        <5> QED BY <1>1, <1>7, <4>1, <4>3, <5>1 DEF Written, OnWire
      <4>4. CASE h = "body"
        <5>1. h11 = "body" /\ h11' = "body"
          BY <1>7, <4>4 DEF H11After
        <5> QED BY <4>1, <4>4, <5>1 DEF Written, OnWire
      <4>5. CASE h = "end"
        <5>1. h11 = "body" /\ h11' = "done"
          BY <1>7, <4>5 DEF H11After
        <5> QED BY <4>1, <4>5, <5>1 DEF Written, OnWire
      <4> QED BY <4>2, <4>3, <4>4, <4>5
    <3> QED BY <3>1, <3>2
  <2>2. conn' # "none" => h11' = "switched"
    <3>1. conn # "none" => h11 = "switched" \/ Has("app", "switch")
      BY <1>8 DEF WireInv
    <3>2. h11 # "switched"
      BY DEF H11After
    <3>3. Has("app", "switch") => h = "switch"
      <4>1. Has("app", "switch") => cpu = "app" /\ Head(todo["app"]) = "switch"
        BY <1>3, Running
      <4> QED BY <1>1, <1>2, <4>1
    <3> QED BY <1>7, <3>1, <3>2, <3>3
  <2> QED BY <2>1, <2>2 DEF WireInv
<1>11. ~badAccept' => FrameInv'
  BY <1>3, <1>6, <1>8, FrameCalm
<1> QED BY <1>9, <1>10, <1>11 DEF FlowInv

LEMMA FlowRaise ==
  ASSUME TaskInv, PartInv, FlowInv, NEW t \in Tasks, NEW h \in Sent, Does(t, h), Raise(t),
         \/ h \in {"head", "switch", "body", "end"} /\ H11After(h) = "error"
         \/ h \in {"frame", "close"} /\ conn = "none",
         UNCHANGED <<h11, wire, state, conn, accepted, badAccept>>
  PROVE  FlowInv'
<1>0. HeadInv /\ WireInv /\ (~badAccept => FrameInv) /\ "app" \in Tasks /\ "reader" \in Tasks
  BY OpsOfReader DEF FlowInv
<1>1. cpu = t /\ todo[t] # <<>> /\ Head(todo[t]) = h /\ Has(t, h)
  BY TaskRaise
<1>2. h # "head" /\ h # "switch"
  <2>1. Has(t, "head") \/ Has(t, "switch") => h11 = "response"
    BY <1>0 DEF HeadInv
  <2> QED BY <1>1, <2>1 DEF H11After
<1>3. ~Has("app", "switch")
  BY <1>1, <1>2, NoSwitch
<1>4. CASE /\ t = "app" /\ app = "running" /\ app' = "raised" /\ reader' = reader
           /\ Others(t) /\ (\A op : ~Has(t, op)') /\ transport' = transport
  <2>1. \A s \in Tasks : s # "app" => \A op : Has(s, op)' <=> Has(s, op)
    BY <1>4, HasElse
  <2>2. ~Has("app", "RESPONSE")
    <3>1. Has("app", "RESPONSE") => "RESPONSE" = h \/ "RESPONSE" \in Later(h)
      BY <1>0, <1>1, <1>4, HasLater
    <3>2. h \in {"body", "end", "frame", "close"}
      BY <1>2 DEF Sent
    <3> QED BY <3>1, <3>2, LaterOf
  <2>3. state = "HANDSHAKE" => h11 = "response"
    BY <1>0, <1>4, <2>2 DEF HeadInv
  <2>4. HeadInv'
    <3>1. \A s \in Tasks : Has(s, "head")' \/ Has(s, "switch")' => h11' = "response"
      BY <1>0, <1>4, <2>1 DEF HeadInv
    <3>2. ~Has("reader", "head")' /\ ~Has("reader", "end")'
      BY <1>0, <1>4, <2>1 DEF HeadInv
    <3>3. \A s \in Tasks :
            Has(s, "end")' /\ ~Has(s, "head")' /\ (s = "app" => app' # "running") => h11' = "body"
      BY <1>0, <1>4, <2>1 DEF HeadInv
    <3> QED BY <1>4, <2>3, <3>1, <3>2, <3>3 DEF HeadInv
  <2>5. WireInv'
    BY <1>0, <1>3, <1>4, WireCalm
  <2>6. ~badAccept' => FrameInv'
    BY <1>0, <1>4, FrameCalm
  <2> QED BY <2>4, <2>5, <2>6 DEF FlowInv
<1>5. CASE /\ ~(t = "app" /\ app = "running") /\ app' = app /\ reader' = "crashed"
           /\ (\A s \in Tasks : \A op : ~Has(s, op)') /\ transport' = Closing
  <2>1. h \in {"frame", "close"} /\ conn = "none"
    <3>1. ASSUME h \in {"head", "switch", "body", "end"}, H11After(h) = "error"
          PROVE  FALSE
      <4>1. h = "end" /\ h11 = "body"
        BY <1>0, <1>2, <1>5, <3>1, H11Facts
      <4> QED BY <3>1, <4>1 DEF H11After
    <3> QED BY <3>1
  <2>2. ~accepted
    BY <2>1 DEF PartInv
  <2>3. t = "app"
    <3>1. t \in {"reader", "ping"} => accepted
      BY <1>1, <2>1 DEF PartInv
    <3> QED BY <2>2, <3>1 DEF Tasks
  <2>4. app \notin {"none", "raised", "running"}
    BY <1>1, <1>5, <2>3, NotNew
  <2>5. HeadInv'
    BY <1>0, <1>5, <2>4 DEF HeadInv
  <2>6. WireInv'
    <3>1. transport' = "open" => transport = "open"
      BY <1>5 DEF Closing
    <3> QED BY <1>0, <1>3, <3>1, WireCalm
  <2>7. badAccept
    BY <1>0, <1>1, <1>5, <2>1, <2>2, <2>3 DEF FrameInv
  <2> QED BY <2>5, <2>6, <2>7 DEF FlowInv
<1> QED BY <1>4, <1>5, TaskRaise

LEMMA FlowFrame ==
  ASSUME BaseInv, TaskInv, PartInv, FlowInv, NEW t \in Tasks, NEW h \in {"frame", "close"},
         Does(t, h), Did(t, h, {}), conn # "none", MaySend(h), conn' = AfterSend(h),
         wire' = (IF transport = "open" THEN OnWire(h) ELSE wire),
         UNCHANGED <<app, reader, transport, state, h11, accepted, badAccept>>
  PROVE  FlowInv'
<1>1. HeadInv /\ WireInv /\ (~badAccept => FrameInv)
  BY DEF FlowInv
<1>2. ~Has("app", "switch")
  <2>1. cpu = t /\ Head(todo[t]) # "switch"
    BY DEF Does
  <2> QED BY <2>1, NoSwitch
<1>3. Aside(t, h, {})
  BY DEF Aside, HeadOps
<1>4. HeadInv'
  BY <1>1, <1>2, <1>3, AsideHas, HeadCalm
<1>5. WireInv'
  <2>1. h11 = "switched" /\ wire # "broken" /\ (transport = "open" => wire = Written)
    BY <1>1, <1>2 DEF WireInv
  <2>2. conn \in {"open", "remote"} /\ (h = "frame" => conn' = conn)
        /\ (h = "close" => conn' \in {"closed", "local"})
    BY DEF MaySend, AfterSend
  <2>3. CASE transport = "open"
    <3>1. wire = "switched"
      BY <2>1, <2>2, <2>3 DEF Written
    <3>2. wire' # "broken" /\ wire' = Written'
      BY <2>1, <2>2, <2>3, <3>1 DEF Written, OnWire
    <3> QED BY <2>1, <3>2 DEF WireInv
  <2>4. CASE transport # "open"
    BY <2>1, <2>4 DEF WireInv
  <2> QED BY <2>3, <2>4
<1>6. ~badAccept' => FrameInv'
  BY <1>1, <1>3, AsideHas, FrameCalm
<1> QED BY <1>4, <1>5, <1>6 DEF FlowInv

\* The client's close.
LEMMA FlowClosed ==
  ASSUME BaseInv, TaskInv, PartInv, CloseInv, FlowInv, NEW N, Does("reader", "events"),
         Did("reader", "events", N), Aside("reader", "events", N),
         \/ conn = "local" /\ conn' = "closed"
         \/ conn # "local" /\ conn' = "remote",
         UNCHANGED <<app, reader, transport, state, h11, wire, accepted, badAccept>>
  PROVE  FlowInv'
<1>1. HeadInv /\ WireInv /\ (~badAccept => FrameInv) /\ "reader" \in Tasks
  BY OpsOfReader DEF FlowInv
<1>2. ~Has("app", "switch")
  <2>1. cpu = "reader" /\ Head(todo["reader"]) # "switch"
    BY DEF Does
  <2> QED BY <1>1, <2>1, NoSwitch
<1>3. HeadInv'
  BY <1>1, <1>2, AsideHas, HeadCalm
<1>4. conn # "none"
  BY <1>1 DEF Did, PartInv
<1>5. transport = "open" => conn \notin {"remote", "closed"}
  <2>1. ~Has("reader", "closeTransport")
    <3>1. Has("reader", "closeTransport") => "closeTransport" \in Later("events")
      BY <1>1, HasLater DEF Does
    <3> QED BY <3>1, LaterOf
  <2> QED BY <2>1 DEF CloseInv
<1>6. WireInv'
  <2>1. h11 = "switched" /\ wire # "broken" /\ (transport = "open" => wire = Written)
    BY <1>1, <1>2, <1>4 DEF WireInv
  <2>2. transport = "open" => Written' = Written
    BY <1>4, <1>5, <2>1 DEF Written, BaseInv
  <2> QED BY <2>1, <2>2 DEF WireInv
<1>7. ~badAccept' => FrameInv'
  BY <1>1, AsideHas, FrameCalm
<1> QED BY <1>3, <1>6, <1>7 DEF FlowInv

LEMMA FlowStep ==
  ASSUME BaseInv, TaskInv, PartInv, CloseInv, FlowInv, NEW t \in Tasks, Step(t)
  PROVE  FlowInv'
<1>0. "reader" \in Tasks
  BY OpsOfReader
<1>1. CASE Drained(t)
  <2>1. \A s \in Tasks : \A op : Has(s, op)' <=> Has(s, op)
    BY <1>1, HasSame DEF Drained
  <2> QED BY <1>1, <2>1, FlowStays DEF Drained, streamVars, roleVars, clientVars, history
<1>2. CASE DrainFails(t)
  <2>1. UNCHANGED <<h11, state, app, conn, wire, accepted, badAccept, reader, transport>>
    BY <1>2 DEF DrainFails, streamVars, roleVars, clientVars, history
  <2>2. Others(t) /\ \A op : Has(t, op)' <=> op \in {"closeStream", "release"} \/ Has(t, op)
    BY <1>2, TaskDrainFails
  <2>3. \A s \in Tasks : \A op \in HeadOps \cup {"frame", "close"} : Has(s, op)' <=> Has(s, op)
    BY <2>2, HasElse DEF HeadOps
  <2>4. HeadInv'
    BY <2>1, <2>3, HeadCalm DEF FlowInv
  <2>5. WireInv'
    BY <2>1, <2>3, WireCalm, OpsOfReader DEF FlowInv, HeadOps
  <2>6. ~badAccept' => FrameInv'
    BY <2>1, <2>3, FrameCalm, OpsOfReader DEF FlowInv
  <2> QED BY <2>4, <2>5, <2>6 DEF FlowInv
<1>3. CASE Release(t)
  <2>1. Did(t, "release", {}) /\ Aside(t, "release", {})
    BY <1>3, TaskRelease DEF Aside, HeadOps
  <2> QED BY <1>3, <2>1, FlowAside DEF Release, streamVars, roleVars, clientVars, history
<1>4. CASE Gone(t)
  <2>1. \A s \in Tasks : \A op : Has(s, op)' <=> Has(s, op)
    BY <1>4, HasSame DEF Gone
  <2> QED BY <1>4, <2>1, FlowStays DEF Gone, streamVars, roleVars, clientVars, history
<1>5. ASSUME NEW h \in {"head", "switch", "body", "end"}, SendH11(t, h)
      PROVE  FlowInv'
  <2>1. h \in Sent /\ Does(t, h) /\ UNCHANGED <<state, accepted, conn, badAccept>>
    BY <1>5 DEF Sent, SendH11
  <2>2. CASE H11After(h) = "error" /\ Raise(t) /\ UNCHANGED <<h11, wire>>
    BY <2>1, <2>2, FlowRaise
  <2>3. CASE /\ H11After(h) # "error" /\ h11' = H11After(h) /\ Did(t, h, {})
             /\ wire' = (IF transport = "open" THEN OnWire(h) ELSE wire)
             /\ UNCHANGED <<roleVars, clientVars, queue>>
    <3>1. UNCHANGED <<app, reader, transport>>
      BY <2>3 DEF roleVars, clientVars
    <3> QED BY <2>1, <2>3, <3>1, FlowH11
  <2> QED BY <1>5, <2>2, <2>3, TaskSendH11
<1>6. ASSUME NEW h \in {"frame", "close"}, SendFrame(t, h)
      PROVE  FlowInv'
  <2>1. h \in Sent /\ Does(t, h) /\ UNCHANGED <<state, accepted, h11, badAccept>>
    BY <1>6 DEF Sent, SendFrame
  <2>2. CASE conn = "none" /\ Raise(t) /\ UNCHANGED <<conn, wire>>
    BY <2>1, <2>2, FlowRaise
  <2>3. CASE /\ conn # "none" /\ MaySend(h) /\ conn' = AfterSend(h) /\ Did(t, h, {})
             /\ wire' = (IF transport = "open" THEN OnWire(h) ELSE wire)
             /\ UNCHANGED <<roleVars, clientVars, queue>>
    <3>1. UNCHANGED <<app, reader, transport>>
      BY <2>3 DEF roleVars, clientVars
    <3> QED BY <2>1, <2>3, <3>1, FlowFrame
  <2>4. CASE Did(t, h, {}) /\ UNCHANGED <<conn, wire, roleVars, clientVars, queue>>
    <3>1. UNCHANGED <<app, reader, transport>> /\ Aside(t, h, {})
      BY <2>4 DEF roleVars, clientVars, Aside, HeadOps
    <3> QED BY <2>1, <2>4, <3>1, FlowAside
  <2> QED BY <1>6, <2>2, <2>3, <2>4, TaskSendFrame
<1>7. ASSUME NEW h \in Puts, Put(t, h)
      PROVE  FlowInv'
  <2>1. Did(t, h, {}) /\ Aside(t, h, {})
    BY <1>7, TaskPut DEF Aside, HeadOps, Puts
  <2> QED BY <1>7, <2>1, FlowAside DEF Put, streamVars, roleVars, clientVars
<1>8. CASE PutWaits(t)
  <2>1. \A s \in Tasks : \A op : Has(s, op)' <=> Has(s, op)
    BY <1>8, HasSame DEF PutWaits
  <2> QED BY <1>8, <2>1, FlowStays DEF PutWaits, streamVars, roleVars, clientVars, history
<1>9. CASE CloseStream(t)
  <2>1. UNCHANGED <<h11, state, app, conn, wire, accepted, badAccept, reader, transport>>
    BY <1>9 DEF CloseStream, roleVars, clientVars, history
  <2>2. PICK N \in {{"forget"}, {"disconnect", "forget"}, {}} : Did(t, "closeStream", N)
    BY <1>9, TaskCloseStream
  <2>3. Aside(t, "closeStream", N)
    BY <2>2 DEF Aside, HeadOps
  <2> QED BY <2>1, <2>2, <2>3, FlowAside
<1>10. CASE Forget(t)
  <2>1. Did(t, "forget", {}) /\ Aside(t, "forget", {})
    BY <1>10, TaskForget DEF Aside, HeadOps
  <2> QED BY <1>10, <2>1, FlowAside DEF Forget, roleVars, clientVars, history
<1>11. CASE CloseTransport(t)
  <2>1. Did(t, "closeTransport", {}) /\ Aside(t, "closeTransport", {}) /\ transport' # "open"
    BY <1>11, TaskCloseTransport DEF Aside, HeadOps, CloseTransport, Closing
  <2> QED BY <1>11, <2>1, FlowAside DEF CloseTransport, streamVars, roleVars, history
<1>12. CASE Assign(t)
  <2>1. UNCHANGED <<h11, app, conn, wire, accepted, badAccept, reader, transport>>
    BY <1>12 DEF Assign, clientVars, history
  <2>2. CASE \E s \in {"RESPONSE", "HTTPCLOSED"} : Did(t, s, {}) /\ state' = s
    BY <2>1, <2>2, FlowState
  <2>3. CASE state' = state /\ \E h \in {"shut", "clear", "pings"} : Did(t, h, {})
    <3>1. PICK h \in {"shut", "clear", "pings"} : Did(t, h, {})
      BY <2>3
    <3>2. Aside(t, h, {})
      BY DEF Aside, HeadOps
    <3> QED BY <2>1, <2>3, <3>1, <3>2, FlowAside
  <2> QED BY <1>12, <2>2, <2>3, TaskAssign
<1>13. CASE Fragment(t)
  <2>1. UNCHANGED <<h11, state, app, conn, wire, accepted, badAccept, reader, transport>>
    BY <1>13 DEF Fragment, roleVars
  <2>2. PICK N \in {{"close"}, {"receive", "clear", "events"}, {"events"}} :
          Did("reader", "events", N)
    BY <1>13, TaskFragment DEF BaseInv
  <2>3. Aside("reader", "events", N)
    BY <2>2 DEF Aside, HeadOps
  <2> QED BY <1>0, <2>1, <2>2, <2>3, FlowAside
<1>14. CASE Control(t)
  <2>1. UNCHANGED <<h11, state, app, wire, accepted, badAccept, reader, transport>>
    BY <1>14 DEF Control, roleVars, history
  <2>2. PICK N \in {{}, {"frame", "events"}, {"closeStream", "closeTransport"},
                    {"closeStream", "closeTransport", "events"},
                    {"close", "closeStream", "closeTransport", "events"}} :
          /\ Did("reader", "events", N)
          /\ \/ conn' = conn
             \/ conn = "local" /\ conn' = "closed"
             \/ conn # "local" /\ conn' = "remote"
    BY <1>14, TaskControl
  <2>3. Aside("reader", "events", N) /\ Does("reader", "events")
    BY <1>14, <2>2, TaskControl DEF Aside, HeadOps
  <2>4. CASE conn' = conn
    BY <1>0, <2>1, <2>2, <2>3, <2>4, FlowAside
  <2>5. CASE conn' # conn
    BY <2>1, <2>2, <2>3, <2>5, FlowClosed
  <2> QED BY <2>4, <2>5
<1> QED BY <1>1, <1>2, <1>3, <1>4, <1>5, <1>6, <1>7, <1>8, <1>9, <1>10, <1>11, <1>12, <1>13, <1>14
        DEF Step

\* A task that begins something, but for the application.
LEMMA FlowStarted ==
  ASSUME FlowInv, NEW t \in {"reader", "ping"}, NEW N, Started(t, N), N \cap HeadOps = {},
         UNCHANGED <<h11, state, app, conn, wire, accepted, badAccept, transport>>,
         reader' = reader \/ reader' # "crashed"
  PROVE  FlowInv'
<1>1. t \in Tasks /\ "app" \in Tasks /\ t # "app" /\ Others(t) /\ "switch" \in HeadOps
  BY OpsOfReader DEF Started, HeadOps
<1>2. \A op \in HeadOps : Has(t, op)' <=> Has(t, op)
  BY DEF Started
<1>3. \A s \in Tasks : \A op \in HeadOps : Has(s, op)' <=> Has(s, op)
  BY <1>1, <1>2, HasElse
<1>4. \A op : Has("app", op)' <=> Has("app", op)
  BY <1>1, HasElse
<1>5. HeadInv'
  BY <1>3, HeadCalm DEF FlowInv
<1>6. WireInv'
  BY <1>4, WireCalm DEF FlowInv
<1>7. ~badAccept' => FrameInv'
  BY <1>4, FrameCalm DEF FlowInv
<1> QED BY <1>5, <1>6, <1>7 DEF FlowInv

\* What the application begins.
LEMMA FlowApp ==
  ASSUME FlowInv, NEW N, Started("app", N), app \in {"running", "raised"},
         (app' = app /\ app = "running") \/ app' = "finishing",
         "head" \in N => h11 = "response",
         "switch" \in N => h11 = "response" /\ state' = "CONNECTED" /\ conn' = "open",
         state' = "HANDSHAKE" => state = "HANDSHAKE",
         state' = "HANDSHAKE" /\ app' = "running" /\ "head" \in N => "RESPONSE" \in N,
         app' # "running" => /\ "body" \notin N /\ "RESPONSE" \notin N /\ "switch" \notin N
                             /\ ("end" \in N => "head" \in N),
         UNCHANGED <<h11, wire, transport, reader, badAccept>>,
         conn' = conn \/ "switch" \in N,
         accepted => accepted',
         state' = "CONNECTED" => state = "CONNECTED" \/ accepted',
         app' # "running" /\ ("frame" \in N \/ "close" \in N) => state = "CONNECTED"
  PROVE  FlowInv'
<1>1. HeadInv /\ WireInv /\ (~badAccept => FrameInv) /\ "app" \in Tasks /\ "reader" \in Tasks
  BY OpsOfReader DEF FlowInv
<1>2. Others("app") /\ (\A op : ~Has("app", op)) /\ \A op : Has("app", op)' <=> op \in N
  BY DEF Started
<1>3. \A s \in Tasks : s # "app" => \A op : Has(s, op)' <=> Has(s, op)
  BY <1>1, <1>2, HasElse
<1>4. HeadInv'
  <2>1. \A s \in Tasks : Has(s, "head")' \/ Has(s, "switch")' => h11' = "response"
    BY <1>1, <1>2, <1>3 DEF HeadInv
  <2>2. Has("app", "switch")' => state' = "CONNECTED" /\ conn' = "open"
    BY <1>2
  <2>3. state' = "HANDSHAKE" => h11' = "response"
    BY <1>1, <1>2 DEF HeadInv
  <2>4. Has("app", "head")' /\ state' = "HANDSHAKE" /\ app' = "running" => Has("app", "RESPONSE")'
    BY <1>2
  <2>5. ~Has("reader", "head")' /\ ~Has("reader", "end")'
    BY <1>1, <1>3 DEF HeadInv
  <2>6. app' # "running" => ~Has("app", "body")' /\ ~Has("app", "RESPONSE")' /\ ~Has("app", "switch")'
    BY <1>2
  <2>7. \A s \in Tasks :
          Has(s, "end")' /\ ~Has(s, "head")' /\ (s = "app" => app' # "running") => h11' = "body"
    BY <1>1, <1>2, <1>3 DEF HeadInv
  <2> QED BY <2>1, <2>2, <2>3, <2>4, <2>5, <2>6, <2>7 DEF HeadInv
<1>5. WireInv'
  <2>1. CASE "switch" \in N
    <3>1. Has("app", "switch")' /\ Written = "none" /\ Written' = "none"
      BY <1>2, <2>1 DEF Written
    <3> QED BY <1>1, <3>1 DEF WireInv
  <2>2. CASE "switch" \notin N
    BY <1>1, <1>2, <2>2, WireCalm
  <2> QED BY <2>1, <2>2
<1>6. ~badAccept' => FrameInv'
  BY <1>1, <1>2 DEF FrameInv
<1> QED BY <1>4, <1>5, <1>6 DEF FlowInv

LEMMA FlowRequest ==
  ASSUME BaseInv, TaskInv, PartInv, FlowInv, NEW valid \in BOOLEAN, Request(valid)
  PROVE  FlowInv'
<1>0. "reader" \in Tasks /\ "app" \in Tasks /\ "reader" # "app"
  BY OpsOfReader
<1>1. UNCHANGED <<h11, state, conn, wire, accepted, badAccept, transport>>
      /\ reader = "new" /\ reader' = "reading"
  BY DEF Request, streamVars, clientVars, history
<1>2. h11 = "response" /\ app = "none" /\ \A s \in Tasks : todo[s] = <<>>
  BY <1>1 DEF PartInv
<1>3. \A s \in Tasks : \A op : ~Has(s, op)
  BY <1>2, NoProgram DEF Has
<1>4. PICK N \in {{"connect"}, {"head", "end", "shut"}} :
        Started("reader", N) /\ (N = {"connect"} \/ app' = app)
  BY TaskRequest
<1>5. \A s \in Tasks : s # "reader" => \A op : ~Has(s, op)'
  BY <1>0, <1>3, <1>4, HasElse DEF Started
<1>6. \A op : Has("reader", op)' <=> op \in N
  BY <1>4 DEF Started
<1>7. Has("reader", "head")' \/ Has("reader", "end")' => N = {"head", "end", "shut"}
  BY <1>4, <1>6
<1>8. Has("reader", "end")' => Has("reader", "head")'
  BY <1>4, <1>6
<1>9. HeadInv'
  <2>1. Has("reader", "head")' \/ Has("reader", "end")' => app' = "none"
    BY <1>2, <1>4, <1>7
  <2>2. \A s \in Tasks : Has(s, "end")' => Has(s, "head")'
    BY <1>5, <1>8
  <2> QED BY <1>0, <1>1, <1>2, <1>5, <2>1, <2>2 DEF HeadInv
<1>10. WireInv'
  BY <1>0, <1>1, <1>3, WireCalm DEF FlowInv
<1>11. ~badAccept' => FrameInv'
  BY <1>0, <1>1, <1>5 DEF FlowInv, FrameInv
<1> QED BY <1>9, <1>10, <1>11 DEF FlowInv

LEMMA FlowReader ==
  ASSUME TaskInv, FlowInv
  PROVE  /\ \A data \in Chunks : ReadData(data) /\ ~early' => FlowInv'
         /\ ReadEof => FlowInv'
<1>1. ASSUME NEW data \in Chunks, ReadData(data), ~early'
      PROVE  FlowInv'
  <2>1. UNCHANGED <<h11, state, app, conn, wire, accepted, badAccept, transport, reader>>
    BY <1>1 DEF ReadData, streamVars, roleVars
  <2>2. CASE todo' = todo
    BY <2>1, <2>2, HasSame, FlowStays
  <2>3. CASE Started("reader", {"events"})
    <3>1. {"events"} \cap HeadOps = {}
      BY DEF HeadOps
    <3> QED BY <2>1, <2>3, <3>1, FlowStarted
  <2> QED BY <1>1, <2>2, <2>3, TaskReadData
<1>2. ASSUME ReadEof
      PROVE  FlowInv'
  <2>1. UNCHANGED <<h11, state, app, conn, wire, accepted, badAccept, transport>>
        /\ reader' # "crashed"
    BY <1>2 DEF ReadEof, streamVars, clientVars, history
  <2>2. Started("reader", {"closeStream"})
    BY <1>2, TaskReadEof
  <2>3. {"closeStream"} \cap HeadOps = {}
    BY DEF HeadOps
  <2> QED BY <2>1, <2>2, <2>3, FlowStarted
<1> QED BY <1>1, <1>2

LEMMA FlowRest ==
  ASSUME TaskInv, FlowInv, PingLoop \/ RunEnds \/ Lose
  PROVE  FlowInv'
<1>1. CASE PingLoop
  <2>1. UNCHANGED <<h11, state, app, conn, wire, accepted, badAccept, transport, reader>>
    BY <1>1 DEF PingLoop, streamVars, clientVars, history
  <2>2. CASE todo' = todo
    BY <2>1, <2>2, HasSame, FlowStays
  <2>3. CASE Started("ping", {"frame"})
    <3>1. {"frame"} \cap HeadOps = {}
      BY DEF HeadOps
    <3> QED BY <2>1, <2>3, <3>1, FlowStarted
  <2> QED BY <1>1, <2>2, <2>3, TaskPingLoop
<1>2. CASE RunEnds
  <2>1. UNCHANGED <<h11, state, app, conn, wire, accepted, badAccept, reader, todo>>
        /\ transport = "open"
    BY <1>2 DEF RunEnds, streamVars, roleVars, taskVars, history
  <2> QED BY <2>1, HasSame, FlowStays
<1>3. CASE Lose
  <2>1. UNCHANGED <<h11, state, app, conn, wire, accepted, badAccept, reader, todo>>
        /\ transport' = "lost"
    BY <1>3 DEF Lose, streamVars, roleVars, taskVars, history
  <2> QED BY <2>1, HasSame, FlowStays
<1> QED BY <1>1, <1>2, <1>3

LEMMA FlowAccept ==
  ASSUME BaseInv, TaskInv, PartInv, FlowInv, Accept
  PROVE  FlowInv'
<1>0. "reader" \in Tasks /\ "app" \in Tasks
  BY OpsOfReader
<1>1. /\ Idle("app") /\ app = "running" /\ state = "HANDSHAKE" /\ state' = "CONNECTED"
      /\ UNCHANGED <<h11, wire, transport, reader>>
  BY TaskAccept DEF Accept, Sends, clientVars
<1>2. \A op : ~Has("app", op)
  BY <1>1, NoProgram DEF Idle, Has
<1>3. h11 = "response"
  BY <1>1, <1>2 DEF FlowInv, HeadInv
<1>4. CASE accepted' = TRUE /\ conn' = "open" /\ Started("app", {"switch", "pings"})
           /\ UNCHANGED <<app, badAccept>>
  <2>1. \A op \in {"head", "body", "RESPONSE", "end", "frame", "close"} :
          op \notin {"switch", "pings"}
    OBVIOUS
  <2> QED BY <1>1, <1>3, <1>4, <2>1, FlowApp
<1>5. CASE badAccept' = TRUE /\ app' = "raised" /\ UNCHANGED <<accepted, conn, todo, cpu>>
  <2>1. \A s \in Tasks : \A op : Has(s, op)' <=> Has(s, op)
    BY <1>5, HasSame
  <2>2. ~Has("reader", "head") /\ ~Has("reader", "end")
    BY <1>1 DEF FlowInv, HeadInv
  <2>3. HeadInv'
    <3>1. \A s \in Tasks :
            Has(s, "end")' /\ ~Has(s, "head")' /\ (s = "app" => app' # "running") => h11 = "body"
      BY <1>2, <2>1 DEF FlowInv, HeadInv
    <3> QED BY <1>0, <1>1, <1>2, <1>3, <1>5, <2>1, <2>2, <3>1 DEF HeadInv
  <2>4. WireInv'
    BY <1>0, <1>1, <1>5, <2>1, WireCalm DEF FlowInv
  <2> QED BY <1>5, <2>3, <2>4 DEF FlowInv
<1> QED BY <1>4, <1>5, TaskAccept

LEMMA FlowReject ==
  ASSUME TaskInv, FlowInv, NEW suppressed \in BOOLEAN, NEW more \in BOOLEAN,
         Reject(suppressed, more)
  PROVE  FlowInv'
<1>1. /\ Idle("app") /\ app = "running" /\ state \in {"HANDSHAKE", "RESPONSE"}
      /\ UNCHANGED <<h11, wire, transport, reader, state, app, conn, accepted, badAccept>>
  BY TaskReject DEF Reject, Sends, clientVars, streamVars
<1>2. \A op : ~Has("app", op)
  BY <1>1, NoProgram DEF Idle, Has
<1>3. state = "HANDSHAKE" => h11 = "response"
  BY <1>1, <1>2 DEF FlowInv, HeadInv
<1>4. PICK N : /\ Started("app", N) /\ "switch" \notin N
               /\ "head" \in N => state = "HANDSHAKE"
               /\ "RESPONSE" \in N \/ "head" \notin N
  <2>1. CASE state = "HANDSHAKE" /\ \E N : /\ Started("app", N)
                 /\ N \subseteq {"head", "RESPONSE", "body", "HTTPCLOSED", "end"}
                 /\ {"head", "RESPONSE"} \subseteq N
    BY <2>1
  <2>2. CASE \E N : Started("app", N) /\ N \subseteq {"body", "HTTPCLOSED", "end"}
    BY <2>2
  <2> QED BY <2>1, <2>2, TaskReject
<1> QED BY <1>1, <1>3, <1>4, FlowApp

LEMMA FlowFinish ==
  ASSUME BaseInv, TaskInv, FlowInv, Finish
  PROVE  FlowInv'
<1>1. /\ Idle("app") /\ app \in {"running", "raised"} /\ app' = "finishing"
      /\ UNCHANGED <<h11, wire, transport, reader, state, conn, accepted, badAccept>>
  BY TaskFinish DEF Finish, clientVars, streamVars, history
<1>2. \A op : ~Has("app", op)
  BY <1>1, NoProgram DEF Idle, Has
<1>3. state = "HANDSHAKE" => h11 = "response"
  BY <1>1, <1>2 DEF FlowInv, HeadInv
<1>4. PICK N : /\ Started("app", N)
               /\ "switch" \notin N /\ "body" \notin N /\ "RESPONSE" \notin N
               /\ "head" \in N => state = "HANDSHAKE"
               /\ "end" \in N => "head" \in N
               /\ "frame" \in N \/ "close" \in N => state = "CONNECTED"
  <2>1. CASE \E N : Started("app", N) /\ N \subseteq {"closeStream", "closeTransport"}
    BY <2>1
  <2>2. CASE state = "HANDSHAKE"
             /\ Started("app", {"head", "end", "closeStream", "closeTransport"})
    BY <2>2
  <2>3. CASE state = "CONNECTED" /\ Started("app", {"close", "closeStream", "closeTransport"})
    BY <2>3
  <2> QED BY <2>1, <2>2, <2>3, TaskFinish
<1> QED BY <1>1, <1>3, <1>4, FlowApp

LEMMA FlowAppStep ==
  ASSUME BaseInv, TaskInv, PartInv, FlowInv, AppStep
  PROVE  FlowInv'
<1>1. CASE Receive
  BY <1>1, HasSame, FlowStays
  DEF Receive, streamVars, taskVars, roleVars, clientVars, history
<1>2. CASE Start
  BY <1>2, HasSame, FlowStays DEF Start, Sends, clientVars
<1>3. CASE Accept
  BY <1>3, FlowAccept
<1>4. CASE SendMessage
  <2>1. /\ app = "running" /\ state = "CONNECTED" /\ Started("app", {"frame"})
        /\ UNCHANGED <<h11, wire, transport, reader, state, app, conn, accepted, badAccept>>
    BY <1>4, TaskSendMessage DEF SendMessage, Sends, clientVars, streamVars
  <2>2. "head" \notin {"frame"} /\ "switch" \notin {"frame"}
    OBVIOUS
  <2> QED BY <2>1, <2>2, FlowApp
<1>5. CASE Close
  <2>1. /\ Idle("app") /\ app = "running"
        /\ UNCHANGED <<h11, wire, transport, reader, app, conn, accepted, badAccept>>
    BY <1>5, TaskClose DEF Close, Sends, clientVars
  <2>2. \A op : ~Has("app", op)
    BY <2>1, NoProgram DEF Idle, Has
  <2>3. state = "HANDSHAKE" => h11 = "response"
    BY <2>1, <2>2 DEF FlowInv, HeadInv
  <2>4. CASE state = "HANDSHAKE" /\ state' = "HTTPCLOSED" /\ Started("app", {"head", "end"})
    <3>1. "switch" \notin {"head", "end"}
      OBVIOUS
    <3> QED BY <2>1, <2>3, <2>4, <3>1, FlowApp
  <2>5. CASE state' = "CLOSED" /\ Started("app", {"close"})
    <3>1. "head" \notin {"close"} /\ "switch" \notin {"close"}
      OBVIOUS
    <3> QED BY <2>1, <2>5, <3>1, FlowApp
  <2> QED BY <1>5, <2>4, <2>5, TaskClose
<1>6. CASE Finish
  BY <1>6, FlowFinish
<1>7. ASSUME NEW more \in BOOLEAN, Trailers(more)
      PROVE  FlowInv'
  <2>1. /\ app = "running"
        /\ UNCHANGED <<h11, wire, transport, reader, state, app, conn, accepted, badAccept>>
    BY <1>7, TaskTrailers DEF Trailers, Sends, clientVars, streamVars
  <2>2. PICK N : Started("app", N) /\ "head" \notin N /\ "switch" \notin N
    <3>1. Started("app", {"end"}) \/ Started("app", {"end", "HTTPCLOSED"})
      BY <1>7, TaskTrailers
    <3> QED BY <3>1
  <2> QED BY <2>1, <2>2, FlowApp
<1>8. ASSUME NEW suppressed \in BOOLEAN, NEW more \in BOOLEAN, Reject(suppressed, more)
      PROVE  FlowInv'
  BY <1>8, FlowReject
<1> QED BY <1>1, <1>2, <1>3, <1>4, <1>5, <1>6, <1>7, <1>8 DEF AppStep

----------------------------------------------------------------------------
(* Every step.                                                             *)

LEMMA TaskNext ==
  ASSUME BaseInv, TaskInv, PartInv, Next
  PROVE  TaskInv'
<1>1. ASSUME NEW t \in Tasks, Step(t)
      PROVE  TaskInv'
  <2>1. length \in 0 .. MaxLength + 1
    BY DEF BaseInv
  <2>2. ASSUME NEW h \in {"head", "switch", "body", "end"}, SendH11(t, h)
        PROVE  TaskInv'
    BY <2>2, TaskSendH11
  <2>3. ASSUME NEW h \in {"frame", "close"}, SendFrame(t, h)
        PROVE  TaskInv'
    BY <2>3, TaskSendFrame
  <2>4. ASSUME NEW h \in Puts, Put(t, h)
        PROVE  TaskInv'
    BY <2>4, TaskPut
  <2>5. CASE Drained(t) \/ DrainFails(t) \/ Release(t) \/ Gone(t)
    BY <2>5, TaskDrained, TaskDrainFails, TaskRelease, TaskGone
  <2>6. CASE PutWaits(t) \/ CloseStream(t) \/ Forget(t)
    BY <2>6, TaskPutWaits, TaskCloseStream, TaskForget
  <2>7. CASE CloseTransport(t) \/ Assign(t)
    BY <2>7, TaskCloseTransport, TaskAssign
  <2>8. CASE Fragment(t) \/ Control(t)
    BY <2>1, <2>8, TaskFragment, TaskControl
  <2> QED BY <1>1, <2>2, <2>3, <2>4, <2>5, <2>6, <2>7, <2>8 DEF Step
<1>2. ASSUME NEW valid \in BOOLEAN, Request(valid)
      PROVE  TaskInv'
  BY <1>2, TaskRequest
<1>3. ASSUME NEW data \in Chunks, ReadData(data)
      PROVE  TaskInv'
  BY <1>3, TaskReadData
<1>4. CASE ReadEof
  BY <1>4, TaskReadEof
<1>5. CASE AppStep
  <2>1. CASE Receive
    BY <2>1, TaskStays DEF Receive
  <2>2. CASE Start
    BY <2>2, TaskStays DEF Start, Sends, taskVars
  <2>3. CASE Accept \/ SendMessage \/ Close \/ Finish
    BY <2>3, TaskAccept, TaskSendMessage, TaskClose, TaskFinish
  <2>4. ASSUME NEW more \in BOOLEAN, Trailers(more)
        PROVE  TaskInv'
    BY <2>4, TaskTrailers
  <2>5. ASSUME NEW suppressed \in BOOLEAN, NEW more \in BOOLEAN, Reject(suppressed, more)
        PROVE  TaskInv'
    BY <2>5, TaskReject
  <2> QED BY <1>5, <2>1, <2>2, <2>3, <2>4, <2>5 DEF AppStep
<1>6. CASE PingLoop
  BY <1>6, TaskPingLoop
<1>7. CASE RunEnds \/ Lose
  BY <1>7, TaskStays DEF RunEnds, Lose
<1> QED BY <1>1, <1>2, <1>3, <1>4, <1>5, <1>6, <1>7 DEF Next

LEMMA FlowNext ==
  ASSUME BaseInv, TaskInv, PartInv, CloseInv, FlowInv, Next, ~early'
  PROVE  FlowInv'
BY FlowStep, FlowRequest, FlowReader, FlowAppStep, FlowRest DEF Next

\* Data that came early, and an accept that raised, are not forgotten.
LEMMA StaysEarly ==
  ASSUME BaseInv, Next
  PROVE  (early => early') /\ (badAccept => badAccept')
<1>1. ASSUME NEW t \in Tasks, Step(t)
      PROVE  UNCHANGED <<early, badAccept>>
  BY <1>1 DEF Step, Drained, DrainFails, Release, Gone, SendH11, SendFrame, Put, PutWaits,
     CloseStream, Forget, CloseTransport, Assign, Fragment, Control, history
<1>2. ASSUME NEW valid \in BOOLEAN, Request(valid)
      PROVE  UNCHANGED <<early, badAccept>>
  BY <1>2 DEF Request, history
<1>3. ASSUME NEW data \in Chunks, ReadData(data)
      PROVE  (early => early') /\ badAccept' = badAccept
  BY <1>3 DEF ReadData
<1>4. CASE AppStep
  BY <1>4 DEF AppStep, Receive, Accept, Start, SendMessage, Close, Finish, Trailers, Reject,
     Sends, history
<1>5. CASE ReadEof \/ PingLoop \/ RunEnds \/ Lose
  BY <1>5 DEF ReadEof, PingLoop, RunEnds, Lose, history
<1> QED BY <1>1, <1>2, <1>3, <1>4, <1>5 DEF Next

LEMMA ConvNext ==
  ASSUME ConvInv, [Next]_vars
  PROVE  ConvInv'
<1>1. CASE Next
  <2>1. BaseInv /\ TaskInv /\ PartInv /\ TellInv /\ CloseInv /\ BigInv
    BY DEF ConvInv
  <2>2. BaseInv'
    BY <1>1, <2>1, BaseStep, BaseReader, BaseApp, BaseRest DEF Next
  <2>3. TaskInv'
    BY <1>1, <2>1, TaskNext
  <2>4. PartInv'
    BY <1>1, <2>1, PartStep, PartReader, PartApp, PartRest DEF Next
  <2>5. TellInv'
    BY <1>1, <2>1, TellStep, TellElse DEF Next
  <2>6. CloseInv' /\ BigInv'
    BY <1>1, <2>1, EndStep, EndElse DEF Next
  <2>7. ~early' => FlowInv'
    <3>1. ~early' => ~early
      BY <1>1, <2>1, StaysEarly
    <3>2. ~early => FlowInv
      BY DEF ConvInv, FlowInv
    <3> QED BY <1>1, <2>1, <3>1, <3>2, FlowNext
  <2> QED BY <2>2, <2>3, <2>4, <2>5, <2>6, <2>7 DEF ConvInv, FlowInv
<1>2. CASE UNCHANGED vars
  <2>1. BaseInv' /\ BigInv' /\ CloseInv'
    BY <1>2 DEF ConvInv, BaseInv, BigInv, CloseInv, Has, vars, streamVars, taskVars, roleVars,
       clientVars, history
  <2>2. TaskInv'
    BY <1>2, TaskStays DEF ConvInv, vars
  <2>3. PartInv' /\ TellInv'
    BY <1>2 DEF ConvInv, PartInv, TellInv, Has, vars, streamVars, taskVars, roleVars,
       clientVars, history
  <2>4. ~early' => FlowInv'
    BY <1>2 DEF ConvInv, FlowInv, HeadInv, WireInv, Written, FrameInv, Has, vars, streamVars,
       taskVars, roleVars, clientVars, history
  <2> QED BY <2>1, <2>2, <2>3, <2>4 DEF ConvInv, FlowInv
<1> QED BY <1>1, <1>2

LEMMA ConvInit ==
  ASSUME Init
  PROVE  ConvInv
<1>1. \A t \in Tasks : todo[t] = <<>> /\ wait[t] = "no"
  BY DEF Init
<1>2. \A t \in Tasks : \A op : ~Has(t, op)
  BY <1>1, NoProgram DEF Has
<1>3. "app" \in Tasks /\ "reader" \in Tasks /\ "ping" \in Tasks /\ "none" \notin Tasks
  BY DEF Tasks
<1>4. BaseInv
  <2>1. <<>> \in Seq(FrameKinds)
    BY EmptySeq
  <2>2. 0 \in 0 .. MaxLength + 1 /\ 0 \in 0 .. MaxFrames /\ 0 \in 0 .. QueueSize
    BY WSAssumption
  <2> QED BY <2>1, <2>2 DEF Init, BaseInv
<1>5. TaskInv
  <2>1. TodoInv
    <3>1. <<>> \in Seq(Ops)
      BY EmptySeq
    <3>2. todo \in [Tasks -> Seq(Ops)]
      BY <3>1 DEF Init
    <3> QED BY <1>1, <3>2, NoProgram DEF TodoInv
  <2>2. WaitInv
    BY <1>1, <1>3 DEF Init, WaitInv
  <2>3. LockInv
    <3>1. lock = <<>> /\ <<>> \in Seq(Tasks) /\ Len(<<>>) = 0
      BY EmptySeq DEF Init
    <3> QED BY <1>1, <1>2, <3>1 DEF LockInv
  <2> QED BY <2>1, <2>2, <2>3 DEF TaskInv
<1>6. PartInv /\ CloseInv /\ BigInv
  BY <1>1, <1>2, <1>3 DEF Init, PartInv, CloseInv, BigInv
<1>7. TellInv
  BY <1>2 DEF Init, TellInv
<1>8. HeadInv /\ WireInv /\ FrameInv
  BY <1>2, <1>3 DEF Init, HeadInv, WireInv, Written, FrameInv
<1> QED BY <1>4, <1>5, <1>6, <1>7, <1>8 DEF ConvInv

\* The inductive invariant holds at all times.
THEOREM ConvAlways == Spec => []ConvInv
<1>1. Init => ConvInv
  BY ConvInit
<1>2. ConvInv /\ [Next]_vars => ConvInv'
  BY ConvNext
<1> QED BY <1>1, <1>2, PTL DEF Spec

----------------------------------------------------------------------------
(* The properties.                                                         *)

LEMMA ConvTypes ==
  ASSUME ConvInv
  PROVE  TypeOK
<1>1. BaseInv /\ TaskInv /\ TellInv
  BY DEF ConvInv
<1>2. \A t \in Tasks : cpu = t => todo[t] # <<>> /\ wait[t] = "no"
  BY <1>1 DEF TaskInv, WaitInv
<1>3. \A t \in Tasks : wait[t] = "put" => Head(todo[t]) \in Puts
  BY <1>1 DEF TaskInv, WaitInv
<1>4. wait \in [Tasks -> {"no", "drain", "put", "gone"}]
  BY <1>1 DEF TaskInv, WaitInv
<1>5. \A i, j \in 1 .. Len(lock) : i # j => lock[i] # lock[j]
  BY <1>1 DEF TaskInv, LockInv
<1>6. told \in Nat
  BY <1>1 DEF TellInv
<1> QED BY <1>1, <1>2, <1>3, <1>4, <1>5, <1>6 DEF BaseInv, TypeOK

\* However the reader, the application and the pings interleave, at any size of
\* the queue and any limit on messages: what the client is sent is one HTTP
\* response, or a switch and frames of which a close is the last, and after a
\* message that was too large nothing more is put for the application.
THEOREM ConversationCorrect == Spec => []Conversation
<1>1. ConvInv => Conversation
  <2>1. ConvInv => TypeOK
    BY ConvTypes
  <2>2. ConvInv => WellFormed
    BY DEF ConvInv, WireInv, WellFormed
  <2>3. ConvInv => NothingAfterTooBig
    BY DEF ConvInv, BigInv, NothingAfterTooBig, Has, Within
  <2> QED BY <2>1, <2>2, <2>3 DEF Conversation
<1> QED BY <1>1, ConvAlways, PTL

\* The application is told of the end of the stream once: it is never told a
\* second time, by whichever tasks find the connection lost, and once the stream
\* is closed it has been told or a task is on the way to tell it.
THEOREM ToldOnceCorrect == Spec => []ToldOnce
<1>1. ConvInv => ToldOnce
  <2>1. ConvInv => DisconnectOnce
    BY DEF ConvInv, TellInv, DisconnectOnce
  <2>2. ConvInv => ClosedIsTold
    BY DEF ConvInv, TellInv, ClosedIsTold, Telling, Has, Within
  <2> QED BY <2>1, <2>2 DEF ToldOnce
<1> QED BY <1>1, ConvAlways, PTL

\* Nothing but data before the handshake is accepted and an accept that raises
\* ends the connection by an exception: h11 and wsproto are never asked, by the
\* reader, the pings or the end of the application, for what they refuse.
THEOREM NoCrashCorrect == Spec => []NoCrash
<1>1. ConvInv => NoCrash
  BY DEF ConvInv, FrameInv, NoCrash
<1> QED BY <1>1, ConvAlways, PTL
=============================================================================
