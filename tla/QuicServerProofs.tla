------------------------- MODULE QuicServerProofs -------------------------
(***************************************************************************)
(* Theorems about QuicServer, for any number of timers' tasks and any size *)
(* of the application's queue: the tasks that handle the connection keep   *)
(* one view of it, and the application is given what the client sends.     *)
(***************************************************************************)
EXTENDS QuicServer, SequenceTheorems, FiniteSetTheorems, TLAPS

----------------------------------------------------------------------------
(* The inductive invariants.                                               *)

\* What a task has to do: the operations that may come after each, and those
\* that each task has at all.
Ops ==
  {"next", "send", "restart", "stop", "arm", "disarm", "forget", "loop", "pop"} \cup Puts
After(op) ==
  CASE op = "next" -> {"loop"}
    [] op \in {"send", "restart", "arm"} -> {"loop", "pop"}
    [] op \in {"stop", "disarm"} -> {"forget"}
    [] op = "third" -> {"end"}
    [] op \in {"forget", "first", "second", "end"} -> {"next"}
    [] op \in {"loop", "pop"} -> {}
OpsOf(t) ==
  Ops \ IF t = "app" THEN {"loop"} ELSE IF t = "server" THEN {"pop"} ELSE {"loop", "pop"}

Program(t, q) ==
  /\ q \in Seq(Ops)
  /\ \A i \in 1 .. Len(q) :
       /\ q[i] \in OpsOf(t)
       /\ i < Len(q) => q[i + 1] \in After(q[i])
       /\ q[i] \in Puts => i < Len(q)
Within(op, q) == \E i \in 1 .. Len(q) : q[i] = op
TodoInv == todo \in [Tasks -> Seq(Ops)] /\ \A t \in Tasks : Program(t, todo[t])

LockOps == {"restart", "stop", "arm", "disarm"}
Heads(t, ops) == todo[t] # <<>> /\ Head(todo[t]) \in ops

\* Where a task waits, and that one that does not has the processor.
WaitInv ==
  /\ \A t \in Tasks :
       /\ wait[t] = "put" => full /\ Heads(t, Puts)
       /\ wait[t] = "lock" => Heads(t, {"restart", "stop"})
       /\ wait[t] = "tick" => Heads(t, {"arm", "disarm"})
  /\ server # "crashed" => \A t \in Tasks : cpu # t /\ todo[t] # <<>> => wait[t] # "no"
  /\ server = "crashed" => cpu = "none"

\* Who has the lock, or waits for it, is at an operation that needs it.
LockInv ==
  \A i \in 1 .. Len(lock) : Heads(lock[i], LockOps) /\ (i > 1 => wait[lock[i]] = "lock")

\* The timer that sleeps is the one that the connection knows.
Sleepers == \A n \in Timers : timer[n] = "sleeping" => n = handle
Resting ==
  \A n \in Timers : timer[n] # "awake" => todo[n] = <<>> /\ wait[n] = "no" /\ cpu # n
Alive == server # "crashed" => \A n \in Timers : timer[n] # "dead" => n \in {handle, cpu}

\* Between the end of the old timer and the new one.
Holding ==
  \A t \in Tasks : Heads(t, {"arm", "disarm"}) =>
    /\ lock # <<>> /\ Head(lock) = t
    /\ handle \in {"none", t} \/ timer[handle] = "dead"

\* A timer that has been replaced, or stopped, by itself waits no more.
Replaced ==
  cpu \in Timers /\ cpu # handle =>
    todo[cpu] = <<>> \/ (quic = "done" /\ events = <<>> /\ Heads(cpu, {"forget", "next", "send"}))
TimerInv == Sleepers /\ Resting /\ Alive /\ Holding /\ Replaced

\* ConnectionTerminated is the last event.
LastEvent ==
  \A i \in 1 .. Len(events) : events[i] = "terminated" => quic = "done" /\ i = Len(events)
Closing ==
  \A t \in Tasks : Heads(t, {"stop", "disarm", "forget"}) => quic = "done" /\ events = <<>>
EndInv == LastEvent /\ Closing

ViewInv == TypeOK /\ CidsAgree /\ TodoInv /\ WaitInv /\ LockInv /\ TimerInv /\ EndInv

\* The events of the request that aioquic has still to give.
Data == {"first", "second", "last"}
HeadersComing == \E i \in 1 .. Len(events) : events[i] = "headers"
ComingInv ==
  /\ \A i \in 1 .. Len(events) : events[i] = "headers" => sent >= 2
  /\ \A i \in 1 .. Len(events) : events[i] \in Data => sent > 2
  /\ \A i, j \in 1 .. Len(events) : i < j /\ events[j] = "headers" => events[i] \notin Data \cup {"headers"}

\* Before the application has ended, what is put has a stream unless its
\* headers have been refused.
StreamInv ==
  /\ sent < 2 \/ HeadersComing => app = "none"
  /\ sent >= 2 /\ ~HeadersComing => stream \/ refused \/ app = "done"
  /\ \A t \in Tasks : Heads(t, Puts) => sent > 2 /\ ~HeadersComing
  /\ Within("pop", todo["app"]) => app = "done"
  /\ FailsLate

\* The messages of the first n of the client's events, and their order.
AllPuts == <<"first", "second", "third", "end">>
Made(n) == IF n < 3 THEN 0 ELSE IF n = 3 THEN 1 ELSE IF n = 4 THEN 2 ELSE 4
Special == {"issued", "retired", "terminated"}
Untaken == IF events # <<>> /\ events[1] \in Special THEN 0 ELSE Len(events)

\* The task that handles an event has these to put.
Lag ==
  IF cpu = "none" \/ ~Heads(cpu, Puts) THEN 0 ELSE IF Head(todo[cpu]) = "third" THEN 2 ELSE 1

\* While no put has waited, only the task that has the processor has events to
\* handle or messages to put.
Prompt ==
  /\ \A t \in Tasks : t # cpu => todo[t] = <<>> \/ Heads(t, LockOps)
  /\ events # <<>> => cpu # "none" /\ Heads(cpu, Puts \cup {"next"})
Whole ==
  /\ Untaken <= sent /\ (Untaken = 0 => Len(events) <= 1)
  /\ \A i \in 1 .. Untaken : events[i] = Script[sent - Untaken + i]
  /\ Len(put) + Lag = Made(sent - Untaken)
  /\ cpu # "none" /\ Heads(cpu, Puts) => Head(todo[cpu]) = AllPuts[Len(put) + 1]
OrderInv ==
  /\ ~full => Len(put) <= 4 /\ \A i \in 1 .. Len(put) : put[i] = AllPuts[i]
  /\ ~full /\ server # "crashed" => Prompt /\ Whole
DeliverInv == ViewInv /\ ComingInv /\ StreamInv /\ OrderInv

----------------------------------------------------------------------------
(* What a task has to do.                                                  *)

USE DEF Puts

LEMMA TaskFacts ==
  /\ Timers \subseteq Tasks /\ "server" \in Tasks /\ "app" \in Tasks /\ "none" \notin Tasks
  /\ "server" \notin Timers /\ "app" \notin Timers /\ "none" \notin Timers
BY QuicAssumption DEF Tasks

LEMMA ProgramEmpty == \A t : Program(t, <<>>)
BY DEF Program

\* The rest of a task's operations.
LEMMA ProgramTail ==
  ASSUME NEW t, NEW q, Program(t, q), q # <<>>
  PROVE  /\ Program(t, Tail(q))
         /\ Tail(q) # <<>> => Head(Tail(q)) \in After(Head(q))
         /\ Head(q) \in Puts => Tail(q) # <<>>
         /\ \A op : Within(op, Tail(q)) => Within(op, q)
<1> DEFINE r == Tail(q)
<1>1. q \in Seq(Ops) /\ Len(q) \in Nat /\ Len(q) > 0 /\ Head(q) = q[1]
  BY EmptySeq DEF Program
<1>2. /\ r \in Seq(Ops) /\ Len(r) = Len(q) - 1
      /\ \A i \in 1 .. Len(r) : r[i] = q[i + 1]
  BY <1>1, HeadTailProperties
<1> HIDE DEF r
<1>3. Program(t, r)
  BY <1>1, <1>2 DEF Program
<1>4. ASSUME r # <<>>
      PROVE  Head(r) \in After(Head(q))
  <2>1. Len(r) > 0 /\ Head(r) = r[1] /\ r[1] = q[2] /\ 1 < Len(q) /\ Len(r) \in Nat
    BY <1>1, <1>2, <1>4, EmptySeq
  <2> QED BY <1>1, <2>1 DEF Program
<1>5. Head(q) \in Puts => r # <<>>
  <2>1. 1 \in 1 .. Len(q) /\ (q[1] \in Puts => 1 < Len(q))
    BY <1>1 DEF Program
  <2> QED BY <2>1, <1>1, <1>2
<1>6. ASSUME NEW op, Within(op, r)
      PROVE  Within(op, q)
  <2>1. PICK i \in 1 .. Len(r) : r[i] = op
    BY <1>6 DEF Within
  <2>2. i + 1 \in 1 .. Len(q) /\ q[i + 1] = op
    BY <2>1, <1>1, <1>2
  <2> QED BY <2>2 DEF Within
<1> QED BY <1>3, <1>4, <1>5, <1>6 DEF r

\* One operation is replaced by others.
LEMMA ProgramInstead ==
  ASSUME NEW t, NEW q, Program(t, q), q # <<>>, NEW more, Program(t, more), more # <<>>,
         After(Head(q)) \subseteq After(more[Len(more)])
  PROVE  /\ Program(t, more \o Tail(q))
         /\ more \o Tail(q) # <<>> /\ Head(more \o Tail(q)) = Head(more)
         /\ \A op : Within(op, more \o Tail(q)) => Within(op, more) \/ Within(op, q)
<1> DEFINE r == Tail(q)
<1> DEFINE p == more \o r
<1>1. q \in Seq(Ops) /\ Program(t, r) /\ r \in Seq(Ops) /\ Len(r) \in Nat
  BY ProgramTail DEF Program
<1>2. more \in Seq(Ops) /\ Len(more) \in Nat /\ Len(more) > 0 /\ Head(more) = more[1]
  BY EmptySeq DEF Program
<1>3. r # <<>> => r[1] \in After(Head(q)) /\ r[1] = Head(r)
  BY ProgramTail, <1>1
<1> HIDE DEF r
<1>4. /\ p \in Seq(Ops) /\ Len(p) = Len(more) + Len(r)
      /\ \A i \in 1 .. Len(more) + Len(r) : p[i] = IF i <= Len(more) THEN more[i] ELSE r[i - Len(more)]
  BY <1>1, <1>2, ConcatProperties
<1> HIDE DEF p
<1>5. p # <<>> /\ Head(p) = more[1]
  BY <1>2, <1>1, <1>4
<1>6. ASSUME NEW i \in 1 .. Len(p)
      PROVE  /\ p[i] \in OpsOf(t)
             /\ i < Len(p) => p[i + 1] \in After(p[i])
             /\ p[i] \in Puts => i < Len(p)
  <2>1. CASE i < Len(more)
    <3>1. p[i] = more[i] /\ p[i + 1] = more[i + 1] /\ i \in 1 .. Len(more) /\ i < Len(p)
      BY <2>1, <1>2, <1>1, <1>4
    <3> QED BY <3>1, <2>1 DEF Program
  <2>2. CASE i = Len(more)
    <3>1. p[i] = more[i] /\ i \in 1 .. Len(more) /\ p[i] \in OpsOf(t) /\ p[i] \notin Puts
      BY <2>2, <1>2, <1>1, <1>4 DEF Program
    <3>2. ASSUME i < Len(p)
          PROVE  p[i + 1] \in After(p[i])
      <4>1. p[i + 1] = r[1] /\ r # <<>>
        BY <3>2, <2>2, <1>2, <1>1, <1>4
      <4> QED BY <4>1, <3>1, <2>2, <1>3
    <3> QED BY <3>1, <3>2
  <2>3. CASE i > Len(more)
    <3> DEFINE j == i - Len(more)
    <3>1. j \in 1 .. Len(r) /\ p[i] = r[j] /\ (i < Len(p) => j < Len(r) /\ p[i + 1] = r[j + 1])
          /\ (j < Len(r) => i < Len(p))
      BY <2>3, <1>2, <1>1, <1>4
    <3> HIDE DEF j
    <3> QED BY <3>1, <1>1 DEF Program
  <2> QED BY <2>1, <2>2, <2>3, <1>2
<1>7. Program(t, p)
  BY <1>4, <1>6 DEF Program
<1>8. ASSUME NEW op, Within(op, p)
      PROVE  Within(op, more) \/ Within(op, q)
  <2>1. PICK i \in 1 .. Len(p) : p[i] = op
    BY <1>8 DEF Within
  <2>2. CASE i <= Len(more)
    <3>1. i \in 1 .. Len(more) /\ more[i] = op
      BY <2>1, <2>2, <1>4, <1>1, <1>2
    <3> QED BY <3>1 DEF Within
  <2>3. CASE i > Len(more)
    <3>1. i - Len(more) \in 1 .. Len(r) /\ r[i - Len(more)] = op
      BY <2>1, <2>3, <1>4, <1>1, <1>2
    <3>2. Within(op, r)
      BY <3>1 DEF Within
    <3> QED BY <3>2, ProgramTail DEF r
  <2> QED BY <2>2, <2>3, <1>2, <1>4
<1> QED BY <1>5, <1>7, <1>8, <1>2 DEF p, r

\* The operations that one step begins with, or adds.
LEMMA Ones ==
  ASSUME NEW t, NEW op \in Ops \ (Puts \cup {"loop", "pop"})
  PROVE  Program(t, <<op>>) /\ <<op>> # <<>> /\ Head(<<op>>) = op /\ <<op>>[Len(<<op>>)] = op
         /\ ~Within("pop", <<op>>)
<1>1. Len(<<op>>) = 1 /\ <<op>>[1] = op /\ <<op>> \in Seq(Ops) /\ op \in OpsOf(t)
  BY DEF OpsOf
<1> QED BY <1>1 DEF Program, Within

LEMMA Begun ==
  /\ Program("server", <<"next", "loop">>) /\ Program("server", <<"loop">>)
  /\ Program("app", <<"send", "pop">>)
  /\ Head(<<"next", "loop">>) = "next" /\ Head(<<"send", "pop">>) = "send"
  /\ <<"next", "loop">> # <<>> /\ <<"send", "pop">> # <<>>
<1>1. /\ Len(<<"next", "loop">>) = 2 /\ <<"next", "loop">>[1] = "next"
      /\ <<"next", "loop">>[2] = "loop" /\ <<"next", "loop">> \in Seq(Ops)
  BY DEF Ops
<1>2. /\ Len(<<"send", "pop">>) = 2 /\ <<"send", "pop">>[1] = "send"
      /\ <<"send", "pop">>[2] = "pop" /\ <<"send", "pop">> \in Seq(Ops)
  BY DEF Ops
<1>3. Len(<<"loop">>) = 1 /\ <<"loop">>[1] = "loop" /\ <<"loop">> \in Seq(Ops)
  BY DEF Ops
<1>4. After("next") = {"loop"} /\ After("send") = {"loop", "pop"}
  BY DEF After
<1>5. /\ {"next", "loop"} \subseteq OpsOf("server") /\ {"send", "pop"} \subseteq OpsOf("app")
  BY DEF OpsOf, Ops
<1>6. Program("server", <<"next", "loop">>)
  BY <1>1, <1>4, <1>5 DEF Program
<1>7. Program("app", <<"send", "pop">>)
  BY <1>2, <1>4, <1>5 DEF Program
<1>8. Program("server", <<"loop">>)
  BY <1>3, <1>5 DEF Program
<1> QED BY <1>6, <1>7, <1>8, <1>1, <1>2

LEMMA AllHandled ==
  ASSUME NEW t, NEW ops,
         ops \in {<<>>, <<"stop", "forget">>, LastData} \cup {<<op>> : op \in {"first", "second"}}
  PROVE  /\ Program(t, Handling(ops)) /\ Handling(ops) # <<>>
         /\ Handling(ops)[Len(Handling(ops))] = "next"
         /\ Head(Handling(ops)) = IF ops = <<>> THEN "next" ELSE Head(ops)
         /\ ~Within("pop", Handling(ops))
<1> DEFINE p == Handling(ops)
<1>1. /\ ops \in Seq(Ops) /\ Len(ops) \in 0 .. 2
      /\ \A i \in 1 .. Len(ops) : ops[i] \in OpsOf(t)
      /\ Len(ops) = 2 => /\ <<ops[1], ops[2]>> \in {<<"stop", "forget">>, <<"third", "end">>}
      /\ Len(ops) = 1 => ops[1] \in {"first", "second"}
      /\ Len(ops) > 0 => Head(ops) = ops[1] /\ ops # <<>>
      /\ Len(ops) = 0 => ops = <<>>
  <2>1. CASE ops = <<>>
    BY <2>1
  <2>2. CASE ops = <<"stop", "forget">>
    BY <2>2 DEF Ops, OpsOf
  <2>3. CASE ops = <<"third", "end">>
    BY <2>3 DEF Ops, OpsOf
  <2>4. CASE ops = <<"first">>
    BY <2>4 DEF Ops, OpsOf
  <2>5. CASE ops = <<"second">>
    BY <2>5 DEF Ops, OpsOf
  <2> QED BY <2>1, <2>2, <2>3, <2>4, <2>5 DEF LastData
<1>2. <<"next">> \in Seq(Ops) /\ Len(<<"next">>) = 1 /\ <<"next">>[1] = "next"
  BY DEF Ops
<1>3. /\ p \in Seq(Ops) /\ Len(p) = Len(ops) + 1
      /\ \A i \in 1 .. Len(ops) + 1 : p[i] = IF i <= Len(ops) THEN ops[i] ELSE <<"next">>[i - Len(ops)]
  <2>1. Len(ops) + Len(<<"next">>) = Len(ops) + 1
    BY <1>2
  <2> QED BY <1>1, <1>2, <2>1, ConcatProperties DEF Handling
<1> HIDE DEF p
<1>4. p[Len(ops) + 1] = "next" /\ \A i \in 1 .. Len(ops) : p[i] = ops[i]
  BY <1>1, <1>2, <1>3
<1>5. p # <<>> /\ Head(p) = p[1]
  BY <1>1, <1>3
<1>6. "next" \in OpsOf(t)
  BY DEF OpsOf, Ops
<1>7. ASSUME NEW i \in 1 .. Len(p)
      PROVE  /\ p[i] \in OpsOf(t)
             /\ i < Len(p) => p[i + 1] \in After(p[i])
             /\ p[i] \in Puts => i < Len(p)
  <2>1. CASE Len(ops) = 0
    BY <2>1, <1>1, <1>3, <1>4, <1>6
  <2>2. CASE Len(ops) = 1
    BY <2>2, <1>1, <1>3, <1>4, <1>6 DEF After
  <2>3. CASE Len(ops) = 2
    BY <2>3, <1>1, <1>3, <1>4, <1>6 DEF After
  <2> QED BY <2>1, <2>2, <2>3, <1>1
<1>8. Program(t, p)
  BY <1>3, <1>7 DEF Program
<1>9. \A i \in 1 .. Len(p) : p[i] # "pop"
  <2>1. \A i \in 1 .. Len(ops) : ops[i] # "pop"
    <3>1. Len(ops) = 2 => ops[1] # "pop" /\ ops[2] # "pop"
      BY <1>1
    <3>2. Len(ops) = 1 => ops[1] # "pop"
      BY <1>1
    <3> QED BY <3>1, <3>2, <1>1
  <2> QED BY <2>1, <1>1, <1>3, <1>4
<1> QED BY <1>8, <1>9, <1>5, <1>4, <1>3, <1>1 DEF p, Within

\* A task goes on with other operations, or with its next one.
LEMMA GoesOn ==
  ASSUME TodoInv, NEW t \in Tasks, todo[t] # <<>>, NEW more, Program(t, more), more # <<>>,
         After(Head(todo[t])) \subseteq After(more[Len(more)]),
         todo' = [todo EXCEPT ![t] = more \o Tail(@)]
  PROVE  /\ TodoInv' /\ \A s \in Tasks : s # t => todo'[s] = todo[s]
         /\ todo'[t] # <<>> /\ Head(todo'[t]) = Head(more)
         /\ ~Within("pop", more) /\ Within("pop", todo'[t]) => Within("pop", todo[t])
<1> DEFINE p == more \o Tail(todo[t])
<1>1. /\ Program(t, p) /\ p # <<>> /\ Head(p) = Head(more)
      /\ Within("pop", p) => Within("pop", more) \/ Within("pop", todo[t])
  BY ProgramInstead DEF TodoInv
<1>2. DOMAIN todo = Tasks /\ p \in Seq(Ops)
  BY <1>1 DEF TodoInv, Program
<1>3. todo'[t] = p /\ \A s \in Tasks : s # t => todo'[s] = todo[s]
  BY <1>2
<1> HIDE DEF p
<1>4. todo' \in [Tasks -> Seq(Ops)]
  BY <1>2, <1>3 DEF TodoInv, p
<1>5. \A s \in Tasks : Program(s, todo'[s])
  BY <1>1, <1>3 DEF TodoInv
<1> QED BY <1>1, <1>3, <1>4, <1>5 DEF TodoInv

LEMMA Drops ==
  ASSUME TodoInv, NEW t \in Tasks, todo[t] # <<>>, todo' = [todo EXCEPT ![t] = Tail(@)]
  PROVE  /\ TodoInv' /\ \A s \in Tasks : s # t => todo'[s] = todo[s]
         /\ todo'[t] # <<>> => Head(todo'[t]) \in After(Head(todo[t]))
         /\ todo'[t] = Tail(todo[t])
         /\ Head(todo[t]) \in Puts => todo'[t] # <<>>
         /\ Within("pop", todo'[t]) => Within("pop", todo[t])
<1> DEFINE p == Tail(todo[t])
<1>1. /\ Program(t, p) /\ (p # <<>> => Head(p) \in After(Head(todo[t])))
      /\ (Head(todo[t]) \in Puts => p # <<>>) /\ (Within("pop", p) => Within("pop", todo[t]))
  BY ProgramTail DEF TodoInv
<1>2. DOMAIN todo = Tasks /\ p \in Seq(Ops)
  BY <1>1 DEF TodoInv, Program
<1>3. todo'[t] = p /\ \A s \in Tasks : s # t => todo'[s] = todo[s]
  BY <1>2
<1> HIDE DEF p
<1>4. todo' \in [Tasks -> Seq(Ops)]
  BY <1>2, <1>3 DEF TodoInv, p
<1>5. \A s \in Tasks : Program(s, todo'[s])
  BY <1>1, <1>3 DEF TodoInv
<1> QED BY <1>1, <1>3, <1>4, <1>5 DEF TodoInv, p

LEMMA GoesOff ==
  ASSUME TodoInv, NEW t \in Tasks, todo[t] # <<>>, Goes(t, <<>>)
  PROVE  /\ TodoInv' /\ \A s \in Tasks : s # t => todo'[s] = todo[s]
         /\ todo'[t] # <<>> => Head(todo'[t]) \in After(Head(todo[t]))
         /\ todo'[t] = Tail(todo[t])
         /\ Head(todo[t]) \in Puts => todo'[t] # <<>>
         /\ Within("pop", todo'[t]) => Within("pop", todo[t])
<1>1. Tail(todo[t]) \in Seq(Ops) /\ DOMAIN todo = Tasks
  BY ProgramTail DEF TodoInv, Program
<1>2. <<>> \o Tail(todo[t]) = Tail(todo[t])
  BY <1>1, ConcatEmptySeq
<1>3. todo' = [todo EXCEPT ![t] = Tail(@)]
  BY <1>1, <1>2 DEF Goes
<1> QED BY <1>3, Drops

LEMMA Begins ==
  ASSUME TodoInv, NEW t \in Tasks, NEW ops, Program(t, ops), Begin(t, ops)
  PROVE  /\ TodoInv' /\ todo'[t] = ops /\ \A s \in Tasks : s # t => todo'[s] = todo[s]
<1>1. todo' = [todo EXCEPT ![t] = ops] /\ DOMAIN todo = Tasks /\ ops \in Seq(Ops)
  BY DEF Begin, TodoInv, Program
<1>2. todo'[t] = ops /\ \A s \in Tasks : s # t => todo'[s] = todo[s]
  BY <1>1
<1>3. todo' \in [Tasks -> Seq(Ops)]
  BY <1>1, <1>2 DEF TodoInv
<1>4. \A s \in Tasks : Program(s, todo'[s])
  BY <1>2 DEF TodoInv
<1> QED BY <1>2, <1>3, <1>4 DEF TodoInv

LEMMA TodoSame ==
  ASSUME TodoInv, UNCHANGED todo
  PROVE  TodoInv'
BY DEF TodoInv

----------------------------------------------------------------------------
(* The task that has the processor.                                        *)

LEMMA HeadOp ==
  ASSUME TodoInv, NEW t \in Tasks, todo[t] # <<>>
  PROVE  Head(todo[t]) \in OpsOf(t)
<1>1. todo[t] \in Seq(Ops) /\ Program(t, todo[t])
  BY DEF TodoInv
<1>2. Len(todo[t]) \in Nat /\ Len(todo[t]) > 0 /\ Head(todo[t]) = todo[t][1]
  BY <1>1, EmptySeq
<1> QED BY <1>1, <1>2 DEF Program

\* It waits for nothing, and a timer is awake.
LEMMA Running ==
  ASSUME ViewInv, NEW t \in Tasks, cpu = t
  PROVE  /\ wait[t] = "no" /\ server # "crashed" /\ (t \in Timers => timer[t] = "awake")
         /\ todo[t] \in Seq(Ops)
<1>1. cpu # "none"
  BY TaskFacts
<1> QED BY <1>1 DEF ViewInv, TypeOK, WaitInv, TimerInv, Resting, TodoInv

\* The holder of the lock is the one at its head.
LEMMA Locked ==
  ASSUME ViewInv, NEW i \in 1 .. Len(lock)
  PROVE  /\ lock[i] \in Tasks /\ Heads(lock[i], LockOps)
         /\ i > 1 => wait[lock[i]] = "lock" /\ cpu # lock[i]
         /\ i = 1 => Head(lock) = lock[i]
<1>1. lock \in Seq(Tasks) /\ Len(lock) \in Nat /\ lock[i] \in Tasks /\ lock[i] # "none"
  BY TaskFacts, ElementOfSeq DEF ViewInv, TypeOK
<1>2. Heads(lock[i], LockOps) /\ (i > 1 => wait[lock[i]] = "lock")
  BY DEF ViewInv, LockInv
<1>3. i > 1 => cpu # lock[i]
  BY <1>1, <1>2 DEF ViewInv, TypeOK
<1>4. i = 1 => Head(lock) = lock[i]
  BY <1>1
<1> QED BY <1>1, <1>2, <1>3, <1>4

\* It does something for which it does not need the lock, and goes on.
LEMMA Moves ==
  ASSUME ViewInv, NEW t \in Tasks, cpu = t, todo[t] # <<>>, Head(todo[t]) \notin LockOps,
         TodoInv', \A s \in Tasks : s # t => todo'[s] = todo[s],
         todo'[t] # <<>> => Head(todo'[t]) \notin {"arm", "disarm"},
         UNCHANGED <<timerVars, cpu, wait, full>>, server' # "crashed"
  PROVE  WaitInv' /\ LockInv' /\ Sleepers' /\ Resting' /\ Alive' /\ Holding'
<1> USE DEF timerVars
<1>0. wait[t] = "no" /\ server # "crashed" /\ (t \in Timers => timer[t] = "awake") /\ t # "none"
  BY Running, TaskFacts
<1>1. WaitInv'
  BY <1>0 DEF ViewInv, WaitInv, Heads
<1>2. LockInv'
  <2> SUFFICES ASSUME NEW i \in 1 .. Len(lock)
               PROVE  (Heads(lock[i], LockOps) /\ (i > 1 => wait[lock[i]] = "lock"))'
    BY DEF LockInv
  <2>1. lock[i] \in Tasks /\ Heads(lock[i], LockOps) /\ (i > 1 => wait[lock[i]] = "lock")
    BY Locked
  <2>2. lock[i] # t
    BY <2>1 DEF Heads
  <2> QED BY <2>1, <2>2 DEF Heads
<1>3. Sleepers' /\ Alive'
  BY <1>0 DEF ViewInv, TimerInv, Sleepers, Alive
<1>4. Resting'
  BY <1>0, TaskFacts DEF ViewInv, TimerInv, Resting
<1>5. Holding'
  BY DEF ViewInv, TimerInv, Holding, Heads
<1> QED BY <1>1, <1>2, <1>3, <1>4, <1>5

\* A timer that has been replaced does nothing but end the connection.
ReplacedBy(t) ==
  t \in Timers /\ t # handle =>
    quic = "done" /\ events = <<>> /\ Head(todo[t]) \in {"forget", "next", "send"}

LEMMA WasReplaced ==
  ASSUME ViewInv, NEW t \in Tasks, cpu = t, todo[t] # <<>>
  PROVE  ReplacedBy(t)
BY DEF ViewInv, TimerInv, Replaced, ReplacedBy, Heads

LEMMA NoneAfter ==
  ASSUME TodoInv', NEW n \in Timers,
         todo'[n] # <<>> => Head(todo'[n]) \in {"loop", "pop"}
  PROVE  todo'[n] = <<>>
<1>1. n \in Tasks /\ n # "app" /\ n # "server"
  BY TaskFacts
<1>2. Program(n, todo'[n]) /\ todo'[n] \in Seq(Ops)
  BY <1>1 DEF TodoInv
<1>3. ASSUME todo'[n] # <<>>
      PROVE  Head(todo'[n]) \in OpsOf(n)
  <2>1. Len(todo'[n]) \in Nat /\ Len(todo'[n]) > 0 /\ Head(todo'[n]) = todo'[n][1]
    BY <1>2, <1>3, EmptySeq
  <2> QED BY <1>2, <2>1 DEF Program
<1> QED BY <1>1, <1>3 DEF OpsOf

\* What has ended stays so.
StaysEnded == quic = "done" /\ events = <<>> => quic' = "done" /\ events' = <<>>

LEMMA ClosingStays ==
  ASSUME ViewInv, NEW t \in Tasks, \A s \in Tasks : s # t => todo'[s] = todo[s], StaysEnded,
         todo'[t] # <<>> /\ Head(todo'[t]) \in {"stop", "disarm", "forget"} =>
           quic' = "done" /\ events' = <<>>
  PROVE  Closing'
BY DEF ViewInv, EndInv, Closing, Heads, StaysEnded

LEMMA SendAllTodo ==
  ASSUME ViewInv, NEW t \in Tasks, SendAll(t)
  PROVE  /\ cpu = t /\ todo[t] # <<>> /\ Head(todo[t]) = "send" /\ UNCHANGED cpu
         /\ TodoInv' /\ \A s \in Tasks : s # t => todo'[s] = todo[s]
         /\ todo'[t] # <<>> => IF quic = "done" THEN Head(todo'[t]) \in {"loop", "pop"}
                               ELSE Head(todo'[t]) = "restart"
         /\ Within("pop", todo'[t]) => Within("pop", todo[t])
<1>1. cpu = t /\ todo[t] # <<>> /\ Head(todo[t]) = "send" /\ UNCHANGED cpu /\ TodoInv
  BY DEF SendAll, Does, Goes, ViewInv
<1>2. CASE quic = "done"
  <2>1. Goes(t, <<>>)
    BY <1>2 DEF SendAll, SetTimer
  <2>2. After("send") = {"loop", "pop"}
    BY DEF After
  <2> QED BY <2>1, <2>2, <1>1, <1>2, GoesOff
<1>3. CASE quic # "done"
  <2>1. todo' = [todo EXCEPT ![t] = <<"restart">> \o Tail(@)]
    BY <1>3 DEF SendAll, Goes, SetTimer
  <2>2. After("send") \subseteq After("restart") /\ "restart" \in Ops \ (Puts \cup {"loop", "pop"})
    BY DEF After, Ops
  <2>3. /\ Program(t, <<"restart">>) /\ <<"restart">> # <<>> /\ Head(<<"restart">>) = "restart"
        /\ <<"restart">>[Len(<<"restart">>)] = "restart" /\ ~Within("pop", <<"restart">>)
    BY <2>2, Ones
  <2>4. After(Head(todo[t])) \subseteq After(<<"restart">>[Len(<<"restart">>)])
    BY <1>1, <2>2, <2>3
  <2> HIDE DEF Puts
  <2> QED BY <2>1, <2>3, <2>4, <1>1, <1>3, GoesOn
<1> QED BY <1>2, <1>3

LEMMA SendAllStep ==
  ASSUME ViewInv, NEW t \in Tasks, SendAll(t)
  PROVE  ViewInv'
<1> USE DEF quicVars, connVars, queueVars, roleVars, timerVars
<1>1. cpu = t /\ todo[t] # <<>> /\ Head(todo[t]) = "send" /\ UNCHANGED cpu /\ TodoInv
  BY DEF SendAll, Does, Goes, ViewInv
<1>2. ReplacedBy(t) /\ server # "crashed" /\ t # "none"
  BY <1>1, WasReplaced, Running, TaskFacts
<1>3. /\ TodoInv' /\ \A s \in Tasks : s # t => todo'[s] = todo[s]
      /\ todo'[t] # <<>> => IF quic = "done" THEN Head(todo'[t]) \in {"loop", "pop"}
                            ELSE Head(todo'[t]) = "restart"
  BY SendAllTodo
<1>4. UNCHANGED <<quicVars, connVars, timerVars, wait, queueVars, roleVars>>
  BY DEF SendAll
<1>5. WaitInv' /\ LockInv' /\ Sleepers' /\ Resting' /\ Alive' /\ Holding'
  BY <1>1, <1>2, <1>3, <1>4, Moves DEF LockOps
<1>6. Replaced'
  <2>1. t \in Timers /\ t # handle => todo'[t] = <<>>
    BY <1>2, <1>3, NoneAfter DEF ReplacedBy
  <2> QED BY <1>1, <1>4, <2>1 DEF Replaced
<1>7. Closing'
  BY <1>3, <1>4, ClosingStays DEF StaysEnded
<1>8. TypeOK'
  BY <1>1, <1>3, <1>4, <1>5 DEF ViewInv, TypeOK, WaitInv, Heads
<1> QED BY <1>3, <1>4, <1>5, <1>6, <1>7, <1>8 DEF ViewInv, TimerInv, EndInv, CidsAgree, LastEvent

LEMMA EventTaken ==
  ASSUME ViewInv, events # <<>>, events' = Tail(events), UNCHANGED quic
  PROVE  /\ events' \in Seq(Events) /\ LastEvent' /\ Head(events) \in Events
         /\ Head(events) = "terminated" => quic = "done" /\ events' = <<>>
<1>1. events \in Seq(Events)
  BY DEF ViewInv, TypeOK
<1>2. /\ Len(events) \in Nat /\ Len(events) > 0 /\ Head(events) = events[1]
      /\ Head(events) \in Events
      /\ events' \in Seq(Events) /\ Len(events') = Len(events) - 1
      /\ \A i \in 1 .. Len(events') : events'[i] = events[i + 1]
  BY <1>1, EmptySeq, HeadTailProperties
<1>0. \A i \in 1 .. Len(events) : events[i] = "terminated" => quic = "done" /\ i = Len(events)
  BY DEF ViewInv, EndInv, LastEvent
<1>3. LastEvent'
  <2>1. ASSUME NEW i \in 1 .. Len(events'), events'[i] = "terminated"
        PROVE  quic' = "done" /\ i = Len(events')
    <3>1. i + 1 \in 1 .. Len(events) /\ events[i + 1] = "terminated"
      BY <1>2, <2>1
    <3>2. quic = "done" /\ i + 1 = Len(events)
      BY <3>1, <1>0
    <3> QED BY <3>2, <1>2
  <2> QED BY <2>1 DEF LastEvent
<1>4. ASSUME Head(events) = "terminated"
      PROVE  quic = "done" /\ events' = <<>>
  <2>1. events[1] = "terminated" /\ 1 \in 1 .. Len(events)
    BY <1>2, <1>4
  <2>3. quic = "done" /\ Len(events) = 1
    BY <1>0, <2>1
  <2>2. Len(events') = 0
    BY <2>3, <1>2
  <2> QED BY <2>3, <2>2, <1>2, EmptySeq
<1> QED BY <1>2, <1>3, <1>4

LEMMA TakeEventTodo ==
  ASSUME ViewInv, NEW t \in Tasks, TakeEvent(t)
  PROVE  /\ cpu = t /\ todo[t] # <<>> /\ Head(todo[t]) = "next" /\ UNCHANGED cpu
         /\ TodoInv' /\ \A s \in Tasks : s # t => todo'[s] = todo[s]
         /\ todo'[t] # <<>>
         /\ Head(todo'[t]) = IF Head(events) = "terminated" THEN "stop" ELSE "next"
         /\ Within("pop", todo'[t]) => Within("pop", todo[t])
<1>1. cpu = t /\ todo[t] # <<>> /\ Head(todo[t]) = "next" /\ UNCHANGED cpu /\ TodoInv
  BY DEF TakeEvent, Does, Goes, ViewInv
<1>2. PICK ops \in {<<>>, <<"stop", "forget">>} :
        /\ Goes(t, Handling(ops))
        /\ IF ops = <<>> THEN Head(events) # "terminated" ELSE Head(events) = "terminated"
  <2>1. <<"stop", "forget">> # <<>>
    OBVIOUS
  <2> QED BY <2>1 DEF TakeEvent
<1>3. /\ Program(t, Handling(ops)) /\ Handling(ops) # <<>>
      /\ Handling(ops)[Len(Handling(ops))] = "next"
      /\ Head(Handling(ops)) = IF ops = <<>> THEN "next" ELSE "stop"
      /\ ~Within("pop", Handling(ops))
  BY AllHandled
<1>4. todo' = [todo EXCEPT ![t] = Handling(ops) \o Tail(@)]
  BY <1>2 DEF Goes
<1>5. After(Head(todo[t])) \subseteq After(Handling(ops)[Len(Handling(ops))])
  BY <1>1, <1>3
<1> QED BY <1>1, <1>2, <1>3, <1>4, <1>5, GoesOn

LEMMA TakeEventStep ==
  ASSUME ViewInv, NEW t \in Tasks, TakeEvent(t)
  PROVE  ViewInv'
<1> USE DEF queueVars, roleVars, timerVars
<1>1. /\ cpu = t /\ todo[t] # <<>> /\ Head(todo[t]) = "next" /\ UNCHANGED cpu /\ TodoInv
      /\ events # <<>> /\ events' = Tail(events)
      /\ UNCHANGED <<quic, sent, stream, timerVars, wait, queueVars, roleVars>>
  BY DEF TakeEvent, Does, Goes, ViewInv
<1>2. ReplacedBy(t) /\ server # "crashed" /\ t # "none"
  BY <1>1, WasReplaced, Running, TaskFacts
<1>5. /\ TodoInv' /\ \A s \in Tasks : s # t => todo'[s] = todo[s]
      /\ todo'[t] # <<>>
      /\ Head(todo'[t]) = IF Head(events) = "terminated" THEN "stop" ELSE "next"
  BY TakeEventTodo
<1>6. /\ events' \in Seq(Events) /\ LastEvent'
      /\ Head(events) = "terminated" => quic = "done" /\ events' = <<>>
  BY <1>1, EventTaken
<1>7. WaitInv' /\ LockInv' /\ Sleepers' /\ Resting' /\ Alive' /\ Holding'
  BY <1>1, <1>2, <1>5, Moves DEF LockOps
<1>8. Replaced'
  <2>1. t \in Timers => t = handle
    BY <1>1, <1>2 DEF ReplacedBy
  <2> QED BY <1>1, <2>1 DEF Replaced
<1>9. Closing'
  BY <1>1, <1>5, <1>6, ClosingStays DEF StaysEnded
<1>10. /\ table' = cids' /\ cids' \subseteq Cids /\ h3' \in BOOLEAN
  BY DEF TakeEvent, ViewInv, CidsAgree, TypeOK, Cids, RetiredCids
<1>11. TypeOK'
  BY <1>1, <1>5, <1>6, <1>7, <1>10 DEF ViewInv, TypeOK, WaitInv, Heads
<1> QED BY <1>5, <1>6, <1>7, <1>8, <1>9, <1>10, <1>11 DEF ViewInv, TimerInv, EndInv, CidsAgree

LEMMA TakeH3EventTodo ==
  ASSUME ViewInv, NEW t \in Tasks, TakeH3Event(t)
  PROVE  /\ cpu = t /\ todo[t] # <<>> /\ Head(todo[t]) = "next" /\ UNCHANGED cpu
         /\ TodoInv' /\ \A s \in Tasks : s # t => todo'[s] = todo[s]
         /\ todo'[t] # <<>>
         /\ Head(todo'[t]) = CASE Head(events) = "headers" -> "next"
                                [] Head(events) = "last" -> "third"
                                [] Head(events) \in {"first", "second"} -> Head(events)
         /\ Head(events) \in {"headers", "first", "second", "last"}
         /\ Within("pop", todo'[t]) => Within("pop", todo[t])
<1>1. cpu = t /\ todo[t] # <<>> /\ Head(todo[t]) = "next" /\ UNCHANGED cpu /\ TodoInv
  BY DEF TakeH3Event, Does, Goes, ViewInv
<1>2. PICK ops \in {<<>>, LastData} \cup {<<op>> : op \in {"first", "second"}} :
        /\ Goes(t, Handling(ops))
        /\ \/ Head(events) = "headers" /\ ops = <<>>
           \/ Head(events) \in {"first", "second"} /\ ops = <<Head(events)>>
           \/ Head(events) = "last" /\ ops = LastData
  BY DEF TakeH3Event
<1>3. ops # <<>> => Head(ops) = IF Head(events) = "last" THEN "third" ELSE Head(events)
  BY <1>2 DEF LastData
<1>4. ops = <<>> <=> Head(events) = "headers"
  BY <1>2 DEF LastData
<1>5. /\ Program(t, Handling(ops)) /\ Handling(ops) # <<>>
      /\ Handling(ops)[Len(Handling(ops))] = "next"
      /\ Head(Handling(ops)) = IF ops = <<>> THEN "next" ELSE Head(ops)
      /\ ~Within("pop", Handling(ops))
  BY AllHandled
<1>6. todo' = [todo EXCEPT ![t] = Handling(ops) \o Tail(@)]
  BY <1>2 DEF Goes
<1>7. After(Head(todo[t])) \subseteq After(Handling(ops)[Len(Handling(ops))])
  BY <1>1, <1>5
<1>8. /\ TodoInv' /\ \A s \in Tasks : s # t => todo'[s] = todo[s]
      /\ todo'[t] # <<>> /\ Head(todo'[t]) = Head(Handling(ops))
      /\ Within("pop", todo'[t]) => Within("pop", todo[t])
  BY <1>1, <1>5, <1>6, <1>7, GoesOn
<1>9. Head(events) \in {"headers", "first", "second", "last"}
  BY <1>2
<1> QED BY <1>1, <1>3, <1>4, <1>5, <1>8, <1>9

LEMMA TakeH3EventStep ==
  ASSUME ViewInv, NEW t \in Tasks, TakeH3Event(t)
  PROVE  ViewInv'
<1> USE DEF queueVars, roleVars, timerVars
<1>1. /\ cpu = t /\ todo[t] # <<>> /\ Head(todo[t]) = "next" /\ UNCHANGED cpu /\ TodoInv
      /\ events # <<>> /\ events' = Tail(events)
      /\ UNCHANGED <<quic, sent, table, cids, h3, timerVars, wait, queueVars, server, terminated>>
  BY DEF TakeH3Event, Does, Goes, ViewInv
<1>2. ReplacedBy(t) /\ server # "crashed" /\ t # "none"
  BY <1>1, WasReplaced, Running, TaskFacts
<1>6. /\ TodoInv' /\ \A s \in Tasks : s # t => todo'[s] = todo[s]
      /\ todo'[t] # <<>> /\ Head(todo'[t]) \in Puts \cup {"next"}
  BY TakeH3EventTodo
<1>7. events' \in Seq(Events) /\ LastEvent'
  BY <1>1, EventTaken
<1>8. WaitInv' /\ LockInv' /\ Sleepers' /\ Resting' /\ Alive' /\ Holding'
  BY <1>1, <1>2, <1>6, Moves DEF LockOps
<1>9. Replaced'
  <2>1. t \in Timers => t = handle
    BY <1>1, <1>2 DEF ReplacedBy
  <2> QED BY <1>1, <2>1 DEF Replaced
<1>10. Closing'
  BY <1>1, <1>6, ClosingStays DEF StaysEnded
<1>11. stream' \in BOOLEAN /\ app' \in {"none", "running", "done"} /\ refused' \in BOOLEAN
  BY DEF TakeH3Event, ViewInv, TypeOK
<1>12. TypeOK'
  BY <1>1, <1>6, <1>7, <1>8, <1>11 DEF ViewInv, TypeOK, WaitInv, Heads
<1> QED BY <1>1, <1>6, <1>7, <1>8, <1>9, <1>10, <1>12 DEF ViewInv, TimerInv, EndInv, CidsAgree

LEMMA NoMoreEventsTodo ==
  ASSUME ViewInv, NEW t \in Tasks, NoMoreEvents(t)
  PROVE  /\ cpu = t /\ todo[t] # <<>> /\ Head(todo[t]) = "next" /\ UNCHANGED cpu
         /\ TodoInv' /\ \A s \in Tasks : s # t => todo'[s] = todo[s]
         /\ todo'[t] # <<>> /\ Head(todo'[t]) = "send"
         /\ Within("pop", todo'[t]) => Within("pop", todo[t])
<1>1. /\ cpu = t /\ todo[t] # <<>> /\ Head(todo[t]) = "next" /\ UNCHANGED cpu /\ TodoInv
      /\ todo' = [todo EXCEPT ![t] = <<"send">> \o Tail(@)]
  BY DEF NoMoreEvents, Does, Goes, ViewInv
<1>2. After("next") \subseteq After("send") /\ "send" \in Ops \ (Puts \cup {"loop", "pop"})
  BY DEF After, Ops
<1>3. /\ Program(t, <<"send">>) /\ <<"send">> # <<>> /\ Head(<<"send">>) = "send"
      /\ <<"send">>[Len(<<"send">>)] = "send" /\ ~Within("pop", <<"send">>)
  BY <1>2, Ones
<1>4. After(Head(todo[t])) \subseteq After(<<"send">>[Len(<<"send">>)])
  BY <1>1, <1>2, <1>3
<1> HIDE DEF Puts
<1> QED BY <1>1, <1>3, <1>4, GoesOn

LEMMA NoMoreEventsStep ==
  ASSUME ViewInv, NEW t \in Tasks, NoMoreEvents(t)
  PROVE  ViewInv'
<1> USE DEF quicVars, connVars, queueVars, roleVars, timerVars
<1>1. /\ cpu = t /\ todo[t] # <<>> /\ Head(todo[t]) = "next" /\ UNCHANGED cpu /\ TodoInv
      /\ todo' = [todo EXCEPT ![t] = <<"send">> \o Tail(@)]
      /\ UNCHANGED <<quicVars, connVars, timerVars, wait, queueVars, roleVars>>
  BY DEF NoMoreEvents, Does, Goes, ViewInv
<1>2. ReplacedBy(t) /\ server # "crashed" /\ t # "none"
  BY <1>1, WasReplaced, Running, TaskFacts
<1>3. /\ TodoInv' /\ \A s \in Tasks : s # t => todo'[s] = todo[s]
      /\ todo'[t] # <<>> /\ Head(todo'[t]) = "send"
  BY NoMoreEventsTodo
<1>4. WaitInv' /\ LockInv' /\ Sleepers' /\ Resting' /\ Alive' /\ Holding'
  BY <1>1, <1>2, <1>3, Moves DEF LockOps
<1>5. Replaced'
  BY <1>1, <1>2, <1>3 DEF Replaced, ReplacedBy, Heads
<1>6. Closing'
  BY <1>1, <1>3, ClosingStays DEF StaysEnded
<1>7. TypeOK'
  BY <1>1, <1>3, <1>4 DEF ViewInv, TypeOK, WaitInv, Heads
<1> QED BY <1>1, <1>3, <1>4, <1>5, <1>6, <1>7 DEF ViewInv, TimerInv, EndInv, CidsAgree, LastEvent

LEMMA ForgetTodo ==
  ASSUME ViewInv, NEW t \in Tasks, Forget(t)
  PROVE  /\ cpu = t /\ todo[t] # <<>> /\ Head(todo[t]) = "forget" /\ UNCHANGED cpu
         /\ TodoInv' /\ \A s \in Tasks : s # t => todo'[s] = todo[s]
         /\ todo'[t] # <<>> => Head(todo'[t]) = "next"
         /\ Within("pop", todo'[t]) => Within("pop", todo[t])
<1>1. /\ cpu = t /\ todo[t] # <<>> /\ Head(todo[t]) = "forget" /\ UNCHANGED cpu /\ TodoInv
      /\ Goes(t, <<>>) /\ t \in Tasks
  BY TaskFacts DEF Forget, Does, Goes, ViewInv
<1> QED BY <1>1, GoesOff DEF After

LEMMA ForgetStep ==
  ASSUME ViewInv, NEW t \in Tasks, Forget(t)
  PROVE  ViewInv'
<1> USE DEF quicVars, queueVars, roleVars, timerVars
<1>1. /\ cpu = t /\ todo[t] # <<>> /\ Head(todo[t]) = "forget" /\ UNCHANGED cpu /\ TodoInv
      /\ Goes(t, <<>>) /\ table' = table \ cids /\ cids' = {}
      /\ UNCHANGED <<quicVars, h3, stream, timerVars, wait, queueVars, roleVars>>
  BY DEF Forget, Does, Goes, ViewInv
<1>2. ReplacedBy(t) /\ server # "crashed" /\ t # "none"
  BY <1>1, WasReplaced, Running, TaskFacts
<1>3. /\ TodoInv' /\ \A s \in Tasks : s # t => todo'[s] = todo[s]
      /\ todo'[t] # <<>> => Head(todo'[t]) = "next"
  BY ForgetTodo
<1>4. WaitInv' /\ LockInv' /\ Sleepers' /\ Resting' /\ Alive' /\ Holding'
  BY <1>1, <1>2, <1>3, Moves DEF LockOps
<1>5. Replaced'
  BY <1>1, <1>2, <1>3 DEF Replaced, ReplacedBy, Heads
<1>6. Closing'
  BY <1>1, <1>3, ClosingStays DEF StaysEnded
<1>7. table' = {} /\ cids' = {}
  BY <1>1 DEF ViewInv, CidsAgree
<1>8. TypeOK'
  BY <1>1, <1>3, <1>4, <1>7 DEF ViewInv, TypeOK, WaitInv, Heads
<1> QED BY <1>1, <1>3, <1>4, <1>5, <1>6, <1>7, <1>8 DEF ViewInv, TimerInv, EndInv, CidsAgree, LastEvent

\* The server's loop and the application have only that to do.
LEMMA LoopTodo ==
  ASSUME ViewInv, NEW t, t = "server", Loop
  PROVE  /\ cpu = t /\ todo[t] # <<>> /\ Head(todo[t]) = "loop" /\ UNCHANGED cpu
         /\ TodoInv' /\ \A s \in Tasks : s # t => todo'[s] = todo[s]
         /\ todo'[t] = <<>>
         /\ Within("pop", todo'[t]) => Within("pop", todo[t])
<1>1. /\ cpu = t /\ todo[t] # <<>> /\ Head(todo[t]) = "loop" /\ UNCHANGED cpu /\ TodoInv
      /\ Goes(t, <<>>) /\ t \in Tasks
  BY TaskFacts DEF Loop, Does, Goes, ViewInv
<1> QED BY <1>1, GoesOff DEF After

LEMMA LoopStep ==
  ASSUME ViewInv, Loop
  PROVE  ViewInv'
<1> USE DEF quicVars, connVars, queueVars, timerVars
<1> DEFINE t == "server"
<1>1. /\ cpu = t /\ todo[t] # <<>> /\ Head(todo[t]) = "loop" /\ UNCHANGED cpu /\ TodoInv
      /\ Goes(t, <<>>) /\ server' \in {"ended", server} /\ t \in Tasks /\ t \notin Timers
      /\ UNCHANGED <<quicVars, connVars, timerVars, wait, queueVars, app, terminated, refused>>
  BY TaskFacts DEF Loop, Does, Goes, ViewInv
<1>2. server # "crashed"
  BY <1>1, Running
<1>3. /\ TodoInv' /\ \A s \in Tasks : s # t => todo'[s] = todo[s]
      /\ todo'[t] = <<>>
  BY LoopTodo
<1>4. WaitInv' /\ LockInv' /\ Sleepers' /\ Resting' /\ Alive' /\ Holding'
  BY <1>1, <1>2, <1>3, Moves DEF LockOps
<1>5. Replaced'
  BY <1>1 DEF Replaced
<1>6. Closing'
  BY <1>1, <1>3, ClosingStays DEF StaysEnded
<1>7. TypeOK'
  BY <1>1, <1>2, <1>3, <1>4 DEF ViewInv, TypeOK, WaitInv, Heads
<1> QED BY <1>1, <1>3, <1>4, <1>5, <1>6, <1>7 DEF ViewInv, TimerInv, EndInv, CidsAgree, LastEvent

LEMMA PopTodo ==
  ASSUME ViewInv, NEW t, t = "app", Pop
  PROVE  /\ cpu = t /\ todo[t] # <<>> /\ Head(todo[t]) = "pop" /\ UNCHANGED cpu
         /\ TodoInv' /\ \A s \in Tasks : s # t => todo'[s] = todo[s]
         /\ todo'[t] = <<>>
         /\ Within("pop", todo'[t]) => Within("pop", todo[t])
<1>1. /\ cpu = t /\ todo[t] # <<>> /\ Head(todo[t]) = "pop" /\ UNCHANGED cpu /\ TodoInv
      /\ Goes(t, <<>>) /\ t \in Tasks
  BY TaskFacts DEF Pop, Does, Goes, ViewInv
<1> QED BY <1>1, GoesOff DEF After

LEMMA PopStep ==
  ASSUME ViewInv, Pop
  PROVE  ViewInv'
<1> USE DEF quicVars, queueVars, roleVars, timerVars
<1> DEFINE t == "app"
<1>1. /\ cpu = t /\ todo[t] # <<>> /\ Head(todo[t]) = "pop" /\ UNCHANGED cpu /\ TodoInv
      /\ Goes(t, <<>>) /\ stream' = FALSE /\ t \in Tasks /\ t \notin Timers
      /\ UNCHANGED <<quicVars, table, cids, h3, timerVars, wait, queueVars, roleVars>>
  BY TaskFacts DEF Pop, Does, Goes, ViewInv
<1>2. server # "crashed"
  BY <1>1, Running
<1>3. /\ TodoInv' /\ \A s \in Tasks : s # t => todo'[s] = todo[s]
      /\ todo'[t] = <<>>
  BY PopTodo
<1>4. WaitInv' /\ LockInv' /\ Sleepers' /\ Resting' /\ Alive' /\ Holding'
  BY <1>1, <1>2, <1>3, Moves DEF LockOps
<1>5. Replaced'
  BY <1>1 DEF Replaced
<1>6. Closing'
  BY <1>1, <1>3, ClosingStays DEF StaysEnded
<1>7. TypeOK'
  <2>1. wait[t] = "no"
    BY <1>1, TaskFacts DEF ViewInv, TypeOK
  <2>2. \A s \in Tasks : wait'[s] \in {"no", "tick"} \/ todo'[s] # <<>>
    BY <1>1, <1>3, <2>1 DEF ViewInv, TypeOK
  <2> QED BY <1>1, <2>2 DEF ViewInv, TypeOK
<1> QED BY <1>1, <1>3, <1>4, <1>5, <1>6, <1>7 DEF ViewInv, TimerInv, EndInv, CidsAgree, LastEvent

----------------------------------------------------------------------------
(* A task that has nothing to do begins.                                   *)

LEMMA Starts ==
  ASSUME ViewInv, NEW t \in Tasks, Idle(t), NEW ops, Program(t, ops), ops # <<>>,
         Head(ops) \in {"next", "send", "loop"}, Begin(t, ops),
         UNCHANGED <<handle, lock, wait, full, server>>, StaysEnded,
         \/ t \notin Timers /\ UNCHANGED timer
         \/ t \in Timers /\ timer[t] = "sleeping" /\ timer' = [timer EXCEPT ![t] = "awake"]
  PROVE  TodoInv' /\ WaitInv' /\ LockInv' /\ TimerInv' /\ Closing'
         /\ timer' \in [Timers -> {"dead", "sleeping", "awake"}]
<1>1. /\ TodoInv' /\ todo'[t] = ops /\ \A s \in Tasks : s # t => todo'[s] = todo[s]
  BY Begins DEF ViewInv
<1>2. cpu' = t /\ cpu = "none" /\ todo[t] = <<>> /\ wait[t] = "no" /\ server # "crashed"
  BY DEF Begin, Idle
<1>3. t # "none" /\ Timers \subseteq Tasks
  BY TaskFacts
<1>4. /\ timer \in [Timers -> {"dead", "sleeping", "awake"}] /\ DOMAIN timer = Timers
      /\ \A n \in Timers : n # t => timer'[n] = timer[n]
      /\ t \in Timers => timer'[t] = "awake" /\ t = handle
      /\ timer' \in [Timers -> {"dead", "sleeping", "awake"}]
  BY DEF ViewInv, TypeOK, TimerInv, Sleepers
<1>5. WaitInv'
  BY <1>1, <1>2, TaskFacts DEF ViewInv, WaitInv, Heads
<1>6. LockInv'
  <2> SUFFICES ASSUME NEW i \in 1 .. Len(lock)
               PROVE  (Heads(lock[i], LockOps) /\ (i > 1 => wait[lock[i]] = "lock"))'
    BY DEF LockInv
  <2>1. lock[i] \in Tasks /\ Heads(lock[i], LockOps) /\ (i > 1 => wait[lock[i]] = "lock")
    BY Locked
  <2>2. lock[i] # t
    BY <2>1, <1>2 DEF Heads
  <2> QED BY <2>1, <2>2, <1>1 DEF Heads
<1>7. Sleepers'
  BY <1>4 DEF ViewInv, TimerInv, Sleepers
<1>8. Resting'
  BY <1>1, <1>2, <1>3, <1>4 DEF ViewInv, TimerInv, Resting
<1>9. Alive'
  BY <1>2, <1>4, TaskFacts DEF ViewInv, TimerInv, Alive
<1>10. Holding'
  <2> SUFFICES ASSUME NEW s \in Tasks, Heads(s, {"arm", "disarm"})'
               PROVE  (/\ lock # <<>> /\ Head(lock) = s
                       /\ handle \in {"none", s} \/ timer[handle] = "dead")'
    BY DEF Holding
  <2>1. s # t /\ Heads(s, {"arm", "disarm"})
    BY <1>1 DEF Heads
  <2>2. lock # <<>> /\ Head(lock) = s /\ (handle \in {"none", s} \/ timer[handle] = "dead")
    BY <2>1 DEF ViewInv, TimerInv, Holding
  <2>3. handle \in Timers \cup {"none"}
    BY DEF ViewInv, TypeOK
  <2>4. t \in Timers => t = handle /\ timer[t] = "sleeping"
    BY <1>4
  <2> QED BY <2>1, <2>2, <2>3, <2>4, <1>4
<1>11. Replaced'
  BY <1>2, <1>4 DEF Replaced
<1>12. Closing'
  BY <1>1, ClosingStays
<1> QED BY <1>1, <1>4, <1>5, <1>6, <1>7, <1>8, <1>9, <1>10, <1>11, <1>12 DEF TimerInv

LEMMA ConnectStep ==
  ASSUME ViewInv, Connect
  PROVE  ViewInv'
<1> USE DEF queueVars, roleVars, timerVars
<1>1. /\ Idle("server") /\ Begin("server", <<"next", "loop">>) /\ quic = "none" /\ quic' = "open"
      /\ table' = {"original", "host"} /\ cids' = {"original", "host"}
      /\ UNCHANGED <<events, sent, h3, stream, timerVars, wait, queueVars, roleVars>>
      /\ "server" \in Tasks /\ "server" \notin Timers
  BY TaskFacts DEF Connect, Serves
<1>2. TodoInv' /\ WaitInv' /\ LockInv' /\ TimerInv' /\ Closing'
  BY <1>1, Begun, Starts DEF StaysEnded
<1>3. LastEvent'
  BY <1>1 DEF ViewInv, EndInv, LastEvent
<1>4. TypeOK'
  <2>1. cpu' = "server" /\ wait["server"] = "no"
    BY <1>1 DEF Idle, Begin
  <2> QED BY <1>1, <1>2, <2>1 DEF ViewInv, TypeOK, WaitInv, Heads, Cids
<1> QED BY <1>1, <1>2, <1>3, <1>4 DEF ViewInv, EndInv, CidsAgree

LEMMA OtherDatagramStep ==
  ASSUME ViewInv, OtherDatagram
  PROVE  ViewInv'
<1> USE DEF quicVars, connVars, queueVars, roleVars, timerVars
<1>1. /\ Idle("server") /\ Begin("server", <<"loop">>)
      /\ UNCHANGED <<quicVars, connVars, timerVars, wait, queueVars, roleVars>>
      /\ "server" \in Tasks /\ "server" \notin Timers
  BY TaskFacts DEF OtherDatagram, Serves
<1>2. TodoInv' /\ WaitInv' /\ LockInv' /\ TimerInv' /\ Closing'
  BY <1>1, Begun, Starts DEF StaysEnded
<1>3. TypeOK'
  <2>1. cpu' = "server" /\ wait["server"] = "no"
    BY <1>1 DEF Idle, Begin
  <2> QED BY <1>1, <1>2, <2>1 DEF ViewInv, TypeOK, WaitInv, Heads
<1> QED BY <1>1, <1>2, <1>3 DEF ViewInv, EndInv, CidsAgree, LastEvent

LEMMA SendStep ==
  ASSUME ViewInv, Send \/ Finish
  PROVE  ViewInv'
<1> USE DEF quicVars, connVars, queueVars, timerVars
<1>1. /\ Idle("app") /\ app' \in {"none", "running", "done"}
      /\ UNCHANGED <<quicVars, connVars, timerVars, wait, queueVars, server, terminated, refused>>
      /\ "app" \in Tasks /\ "app" \notin Timers
  BY TaskFacts DEF Send, Finish, roleVars, ViewInv, TypeOK
<1>2. PICK ops \in {<<"send">>, <<"send", "pop">>} : Begin("app", ops)
  BY DEF Send, Finish, Sending
<1>3. Program("app", ops) /\ ops # <<>> /\ Head(ops) = "send"
  <2>1. "send" \in Ops \ (Puts \cup {"loop", "pop"})
    BY DEF Ops
  <2> QED BY <2>1, Ones, Begun
<1>4. TodoInv' /\ WaitInv' /\ LockInv' /\ TimerInv' /\ Closing'
  BY <1>1, <1>2, <1>3, Starts DEF StaysEnded
<1>5. TypeOK'
  <2>1. cpu' = "app" /\ wait["app"] = "no"
    BY <1>1, <1>2 DEF Idle, Begin
  <2> QED BY <1>1, <1>4, <2>1 DEF ViewInv, TypeOK, WaitInv, Heads
<1> QED BY <1>1, <1>4, <1>5 DEF ViewInv, EndInv, CidsAgree, LastEvent

\* The packets of the client.
LEMMA DatagramStep ==
  ASSUME ViewInv, Datagram
  PROVE  ViewInv'
<1> USE DEF connVars, queueVars, roleVars, timerVars
<1>1. /\ Idle("server") /\ Begin("server", <<"next", "loop">>)
      /\ UNCHANGED <<connVars, timerVars, wait, queueVars, roleVars>>
      /\ "server" \in Tasks /\ "server" \notin Timers
  BY TaskFacts DEF Datagram, Serves
<1>2. events \in Seq(Events) /\ sent \in 0 .. Len(Script) /\ Len(Script) = 5
  BY DEF ViewInv, TypeOK, Script
<1>3. /\ quic' \in {"none", "open", "closing", "done"} /\ events' \in Seq(Events)
      /\ sent' \in 0 .. Len(Script) /\ StaysEnded /\ LastEvent'
  <2>1. CASE UNCHANGED quicVars
    BY <2>1 DEF ViewInv, TypeOK, EndInv, LastEvent, StaysEnded, quicVars
  <2>2. CASE quic = "open" /\ quic' = "closing" /\ UNCHANGED <<events, sent>>
    BY <2>2 DEF ViewInv, TypeOK, EndInv, LastEvent, StaysEnded
  <2>3. CASE /\ quic = "open" /\ UNCHANGED quic
             /\ \E n \in 1 .. 2 : /\ sent + n <= Len(Script) /\ sent' = sent + n
                                  /\ events' = events \o SubSeq(Script, sent + 1, sent + n)
    <3>1. PICK n \in 1 .. 2 : /\ sent + n <= Len(Script) /\ sent' = sent + n
                              /\ events' = events \o SubSeq(Script, sent + 1, sent + n)
      BY <2>3
    <3> DEFINE S == {"negotiated", "headers", "first", "second", "last"}
    <3> DEFINE p == SubSeq(Script, sent + 1, sent + n)
    <3>2. \A i \in sent + 1 .. sent + n : Script[i] \in S
      BY <1>2, <3>1 DEF Script
    <3>3. p \in Seq(S)
      BY <3>2, <1>2, SubSeqProperties
    <3> HIDE DEF p
    <3>4. \A i \in 1 .. Len(p) : p[i] \in S
      BY <3>3
    <3>5. p \in Seq(Events) /\ Len(p) \in Nat
      BY <3>3, SeqMonotonic DEF Events
    <3>6. /\ events' \in Seq(Events) /\ Len(events') = Len(events) + Len(p) /\ Len(events) \in Nat
          /\ \A i \in 1 .. Len(events) + Len(p) :
               events'[i] = IF i <= Len(events) THEN events[i] ELSE p[i - Len(events)]
      BY <3>1, <3>5, <1>2, ConcatProperties DEF p
    <3>7. \A i \in 1 .. Len(events) : events[i] # "terminated"
      BY <2>3 DEF ViewInv, EndInv, LastEvent
    <3>8. ASSUME NEW i \in 1 .. Len(events')
          PROVE  events'[i] # "terminated"
      <4>1. CASE i <= Len(events)
        BY <4>1, <3>6, <3>7
      <4>2. CASE i > Len(events)
        <5>1. i - Len(events) \in 1 .. Len(p) /\ events'[i] = p[i - Len(events)]
          BY <4>2, <3>6, <3>5
        <5>2. p[i - Len(events)] \in S
          BY <5>1, <3>4
        <5> QED BY <5>1, <5>2
      <4> QED BY <4>1, <4>2, <3>6, <3>5
    <3>9. LastEvent'
      BY <3>8 DEF LastEvent
    <3>10. sent' \in 0 .. Len(Script)
      BY <3>1, <1>2
    <3> QED BY <2>3, <3>6, <3>9, <3>10 DEF StaysEnded
  <2>4. CASE /\ quic = "open" /\ UNCHANGED <<quic, sent>>
             /\ events' \in {<<"issued">>, <<"retired">>}
    <3>1. PICK e \in {"issued", "retired"} : events' = <<e>>
      BY <2>4
    <3>2. Len(<<e>>) = 1 /\ <<e>>[1] = e /\ <<e>> \in Seq(Events)
      BY DEF Events
    <3> QED BY <2>4, <3>1, <3>2, <1>2 DEF LastEvent, StaysEnded
  <2> QED BY <2>1, <2>2, <2>3, <2>4 DEF Datagram
<1>4. TodoInv' /\ WaitInv' /\ LockInv' /\ TimerInv' /\ Closing'
  BY <1>1, <1>3, Begun, Starts
<1>5. TypeOK'
  <2>1. cpu' = "server" /\ wait["server"] = "no"
    BY <1>1 DEF Idle, Begin
  <2> QED BY <1>1, <1>3, <1>4, <2>1 DEF ViewInv, TypeOK, WaitInv, Heads
<1> QED BY <1>1, <1>3, <1>4, <1>5 DEF ViewInv, EndInv, CidsAgree

\* The timer's sleep ends.
LEMMA FireStep ==
  ASSUME ViewInv, NEW n \in Timers, Fire(n)
  PROVE  ViewInv'
<1> USE DEF connVars, queueVars, roleVars
<1>1. /\ Idle(n) /\ Begin(n, <<"next">>) /\ n \in Tasks /\ n # "none"
      /\ timer[n] = "sleeping" /\ timer' = [timer EXCEPT ![n] = "awake"]
      /\ UNCHANGED <<connVars, handle, lock, wait, queueVars, roleVars>>
  BY TaskFacts DEF Fire
<1>2. events \in Seq(Events)
  BY DEF ViewInv, TypeOK
<1>3. /\ quic' \in {"none", "open", "closing", "done"} /\ events' \in Seq(Events)
      /\ UNCHANGED sent /\ StaysEnded /\ LastEvent'
  <2>1. CASE UNCHANGED quicVars
    BY <2>1 DEF ViewInv, TypeOK, EndInv, LastEvent, StaysEnded, quicVars
  <2>2. CASE /\ quic \in {"open", "closing"} /\ quic' = "done"
             /\ events' = Append(events, "terminated") /\ UNCHANGED sent
    <3>1. "terminated" \in Events
      BY DEF Events
    <3>2. /\ events' \in Seq(Events) /\ Len(events') = Len(events) + 1 /\ Len(events) \in Nat
          /\ \A i \in 1 .. Len(events) : events'[i] = events[i]
      BY <1>2, <2>2, <3>1, AppendProperties
    <3>3. \A i \in 1 .. Len(events) : events[i] # "terminated"
      BY <2>2 DEF ViewInv, EndInv, LastEvent
    <3>4. LastEvent'
      <4> SUFFICES ASSUME NEW i \in 1 .. Len(events'), events'[i] = "terminated"
                   PROVE  i = Len(events')
        BY <2>2 DEF LastEvent
      <4> QED BY <3>2, <3>3
    <3> QED BY <2>2, <3>2, <3>4 DEF StaysEnded
  <2> QED BY <2>1, <2>2 DEF Fire
<1>4. Program(n, <<"next">>) /\ <<"next">> # <<>> /\ Head(<<"next">>) = "next"
  <2>1. "next" \in Ops \ (Puts \cup {"loop", "pop"})
    BY DEF Ops
  <2> QED BY <2>1, Ones
<1>5. TodoInv' /\ WaitInv' /\ LockInv' /\ TimerInv' /\ Closing'
      /\ timer' \in [Timers -> {"dead", "sleeping", "awake"}]
  BY <1>1, <1>3, <1>4, Starts
<1>6. TypeOK'
  <2>1. cpu' = n /\ wait[n] = "no"
    BY <1>1 DEF Idle, Begin
  <2> QED BY <1>1, <1>3, <1>5, <2>1 DEF ViewInv, TypeOK, WaitInv, Heads
<1> QED BY <1>1, <1>3, <1>5, <1>6 DEF ViewInv, EndInv, CidsAgree

----------------------------------------------------------------------------
(* A task ends, waits, or is woken.                                        *)

LEMMA QuietStep ==
  ASSUME ViewInv, Receive \/ Terminate \/ UNCHANGED vars
  PROVE  ViewInv'
<1> USE DEF quicVars, connVars, timerVars, taskVars, queueVars, roleVars, vars
<1>1. /\ UNCHANGED <<quicVars, connVars, timerVars, taskVars, put, full, server, app, refused>>
      /\ queue' \in 0 .. QueueSize /\ terminated' \in BOOLEAN
  <2>1. queue \in 0 .. QueueSize /\ terminated \in BOOLEAN /\ QueueSize \in Nat
    BY QuicAssumption DEF ViewInv, TypeOK
  <2>2. CASE Receive
    BY <2>1, <2>2 DEF Receive
  <2>3. CASE Terminate
    BY <2>1, <2>3 DEF Terminate
  <2>4. CASE UNCHANGED vars
    BY <2>1, <2>4
  <2> QED BY <2>2, <2>3, <2>4
<1>2. TodoInv' /\ WaitInv' /\ LockInv'
  BY <1>1 DEF ViewInv, TodoInv, WaitInv, LockInv, Heads
<1>3. TimerInv' /\ EndInv'
  BY <1>1 DEF ViewInv, TimerInv, Sleepers, Resting, Alive, Holding, Replaced, EndInv, LastEvent,
              Closing, Heads
<1>4. TypeOK'
  BY <1>1 DEF ViewInv, TypeOK
<1> QED BY <1>1, <1>2, <1>3, <1>4 DEF ViewInv, CidsAgree

LEMMA EndsStep ==
  ASSUME ViewInv, NEW t \in Tasks, Ends(t)
  PROVE  ViewInv'
<1> USE DEF quicVars, connVars, queueVars, roleVars
<1>1. /\ cpu = t /\ todo[t] = <<>> /\ cpu' = "none"
      /\ UNCHANGED <<quicVars, connVars, handle, lock, todo, wait, queueVars, roleVars>>
      /\ t # "none" /\ Timers \subseteq Tasks /\ "none" \notin Tasks
  BY TaskFacts DEF Ends
<1>2. wait[t] = "no" /\ server # "crashed" /\ (t \in Timers => timer[t] = "awake")
  BY <1>1, Running
<1>3. /\ timer \in [Timers -> {"dead", "sleeping", "awake"}]
      /\ \A n \in Timers : timer'[n] = IF n = t THEN "dead" ELSE timer[n]
      /\ timer' \in [Timers -> {"dead", "sleeping", "awake"}]
  BY DEF ViewInv, TypeOK, Ends
<1>4. TodoInv' /\ LockInv'
  BY <1>1 DEF ViewInv, TodoInv, LockInv, Heads
<1>5. WaitInv'
  BY <1>1, <1>2 DEF ViewInv, WaitInv, Heads
<1>6. Sleepers' /\ Alive' /\ Replaced'
  BY <1>1, <1>2, <1>3 DEF ViewInv, TimerInv, Sleepers, Alive, Replaced
<1>7. Resting'
  BY <1>1, <1>2, <1>3 DEF ViewInv, TimerInv, Resting
<1>8. Holding'
  <2>1. handle \in Timers \cup {"none"}
    BY DEF ViewInv, TypeOK
  <2> QED BY <1>1, <1>3, <2>1 DEF ViewInv, TimerInv, Holding, Heads
<1>9. EndInv'
  BY <1>1 DEF ViewInv, EndInv, LastEvent, Closing, Heads
<1>10. TypeOK'
  BY <1>1, <1>3 DEF ViewInv, TypeOK
<1> QED BY <1>1, <1>4, <1>5, <1>6, <1>7, <1>8, <1>9, <1>10 DEF ViewInv, CidsAgree, TimerInv

\* A timer that waits is the one the connection knows.
LEMMA Waiting ==
  ASSUME ViewInv, server # "crashed", NEW t \in Tasks, cpu = "none", wait[t] # "no"
  PROVE  t \in Timers => t = handle /\ timer[t] = "awake"
BY TaskFacts DEF ViewInv, TimerInv, Resting, Alive

LEMMA WokenStep ==
  ASSUME ViewInv, server # "crashed", NEW t \in Tasks, Handed(t) \/ Ticks(t)
  PROVE  ViewInv'
<1> USE DEF quicVars, connVars, timerVars, queueVars, roleVars
<1>1. /\ cpu = "none" /\ cpu' = t /\ wait[t] \in {"lock", "tick"}
      /\ wait' = [wait EXCEPT ![t] = "no"]
      /\ wait[t] = "lock" => Head(lock) = t
      /\ UNCHANGED <<quicVars, connVars, timerVars, todo, queueVars, roleVars>>
      /\ t # "none" /\ "none" \notin Tasks /\ Timers \subseteq Tasks
  BY TaskFacts DEF Handed, Ticks
<1>2. /\ wait \in [Tasks -> {"no", "lock", "tick", "put"}]
      /\ wait'[t] = "no" /\ \A s \in Tasks : s # t => wait'[s] = wait[s]
      /\ wait' \in [Tasks -> {"no", "lock", "tick", "put"}]
  BY <1>1 DEF ViewInv, TypeOK
<1>3. t \in Timers => t = handle /\ timer[t] = "awake"
  BY <1>1, Waiting
<1>4. TodoInv'
  BY <1>1, TodoSame DEF ViewInv
<1>5. WaitInv'
  BY <1>1, <1>2 DEF ViewInv, WaitInv, Heads
<1>6. LockInv'
  <2> SUFFICES ASSUME NEW i \in 1 .. Len(lock)
               PROVE  (Heads(lock[i], LockOps) /\ (i > 1 => wait[lock[i]] = "lock"))'
    BY <1>1 DEF LockInv
  <2>1. lock[i] \in Tasks /\ Heads(lock[i], LockOps) /\ (i > 1 => wait[lock[i]] = "lock")
    BY Locked
  <2>2. ASSUME i > 1, lock[i] = t
        PROVE  FALSE
    <3>1. lock \in Seq(Tasks) /\ Len(lock) \in Nat /\ 1 \in 1 .. Len(lock) /\ Head(lock) = lock[1]
      BY <2>2 DEF ViewInv, TypeOK
    <3>2. lock[1] # lock[i]
      BY <3>1, <2>2 DEF ViewInv, TypeOK
    <3> QED BY <3>1, <3>2, <2>1, <2>2, <1>1
  <2> QED BY <2>1, <2>2, <1>1, <1>2 DEF Heads
<1>7. Sleepers' /\ Alive' /\ Replaced' /\ Holding'
  BY <1>1, <1>3 DEF ViewInv, TimerInv, Sleepers, Alive, Replaced, Holding, Heads
<1>8. Resting'
  BY <1>1, <1>2, <1>3 DEF ViewInv, TimerInv, Resting
<1>9. EndInv'
  BY <1>1 DEF ViewInv, EndInv, LastEvent, Closing, Heads
<1>10. TypeOK'
  BY <1>1, <1>2 DEF ViewInv, TypeOK
<1> QED BY <1>1, <1>4, <1>5, <1>6, <1>7, <1>8, <1>9, <1>10 DEF ViewInv, CidsAgree, TimerInv

\* The task that waits for the lock is not in its queue yet.
LEMMA WaitsForLockStep ==
  ASSUME ViewInv, NEW t \in Tasks, NEW op \in {"restart", "stop"}, WaitsForLock(t, op)
  PROVE  ViewInv'
<1> USE DEF quicVars, connVars, queueVars, roleVars
<1>1. /\ cpu = t /\ todo[t] # <<>> /\ Head(todo[t]) = op /\ cpu' = "none"
      /\ lock # <<>> /\ Head(lock) # t /\ lock' = Append(lock, t)
      /\ wait' = [wait EXCEPT ![t] = "lock"]
      /\ UNCHANGED <<quicVars, connVars, handle, timer, todo, queueVars, roleVars>>
      /\ t # "none" /\ "none" \notin Tasks /\ Timers \subseteq Tasks
  BY TaskFacts DEF WaitsForLock, Does, Mine, Suspends
<1>2. ReplacedBy(t) /\ server # "crashed" /\ wait[t] = "no" /\ (t \in Timers => timer[t] = "awake")
  BY <1>1, WasReplaced, Running
<1>3. t \in Timers => t = handle
  BY <1>1, <1>2 DEF ReplacedBy
<1>4. /\ wait \in [Tasks -> {"no", "lock", "tick", "put"}]
      /\ wait'[t] = "lock" /\ \A s \in Tasks : s # t => wait'[s] = wait[s]
      /\ wait' \in [Tasks -> {"no", "lock", "tick", "put"}]
  BY <1>1 DEF ViewInv, TypeOK
<1>5. /\ lock \in Seq(Tasks) /\ Len(lock) \in Nat /\ Len(lock) > 0 /\ Head(lock) = lock[1]
      /\ lock' \in Seq(Tasks) /\ Len(lock') = Len(lock) + 1 /\ lock'[Len(lock) + 1] = t
      /\ lock' # <<>> /\ Head(lock') = Head(lock)
      /\ \A i \in 1 .. Len(lock) : lock'[i] = lock[i]
  <2>1. lock \in Seq(Tasks)
    BY DEF ViewInv, TypeOK
  <2> QED BY <2>1, <1>1, EmptySeq, AppendProperties, HeadTailAppend
<1>6. ASSUME NEW i \in 1 .. Len(lock)
      PROVE  lock[i] # t
  <2>1. i > 1 => cpu # lock[i]
    BY Locked
  <2> QED BY <2>1, <1>1, <1>5
<1>7. TodoInv'
  BY <1>1, TodoSame DEF ViewInv
<1>8. WaitInv'
  BY <1>1, <1>2, <1>4 DEF ViewInv, WaitInv, Heads
<1>9. LockInv'
  <2> SUFFICES ASSUME NEW i \in 1 .. Len(lock')
               PROVE  (Heads(lock[i], LockOps) /\ (i > 1 => wait[lock[i]] = "lock"))'
    BY DEF LockInv
  <2>1. CASE i = Len(lock) + 1
    BY <2>1, <1>1, <1>4, <1>5 DEF Heads, LockOps
  <2>2. CASE i \in 1 .. Len(lock)
    <3>1. lock[i] \in Tasks /\ Heads(lock[i], LockOps) /\ (i > 1 => wait[lock[i]] = "lock")
      BY <2>2, Locked
    <3>2. lock[i] # t /\ lock'[i] = lock[i]
      BY <2>2, <1>5, <1>6
    <3> QED BY <3>1, <3>2, <1>1, <1>4 DEF Heads
  <2> QED BY <2>1, <2>2, <1>5
<1>10. Sleepers' /\ Alive' /\ Replaced'
  BY <1>1, <1>3 DEF ViewInv, TimerInv, Sleepers, Alive, Replaced
<1>11. Holding'
  BY <1>1, <1>5 DEF ViewInv, TimerInv, Holding, Heads
<1>12. Resting'
  BY <1>1, <1>2, <1>4 DEF ViewInv, TimerInv, Resting
<1>13. EndInv'
  BY <1>1 DEF ViewInv, EndInv, LastEvent, Closing, Heads
<1>14. TypeOK'
  <2>1. ASSUME NEW i \in 1 .. Len(lock'), NEW j \in 1 .. Len(lock'), i # j
        PROVE  lock'[i] # lock'[j]
    <3>1. CASE i \in 1 .. Len(lock) /\ j \in 1 .. Len(lock)
      <4>1. lock[i] # lock[j]
        BY <3>1, <2>1 DEF ViewInv, TypeOK
      <4> QED BY <4>1, <3>1, <1>5
    <3>2. CASE i = Len(lock) + 1 /\ j \in 1 .. Len(lock)
      BY <3>2, <1>5, <1>6
    <3>3. CASE j = Len(lock) + 1 /\ i \in 1 .. Len(lock)
      BY <3>3, <1>5, <1>6
    <3> QED BY <3>1, <3>2, <3>3, <2>1, <1>5
  <2>2. \A s \in Tasks : wait'[s] \in {"no", "tick"} \/ todo'[s] # <<>>
    BY <1>8, <1>4 DEF WaitInv, Heads
  <2> QED BY <2>1, <2>2, <1>1, <1>4, <1>5 DEF ViewInv, TypeOK
<1> QED BY <1>1, <1>7, <1>8, <1>9, <1>10, <1>11, <1>12, <1>13, <1>14 DEF ViewInv, CidsAgree, TimerInv

\* A put that waits for room.
LEMMA PutWaitsStep ==
  ASSUME ViewInv, NEW t \in Tasks, NEW op \in Puts, PutWaits(t, op)
  PROVE  ViewInv'
<1> USE DEF quicVars, connVars, timerVars, roleVars
<1>1. /\ cpu = t /\ todo[t] # <<>> /\ Head(todo[t]) = op /\ cpu' = "none" /\ full' = TRUE
      /\ wait' = [wait EXCEPT ![t] = "put"]
      /\ UNCHANGED <<quicVars, connVars, timerVars, todo, queue, put, roleVars>>
      /\ t # "none" /\ "none" \notin Tasks /\ Timers \subseteq Tasks
  BY TaskFacts DEF PutWaits, Does, Suspends
<1>2. ReplacedBy(t) /\ server # "crashed" /\ wait[t] = "no" /\ (t \in Timers => timer[t] = "awake")
  BY <1>1, WasReplaced, Running
<1>3. t \in Timers => t = handle
  BY <1>1, <1>2 DEF ReplacedBy
<1>4. /\ wait \in [Tasks -> {"no", "lock", "tick", "put"}]
      /\ wait'[t] = "put" /\ \A s \in Tasks : s # t => wait'[s] = wait[s]
      /\ wait' \in [Tasks -> {"no", "lock", "tick", "put"}]
  BY <1>1 DEF ViewInv, TypeOK
<1>5. TodoInv'
  BY <1>1, TodoSame DEF ViewInv
<1>6. WaitInv'
  BY <1>1, <1>2, <1>4 DEF ViewInv, WaitInv, Heads
<1>7. LockInv'
  <2> SUFFICES ASSUME NEW i \in 1 .. Len(lock)
               PROVE  Heads(lock[i], LockOps)' /\ (i > 1 => wait'[lock[i]] = "lock")
    BY <1>1 DEF LockInv
  <2>1. lock[i] \in Tasks /\ Heads(lock[i], LockOps) /\ (i > 1 => wait[lock[i]] = "lock")
    BY Locked
  <2> QED BY <2>1, <1>1, <1>4 DEF Heads, LockOps
<1>8. Sleepers' /\ Alive' /\ Replaced' /\ Holding'
  BY <1>1, <1>3 DEF ViewInv, TimerInv, Sleepers, Alive, Replaced, Holding, Heads
<1>9. Resting'
  BY <1>1, <1>2, <1>4 DEF ViewInv, TimerInv, Resting
<1>10. EndInv'
  BY <1>1 DEF ViewInv, EndInv, LastEvent, Closing, Heads
<1>11. TypeOK'
  BY <1>1, <1>4 DEF ViewInv, TypeOK
<1> QED BY <1>1, <1>5, <1>6, <1>7, <1>8, <1>9, <1>10, <1>11 DEF ViewInv, CidsAgree, TimerInv

\* The server fails: it was its loop, or a timer, that had the processor.
LEMMA KeyErrorStep ==
  ASSUME ViewInv, NEW t \in Tasks, NEW op \in Puts, KeyError(t, op)
  PROVE  ViewInv'
<1> USE DEF quicVars, connVars, timerVars, queueVars
<1>1. /\ cpu = t /\ cpu' = "none" /\ server' = "crashed"
      /\ UNCHANGED <<quicVars, connVars, timerVars, todo, wait, queueVars, app, terminated, refused>>
      /\ t # "none" /\ "none" \notin Timers
  BY TaskFacts DEF KeyError, Does
<1>2. TodoInv'
  BY <1>1, TodoSame DEF ViewInv
<1>3. WaitInv' /\ LockInv'
  BY <1>1 DEF ViewInv, WaitInv, LockInv, Heads
<1>4. Sleepers' /\ Alive' /\ Replaced' /\ Holding' /\ Resting'
  BY <1>1 DEF ViewInv, TimerInv, Sleepers, Alive, Replaced, Holding, Resting, Heads
<1>5. EndInv'
  BY <1>1 DEF ViewInv, EndInv, LastEvent, Closing, Heads
<1>6. TypeOK'
  BY <1>1 DEF ViewInv, TypeOK
<1> QED BY <1>1, <1>2, <1>3, <1>4, <1>5, <1>6 DEF ViewInv, CidsAgree, TimerInv

LEMMA PutTodo ==
  ASSUME ViewInv, server # "crashed", NEW t \in Tasks, NEW op \in Puts, Put(t, op)
  PROVE  /\ todo[t] # <<>> /\ Head(todo[t]) = op /\ cpu \in {t, "none"} /\ wait[t] \in {"no", "put"}
         /\ t \in Timers => t = handle /\ timer[t] = "awake"
         /\ wait[t] = "no" => cpu = t
         /\ TodoInv' /\ \A s \in Tasks : s # t => todo'[s] = todo[s]
         /\ todo'[t] # <<>> /\ Head(todo'[t]) = IF op = "third" THEN "end" ELSE "next"
         /\ Within("pop", todo'[t]) => Within("pop", todo[t])
<1>1. /\ todo[t] # <<>> /\ Head(todo[t]) = op /\ cpu \in {t, "none"} /\ wait[t] \in {"no", "put"}
      /\ t \in Timers => t = handle /\ timer[t] = "awake"
      /\ wait[t] = "no" => cpu = t
  <2>1. CASE Does(t, op)
    <3>1. cpu = t /\ todo[t] # <<>> /\ Head(todo[t]) = op
      BY <2>1 DEF Does
    <3>2. ReplacedBy(t) /\ wait[t] = "no" /\ (t \in Timers => timer[t] = "awake")
      BY <3>1, WasReplaced, Running
    <3> QED BY <3>1, <3>2 DEF ReplacedBy
  <2>2. CASE cpu = "none" /\ wait[t] = "put" /\ Head(todo[t]) = op
    <3>1. todo[t] # <<>>
      BY <2>2 DEF ViewInv, WaitInv, Heads
    <3> QED BY <2>2, <3>1, Waiting
  <2> QED BY <2>1, <2>2 DEF Put
<1>2. After(op) = IF op = "third" THEN {"end"} ELSE {"next"}
  BY DEF After
<1> QED BY <1>1, <1>2, Drops DEF ViewInv, Put

\* A put that finds room, or has waited for it.
LEMMA PutStep ==
  ASSUME ViewInv, server # "crashed", NEW t \in Tasks, NEW op \in Puts, Put(t, op)
  PROVE  ViewInv'
<1> USE DEF quicVars, connVars, timerVars, roleVars
<1>1. /\ queue < QueueSize /\ queue' = queue + 1 /\ put' = Append(put, op)
      /\ wait' = [wait EXCEPT ![t] = "no"] /\ cpu' = t
      /\ todo' = [todo EXCEPT ![t] = Tail(@)]
      /\ UNCHANGED <<quicVars, connVars, timerVars, full, roleVars>>
      /\ t # "none" /\ "none" \notin Tasks /\ Timers \subseteq Tasks
  BY TaskFacts DEF Put, HasRoom
<1>2. /\ todo[t] # <<>> /\ Head(todo[t]) = op /\ cpu \in {t, "none"} /\ wait[t] \in {"no", "put"}
      /\ t \in Timers => t = handle /\ timer[t] = "awake"
  BY PutTodo
<1>3. /\ wait \in [Tasks -> {"no", "lock", "tick", "put"}]
      /\ wait'[t] = "no" /\ \A s \in Tasks : s # t => wait'[s] = wait[s]
      /\ wait' \in [Tasks -> {"no", "lock", "tick", "put"}]
  BY <1>1 DEF ViewInv, TypeOK
<1>4. /\ TodoInv' /\ \A s \in Tasks : s # t => todo'[s] = todo[s]
      /\ todo'[t] # <<>> => Head(todo'[t]) \in {"next", "end"}
  BY PutTodo
<1>5. WaitInv'
  BY <1>1, <1>2, <1>3, <1>4 DEF ViewInv, WaitInv, Heads
<1>6. LockInv'
  <2> SUFFICES ASSUME NEW i \in 1 .. Len(lock)
               PROVE  (Heads(lock[i], LockOps) /\ (i > 1 => wait[lock[i]] = "lock"))'
    BY <1>1 DEF LockInv
  <2>1. lock[i] \in Tasks /\ Heads(lock[i], LockOps) /\ (i > 1 => wait[lock[i]] = "lock")
    BY Locked
  <2>2. lock[i] # t
    BY <2>1, <1>2 DEF Heads, LockOps
  <2> QED BY <2>1, <2>2, <1>1, <1>3, <1>4 DEF Heads
<1>7. Sleepers' /\ Alive' /\ Replaced'
  BY <1>1, <1>2 DEF ViewInv, TimerInv, Sleepers, Alive, Replaced
<1>8. Holding'
  BY <1>1, <1>4 DEF ViewInv, TimerInv, Holding, Heads
<1>9. Resting'
  BY <1>1, <1>2, <1>3, <1>4 DEF ViewInv, TimerInv, Resting
<1>10. LastEvent' /\ Closing'
  BY <1>1, <1>4, ClosingStays DEF ViewInv, EndInv, LastEvent, StaysEnded
<1>11. TypeOK'
  <2>1. put' \in Seq(Puts)
    BY <1>1 DEF ViewInv, TypeOK
  <2>2. queue' \in 0 .. QueueSize
    BY <1>1, QuicAssumption DEF ViewInv, TypeOK
  <2>3. \A s \in Tasks : wait'[s] \in {"no", "tick"} \/ todo'[s] # <<>>
    BY <1>5, <1>3 DEF WaitInv, Heads
  <2> QED BY <2>1, <2>2, <2>3, <1>1, <1>3 DEF ViewInv, TypeOK
<1> QED BY <1>1, <1>4, <1>5, <1>6, <1>7, <1>8, <1>9, <1>10, <1>11
        DEF ViewInv, CidsAgree, TimerInv, EndInv

----------------------------------------------------------------------------
(* AsyncioSingleTask: the old timer ends, and the lock is released.        *)

\* The next in the lock's queue has it.
LEMMA Released ==
  ASSUME ViewInv, NEW t \in Tasks, cpu = t, Heads(t, {"arm", "disarm"}), lock' = Tail(lock),
         UNCHANGED wait, \A s \in Tasks : s # t => todo'[s] = todo[s]
  PROVE  /\ LockInv' /\ lock' \in Seq(Tasks)
         /\ \A i, j \in 1 .. Len(lock') : i # j => lock'[i] # lock'[j]
         /\ \A s \in Tasks : s # t => ~Heads(s, {"arm", "disarm"})
<1>1. lock # <<>> /\ Head(lock) = t
  BY DEF ViewInv, TimerInv, Holding
<1>2. /\ lock \in Seq(Tasks) /\ Len(lock) \in Nat /\ Len(lock) > 0
      /\ \A i, j \in 1 .. Len(lock) : i # j => lock[i] # lock[j]
  BY <1>1, EmptySeq DEF ViewInv, TypeOK
<1>3. /\ lock' \in Seq(Tasks) /\ Len(lock') = Len(lock) - 1
      /\ \A i \in 1 .. Len(lock') : lock'[i] = lock[i + 1] /\ i + 1 \in 1 .. Len(lock) /\ i + 1 > 1
  BY <1>1, <1>2, HeadTailProperties
<1>4. LockInv'
  <2> SUFFICES ASSUME NEW i \in 1 .. Len(lock')
               PROVE  (Heads(lock[i], LockOps) /\ (i > 1 => wait[lock[i]] = "lock"))'
    BY DEF LockInv
  <2>1. /\ lock'[i] \in Tasks /\ Heads(lock[i + 1], LockOps) /\ wait[lock[i + 1]] = "lock"
        /\ lock'[i] = lock[i + 1] /\ lock[i + 1] # t
    <3>1. i + 1 \in 1 .. Len(lock) /\ i + 1 > 1 /\ lock'[i] = lock[i + 1]
      BY <1>3
    <3>2. /\ lock[i + 1] \in Tasks /\ Heads(lock[i + 1], LockOps)
          /\ wait[lock[i + 1]] = "lock" /\ cpu # lock[i + 1]
      BY <3>1, Locked
    <3> QED BY <3>1, <3>2
  <2> QED BY <2>1 DEF Heads
<1>5. ASSUME NEW i \in 1 .. Len(lock'), NEW j \in 1 .. Len(lock'), i # j
      PROVE  lock'[i] # lock'[j]
  <2>1. /\ i + 1 \in 1 .. Len(lock) /\ j + 1 \in 1 .. Len(lock) /\ i + 1 # j + 1
        /\ lock'[i] = lock[i + 1] /\ lock'[j] = lock[j + 1]
    BY <1>2, <1>3, <1>5
  <2> QED BY <2>1, <1>2
<1>6. \A s \in Tasks : s # t => ~Heads(s, {"arm", "disarm"})
  BY <1>1 DEF ViewInv, TimerInv, Holding
<1> QED BY <1>3, <1>4, <1>5, <1>6

\* Between the two timers at most one is alive, the one that has the processor.
LEMMA Between ==
  ASSUME ViewInv, NEW t \in Tasks, cpu = t, Heads(t, {"arm", "disarm"})
  PROVE  \A n \in Timers : n # t => timer[n] = "dead"
<1>1. handle \in {"none", t} \/ timer[handle] = "dead"
  BY DEF ViewInv, TimerInv, Holding
<1>2. server # "crashed"
  BY Running
<1> QED BY <1>1, <1>2, TaskFacts DEF ViewInv, TimerInv, Alive

LEMMA ArmTodo ==
  ASSUME ViewInv, NEW t \in Tasks, Arm(t)
  PROVE  /\ cpu = t /\ todo[t] # <<>> /\ Head(todo[t]) = "arm" /\ UNCHANGED cpu
         /\ TodoInv' /\ \A s \in Tasks : s # t => todo'[s] = todo[s]
         /\ todo'[t] # <<>> => Head(todo'[t]) \in {"loop", "pop"}
         /\ Within("pop", todo'[t]) => Within("pop", todo[t])
<1>1. /\ cpu = t /\ todo[t] # <<>> /\ Head(todo[t]) = "arm" /\ UNCHANGED cpu /\ TodoInv
      /\ Goes(t, <<>>) /\ t \in Tasks
  BY TaskFacts DEF Arm, Does, Goes, ViewInv
<1> QED BY <1>1, GoesOff DEF After

LEMMA ArmStep ==
  ASSUME ViewInv, NEW t \in Tasks, Arm(t)
  PROVE  ViewInv'
<1> USE DEF quicVars, connVars, queueVars, roleVars
<1> DEFINE n == CHOOSE n \in Timers : timer[n] = "dead"
<1>1. /\ cpu = t /\ todo[t] # <<>> /\ Head(todo[t]) = "arm" /\ UNCHANGED cpu /\ TodoInv
      /\ Goes(t, <<>>) /\ lock' = Tail(lock)
      /\ handle' = n /\ timer' = [timer EXCEPT ![n] = "sleeping"]
      /\ UNCHANGED <<quicVars, connVars, wait, queueVars, roleVars>>
  BY DEF Arm, Does, Goes, ViewInv
<1>2. /\ server # "crashed" /\ wait[t] = "no" /\ (t \in Timers => timer[t] = "awake")
      /\ t # "none" /\ Timers \subseteq Tasks
  BY <1>1, Running, TaskFacts
<1>3. Heads(t, {"arm", "disarm"}) /\ \A m \in Timers : m # t => timer[m] = "dead"
  <2>1. Heads(t, {"arm", "disarm"})
    BY <1>1 DEF Heads
  <2> QED BY <2>1, <1>1, Between
<1>4. n \in Timers /\ n # t
  <2>1. \E m \in Timers : m # t
    BY QuicAssumption
  <2>2. \E m \in Timers : timer[m] = "dead"
    BY <2>1, <1>3
  <2>3. n \in Timers /\ timer[n] = "dead"
    BY <2>2
  <2> QED BY <2>3, <1>2
<1> HIDE DEF n
<1>5. /\ timer \in [Timers -> {"dead", "sleeping", "awake"}]
      /\ \A m \in Timers : timer'[m] = IF m = n THEN "sleeping" ELSE timer[m]
      /\ timer' \in [Timers -> {"dead", "sleeping", "awake"}]
  BY <1>1 DEF ViewInv, TypeOK
<1>6. /\ TodoInv' /\ \A s \in Tasks : s # t => todo'[s] = todo[s]
      /\ todo'[t] # <<>> => Head(todo'[t]) \in {"loop", "pop"}
  BY ArmTodo
<1>7. /\ LockInv' /\ lock' \in Seq(Tasks)
      /\ \A i, j \in 1 .. Len(lock') : i # j => lock'[i] # lock'[j]
      /\ \A s \in Tasks : s # t => ~Heads(s, {"arm", "disarm"})
  BY <1>1, <1>3, <1>6, Released
<1>8. WaitInv'
  BY <1>1, <1>2, <1>6 DEF ViewInv, WaitInv, Heads
<1>9. Sleepers' /\ Alive'
  BY <1>1, <1>2, <1>3, <1>5 DEF Sleepers, Alive
<1>10. Resting'
  BY <1>1, <1>2, <1>3, <1>4, <1>5, <1>6 DEF ViewInv, TimerInv, Resting
<1>11. Holding'
  <2>1. \A s \in Tasks : ~Heads(s, {"arm", "disarm"})'
    BY <1>6, <1>7 DEF Heads
  <2> QED BY <2>1 DEF Holding
<1>12. Replaced'
  <2>1. t \in Timers => todo'[t] = <<>>
    BY <1>6, NoneAfter
  <2> QED BY <1>1, <2>1 DEF Replaced
<1>13. LastEvent' /\ Closing'
  BY <1>1, <1>6, ClosingStays DEF ViewInv, EndInv, LastEvent, StaysEnded
<1>14. TypeOK'
  <2>1. \A s \in Tasks : wait'[s] \in {"no", "tick"} \/ todo'[s] # <<>>
    BY <1>1, <1>2, <1>6 DEF ViewInv, TypeOK
  <2> QED BY <2>1, <1>1, <1>4, <1>5, <1>7 DEF ViewInv, TypeOK
<1> QED BY <1>1, <1>6, <1>7, <1>8, <1>9, <1>10, <1>11, <1>12, <1>13, <1>14
        DEF ViewInv, CidsAgree, TimerInv, EndInv

LEMMA DisarmTodo ==
  ASSUME ViewInv, NEW t \in Tasks, Disarm(t)
  PROVE  /\ cpu = t /\ todo[t] # <<>> /\ Head(todo[t]) = "disarm" /\ UNCHANGED cpu
         /\ TodoInv' /\ \A s \in Tasks : s # t => todo'[s] = todo[s]
         /\ todo'[t] # <<>> => Head(todo'[t]) = "forget"
         /\ Within("pop", todo'[t]) => Within("pop", todo[t])
<1>1. /\ cpu = t /\ todo[t] # <<>> /\ Head(todo[t]) = "disarm" /\ UNCHANGED cpu /\ TodoInv
      /\ Goes(t, <<>>) /\ t \in Tasks
  BY TaskFacts DEF Disarm, Does, Goes, ViewInv
<1> QED BY <1>1, GoesOff DEF After

LEMMA DisarmStep ==
  ASSUME ViewInv, NEW t \in Tasks, Disarm(t)
  PROVE  ViewInv'
<1> USE DEF quicVars, connVars, queueVars, roleVars
<1>1. /\ cpu = t /\ todo[t] # <<>> /\ Head(todo[t]) = "disarm" /\ UNCHANGED cpu /\ TodoInv
      /\ Goes(t, <<>>) /\ lock' = Tail(lock) /\ handle' = "none"
      /\ UNCHANGED <<quicVars, connVars, timer, wait, queueVars, roleVars>>
  BY DEF Disarm, Does, Goes, ViewInv
<1>2. /\ server # "crashed" /\ wait[t] = "no" /\ (t \in Timers => timer[t] = "awake")
      /\ t # "none" /\ Timers \subseteq Tasks
  BY <1>1, Running, TaskFacts
<1>3. Heads(t, {"arm", "disarm"}) /\ \A m \in Timers : m # t => timer[m] = "dead"
  <2>1. Heads(t, {"arm", "disarm"})
    BY <1>1 DEF Heads
  <2> QED BY <2>1, <1>1, Between
<1>4. quic = "done" /\ events = <<>>
  BY <1>1 DEF ViewInv, EndInv, Closing, Heads
<1>5. /\ TodoInv' /\ \A s \in Tasks : s # t => todo'[s] = todo[s]
      /\ todo'[t] # <<>> => Head(todo'[t]) = "forget"
  BY DisarmTodo
<1>6. /\ LockInv' /\ lock' \in Seq(Tasks)
      /\ \A i, j \in 1 .. Len(lock') : i # j => lock'[i] # lock'[j]
      /\ \A s \in Tasks : s # t => ~Heads(s, {"arm", "disarm"})
  BY <1>1, <1>3, <1>5, Released
<1>7. WaitInv'
  BY <1>1, <1>2, <1>5 DEF ViewInv, WaitInv, Heads
<1>8. Sleepers' /\ Alive'
  BY <1>1, <1>2, <1>3 DEF Sleepers, Alive
<1>9. Resting'
  BY <1>1, <1>2, <1>5 DEF ViewInv, TimerInv, Resting
<1>10. Holding'
  <2>1. \A s \in Tasks : ~Heads(s, {"arm", "disarm"})'
    BY <1>5, <1>6 DEF Heads
  <2> QED BY <2>1 DEF Holding
<1>11. Replaced'
  BY <1>1, <1>4, <1>5 DEF Replaced, Heads
<1>12. LastEvent' /\ Closing'
  BY <1>1, <1>4, <1>5, ClosingStays DEF ViewInv, EndInv, LastEvent, StaysEnded
<1>13. TypeOK'
  <2>1. \A s \in Tasks : wait'[s] \in {"no", "tick"} \/ todo'[s] # <<>>
    BY <1>1, <1>2, <1>5 DEF ViewInv, TypeOK
  <2> QED BY <2>1, <1>1, <1>6 DEF ViewInv, TypeOK
<1> QED BY <1>1, <1>5, <1>6, <1>7, <1>8, <1>9, <1>10, <1>11, <1>12, <1>13
        DEF ViewInv, CidsAgree, TimerInv, EndInv

\* What is left of the lock's queue.
LEMMA WithoutFacts ==
  ASSUME lock \in Seq(Tasks), \A i, j \in 1 .. Len(lock) : i # j => lock[i] # lock[j], NEW n
  PROVE  /\ Without(n) \in Seq(Tasks)
         /\ \A k \in 1 .. Len(Without(n)) : \E j \in 1 .. Len(lock) :
              Without(n)[k] = lock[j] /\ lock[j] # n /\ j >= k
         /\ \A k, l \in 1 .. Len(Without(n)) : k # l => Without(n)[k] # Without(n)[l]
         /\ lock # <<>> /\ lock[1] # n => Without(n) # <<>> /\ Without(n)[1] = lock[1]
<1>1. Len(lock) \in Nat
  OBVIOUS
<1>2. CASE \A i \in 1 .. Len(lock) : lock[i] # n
  <2>1. Without(n) = lock
    BY <1>2 DEF Without
  <2> QED BY <2>1, <1>1, <1>2
<1>3. CASE \E i \in 1 .. Len(lock) : lock[i] = n
  <2> DEFINE c == CHOOSE i \in 1 .. Len(lock) : lock[i] = n
  <2> DEFINE p == SubSeq(lock, 1, c - 1)
  <2> DEFINE q == SubSeq(lock, c + 1, Len(lock))
  <2> DEFINE w == p \o q
  <2>1. c \in 1 .. Len(lock) /\ lock[c] = n
    BY <1>3
  <2>2. Without(n) = w
    BY <1>3 DEF Without
  <2> HIDE DEF c
  <2>3. p \in Seq(Tasks) /\ Len(p) = c - 1 /\ \A k \in 1 .. c - 1 : p[k] = lock[k]
    <3>1. \A i \in 1 .. c - 1 : lock[i] \in Tasks
      BY <1>1, <2>1
    <3>2. c - 1 \in Int /\ 1 \in Int
      BY <2>1, <1>1
    <3>3. /\ p \in Seq(Tasks) /\ Len(p) = IF 1 <= c - 1 THEN (c - 1) - 1 + 1 ELSE 0
          /\ \A i \in 1 .. (c - 1) - 1 + 1 : p[i] = lock[1 + i - 1]
      BY <3>1, <3>2, SubSeqProperties
    <3> HIDE DEF p
    <3> QED BY <3>3, <2>1, <1>1
  <2>4. q \in Seq(Tasks) /\ Len(q) = Len(lock) - c /\ \A k \in 1 .. Len(lock) - c : q[k] = lock[c + k]
    <3>1. \A i \in c + 1 .. Len(lock) : lock[i] \in Tasks
      BY <1>1, <2>1
    <3>2. c + 1 \in Int /\ Len(lock) \in Int
      BY <2>1, <1>1
    <3>3. /\ q \in Seq(Tasks)
          /\ Len(q) = IF c + 1 <= Len(lock) THEN Len(lock) - (c + 1) + 1 ELSE 0
          /\ \A i \in 1 .. Len(lock) - (c + 1) + 1 : q[i] = lock[c + 1 + i - 1]
      BY <3>1, <3>2, SubSeqProperties
    <3> HIDE DEF q
    <3> QED BY <3>3, <2>1, <1>1
  <2> HIDE DEF p, q
  <2>5. /\ w \in Seq(Tasks) /\ Len(w) = Len(p) + Len(q)
        /\ \A k \in 1 .. Len(p) + Len(q) : w[k] = IF k <= Len(p) THEN p[k] ELSE q[k - Len(p)]
    BY <2>3, <2>4, ConcatProperties
  <2> HIDE DEF w
  <2>6. Len(w) = Len(lock) - 1
    BY <2>1, <2>3, <2>4, <2>5, <1>1
  <2>7. ASSUME NEW k \in 1 .. Len(w)
        PROVE  /\ k < c => k \in 1 .. Len(lock) /\ w[k] = lock[k] /\ k # c
               /\ k >= c => k + 1 \in 1 .. Len(lock) /\ w[k] = lock[k + 1] /\ k + 1 # c
    <3>1. CASE k < c
      BY <3>1, <2>1, <2>3, <2>4, <2>5, <2>6, <1>1
    <3>2. CASE k >= c
      <4>1. /\ k - Len(p) \in 1 .. Len(lock) - c /\ w[k] = q[k - Len(p)] /\ c + (k - Len(p)) = k + 1
            /\ k + 1 \in 1 .. Len(lock)
        BY <3>2, <2>1, <2>3, <2>4, <2>5, <2>6, <1>1
      <4>2. q[k - Len(p)] = lock[c + (k - Len(p))]
        BY <4>1, <2>4
      <4> QED BY <4>1, <4>2, <3>2, <2>1, <1>1
    <3> QED BY <3>1, <3>2, <2>1, <2>6, <1>1
  <2>8. ASSUME NEW k \in 1 .. Len(w)
        PROVE  \E j \in 1 .. Len(lock) : w[k] = lock[j] /\ lock[j] # n /\ j >= k
    <3>1. CASE k < c
      <4>1. k \in 1 .. Len(lock) /\ w[k] = lock[k] /\ lock[k] # lock[c]
        BY <3>1, <2>7, <2>1
      <4> QED BY <4>1, <2>1
    <3>2. CASE k >= c
      <4>1. k + 1 \in 1 .. Len(lock) /\ w[k] = lock[k + 1] /\ lock[k + 1] # lock[c] /\ k + 1 >= k
        BY <3>2, <2>7, <2>1, <2>6, <1>1
      <4> QED BY <4>1, <2>1
    <3> QED BY <3>1, <3>2, <2>1, <2>6, <1>1
  <2>9. ASSUME NEW k \in 1 .. Len(w), NEW l \in 1 .. Len(w), k # l
        PROVE  w[k] # w[l]
    <3> DEFINE a == IF k < c THEN k ELSE k + 1
    <3> DEFINE b == IF l < c THEN l ELSE l + 1
    <3>1. a \in 1 .. Len(lock) /\ w[k] = lock[a]
      BY <2>7, <2>1, <2>6, <1>1
    <3>2. b \in 1 .. Len(lock) /\ w[l] = lock[b]
      BY <2>7, <2>1, <2>6, <1>1
    <3>3. a # b
      BY <2>9, <2>1, <2>6, <1>1
    <3> HIDE DEF a, b
    <3> QED BY <3>1, <3>2, <3>3
  <2>10. ASSUME lock # <<>>, lock[1] # n
         PROVE  w # <<>> /\ w[1] = lock[1]
    <3>1. c > 1
      BY <2>10, <2>1
    <3>2. 1 \in 1 .. Len(w) /\ 1 < c
      BY <3>1, <2>1, <2>6, <1>1
    <3> QED BY <3>2, <2>7, <2>5
  <2> QED BY <2>2, <2>5, <2>8, <2>9, <2>10
<1> QED BY <1>2, <1>3

LEMMA OneTask ==
  ASSUME NEW t \in Tasks, NEW m, m = <<t>>
  PROVE  /\ m \in Seq(Tasks) /\ m # <<>> /\ Head(m) = t /\ m[1] = t
         /\ \A i \in 1 .. Len(m) : i = 1
<1>1. Len(m) = 1
  OBVIOUS
<1>2. \A i \in 1 .. Len(m) : i = 1
  BY ONLY <1>1
<1> QED BY <1>2

\* The one that cancels keeps the lock, or has it now.
LEMMA StillLocked ==
  ASSUME ViewInv, NEW t \in Tasks, cpu = t, Mine(t), handle # t \/ Cancelled(t) = {},
         lock' = IF lock = <<>> THEN <<t>> ELSE IF Cancelled(t) = {} THEN lock ELSE Without(handle)
  PROVE  /\ lock' \in Seq(Tasks) /\ lock' # <<>> /\ Head(lock') = t
         /\ \A i, j \in 1 .. Len(lock') : i # j => lock'[i] # lock'[j]
         /\ \A i \in 1 .. Len(lock') :
              IF i = 1 THEN lock'[i] = t
              ELSE /\ lock'[i] \in Tasks \ Cancelled(t) /\ lock'[i] # t
                   /\ Heads(lock'[i], LockOps) /\ wait[lock'[i]] = "lock"
<1>1. /\ lock \in Seq(Tasks) /\ Len(lock) \in Nat
      /\ \A i, j \in 1 .. Len(lock) : i # j => lock[i] # lock[j]
  BY DEF ViewInv, TypeOK
<1>2. \A i \in 1 .. Len(lock) : i > 1 =>
        /\ lock[i] \in Tasks /\ lock[i] # t /\ Heads(lock[i], LockOps) /\ wait[lock[i]] = "lock"
  BY Locked
<1>3. CASE lock = <<>>
  <2>1. lock' = <<t>>
    BY <1>3
  <2> QED BY <2>1, OneTask
<1>4. CASE lock # <<>> /\ Cancelled(t) = {}
  <2>1. lock' = lock /\ Head(lock) = t /\ lock[1] = t
    BY <1>4, <1>1 DEF Mine
  <2>2. ASSUME NEW i \in 1 .. Len(lock), i # 1
        PROVE  lock[i] \in Tasks /\ lock[i] # t /\ Heads(lock[i], LockOps) /\ wait[lock[i]] = "lock"
    <3>1. i > 1
      BY <2>2, <1>1
    <3> QED BY <3>1, <1>2
  <2> QED BY <2>1, <2>2, <1>1, <1>4
<1>5. CASE lock # <<>> /\ Cancelled(t) # {}
  <2> DEFINE w == Without(handle)
  <2>1. lock' = w /\ lock[1] = t /\ handle # t /\ Cancelled(t) = {handle}
    <3>1. handle # t
      BY <1>5
    <3> QED BY <3>1, <1>5, <1>1 DEF Mine, Cancelled
  <2>2. /\ w \in Seq(Tasks)
        /\ \A k \in 1 .. Len(w) : \E j \in 1 .. Len(lock) :
              w[k] = lock[j] /\ lock[j] # handle /\ j >= k
        /\ \A k, l \in 1 .. Len(w) : k # l => w[k] # w[l]
        /\ w # <<>> /\ w[1] = lock[1]
    BY <1>1, <1>5, <2>1, WithoutFacts
  <2> HIDE DEF w
  <2>3. ASSUME NEW k \in 1 .. Len(w), k # 1
        PROVE  /\ w[k] \in Tasks \ Cancelled(t) /\ w[k] # t
               /\ Heads(w[k], LockOps) /\ wait[w[k]] = "lock"
    <3>1. PICK j \in 1 .. Len(lock) : w[k] = lock[j] /\ lock[j] # handle /\ j >= k
      BY <2>2
    <3>2. j > 1
      BY <3>1, <2>3, <2>2, <1>1
    <3> QED BY <3>1, <3>2, <1>2, <2>1
  <2>4. Head(w) = w[1] /\ Len(w) \in Nat
    BY <2>2
  <2> QED BY <2>1, <2>2, <2>3, <2>4
<1> QED BY <1>3, <1>4, <1>5

\* What is left to do for the one that cancels, and for the others.
LEMMA CancelsTodo ==
  ASSUME ViewInv, NEW t \in Tasks, NEW op \in {"restart", "stop"}, Cancels(t, op)
  PROVE  /\ cpu = t /\ todo[t] # <<>> /\ Head(todo[t]) = op
         /\ Program(t, <<Then(op)>> \o Tail(todo[t])) /\ <<Then(op)>> \o Tail(todo[t]) # <<>>
         /\ Head(<<Then(op)>> \o Tail(todo[t])) = Then(op)
         /\ todo'[t] = <<Then(op)>> \o Tail(todo[t])
         /\ \A s \in Tasks : s # t => todo'[s] = IF s \in Cancelled(t) THEN <<>> ELSE todo[s]
         /\ Within("pop", todo'[t]) => Within("pop", todo[t])
<1> DEFINE q == <<Then(op)>> \o Tail(todo[t])
<1>1. /\ cpu = t /\ todo[t] # <<>> /\ Head(todo[t]) = op /\ Program(t, todo[t])
      /\ todo' = [s \in Tasks |-> IF s = t THEN q
                                  ELSE IF s \in Cancelled(t) THEN <<>> ELSE todo[s]]
  BY DEF Cancels, Does, ViewInv, TodoInv
<1>2. Then(op) \in Ops \ (Puts \cup {"loop", "pop"}) /\ After(op) \subseteq After(Then(op))
  BY DEF Then, Ops, After
<1>3. /\ Program(t, <<Then(op)>>) /\ <<Then(op)>> # <<>> /\ Head(<<Then(op)>>) = Then(op)
      /\ <<Then(op)>>[Len(<<Then(op)>>)] = Then(op) /\ ~Within("pop", <<Then(op)>>)
  BY <1>2, Ones
<1>4. After(Head(todo[t])) \subseteq After(<<Then(op)>>[Len(<<Then(op)>>)])
  BY <1>1, <1>2, <1>3
<1> HIDE DEF Puts
<1>5. ASSUME NEW m, m = <<Then(op)>>
      PROVE  /\ Program(t, m \o Tail(todo[t])) /\ m \o Tail(todo[t]) # <<>>
             /\ Head(m \o Tail(todo[t])) = Then(op)
             /\ Within("pop", m \o Tail(todo[t])) => Within("pop", todo[t])
  <2>1. /\ Program(t, m) /\ m # <<>> /\ Head(m) = Then(op) /\ ~Within("pop", m)
        /\ After(Head(todo[t])) \subseteq After(m[Len(m)])
    BY <1>3, <1>4, <1>5
  <2> QED BY <2>1, <1>1, ProgramInstead
<1>6. /\ Program(t, q) /\ q # <<>> /\ Head(q) = Then(op)
      /\ Within("pop", q) => Within("pop", todo[t])
  BY <1>5
<1> HIDE DEF q
<1>7. todo'[t] = q /\ \A s \in Tasks : s # t => todo'[s] = IF s \in Cancelled(t) THEN <<>> ELSE todo[s]
  BY <1>1
<1> QED BY <1>1, <1>6, <1>7 DEF q

LEMMA CancelsStep ==
  ASSUME ViewInv, NEW t \in Tasks, NEW op \in {"restart", "stop"}, Cancels(t, op)
  PROVE  ViewInv'
<1> USE DEF quicVars, connVars, queueVars, roleVars
<1> DEFINE killed == Cancelled(t)
<1> DEFINE q == <<Then(op)>> \o Tail(todo[t])
<1> DEFINE waits == handle # "none" /\ timer[handle] # "dead"
<1>1. /\ cpu = t /\ todo[t] # <<>> /\ Head(todo[t]) = op /\ Mine(t) /\ TodoInv
      /\ lock' = IF lock = <<>> THEN <<t>> ELSE IF killed = {} THEN lock ELSE Without(handle)
      /\ todo' = [s \in Tasks |-> IF s = t THEN q ELSE IF s \in killed THEN <<>> ELSE todo[s]]
      /\ timer' = [n \in Timers |-> IF n \in killed THEN "dead" ELSE timer[n]]
      /\ UNCHANGED <<quicVars, connVars, handle, queueVars, roleVars>>
  BY DEF Cancels, Does, ViewInv
<1>2. /\ waits => /\ cpu' = "none"
                  /\ wait' = [s \in Tasks |-> IF s = t THEN "tick"
                                              ELSE IF s \in killed THEN "no" ELSE wait[s]]
      /\ ~waits => UNCHANGED <<cpu, wait>>
  BY DEF Cancels
<1> HIDE DEF waits
<1>3. /\ server # "crashed" /\ wait[t] = "no" /\ (t \in Timers => timer[t] = "awake" /\ t = handle)
      /\ t # "none" /\ Timers \subseteq Tasks /\ "none" \notin Tasks
  <2>1. ReplacedBy(t)
    BY <1>1, WasReplaced
  <2> QED BY <2>1, <1>1, Running, TaskFacts DEF ReplacedBy
<1>4. /\ handle \in Timers \cup {"none"} /\ killed = {handle} \ {"none", t} /\ t \notin killed
      /\ killed \subseteq Timers
  BY DEF Cancelled, ViewInv, TypeOK
<1> HIDE DEF killed
<1>5. Program(t, q) /\ q # <<>> /\ Head(q) = Then(op) /\ q \in Seq(Ops)
  BY CancelsTodo DEF Program
<1> HIDE DEF q
<1>6. \A s \in Tasks : todo'[s] = IF s = t THEN q ELSE IF s \in killed THEN <<>> ELSE todo[s]
  BY <1>1
<1>7. TodoInv'
  <2>1. todo' \in [Tasks -> Seq(Ops)]
    BY <1>1, <1>5 DEF TodoInv
  <2>2. \A s \in Tasks : Program(s, todo'[s])
    BY <1>1, <1>5, <1>6, ProgramEmpty DEF TodoInv
  <2> QED BY <2>1, <2>2 DEF TodoInv
<1>8. /\ timer \in [Timers -> {"dead", "sleeping", "awake"}]
      /\ \A n \in Timers : timer'[n] = IF n \in killed THEN "dead" ELSE timer[n]
      /\ timer' \in [Timers -> {"dead", "sleeping", "awake"}]
  BY <1>1 DEF ViewInv, TypeOK
<1>9. /\ wait \in [Tasks -> {"no", "lock", "tick", "put"}]
      /\ wait' \in [Tasks -> {"no", "lock", "tick", "put"}]
      /\ wait'[t] = IF waits THEN "tick" ELSE "no"
      /\ \A s \in Tasks : s # t => wait'[s] = IF s \in killed THEN "no" ELSE wait[s]
      /\ cpu' = IF waits THEN "none" ELSE t
  <2>1. wait \in [Tasks -> {"no", "lock", "tick", "put"}]
    BY DEF ViewInv, TypeOK
  <2>2. CASE waits
    BY <2>1, <2>2, <1>2, <1>4
  <2>3. CASE ~waits
    <3>1. \A s \in killed : wait[s] = "no"
      <4> SUFFICES ASSUME NEW s \in killed
                   PROVE  wait[s] = "no"
        OBVIOUS
      <4>1. s \in Timers /\ timer[s] = "dead"
        BY <2>3, <1>4 DEF waits
      <4> QED BY <4>1 DEF ViewInv, TimerInv, Resting
    <3> QED BY <2>1, <2>3, <3>1, <1>1, <1>2, <1>3
  <2> QED BY <2>2, <2>3
<1>10. /\ lock' \in Seq(Tasks) /\ lock' # <<>> /\ Head(lock') = t
       /\ \A i, j \in 1 .. Len(lock') : i # j => lock'[i] # lock'[j]
       /\ \A i \in 1 .. Len(lock') :
            IF i = 1 THEN lock'[i] = t
            ELSE /\ lock'[i] \in Tasks \ killed /\ lock'[i] # t
                 /\ Heads(lock'[i], LockOps) /\ wait[lock'[i]] = "lock"
  <2>1. handle # t \/ Cancelled(t) = {}
    BY DEF Cancelled
  <2> QED BY <2>1, <1>1, StillLocked DEF killed
<1>11. WaitInv'
  <2>1. ASSUME NEW s \in Tasks
        PROVE  (/\ wait[s] = "put" => full /\ Heads(s, Puts)
                /\ wait[s] = "lock" => Heads(s, {"restart", "stop"})
                /\ wait[s] = "tick" => Heads(s, {"arm", "disarm"}))'
    <3>1. CASE s = t
      BY <3>1, <1>5, <1>6, <1>9 DEF Heads, Then
    <3>2. CASE s # t
      BY <3>2, <1>1, <1>6, <1>9 DEF ViewInv, WaitInv, Heads
    <3> QED BY <3>1, <3>2
  <2>2. ASSUME NEW s \in Tasks, cpu' # s, todo'[s] # <<>>
        PROVE  wait'[s] # "no"
    <3>1. CASE s = t
      BY <3>1, <2>2, <1>9
    <3>2. CASE s # t
      BY <3>2, <2>2, <1>1, <1>3, <1>6, <1>9 DEF ViewInv, WaitInv
    <3> QED BY <3>1, <3>2
  <2> QED BY <2>1, <2>2, <1>1, <1>3 DEF WaitInv
<1>12. LockInv'
  <2> SUFFICES ASSUME NEW i \in 1 .. Len(lock')
               PROVE  (Heads(lock[i], LockOps) /\ (i > 1 => wait[lock[i]] = "lock"))'
    BY DEF LockInv
  <2>1. CASE i = 1
    <3>1. lock'[i] = t /\ todo'[t] = q
      BY <2>1, <1>6, <1>10
    <3> QED BY <2>1, <3>1, <1>5 DEF Heads, LockOps, Then
  <2>2. CASE i # 1
    <3>1. /\ lock'[i] \in Tasks \ killed /\ lock'[i] # t
          /\ Heads(lock'[i], LockOps) /\ wait[lock'[i]] = "lock"
      BY <2>2, <1>10
    <3> QED BY <3>1, <1>6, <1>9 DEF Heads
  <2> QED BY <2>1, <2>2
<1>13. Sleepers' /\ Alive'
  BY <1>1, <1>3, <1>4, <1>8 DEF ViewInv, TimerInv, Sleepers, Alive
<1>14. Resting'
  <2> SUFFICES ASSUME NEW n \in Timers, timer'[n] # "awake"
               PROVE  todo'[n] = <<>> /\ wait'[n] = "no" /\ cpu' # n
    BY DEF Resting
  <2>1. n # t /\ n \in Tasks /\ n # "none"
    BY <1>3, <1>4, <1>8
  <2> QED BY <2>1, <1>6, <1>8, <1>9 DEF ViewInv, TimerInv, Resting
<1>15. Holding'
  <2> SUFFICES ASSUME NEW s \in Tasks, Heads(s, {"arm", "disarm"})'
               PROVE  (/\ lock # <<>> /\ Head(lock) = s
                       /\ handle \in {"none", s} \/ timer[handle] = "dead")'
    BY DEF Holding
  <2>1. s = t
    <3> SUFFICES ASSUME s # t
                 PROVE  FALSE
      OBVIOUS
    <3>1. Heads(s, {"arm", "disarm"})
      BY <1>6 DEF Heads
    <3> QED BY <3>1, <1>1 DEF ViewInv, TimerInv, Holding, Mine
  <2>2. handle' \in {"none", t} \/ timer'[handle'] = "dead"
    BY <1>1, <1>4, <1>8
  <2> QED BY <2>1, <2>2, <1>10
<1>16. Replaced'
  BY <1>1, <1>3, <1>9 DEF Replaced
<1>17. EndInv'
  <2>1. LastEvent'
    BY <1>1 DEF ViewInv, EndInv, LastEvent
  <2>2. Closing'
    <3> SUFFICES ASSUME NEW s \in Tasks, Heads(s, {"stop", "disarm", "forget"})'
                 PROVE  quic' = "done" /\ events' = <<>>
      BY DEF Closing
    <3>1. Heads(s, {"stop", "disarm", "forget"})
      BY <1>1, <1>5, <1>6 DEF Heads, Then
    <3> QED BY <3>1, <1>1 DEF ViewInv, EndInv, Closing
  <2> QED BY <2>1, <2>2 DEF EndInv
<1>18. TypeOK'
  <2>1. \A s \in Tasks : wait'[s] \in {"no", "tick"} \/ todo'[s] # <<>>
    BY <1>11, <1>9 DEF WaitInv, Heads
  <2>2. cpu' \in Tasks \cup {"none"} /\ (cpu' # "none" => wait'[cpu'] = "no")
    BY <1>9
  <2>3. lock' \in Seq(Tasks) /\ \A i, j \in 1 .. Len(lock') : i # j => lock'[i] # lock'[j]
    BY <1>10, <1>1 DEF ViewInv, TypeOK
  <2>4. timer' \in [Timers -> {"dead", "sleeping", "awake"}] /\ handle' \in Timers \cup {"none"}
        /\ wait' \in [Tasks -> {"no", "lock", "tick", "put"}]
    BY <1>1, <1>8, <1>9 DEF ViewInv, TypeOK
  <2> QED BY <2>1, <2>2, <2>3, <2>4, <1>1, <1>8, <1>9 DEF ViewInv, TypeOK
<1> QED BY <1>1, <1>7, <1>11, <1>12, <1>13, <1>14, <1>15, <1>16, <1>17, <1>18
        DEF ViewInv, CidsAgree, TimerInv

----------------------------------------------------------------------------
(* One view of the connection.                                             *)

LEMMA ViewInit ==
  ASSUME Init
  PROVE  ViewInv
<1>1. /\ quic = "none" /\ events = <<>> /\ sent = 0 /\ table = {} /\ cids = {}
      /\ h3 = FALSE /\ stream = FALSE /\ handle = "none" /\ lock = <<>>
      /\ timer = [n \in Timers |-> "dead"] /\ cpu = "none"
      /\ todo = [t \in Tasks |-> <<>>] /\ wait = [t \in Tasks |-> "no"]
      /\ server = "running" /\ app = "none" /\ terminated = FALSE
      /\ queue = 0 /\ put = <<>> /\ full = FALSE /\ refused = FALSE
  BY DEF Init
<1>2. Timers \subseteq Tasks /\ "none" \notin Timers
  BY TaskFacts
<1>3. TodoInv
  BY <1>1, ProgramEmpty DEF TodoInv
<1>4. WaitInv /\ LockInv
  BY <1>1 DEF WaitInv, LockInv, Heads
<1>5. TimerInv
  BY <1>1, <1>2 DEF TimerInv, Sleepers, Resting, Alive, Holding, Replaced, Heads
<1>6. EndInv
  BY <1>1 DEF EndInv, LastEvent, Closing, Heads
<1>7. TypeOK
  <2>1. QueueSize \in Nat
    BY QuicAssumption
  <2>2. Len(Script) = 5
    BY DEF Script
  <2>3. /\ events \in Seq(Events) /\ put \in Seq(Puts) /\ lock \in Seq(Tasks) /\ Len(lock) = 0
        /\ sent \in 0 .. Len(Script) /\ queue \in 0 .. QueueSize
    BY <1>1, <2>1, <2>2
  <2>4. /\ timer \in [Timers -> {"dead", "sleeping", "awake"}]
        /\ wait \in [Tasks -> {"no", "lock", "tick", "put"}]
        /\ \A t \in Tasks : wait[t] = "no"
    BY <1>1
  <2>5. \A i, j \in 1 .. Len(lock) : i # j => lock[i] # lock[j]
    BY <2>3
  <2> HIDE DEF Puts
  <2> QED BY <2>3, <2>4, <2>5, <1>1 DEF TypeOK
<1> QED BY <1>1, <1>3, <1>4, <1>5, <1>6, <1>7 DEF ViewInv, CidsAgree

LEMMA StepCases ==
  ASSUME NEW t \in Tasks, Step(t)
  PROVE  /\ server # "crashed"
         /\ \/ Ends(t) \/ Handed(t) \/ Ticks(t) \/ Arm(t) \/ Disarm(t) \/ SendAll(t)
            \/ TakeEvent(t) \/ TakeH3Event(t) \/ NoMoreEvents(t) \/ Forget(t)
            \/ \E op \in {"restart", "stop"} : WaitsForLock(t, op) \/ Cancels(t, op)
            \/ \E op \in Puts : Put(t, op) \/ PutWaits(t, op) \/ KeyError(t, op)
BY DEF Step

LEMMA ViewStep ==
  ASSUME ViewInv, [Next]_vars
  PROVE  ViewInv'
<1>1. ASSUME NEW t \in Tasks, Step(t)
      PROVE  ViewInv'
  <2>1. CASE Ends(t) \/ Handed(t) \/ Ticks(t) \/ Arm(t) \/ Disarm(t)
    BY <1>1, <2>1, StepCases, EndsStep, WokenStep, ArmStep, DisarmStep
  <2>2. CASE SendAll(t) \/ TakeEvent(t) \/ TakeH3Event(t) \/ NoMoreEvents(t) \/ Forget(t)
    BY <2>2, SendAllStep, TakeEventStep, TakeH3EventStep, NoMoreEventsStep, ForgetStep
  <2>3. CASE \E op \in {"restart", "stop"} : WaitsForLock(t, op) \/ Cancels(t, op)
    BY <2>3, WaitsForLockStep, CancelsStep
  <2>4. CASE \E op \in Puts : Put(t, op) \/ PutWaits(t, op) \/ KeyError(t, op)
    BY <1>1, <2>4, StepCases, PutStep, PutWaitsStep, KeyErrorStep
  <2> QED BY <1>1, <2>1, <2>2, <2>3, <2>4, StepCases
<1>2. CASE \E n \in Timers : Fire(n)
  BY <1>2, FireStep
<1>3. CASE Connect \/ Datagram \/ OtherDatagram \/ Loop
  BY <1>3, ConnectStep, DatagramStep, OtherDatagramStep, LoopStep
<1>4. CASE Receive \/ Send \/ Finish \/ Pop \/ Terminate \/ UNCHANGED vars
  BY <1>4, QuietStep, SendStep, PopStep
<1> QED BY <1>1, <1>2, <1>3, <1>4 DEF Next

LEMMA ViewAlways == Spec => []ViewInv
<1>1. Init => ViewInv
  BY ViewInit
<1>2. ViewInv /\ [Next]_vars => ViewInv'
  BY ViewStep
<1> QED BY <1>1, <1>2, PTL DEF Spec

\* No two timers sleep: there is one that the connection knows.
LEMMA AtMostOne ==
  ASSUME ViewInv
  PROVE  OneTimer
<1> DEFINE S == {n \in Timers : timer[n] = "sleeping"}
<1>1. S \subseteq {handle}
  BY DEF ViewInv, TimerInv, Sleepers
<1>2. IsFiniteSet({handle}) /\ Cardinality({handle}) = 1
  BY FS_Singleton
<1>3. Cardinality(S) <= 1
  BY <1>1, <1>2, FS_Subset
<1> QED BY <1>3 DEF OneTimer

\* Server, applications and timers' tasks, which handle the connection's events
\* in turns, wait for its timer's lock and cancel each other, keep one view of
\* the connection: its table of identifiers is the connection's own list of
\* them, and at most one timer sleeps (quic.py:117, worker_context.py:14).
THEOREM OneViewCorrect == Spec => []OneView
<1>1. ViewInv => OneView
  BY AtMostOne DEF ViewInv, OneView
<1> QED BY <1>1, ViewAlways, PTL

----------------------------------------------------------------------------
(* The events that are still to come.                                      *)

LEMMA ComingSame ==
  ASSUME ComingInv, UNCHANGED <<events, sent>>
  PROVE  ComingInv' /\ (HeadersComing' <=> HeadersComing)
BY DEF ComingInv, HeadersComing

LEMMA ComingTaken ==
  ASSUME ViewInv, ComingInv, events # <<>>, events' = Tail(events), UNCHANGED sent
  PROVE  /\ ComingInv' /\ (HeadersComing' => HeadersComing)
         /\ Head(events) = "headers" => sent >= 2 /\ HeadersComing /\ ~HeadersComing'
         /\ Head(events) \in Data => sent > 2 /\ ~HeadersComing
         /\ Head(events) # "headers" => (HeadersComing' <=> HeadersComing)
<1>1. events \in Seq(Events) /\ sent \in Int
  BY DEF ViewInv, TypeOK
<1>2. /\ Len(events) \in Nat /\ Len(events) > 0 /\ Head(events) = events[1]
      /\ Len(events') = Len(events) - 1
      /\ \A i \in 1 .. Len(events') : events'[i] = events[i + 1] /\ i + 1 \in 1 .. Len(events)
  <2>1. Len(events') = Len(events) - 1 /\ \A i \in 1 .. Len(events') : events'[i] = events[i + 1]
    BY <1>1, HeadTailProperties
  <2> QED BY <1>1, <2>1, EmptySeq
<1>3. /\ \A i \in 1 .. Len(events) : events[i] = "headers" => sent >= 2
      /\ \A i \in 1 .. Len(events) : events[i] \in Data => sent > 2
      /\ \A i, j \in 1 .. Len(events) : i < j /\ events[j] = "headers" => events[i] \notin Data \cup {"headers"}
  BY DEF ComingInv
<1>4. ComingInv'
  <2>1. ASSUME NEW i \in 1 .. Len(events')
        PROVE  /\ events'[i] = "headers" => sent >= 2
               /\ events'[i] \in Data => sent > 2
    <3>1. i + 1 \in 1 .. Len(events) /\ events'[i] = events[i + 1]
      BY <1>2
    <3> QED BY <3>1, <1>3
  <2>2. ASSUME NEW i \in 1 .. Len(events'), NEW j \in 1 .. Len(events'), i < j, events'[j] = "headers"
        PROVE  events'[i] \notin Data \cup {"headers"}
    <3>1. /\ i + 1 \in 1 .. Len(events) /\ events'[i] = events[i + 1]
          /\ j + 1 \in 1 .. Len(events) /\ events'[j] = events[j + 1] /\ i + 1 < j + 1
      BY <1>2, <2>2
    <3> QED BY <3>1, <2>2, <1>3
  <2> QED BY <2>1, <2>2 DEF ComingInv
<1>5. HeadersComing' => HeadersComing
  <2> SUFFICES ASSUME NEW i \in 1 .. Len(events'), events'[i] = "headers"
               PROVE  HeadersComing
    BY DEF HeadersComing
  <2>1. i + 1 \in 1 .. Len(events) /\ events[i + 1] = "headers"
    BY <1>2
  <2> QED BY <2>1 DEF HeadersComing
<1>6. ASSUME events[1] \in Data \cup {"headers"}
      PROVE  ~HeadersComing' /\ (events[1] \in Data => ~HeadersComing)
  <2>1. ASSUME NEW j \in 1 .. Len(events), j # 1, events[j] = "headers"
        PROVE  FALSE
    <3>1. 1 \in 1 .. Len(events) /\ 1 < j
      BY <2>1, <1>2
    <3> QED BY <3>1, <2>1, <1>3, <1>6
  <2>2. ~HeadersComing'
    <3> SUFFICES ASSUME NEW i \in 1 .. Len(events'), events'[i] = "headers"
                 PROVE  FALSE
      BY DEF HeadersComing
    <3>1. i + 1 \in 1 .. Len(events) /\ events[i + 1] = "headers" /\ i + 1 # 1
      BY <1>2
    <3> QED BY <3>1, <2>1
  <2>3. events[1] \in Data => ~HeadersComing
    BY <2>1 DEF HeadersComing, Data
  <2> QED BY <2>2, <2>3
<1>7. 1 \in 1 .. Len(events)
  BY <1>2
<1>8. Head(events) = "headers" => sent >= 2 /\ HeadersComing
  BY <1>2, <1>3, <1>7 DEF HeadersComing
<1>9. Head(events) \in Data => sent > 2
  BY <1>2, <1>3, <1>7
<1>10. ASSUME Head(events) # "headers", HeadersComing
       PROVE  HeadersComing'
  <2>1. PICK j \in 1 .. Len(events) : events[j] = "headers"
    BY <1>10 DEF HeadersComing
  <2>2. j - 1 \in 1 .. Len(events') /\ (j - 1) + 1 = j
    BY <2>1, <1>2, <1>10
  <2>3. events'[j - 1] = "headers"
    BY <2>1, <2>2, <1>2
  <2> QED BY <2>2, <2>3 DEF HeadersComing
<1> QED BY <1>2, <1>4, <1>5, <1>6, <1>8, <1>9, <1>10

LEMMA ComingFire ==
  ASSUME ViewInv, ComingInv, NEW n \in Timers, Fire(n)
  PROVE  ComingInv' /\ (HeadersComing' <=> HeadersComing) /\ UNCHANGED sent
<1>1. CASE UNCHANGED quicVars
  BY <1>1, ComingSame DEF quicVars
<1>2. CASE events' = Append(events, "terminated") /\ UNCHANGED sent
  <2>1. events \in Seq(Events) /\ "terminated" \in Events
    BY DEF ViewInv, TypeOK, Events
  <2>2. /\ Len(events') = Len(events) + 1 /\ Len(events) \in Nat
        /\ events'[Len(events) + 1] = "terminated"
        /\ \A i \in 1 .. Len(events) : events'[i] = events[i]
    BY <1>2, <2>1, AppendProperties
  <2>3. HeadersComing' <=> HeadersComing
    BY <2>2 DEF HeadersComing
  <2>4. ASSUME NEW i \in 1 .. Len(events'), events'[i] \in Data \cup {"headers"}
        PROVE  i \in 1 .. Len(events) /\ events'[i] = events[i]
    BY <2>2, <2>4 DEF Data
  <2>5. ASSUME NEW i \in 1 .. Len(events')
        PROVE  /\ events'[i] = "headers" => sent >= 2
               /\ events'[i] \in Data => sent > 2
    BY <2>4 DEF ComingInv
  <2>6. ASSUME NEW i \in 1 .. Len(events'), NEW j \in 1 .. Len(events'), i < j, events'[j] = "headers"
        PROVE  events'[i] \notin Data \cup {"headers"}
    <3>1. j \in 1 .. Len(events) /\ events[j] = "headers"
      BY <2>4, <2>6
    <3>2. i \in 1 .. Len(events) /\ events'[i] = events[i]
      BY <3>1, <2>2, <2>6
    <3> QED BY <3>1, <3>2, <2>6 DEF ComingInv
  <2> QED BY <1>2, <2>3, <2>5, <2>6 DEF ComingInv
<1> QED BY <1>1, <1>2 DEF Fire

LEMMA ScriptFacts ==
  /\ Len(Script) = 5
  /\ Script[1] = "negotiated" /\ Script[2] = "headers" /\ Script[3] = "first"
  /\ Script[4] = "second" /\ Script[5] = "last"
  /\ \A k \in 1 .. 5 : /\ Script[k] = "headers" <=> k = 2
                       /\ Script[k] \in Data <=> k > 2
                       /\ Script[k] \in Events \ Special
<1>1. /\ Len(Script) = 5
      /\ Script[1] = "negotiated" /\ Script[2] = "headers" /\ Script[3] = "first"
      /\ Script[4] = "second" /\ Script[5] = "last"
  BY DEF Script
<1>2. \A k \in 1 .. 5 : k \in {1, 2, 3, 4, 5}
  OBVIOUS
<1>3. ASSUME NEW k \in {1, 2, 3, 4, 5}
      PROVE  /\ Script[k] = "headers" <=> k = 2
             /\ Script[k] \in Data <=> k > 2
             /\ Script[k] \in Events \ Special
  BY <1>1 DEF Data, Events, Special
<1> QED BY <1>1, <1>2, <1>3

\* What a packet of the client brings.
LEMMA Brings ==
  ASSUME ViewInv, Datagram
  PROVE  \/ UNCHANGED <<events, sent>>
         \/ /\ sent' \in sent + 1 .. 5
            /\ events' \in Seq(Events) /\ Len(events') = Len(events) + (sent' - sent)
            /\ \A i \in 1 .. Len(events') :
                 events'[i] = IF i <= Len(events) THEN events[i] ELSE Script[sent + (i - Len(events))]
         \/ events = <<>> /\ UNCHANGED sent /\ events' \in {<<"issued">>, <<"retired">>}
<1>1. /\ events \in Seq(Events) /\ sent \in 0 .. 5 /\ Len(events) \in Nat
  BY ScriptFacts DEF ViewInv, TypeOK
<1>2. CASE \E n \in 1 .. 2 : /\ sent + n <= Len(Script) /\ sent' = sent + n
                             /\ events' = events \o SubSeq(Script, sent + 1, sent + n)
  <2>1. PICK n \in 1 .. 2 : /\ sent + n <= 5 /\ sent' = sent + n
                            /\ events' = events \o SubSeq(Script, sent + 1, sent + n)
    BY <1>2, ScriptFacts
  <2> DEFINE p == SubSeq(Script, sent + 1, sent + n)
  <2>2. \A i \in sent + 1 .. sent + n : Script[i] \in Events
    BY <1>1, <2>1, ScriptFacts
  <2>3. p \in Seq(Events) /\ Len(p) = n /\ \A i \in 1 .. n : p[i] = Script[sent + i]
    <3>1. PICK a \in Int : a = sent + 1
      BY <1>1
    <3>2. PICK b \in Int : b = sent + n
      BY <1>1
    <3>3. \A i \in a .. b : Script[i] \in Events
      BY <2>2, <3>1, <3>2
    <3>4. /\ SubSeq(Script, a, b) \in Seq(Events)
          /\ Len(SubSeq(Script, a, b)) = IF a <= b THEN b - a + 1 ELSE 0
          /\ \A i \in 1 .. b - a + 1 : SubSeq(Script, a, b)[i] = Script[a + i - 1]
      BY <3>3, SubSeqProperties
    <3>5. p = SubSeq(Script, a, b)
      BY <3>1, <3>2
    <3> HIDE DEF p
    <3>6. b - a + 1 = n /\ a <= b /\ \A i \in 1 .. n : a + i - 1 = sent + i
      BY <3>1, <3>2, <1>1
    <3> QED BY <3>4, <3>5, <3>6
  <2>4. events' = events \o p
    BY <2>1
  <2> HIDE DEF p
  <2>5. /\ events' \in Seq(Events) /\ Len(events') = Len(events) + n
        /\ \A i \in 1 .. Len(events) + n :
             events'[i] = IF i <= Len(events) THEN events[i] ELSE p[i - Len(events)]
    BY <1>1, <2>3, <2>4, ConcatProperties
  <2>6. ASSUME NEW i \in 1 .. Len(events')
        PROVE  events'[i] = IF i <= Len(events) THEN events[i] ELSE Script[sent + (i - Len(events))]
    <3>1. i > Len(events) => i - Len(events) \in 1 .. n
      BY <2>5, <1>1
    <3> QED BY <3>1, <2>3, <2>5, <1>1
  <2> QED BY <1>1, <2>1, <2>5, <2>6
<1>3. CASE UNCHANGED quicVars
  BY <1>3 DEF quicVars
<1> QED BY <1>2, <1>3 DEF Datagram

LEMMA ComingDatagram ==
  ASSUME ViewInv, ComingInv, Datagram
  PROVE  /\ ComingInv' /\ sent \in 0 .. 5 /\ sent' \in sent .. 5
         /\ HeadersComing => HeadersComing'
         /\ sent >= 2 /\ HeadersComing' => HeadersComing
         /\ sent < 2 /\ sent' >= 2 => HeadersComing'
<1>1. events \in Seq(Events) /\ sent \in 0 .. 5 /\ Len(events) \in Nat
  BY ScriptFacts DEF ViewInv, TypeOK
<1>2. CASE UNCHANGED <<events, sent>>
  BY <1>1, <1>2, ComingSame
<1>3. CASE events = <<>> /\ UNCHANGED sent /\ events' \in {<<"issued">>, <<"retired">>}
  <2>1. \A i \in 1 .. Len(events') : events'[i] \notin Data \cup {"headers"}
    <3>1. PICK e \in {"issued", "retired"} : events' = <<e>>
      BY <1>3
    <3>2. Len(events') = 1 /\ events'[1] = e
      BY <3>1
    <3> QED BY <3>2 DEF Data
  <2>2. ComingInv' /\ ~HeadersComing'
    BY <2>1 DEF ComingInv, HeadersComing
  <2>3. ~HeadersComing
    BY <1>3 DEF HeadersComing
  <2> QED BY <1>1, <1>3, <2>2, <2>3
<1>4. CASE /\ sent' \in sent + 1 .. 5
           /\ events' \in Seq(Events) /\ Len(events') = Len(events) + (sent' - sent)
           /\ \A i \in 1 .. Len(events') :
                events'[i] = IF i <= Len(events) THEN events[i] ELSE Script[sent + (i - Len(events))]
  <2> DEFINE src(i) == sent + (i - Len(events))
  <2>1. ASSUME NEW i \in 1 .. Len(events')
        PROVE  \/ i \in 1 .. Len(events) /\ events'[i] = events[i]
               \/ i > Len(events) /\ src(i) \in 1 .. 5 /\ src(i) > sent /\ src(i) <= sent'
                  /\ events'[i] = Script[src(i)]
    <3>1. events'[i] = IF i <= Len(events) THEN events[i] ELSE Script[src(i)]
      BY <1>4
    <3>2. i <= Len(events) => i \in 1 .. Len(events)
      BY <1>1
    <3>3. i > Len(events) => src(i) \in 1 .. 5 /\ src(i) > sent /\ src(i) <= sent'
      <4>1. PICK m \in Nat : m = Len(events)
        BY <1>1
      <4>2. PICK u \in 0 .. 5 : u = sent'
        BY <1>1, <1>4
      <4>3. i \in Nat /\ i <= m + (u - sent)
        BY <1>4, <4>1, <4>2, <1>1
      <4> QED BY <4>1, <4>2, <4>3, <1>1
    <3> QED BY <3>1, <3>2, <3>3, <1>1, <1>4
  <2>2. ASSUME NEW i \in 1 .. Len(events')
        PROVE  /\ events'[i] = "headers" => sent' >= 2
               /\ events'[i] \in Data => sent' > 2
    <3>1. CASE i \in 1 .. Len(events) /\ events'[i] = events[i]
      BY <3>1, <1>1, <1>4 DEF ComingInv
    <3>2. CASE src(i) \in 1 .. 5 /\ src(i) <= sent' /\ events'[i] = Script[src(i)]
      <4>1. events'[i] = "headers" => src(i) = 2
        BY <3>2, ScriptFacts
      <4>2. events'[i] \in Data => src(i) > 2
        BY <3>2, ScriptFacts
      <4>3. src(i) \in Nat /\ sent' \in Nat /\ src(i) <= sent'
        BY <3>2, <1>1, <1>4
      <4> HIDE DEF src
      <4> QED BY <4>1, <4>2, <4>3
    <3> QED BY <2>1, <3>1, <3>2
  <2>3. ASSUME NEW i \in 1 .. Len(events'), NEW j \in 1 .. Len(events'), i < j, events'[j] = "headers"
        PROVE  events'[i] \notin Data \cup {"headers"}
    <3>1. CASE j \in 1 .. Len(events) /\ events'[j] = events[j]
      <4>1. i \in 1 .. Len(events) /\ events'[i] = events[i]
        BY <3>1, <2>1, <2>3, <1>1
      <4> QED BY <3>1, <4>1, <2>3 DEF ComingInv
    <3>2. CASE j > Len(events) /\ src(j) \in 1 .. 5 /\ src(j) > sent /\ events'[j] = Script[src(j)]
      <4>1. src(j) = 2
        BY <3>2, <2>3, ScriptFacts
      <4>2. sent < 2
        BY <3>2, <4>1, <1>1
      <4>3. CASE i \in 1 .. Len(events) /\ events'[i] = events[i]
        BY <4>2, <4>3, <1>1 DEF ComingInv
      <4>4. CASE src(i) \in 1 .. 5 /\ events'[i] = Script[src(i)]
        <5>1. src(i) < 2
          BY <4>1, <2>3, <1>1
        <5> QED BY <5>1, <4>4, ScriptFacts
      <4> QED BY <2>1, <4>3, <4>4
    <3> QED BY <2>1, <3>1, <3>2
  <2>4. ComingInv'
    BY <2>2, <2>3 DEF ComingInv
  <2>5. HeadersComing => HeadersComing'
    <3> SUFFICES ASSUME NEW i \in 1 .. Len(events), events[i] = "headers"
                 PROVE  HeadersComing'
      BY DEF HeadersComing
    <3>1. i \in 1 .. Len(events') /\ events'[i] = "headers"
      BY <1>1, <1>4
    <3> QED BY <3>1 DEF HeadersComing
  <2>6. ASSUME sent >= 2, HeadersComing'
        PROVE  HeadersComing
    <3>1. PICK i \in 1 .. Len(events') : events'[i] = "headers"
      BY <2>6 DEF HeadersComing
    <3>2. CASE i \in 1 .. Len(events) /\ events'[i] = events[i]
      BY <3>1, <3>2 DEF HeadersComing
    <3>3. CASE src(i) \in 1 .. 5 /\ src(i) > sent /\ events'[i] = Script[src(i)]
      BY <3>1, <3>3, <2>6, <1>1, ScriptFacts
    <3> QED BY <2>1, <3>2, <3>3
  <2>7. ASSUME sent < 2, sent' >= 2
        PROVE  HeadersComing'
    <3> DEFINE i == Len(events) + (2 - sent)
    <3>1. i \in 1 .. Len(events') /\ i > Len(events) /\ src(i) = 2
      BY <2>7, <1>1, <1>4
    <3>2. events'[i] = "headers"
      BY <3>1, <1>4, <1>1, ScriptFacts
    <3> QED BY <3>1, <3>2 DEF HeadersComing
  <2> QED BY <1>1, <1>4, <2>4, <2>5, <2>6, <2>7
<1> QED BY <1>2, <1>3, <1>4, Brings

----------------------------------------------------------------------------
(* What makes the server fail.                                             *)

LEMMA StreamCalm ==
  ASSUME ViewInv, StreamInv, NEW t \in Tasks,
         \A s \in Tasks : s # t => todo'[s] \in {todo[s], <<>>},
         Heads(t, Puts)' => Heads(t, Puts), Within("pop", todo'[t]) => Within("pop", todo[t]),
         UNCHANGED <<sent, stream, app, refused>>, HeadersComing' <=> HeadersComing,
         server' = "crashed" => server = "crashed"
  PROVE  StreamInv'
<1>1. ASSUME NEW s \in Tasks, Heads(s, Puts)'
      PROVE  Heads(s, Puts)
  BY <1>1 DEF Heads
<1>2. Within("pop", todo'["app"]) => Within("pop", todo["app"])
  BY TaskFacts DEF Within
<1>3. \A s \in Tasks : Heads(s, Puts)' => sent > 2 /\ ~HeadersComing
  BY <1>1 DEF StreamInv
<1> QED BY <1>2, <1>3 DEF StreamInv, FailsLate

\* Nothing but what a task has to do has changed.
LEMMA StreamSame ==
  ASSUME ViewInv, ComingInv, StreamInv, NEW t \in Tasks,
         \A s \in Tasks : s # t => todo'[s] \in {todo[s], <<>>},
         Heads(t, Puts)' => Heads(t, Puts), Within("pop", todo'[t]) => Within("pop", todo[t]),
         UNCHANGED <<events, sent, stream, app, refused>>, server' = "crashed" => server = "crashed"
  PROVE  ComingInv' /\ StreamInv'
BY StreamCalm, ComingSame

LEMMA StreamTask ==
  ASSUME ViewInv, server # "crashed", ComingInv, StreamInv, NEW t \in Tasks,
         \/ Ends(t) \/ Handed(t) \/ Ticks(t) \/ Arm(t) \/ Disarm(t) \/ SendAll(t)
         \/ NoMoreEvents(t) \/ Forget(t)
         \/ \E op \in {"restart", "stop"} : WaitsForLock(t, op) \/ Cancels(t, op)
         \/ \E op \in Puts : Put(t, op) \/ PutWaits(t, op)
  PROVE  ComingInv' /\ StreamInv'
<1> USE DEF quicVars, connVars, queueVars, roleVars
<1>1. CASE Ends(t) \/ Handed(t) \/ Ticks(t) \/ (\E op \in {"restart", "stop"} : WaitsForLock(t, op))
           \/ (\E op \in Puts : PutWaits(t, op))
  <2>1. UNCHANGED <<todo, events, sent, stream, app, refused, server>>
    BY <1>1 DEF Ends, Handed, Ticks, WaitsForLock, PutWaits
  <2> QED BY <2>1, StreamSame DEF Heads
<1>2. CASE Arm(t)
  <2>1. UNCHANGED <<events, sent, stream, app, refused, server>>
    BY <1>2 DEF Arm
  <2> QED BY <1>2, <2>1, ArmTodo, StreamSame DEF Heads
<1>3. CASE Disarm(t)
  <2>1. UNCHANGED <<events, sent, stream, app, refused, server>>
    BY <1>3 DEF Disarm
  <2> QED BY <1>3, <2>1, DisarmTodo, StreamSame DEF Heads
<1>4. CASE SendAll(t)
  <2>1. UNCHANGED <<events, sent, stream, app, refused, server>>
    BY <1>4 DEF SendAll
  <2>2. ~Heads(t, Puts)'
    BY <1>4, SendAllTodo DEF Heads
  <2> QED BY <1>4, <2>1, <2>2, SendAllTodo, StreamSame
<1>5. CASE NoMoreEvents(t)
  <2>1. UNCHANGED <<events, sent, stream, app, refused, server>>
    BY <1>5 DEF NoMoreEvents
  <2> QED BY <1>5, <2>1, NoMoreEventsTodo, StreamSame DEF Heads
<1>6. CASE Forget(t)
  <2>1. UNCHANGED <<events, sent, stream, app, refused, server>>
    BY <1>6 DEF Forget
  <2> QED BY <1>6, <2>1, ForgetTodo, StreamSame DEF Heads
<1>7. ASSUME NEW op \in {"restart", "stop"}, Cancels(t, op)
      PROVE  ComingInv' /\ StreamInv'
  <2>1. UNCHANGED <<events, sent, stream, app, refused, server>>
    BY <1>7 DEF Cancels
  <2>2. /\ \A s \in Tasks : s # t => todo'[s] \in {todo[s], <<>>}
        /\ Within("pop", todo'[t]) => Within("pop", todo[t])
        /\ todo'[t] # <<>> /\ Head(todo'[t]) = Then(op)
    BY <1>7, CancelsTodo
  <2>3. ~Heads(t, Puts)'
    BY <2>2 DEF Heads, Then
  <2> QED BY <2>1, <2>2, <2>3, StreamSame
<1>8. ASSUME NEW op \in Puts, Put(t, op)
      PROVE  ComingInv' /\ StreamInv'
  <2>1. UNCHANGED <<events, sent, stream, app, refused, server>>
    BY <1>8 DEF Put
  <2>2. /\ \A s \in Tasks : s # t => todo'[s] = todo[s]
        /\ Within("pop", todo'[t]) => Within("pop", todo[t])
        /\ todo[t] # <<>> /\ Head(todo[t]) = op
    BY <1>8, PutTodo
  <2> QED BY <2>1, <2>2, StreamSame DEF Heads
<1> QED BY <1>1, <1>2, <1>3, <1>4, <1>5, <1>6, <1>7, <1>8

\* The headers open the stream, or are refused; data comes after them.
LEMMA StreamTakes ==
  ASSUME ViewInv, ComingInv, StreamInv, NEW t \in Tasks, TakeEvent(t) \/ TakeH3Event(t)
  PROVE  ComingInv' /\ StreamInv'
<1>1. events # <<>> /\ events' = Tail(events) /\ UNCHANGED <<sent, server>> /\ server # "crashed"
  <2>1. cpu = t
    BY DEF TakeEvent, TakeH3Event, Does
  <2> QED BY <2>1, Running DEF TakeEvent, TakeH3Event, roleVars
<1>2. /\ ComingInv' /\ (HeadersComing' => HeadersComing)
      /\ Head(events) = "headers" => sent >= 2 /\ HeadersComing /\ ~HeadersComing'
      /\ Head(events) \in Data => sent > 2 /\ ~HeadersComing
      /\ Head(events) # "headers" => (HeadersComing' <=> HeadersComing)
  BY <1>1, ComingTaken
<1>3. CASE TakeEvent(t)
  <2>1. UNCHANGED <<stream, app, refused>>
    BY <1>3 DEF TakeEvent, roleVars
  <2>2. Head(events) # "headers"
    BY <1>3 DEF TakeEvent
  <2>3. ~Heads(t, Puts)'
    BY <1>3, TakeEventTodo DEF Heads
  <2> QED BY <1>1, <1>2, <1>3, <2>1, <2>2, <2>3, TakeEventTodo, StreamCalm
<1>4. CASE TakeH3Event(t)
  <2>1. /\ \A s \in Tasks : s # t => todo'[s] = todo[s]
        /\ todo'[t] # <<>>
        /\ Head(events) = "headers" => Head(todo'[t]) = "next"
        /\ Head(events) \in {"headers"} \cup Data
        /\ Within("pop", todo'[t]) => Within("pop", todo[t])
    BY <1>4, TakeH3EventTodo DEF Data
  <2>2. Within("pop", todo'["app"]) => Within("pop", todo["app"])
    BY <2>1, TaskFacts
  <2>3. CASE Head(events) = "headers"
    <3>1. \/ stream' = TRUE /\ app' = "running"
          \/ refused' = TRUE /\ UNCHANGED <<stream, app>>
      BY <1>4, <2>3 DEF TakeH3Event
    <3>2. \A s \in Tasks : Heads(s, Puts)' => Heads(s, Puts)
      BY <2>1, <2>3 DEF Heads
    <3>3. app = "none" /\ ~Within("pop", todo["app"]) /\ \A s \in Tasks : ~Heads(s, Puts)
      BY <1>2, <2>3 DEF StreamInv
    <3>4. ~(sent < 2) /\ UNCHANGED sent
      <4>1. sent \in Int
        BY DEF ViewInv, TypeOK
      <4> QED BY <4>1, <1>1, <1>2, <2>3
    <3> QED BY <1>1, <1>2, <2>2, <2>3, <3>1, <3>2, <3>3, <3>4 DEF StreamInv, FailsLate
  <2>4. CASE Head(events) \in Data
    <3>1. UNCHANGED <<stream, app, refused>>
      BY <1>4, <2>4 DEF TakeH3Event, Data
    <3>2. sent > 2 /\ ~HeadersComing /\ ~HeadersComing'
      BY <1>2, <2>4
    <3> QED BY <1>1, <1>2, <2>2, <3>1, <3>2 DEF StreamInv, FailsLate
  <2> QED BY <2>1, <2>3, <2>4
<1> QED BY <1>3, <1>4

\* What a task begins with puts nothing.
LEMMA BegunTodo ==
  ASSUME ViewInv, NEW t \in Tasks, NEW ops, Program(t, ops), Begin(t, ops), ops # <<>>,
         Head(ops) \in {"next", "send", "loop"}
  PROVE  /\ \A s \in Tasks : s # t => todo'[s] = todo[s]
         /\ todo'[t] = ops /\ ~Heads(t, Puts)'
BY Begins DEF ViewInv, Heads

LEMMA OnesBegun ==
  /\ \A t : Program(t, <<"next">>) /\ <<"next">> # <<>> /\ Head(<<"next">>) = "next"
            /\ ~Within("pop", <<"next">>)
  /\ \A t : Program(t, <<"send">>) /\ <<"send">> # <<>> /\ Head(<<"send">>) = "send"
            /\ ~Within("pop", <<"send">>)
  /\ ~Within("pop", <<"next", "loop">>) /\ ~Within("pop", <<"loop">>)
<1>1. "next" \in Ops \ (Puts \cup {"loop", "pop"}) /\ "send" \in Ops \ (Puts \cup {"loop", "pop"})
  BY DEF Ops
<1>2. /\ Len(<<"next", "loop">>) = 2 /\ <<"next", "loop">>[1] = "next" /\ <<"next", "loop">>[2] = "loop"
      /\ Len(<<"loop">>) = 1 /\ <<"loop">>[1] = "loop"
  OBVIOUS
<1>3. ~Within("pop", <<"next", "loop">>) /\ ~Within("pop", <<"loop">>)
  BY <1>2 DEF Within
<1> QED BY <1>1, <1>3, Ones

LEMMA StreamServer ==
  ASSUME ViewInv, ComingInv, StreamInv, Connect \/ OtherDatagram \/ Loop
  PROVE  ComingInv' /\ StreamInv'
<1> USE DEF quicVars, connVars, queueVars, roleVars
<1>1. "server" \in Tasks
  BY TaskFacts
<1>2. CASE Connect
  <2>1. UNCHANGED <<events, sent, stream, app, refused, server>> /\ Begin("server", <<"next", "loop">>)
    BY <1>2 DEF Connect
  <2> QED BY <1>1, <2>1, Begun, OnesBegun, BegunTodo, StreamSame
<1>3. CASE OtherDatagram
  <2>1. UNCHANGED <<events, sent, stream, app, refused, server>> /\ Begin("server", <<"loop">>)
    BY <1>3 DEF OtherDatagram
  <2> QED BY <1>1, <2>1, Begun, OnesBegun, BegunTodo, StreamSame
<1>4. CASE Loop
  <2>1. UNCHANGED <<events, sent, stream, app, refused>> /\ server' \in {"ended", server}
    BY <1>4 DEF Loop
  <2> QED BY <1>1, <1>4, <2>1, LoopTodo, StreamSame DEF Heads
<1> QED BY <1>2, <1>3, <1>4

LEMMA StreamFire ==
  ASSUME ViewInv, ComingInv, StreamInv, NEW n \in Timers, Fire(n)
  PROVE  ComingInv' /\ StreamInv'
<1>1. n \in Tasks /\ Begin(n, <<"next">>) /\ UNCHANGED <<stream, app, refused, server>>
  BY TaskFacts DEF Fire, connVars, roleVars
<1>2. ComingInv' /\ (HeadersComing' <=> HeadersComing) /\ UNCHANGED sent
  BY ComingFire
<1> QED BY <1>1, <1>2, OnesBegun, BegunTodo, StreamCalm

LEMMA StreamDatagram ==
  ASSUME ViewInv, ComingInv, StreamInv, Datagram
  PROVE  ComingInv' /\ StreamInv'
<1>1. /\ "server" \in Tasks /\ Begin("server", <<"next", "loop">>)
      /\ UNCHANGED <<stream, app, refused, server>>
  BY TaskFacts DEF Datagram, connVars, roleVars
<1>2. /\ ComingInv' /\ sent \in 0 .. 5 /\ sent' \in sent .. 5
      /\ HeadersComing => HeadersComing'
      /\ sent >= 2 /\ HeadersComing' => HeadersComing
      /\ sent < 2 /\ sent' >= 2 => HeadersComing'
  BY ComingDatagram
<1>3. /\ \A s \in Tasks : s # "server" => todo'[s] = todo[s]
      /\ ~Heads("server", Puts)'
  BY <1>1, Begun, BegunTodo
<1>4. \A s \in Tasks : Heads(s, Puts)' => Heads(s, Puts)
  BY <1>3 DEF Heads
<1>5. todo'["app"] = todo["app"]
  BY <1>3, TaskFacts
<1>6. sent' < 2 \/ HeadersComing' => sent < 2 \/ HeadersComing
  BY <1>2
<1>7. sent' >= 2 /\ ~HeadersComing' => sent >= 2 /\ ~HeadersComing
  BY <1>2
<1>8. sent > 2 /\ ~HeadersComing => sent' > 2 /\ ~HeadersComing'
  BY <1>2
<1> QED BY <1>1, <1>2, <1>4, <1>5, <1>6, <1>7, <1>8 DEF StreamInv, FailsLate

LEMMA StreamApp ==
  ASSUME ViewInv, ComingInv, StreamInv, Receive \/ Send \/ Finish \/ Pop \/ Terminate \/ UNCHANGED vars
  PROVE  ComingInv' /\ StreamInv'
<1> USE DEF quicVars, connVars, taskVars, queueVars, roleVars, vars
<1>1. "app" \in Tasks
  BY TaskFacts
<1>2. CASE Receive \/ Terminate \/ UNCHANGED vars
  <2>1. UNCHANGED <<events, sent, stream, app, refused, server, todo>>
    BY <1>2 DEF Receive, Terminate
  <2> QED BY <1>1, <2>1, StreamSame DEF Heads
<1>3. CASE Send
  <2>1. UNCHANGED <<events, sent, stream, app, refused, server>> /\ Begin("app", <<"send">>)
    BY <1>3 DEF Send, Sending
  <2> QED BY <1>1, <2>1, OnesBegun, BegunTodo, StreamSame
<1>4. CASE Finish
  <2>1. /\ UNCHANGED <<events, sent, stream, refused, server>> /\ Begin("app", <<"send", "pop">>)
        /\ app = "running" /\ app' = "done" /\ server # "crashed"
    BY <1>4 DEF Finish, Idle
  <2>2. ComingInv' /\ (HeadersComing' <=> HeadersComing)
    BY <2>1, ComingSame
  <2>3. \A s \in Tasks : Heads(s, Puts)' => Heads(s, Puts)
    <3>1. /\ \A s \in Tasks : s # "app" => todo'[s] = todo[s]
          /\ ~Heads("app", Puts)'
      BY <1>1, <2>1, Begun, BegunTodo
    <3> QED BY <3>1 DEF Heads
  <2> QED BY <2>1, <2>2, <2>3 DEF StreamInv, FailsLate
<1>5. CASE Pop
  <2>1. UNCHANGED <<events, sent, app, refused, server>>
    BY <1>5 DEF Pop
  <2>2. /\ todo["app"] # <<>> /\ Head(todo["app"]) = "pop"
        /\ \A s \in Tasks : s # "app" => todo'[s] = todo[s]
        /\ todo'["app"] = <<>>
    BY <1>5, PopTodo
  <2>3. app = "done"
    <3>1. todo["app"] \in Seq(Ops)
      BY <1>1 DEF ViewInv, TodoInv
    <3>2. 1 \in 1 .. Len(todo["app"]) /\ todo["app"][1] = "pop"
      BY <3>1, <2>2, EmptySeq
    <3>3. Within("pop", todo["app"])
      BY <3>2 DEF Within
    <3> QED BY <3>3 DEF StreamInv
  <2>4. ComingInv' /\ (HeadersComing' <=> HeadersComing)
    BY <2>1, ComingSame
  <2>5. \A s \in Tasks : Heads(s, Puts)' => Heads(s, Puts)
    BY <2>2 DEF Heads
  <2> QED BY <2>1, <2>3, <2>4, <2>5 DEF StreamInv, FailsLate
<1> QED BY <1>2, <1>3, <1>4, <1>5

LEMMA StreamFails ==
  ASSUME ViewInv, ComingInv, StreamInv, NEW t \in Tasks, NEW op \in Puts, KeyError(t, op)
  PROVE  ComingInv' /\ StreamInv'
<1>1. /\ UNCHANGED <<events, sent, stream, app, refused, todo>> /\ Heads(t, Puts) /\ ~stream
  BY DEF KeyError, Does, Heads, quicVars, connVars
<1>2. ComingInv' /\ (HeadersComing' <=> HeadersComing)
  BY <1>1, ComingSame
<1>3. app = "done" \/ refused
  <2>1. sent > 2 /\ ~HeadersComing
    BY <1>1 DEF StreamInv
  <2>2. sent >= 2
    <3>1. sent \in Int
      BY DEF ViewInv, TypeOK
    <3> QED BY <3>1, <2>1
  <2> QED BY <2>1, <2>2, <1>1 DEF StreamInv
<1> QED BY <1>1, <1>2, <1>3 DEF StreamInv, FailsLate, Heads

LEMMA StreamInit ==
  ASSUME Init
  PROVE  ComingInv /\ StreamInv
<1>1. /\ events = <<>> /\ sent = 0 /\ app = "none" /\ server = "running"
      /\ todo = [t \in Tasks |-> <<>>] /\ "app" \in Tasks
  BY TaskFacts DEF Init
<1>2. ComingInv /\ ~HeadersComing
  BY <1>1 DEF ComingInv, HeadersComing
<1>3. ~Within("pop", todo["app"]) /\ \A t \in Tasks : ~Heads(t, Puts)
  BY <1>1 DEF Within, Heads
<1> QED BY <1>1, <1>2, <1>3 DEF StreamInv, FailsLate

LEMMA StreamStep ==
  ASSUME ViewInv, ComingInv, StreamInv, [Next]_vars
  PROVE  ComingInv' /\ StreamInv'
<1>1. ASSUME NEW t \in Tasks, Step(t)
      PROVE  ComingInv' /\ StreamInv'
  <2>1. CASE TakeEvent(t) \/ TakeH3Event(t)
    BY <2>1, StreamTakes
  <2>2. CASE \E op \in Puts : KeyError(t, op)
    BY <2>2, StreamFails
  <2>3. CASE \/ Ends(t) \/ Handed(t) \/ Ticks(t) \/ Arm(t) \/ Disarm(t) \/ SendAll(t)
             \/ NoMoreEvents(t) \/ Forget(t)
             \/ \E op \in {"restart", "stop"} : WaitsForLock(t, op) \/ Cancels(t, op)
             \/ \E op \in Puts : Put(t, op) \/ PutWaits(t, op)
    BY <1>1, <2>3, StepCases, StreamTask
  <2> QED BY <1>1, <2>1, <2>2, <2>3, StepCases
<1>2. CASE \E n \in Timers : Fire(n)
  BY <1>2, StreamFire
<1>3. CASE Connect \/ Datagram \/ OtherDatagram \/ Loop
  BY <1>3, StreamServer, StreamDatagram
<1>4. CASE Receive \/ Send \/ Finish \/ Pop \/ Terminate \/ UNCHANGED vars
  BY <1>4, StreamApp
<1> QED BY <1>1, <1>2, <1>3, <1>4 DEF Next

----------------------------------------------------------------------------
(* The order of the application's messages.                                *)

LEMMA PromptNext ==
  ASSUME Prompt, NEW t \in Tasks, cpu \in {t, "none"}, cpu' \in {t, "none"},
         \A s \in Tasks : s # t => todo'[s] \in {todo[s], <<>>},
         cpu' = "none" => events' = <<>> /\ (todo'[t] = <<>> \/ Heads(t, LockOps)'),
         cpu' = t => events' = <<>> \/ Heads(t, Puts \cup {"next"})'
  PROVE  Prompt'
<1>0. t # "none" /\ "none" \notin Tasks
  BY TaskFacts
<1>1. ASSUME NEW s \in Tasks, s # cpu'
      PROVE  todo'[s] = <<>> \/ Heads(s, LockOps)'
  <2>1. CASE s = t
    BY <1>1, <2>1
  <2>2. CASE s # t
    <3>1. todo[s] = <<>> \/ Heads(s, LockOps)
      BY <2>2, <1>0 DEF Prompt
    <3> QED BY <3>1, <2>2 DEF Heads
  <2> QED BY <2>1, <2>2
<1>2. events' # <<>> => cpu' # "none" /\ Heads(cpu, Puts \cup {"next"})'
  BY <1>0 DEF Heads
<1> QED BY <1>1, <1>2 DEF Prompt

\* Nothing is being put.
NoPut == cpu = "none" \/ ~Heads(cpu, Puts)

LEMMA OrderSame ==
  ASSUME OrderInv, server # "crashed", UNCHANGED <<events, sent, put, full>>,
         ~full => NoPut /\ NoPut' /\ Prompt'
  PROVE  OrderInv'
<1>1. ASSUME ~full
      PROVE  Prompt' /\ Whole'
  <2>1. NoPut /\ NoPut' /\ Prompt' /\ Whole
    BY <1>1 DEF OrderInv
  <2>2. Lag = 0 /\ Lag' = 0
    BY <2>1 DEF Lag, NoPut
  <2>3. Untaken' = Untaken
    BY DEF Untaken
  <2> QED BY <2>1, <2>2, <2>3 DEF Whole, NoPut
<1> QED BY <1>1 DEF OrderInv

\* A task that is not at an event or a put finds no event.
LEMMA NothingToTake ==
  ASSUME OrderInv, server # "crashed", ~full, cpu = "none" \/ ~Heads(cpu, Puts \cup {"next"})
  PROVE  events = <<>> /\ Prompt /\ NoPut
BY DEF OrderInv, Prompt, NoPut, Heads

LEMMA OrderTask ==
  ASSUME ViewInv, server # "crashed", OrderInv, NEW t \in Tasks,
         \/ Ends(t) \/ Handed(t) \/ Ticks(t) \/ Arm(t) \/ Disarm(t) \/ SendAll(t)
         \/ NoMoreEvents(t) \/ Forget(t)
         \/ \E op \in {"restart", "stop"} : WaitsForLock(t, op) \/ Cancels(t, op)
  PROVE  OrderInv'
<1> USE DEF quicVars, connVars, queueVars, roleVars
<1>0. t # "none"
  BY TaskFacts
<1>1. CASE Ends(t)
  <2>1. UNCHANGED <<events, sent, put, full, todo>> /\ cpu = t /\ todo[t] = <<>> /\ cpu' = "none"
    BY <1>1 DEF Ends
  <2>2. ASSUME ~full
        PROVE  NoPut /\ NoPut' /\ Prompt'
    <3>1. events = <<>> /\ Prompt /\ NoPut
      BY <2>1, <2>2, NothingToTake DEF Heads
    <3>2. Prompt'
      BY <1>0, <2>1, <3>1, PromptNext DEF Heads
    <3> QED BY <2>1, <3>1, <3>2 DEF NoPut
  <2> QED BY <2>1, <2>2, OrderSame
<1>2. CASE Handed(t) \/ Ticks(t)
  <2>1. /\ UNCHANGED <<events, sent, put, full, todo>> /\ cpu = "none" /\ cpu' = t
        /\ wait[t] \in {"lock", "tick"}
    BY <1>2 DEF Handed, Ticks
  <2>2. Heads(t, LockOps)
    BY <2>1 DEF ViewInv, WaitInv, Heads, LockOps
  <2>3. ASSUME ~full
        PROVE  NoPut /\ NoPut' /\ Prompt'
    <3>1. events = <<>> /\ Prompt /\ NoPut
      BY <2>1, <2>3, NothingToTake
    <3>2. Prompt'
      BY <1>0, <2>1, <3>1, PromptNext
    <3> QED BY <2>1, <2>2, <3>1, <3>2 DEF NoPut, Heads, LockOps
  <2> QED BY <2>1, <2>3, OrderSame
<1>3. CASE Arm(t) \/ Disarm(t) \/ SendAll(t) \/ Forget(t)
  <2>1. UNCHANGED <<events, sent, put, full>>
    BY <1>3 DEF Arm, Disarm, SendAll, Forget
  <2>2. /\ cpu = t /\ UNCHANGED cpu /\ ~Heads(t, Puts \cup {"next"})
        /\ \A s \in Tasks : s # t => todo'[s] = todo[s]
        /\ ~Heads(t, Puts)'
    BY <1>3, ArmTodo, DisarmTodo, SendAllTodo, ForgetTodo DEF Heads
  <2>3. ASSUME ~full
        PROVE  NoPut /\ NoPut' /\ Prompt'
    <3>1. events = <<>> /\ Prompt /\ NoPut
      BY <2>2, <2>3, NothingToTake
    <3>2. Prompt'
      BY <1>0, <2>1, <2>2, <3>1, PromptNext
    <3> QED BY <2>2, <3>1, <3>2 DEF NoPut, Heads
  <2> QED BY <2>1, <2>3, OrderSame
<1>4. CASE NoMoreEvents(t)
  <2>1. UNCHANGED <<events, sent, put, full>> /\ events = <<>>
    BY <1>4 DEF NoMoreEvents
  <2>2. /\ cpu = t /\ UNCHANGED cpu /\ ~Heads(t, Puts)
        /\ \A s \in Tasks : s # t => todo'[s] = todo[s]
        /\ ~Heads(t, Puts)'
    BY <1>4, NoMoreEventsTodo DEF Heads
  <2>3. ASSUME ~full
        PROVE  NoPut /\ NoPut' /\ Prompt'
    <3>1. Prompt
      BY <2>3 DEF OrderInv
    <3>2. Prompt'
      BY <1>0, <2>1, <2>2, <3>1, PromptNext
    <3> QED BY <2>2, <3>2 DEF NoPut, Heads
  <2> QED BY <2>1, <2>3, OrderSame
<1>5. ASSUME NEW op \in {"restart", "stop"}, WaitsForLock(t, op)
      PROVE  OrderInv'
  <2>1. /\ UNCHANGED <<events, sent, put, full, todo>> /\ cpu = t /\ cpu' = "none"
        /\ Heads(t, LockOps) /\ ~Heads(t, Puts \cup {"next"})
    BY <1>5 DEF WaitsForLock, Does, Suspends, Heads, LockOps
  <2>2. ASSUME ~full
        PROVE  NoPut /\ NoPut' /\ Prompt'
    <3>1. events = <<>> /\ Prompt /\ NoPut
      BY <2>1, <2>2, NothingToTake
    <3>2. Heads(t, LockOps)'
      BY <2>1 DEF Heads
    <3>3. Prompt'
      BY <1>0, <2>1, <3>1, <3>2, PromptNext
    <3> QED BY <2>1, <3>1, <3>3 DEF NoPut
  <2> QED BY <2>1, <2>2, OrderSame
<1>6. ASSUME NEW op \in {"restart", "stop"}, Cancels(t, op)
      PROVE  OrderInv'
  <2>1. UNCHANGED <<events, sent, put, full>> /\ cpu' \in {t, "none"}
    BY <1>6 DEF Cancels, Does
  <2>2. /\ cpu = t /\ ~Heads(t, Puts \cup {"next"})
        /\ \A s \in Tasks : s # t => todo'[s] \in {todo[s], <<>>}
        /\ todo'[t] # <<>> /\ Head(todo'[t]) \in {"arm", "disarm"}
    BY <1>6, CancelsTodo DEF Heads, Then
  <2>3. ASSUME ~full
        PROVE  NoPut /\ NoPut' /\ Prompt'
    <3>1. events = <<>> /\ Prompt /\ NoPut
      BY <2>2, <2>3, NothingToTake
    <3>2. Heads(t, LockOps)' /\ ~Heads(t, Puts)'
      BY <2>2 DEF Heads, LockOps
    <3>3. Prompt'
      BY <1>0, <2>1, <2>2, <3>1, <3>2, PromptNext
    <3> QED BY <2>1, <3>1, <3>2, <3>3 DEF NoPut, Heads
  <2> QED BY <2>1, <2>3, OrderSame
<1> QED BY <1>1, <1>2, <1>3, <1>4, <1>5, <1>6

\* An event of the request is the next one of the script.
LEMMA TakesNext ==
  ASSUME ViewInv, Whole, events # <<>>, events' = Tail(events), UNCHANGED sent,
         Head(events) \notin Special
  PROVE  /\ Untaken \in 1 .. sent /\ sent \in 0 .. 5 /\ Head(events) = Script[sent - Untaken + 1]
         /\ Untaken' = Untaken - 1 /\ (Untaken' = 0 => Len(events') <= 1)
         /\ \A i \in 1 .. Untaken' : events'[i] = Script[sent - Untaken' + i]
<1>1. events \in Seq(Events) /\ sent \in 0 .. 5
  BY ScriptFacts DEF ViewInv, TypeOK
<1>2. /\ Len(events) \in Nat /\ Len(events) > 0 /\ Head(events) = events[1]
      /\ events' \in Seq(Events) /\ Len(events') = Len(events) - 1
      /\ \A i \in 1 .. Len(events') : events'[i] = events[i + 1]
  BY <1>1, EmptySeq, HeadTailProperties
<1> PICK n \in Nat : n = Len(events)
  BY <1>2
<1>3. Untaken = n /\ n > 0 /\ n <= sent /\ \A i \in 1 .. n : events[i] = Script[sent - n + i]
  BY <1>2 DEF Untaken, Whole
<1>4. ASSUME NEW i \in 1 .. n - 1
      PROVE  events'[i] = Script[sent - (n - 1) + i]
  <2>1. i + 1 \in 1 .. n /\ events'[i] = events[i + 1] /\ sent - n + (i + 1) = sent - (n - 1) + i
    BY <1>1, <1>2
  <2>2. events[i + 1] = Script[sent - n + (i + 1)]
    BY <2>1, <1>3
  <2> QED BY <2>1, <2>2
<1>5. Untaken' = n - 1
  <2>1. CASE events' = <<>>
    <3>1. Len(events') = 0
      BY <2>1
    <3> QED BY <2>1, <3>1, <1>2 DEF Untaken
  <2>2. CASE events' # <<>>
    <3>1. Len(events') > 0
      BY <2>2, <1>2, EmptySeq
    <3>2. 1 \in 1 .. n - 1 /\ sent - (n - 1) + 1 \in 1 .. 5
      BY <3>1, <1>1, <1>2, <1>3
    <3>3. events'[1] = Script[sent - (n - 1) + 1]
      BY <3>2, <1>4
    <3>4. events'[1] \notin Special
      BY <3>2, <3>3, ScriptFacts
    <3> QED BY <3>4, <1>2 DEF Untaken
  <2> QED BY <2>1, <2>2
<1>6. Head(events) = Script[sent - n + 1]
  BY <1>2, <1>3
<1> QED BY <1>1, <1>2, <1>3, <1>4, <1>5, <1>6

LEMMA OrderTakes ==
  ASSUME ViewInv, OrderInv, NEW t \in Tasks, TakeEvent(t) \/ TakeH3Event(t)
  PROVE  OrderInv'
<1>1. /\ events # <<>> /\ events' = Tail(events)
      /\ UNCHANGED <<quic, sent, put, full, server, cpu>> /\ cpu = t /\ server # "crashed"
  <2>1. cpu = t
    BY DEF TakeEvent, TakeH3Event, Does
  <2> QED BY <2>1, Running DEF TakeEvent, TakeH3Event, Goes, queueVars, roleVars
<1>2. /\ todo[t] # <<>> /\ Head(todo[t]) = "next"
      /\ \A s \in Tasks : s # t => todo'[s] = todo[s]
      /\ todo'[t] # <<>>
  BY TakeEventTodo, TakeH3EventTodo
<1> SUFFICES ASSUME ~full
             PROVE  Prompt' /\ Whole'
  BY <1>1 DEF OrderInv
<1>3. Prompt /\ Whole /\ t # "none"
  BY <1>1, TaskFacts DEF OrderInv
<1>4. Lag = 0 /\ Len(put) = Made(sent - Untaken)
  <2>1. Lag = 0
    BY <1>1, <1>2 DEF Lag, Heads
  <2>2. Len(put) \in Nat
    BY DEF ViewInv, TypeOK
  <2> QED BY <1>3, <2>1, <2>2 DEF Whole
<1>5. sent \in 0 .. 5 /\ events \in Seq(Events) /\ Len(put) \in Nat
  BY ScriptFacts DEF ViewInv, TypeOK
<1>6. CASE Head(events) \in Special
  <2>1. TakeEvent(t)
    BY <1>6 DEF TakeH3Event, Special
  <2>2. Untaken = 0 /\ events' = <<>> /\ Untaken' = 0
    <3>1. Untaken = 0 /\ Len(events) <= 1
      BY <1>1, <1>3, <1>5, <1>6 DEF Whole, Untaken
    <3>2. Len(events') = Len(events) - 1 /\ events' \in Seq(Events) /\ Len(events) \in Nat \ {0}
      BY <1>1, <1>5, HeadTailProperties, EmptySeq
    <3>3. events' = <<>>
      BY <3>1, <3>2, EmptySeq
    <3> QED BY <3>1, <3>3 DEF Untaken
  <2>3. Head(todo'[t]) \in {"stop", "next"}
    BY <2>1, TakeEventTodo
  <2>4. Prompt'
    BY <1>1, <1>2, <1>3, <2>2, PromptNext
  <2>5. Lag' = 0 /\ ~Heads(t, Puts)'
    BY <1>1, <2>3 DEF Lag, Heads
  <2>6. Len(put') + Lag' = Made(sent' - Untaken')
    <3>1. sent - Untaken = sent /\ sent' - Untaken' = sent
      BY <1>1, <1>5, <2>2
    <3> QED BY <3>1, <1>1, <1>4, <1>5, <2>5
  <2>7. Untaken' <= sent' /\ Len(events') <= 1
    <3>1. Len(events') = 0
      BY <2>2
    <3> QED BY <3>1, <1>1, <1>5, <2>2
  <2>8. \A i \in 1 .. Untaken' : events'[i] = Script[sent' - Untaken' + i]
    BY <2>2
  <2>9. cpu' # "none" /\ Heads(cpu, Puts)' => Head(todo'[cpu']) = AllPuts[Len(put') + 1]
    BY <1>1, <2>5 DEF Heads
  <2> QED BY <2>4, <2>6, <2>7, <2>8, <2>9 DEF Whole
<1>7. CASE Head(events) \notin Special
  <2>1. /\ Untaken \in 1 .. sent /\ Head(events) = Script[sent - Untaken + 1]
        /\ Untaken' = Untaken - 1 /\ (Untaken' = 0 => Len(events') <= 1)
        /\ \A i \in 1 .. Untaken' : events'[i] = Script[sent - Untaken' + i]
    BY <1>1, <1>3, <1>7, TakesNext
  <2> DEFINE k == sent - Untaken
  <2>2. k \in 0 .. 4 /\ sent' - Untaken' = k + 1 /\ Head(events) = Script[k + 1]
    BY <1>1, <1>5, <2>1
  <2> HIDE DEF k
  <2>3. \/ Head(events) \in {"negotiated", "headers"} /\ k < 2 /\ Head(todo'[t]) = "next"
        \/ Head(events) = "first" /\ k = 2 /\ Head(todo'[t]) = "first"
        \/ Head(events) = "second" /\ k = 3 /\ Head(todo'[t]) = "second"
        \/ Head(events) = "last" /\ k = 4 /\ Head(todo'[t]) = "third"
    <3>1. k \in {0, 1, 2, 3, 4}
      BY <2>2
    <3>2. \/ Head(events) = "negotiated" /\ Head(todo'[t]) = "next"
          \/ Head(events) = "headers" /\ Head(todo'[t]) = "next"
          \/ Head(events) \in {"first", "second"} /\ Head(todo'[t]) = Head(events)
          \/ Head(events) = "last" /\ Head(todo'[t]) = "third"
      <4>1. CASE TakeEvent(t)
        <5>1. Head(events) = "negotiated"
          BY <4>1, <1>7 DEF TakeEvent, Special
        <5> QED BY <5>1, <4>1, TakeEventTodo
      <4>2. CASE TakeH3Event(t)
        BY <4>2, TakeH3EventTodo
      <4> QED BY <4>1, <4>2
    <3>3. CASE k = 0
      <4>1. Head(events) = "negotiated"
        BY <3>3, <2>2, ScriptFacts
      <4>2. Head(todo'[t]) = "next"
        BY <4>1, <3>2
      <4> QED BY <4>1, <4>2, <3>3
    <3>4. CASE k = 1
      <4>1. Head(events) = "headers"
        BY <3>4, <2>2, ScriptFacts
      <4>2. Head(todo'[t]) = "next"
        BY <4>1, <3>2
      <4> QED BY <4>1, <4>2, <3>4
    <3>5. CASE k = 2
      <4>1. Head(events) = "first"
        BY <3>5, <2>2, ScriptFacts
      <4>2. Head(todo'[t]) = "first"
        BY <4>1, <3>2
      <4> QED BY <4>1, <4>2, <3>5
    <3>6. CASE k = 3
      <4>1. Head(events) = "second"
        BY <3>6, <2>2, ScriptFacts
      <4>2. Head(todo'[t]) = "second"
        BY <4>1, <3>2
      <4> QED BY <4>1, <4>2, <3>6
    <3>7. CASE k = 4
      <4>1. Head(events) = "last"
        BY <3>7, <2>2, ScriptFacts
      <4>2. Head(todo'[t]) = "third"
        BY <4>1, <3>2
      <4> QED BY <4>1, <4>2, <3>7
    <3> QED BY <3>1, <3>3, <3>4, <3>5, <3>6, <3>7
  <2>4. Prompt'
    <3>1. Heads(t, Puts \cup {"next"})'
      BY <1>2, <2>3 DEF Heads
    <3> QED BY <1>1, <1>2, <1>3, <3>1, PromptNext
  <2>5. /\ Lag' = IF k < 2 THEN 0 ELSE IF k = 4 THEN 2 ELSE 1
        /\ Heads(t, Puts)' => k >= 2
    BY <1>1, <1>2, <1>3, <2>2, <2>3 DEF Lag, Heads
  <2>6. Len(put) = Made(k)
    BY <1>4 DEF k
  <2>7. Len(put) + Lag' = Made(k + 1)
    BY <2>2, <2>5, <2>6, <1>5 DEF Made
  <2>8. Heads(t, Puts)' => Head(todo'[t]) = AllPuts[Len(put) + 1]
    BY <2>2, <2>3, <2>5, <2>6, <1>5 DEF Made, AllPuts
  <2>9. Untaken' <= sent'
    BY <1>1, <1>5, <2>1
  <2> QED BY <1>1, <2>1, <2>2, <2>4, <2>7, <2>8, <2>9 DEF Whole
<1> QED BY <1>6, <1>7

LEMMA OrderPut ==
  ASSUME ViewInv, server # "crashed", OrderInv, NEW t \in Tasks, NEW op \in Puts, Put(t, op)
  PROVE  OrderInv'
<1>1. /\ UNCHANGED <<events, sent, full, server>> /\ put' = Append(put, op) /\ cpu' = t
      /\ t # "none"
  BY TaskFacts DEF Put, quicVars, roleVars
<1>2. /\ todo[t] # <<>> /\ Head(todo[t]) = op /\ wait[t] \in {"no", "put"}
      /\ wait[t] = "no" => cpu = t
      /\ \A s \in Tasks : s # t => todo'[s] = todo[s]
      /\ todo'[t] # <<>> /\ Head(todo'[t]) = IF op = "third" THEN "end" ELSE "next"
  BY PutTodo
<1> SUFFICES ASSUME ~full
             PROVE  /\ Len(put') <= 4 /\ \A i \in 1 .. Len(put') : put'[i] = AllPuts[i]
                    /\ Prompt' /\ Whole'
  BY <1>1 DEF OrderInv
<1>3. cpu = t
  BY <1>2 DEF ViewInv, WaitInv
<1>4. /\ Prompt /\ Whole
      /\ \A i \in 1 .. Len(put) : put[i] = AllPuts[i]
  BY DEF OrderInv
<1>5. put \in Seq(Puts) /\ sent \in Int /\ Len(put) \in Nat
  <2> HIDE DEF Puts
  <2>1. put \in Seq(Puts) /\ sent \in 0 .. 5
    BY ScriptFacts DEF ViewInv, TypeOK
  <2> QED BY <2>1
<1>6. op = AllPuts[Len(put) + 1] /\ Len(put) + Lag = Made(sent - Untaken)
  BY <1>1, <1>2, <1>3, <1>4 DEF Whole, Heads
<1>7. Lag = IF op = "third" THEN 2 ELSE 1
  BY <1>1, <1>2, <1>3 DEF Lag, Heads
<1>8. Len(put) <= 3
  <2>1. Made(sent - Untaken) <= 4
    BY DEF Made
  <2> QED BY <2>1, <1>5, <1>6, <1>7
<1>9. /\ Len(put') = Len(put) + 1 /\ put'[Len(put) + 1] = op
      /\ \A i \in 1 .. Len(put) : put'[i] = put[i]
  <2> HIDE DEF Puts
  <2> QED BY <1>1, <1>5, AppendProperties
<1>10. ASSUME NEW i \in 1 .. Len(put')
       PROVE  put'[i] = AllPuts[i]
  <2>1. i \in 1 .. Len(put) \/ i = Len(put) + 1
    BY <1>5, <1>9
  <2> QED BY <2>1, <1>4, <1>6, <1>9
<1>11. Lag' = IF op = "third" THEN 1 ELSE 0
  <2>1. CASE op = "third"
    <3>1. Head(todo'[t]) = "end"
      BY <1>2, <2>1
    <3> QED BY <2>1, <3>1, <1>1, <1>2 DEF Lag, Heads
  <2>2. CASE op # "third"
    <3>1. Head(todo'[t]) = "next"
      BY <1>2, <2>2
    <3> QED BY <2>2, <3>1, <1>1 DEF Lag, Heads
  <2> QED BY <2>1, <2>2
<1>12. Len(put') + Lag' = Made(sent' - Untaken')
  <2>1. Untaken' = Untaken
    BY <1>1 DEF Untaken
  <2> QED BY <2>1, <1>1, <1>5, <1>6, <1>7, <1>9, <1>11
<1>13. Heads(t, Puts)' => Head(todo'[t]) = AllPuts[Len(put') + 1]
  <2>1. CASE op = "third"
    <3>1. Len(put) = 2
      <4>1. PICK n \in Nat : n = Len(put)
        BY <1>5
      <4>2. n \in {0, 1, 2, 3}
        BY <4>1, <1>8
      <4>3. AllPuts[1] = "first" /\ AllPuts[2] = "second" /\ AllPuts[4] = "end"
        BY DEF AllPuts
      <4>4. AllPuts[n + 1] = "third"
        BY <4>1, <2>1, <1>6
      <4>5. CASE n = 2
        BY <4>1, <4>5
      <4>6. CASE n \in {0, 1, 3}
        <5>1. n + 1 \in {1, 2, 4}
          BY <4>6
        <5>2. AllPuts[n + 1] \in {"first", "second", "end"}
          BY <4>3, <5>1
        <5> QED BY <4>4, <5>2
      <4> QED BY <4>2, <4>5, <4>6
    <3> QED BY <2>1, <3>1, <1>2, <1>9 DEF AllPuts
  <2>2. CASE op # "third"
    BY <2>2, <1>2 DEF Heads
  <2> QED BY <2>1, <2>2
<1>14. Prompt'
  <2>1. Heads(t, Puts \cup {"next"})'
    BY <1>2 DEF Heads
  <2> QED BY <2>1, <1>1, <1>2, <1>3, <1>4, PromptNext
<1>15. Whole'
  <2>1. Untaken' = Untaken
    BY <1>1 DEF Untaken
  <2> QED BY <2>1, <1>1, <1>4, <1>12, <1>13 DEF Whole
<1> QED BY <1>5, <1>8, <1>9, <1>10, <1>14, <1>15

\* A put that waits, or finds no stream, ends what this says of the order.
LEMMA OrderEnds ==
  ASSUME OrderInv, NEW t \in Tasks, NEW op \in Puts, PutWaits(t, op) \/ KeyError(t, op)
  PROVE  OrderInv'
<1>1. CASE PutWaits(t, op)
  BY <1>1 DEF PutWaits, OrderInv
<1>2. CASE KeyError(t, op)
  BY <1>2 DEF KeyError, OrderInv, queueVars
<1> QED BY <1>1, <1>2

LEMMA OrderBegins ==
  ASSUME ViewInv, OrderInv, NEW t \in Tasks, NEW ops, Program(t, ops), Begin(t, ops), ops # <<>>,
         Head(ops) \in {"next", "send", "loop"}, Idle(t), UNCHANGED <<events, sent, put, full>>
  PROVE  OrderInv'
<1>1. /\ cpu = "none" /\ server # "crashed" /\ cpu' = t /\ t # "none"
      /\ \A s \in Tasks : s # t => todo'[s] = todo[s]
      /\ ~Heads(t, Puts)'
  BY BegunTodo, TaskFacts DEF Idle, Begin
<1>2. ASSUME ~full
      PROVE  NoPut /\ NoPut' /\ Prompt'
  <2>1. events = <<>> /\ Prompt /\ NoPut
    BY <1>1, <1>2, NothingToTake
  <2>2. Prompt'
    BY <1>1, <2>1, PromptNext
  <2> QED BY <1>1, <2>1, <2>2 DEF NoPut
<1> QED BY <1>1, <1>2, OrderSame

\* A task begins with events, and there was none before.
LEMMA OrderBrings ==
  ASSUME ViewInv, OrderInv, NEW t \in Tasks, NEW ops, Program(t, ops), Begin(t, ops), ops # <<>>,
         Head(ops) = "next", Idle(t), UNCHANGED <<put, full>>,
         events = <<>> => /\ Untaken' \in Nat /\ sent' \in Nat /\ sent' - Untaken' = sent
                          /\ Untaken' = 0 => Len(events') <= 1
                          /\ \A i \in 1 .. Untaken' : events'[i] = Script[sent + i]
  PROVE  OrderInv'
<1>1. /\ cpu = "none" /\ server # "crashed" /\ cpu' = t /\ t # "none"
      /\ \A s \in Tasks : s # t => todo'[s] = todo[s]
      /\ ~Heads(t, Puts)' /\ todo'[t] = ops
  BY BegunTodo, TaskFacts DEF Idle, Begin
<1> SUFFICES ASSUME ~full
             PROVE  Prompt' /\ Whole'
  BY DEF OrderInv
<1>2. events = <<>> /\ Prompt /\ NoPut
  BY <1>1, NothingToTake
<1>3. Prompt'
  BY <1>1, <1>2, PromptNext DEF Heads
<1>4. sent \in Nat
  BY ScriptFacts DEF ViewInv, TypeOK
<1>5. Len(put) + 0 = Made(sent)
  <2>1. Untaken = 0 /\ Lag = 0
    BY <1>2 DEF Untaken, Lag, NoPut
  <2> QED BY <2>1, <1>1, <1>4 DEF OrderInv, Whole
<1>6. Lag' = 0
  BY <1>1 DEF Lag
<1> QED BY <1>1, <1>2, <1>3, <1>4, <1>5, <1>6 DEF Whole

LEMMA OrderServer ==
  ASSUME ViewInv, OrderInv, Connect \/ Datagram \/ OtherDatagram \/ Loop
  PROVE  OrderInv'
<1> USE DEF quicVars, connVars, queueVars, roleVars
<1>1. "server" \in Tasks
  BY TaskFacts
<1>2. CASE Connect
  <2>1. UNCHANGED <<events, sent, put, full>> /\ Begin("server", <<"next", "loop">>) /\ Idle("server")
    BY <1>2 DEF Connect, Serves
  <2> QED BY <1>1, <2>1, Begun, OrderBegins
<1>3. CASE OtherDatagram
  <2>1. /\ UNCHANGED <<events, sent, put, full>> /\ Begin("server", <<"loop">>) /\ Idle("server")
        /\ <<"loop">> # <<>> /\ Head(<<"loop">>) = "loop"
    BY <1>3 DEF OtherDatagram, Serves
  <2> QED BY <1>1, <2>1, Begun, OrderBegins
<1>4. CASE Loop
  <2>1. UNCHANGED <<events, sent, put, full>> /\ server # "crashed"
    <3>1. cpu = "server"
      BY <1>4, LoopTodo
    <3> QED BY <1>1, <1>4, <3>1, Running DEF Loop
  <2>2. /\ cpu = "server" /\ UNCHANGED cpu /\ ~Heads("server", Puts \cup {"next"})
        /\ \A s \in Tasks : s # "server" => todo'[s] = todo[s]
        /\ todo'["server"] = <<>>
    BY <1>4, LoopTodo DEF Heads
  <2>3. ASSUME ~full
        PROVE  NoPut /\ NoPut' /\ Prompt'
    <3>1. events = <<>> /\ Prompt /\ NoPut
      BY <2>1, <2>2, <2>3, NothingToTake
    <3>2. Prompt'
      BY <1>1, <2>1, <2>2, <3>1, PromptNext
    <3> QED BY <2>2, <3>1, <3>2 DEF NoPut, Heads
  <2> QED BY <2>1, <2>3, OrderSame
<1>5. CASE Datagram
  <2>1. UNCHANGED <<put, full>> /\ Begin("server", <<"next", "loop">>) /\ Idle("server")
    BY <1>5 DEF Datagram, Serves
  <2>2. ASSUME events = <<>>
        PROVE  /\ Untaken' \in Nat /\ sent' \in Nat /\ sent' - Untaken' = sent
               /\ Untaken' = 0 => Len(events') <= 1
               /\ \A i \in 1 .. Untaken' : events'[i] = Script[sent + i]
    <3>1. sent \in 0 .. 5 /\ Len(events) = 0
      BY <2>2, ScriptFacts DEF ViewInv, TypeOK
    <3>2. CASE UNCHANGED <<events, sent>>
      <4>1. Untaken' = 0
        BY <2>2, <3>2 DEF Untaken
      <4> QED BY <4>1, <3>1, <3>2
    <3>3. CASE UNCHANGED sent /\ events' \in {<<"issued">>, <<"retired">>}
      <4>1. PICK e \in Special : events' = <<e>>
        BY <3>3 DEF Special
      <4>2. events' # <<>> /\ events'[1] = e /\ Len(events') = 1
        BY <4>1
      <4>3. Untaken' = 0
        BY <4>2 DEF Untaken
      <4> QED BY <4>2, <4>3, <3>1, <3>3
    <3>4. CASE /\ sent' \in sent + 1 .. 5
               /\ events' \in Seq(Events) /\ Len(events') = Len(events) + (sent' - sent)
               /\ \A i \in 1 .. Len(events') :
                    events'[i] = IF i <= Len(events) THEN events[i] ELSE Script[sent + (i - Len(events))]
      <4>1. PICK m \in 0 .. 5 : m = sent
        BY <3>1
      <4>2. PICK u \in m + 1 .. 5 : u = sent'
        BY <3>4, <4>1
      <4> DEFINE n == u - m
      <4>3. n \in 1 .. 5 /\ m + n = u /\ m + n <= 5
        OBVIOUS
      <4>4. sent' = sent + n /\ sent + n <= 5
        BY <4>1, <4>2, <4>3
      <4>5. Len(events') = n
        <5>1. Len(events') = 0 + (u - m)
          BY <3>1, <3>4, <4>1, <4>2
        <5> QED BY <4>1, <4>2, <5>1
      <4> HIDE DEF n
      <4>6. ASSUME NEW i \in 1 .. n
            PROVE  events'[i] = Script[sent + i]
        <5>1. i \in 1 .. Len(events') /\ ~(i <= 0) /\ i - 0 = i
          BY <4>3, <4>5
        <5>2. events'[i] = IF i <= 0 THEN events[i] ELSE Script[sent + (i - 0)]
          BY <5>1, <3>1, <3>4
        <5> QED BY <5>1, <5>2
      <4>7. events' # <<>> /\ events'[1] \notin Special
        <5>1. 1 \in 1 .. n /\ sent + 1 \in 1 .. 5
          BY <3>1, <4>3, <4>4
        <5>2. events'[1] = Script[sent + 1]
          BY <5>1, <4>6
        <5>3. events' # <<>>
          BY <4>3, <4>5
        <5> QED BY <5>1, <5>2, <5>3, ScriptFacts
      <4>8. Untaken' = n
        BY <4>3, <4>5, <4>7 DEF Untaken
      <4> QED BY <3>1, <4>3, <4>4, <4>6, <4>8
    <3> QED BY <1>5, <3>2, <3>3, <3>4, Brings
  <2> QED BY <1>1, <2>1, <2>2, Begun, OrderBrings
<1> QED BY <1>2, <1>3, <1>4, <1>5

LEMMA OrderFire ==
  ASSUME ViewInv, OrderInv, NEW n \in Timers, Fire(n)
  PROVE  OrderInv'
<1>1. n \in Tasks /\ Begin(n, <<"next">>) /\ Idle(n) /\ UNCHANGED <<put, full>>
  BY TaskFacts DEF Fire, queueVars
<1>2. ASSUME events = <<>>
      PROVE  /\ Untaken' \in Nat /\ sent' \in Nat /\ sent' - Untaken' = sent
             /\ Untaken' = 0 => Len(events') <= 1
             /\ \A i \in 1 .. Untaken' : events'[i] = Script[sent + i]
  <2>1. sent \in Nat /\ UNCHANGED sent
    BY ScriptFacts DEF ViewInv, TypeOK, Fire, quicVars
  <2>2. events' = <<>> \/ events' = <<"terminated">>
    BY <1>2 DEF Fire, quicVars
  <2>3. Untaken' = 0 /\ Len(events') <= 1
    <3>1. CASE events' = <<>>
      <4>1. Len(events') = 0
        BY <3>1
      <4> QED BY <3>1, <4>1 DEF Untaken
    <3>2. CASE events' = <<"terminated">>
      <4>1. Len(events') = 1 /\ events'[1] = "terminated" /\ events' # <<>>
        BY <3>2
      <4> QED BY <4>1 DEF Untaken, Special
    <3> QED BY <2>2, <3>1, <3>2
  <2> QED BY <2>1, <2>3
<1> QED BY <1>1, <1>2, OnesBegun, OrderBrings

LEMMA OrderApp ==
  ASSUME ViewInv, OrderInv, Receive \/ Send \/ Finish \/ Pop \/ Terminate \/ UNCHANGED vars
  PROVE  OrderInv'
<1> USE DEF quicVars, connVars, queueVars, roleVars, taskVars, vars
<1>1. "app" \in Tasks
  BY TaskFacts
<1>2. CASE Receive \/ Terminate \/ UNCHANGED vars
  <2>1. UNCHANGED <<events, sent, put, full, cpu, todo, server>>
    BY <1>2 DEF Receive, Terminate
  <2> QED BY <2>1 DEF OrderInv, Prompt, Whole, Heads, Lag, Untaken
<1>3. CASE Send
  <2>1. UNCHANGED <<events, sent, put, full>> /\ Begin("app", <<"send">>) /\ Idle("app")
    BY <1>3 DEF Send, Sending
  <2> QED BY <1>1, <2>1, OnesBegun, OrderBegins
<1>4. CASE Finish
  <2>1. UNCHANGED <<events, sent, put, full>> /\ Begin("app", <<"send", "pop">>) /\ Idle("app")
    BY <1>4 DEF Finish
  <2> QED BY <1>1, <2>1, Begun, OrderBegins
<1>5. CASE Pop
  <2>1. UNCHANGED <<events, sent, put, full, server>>
    BY <1>5 DEF Pop
  <2>2. /\ cpu = "app" /\ UNCHANGED cpu /\ ~Heads("app", Puts \cup {"next"})
        /\ \A s \in Tasks : s # "app" => todo'[s] = todo[s]
        /\ todo'["app"] = <<>> /\ server # "crashed"
    <3>1. cpu = "app"
      BY <1>5, PopTodo
    <3> QED BY <1>1, <1>5, <3>1, PopTodo, Running DEF Heads
  <2>3. ASSUME ~full
        PROVE  NoPut /\ NoPut' /\ Prompt'
    <3>1. events = <<>> /\ Prompt /\ NoPut
      BY <2>2, <2>3, NothingToTake
    <3>2. Prompt'
      BY <1>1, <2>1, <2>2, <3>1, PromptNext
    <3> QED BY <2>2, <3>1, <3>2 DEF NoPut, Heads
  <2> QED BY <2>1, <2>2, <2>3, OrderSame
<1> QED BY <1>2, <1>3, <1>4, <1>5

LEMMA OrderInit ==
  ASSUME Init
  PROVE  OrderInv
<1>1. /\ events = <<>> /\ sent = 0 /\ put = <<>> /\ Len(put) = 0 /\ Len(events) = 0
      /\ cpu = "none" /\ todo = [t \in Tasks |-> <<>>]
  BY DEF Init
<1>2. Untaken = 0 /\ Lag = 0
  BY <1>1 DEF Untaken, Lag
<1>3. Prompt /\ Whole
  BY <1>1, <1>2 DEF Prompt, Whole, Made
<1> QED BY <1>1, <1>3 DEF OrderInv

LEMMA OrderStep ==
  ASSUME ViewInv, OrderInv, [Next]_vars
  PROVE  OrderInv'
<1>1. ASSUME NEW t \in Tasks, Step(t)
      PROVE  OrderInv'
  <2>1. CASE TakeEvent(t) \/ TakeH3Event(t)
    BY <2>1, OrderTakes
  <2>2. CASE \E op \in Puts : Put(t, op) \/ PutWaits(t, op) \/ KeyError(t, op)
    <3>1. PICK op \in Puts : Put(t, op) \/ PutWaits(t, op) \/ KeyError(t, op)
      BY <2>2
    <3> QED BY <1>1, <3>1, StepCases, OrderPut, OrderEnds
  <2>3. CASE \/ Ends(t) \/ Handed(t) \/ Ticks(t) \/ Arm(t) \/ Disarm(t) \/ SendAll(t)
             \/ NoMoreEvents(t) \/ Forget(t)
             \/ \E op \in {"restart", "stop"} : WaitsForLock(t, op) \/ Cancels(t, op)
    BY <1>1, <2>3, StepCases, OrderTask
  <2> QED BY <1>1, <2>1, <2>2, <2>3, StepCases
<1>2. CASE \E n \in Timers : Fire(n)
  BY <1>2, OrderFire
<1>3. CASE Connect \/ Datagram \/ OtherDatagram \/ Loop
  BY <1>3, OrderServer
<1>4. CASE Receive \/ Send \/ Finish \/ Pop \/ Terminate \/ UNCHANGED vars
  BY <1>4, OrderApp
<1> QED BY <1>1, <1>2, <1>3, <1>4 DEF Next

LEMMA DeliverAlways == Spec => []DeliverInv
<1>1. Init => DeliverInv
  BY ViewInit, StreamInit, OrderInit DEF DeliverInv
<1>2. DeliverInv /\ [Next]_vars => DeliverInv'
  BY ViewStep, StreamStep, OrderStep DEF DeliverInv
<1> QED BY <1>1, <1>2, PTL DEF Spec

\* What has been put begins the list of the request's messages.
LEMMA PutsInOrder ==
  ASSUME ViewInv, OrderInv
  PROVE  InOrder
<1> SUFFICES ASSUME ~full
             PROVE  put = SubSeq(AllPuts, 1, Len(put))
  BY DEF InOrder, AllPuts
<1> HIDE DEF Puts
<1>1. put \in Seq(Puts) /\ Len(put) \in Nat
  BY DEF ViewInv, TypeOK
<1>2. Len(put) <= 4 /\ \A i \in 1 .. Len(put) : put[i] = AllPuts[i]
  BY DEF OrderInv
<1>3. \A i \in 1 .. 4 : AllPuts[i] \in Puts
  BY DEF AllPuts, Puts
<1>4. PICK n \in Nat : n = Len(put)
  BY <1>1
<1>5. /\ SubSeq(AllPuts, 1, n) \in Seq(Puts)
      /\ Len(SubSeq(AllPuts, 1, n)) = IF 1 <= n THEN n - 1 + 1 ELSE 0
      /\ \A i \in 1 .. n - 1 + 1 : SubSeq(AllPuts, 1, n)[i] = AllPuts[1 + i - 1]
  <2>1. \A i \in 1 .. n : AllPuts[i] \in Puts
    BY <1>2, <1>3, <1>4
  <2> QED BY <2>1, SubSeqProperties
<1> DEFINE s == SubSeq(AllPuts, 1, n)
<1>6. s \in Seq(Puts) /\ Len(s) = n
  BY <1>5
<1>7. ASSUME NEW i \in 1 .. n
      PROVE  s[i] = put[i]
  <2>1. i \in 1 .. n - 1 + 1 /\ 1 + i - 1 = i
    OBVIOUS
  <2>2. s[i] = AllPuts[i]
    BY <2>1, <1>5
  <2> QED BY <2>2, <1>2, <1>4
<1> HIDE DEF s
<1>8. put = s
  BY <1>1, <1>4, <1>6, <1>7, SeqEqual
<1> QED BY <1>4, <1>8 DEF s

\* While no put has had to wait, the application is given the first, the second
\* and the last data of its request and its end, each once and in this order,
\* whichever tasks handle the events and are cancelled (quic.py:113); and data
\* makes the server fail only when the application has left the stream or the
\* request came after the shutdown began (h3.py:65).
THEOREM DeliveredCorrect == Spec => []Delivered
<1>1. DeliverInv => Delivered
  BY PutsInOrder DEF DeliverInv, StreamInv, Delivered
<1> QED BY <1>1, DeliverAlways, PTL
=============================================================================
