---------------------------- MODULE ConnIOProof ----------------------------
(***************************************************************************)
(* Proofs about ConnIO: its types, the order of the calls of a turn, what  *)
(* is lost only after conn_drain wrote something, when server and program  *)
(* wait for each other, and that the output of a connection is OutputFifo. *)
(*                                                                         *)
(* The invariant is the conjunction of the parts below: Sound (the types,  *)
(* TurnOK, ListOK) first, for every other part needs it, then each part    *)
(* with those before it.                                                   *)
(***************************************************************************)
EXTENDS ConnIO, SequenceLemmas, FiniteSetTheorems

ReadOf(c) == <<"ctcp_read", c>>
DrainOf(c) == <<"conn_drain", c>>

\* No connection is asked to read twice.
ReadsOnce(q) == \A i, j \in DOMAIN q : q[i] = q[j] /\ q[i][1] = "ctcp_read" => i = j

\* There is a call of this kind left in the turn.
Left(job) == \E x \in Range(jobs) : x[1] = job

\* The packet is handled after everything but the timer, which is the last.
TurnOK ==
    /\ ReadsOnce(jobs)
    /\ \A i, j \in DOMAIN jobs :
         i < j /\ jobs[i][1] \in {"receive", "timer"} => jobs[j][1] = "timer"
    /\ \A i \in DOMAIN jobs : jobs[i][1] = "drained" => i = 1

\* Connections are numbered as they come. Before that nothing is known of one.
ListOK ==
    /\ \A i, j \in DOMAIN connections : connections[i] = connections[j] => i = j
    /\ \A c \in Range(connections) : c <= num_connected
    /\ \A c \in Conns : c > num_connected => conn[c].out_queue = <<>>

\* What the server sleeps in is the packet's handler, for a connection of the
\* list, with a program, and with a segment for which there was room.
BlockedOK ==
    blocked # None =>
        /\ jobs # <<>> /\ Head(jobs) = <<"receive", Nobody>>
        /\ run_program
        /\ LET c == blocked.conn
               n == Len(blocked.data) IN
             /\ c \in Range(connections)
             /\ n \in 1..Min({MaxSegDataSize, MaxBufSpace})
             /\ blocked.data = Data(c, n)
             /\ ~conn[c].wrote_eof /\ ~conn[c].wrote_err

\* A connection with a program has no queue, and no connection has a chunk
\* larger than a segment.
ChunksOK ==
    \A c \in Conns :
        /\ run_program => conn[c].out_queue = <<>>
        /\ \A i \in DOMAIN conn[c].out_queue :
             Len(conn[c].out_queue[i]) <= MaxSegDataSize

\* What conn_drain wrote is still unaccounted for only in the call that wrote it.
OutputtedOK ==
    outputted => \E c \in drained :
        /\ jobs # <<>>
        /\ \/ Head(jobs) = <<"drained", c>>
           \/ Head(jobs) = <<"conn_drain", c>> /\ ~conn[c].wrote_err

\* A connection that waits for standard output.
Waits(c) ==
    c \in Range(connections) /\ conn[c].out_queue # <<>> /\ ~conn[c].wrote_err

\* Until conn_drain writes: who waits will be drained in this turn, or POLLOUT
\* is asked for and no drain is going on; and a drain is going on only while
\* there is room.
EventOK ==
    drained = {} =>
        /\ \A c \in Conns :
             Waits(c) => DrainOf(c) \in Range(jobs) \/ (polled /\ ~Left("conn_drain"))
        /\ Left("conn_drain") /\ reader => HasRoom

\* A program's output is read at most once a turn, and only if there is some.
ProgramReadsOK ==
    run_program => \A c \in Conns :
        /\ ~conn[c].read_eof
        /\ ReadOf(c) \in Range(jobs) => Readable(c)

Room(c) == in[c] + out[c] <= InSize + OutSize - MaxSegDataSize

RoomOK ==
    run_program /\ Left("receive") =>
      \A c \in Range(connections) \ refused : unprompted[c] = 0 =>
        Room(c) \/ ReadOf(c) \in Range(jobs)

\* The chunks of a queue are the bytes that follow those written, up to the
\* last one accepted.
Tiles(queue, first, last) ==
    /\ queue # <<>> => queue[1][1] = first + 1
    /\ \A i \in DOMAIN queue :
         /\ \A k \in DOMAIN queue[i] : queue[i][k] = queue[i][1] + k - 1
         /\ queue[i][1] + Len(queue[i]) =
              IF i = Len(queue) THEN last + 1 ELSE queue[i + 1][1]

FifoOf(c) ==
    LET first == Len(written[c]) IN
    /\ written[c] = Fifo!FirstBytes(first)
    /\ first <= accepted[c]
    /\ Tiles(conn[c].out_queue, first, accepted[c])
    /\ c \in Range(connections) /\ conn[c].out_queue = <<>> => accepted[c] = first
    /\ c > num_connected => accepted[c] = 0 /\ received[c] = 0 /\ written[c] = <<>>
    /\ c \in Range(connections) /\ ~conn[c].wrote_eof /\ ~conn[c].wrote_err
         => received[c] = accepted[c]
FifoOK == \A c \in Conns : FifoOf(c)

-----------------------------------------------------------------------------
\* The library calls of a turn

Kinds == {"conn_drain", "drained", "ctcp_read", "receive", "timer"}
Job == Kinds \X (Conns \cup {Nobody})

\* What the calls for the programs of the first n connections are.
CallsOK(calls, n) ==
    /\ calls \in Seq(Job)
    /\ \A i \in DOMAIN calls : \E k \in 1..n :
         calls[i] = ReadOf(connections[k]) /\ Readable(connections[k])
    /\ \A k \in 1..n :
         Readable(connections[k]) => \E i \in DOMAIN calls : calls[i] = ReadOf(connections[k])
    /\ \A i, j \in DOMAIN calls : calls[i] = calls[j] => i = j

\* One more connection.
LEMMA CallsStep ==
    ASSUME connections \in Seq(Conns), ListOK, NEW n \in 1..Len(connections),
           NEW calls, CallsOK(calls, n - 1)
    PROVE  CallsOK(IF Readable(connections[n])
                   THEN Append(calls, <<"ctcp_read", connections[n]>>) ELSE calls, n)
<1> DEFINE x == ReadOf(connections[n])
           q == Append(calls, x)
<1>1. /\ n \in Nat /\ n \in 1..n
      /\ n \in DOMAIN connections /\ connections[n] \in Conns
      /\ \A k \in 1..n : k = n \/ k \in 1..(n - 1)
      /\ \A k \in 1..(n - 1) : k \in 1..n /\ k # n /\ k \in DOMAIN connections
  OBVIOUS
<1>2. x \in Job
  BY <1>1 DEF ReadOf, Job, Kinds
<1>3. CASE ~Readable(connections[n])
  BY <1>1, <1>3 DEF CallsOK
<1>4. CASE Readable(connections[n])
  <2>1. calls \in Seq(Job) /\ Len(calls) \in Nat /\ DOMAIN calls = 1..Len(calls)
    BY DEF CallsOK
  <2>2. /\ q \in Seq(Job) /\ DOMAIN q = 1..(Len(calls) + 1)
        /\ \A i \in DOMAIN calls : q[i] = calls[i]
        /\ q[Len(calls) + 1] = x
    BY <1>2, <2>1
  <2>. HIDE DEF q
  <2>3. \A i \in DOMAIN q : i = Len(calls) + 1 \/ i \in DOMAIN calls
    BY <2>1, <2>2
  <2>4. ASSUME NEW i \in DOMAIN calls PROVE calls[i] # x
    <3>1. PICK k \in 1..(n - 1) : calls[i] = ReadOf(connections[k])
      BY DEF CallsOK
    <3>2. connections[k] # connections[n]
      BY <1>1 DEF ListOK
    <3>. QED BY <3>1, <3>2 DEF ReadOf
  <2>5. ASSUME NEW i \in DOMAIN q
        PROVE  \E k \in 1..n : q[i] = ReadOf(connections[k]) /\ Readable(connections[k])
    <3>1. n \in 1..n /\ 1..(n - 1) \subseteq 1..n
      BY <1>1
    <3>2. CASE i = Len(calls) + 1
      BY <1>4, <2>2, <3>1, <3>2
    <3>3. CASE i \in DOMAIN calls
      BY <2>2, <3>1, <3>3 DEF CallsOK
    <3>. QED BY <2>3, <3>2, <3>3
  <2>6. ASSUME NEW k \in 1..n, Readable(connections[k])
        PROVE  \E i \in DOMAIN q : q[i] = ReadOf(connections[k])
    <3>1. CASE k = n
      BY <2>1, <2>2, <3>1
    <3>2. CASE k \in 1..(n - 1)
      <4>1. PICK i \in DOMAIN calls : calls[i] = ReadOf(connections[k])
        BY <2>6, <3>2 DEF CallsOK
      <4>2. i \in DOMAIN q
        BY <2>1, <2>2
      <4>. QED BY <2>2, <4>1, <4>2
    <3>. QED BY <1>1, <3>1, <3>2
  <2>7. \A i, j \in DOMAIN q : q[i] = q[j] => i = j
    BY <2>2, <2>3, <2>4 DEF CallsOK
  <2>8. CallsOK(q, n)
    BY <2>2, <2>5, <2>6, <2>7 DEF CallsOK
  <2>. QED BY <1>4, <2>8 DEF q, ReadOf
<1>. QED BY <1>3, <1>4

\* The programs that left something to read are read, once each.
LEMMA ProgramCallsOK ==
    ASSUME connections \in Seq(Conns), ListOK
    PROVE  CallsOK(ProgramCalls[Len(connections)], Len(connections))
<1> DEFINE m == Len(connections)
           S == Seq(Job)
           Next1(calls, n) ==
             IF Readable(connections[n])
             THEN Append(calls, <<"ctcp_read", connections[n]>>) ELSE calls
           step == [n \in 1..m |-> [calls \in S |-> Next1(calls, n)]]
           base == <<>>
           Is(f) == f = [n \in 0..m |-> IF n = 0 THEN <<>> ELSE Next1(f[n - 1], n)]
<1>1. m \in Nat /\ base \in S
  OBVIOUS
<1>2. ASSUME NEW n \in 1..m, NEW calls \in S PROVE Next1(calls, n) \in S
  <2>1. connections[n] \in Conns
    OBVIOUS
  <2>2. <<"ctcp_read", connections[n]>> \in Job
    BY <2>1 DEF Job, Kinds
  <2>. QED BY <2>2
<1>. HIDE DEF Next1
<1>3. step \in [1..m -> [S -> S]]
  BY <1>2
<1>4. \A n \in 1..m, calls \in S : step[n][calls] = Next1(calls, n)
  OBVIOUS
<1>. HIDE DEF step, S, m, base
<1>5. PICK f \in [0..m -> S] :
        f[0] = base /\ \A i \in 1..m : f[i] = step[i][f[i - 1]]
  <2>1. Recursive(S, m, base, step)
    BY <1>1, <1>3, Recursion
  <2>. QED BY <2>1 DEF Recursive
<1>6. ASSUME NEW n \in 0..m
      PROVE  f[n] = IF n = 0 THEN <<>> ELSE Next1(f[n - 1], n)
  <2>1. CASE n = 0
    BY <1>5, <2>1 DEF base
  <2>2. CASE n # 0
    <3>1. n \in 1..m /\ n - 1 \in 0..m
      BY <1>1, <2>2
    <3>. QED BY <1>4, <1>5, <2>2, <3>1
  <2>. QED BY <2>1, <2>2
<1>7. Is(f)
  BY <1>6
<1>. DEFINE g == CHOOSE h : Is(h)
<1>8. g = ProgramCalls
  BY DEF ProgramCalls, Next1, m
<1>9. Is(g)
  BY <1>7
<1>. HIDE DEF g
<1>10. \A n \in 0..m : g[n] = IF n = 0 THEN <<>> ELSE Next1(g[n - 1], n)
  BY <1>9
<1>. HIDE DEF Is
<1>. DEFINE T == {n \in Nat : n <= m => CallsOK(g[n], n)}
<1>11. 0 \in T
  <2>1. g[0] = <<>>
    BY <1>1, <1>10
  <2>2. CallsOK(<<>>, 0)
    BY <1>1 DEF CallsOK, S
  <2>. QED BY <2>1, <2>2
<1>12. ASSUME NEW n \in T PROVE n + 1 \in T
  <2>1. SUFFICES ASSUME n + 1 <= m PROVE CallsOK(g[n + 1], n + 1)
    OBVIOUS
  <2>2. n + 1 \in 1..m /\ (n + 1) - 1 = n /\ n + 1 \in 0..m /\ n + 1 # 0
    BY <1>1, <2>1
  <2>3. g[n + 1] = Next1(g[n], n + 1)
    BY <1>10, <2>2
  <2>4. CallsOK(g[n], n)
    BY <1>1, <2>1
  <2>5. CallsOK(Next1(g[n], n + 1), n + 1)
    BY <2>2, <2>4, CallsStep DEF Next1, m
  <2>. QED BY <2>3, <2>5
<1>13. m \in T
  <2>. HIDE DEF T
  <2>1. T \in SUBSET Nat
    BY DEF T
  <2>2. T = Nat
    BY <1>11, <1>12, <2>1, Induction
  <2>. QED BY <1>1, <2>2
<1>. QED BY <1>1, <1>8, <1>13 DEF m

\* A call is added at the end of the turn, or none is.
Extends(r, q, job) ==
    /\ r \in Seq(Job)
    /\ \A i \in DOMAIN q : i \in DOMAIN r /\ r[i] = q[i]
    /\ \A i \in DOMAIN r :
         i \in DOMAIN q \/ (i = Len(q) + 1 /\ r[i] = <<job, Nobody>>)

\* Which is what When does.
LEMMA WhenIs ==
    ASSUME NEW q \in Seq(Job), NEW condition \in BOOLEAN, NEW job \in Kinds
    PROVE  Extends(q \o When(condition, job), q, job)
<1>1. <<job, Nobody>> \in Job
  BY DEF Job
<1>2. CASE condition
  <2>1. When(condition, job) = <<<<job, Nobody>>>>
    BY <1>2 DEF When
  <2> DEFINE x == <<job, Nobody>>
             t == <<x>>
  <2>2. t \in Seq(Job) /\ DOMAIN t = {1} /\ t[1] = x
    BY <1>1
  <2>. HIDE DEF t
  <2>3. \A i \in DOMAIN (q \o t) : i \in DOMAIN q \/ (i = Len(q) + 1 /\ (q \o t)[i] = x)
    BY <2>2, ConcatIs
  <2>. QED BY <2>1, <2>2, <2>3, ConcatIs DEF t, Extends
<1>3. CASE ~condition
  <2>1. q \o When(condition, job) = q
    BY <1>3 DEF When
  <2>. QED BY <2>1 DEF Extends
<1>. QED BY <1>2, <1>3

\* Two sequences of calls that have none in common.
LEMMA Joined ==
    ASSUME NEW s \in Seq(Job), NEW t \in Seq(Job), ReadsOnce(s), ReadsOnce(t),
           \A x \in Range(s), y \in Range(t) : x # y
    PROVE  /\ s \o t \in Seq(Job) /\ ReadsOnce(s \o t)
           /\ \A x : x \in Range(s \o t) <=> x \in Range(s) \/ x \in Range(t)
<1> DEFINE q == s \o t
<1>1. /\ q \in Seq(Job)
      /\ \A i \in DOMAIN s : i \in DOMAIN q /\ q[i] = s[i]
      /\ \A j \in DOMAIN t : Len(s) + j \in DOMAIN q /\ q[Len(s) + j] = t[j]
      /\ \A i \in DOMAIN q :
           i \in DOMAIN s \/ (i - Len(s) \in DOMAIN t /\ i = Len(s) + (i - Len(s)))
  BY ConcatIs
<1>. HIDE DEF q
<1>2. \A x : x \in Range(q) <=> x \in Range(s) \/ x \in Range(t)
  BY <1>1 DEF Range
<1>3. ASSUME NEW i \in DOMAIN q, NEW j \in DOMAIN q, q[i] = q[j], q[i][1] = "ctcp_read"
      PROVE  i = j
  <2>1. CASE i \in DOMAIN s /\ j \in DOMAIN s
    BY <1>1, <1>3, <2>1 DEF ReadsOnce
  <2>2. CASE i \in DOMAIN s /\ j - Len(s) \in DOMAIN t /\ j = Len(s) + (j - Len(s))
    <3>1. s[i] \in Range(s) /\ t[j - Len(s)] \in Range(t)
      BY <2>2 DEF Range
    <3>2. q[i] = s[i] /\ q[j] = t[j - Len(s)]
      BY <1>1, <2>2
    <3>. QED BY <1>3, <3>1, <3>2
  <2>3. CASE j \in DOMAIN s /\ i - Len(s) \in DOMAIN t /\ i = Len(s) + (i - Len(s))
    <3>1. s[j] \in Range(s) /\ t[i - Len(s)] \in Range(t)
      BY <2>3 DEF Range
    <3>2. q[j] = s[j] /\ q[i] = t[i - Len(s)]
      BY <1>1, <2>3
    <3>. QED BY <1>3, <3>1, <3>2
  <2>4. CASE /\ i - Len(s) \in DOMAIN t /\ i = Len(s) + (i - Len(s))
             /\ j - Len(s) \in DOMAIN t /\ j = Len(s) + (j - Len(s))
    <3>1. q[j] = t[j - Len(s)] /\ q[i] = t[i - Len(s)]
      BY <1>1, <2>4
    <3>2. i - Len(s) = j - Len(s)
      BY <1>3, <2>4, <3>1 DEF ReadsOnce
    <3>. QED BY <2>4, <3>2
  <2>. QED BY <1>1, <2>1, <2>2, <2>3, <2>4
<1>. QED BY <1>1, <1>2, <1>3 DEF q, ReadsOnce

\* The calls of conn_drain: for all connections, when there is room.
LEMMA DrainCallsOK ==
    ASSUME connections \in Seq(Conns)
    PROVE  /\ DrainCalls \in Seq(Job) /\ ReadsOnce(DrainCalls)
           /\ \A x \in Range(DrainCalls) : x[1] = "conn_drain" /\ (reader => polled /\ HasRoom)
           /\ DrainCalls # <<>> =>
                \A c \in Range(connections) : DrainOf(c) \in Range(DrainCalls)
<1> DEFINE q == [i \in DOMAIN connections |-> <<"conn_drain", connections[i]>>]
<1>1. CASE ~reader \/ (polled /\ HasRoom)
  <2>1. DrainCalls = q
    BY <1>1 DEF DrainCalls
  <2>2. Len(connections) \in Nat /\ DOMAIN connections = 1..Len(connections)
        /\ \A i \in DOMAIN connections : connections[i] \in Conns
    OBVIOUS
  <2>3. \A i \in DOMAIN connections : <<"conn_drain", connections[i]>> \in Job
    BY <2>2 DEF Job, Kinds
  <2>4. q \in Seq(Job) /\ DOMAIN q = DOMAIN connections
    BY <2>2, <2>3
  <2>5. \A x \in Range(q) : x[1] = "conn_drain"
    BY DEF Range
  <2>6. \A c \in Range(connections) : DrainOf(c) \in Range(q)
    BY DEF Range, DrainOf
  <2>7. ReadsOnce(q)
    BY <2>4 DEF ReadsOnce
  <2>. QED BY <1>1, <2>1, <2>4, <2>5, <2>6, <2>7
<1>2. CASE ~(~reader \/ (polled /\ HasRoom))
  <2>1. DrainCalls = <<>>
    BY <1>2 DEF DrainCalls
  <2>. QED BY <2>1 DEF Range, ReadsOnce
<1>. QED BY <1>1, <1>2

\* The calls of ctcp_read.
LEMMA ReadCallsOK ==
    ASSUME connections \in Seq(Conns), ListOK, NEW typed
    PROVE  /\ ReadCalls(typed) \in Seq(Job) /\ ReadsOnce(ReadCalls(typed))
           /\ \A x \in Range(ReadCalls(typed)) : \E c \in Conns :
                x = ReadOf(c) /\ (run_program => Readable(c))
           /\ run_program => \A c \in Range(connections) :
                Readable(c) => ReadOf(c) \in Range(ReadCalls(typed))
<1>1. CASE run_program
  <2> DEFINE q == ProgramCalls[Len(connections)]
  <2>1. ReadCalls(typed) = q
    BY <1>1 DEF ReadCalls
  <2>2. CallsOK(q, Len(connections))
    BY ProgramCallsOK
  <2>. HIDE DEF q
  <2>3. /\ Len(connections) \in Nat /\ DOMAIN connections = 1..Len(connections)
        /\ \A k \in 1..Len(connections) : connections[k] \in Conns
    OBVIOUS
  <2>4. \A x \in Range(q) : \E c \in Conns : x = ReadOf(c) /\ Readable(c)
    BY <2>2, <2>3 DEF CallsOK, Range
  <2>5. \A c \in Range(connections) : Readable(c) => ReadOf(c) \in Range(q)
    BY <2>2, <2>3 DEF CallsOK, Range
  <2>. QED BY <2>1, <2>2, <2>4, <2>5 DEF CallsOK, ReadsOnce
<1>2. CASE ~run_program
  <2>1. CASE ReadCalls(typed) = <<>>
    BY <1>2, <2>1 DEF Range, ReadsOnce
  <2>2. CASE ReadCalls(typed) # <<>>
    <3> DEFINE c == Head(connections)
               x == ReadOf(c)
               q == <<x>>
    <3>1. connections # <<>> /\ ReadCalls(typed) = q
      BY <1>2, <2>2 DEF ReadCalls, ReadOf
    <3>2. c \in Conns
      BY <3>1
    <3>. HIDE DEF c
    <3>3. x \in Job
      BY <3>2 DEF ReadOf, Job, Kinds
    <3>4. q \in Seq(Job) /\ DOMAIN q = {1} /\ q[1] = x
      BY <3>3
    <3>. HIDE DEF q
    <3>. QED BY <1>2, <3>1, <3>2, <3>4 DEF Range, ReadsOnce
  <2>. QED BY <2>1, <2>2
<1>. QED BY <1>1, <1>2

\* A turn of do_loop: who is drained and who is read, and in which order.
LEMMA TurnStarts ==
    ASSUME connections \in Seq(Conns), ListOK, do_loop
    PROVE  /\ jobs' \in Seq(Job) /\ TurnOK'
           /\ \A c : DrainOf(c) \in Range(jobs') =>
                /\ reader => polled /\ HasRoom
                /\ \A d \in Range(connections) : DrainOf(d) \in Range(jobs')
           /\ \A x \in Range(jobs') : x[1] = "conn_drain" => \E c : x = DrainOf(c)
           /\ run_program => \A c \in Conns :
                /\ ReadOf(c) \in Range(jobs') => Readable(c)
                /\ c \in Range(connections) /\ Readable(c) => ReadOf(c) \in Range(jobs')
<1>1. PICK typed \in BOOLEAN, arrived \in BOOLEAN, tick \in BOOLEAN :
        jobs' = (IF run_program THEN DrainCalls \o ReadCalls(typed)
                                ELSE ReadCalls(typed) \o DrainCalls)
                \o When(arrived, "receive") \o When(tick, "timer")
  BY DEF do_loop
<1> DEFINE D == DrainCalls
           C == ReadCalls(typed)
           F == IF run_program THEN D \o C ELSE C \o D
           G == F \o When(arrived, "receive")
<1>2. /\ D \in Seq(Job) /\ ReadsOnce(D)
      /\ \A x \in Range(D) : x[1] = "conn_drain" /\ (reader => polled /\ HasRoom)
      /\ D # <<>> => \A c \in Range(connections) : DrainOf(c) \in Range(D)
  BY DrainCallsOK
<1>3. /\ C \in Seq(Job) /\ ReadsOnce(C)
      /\ \A x \in Range(C) : \E c \in Conns : x = ReadOf(c) /\ (run_program => Readable(c))
      /\ run_program => \A c \in Range(connections) :
           Readable(c) => ReadOf(c) \in Range(C)
  BY ReadCallsOK
<1>4. jobs' = G \o When(tick, "timer")
  BY <1>1
<1>. HIDE DEF D, C
<1>5. \A x \in Range(C) : x[1] = "ctcp_read"
  BY <1>3 DEF ReadOf
<1>6. \A x \in Range(D), y \in Range(C) : x # y /\ y # x
  BY <1>2, <1>5
<1>7. /\ F \in Seq(Job) /\ ReadsOnce(F)
      /\ \A x : x \in Range(F) <=> x \in Range(D) \/ x \in Range(C)
  BY <1>2, <1>3, <1>6, Joined
<1>. HIDE DEF F
<1>8. \A x \in Range(F) : x[1] \in {"conn_drain", "ctcp_read"}
  BY <1>2, <1>5, <1>7
<1>9. /\ G \in Seq(Job)
      /\ \A i \in DOMAIN F : i \in DOMAIN G /\ G[i] = F[i]
      /\ \A i \in DOMAIN G : i \in DOMAIN F \/ (i = Len(F) + 1 /\ G[i] = <<"receive", Nobody>>)
  <2>1. Extends(G, F, "receive")
    BY <1>7, WhenIs DEF Kinds
  <2>. QED BY <2>1 DEF Extends
<1>. HIDE DEF G
<1>10. /\ jobs' \in Seq(Job)
       /\ \A i \in DOMAIN G : i \in DOMAIN jobs' /\ jobs'[i] = G[i]
       /\ \A i \in DOMAIN jobs' :
            i \in DOMAIN G \/ (i = Len(G) + 1 /\ jobs'[i] = <<"timer", Nobody>>)
  <2>1. Extends(jobs', G, "timer")
    BY <1>4, <1>9, WhenIs DEF Kinds
  <2>. QED BY <2>1 DEF Extends
<1>11. ASSUME NEW i \in DOMAIN jobs'
       PROVE  \/ i \in DOMAIN F /\ jobs'[i] = F[i] /\ F[i] \in Range(F)
              \/ i = Len(F) + 1 /\ jobs'[i] = <<"receive", Nobody>> /\ i \in DOMAIN G
              \/ i = Len(G) + 1 /\ jobs'[i] = <<"timer", Nobody>>
  BY <1>9, <1>10 DEF Range
<1>12. \A x : x \in Range(jobs') <=>
         \/ x \in Range(F)
         \/ \E i \in DOMAIN jobs' : i \notin DOMAIN F /\ jobs'[i] = x
  BY <1>9, <1>10 DEF Range
<1>13. \A x \in Range(jobs') : x[1] \in {"conn_drain", "ctcp_read"} => x \in Range(F)
  BY <1>11 DEF Range
<1>14. ReadsOnce(jobs')
  <2>1. SUFFICES ASSUME NEW i \in DOMAIN jobs', NEW j \in DOMAIN jobs',
                        jobs'[i] = jobs'[j], jobs'[i][1] = "ctcp_read"
                 PROVE  i = j
    BY DEF ReadsOnce
  <2>2. i \in DOMAIN F /\ j \in DOMAIN F /\ jobs'[i] = F[i] /\ jobs'[j] = F[j]
    BY <1>11, <2>1
  <2>. QED BY <1>7, <2>1, <2>2 DEF ReadsOnce
<1>15. ASSUME NEW i \in DOMAIN jobs', NEW j \in DOMAIN jobs', i < j,
              jobs'[i][1] \in {"receive", "timer"}
       PROVE  jobs'[j][1] = "timer"
  <2>1. /\ Len(F) \in Nat /\ DOMAIN F = 1..Len(F)
        /\ Len(G) \in Nat /\ DOMAIN G = 1..Len(G)
    BY <1>7, <1>9
  <2>2. i = Len(F) + 1 \/ i = Len(G) + 1
    BY <1>8, <1>11, <1>15
  <2>3. j = Len(F) + 1 => j \in DOMAIN G
    BY <1>10, <1>11, <1>15, <2>1, <2>2
  <2>4. i \in Nat /\ j \in Nat /\ ~(j <= i)
    BY <1>10, <1>15
  <2>5. j \notin DOMAIN F
    BY <1>9, <2>1, <2>2, <2>4
  <2>6. j # Len(F) + 1
    BY <2>1, <2>2, <2>3, <2>4
  <2>. QED BY <1>11, <2>5, <2>6
<1>16. \A i \in DOMAIN jobs' : jobs'[i][1] # "drained"
  BY <1>8, <1>11
<1>17. TurnOK'
  BY <1>14, <1>15, <1>16 DEF TurnOK
<1>18. ASSUME NEW c, DrainOf(c) \in Range(jobs')
       PROVE  /\ reader => polled /\ HasRoom
              /\ \A d \in Range(connections) : DrainOf(d) \in Range(jobs')
  <2>1. DrainOf(c) \in Range(D)
    BY <1>5, <1>7, <1>13, <1>18 DEF DrainOf
  <2>2. D # <<>>
    BY <2>1 DEF Range
  <2>. QED BY <1>2, <1>7, <1>12, <2>1, <2>2
<1>19. ASSUME NEW x \in Range(jobs'), x[1] = "conn_drain" PROVE \E c : x = DrainOf(c)
  <2>1. x \in Job
    BY <1>10 DEF Range
  <2>. QED BY <1>19, <2>1 DEF Job, DrainOf
<1>20. ASSUME run_program, NEW c \in Conns
       PROVE  /\ ReadOf(c) \in Range(jobs') => Readable(c)
              /\ c \in Range(connections) /\ Readable(c) => ReadOf(c) \in Range(jobs')
  <2>1. ReadOf(c) \in Range(jobs') => ReadOf(c) \in Range(C)
    BY <1>2, <1>7, <1>13 DEF ReadOf
  <2>2. ReadOf(c) \in Range(C) => Readable(c)
    BY <1>3, <1>20 DEF ReadOf
  <2>3. ReadOf(c) \in Range(C) => ReadOf(c) \in Range(jobs')
    BY <1>7, <1>12
  <2>. QED BY <1>3, <1>20, <2>1, <2>2, <2>3
<1>. QED BY <1>10, <1>17, <1>18, <1>19, <1>20

\* A call returns: the others of its turn are still to come.
LEMMA Returns ==
    ASSUME jobs \in Seq(Job), TurnOK, jobs # <<>>, Done
    PROVE  /\ jobs' \in Seq(Job) /\ TurnOK'
           /\ Head(jobs) \in Range(jobs)
           /\ \A x : x \in Range(jobs') => x \in Range(jobs)
           /\ \A x \in Range(jobs) : x = Head(jobs) \/ x \in Range(jobs')
           /\ Head(jobs)[1] = "ctcp_read" => Head(jobs) \notin Range(jobs')
           /\ Head(jobs)[1] \in {"receive", "timer"} =>
                \A x \in Range(jobs') : x[1] = "timer"
<1>1. /\ Len(jobs) \in Nat \ {0} /\ DOMAIN jobs = 1..Len(jobs)
      /\ jobs' \in Seq(Job) /\ DOMAIN jobs' = 1..(Len(jobs) - 1)
      /\ \A i \in 1..(Len(jobs) - 1) : jobs'[i] = jobs[i + 1]
      /\ Head(jobs) = jobs[1]
  BY DEF Done
<1>2. \A i \in DOMAIN jobs' : i + 1 \in DOMAIN jobs /\ jobs'[i] = jobs[i + 1] /\ 1 < i + 1
                              /\ i + 1 # 1
  BY <1>1
<1>3. \A i \in DOMAIN jobs : i = 1 \/ (i - 1 \in DOMAIN jobs' /\ jobs'[i - 1] = jobs[i])
  BY <1>1
<1>4. 1 \in DOMAIN jobs
  BY <1>1
<1>5. ReadsOnce(jobs')
  <2>1. SUFFICES ASSUME NEW i \in DOMAIN jobs', NEW j \in DOMAIN jobs',
                        jobs'[i] = jobs'[j], jobs'[i][1] = "ctcp_read"
                 PROVE  i = j
    BY DEF ReadsOnce
  <2>2. i + 1 = j + 1
    BY <1>2, <2>1 DEF TurnOK, ReadsOnce
  <2>. QED BY <1>1, <2>2
<1>6. ASSUME NEW i \in DOMAIN jobs', NEW j \in DOMAIN jobs', i < j,
             jobs'[i][1] \in {"receive", "timer"}
      PROVE  jobs'[j][1] = "timer"
  <2>1. i + 1 < j + 1
    BY <1>1, <1>6
  <2>. QED BY <1>2, <1>6, <2>1 DEF TurnOK
<1>7. \A i \in DOMAIN jobs' : jobs'[i][1] = "drained" => i = 1
  BY <1>2 DEF TurnOK
<1>8. TurnOK'
  BY <1>5, <1>6, <1>7 DEF TurnOK
<1>9. /\ Head(jobs) \in Range(jobs)
      /\ \A x : x \in Range(jobs') => x \in Range(jobs)
      /\ \A x \in Range(jobs) : x = Head(jobs) \/ x \in Range(jobs')
  <2>1. Head(jobs) \in Range(jobs)
    BY <1>1, <1>4 DEF Range
  <2>2. \A x : x \in Range(jobs') => x \in Range(jobs)
    BY <1>2 DEF Range
  <2>3. ASSUME NEW x \in Range(jobs) PROVE x = Head(jobs) \/ x \in Range(jobs')
    <3>1. PICK i \in DOMAIN jobs : jobs[i] = x
      BY DEF Range
    <3>. QED BY <1>1, <1>3, <3>1 DEF Range
  <2>. QED BY <2>1, <2>2, <2>3
<1>10. ASSUME Head(jobs)[1] = "ctcp_read" PROVE Head(jobs) \notin Range(jobs')
  <2>1. \A i \in DOMAIN jobs' : jobs'[i] # Head(jobs)
    BY <1>1, <1>2, <1>4, <1>10 DEF TurnOK, ReadsOnce
  <2>. QED BY <2>1 DEF Range
<1>11. ASSUME Head(jobs)[1] \in {"receive", "timer"}
       PROVE  \A x \in Range(jobs') : x[1] = "timer"
  <2>1. \A i \in DOMAIN jobs' : jobs'[i][1] = "timer"
    BY <1>1, <1>2, <1>4, <1>11 DEF TurnOK
  <2>. QED BY <2>1 DEF Range
<1>. QED BY <1>1, <1>8, <1>9, <1>10, <1>11

\* The loop of conn_drain ends, and the rest of conn_drain is left.
LEMMA LoopEnds ==
    ASSUME jobs \in Seq(Job), TurnOK, NEW c \in Conns, Doing("conn_drain", c),
           jobs' = <<<<"drained", c>>>> \o Tail(jobs)
    PROVE  /\ jobs' \in Seq(Job) /\ TurnOK' /\ jobs' # <<>>
           /\ Head(jobs') = <<"drained", c>>
           /\ \A x : x \in Range(jobs') => x = <<"drained", c>> \/ x \in Range(jobs)
           /\ \A x \in Range(jobs) : x = DrainOf(c) \/ x \in Range(jobs')
<1> DEFINE x == <<"drained", c>>
           t == Tail(jobs)
           q == <<x>> \o t
<1>1. /\ Len(jobs) \in Nat \ {0} /\ DOMAIN jobs = 1..Len(jobs)
      /\ jobs[1] = DrainOf(c)
      /\ t \in Seq(Job) /\ Len(t) = Len(jobs) - 1
      /\ \A i \in 1..(Len(jobs) - 1) : t[i] = jobs[i + 1]
  BY DEF Doing, DrainOf
<1>2. x \in Job
  BY DEF Job, Kinds
<1>. HIDE DEF x, t
<1>3. /\ q \in Seq(Job) /\ Len(q) = Len(jobs)
      /\ q[1] = x /\ \A i \in 2..Len(jobs) : q[i] = jobs[i]
  <2> DEFINE s == <<x>>
  <2>1. s \in Seq(Job) /\ Len(s) = 1 /\ s[1] = x
    BY <1>2
  <2>2. q = s \o t
    OBVIOUS
  <2>. HIDE DEF s, q
  <2>3. /\ s \o t \in Seq(Job) /\ Len(s \o t) = Len(s) + Len(t)
        /\ \A k \in 1..(Len(s) + Len(t)) :
             (s \o t)[k] = IF k <= Len(s) THEN s[k] ELSE t[k - Len(s)]
    BY <1>1, <2>1, ConcatProperties
  <2>. QED BY <1>1, <2>1, <2>2, <2>3
<1>4. jobs' = q
  BY DEF x, t
<1>. HIDE DEF q
<1>5. /\ DOMAIN jobs' = DOMAIN jobs /\ jobs'[1] = x
      /\ \A i \in DOMAIN jobs : i # 1 => jobs'[i] = jobs[i]
  BY <1>1, <1>3, <1>4
<1>6. TurnOK'
  <2>1. x[1] = "drained" /\ x[1] \notin {"ctcp_read", "receive", "timer"}
    BY DEF x
  <2>2. \A i, j \in DOMAIN jobs' : i < j => j # 1
    BY <1>1, <1>5
  <2>3. ReadsOnce(jobs')
    BY <1>5, <2>1 DEF TurnOK, ReadsOnce
  <2>4. \A i, j \in DOMAIN jobs' :
          i < j /\ jobs'[i][1] \in {"receive", "timer"} => jobs'[j][1] = "timer"
    BY <1>5, <2>1, <2>2 DEF TurnOK
  <2>5. \A i \in DOMAIN jobs' : jobs'[i][1] = "drained" => i = 1
    BY <1>5 DEF TurnOK
  <2>. QED BY <2>3, <2>4, <2>5 DEF TurnOK
<1>7. 1 \in DOMAIN jobs
  BY <1>1
<1>8. \A y : y \in Range(jobs') => y = x \/ y \in Range(jobs)
  BY <1>5 DEF Range
<1>9. \A y \in Range(jobs) : y = DrainOf(c) \/ y \in Range(jobs')
  <2>1. SUFFICES ASSUME NEW y \in Range(jobs) PROVE y = DrainOf(c) \/ y \in Range(jobs')
    OBVIOUS
  <2>2. PICK i \in DOMAIN jobs : jobs[i] = y
    BY DEF Range
  <2>. QED BY <1>1, <1>5, <2>2 DEF Range
<1>10. jobs' # <<>> /\ Head(jobs') = x
  BY <1>1, <1>3, <1>4
<1>. QED BY <1>3, <1>4, <1>6, <1>8, <1>9, <1>10 DEF x
-----------------------------------------------------------------------------
\* What is written, and what is queued

\* write() takes no more than it is given and there is room for; when it takes
\* nothing of a segment, poll() does not report room.
LEMMA TakenIs ==
    ASSUME ConnIOConstants, stdout \in 0..StdoutSize, mode \in Modes, NEW n \in Nat \ {0}
    PROVE  /\ \A w \in Taken(n) : w \in 0..n /\ stdout + w \in 0..StdoutSize
           /\ 0 \in Taken(n) /\ n <= MaxSegDataSize /\ ~run_program => ~HasRoom
<1>1. StdoutSize \in Nat /\ MaxSegDataSize \in Nat /\ stdout \in Nat
  BY DEF ConnIOConstants
<1>2. mode \in {"terminal", "pipe", "program"}
  BY DEF ConnIOConstants
<1>3. CASE stdout = StdoutSize
  <2>1. Taken(n) = {0}
    BY <1>1, <1>3 DEF Taken
  <2>2. ~HasRoom
    BY <1>1, <1>3 DEF HasRoom, ConnIOConstants
  <2>. QED BY <1>1, <2>1, <2>2
<1>4. CASE stdout < StdoutSize /\ mode = "terminal"
  <2> DEFINE m == Min({n, StdoutSize - stdout})
  <2>1. Taken(n) = 1..m
    BY <1>1, <1>4 DEF Taken
  <2>2. m \in {n, StdoutSize - stdout} /\ m <= n /\ m <= StdoutSize - stdout
    <3>1. n \in Int /\ StdoutSize - stdout \in Int
      BY <1>1
    <3>. QED BY <3>1, MinIs
  <2>. HIDE DEF m
  <2>. QED BY <1>1, <2>1, <2>2
<1>5. CASE stdout < StdoutSize /\ mode # "terminal"
  <2>1. Taken(n) = {IF stdout + n <= StdoutSize THEN n ELSE 0}
    BY <1>1, <1>5 DEF Taken
  <2>2. ~run_program => mode = "pipe"
    BY <1>2, <1>5 DEF run_program
  <2>3. CASE stdout + n <= StdoutSize
    BY <1>1, <2>1, <2>3
  <2>4. CASE ~(stdout + n <= StdoutSize)
    <3>1. Taken(n) = {0}
      BY <2>1, <2>4
    <3>2. n <= MaxSegDataSize => ~(stdout + MaxSegDataSize <= StdoutSize)
      BY <1>1, <2>4
    <3>. QED BY <1>1, <2>2, <3>1, <3>2 DEF HasRoom
  <2>. QED BY <2>3, <2>4
<1>. QED BY <1>1, <1>3, <1>4, <1>5

\* Part of a sequence of bytes.
LEMMA PartIs ==
    ASSUME NEW q \in Seq(Nat), NEW a \in Nat \ {0}, NEW b \in 0..Len(q), a <= b + 1
    PROVE  /\ SubSeq(q, a, b) \in Seq(Nat)
           /\ Len(SubSeq(q, a, b)) = b + 1 - a
           /\ \A k \in 1..(b + 1 - a) : SubSeq(q, a, b)[k] = q[a + k - 1]
<1>1. a \in Int /\ b \in Int /\ Len(q) \in Nat /\ \A k \in a..b : q[k] \in Nat
  OBVIOUS
<1>2. /\ SubSeq(q, a, b) \in Seq(Nat)
      /\ Len(SubSeq(q, a, b)) = (IF a <= b THEN b - a + 1 ELSE 0)
      /\ \A k \in 1..(b - a + 1) : SubSeq(q, a, b)[k] = q[a + k - 1]
  BY <1>1, SubSeqProperties
<1>. QED BY <1>1, <1>2

\* The bytes that arrive.
LEMMA DataT ==
    ASSUME NEW c \in Conns, received[c] \in Nat, NEW n \in Nat
    PROVE  /\ Data(c, n) \in Seq(Nat) /\ Len(Data(c, n)) = n
           /\ \A k \in 1..n : Data(c, n)[k] = received[c] + k
BY DEF Data

\* They are in two parts: what write() takes and the rest.
DataParts(c, n, w) ==
    /\ SubSeq(Data(c, n), 1, w) \in Seq(Nat)
    /\ Len(SubSeq(Data(c, n), 1, w)) = w
    /\ \A k \in 1..w : SubSeq(Data(c, n), 1, w)[k] = received[c] + k
    /\ SubSeq(Data(c, n), w + 1, n) \in Seq(Nat)
    /\ Len(SubSeq(Data(c, n), w + 1, n)) = n - w
    /\ \A k \in 1..(n - w) : SubSeq(Data(c, n), w + 1, n)[k] = received[c] + w + k

\* They are, in both parts, the bytes that follow those acknowledged.
LEMMA DataIs ==
    ASSUME NEW c \in Conns, received[c] \in Nat, NEW n \in Nat, NEW w \in 0..n
    PROVE  DataParts(c, n, w)
<1> DEFINE d == Data(c, n)
           s == SubSeq(d, 1, w)
           t == SubSeq(d, w + 1, n)
<1>1. d \in Seq(Nat) /\ Len(d) = n /\ \A k \in 1..n : d[k] = received[c] + k
  BY DataT
<1>. HIDE DEF d
<1>2. w \in Nat /\ w <= n /\ w + 1 \in Nat \ {0} /\ w \in 0..Len(d) /\ n \in 0..Len(d)
      /\ w + 1 <= n + 1
  BY <1>1
<1>3. s \in Seq(Nat) /\ Len(s) = w + 1 - 1 /\ \A k \in 1..(w + 1 - 1) : s[k] = d[1 + k - 1]
  BY <1>1, <1>2, PartIs
<1>4. /\ t \in Seq(Nat) /\ Len(t) = n + 1 - (w + 1)
      /\ \A k \in 1..(n + 1 - (w + 1)) : t[k] = d[w + 1 + k - 1]
  BY <1>1, <1>2, PartIs
<1>. HIDE DEF s, t
<1>5. Len(s) = w /\ \A k \in 1..w : s[k] = received[c] + k
  BY <1>1, <1>2, <1>3
<1>6. Len(t) = n - w /\ \A k \in 1..(n - w) : t[k] = received[c] + w + k
  <2>1. \A k \in 1..(n - w) : k \in 1..(n + 1 - (w + 1)) /\ w + 1 + k - 1 = w + k /\ w + k \in 1..n
    BY <1>2
  <2>2. \A k \in 1..(n - w) : t[k] = d[w + k]
    BY <1>4, <2>1
  <2>3. \A k \in 1..(n - w) : d[w + k] = received[c] + (w + k)
    BY <1>1, <2>1
  <2>4. \A k \in 1..(n - w) : received[c] + (w + k) = received[c] + w + k
    BY <1>2
  <2>5. Len(t) = n - w
    BY <1>2, <1>4
  <2>. QED BY <2>2, <2>3, <2>4, <2>5
<1>. QED BY <1>1, <1>3, <1>4, <1>5, <1>6 DEF d, s, t, DataParts

\* The queue after part of its first chunk, or all of it, was written.
LEMMA RestIs ==
    ASSUME NEW queue \in Seq(Chunk), queue # <<>>, NEW w \in 1..Len(Head(queue))
    PROVE  /\ LET s == SubSeq(Head(queue), 1, w) IN
                /\ s \in Seq(Nat) /\ Len(s) = w
                /\ \A k \in 1..w : s[k] = Head(queue)[k]
           /\ Rest(queue, w) \in Seq(Chunk)
           /\ w = Len(Head(queue)) => Rest(queue, w) = Tail(queue)
           /\ w # Len(Head(queue)) =>
                /\ Len(Rest(queue, w)) = Len(queue)
                /\ \A i \in 2..Len(queue) : Rest(queue, w)[i] = queue[i]
                /\ LET s == Rest(queue, w)[1] IN
                     /\ Len(s) = Len(Head(queue)) - w
                     /\ \A k \in 1..(Len(Head(queue)) - w) : s[k] = Head(queue)[w + k]
<1> DEFINE h == Head(queue)
           s == SubSeq(h, 1, w)
           t == SubSeq(h, w + 1, Len(h))
           u == Tail(queue)
<1>1. /\ h \in Chunk /\ u \in Seq(Chunk) /\ Len(queue) \in Nat \ {0}
      /\ Len(u) = Len(queue) - 1 /\ \A i \in 1..(Len(queue) - 1) : u[i] = queue[i + 1]
  OBVIOUS
<1>2. h \in Seq(Nat) /\ Len(h) \in Nat
  BY <1>1 DEF Chunk
<1>. HIDE DEF h, u
<1>3. w \in 1..Len(h)
  BY DEF h
<1>4. w \in Nat /\ w <= Len(h) /\ w + 1 \in Nat \ {0} /\ w \in 0..Len(h)
      /\ Len(h) \in 0..Len(h) /\ w + 1 <= Len(h) + 1
  BY <1>2, <1>3
<1>5. s \in Seq(Nat) /\ Len(s) = w + 1 - 1 /\ \A k \in 1..(w + 1 - 1) : s[k] = h[1 + k - 1]
  BY <1>2, <1>4, PartIs
<1>6. /\ t \in Seq(Nat) /\ Len(t) = Len(h) + 1 - (w + 1)
      /\ \A k \in 1..(Len(h) + 1 - (w + 1)) : t[k] = h[w + 1 + k - 1]
  BY <1>2, <1>4, PartIs
<1>. HIDE DEF s, t
<1>7. Len(s) = w /\ \A k \in 1..w : s[k] = h[k]
  BY <1>2, <1>4, <1>5
<1>8. Len(t) = Len(h) - w /\ \A k \in 1..(Len(h) - w) : t[k] = h[w + k]
  <2>1. \A k \in 1..(Len(h) - w) : k \in 1..(Len(h) + 1 - (w + 1)) /\ w + 1 + k - 1 = w + k
    BY <1>2, <1>4
  <2>. QED BY SMTT(20), <1>2, <1>4, <1>6, <2>1
<1>9. CASE w = Len(h)
  <2>1. Rest(queue, w) = u
    BY <1>9 DEF Rest, h, u
  <2>. QED BY <1>1, <1>5, <1>7, <1>9, <2>1 DEF h, s, u
<1>10. CASE w # Len(h)
  <2> DEFINE r == <<t>> \o u
             v == <<t>>
  <2>1. t \in Chunk
    <3>1. Len(t) # 0
      BY <1>2, <1>4, <1>8, <1>10
    <3>. QED BY <1>6, <3>1 DEF Chunk
  <2>2. v \in Seq(Chunk) /\ Len(v) = 1 /\ v[1] = t
    BY <2>1
  <2>3. r = v \o u
    OBVIOUS
  <2>. HIDE DEF v, r
  <2>4. /\ v \o u \in Seq(Chunk) /\ Len(v \o u) = Len(v) + Len(u)
        /\ \A k \in 1..(Len(v) + Len(u)) :
             (v \o u)[k] = IF k <= Len(v) THEN v[k] ELSE u[k - Len(v)]
    BY <1>1, <2>2, ConcatProperties
  <2>5. /\ r \in Seq(Chunk) /\ Len(r) = Len(queue) /\ r[1] = t
        /\ \A i \in 2..Len(queue) : r[i] = queue[i]
    <3>1. Len(u) \in Nat /\ 1 + Len(u) = Len(queue)
      BY <1>1
    <3>2. ASSUME NEW i \in 2..Len(queue) PROVE r[i] = queue[i]
      <4>1. i \in 1..(1 + Len(u)) /\ ~(i <= 1) /\ i - 1 \in 1..(Len(queue) - 1) /\ (i - 1) + 1 = i
        BY <1>1, <3>1
      <4>2. (v \o u)[i] = u[i - 1]
        BY <2>2, <2>4, <4>1
      <4>. QED BY <1>1, <2>3, <4>1, <4>2
    <3>3. r[1] = t
      BY <2>2, <2>3, <2>4, <3>1
    <3>. QED BY <2>2, <2>3, <2>4, <3>1, <3>2, <3>3
  <2>6. Rest(queue, w) = r
    BY <1>10 DEF Rest, h, t, r, u
  <2>. QED BY <1>5, <1>7, <1>8, <1>10, <2>5, <2>6 DEF h, s
<1>. QED BY <1>9, <1>10
-----------------------------------------------------------------------------
\* Type correctness

ConnT == [out_queue : Seq(Chunk), sent : BOOLEAN, fin : BOOLEAN,
          read_eof : BOOLEAN, wrote_eof : BOOLEAN, wrote_err : BOOLEAN]

\* The variables that most steps leave alone, by what they are for.
ListT ==
    /\ connections \in Seq(Conns) /\ state_list \in Seq(Conns)
    /\ num_connected \in 0..Cardinality(Conns) /\ freed \in SUBSET Conns
TurnT ==
    /\ jobs \in Seq(Job) /\ polled \in BOOLEAN /\ outputted \in BOOLEAN
    /\ reader \in BOOLEAN /\ mode \in Modes
    /\ drained \in SUBSET Conns /\ refused \in SUBSET Conns
    /\ unprompted \in [Conns -> Nat]
PipeT ==
    /\ blocked \in [conn : Conns \cup {Nobody}, data : Seq(Nat)]
    /\ program \in [Conns -> {"none", "running", "exited"}]
    /\ in \in [Conns -> 0..InSize] /\ out \in [Conns -> 0..OutSize]
ByteT ==
    /\ stdout \in 0..StdoutSize
    /\ received \in [Conns -> Nat] /\ accepted \in [Conns -> Nat]
    /\ written \in [Conns -> Seq(Nat)]
ConnsT == conn \in [Conns -> ConnT]

\* The type invariant is these parts.
LEMMA TypeParts ==
    TypeOK <=> ListT /\ TurnT /\ PipeT /\ ByteT /\ ConnsT
BY DEF TypeOK, ListT, TurnT, PipeT, ByteT, ConnsT, ConnT, Job, Kinds

\* The connections that are numbered.
LEMMA ConnsAre ==
    ASSUME ConnIOConstants
    PROVE  /\ Conns = 1..Cardinality(Conns) /\ Cardinality(Conns) \in Nat
           /\ Nobody \notin Conns
           /\ MaxSegDataSize \in Nat \ {0} /\ MaxBufSpace \in Nat
           /\ StdoutSize \in Nat /\ InSize \in Nat /\ OutSize \in Nat
           /\ MaxSegDataSize <= OutSize
<1>1. Cardinality(Conns) \in Nat
  BY FS_CardinalityType DEF ConnIOConstants
<1>. QED BY <1>1 DEF ConnIOConstants, Nobody

\* The fields of a connection.
LEMMA ConnFields ==
    ASSUME ConnsT, NEW c \in Conns
    PROVE  /\ conn[c].out_queue \in Seq(Chunk) /\ conn[c].sent \in BOOLEAN
           /\ conn[c].fin \in BOOLEAN /\ conn[c].read_eof \in BOOLEAN
           /\ conn[c].wrote_eof \in BOOLEAN /\ conn[c].wrote_err \in BOOLEAN
BY DEF ConnsT, ConnT

\* The head of the turn's calls, and its connection.
LEMMA DoingIs ==
    ASSUME TurnT, NEW job, NEW c, Doing(job, c)
    PROVE  /\ jobs # <<>> /\ Head(jobs) = <<job, c>>
           /\ Tail(jobs) \in Seq(Job)
BY DEF TurnT, Doing

\* The initial state is typed.
LEMMA InitType == ConnIOConstants /\ Init => TypeOK
<1> SUFFICES ASSUME ConnIOConstants, Init PROVE TypeOK
  OBVIOUS
<1>1. ListT
  BY ConnsAre DEF Init, ListT
<1>2. TurnT
  <2>1. <<>> \in Seq(Job)
    OBVIOUS
  <2>. QED BY <2>1 DEF Init, TurnT
<1>3. PipeT
  BY ConnsAre DEF Init, PipeT, None
<1>4. ByteT
  BY ConnsAre DEF Init, ByteT
<1>5. ConnsT
  BY DEF Init, ConnsT, ConnT
<1>. QED BY <1>1, <1>2, <1>3, <1>4, <1>5, TypeParts
-----------------------------------------------------------------------------
\* What each group of variables is changed by

\* What a program does the server does not see but in its pipes.
LEMMA ProgramFrame ==
    ASSUME NEW c, ProgramSteps(c)
    PROVE  UNCHANGED <<mode, lists, connections, conn, polled, jobs, outputted, blocked,
                       stdout, reader, bytes, received, drained, refused>>
BY DEF ProgramSteps, ProgramAnswers, ProgramReads, ProgramWrites, ProgramExits, lists,
   bytes, past

\* Only a new connection and the timer change the lists.
LEMMA ListFrame ==
    ASSUME [Next]_vars
    PROVE  \/ UNCHANGED lists
           \/ \E c \in Conns : tcp_new_connection(c)
           \/ ctcp_timer
<1>1. UNCHANGED vars \/ do_loop \/ WriteReturns \/ NothingToOutput \/ ReaderReads
        \/ ReaderLeaves => UNCHANGED lists
  BY DEF vars, do_loop, WriteReturns, NothingToOutput, ReaderReads, ReaderLeaves
<1>2. ASSUME NEW c \in Conns,
             \/ DrainWrites(c) \/ DrainStops(c) \/ Drained(c) \/ ReadRefused(c)
             \/ conn_input(c) \/ conn_output_eof(c) \/ ProgramSteps(c)
      PROVE  UNCHANGED lists
  BY <1>2, ProgramFrame DEF DrainWrites, DrainStops, Drained, ReadRefused, conn_input,
     conn_output_eof
<1>3. ASSUME NEW c \in Conns, NEW n \in 1..MaxSegDataSize,
             conn_output_nothing(c, n) \/ conn_output(c, n) \/ conn_output_program(c, n)
      PROVE  UNCHANGED lists
  BY <1>3 DEF conn_output_nothing, conn_output, conn_output_program
<1>. QED BY <1>1, <1>2, <1>3 DEF Next, Server, Handler

\* The steps that change a conn_t.
LEMMA ConnFrame ==
    ASSUME [Next]_vars
    PROVE  \/ UNCHANGED conn
           \/ \E c \in Conns :
                \/ DrainWrites(c) \/ DrainStops(c) \/ Drained(c) \/ conn_input(c)
                \/ conn_output_eof(c)
                \/ \E n \in 1..MaxSegDataSize : conn_output_nothing(c, n) \/ conn_output(c, n)
           \/ WriteReturns
           \/ ctcp_timer
BY ProgramFrame DEF Next, Server, Handler, vars, do_loop, ReadRefused,
   tcp_new_connection, conn_output_program, NothingToOutput, ReaderReads, ReaderLeaves

\* The steps that change a program, its pipes, or the write() the server sleeps in.
LEMMA PipeFrame ==
    ASSUME [Next]_vars
    PROVE  \/ UNCHANGED <<pipes, blocked>>
           \/ \E c \in Conns :
                \/ conn_input(c) \/ tcp_new_connection(c)
                \/ \E n \in 1..MaxSegDataSize : conn_output_program(c, n)
                \/ ProgramSteps(c)
           \/ WriteReturns
<1>1. UNCHANGED vars \/ do_loop \/ NothingToOutput \/ ctcp_timer \/ ReaderReads
        \/ ReaderLeaves => UNCHANGED <<pipes, blocked>>
  BY DEF vars, do_loop, NothingToOutput, ctcp_timer, ReaderReads, ReaderLeaves
<1>2. ASSUME NEW c \in Conns,
             \/ DrainWrites(c) \/ DrainStops(c) \/ Drained(c) \/ ReadRefused(c)
             \/ conn_output_eof(c)
             \/ \E n \in 1..MaxSegDataSize : conn_output_nothing(c, n) \/ conn_output(c, n)
      PROVE  UNCHANGED <<pipes, blocked>>
  BY <1>2 DEF DrainWrites, DrainStops, Drained, ReadRefused, conn_output_eof,
     conn_output_nothing, conn_output
<1>. QED BY <1>1, <1>2 DEF Next, Server, Handler

LEMMA SumsAre == \A x, y \in Nat : x + y \in Nat
OBVIOUS

\* What is held back of n more bytes is still within a limit.
LEMMA StillWithin ==
    ASSUME NEW x \in Nat, NEW y \in Nat, NEW n \in Nat \ {0}, NEW M \in Nat, M - (x - y) >= n
    PROVE  x + n \in Nat /\ x + n > x /\ (x + n) - y <= M
OBVIOUS

\* The steps that change what is counted, and standard output.
LEMMA ByteFrame ==
    ASSUME [Next]_vars
    PROVE  \/ UNCHANGED <<bytes, stdout>>
           \/ \E c \in Conns :
                \/ DrainWrites(c)
                \/ \E n \in 1..MaxSegDataSize : conn_output_nothing(c, n) \/ conn_output(c, n)
           \/ WriteReturns
           \/ ReaderReads \/ ReaderLeaves
<1>1. CASE \E c \in Conns : ProgramSteps(c)
  BY <1>1, ProgramFrame DEF bytes
<1>2. CASE UNCHANGED vars
  BY <1>2 DEF vars, bytes
<1>3. CASE do_loop \/ NothingToOutput \/ ctcp_timer
  BY <1>3 DEF do_loop, NothingToOutput, ctcp_timer, bytes
<1>4. ASSUME NEW c \in Conns,
             \/ DrainStops(c) \/ Drained(c) \/ ReadRefused(c) \/ conn_input(c)
             \/ tcp_new_connection(c) \/ conn_output_eof(c)
             \/ \E n \in 1..MaxSegDataSize : conn_output_program(c, n)
      PROVE  UNCHANGED <<bytes, stdout>>
  BY <1>4 DEF DrainStops, Drained, ReadRefused, conn_input, tcp_new_connection,
     conn_output_eof, conn_output_program, bytes
<1>. QED BY <1>1, <1>2, <1>3, <1>4 DEF Next, Server, Handler

\* A turn starts, a call returns, or conn_drain goes on to its end.
LEMMA JobsFrame ==
    ASSUME [Next]_vars
    PROVE  \/ UNCHANGED jobs
           \/ do_loop
           \/ jobs # <<>> /\ Done
           \/ \E c \in Conns : /\ Doing("conn_drain", c)
                               /\ jobs' = <<<<"drained", c>>>> \o Tail(jobs)
<1>1. UNCHANGED vars \/ ReaderReads \/ ReaderLeaves => UNCHANGED jobs
  BY DEF vars, ReaderReads, ReaderLeaves
<1>2. NothingToOutput \/ ctcp_timer => jobs # <<>> /\ Done
  BY DEF NothingToOutput, ctcp_timer, Doing
<1>3. ASSUME NEW c \in Conns, ProgramSteps(c)
      PROVE  UNCHANGED jobs
  BY <1>3, ProgramFrame
<1>4. ASSUME NEW c \in Conns,
             \/ Drained(c) \/ ReadRefused(c) \/ conn_input(c)
             \/ tcp_new_connection(c) \/ conn_output_eof(c)
      PROVE  jobs # <<>> /\ Done
  BY <1>4 DEF Drained, ReadRefused, conn_input, tcp_new_connection, conn_output_eof, Doing
<1>5. ASSUME NEW c \in Conns, DrainWrites(c) \/ DrainStops(c)
      PROVE  \/ UNCHANGED jobs
             \/ jobs # <<>> /\ Done
             \/ Doing("conn_drain", c) /\ jobs' = <<<<"drained", c>>>> \o Tail(jobs)
  BY <1>5 DEF DrainWrites, DrainStops, Doing
<1>6. ASSUME NEW c \in Conns, NEW n \in 1..MaxSegDataSize,
             conn_output_nothing(c, n) \/ conn_output(c, n) \/ conn_output_program(c, n)
      PROVE  UNCHANGED jobs \/ (jobs # <<>> /\ Done)
  BY <1>6 DEF conn_output_nothing, conn_output, conn_output_program, Arrives, Doing
<1>. QED
  <2>1. CASE WriteReturns
    BY <2>1 DEF WriteReturns, Done
  <2>. QED BY <1>1, <1>2, <1>3, <1>4, <1>5, <1>6, <2>1 DEF Next, Server, Handler

\* Other variables of the turn.
LEMMA TurnFrame ==
    ASSUME [Next]_vars
    PROVE  /\ mode' = mode
           /\ polled' \in {polled, TRUE, FALSE}
           /\ outputted' \in {outputted, TRUE, FALSE}
           /\ reader' \in {reader, FALSE}
           /\ \/ UNCHANGED past
              \/ \E c \in Conns :
                   \/ drained' = drained \cup {c} /\ UNCHANGED <<refused, unprompted>>
                   \/ /\ UNCHANGED <<drained, unprompted>>
                      /\ refused' \in {refused, refused \cup {c}, refused \ {c}}
                   \/ /\ UNCHANGED <<drained, refused>>
                      /\ unprompted' = [unprompted EXCEPT ![c] = @ + 1]
<1>1. UNCHANGED vars \/ do_loop \/ WriteReturns \/ NothingToOutput \/ ctcp_timer
        \/ ReaderReads \/ ReaderLeaves
        => /\ UNCHANGED <<mode, polled, outputted, past>> /\ reader' \in {reader, FALSE}
  BY DEF vars, past, do_loop, WriteReturns, NothingToOutput, ctcp_timer, ReaderReads,
     ReaderLeaves
<1>2. ASSUME NEW c \in Conns,
             \/ Drained(c) \/ tcp_new_connection(c) \/ conn_output_eof(c)
             \/ ProgramAnswers(c) \/ ProgramReads(c) \/ ProgramExits(c) \/ DrainStops(c)
      PROVE  /\ UNCHANGED <<mode, past, reader>> /\ polled' \in {polled, FALSE}
             /\ outputted' \in {outputted, FALSE}
  BY <1>2 DEF Drained, Reset, tcp_new_connection, conn_output_eof, ProgramAnswers,
     ProgramReads, ProgramExits, past, DrainStops
<1>3. ASSUME NEW c \in Conns, DrainWrites(c)
      PROVE  /\ UNCHANGED <<mode, refused, unprompted, reader>> /\ drained' = drained \cup {c}
             /\ polled' \in {TRUE, FALSE} /\ outputted' = TRUE
  BY <1>3 DEF DrainWrites, AskAgain
<1>4. ASSUME NEW c \in Conns, ReadRefused(c) \/ conn_input(c)
      PROVE  /\ UNCHANGED <<mode, polled, outputted, drained, unprompted, reader>>
             /\ refused' \in {refused, refused \cup {c}, refused \ {c}}
  BY <1>4 DEF ReadRefused, conn_input
<1>5. ASSUME NEW c \in Conns, NEW n \in 1..MaxSegDataSize,
             conn_output_nothing(c, n) \/ conn_output(c, n) \/ conn_output_program(c, n)
      PROVE  /\ UNCHANGED <<mode, outputted, past, reader>> /\ polled' \in {polled, TRUE}
  BY <1>5 DEF conn_output_nothing, conn_output, conn_output_program, Event, past
<1>6. ASSUME NEW c \in Conns, ProgramWrites(c)
      PROVE  /\ UNCHANGED <<mode, polled, outputted, reader, drained, refused>>
             /\ unprompted' = [unprompted EXCEPT ![c] = @ + 1]
  BY <1>6 DEF ProgramWrites
<1>7. \/ UNCHANGED vars \/ do_loop \/ WriteReturns \/ NothingToOutput \/ ctcp_timer
      \/ ReaderReads \/ ReaderLeaves
      \/ \E c \in Conns :
           \/ Drained(c) \/ tcp_new_connection(c) \/ conn_output_eof(c)
           \/ ProgramAnswers(c) \/ ProgramReads(c) \/ ProgramWrites(c) \/ ProgramExits(c)
           \/ DrainStops(c) \/ DrainWrites(c) \/ ReadRefused(c) \/ conn_input(c)
           \/ \E n \in 1..MaxSegDataSize :
                conn_output_nothing(c, n) \/ conn_output(c, n) \/ conn_output_program(c, n)
  BY DEF Next, Server, Handler, ProgramSteps
<1>8. UNCHANGED past => UNCHANGED <<drained, refused, unprompted>>
  BY DEF past
<1>. QED BY <1>1, <1>2, <1>3, <1>4, <1>5, <1>6, <1>7, <1>8

-----------------------------------------------------------------------------
\* The lists are typed in each step.
LEMMA ListTStep ==
    ASSUME ConnIOConstants, ListT, [Next]_vars
    PROVE  ListT'
<1>1. CASE UNCHANGED lists
  BY <1>1 DEF lists, ListT
<1>2. ASSUME NEW c \in Conns, tcp_new_connection(c)
      PROVE  ListT'
  <2>1. c = num_connected + 1 /\ num_connected' = c /\ connections' = <<c>> \o connections
    BY <1>2 DEF tcp_new_connection
  <2>2. connections \in Seq(Conns) /\ num_connected \in Nat /\ Conns \subseteq Nat
    BY ConnsAre DEF ListT
  <2>3. connections' \in Seq(Conns)
    BY <2>1, <2>2
  <2>4. state_list' \in Seq(Conns) /\ freed' \in SUBSET Conns
    BY <1>2 DEF tcp_new_connection, ListT
  <2>5. num_connected' \in 0..Cardinality(Conns)
    BY <2>1, ConnsAre
  <2>. QED BY <2>3, <2>4, <2>5 DEF ListT
<1>3. CASE ctcp_timer
  <2>1. UNCHANGED num_connected
    BY <1>3 DEF ctcp_timer
  <2>2. CASE UNCHANGED <<connections, state_list, freed>>
    BY <2>1, <2>2 DEF ListT
  <2>3. CASE state_list # <<>> /\ state_list' = Tail(state_list) /\ conn_free(Head(state_list))
    <3> DEFINE c == Head(state_list)
    <3>1. c \in Conns /\ state_list' \in Seq(Conns)
      BY <2>3 DEF ListT
    <3>2. connections' \in Seq(Conns) /\ freed' \in SUBSET Conns
      <4>. HIDE DEF c
      <4>1. conn_free(c)
        BY <2>3 DEF c
      <4>2. CASE UNCHANGED <<connections, freed>>
        BY <4>2 DEF ListT
      <4>3. ASSUME NEW i \in DOMAIN connections, freed' = freed \cup {c},
                   connections' = IF i = 1 THEN <<>> ELSE RemoveAt(connections, i)
            PROVE  connections' \in Seq(Conns) /\ freed' \in SUBSET Conns
        <5>1. connections \in Seq(Conns) /\ i \in 1..Len(connections)
          BY DEF ListT
        <5>2. RemoveAt(connections, i) \in Seq(Conns)
          BY <5>1, RemoveAtIndex
        <5>. QED BY <3>1, <4>3, <5>2 DEF ListT
      <4>. QED BY <4>1, <4>2, <4>3 DEF conn_free
    <3>. QED BY <2>1, <3>1, <3>2 DEF ListT
  <2>. QED BY <1>3, <2>2, <2>3 DEF ctcp_timer
<1>. QED BY <1>1, <1>2, <1>3, ListFrame

\* The calls of a turn are typed and in order in each step.
LEMMA TurnStep ==
    ASSUME ListT, TurnT, ListOK, TurnOK, [Next]_vars
    PROVE  TurnT' /\ TurnOK'
<1>1. jobs \in Seq(Job) /\ connections \in Seq(Conns)
  BY DEF ListT, TurnT
<1>2. jobs' \in Seq(Job) /\ TurnOK'
  <2>1. CASE UNCHANGED jobs
    BY <1>1, <2>1 DEF TurnOK
  <2>2. CASE do_loop
    BY <1>1, <2>2, TurnStarts
  <2>3. CASE jobs # <<>> /\ Done
    BY <1>1, <2>3, Returns
  <2>4. ASSUME NEW c \in Conns, Doing("conn_drain", c),
               jobs' = <<<<"drained", c>>>> \o Tail(jobs)
        PROVE  jobs' \in Seq(Job) /\ TurnOK'
    BY <1>1, <2>4, LoopEnds
  <2>. QED BY <2>1, <2>2, <2>3, <2>4, JobsFrame
<1>3. /\ drained' \in SUBSET Conns /\ refused' \in SUBSET Conns
      /\ unprompted' \in [Conns -> Nat]
  <2>1. drained \in SUBSET Conns /\ refused \in SUBSET Conns /\ unprompted \in [Conns -> Nat]
    BY DEF TurnT
  <2>2. CASE UNCHANGED past
    BY <2>1, <2>2 DEF past
  <2>3. ASSUME NEW c \in Conns, unprompted' = [unprompted EXCEPT ![c] = @ + 1]
        PROVE  unprompted' \in [Conns -> Nat]
    BY <2>1, <2>3
  <2>. QED BY <2>1, <2>2, <2>3, TurnFrame
<1>4. polled' \in BOOLEAN /\ outputted' \in BOOLEAN /\ reader' \in BOOLEAN /\ mode' \in Modes
  BY TurnFrame DEF TurnT
<1>. QED BY <1>2, <1>3, <1>4 DEF TurnT
\* What is read of a program: a segment, or less if there is less.
LEMMA Reads ==
    ASSUME ConnIOConstants, PipeT, NEW c \in Conns, conn_input(c)
    PROVE  \E taken \in 0..MaxSegDataSize :
             /\ taken <= out[c] /\ (taken = MaxSegDataSize \/ taken = out[c])
             /\ out' = [out EXCEPT ![c] = @ - taken]
             /\ \E eof \in (IF run_program THEN {taken = 0} ELSE BOOLEAN) :
                  conn' = [conn EXCEPT ![c].read_eof = eof, ![c].sent = TRUE]
<1> DEFINE taken == Min({MaxSegDataSize, out[c]})
<1>1. out[c] \in Nat /\ MaxSegDataSize \in Nat
  BY ConnsAre DEF PipeT
<1>2. out[c] \in Int /\ MaxSegDataSize \in Int
  BY <1>1
<1>3. taken \in {MaxSegDataSize, out[c]} /\ taken <= MaxSegDataSize /\ taken <= out[c]
  BY <1>2, MinIs
<1>4. /\ out' = [out EXCEPT ![c] = @ - taken]
      /\ \E eof \in (IF run_program THEN {taken = 0} ELSE BOOLEAN) :
           conn' = [conn EXCEPT ![c].read_eof = eof, ![c].sent = TRUE]
  BY DEF conn_input
<1>. HIDE DEF taken
<1>5. taken \in 0..MaxSegDataSize /\ (taken = MaxSegDataSize \/ taken = out[c])
  BY <1>1, <1>3
<1>. QED BY <1>3, <1>4, <1>5

\* The pipes of the programs hold what they can at most.
LEMMA PipeTStep ==
    ASSUME ConnIOConstants, PipeT, ByteT, [Next]_vars
    PROVE  PipeT'
<1>1. CASE UNCHANGED <<pipes, blocked>>
  BY <1>1 DEF pipes, PipeT
<1>2. ASSUME NEW c \in Conns, conn_input(c) PROVE PipeT'
  <2>1. UNCHANGED <<program, in, blocked>>
    BY <1>2 DEF conn_input
  <2>2. PICK taken \in 0..MaxSegDataSize :
          taken <= out[c] /\ out' = [out EXCEPT ![c] = @ - taken]
    BY <1>2, Reads
  <2>3. out[c] \in 0..OutSize /\ OutSize \in Nat /\ taken \in Nat
    BY ConnsAre DEF PipeT
  <2>4. out[c] - taken \in 0..OutSize
    BY <2>2, <2>3
  <2>. QED BY <2>1, <2>2, <2>4 DEF PipeT
<1>3. ASSUME NEW c \in Conns, tcp_new_connection(c) PROVE PipeT'
  <2>1. UNCHANGED <<in, out, blocked>>
    BY <1>3 DEF tcp_new_connection
  <2>2. program' = program \/ program' = [program EXCEPT ![c] = "running"]
    BY <1>3 DEF tcp_new_connection, execute_program
  <2>. QED BY <2>1, <2>2 DEF PipeT
<1>4. ASSUME NEW c \in Conns, NEW n \in 1..MaxSegDataSize, conn_output_program(c, n)
      PROVE  PipeT'
  <2>1. UNCHANGED <<program, in, out>> /\ blocked' = [conn |-> c, data |-> Data(c, n)]
    BY <1>4 DEF conn_output_program, pipes
  <2>2. n \in Nat /\ received[c] \in Nat
    BY ConnsAre DEF ByteT
  <2>3. Data(c, n) \in Seq(Nat)
    BY <2>2, DataT
  <2>. QED BY <2>1, <2>3 DEF PipeT
<1>5. ASSUME NEW c \in Conns, ProgramAnswers(c) PROVE PipeT'
  <2>1. UNCHANGED <<program, blocked>>
    BY <1>5 DEF ProgramAnswers
  <2>2. /\ in[c] > 0 /\ out[c] < OutSize
        /\ in' = [in EXCEPT ![c] = @ - 1] /\ out' = [out EXCEPT ![c] = @ + 1]
    BY <1>5 DEF ProgramAnswers
  <2>3. in[c] - 1 \in 0..InSize /\ out[c] + 1 \in 0..OutSize
    <3>1. in[c] \in 0..InSize /\ out[c] \in 0..OutSize
      BY DEF PipeT
    <3>. QED BY <2>2, <3>1, ConnsAre
  <2>. QED BY <2>1, <2>2, <2>3 DEF PipeT
<1>6. ASSUME NEW c \in Conns, ProgramReads(c) PROVE PipeT'
  <2>1. UNCHANGED <<program, out, blocked>> /\ in[c] > 0 /\ in' = [in EXCEPT ![c] = @ - 1]
    BY <1>6 DEF ProgramReads
  <2>2. in[c] - 1 \in 0..InSize
    BY <2>1, ConnsAre DEF PipeT
  <2>. QED BY <2>1, <2>2 DEF PipeT
<1>7. ASSUME NEW c \in Conns, ProgramWrites(c) PROVE PipeT'
  <2>1. /\ UNCHANGED <<program, in, blocked>>
        /\ out[c] < OutSize /\ out' = [out EXCEPT ![c] = @ + 1]
    BY <1>7 DEF ProgramWrites
  <2>2. out[c] + 1 \in 0..OutSize
    BY <2>1, ConnsAre DEF PipeT
  <2>. QED BY <2>1, <2>2 DEF PipeT
<1>8. ASSUME NEW c \in Conns, ProgramExits(c) PROVE PipeT'
  BY <1>8, ConnsAre DEF ProgramExits, PipeT
<1>9. CASE WriteReturns
  <2> DEFINE c == blocked.conn
             n == Len(blocked.data)
  <2>1. UNCHANGED <<program, out>> /\ blocked' = None
    BY <1>9 DEF WriteReturns
  <2>2. None \in [conn : Conns \cup {Nobody}, data : Seq(Nat)]
    BY DEF None
  <2>3. in' = in \/ (c \in Conns /\ in[c] + n <= InSize /\ in' = [in EXCEPT ![c] = @ + n])
    BY <1>9 DEF WriteReturns, PipeT
  <2>4. n \in Nat
    BY DEF PipeT
  <2>5. ASSUME c \in Conns, in[c] + n <= InSize PROVE in[c] + n \in 0..InSize
    BY <2>4, <2>5, ConnsAre DEF PipeT
  <2>. HIDE DEF c, n
  <2>6. in' \in [Conns -> 0..InSize]
    BY <2>3, <2>5 DEF PipeT
  <2>. QED BY <2>1, <2>2, <2>6 DEF PipeT
<1>. QED BY <1>1, <1>2, <1>3, <1>4, <1>5, <1>6, <1>7, <1>8, <1>9, PipeFrame
            DEF ProgramSteps

-----------------------------------------------------------------------------
\* What conn_drain writes of the first chunk.
LEMMA Drains ==
    ASSUME ConnIOConstants, TurnT, ByteT, ConnsT, NEW c \in Conns, DrainWrites(c)
    PROVE  LET queue == conn[c].out_queue IN
           \E w \in 1..Len(Head(queue)) :
             /\ queue \in Seq(Chunk) /\ queue # <<>>
             /\ written' = [written EXCEPT ![c] = @ \o SubSeq(Head(queue), 1, w)]
             /\ stdout' = stdout + w /\ stdout' \in 0..StdoutSize
             /\ conn' = [conn EXCEPT ![c].out_queue = Rest(queue, w)]
             /\ SubSeq(Head(queue), 1, w) \in Seq(Nat)
             /\ Rest(queue, w) \in Seq(Chunk)
<1> DEFINE queue == conn[c].out_queue
           h == Head(queue)
<1>1. queue \in Seq(Chunk) /\ queue # <<>>
  BY ConnFields DEF DrainWrites
<1>2. h \in Chunk
  BY <1>1
<1>3. Len(h) \in Nat \ {0}
  BY <1>2 DEF Chunk
<1>4. PICK w \in Taken(Len(h)) \ {0} :
        /\ written' = [written EXCEPT ![c] = @ \o SubSeq(h, 1, w)]
        /\ stdout' = stdout + Len(SubSeq(h, 1, w))
        /\ conn' = [conn EXCEPT ![c].out_queue = Rest(queue, w)]
  BY DEF DrainWrites, Wrote
<1>5. w \in 0..Len(h) /\ stdout + w \in 0..StdoutSize
  BY <1>3, TakenIs DEF TurnT, ByteT
<1>6. w \in 1..Len(h)
  BY <1>3, <1>4, <1>5
<1>7. /\ SubSeq(h, 1, w) \in Seq(Nat) /\ Len(SubSeq(h, 1, w)) = w
      /\ Rest(queue, w) \in Seq(Chunk)
  BY <1>1, <1>6, RestIs
<1>. QED BY <1>1, <1>4, <1>5, <1>6, <1>7

\* What conn_output writes at once, and queues.
OutputIs(c, n, w) ==
    LET queue == conn[c].out_queue
        rest == SubSeq(Data(c, n), w + 1, n) IN
    /\ queue \in Seq(Chunk)
    /\ queue # <<>> => w = 0
    /\ written' = [written EXCEPT ![c] = @ \o SubSeq(Data(c, n), 1, w)]
    /\ SubSeq(Data(c, n), 1, w) \in Seq(Nat)
    /\ stdout' = stdout + w /\ stdout' \in 0..StdoutSize
    /\ \/ w = n /\ conn' = conn
       \/ /\ w < n /\ rest \in Chunk
          /\ conn' = [conn EXCEPT ![c].out_queue = Append(queue, rest)]
    /\ received' = [received EXCEPT ![c] = @ + n]
    /\ accepted' = [accepted EXCEPT ![c] = @ + n]

\* Of the bytes that arrive, it writes the first w and queues the others.
LEMMA Outputs ==
    ASSUME ConnIOConstants, TurnT, ByteT, ConnsT,
           NEW c \in Conns, NEW n \in 1..MaxSegDataSize, conn_output(c, n)
    PROVE  \E w \in 0..n : OutputIs(c, n, w)
<1> DEFINE queue == conn[c].out_queue
<1>1. queue \in Seq(Chunk) /\ conn \in [Conns -> ConnT]
  BY ConnFields DEF ConnsT
<1>2. n \in Nat \ {0} /\ received[c] \in Nat /\ n \in Nat
  BY ConnsAre DEF ByteT
<1>3. PICK w \in (IF WritesNow(c) THEN Taken(n) ELSE {0}) :
        /\ Wrote(c, SubSeq(Data(c, n), 1, w))
        /\ conn' = [conn EXCEPT ![c].out_queue =
                      IF w = n THEN @ ELSE Append(@, SubSeq(Data(c, n), w + 1, n))]
  BY DEF conn_output
<1>4. w \in 0..n /\ stdout + w \in 0..StdoutSize /\ (queue # <<>> => w = 0)
  <2>1. \A x \in Taken(n) : x \in 0..n /\ stdout + x \in 0..StdoutSize
    BY <1>2, TakenIs DEF TurnT, ByteT
  <2>2. stdout + 0 \in 0..StdoutSize /\ 0 \in 0..n
    BY <1>2, ConnsAre DEF ByteT
  <2>. QED BY <1>3, <2>1, <2>2 DEF WritesNow
<1>5. /\ SubSeq(Data(c, n), 1, w) \in Seq(Nat) /\ Len(SubSeq(Data(c, n), 1, w)) = w
      /\ SubSeq(Data(c, n), w + 1, n) \in Seq(Nat)
      /\ Len(SubSeq(Data(c, n), w + 1, n)) = n - w
  <2>1. DataParts(c, n, w)
    BY <1>2, <1>4, DataIs
  <2>. QED BY <2>1 DEF DataParts
<1>6. /\ written' = [written EXCEPT ![c] = @ \o SubSeq(Data(c, n), 1, w)]
      /\ stdout' = stdout + w
  BY <1>3, <1>5 DEF Wrote
<1>7. CASE w = n
  <2>1. conn' = [conn EXCEPT ![c].out_queue = @]
    BY <1>3, <1>7
  <2>2. conn' = conn
    BY <1>1, <2>1 DEF ConnT
  <2>. QED BY <1>1, <1>4, <1>5, <1>6, <1>7, <2>2
           DEF conn_output, Acknowledged, Accepted, OutputIs
<1>8. CASE w # n
  <2>1. w < n /\ SubSeq(Data(c, n), w + 1, n) \in Chunk
    <3> DEFINE s == SubSeq(Data(c, n), w + 1, n)
    <3>1. s \in Seq(Nat) /\ Len(s) = n - w
      BY <1>5
    <3>. HIDE DEF s
    <3>2. Len(s) # 0 /\ w < n
      BY <1>2, <1>4, <1>8, <3>1
    <3>3. s # <<>>
      BY <3>2
    <3>. QED BY <3>1, <3>2, <3>3 DEF Chunk, s
  <2>2. conn' = [conn EXCEPT ![c].out_queue = Append(queue, SubSeq(Data(c, n), w + 1, n))]
    BY <1>3, <1>8
  <2>. QED BY <1>1, <1>4, <1>5, <1>6, <2>1, <2>2
           DEF conn_output, Acknowledged, Accepted, OutputIs
<1>. QED BY <1>7, <1>8
\* What a connection never loses, and a step that leaves every queue as it is.
Kept(d) ==
    /\ conn[d].fin => conn'[d].fin
    /\ conn[d].wrote_eof => conn'[d].wrote_eof
    /\ conn[d].wrote_err => conn'[d].wrote_err
SameQueues == \A d \in Conns : conn'[d].out_queue = conn[d].out_queue /\ Kept(d)

\* A write() that fails only records the error.
LEMMA ErrorSet ==
    ASSUME ConnsT, NEW c \in Conns,
           conn' = conn \/ conn' = [conn EXCEPT ![c].wrote_err = TRUE]
    PROVE  ConnsT' /\ SameQueues
<1>1. CASE conn' = conn
  BY <1>1 DEF ConnsT, SameQueues, Kept
<1>2. CASE conn' = [conn EXCEPT ![c].wrote_err = TRUE]
  BY <1>2 DEF ConnsT, ConnT, SameQueues, Kept
<1>. QED BY <1>1, <1>2

\* Only conn_drain, conn_output and conn_free change a queue.
LEMMA QueueFrame ==
    ASSUME ConnIOConstants, PipeT, ConnsT, [Next]_vars
    PROVE  \/ \E c \in Conns :
                DrainWrites(c) \/ \E n \in 1..MaxSegDataSize : conn_output(c, n)
           \/ ctcp_timer
           \/ ConnsT' /\ SameQueues
<1>1. CASE UNCHANGED conn
  BY <1>1 DEF ConnsT, SameQueues, Kept
<1>2. ASSUME NEW c \in Conns, DrainStops(c) PROVE ConnsT' /\ SameQueues
  <2>1. conn' = conn \/ conn' = [conn EXCEPT ![c].wrote_err = TRUE]
    BY <1>2 DEF DrainStops
  <2>. QED BY <2>1, ErrorSet
<1>3. ASSUME NEW c \in Conns, Drained(c) PROVE ConnsT' /\ SameQueues
  <2> DEFINE a == conn[c].wrote_err \/ (conn[c].wrote_eof /\ conn[c].out_queue = <<>>)
             b == conn[c].wrote_eof \/ outputted
  <2>1. conn' = [conn EXCEPT ![c].wrote_err = a, ![c].wrote_eof = b]
    BY <1>3 DEF Drained
  <2>2. a \in BOOLEAN /\ b \in BOOLEAN
    OBVIOUS
  <2>3. (conn[c].wrote_err => a) /\ (conn[c].wrote_eof => b)
    OBVIOUS
  <2>. HIDE DEF a, b
  <2>4. ConnsT'
    BY <2>1, <2>2, ZenonT(30) DEF ConnsT, ConnT
  <2>5. \A d \in Conns : d # c => conn'[d] = conn[d]
    BY <2>1 DEF ConnsT
  <2>6. /\ conn'[c].out_queue = conn[c].out_queue /\ conn'[c].fin = conn[c].fin
        /\ conn'[c].wrote_err = a /\ conn'[c].wrote_eof = b
    BY <2>1 DEF ConnsT, ConnT
  <2>. QED BY <2>3, <2>4, <2>5, <2>6 DEF SameQueues, Kept
<1>4. ASSUME NEW c \in Conns, conn_input(c) PROVE ConnsT' /\ SameQueues
  <2>1. PICK eof \in BOOLEAN :
          conn' = [conn EXCEPT ![c].read_eof = eof, ![c].sent = TRUE]
    BY <1>4, Reads
  <2>2. ConnsT'
    BY <2>1, ZenonT(30) DEF ConnsT, ConnT
  <2>3. \A d \in Conns : d # c => conn'[d] = conn[d]
    BY <2>1 DEF ConnsT
  <2>4. /\ conn'[c].out_queue = conn[c].out_queue /\ conn'[c].fin = conn[c].fin
        /\ conn'[c].wrote_err = conn[c].wrote_err /\ conn'[c].wrote_eof = conn[c].wrote_eof
    BY <2>1 DEF ConnsT, ConnT
  <2>. QED BY <2>2, <2>3, <2>4 DEF SameQueues, Kept
<1>5. ASSUME NEW c \in Conns, conn_output_eof(c) PROVE ConnsT' /\ SameQueues
  <2>1. conn' = [conn EXCEPT ![c].fin = TRUE, ![c].wrote_eof = TRUE]
    BY <1>5 DEF conn_output_eof
  <2>2. ConnsT'
    BY <2>1, ZenonT(30) DEF ConnsT, ConnT
  <2>3. \A d \in Conns : d # c => conn'[d] = conn[d]
    BY <2>1 DEF ConnsT
  <2>4. /\ conn'[c].out_queue = conn[c].out_queue /\ conn'[c].fin = TRUE
        /\ conn'[c].wrote_err = conn[c].wrote_err /\ conn'[c].wrote_eof = TRUE
    BY <2>1 DEF ConnsT, ConnT
  <2>. QED BY <2>2, <2>3, <2>4 DEF SameQueues, Kept
<1>6. ASSUME NEW c \in Conns, NEW n \in 1..MaxSegDataSize, conn_output_nothing(c, n)
      PROVE  ConnsT' /\ SameQueues
  <2>1. conn' = conn \/ conn' = [conn EXCEPT ![c].wrote_err = TRUE]
    BY <1>6 DEF conn_output_nothing
  <2>. QED BY <2>1, ErrorSet
<1>7. CASE WriteReturns
  <2> DEFINE c == blocked.conn
  <2>1. c \in Conns
    BY <1>7 DEF WriteReturns, PipeT
  <2>2. conn' = conn \/ conn' = [conn EXCEPT ![c].wrote_err = TRUE]
    BY <1>7 DEF WriteReturns
  <2>. HIDE DEF c
  <2>. QED BY <2>1, <2>2, ErrorSet
<1>8. SUFFICES ASSUME ~ctcp_timer,
                      ~\E c \in Conns :
                         \/ DrainWrites(c)
                         \/ \E n \in 1..MaxSegDataSize : conn_output(c, n)
               PROVE  ConnsT' /\ SameQueues
  OBVIOUS
<1>9. \/ UNCHANGED conn \/ WriteReturns
      \/ \E c \in Conns :
           \/ DrainStops(c) \/ Drained(c) \/ conn_input(c) \/ conn_output_eof(c)
           \/ \E n \in 1..MaxSegDataSize : conn_output_nothing(c, n)
  BY <1>8, ConnFrame
<1>10. ASSUME NEW c \in Conns,
              \/ DrainStops(c) \/ Drained(c) \/ conn_input(c) \/ conn_output_eof(c)
              \/ \E n \in 1..MaxSegDataSize : conn_output_nothing(c, n)
       PROVE  ConnsT' /\ SameQueues
  <2>1. CASE DrainStops(c) \/ Drained(c) \/ conn_input(c) \/ conn_output_eof(c)
    BY <1>2, <1>3, <1>4, <1>5, <2>1
  <2>2. CASE \E n \in 1..MaxSegDataSize : conn_output_nothing(c, n)
    BY <1>6, <2>2
  <2>. QED BY <1>10, <2>1, <2>2
<1>. QED BY <1>1, <1>7, <1>8, <1>9, <1>10

\* What conn_free does to the connections.
LEMMA Frees ==
    ASSUME ListT, ConnsT, ListOK, ctcp_timer
    PROVE  \/ UNCHANGED <<conn, connections, freed>>
           \/ \E c \in Range(connections) :
                /\ c \in Conns /\ (Ends(c) \/ GivesUp(c))
                /\ freed' = freed \cup {c}
                /\ conn' = [conn EXCEPT ![c].out_queue = <<>>]
                /\ \A d \in Range(connections') : d \in Range(connections) /\ d # c
                /\ \A i, j \in DOMAIN connections' :
                     connections'[i] = connections'[j] => i = j
<1>1. SUFFICES ASSUME ~UNCHANGED <<conn, connections, freed>>
               PROVE  \E c \in Range(connections) :
                        /\ c \in Conns /\ (Ends(c) \/ GivesUp(c))
                        /\ freed' = freed \cup {c}
                        /\ conn' = [conn EXCEPT ![c].out_queue = <<>>]
                        /\ \A d \in Range(connections') : d \in Range(connections) /\ d # c
                        /\ \A i, j \in DOMAIN connections' :
                             connections'[i] = connections'[j] => i = j
  OBVIOUS
<1> DEFINE c == Head(state_list)
<1>2. conn_free(c) /\ (Ends(c) \/ GivesUp(c))
  BY <1>1 DEF ctcp_timer
<1>. HIDE DEF c
<1>3. PICK i \in DOMAIN connections :
        /\ connections[i] = c /\ freed' = freed \cup {c}
        /\ connections' = IF i = 1 THEN <<>> ELSE RemoveAt(connections, i)
        /\ conn' = [conn EXCEPT ![c].out_queue = <<>>]
  BY <1>1, <1>2 DEF conn_free
<1>4. connections \in Seq(Conns) /\ i \in 1..Len(connections)
      /\ DOMAIN connections = 1..Len(connections) /\ Len(connections) \in Nat
  BY DEF ListT
<1>5. c \in Range(connections) /\ c \in Conns
  BY <1>3, <1>4 DEF Range
<1>6. /\ \A d \in Range(connections') : d \in Range(connections) /\ d # c
      /\ \A k, l \in DOMAIN connections' : connections'[k] = connections'[l] => k = l
  <2>1. CASE connections' = <<>>
    BY <2>1 DEF Range
  <2>2. CASE connections' = RemoveAt(connections, i)
    <3> DEFINE g(k) == IF k < i THEN k ELSE k + 1
    <3>1. /\ connections' \in Seq(Conns) /\ Len(connections') = Len(connections) - 1
          /\ \A k \in 1..(Len(connections) - 1) : connections'[k] = connections[g(k)]
      BY <1>4, <2>2, RemoveAtIndex
    <3>2. DOMAIN connections' = 1..(Len(connections) - 1)
      BY <3>1
    <3>3. \A k \in DOMAIN connections' : g(k) \in DOMAIN connections /\ g(k) # i
      BY <1>4, <3>2
    <3>4. \A k, l \in DOMAIN connections' : g(k) = g(l) => k = l
      BY <1>4, <3>2
    <3>. HIDE DEF g
    <3>5. \A k \in DOMAIN connections' :
            connections'[k] \in Range(connections) /\ connections'[k] # c
      BY <1>3, <3>1, <3>2, <3>3 DEF ListOK, Range
    <3>6. \A d \in Range(connections') : d \in Range(connections) /\ d # c
      BY <3>5 DEF Range
    <3>7. \A k, l \in DOMAIN connections' : connections'[k] = connections'[l] => k = l
      BY <3>1, <3>2, <3>3, <3>4 DEF ListOK
    <3>. QED BY <3>6, <3>7
  <2>. QED BY <1>3, <2>1, <2>2
<1>. QED BY <1>2, <1>3, <1>5, <1>6

\* Every connection keeps its type.
LEMMA ConnsTStep ==
    ASSUME ConnIOConstants, ListT, TurnT, PipeT, ByteT, ConnsT, ListOK, [Next]_vars
    PROVE  ConnsT'
<1>1. ASSUME NEW c \in Conns, DrainWrites(c) PROVE ConnsT'
  <2>1. PICK q \in Seq(Chunk) : conn' = [conn EXCEPT ![c].out_queue = q]
    BY <1>1, Drains
  <2>. QED BY <2>1, ZenonT(30) DEF ConnsT, ConnT
<1>2. ASSUME NEW c \in Conns, NEW n \in 1..MaxSegDataSize, conn_output(c, n) PROVE ConnsT'
  <2>1. \/ conn' = conn
        \/ \E x \in Chunk : conn' = [conn EXCEPT ![c].out_queue = Append(conn[c].out_queue, x)]
    BY <1>2, Outputs DEF OutputIs
  <2>2. \A x \in Chunk : Append(conn[c].out_queue, x) \in Seq(Chunk)
    BY ConnFields
  <2>3. CASE conn' = conn
    BY <2>3 DEF ConnsT
  <2>4. ASSUME NEW q \in Seq(Chunk), conn' = [conn EXCEPT ![c].out_queue = q] PROVE ConnsT'
    BY <2>4, ZenonT(30) DEF ConnsT, ConnT
  <2>. QED BY <2>1, <2>2, <2>3, <2>4
<1>3. CASE ctcp_timer
  <2>1. conn' = conn \/ \E c \in Conns : conn' = [conn EXCEPT ![c].out_queue = <<>>]
    BY <1>3, Frees
  <2>2. <<>> \in Seq(Chunk)
    OBVIOUS
  <2>. QED BY <2>1, <2>2, ZenonT(30) DEF ConnsT, ConnT
<1>. QED BY <1>1, <1>2, <1>3, QueueFrame
\* What is counted stays a number, and what is written a sequence of bytes.
LEMMA ByteTStep ==
    ASSUME ConnIOConstants, TurnT, PipeT, ByteT, ConnsT, [Next]_vars
    PROVE  ByteT'
<1>1. CASE UNCHANGED <<bytes, stdout>>
  BY <1>1 DEF bytes, ByteT
<1>2. ASSUME NEW c \in Conns, DrainWrites(c) PROVE ByteT'
  <2>1. UNCHANGED <<received, accepted>>
    BY <1>2 DEF DrainWrites
  <2>2. PICK s \in Seq(Nat) : written' = [written EXCEPT ![c] = @ \o s]
    BY <1>2, Drains
  <2>3. stdout' \in 0..StdoutSize
    BY <1>2, Drains
  <2>4. written[c] \o s \in Seq(Nat)
    BY DEF ByteT
  <2>. QED BY <2>1, <2>2, <2>3, <2>4 DEF ByteT
<1>3. ASSUME NEW c \in Conns, NEW n \in 1..MaxSegDataSize, conn_output_nothing(c, n)
      PROVE  ByteT'
  <2>1. UNCHANGED <<accepted, written, stdout>> /\ received' = [received EXCEPT ![c] = @ + n]
    BY <1>3 DEF conn_output_nothing, Acknowledged
  <2>2. received[c] + n \in Nat
    BY ConnsAre DEF ByteT
  <2>. QED BY <2>1, <2>2 DEF ByteT
<1>4. ASSUME NEW c \in Conns, NEW n \in 1..MaxSegDataSize, conn_output(c, n)
      PROVE  ByteT'
  <2>1. PICK s \in Seq(Nat) :
          /\ written' = [written EXCEPT ![c] = @ \o s] /\ stdout' \in 0..StdoutSize
          /\ received' = [received EXCEPT ![c] = @ + n]
          /\ accepted' = [accepted EXCEPT ![c] = @ + n]
    BY <1>4, Outputs DEF OutputIs
  <2>2. /\ written[c] \o s \in Seq(Nat)
        /\ received[c] + n \in Nat /\ accepted[c] + n \in Nat
    <3>1. written[c] \in Seq(Nat) /\ received[c] \in Nat /\ accepted[c] \in Nat /\ n \in Nat
      BY ConnsAre DEF ByteT
    <3>2. written[c] \o s \in Seq(Nat)
      BY <2>1, <3>1
    <3>3. received[c] + n \in Nat /\ accepted[c] + n \in Nat
      BY <3>1, SumsAre
    <3>. QED BY <3>2, <3>3
  <2>. QED BY <2>1, <2>2 DEF ByteT
<1>5. CASE WriteReturns
  <2> DEFINE c == blocked.conn
             n == Len(blocked.data)
             s == blocked.data
  <2>1. c \in Conns /\ n \in Nat /\ s \in Seq(Nat)
    BY <1>5 DEF WriteReturns, PipeT
  <2>2. /\ received' = [received EXCEPT ![c] = @ + n] /\ stdout' = stdout
        /\ \/ UNCHANGED <<accepted, written>>
           \/ /\ accepted' = [accepted EXCEPT ![c] = @ + n]
              /\ written' = [written EXCEPT ![c] = @ \o s]
    BY <1>5 DEF WriteReturns, Acknowledged, Accepted
  <2>. HIDE DEF c, n, s
  <2>3. /\ written[c] \o s \in Seq(Nat)
        /\ received[c] + n \in Nat /\ accepted[c] + n \in Nat
    BY <2>1 DEF ByteT
  <2>. QED BY <2>1, <2>2, <2>3 DEF ByteT
<1>6. CASE ReaderReads
  <2>1. stdout > 0 /\ stdout' = stdout - 1 /\ UNCHANGED bytes
    BY <1>6 DEF ReaderReads
  <2>. QED BY <2>1, ConnsAre DEF ByteT, bytes
<1>7. CASE ReaderLeaves
  <2>1. stdout' = 0 /\ UNCHANGED bytes
    BY <1>7 DEF ReaderLeaves
  <2>. QED BY <2>1, ConnsAre DEF ByteT, bytes
<1>8. ASSUME NEW c \in Conns,
             \E n \in 1..MaxSegDataSize : conn_output_nothing(c, n) \/ conn_output(c, n)
      PROVE  ByteT'
  BY <1>3, <1>4, <1>8
<1>. QED BY <1>1, <1>2, <1>5, <1>6, <1>7, <1>8, ByteFrame

-----------------------------------------------------------------------------
\* The list of connections

\* A connection of the list has a number that was given.
LEMMA Listed ==
    ASSUME ConnIOConstants, ListT, ListOK
    PROVE  /\ num_connected \in Nat
           /\ \A i \in DOMAIN connections : connections[i] \in Range(connections)
           /\ \A d \in Range(connections) :
                d \in Conns /\ d \in Nat /\ d <= num_connected /\ ~(d > num_connected)
<1>1. num_connected \in Nat /\ connections \in Seq(Conns) /\ Conns \subseteq Nat
  BY ConnsAre DEF ListT
<1>2. \A i \in DOMAIN connections : connections[i] \in Range(connections)
  BY DEF Range
<1>3. \A d \in Range(connections) : d \in Conns
  BY <1>1 DEF Range
<1>4. ASSUME NEW d \in Range(connections)
      PROVE  d \in Conns /\ d \in Nat /\ d <= num_connected /\ ~(d > num_connected)
  <2>1. d \in Conns /\ d \in Nat
    BY <1>1, <1>3
  <2>2. d <= num_connected
    BY DEF ListOK
  <2>. QED BY <1>1, <2>1, <2>2
<1>. QED BY <1>1, <1>2, <1>4

\* Connections come in the order of their numbers and are listed once.
LEMMA ListOKStep ==
    ASSUME ConnIOConstants, ListT, TurnT, PipeT, ByteT, ConnsT, ListOK, [Next]_vars
    PROVE  ListOK'
<1>1. ASSUME UNCHANGED lists,
             \A d \in Conns : conn'[d].out_queue # <<>> =>
               conn[d].out_queue # <<>> \/ d \in Range(connections)
      PROVE  ListOK'
  BY <1>1, Listed DEF ListOK, lists
<1>2. ASSUME NEW c \in Conns, tcp_new_connection(c) PROVE ListOK'
  <2>1. /\ c = num_connected + 1 /\ num_connected' = c
        /\ connections' = <<c>> \o connections /\ UNCHANGED conn
    BY <1>2 DEF tcp_new_connection
  <2>2. connections \in Seq(Conns) /\ num_connected \in Nat /\ Conns \subseteq Nat
    BY ConnsAre DEF ListT
  <2>3. /\ Len(connections) \in Nat /\ DOMAIN connections = 1..Len(connections)
        /\ DOMAIN connections' = 1..(Len(connections) + 1)
        /\ connections'[1] = c
        /\ \A i \in 2..(Len(connections) + 1) : connections'[i] = connections[i - 1]
    BY <2>1, <2>2
  <2>4. \A i \in DOMAIN connections : connections[i] <= num_connected /\ connections[i] \in Nat
    BY Listed
  <2>5. \A i \in DOMAIN connections' :
          \/ i = 1 /\ connections'[i] = c
          \/ i - 1 \in DOMAIN connections /\ connections'[i] = connections[i - 1]
    BY <2>3
  <2>6. \A i \in DOMAIN connections : connections[i] # c
    BY <2>1, <2>2, <2>4
  <2>7. \A i, j \in DOMAIN connections' : connections'[i] = connections'[j] => i = j
    <3>1. SUFFICES ASSUME NEW i \in DOMAIN connections', NEW j \in DOMAIN connections',
                          connections'[i] = connections'[j]
                   PROVE  i = j
      OBVIOUS
    <3>2. CASE i - 1 \in DOMAIN connections /\ j - 1 \in DOMAIN connections
               /\ connections'[i] = connections[i - 1] /\ connections'[j] = connections[j - 1]
      <4>1. i - 1 = j - 1
        BY <3>1, <3>2 DEF ListOK
      <4>. QED BY <2>3, <3>2, <4>1
    <3>. QED BY <2>5, <2>6, <3>1, <3>2
  <2>8. ASSUME NEW d \in Range(connections') PROVE d <= num_connected'
    <3>1. PICK i \in DOMAIN connections' : d = connections'[i]
      BY <2>8 DEF Range
    <3>2. CASE d = c
      BY <2>1, <2>2, <3>2
    <3>3. CASE i - 1 \in DOMAIN connections /\ d = connections[i - 1]
      <4>1. d <= num_connected /\ d \in Nat
        BY <2>4, <3>3
      <4>. QED BY <2>1, <2>2, <4>1
    <3>. QED BY <2>5, <3>1, <3>2, <3>3
  <2>9. \A d \in Conns : d > num_connected' => conn'[d].out_queue = <<>>
    BY <2>1, <2>2 DEF ListOK
  <2>. QED BY <2>7, <2>8, <2>9 DEF ListOK
<1>3. CASE ctcp_timer
  <2>1. num_connected' = num_connected
    BY <1>3 DEF ctcp_timer
  <2>2. CASE UNCHANGED <<conn, connections>>
    BY <2>1, <2>2 DEF ListOK
  <2>3. ASSUME NEW c \in Conns, conn' = [conn EXCEPT ![c].out_queue = <<>>],
               \A d \in Range(connections') : d \in Range(connections) /\ d # c,
               \A i, j \in DOMAIN connections' : connections'[i] = connections'[j] => i = j
        PROVE  ListOK'
    <3>1. \A d \in Conns : conn[d].out_queue = <<>> => conn'[d].out_queue = <<>>
      BY <2>3 DEF ConnsT, ConnT
    <3>. QED BY <2>1, <2>3, <3>1 DEF ListOK
  <2>. QED BY <1>3, <2>2, <2>3, Frees
<1>4. ASSUME UNCHANGED lists PROVE ListOK'
  <2>1. ASSUME NEW c \in Conns, DrainWrites(c) PROVE ListOK'
    <3>1. conn[c].out_queue # <<>> /\ \A d \in Conns : d # c => conn'[d] = conn[d]
      BY <2>1, Drains DEF ConnsT
    <3>. QED BY <1>1, <1>4, <3>1
  <2>2. ASSUME NEW c \in Conns, NEW n \in 1..MaxSegDataSize, conn_output(c, n) PROVE ListOK'
    <3>1. c \in Range(connections)
      BY <2>2 DEF conn_output, Arrives
    <3>2. \A d \in Conns : d # c => conn'[d] = conn[d]
      BY <2>2, Outputs DEF ConnsT, OutputIs
    <3>. QED BY <1>1, <1>4, <3>1, <3>2
  <2>3. CASE SameQueues
    BY <1>1, <1>4, <2>3 DEF SameQueues
  <2>4. ASSUME NEW c \in Conns, \E n \in 1..MaxSegDataSize : conn_output(c, n) PROVE ListOK'
    BY <2>2, <2>4
  <2>. QED BY <1>3, <2>1, <2>3, <2>4, QueueFrame
<1>. QED BY <1>2, <1>3, <1>4, ListFrame
-----------------------------------------------------------------------------
\* The state is typed, the calls of a turn are in order, and so is the list.
Sound == TypeOK /\ TurnOK /\ ListOK

\* All of this holds at first.
LEMMA SoundInit == ConnIOConstants /\ Init => Sound
<1> SUFFICES ASSUME ConnIOConstants, Init PROVE Sound
  OBVIOUS
<1>1. TypeOK
  BY InitType
<1>2. TurnOK /\ ListOK
  BY DEF Init, TurnOK, ReadsOnce, ListOK, Range
<1>. QED BY <1>1, <1>2 DEF Sound

\* And each step keeps it.
LEMMA SoundStep ==
    ASSUME ConnIOConstants, Sound, [Next]_vars
    PROVE  Sound'
<1>1. ListT /\ TurnT /\ PipeT /\ ByteT /\ ConnsT /\ TurnOK /\ ListOK
  BY TypeParts DEF Sound
<1>2. ListT'
  BY <1>1, ListTStep
<1>3. TurnT' /\ TurnOK'
  BY <1>1, TurnStep
<1>4. PipeT'
  BY <1>1, PipeTStep
<1>5. ByteT'
  BY <1>1, ByteTStep
<1>6. ConnsT'
  BY <1>1, ConnsTStep
<1>7. ListOK'
  BY <1>1, ListOKStep
<1>8. TypeOK'
  <2>1. (ListT /\ TurnT /\ PipeT /\ ByteT /\ ConnsT)' => TypeOK'
    BY DEF TypeOK, ListT, TurnT, PipeT, ByteT, ConnsT, ConnT, Job, Kinds
  <2>. QED BY <1>2, <1>3, <1>4, <1>5, <1>6, <2>1
<1>. QED BY <1>3, <1>7, <1>8 DEF Sound

\* Every variable keeps its type: in particular no chunk of a queue is empty,
\* and no pipe holds more than it can (conn_output, conn_drain, conn_input).
THEOREM TypeCorrect == Spec => []TypeOK
<1>1. Init => Sound
  BY SoundInit, ConnIOConstants
<1>2. Sound /\ [Next]_vars => Sound'
  BY SoundStep, ConnIOConstants
<1>3. Sound => TypeOK
  BY DEF Sound
<1>. QED BY <1>1, <1>2, <1>3, PTL DEF Spec

-----------------------------------------------------------------------------
\* How many bytes the first chunks of a queue have.
LEMMA ChunkBytesIs ==
    ASSUME NEW queue \in Seq(Chunk)
    PROVE  \A n \in 0..Len(queue) :
             /\ ChunkBytes(queue)[n] \in Nat
             /\ ChunkBytes(queue)[n] =
                  IF n = 0 THEN 0 ELSE ChunkBytes(queue)[n - 1] + Len(queue[n])
<1> DEFINE m == Len(queue)
           step == [n \in 1..m |-> [t \in Nat |-> t + Len(queue[n])]]
           base == 0
           S == Nat
           Is(f) == f = [n \in 0..m |-> IF n = 0 THEN 0 ELSE f[n - 1] + Len(queue[n])]
<1>1. m \in Nat /\ base \in S
  OBVIOUS
<1>2. ASSUME NEW n \in 1..m PROVE Len(queue[n]) \in Nat
  <2>1. queue[n] \in Chunk
    OBVIOUS
  <2>. QED BY <2>1 DEF Chunk
<1>. HIDE DEF m
<1>3. step \in [1..m -> [S -> S]]
  BY <1>2
<1>4. \A n \in 1..m, t \in Nat : step[n][t] = t + Len(queue[n])
  OBVIOUS
<1>. HIDE DEF step, base, S
<1>5. PICK f \in [0..m -> S] :
        f[0] = base /\ \A i \in 1..m : f[i] = step[i][f[i - 1]]
  <2>1. Recursive(S, m, base, step)
    BY <1>1, <1>3, Recursion
  <2>. QED BY <2>1 DEF Recursive
<1>6. ASSUME NEW n \in 0..m
      PROVE  f[n] = IF n = 0 THEN 0 ELSE f[n - 1] + Len(queue[n])
  <2>1. CASE n = 0
    BY <1>5, <2>1 DEF base
  <2>2. CASE n # 0
    <3>1. n \in 1..m /\ n - 1 \in 0..m
      BY <1>1, <2>2
    <3>2. f[n - 1] \in Nat
      BY <1>5, <3>1 DEF S
    <3>. QED BY <1>4, <1>5, <2>2, <3>1, <3>2
  <2>. QED BY <2>1, <2>2
<1>7. Is(f)
  BY <1>6
<1>. DEFINE g == CHOOSE h : Is(h)
<1>8. g = ChunkBytes(queue)
  BY DEF ChunkBytes, m
<1>9. Is(g)
  BY <1>7
<1>. HIDE DEF g
<1>10. \A n \in 0..m : g[n] = IF n = 0 THEN 0 ELSE g[n - 1] + Len(queue[n])
  BY <1>9
<1>. HIDE DEF Is
<1>. DEFINE T == {n \in Nat : n <= m => g[n] \in Nat}
<1>11. 0 \in T
  BY <1>1, <1>10
<1>12. ASSUME NEW n \in T PROVE n + 1 \in T
  <2>1. SUFFICES ASSUME n + 1 <= m PROVE g[n + 1] \in Nat
    OBVIOUS
  <2>2. n + 1 \in 1..m /\ (n + 1) - 1 = n /\ n + 1 \in 0..m /\ n + 1 # 0
    BY <1>1, <2>1
  <2>3. g[n] \in Nat
    BY <1>1, <2>1
  <2>. QED BY <1>2, <1>10, <2>2, <2>3
<1>13. \A n \in 0..m : g[n] \in Nat
  <2>1. T = Nat
    <3>. HIDE DEF T
    <3>1. T \in SUBSET Nat
      BY DEF T
    <3>. QED BY <1>11, <1>12, <3>1, Induction
  <2>. QED BY <1>1, <2>1
<1>. QED BY <1>8, <1>10, <1>13 DEF m

-----------------------------------------------------------------------------
\* The chunks, and the write() the server sleeps in

\* No chunk is larger than a segment, and a program's connection has none.
LEMMA ChunksOKStep ==
    ASSUME ConnIOConstants, Sound, ChunksOK, [Next]_vars
    PROVE  ChunksOK'
<1>1. ListT /\ TurnT /\ PipeT /\ ByteT /\ ConnsT /\ TurnOK /\ ListOK
  BY TypeParts DEF Sound
<1>2. mode' = mode
  BY TurnFrame
<1> DEFINE Small(queue) == \A i \in DOMAIN queue : Len(queue[i]) <= MaxSegDataSize
<1>3. ASSUME NEW c \in Conns, ~run_program, NEW q, Small(q),
             conn' = [conn EXCEPT ![c].out_queue = q]
      PROVE  ChunksOK'
  <2>1. /\ conn'[c].out_queue = q
        /\ \A d \in Conns : d # c => conn'[d] = conn[d]
    BY <1>1, <1>3 DEF ConnsT, ConnT
  <2>. QED BY <1>2, <1>3, <2>1 DEF ChunksOK, run_program
<1>4. ASSUME NEW c \in Conns, DrainWrites(c) PROVE ChunksOK'
  <2> DEFINE queue == conn[c].out_queue
  <2>1. PICK w \in 1..Len(Head(queue)) :
          /\ queue \in Seq(Chunk) /\ queue # <<>>
          /\ conn' = [conn EXCEPT ![c].out_queue = Rest(queue, w)]
          /\ Rest(queue, w) \in Seq(Chunk)
    BY <1>1, <1>4, Drains
  <2>2. ~run_program /\ Small(queue)
    BY <2>1 DEF ChunksOK
  <2>. HIDE DEF queue
  <2>3. /\ w = Len(Head(queue)) => Rest(queue, w) = Tail(queue)
        /\ w # Len(Head(queue)) =>
             /\ Len(Rest(queue, w)) = Len(queue)
             /\ \A i \in 2..Len(queue) : Rest(queue, w)[i] = queue[i]
             /\ Len(Rest(queue, w)[1]) = Len(Head(queue)) - w
    BY <2>1, RestIs
  <2>4. /\ Len(queue) \in Nat \ {0} /\ DOMAIN queue = 1..Len(queue)
        /\ Head(queue) = queue[1] /\ Len(Head(queue)) \in Nat
    <3>1. Head(queue) \in Seq(Nat)
      BY <2>1 DEF Chunk
    <3>2. Len(Head(queue)) \in Nat
      BY <3>1
    <3>. QED BY <2>1, <3>2
  <2>5. Small(Rest(queue, w))
    <3>1. CASE w = Len(Head(queue))
      <4>1. \A i \in 1..(Len(queue) - 1) : Tail(queue)[i] = queue[i + 1] /\ i + 1 \in DOMAIN queue
        BY <2>1, <2>4
      <4>2. DOMAIN Tail(queue) = 1..(Len(queue) - 1)
        BY <2>1
      <4>. QED BY <2>2, <2>3, <3>1, <4>1, <4>2
    <3>2. CASE w # Len(Head(queue))
      <4>1. DOMAIN Rest(queue, w) = 1..Len(queue)
        BY <2>1, <2>3, <3>2
      <4>2. Len(queue[1]) <= MaxSegDataSize
        BY <2>2, <2>4
      <4>3. Len(Rest(queue, w)[1]) <= MaxSegDataSize
        BY <2>1, <2>3, <2>4, <3>2, <4>2, ConnsAre
      <4>4. \A i \in 1..Len(queue) : i = 1 \/ i \in 2..Len(queue)
        OBVIOUS
      <4>. QED BY <2>2, <2>3, <2>4, <3>2, <4>1, <4>3, <4>4
    <3>. QED BY <3>1, <3>2
  <2>. QED BY <1>3, <2>1, <2>2, <2>5
<1>5. ASSUME NEW c \in Conns, NEW n \in 1..MaxSegDataSize, conn_output(c, n) PROVE ChunksOK'
  <2> DEFINE queue == conn[c].out_queue
  <2>1. PICK w \in 0..n : OutputIs(c, n, w)
    BY <1>1, <1>5, Outputs
  <2>2. ~run_program /\ Small(queue) /\ queue \in Seq(Chunk)
    BY <1>5, <2>1 DEF conn_output, ChunksOK, OutputIs
  <2> DEFINE rest == SubSeq(Data(c, n), w + 1, n)
  <2>3. CASE conn' = conn
    BY <1>2, <2>3 DEF ChunksOK, run_program
  <2>4. CASE /\ w < n /\ rest \in Chunk
             /\ conn' = [conn EXCEPT ![c].out_queue = Append(queue, rest)]
    <3>1. n \in Nat /\ received[c] \in Nat /\ w \in Nat /\ n <= MaxSegDataSize
          /\ MaxSegDataSize \in Nat
      BY <1>1, ConnsAre DEF ByteT
    <3>2. Len(rest) = n - w
      <4>1. DataParts(c, n, w)
        BY <3>1, DataIs
      <4>. QED BY <4>1 DEF DataParts
    <3>. HIDE DEF queue, rest
    <3>3. Len(rest) <= MaxSegDataSize
      BY <3>1, <3>2
    <3>4. Small(Append(queue, rest))
      <4>1. /\ DOMAIN queue = 1..Len(queue) /\ Len(queue) \in Nat
            /\ DOMAIN Append(queue, rest) = 1..(Len(queue) + 1)
            /\ \A i \in 1..Len(queue) : Append(queue, rest)[i] = queue[i]
            /\ Append(queue, rest)[Len(queue) + 1] = rest
        BY <2>2, <2>4
      <4>2. \A i \in 1..(Len(queue) + 1) : i = Len(queue) + 1 \/ i \in 1..Len(queue)
        BY <4>1
      <4>. QED BY <2>2, <3>3, <4>1, <4>2
    <3>. QED BY <1>3, <2>2, <2>4, <3>4 DEF queue
  <2>. QED BY <2>1, <2>3, <2>4 DEF OutputIs
<1>6. CASE ctcp_timer
  <2>1. \/ conn' = conn
        \/ \E c \in Conns : conn' = [conn EXCEPT ![c].out_queue = <<>>]
    BY <1>1, <1>6, Frees
  <2>2. \A c, d \in Conns : conn' = [conn EXCEPT ![c].out_queue = <<>>] =>
          conn'[d].out_queue = <<>> \/ conn'[d] = conn[d]
    BY <1>1 DEF ConnsT, ConnT
  <2>3. \A d \in Conns : conn'[d].out_queue = <<>> \/ conn'[d] = conn[d]
    BY <2>1, <2>2
  <2>. QED BY <1>2, <2>3 DEF ChunksOK, run_program
<1>7. CASE SameQueues
  BY <1>2, <1>7 DEF SameQueues, ChunksOK, run_program
<1>. QED BY <1>1, <1>4, <1>5, <1>6, <1>7, QueueFrame

\* Nothing is queued for a connection without a chunk.
LEMMA NothingQueued ==
    ASSUME NEW c, conn[c].out_queue = <<>>
    PROVE  Queued(c) = 0
<1>1. <<>> \in Seq(Chunk) /\ Len(<<>>) = 0 /\ 0 \in 0..Len(<<>>)
  OBVIOUS
<1>2. ChunkBytes(<<>>)[0] = 0
  BY <1>1, ChunkBytesIs
<1>. QED BY <1>1, <1>2 DEF Queued

\* While the server sleeps in write(), only what runs beside it takes steps.
LEMMA WhileBlocked ==
    ASSUME blocked # None, jobs # <<>>, [Next]_vars
    PROVE  \/ WriteReturns
           \/ UNCHANGED vars \/ ReaderReads \/ ReaderLeaves
           \/ \E c \in Conns : ProgramSteps(c)
<1>1. ~do_loop /\ ~NothingToOutput /\ ~ctcp_timer
  BY DEF do_loop, NothingToOutput, ctcp_timer, Doing
<1>2. ASSUME NEW c \in Conns
      PROVE  /\ ~DrainWrites(c) /\ ~DrainStops(c) /\ ~Drained(c) /\ ~ReadRefused(c)
             /\ ~conn_input(c) /\ ~tcp_new_connection(c) /\ ~conn_output_eof(c)
  BY DEF DrainWrites, DrainStops, Drained, ReadRefused, conn_input, tcp_new_connection,
     conn_output_eof, Doing
<1>3. ASSUME NEW c \in Conns, NEW n \in 1..MaxSegDataSize
      PROVE  /\ ~conn_output_nothing(c, n) /\ ~conn_output(c, n)
             /\ ~conn_output_program(c, n)
  BY DEF conn_output_nothing, conn_output, conn_output_program, Arrives, Doing
<1>. QED BY <1>1, <1>2, <1>3 DEF Next, Server, Handler

\* The server sleeps in write() for a connection it can be woken for.
LEMMA BlockedOKStep ==
    ASSUME ConnIOConstants, Sound, ChunksOK, BlockedOK, [Next]_vars
    PROVE  BlockedOK'
<1>1. ListT /\ TurnT /\ PipeT /\ ByteT /\ ConnsT /\ TurnOK /\ ListOK
  BY TypeParts DEF Sound
<1>2. CASE blocked # None
  <2>1. CASE WriteReturns
    BY <2>1 DEF WriteReturns, BlockedOK, None
  <2>2. CASE \/ UNCHANGED vars \/ ReaderReads \/ ReaderLeaves
             \/ \E c \in Conns : ProgramSteps(c)
    <3>1. UNCHANGED <<blocked, jobs, mode, connections, received, conn>>
      BY <2>2, ProgramFrame DEF vars, ReaderReads, ReaderLeaves, lists, bytes
    <3>. QED BY <3>1 DEF BlockedOK, run_program, Data
  <2>. QED BY <1>2, <2>1, <2>2, WhileBlocked DEF BlockedOK
<1>3. CASE blocked = None
  <2>1. ASSUME NEW c \in Conns, NEW n \in 1..MaxSegDataSize, conn_output_program(c, n)
        PROVE  BlockedOK'
    <3>1. /\ Doing("receive", Nobody) /\ run_program
          /\ c \in Range(connections) /\ ~conn[c].wrote_eof /\ ~conn[c].wrote_err
          /\ conn_bufspace(c) >= n
          /\ blocked' = [conn |-> c, data |-> Data(c, n)]
          /\ UNCHANGED <<mode, connections, conn, jobs, received>>
      BY <2>1 DEF conn_output_program, Arrives, lists, bytes
    <3>2. n \in Nat /\ received[c] \in Nat /\ MaxBufSpace \in Int /\ MaxSegDataSize \in Int
      BY <1>1, ConnsAre DEF ByteT
    <3>3. Queued(c) = 0
      BY <3>1, NothingQueued DEF ChunksOK
    <3>4. n <= MaxBufSpace
      BY <3>1, <3>2, <3>3 DEF conn_bufspace
    <3>5. n \in 1..Min({MaxSegDataSize, MaxBufSpace})
      <4> DEFINE m == Min({MaxSegDataSize, MaxBufSpace})
      <4>1. m \in {MaxSegDataSize, MaxBufSpace}
        BY <3>2, MinIs
      <4>. HIDE DEF m
      <4>. QED BY <3>2, <3>4, <4>1 DEF m
    <3>6. blocked'.conn = c /\ blocked'.data = Data(c, n) /\ Len(Data(c, n)) = n
      BY <3>1, <3>2, DataT
    <3>7. jobs' # <<>> /\ Head(jobs') = <<"receive", Nobody>>
      BY <3>1 DEF Doing
    <3>8. Data(c, n)' = Data(c, n) /\ run_program'
      BY <3>1 DEF Data, run_program
    <3>. QED BY <3>1, <3>5, <3>6, <3>7, <3>8 DEF BlockedOK, Data
  <2>2. ASSUME NEW c \in Conns,
               conn_input(c) \/ tcp_new_connection(c) \/ ProgramSteps(c)
        PROVE  BlockedOK'
    BY <1>3, <2>2, ProgramFrame DEF conn_input, tcp_new_connection, BlockedOK, None
  <2>3. CASE WriteReturns
    BY <1>3, <2>3 DEF WriteReturns, None
  <2>4. CASE UNCHANGED blocked
    BY <1>3, <2>4 DEF BlockedOK, None
  <2>. QED BY <2>1, <2>2, <2>3, <2>4, PipeFrame
<1>. QED BY <1>2, <1>3

-----------------------------------------------------------------------------
\* What conn_drain wrote, and the end of file it may record

\* A call of the library cannot be two calls.
LEMMA OneCall ==
    ASSUME NEW job, NEW c, Doing(job, c)
    PROVE  /\ jobs # <<>> /\ blocked = None /\ Head(jobs) = <<job, c>>
           /\ Head(jobs)[1] = job /\ Head(jobs)[2] = c
BY DEF Doing

\* outputted is set by a write of conn_drain and lasts until that call returns.
LEMMA OutputtedOKStep ==
    ASSUME ConnIOConstants, Sound, BlockedOK, OutputtedOK, [Next]_vars
    PROVE  OutputtedOK'
<1>1. ListT /\ TurnT /\ PipeT /\ ByteT /\ ConnsT /\ TurnOK /\ ListOK
  BY TypeParts DEF Sound
<1>2. ASSUME NEW c \in Conns, DrainWrites(c) PROVE OutputtedOK'
  <2>1. c \in drained' /\ Doing("conn_drain", c) /\ ~conn[c].wrote_err
    BY <1>2 DEF DrainWrites
  <2>2. CASE UNCHANGED jobs
    <3>1. conn'[c].wrote_err = conn[c].wrote_err
      BY <1>1, <1>2, Drains DEF ConnsT, ConnT
    <3>. QED BY <2>1, <2>2, <3>1 DEF OutputtedOK, Doing
  <2>3. CASE jobs' = <<<<"drained", c>>>> \o Tail(jobs)
    <3>1. jobs' # <<>> /\ Head(jobs') = <<"drained", c>>
      BY <1>1, <2>1, <2>3, LoopEnds DEF TurnT
    <3>. QED BY <2>1, <3>1 DEF OutputtedOK
  <2>. QED BY <1>2, <2>2, <2>3 DEF DrainWrites
<1>3. ASSUME NEW c \in Conns, Drained(c) PROVE OutputtedOK'
  BY <1>3 DEF Drained, Reset, OutputtedOK
<1>4. SUFFICES ASSUME outputted,
                      ~ \E c \in Conns : DrainWrites(c) \/ Drained(c)
               PROVE  OutputtedOK'
  <2>1. ASSUME ~ \E c \in Conns : DrainWrites(c) \/ Drained(c)
        PROVE  outputted' = outputted
    <3>1. UNCHANGED vars \/ do_loop \/ WriteReturns \/ NothingToOutput \/ ctcp_timer
            \/ ReaderReads \/ ReaderLeaves => UNCHANGED outputted
      BY DEF vars, do_loop, WriteReturns, NothingToOutput, ctcp_timer, ReaderReads,
         ReaderLeaves
    <3>2. ASSUME NEW c \in Conns,
                 \/ DrainStops(c) \/ ReadRefused(c) \/ conn_input(c) \/ tcp_new_connection(c)
                 \/ conn_output_eof(c) \/ ProgramSteps(c)
          PROVE  UNCHANGED outputted
      BY <3>2, ProgramFrame DEF DrainStops, ReadRefused, conn_input, tcp_new_connection,
         conn_output_eof
    <3>3. ASSUME NEW c \in Conns, NEW n \in 1..MaxSegDataSize,
                 conn_output_nothing(c, n) \/ conn_output(c, n) \/ conn_output_program(c, n)
          PROVE  UNCHANGED outputted
      BY <3>3 DEF conn_output_nothing, conn_output, conn_output_program
    <3>. QED BY <2>1, <3>1, <3>2, <3>3 DEF Next, Server, Handler
  <2>. QED BY <1>2, <1>3, <2>1 DEF OutputtedOK
<1>5. PICK c \in drained :
        /\ jobs # <<>>
        /\ \/ Head(jobs) = <<"drained", c>>
           \/ Head(jobs) = <<"conn_drain", c>> /\ ~conn[c].wrote_err
  BY <1>4 DEF OutputtedOK
<1>6. c \in drained' /\ c \in Conns
  BY <1>1, TurnFrame DEF TurnT, past
<1>7. Head(jobs)[1] \in {"drained", "conn_drain"} /\ Head(jobs)[2] = c
  BY <1>5
<1>8. blocked = None
  BY <1>7 DEF BlockedOK
<1>9. CASE DrainStops(c)
  <2>1. Head(jobs) = <<"conn_drain", c>> /\ Doing("conn_drain", c)
    BY <1>9 DEF DrainStops, Doing
  <2>2. ~conn[c].wrote_err
    BY <1>5, <2>1
  <2>3. jobs' = <<<<"drained", c>>>> \o Tail(jobs)
    BY <1>9, <2>2 DEF DrainStops
  <2>4. jobs' # <<>> /\ Head(jobs') = <<"drained", c>>
    BY <1>1, <1>6, <2>1, <2>3, LoopEnds DEF TurnT
  <2>. QED BY <1>6, <2>4 DEF OutputtedOK
<1>10. CASE UNCHANGED <<jobs, conn>>
  BY <1>5, <1>6, <1>10 DEF OutputtedOK
<1>11. UNCHANGED <<jobs, conn>> \/ DrainStops(c)
  <2>1. UNCHANGED vars \/ ReaderReads \/ ReaderLeaves => UNCHANGED <<jobs, conn>>
    BY DEF vars, ReaderReads, ReaderLeaves
  <2>2. ASSUME NEW d \in Conns, ProgramSteps(d)
        PROVE  UNCHANGED <<jobs, conn>>
    BY <2>2, ProgramFrame
  <2>3. ~do_loop /\ ~WriteReturns
    BY <1>5, <1>8 DEF do_loop, WriteReturns, None
  <2>4. ~NothingToOutput /\ ~ctcp_timer
    BY <1>7, OneCall DEF NothingToOutput, ctcp_timer
  <2>5. ASSUME NEW d \in Conns
        PROVE  /\ ~ReadRefused(d) /\ ~conn_input(d) /\ ~tcp_new_connection(d)
               /\ ~conn_output_eof(d)
               /\ DrainStops(d) => d = c
    BY <1>7, OneCall DEF ReadRefused, conn_input, tcp_new_connection, conn_output_eof,
       DrainStops
  <2>6. ASSUME NEW d \in Conns, NEW n \in 1..MaxSegDataSize
        PROVE  /\ ~conn_output_nothing(d, n) /\ ~conn_output(d, n)
               /\ ~conn_output_program(d, n)
    BY <1>7, OneCall DEF conn_output_nothing, conn_output, conn_output_program, Arrives
  <2>. QED BY <1>4, <2>1, <2>2, <2>3, <2>4, <2>5, <2>6 DEF Next, Server, Handler
<1>. QED BY <1>9, <1>10, <1>11

\* The end of file is recorded on a FIN, or by conn_drain after it wrote.
LEMMA EndRecorded ==
    ASSUME ConnIOConstants, Sound, [Next]_vars, NEW d \in Conns,
           conn'[d].wrote_eof, ~conn'[d].fin
    PROVE  (conn[d].wrote_eof /\ ~conn[d].fin) \/ (Drained(d) /\ outputted)
<1>1. ListT /\ TurnT /\ PipeT /\ ByteT /\ ConnsT /\ TurnOK /\ ListOK
  BY TypeParts DEF Sound
<1> DEFINE Same == conn'[d].wrote_eof = conn[d].wrote_eof /\ conn'[d].fin = conn[d].fin
<1>2. CASE Same
  BY <1>2
<1>3. ASSUME NEW c \in Conns, NEW q, conn' = [conn EXCEPT ![c].out_queue = q] PROVE Same
  BY <1>1, <1>3 DEF ConnsT, ConnT
<1>4. ASSUME NEW c \in Conns, conn' = conn \/ conn' = [conn EXCEPT ![c].wrote_err = TRUE]
      PROVE  Same
  <2>1. CASE conn' = conn
    BY <2>1
  <2>2. CASE conn' = [conn EXCEPT ![c].wrote_err = TRUE]
    BY <1>1, <2>2 DEF ConnsT, ConnT
  <2>. QED BY <1>4, <2>1, <2>2
<1>5. ASSUME NEW c \in Conns, DrainWrites(c) PROVE Same
  BY <1>1, <1>3, <1>5, Drains
<1>6. ASSUME NEW c \in Conns, DrainStops(c) PROVE Same
  BY <1>4, <1>6 DEF DrainStops
<1>7. ASSUME NEW c \in Conns, Drained(c) PROVE Same \/ (Drained(d) /\ outputted)
  <2> DEFINE a == conn[c].wrote_err \/ (conn[c].wrote_eof /\ conn[c].out_queue = <<>>)
             b == conn[c].wrote_eof \/ outputted
  <2>1. conn' = [conn EXCEPT ![c].wrote_err = a, ![c].wrote_eof = b]
    BY <1>7 DEF Drained
  <2>2. ~outputted => b = conn[c].wrote_eof
    BY <1>1, ConnFields
  <2>. HIDE DEF a, b
  <2>3. conn'[c].wrote_eof = b /\ conn'[c].fin = conn[c].fin
    BY <1>1, <2>1 DEF ConnsT, ConnT
  <2>4. d # c => Same
    BY <1>1, <2>1 DEF ConnsT, ConnT
  <2>5. CASE d = c
    BY <1>7, <2>2, <2>3, <2>5
  <2>. QED BY <2>4, <2>5
<1>8. ASSUME NEW c \in Conns, conn_input(c) PROVE Same
  <2>1. PICK eof \in BOOLEAN : conn' = [conn EXCEPT ![c].read_eof = eof, ![c].sent = TRUE]
    BY <1>1, <1>8, Reads
  <2>. QED BY <1>1, <2>1, ZenonT(30) DEF ConnsT, ConnT
<1>9. ASSUME NEW c \in Conns, conn_output_eof(c) PROVE Same
  <2>1. conn' = [conn EXCEPT ![c].fin = TRUE, ![c].wrote_eof = TRUE]
    BY <1>9 DEF conn_output_eof
  <2>2. d = c => conn'[d].fin
    BY <1>1, <2>1 DEF ConnsT, ConnT
  <2>3. d # c => conn'[d] = conn[d]
    BY <1>1, <2>1 DEF ConnsT, ConnT
  <2>. QED BY <2>2, <2>3
<1>10. ASSUME NEW c \in Conns, NEW n \in 1..MaxSegDataSize, conn_output_nothing(c, n)
       PROVE  Same
  BY <1>4, <1>10 DEF conn_output_nothing
<1>11. ASSUME NEW c \in Conns, NEW n \in 1..MaxSegDataSize, conn_output(c, n) PROVE Same
  <2>1. PICK w \in 0..n : OutputIs(c, n, w)
    BY <1>1, <1>11, Outputs
  <2>. QED BY <1>2, <1>3, <1>4, <2>1 DEF OutputIs
<1>12. CASE WriteReturns
  <2>1. blocked.conn \in Conns
    BY <1>1, <1>12 DEF WriteReturns, PipeT
  <2>2. conn' = conn \/ conn' = [conn EXCEPT ![blocked.conn].wrote_err = TRUE]
    BY <1>12 DEF WriteReturns
  <2>. QED BY <1>2, <1>4, <2>1, <2>2
<1>13. CASE ctcp_timer
  BY <1>1, <1>2, <1>3, <1>13, Frees
<1>14. CASE UNCHANGED conn
  BY <1>2, <1>14
<1>. HIDE DEF Same
<1>15. ASSUME NEW c \in Conns,
              \/ DrainWrites(c) \/ DrainStops(c) \/ Drained(c) \/ conn_input(c)
              \/ conn_output_eof(c)
              \/ \E n \in 1..MaxSegDataSize : conn_output_nothing(c, n) \/ conn_output(c, n)
       PROVE  (conn[d].wrote_eof /\ ~conn[d].fin) \/ (Drained(d) /\ outputted)
  <2>1. CASE DrainWrites(c) \/ DrainStops(c) \/ Drained(c)
    BY <1>2, <1>5, <1>6, <1>7, <2>1
  <2>2. CASE conn_input(c) \/ conn_output_eof(c)
    BY <1>2, <1>8, <1>9, <2>2
  <2>3. CASE \E n \in 1..MaxSegDataSize : conn_output_nothing(c, n) \/ conn_output(c, n)
    BY <1>2, <1>10, <1>11, <2>3
  <2>. QED BY <1>15, <2>1, <2>2, <2>3
<1>. QED BY <1>12, <1>13, <1>14, <1>15, ConnFrame

\* What is acknowledged and thrown away follows a queue that conn_drain wrote.
LEMMA EarlyEndStep ==
    ASSUME ConnIOConstants, Sound, OutputtedOK, EarlyEndNeedsDrain, [Next]_vars
    PROVE  EarlyEndNeedsDrain'
<1>1. SUFFICES ASSUME NEW d \in Conns, conn'[d].wrote_eof, ~conn'[d].fin
               PROVE  d \in drained'
  BY DEF EarlyEndNeedsDrain
<1>2. d \in drained => d \in drained'
  BY TurnFrame DEF past
<1>3. CASE conn[d].wrote_eof /\ ~conn[d].fin
  BY <1>2, <1>3 DEF EarlyEndNeedsDrain
<1>4. CASE Drained(d) /\ outputted
  <2>1. Head(jobs) = <<"drained", d>>
    BY <1>4 DEF Drained, Doing
  <2>2. PICK c \in drained : Head(jobs)[2] = c
    BY <1>4 DEF OutputtedOK
  <2>. QED BY <1>2, <2>1, <2>2
<1>. QED BY <1>1, <1>3, <1>4, EndRecorded

-----------------------------------------------------------------------------
\* The event

\* Who waits after a step that outputs nothing of his waited before it.
LEMMA WaitsKept ==
    ASSUME ConnIOConstants, Sound, [Next]_vars, NEW d \in Conns, Waits(d)',
           ~\E n \in 1..MaxSegDataSize : conn_output(d, n)
    PROVE  Waits(d)
<1>1. ListT /\ TurnT /\ PipeT /\ ByteT /\ ConnsT /\ TurnOK /\ ListOK
  BY TypeParts DEF Sound
<1>2. /\ d \in Range(connections') /\ conn'[d].out_queue # <<>> /\ ~conn'[d].wrote_err
  BY DEF Waits
<1>3. conn[d].out_queue # <<>> /\ ~conn[d].wrote_err
  <2>1. ASSUME NEW c \in Conns, DrainWrites(c) PROVE conn[d].out_queue # <<>> /\ ~conn[d].wrote_err
    <3>1. conn[c].out_queue # <<>> /\ ~conn[c].wrote_err
      BY <2>1 DEF DrainWrites
    <3>2. \E q : conn' = [conn EXCEPT ![c].out_queue = q]
      BY <2>1 DEF DrainWrites
    <3>3. d # c => conn'[d] = conn[d]
      BY <1>1, <3>2 DEF ConnsT
    <3>. QED BY <1>2, <3>1, <3>3
  <2>2. ASSUME NEW c \in Conns, NEW n \in 1..MaxSegDataSize, conn_output(c, n)
        PROVE  conn[d].out_queue # <<>> /\ ~conn[d].wrote_err
    <3>1. d # c
      BY <2>2
    <3>2. PICK w \in 0..n : OutputIs(c, n, w)
      BY <1>1, <2>2, Outputs
    <3>3. conn'[d] = conn[d]
      BY <1>1, <3>1, <3>2 DEF ConnsT, OutputIs
    <3>. QED BY <1>2, <3>3
  <2>3. CASE ctcp_timer
    <3>1. conn' = conn \/ \E c \in Conns : conn' = [conn EXCEPT ![c].out_queue = <<>>]
      BY <1>1, <2>3, Frees
    <3>2. ASSUME NEW c \in Conns, conn' = [conn EXCEPT ![c].out_queue = <<>>]
          PROVE  conn'[d] = conn[d]
      <4>1. conn'[c].out_queue = <<>>
        BY <1>1, <3>2 DEF ConnsT, ConnT
      <4>. QED BY <1>1, <1>2, <3>2, <4>1 DEF ConnsT
    <3>. QED BY <1>2, <3>1, <3>2
  <2>4. CASE SameQueues
    BY <1>1, <1>2, <2>4 DEF SameQueues, Kept
  <2>5. ASSUME NEW c \in Conns, \E n \in 1..MaxSegDataSize : conn_output(c, n)
        PROVE  conn[d].out_queue # <<>> /\ ~conn[d].wrote_err
    BY <2>2, <2>5
  <2>. QED BY <1>1, <2>1, <2>3, <2>4, <2>5, QueueFrame
<1>4. d \in Range(connections)
  <2>1. CASE UNCHANGED lists
    BY <1>2, <2>1 DEF lists
  <2>2. ASSUME NEW c \in Conns, tcp_new_connection(c) PROVE d \in Range(connections)
    <3>1. /\ c = num_connected + 1 /\ connections' = <<c>> \o connections
      BY <2>2 DEF tcp_new_connection
    <3>2. connections \in Seq(Conns) /\ num_connected \in Nat /\ c \in Nat
      BY <1>1, ConnsAre DEF ListT
    <3>3. conn[c].out_queue = <<>>
      BY <1>1, <3>1, <3>2 DEF ListOK
    <3>4. d # c
      BY <1>3, <3>3
    <3>5. /\ Len(connections) \in Nat /\ DOMAIN connections = 1..Len(connections)
          /\ DOMAIN connections' = 1..(Len(connections) + 1)
          /\ connections'[1] = c
          /\ \A i \in 2..(Len(connections) + 1) : connections'[i] = connections[i - 1]
      BY <3>1, <3>2
    <3>6. PICK i \in DOMAIN connections' : connections'[i] = d
      BY <1>2 DEF Range
    <3>7. i - 1 \in DOMAIN connections /\ connections[i - 1] = d
      BY <3>4, <3>5, <3>6
    <3>. QED BY <3>7 DEF Range
  <2>3. CASE ctcp_timer
    BY <1>1, <1>2, <2>3, Frees
  <2>. QED BY <2>1, <2>2, <2>3, ListFrame
<1>. QED BY <1>3, <1>4 DEF Waits

\* A step that has nothing to do with the event.
LEMMA EventKept ==
    ASSUME TurnT, TurnOK, EventOK, drained = {},
           \A d \in Conns : Waits(d)' => Waits(d),
           polled' = polled, reader' => reader, HasRoom => HasRoom',
           jobs' = jobs \/ (jobs # <<>> /\ Done /\ Head(jobs)[1] # "conn_drain")
    PROVE  EventOK'
<1>1. \A x : x \in Range(jobs') => x \in Range(jobs)
  BY Returns DEF TurnT
<1>2. \A x \in Range(jobs) : x[1] = "conn_drain" => x \in Range(jobs')
  BY Returns DEF TurnT
<1>3. \A d : DrainOf(d) \in Range(jobs) => DrainOf(d) \in Range(jobs')
  BY <1>2 DEF DrainOf
<1>4. Left("conn_drain")' => Left("conn_drain")
  BY <1>1 DEF Left
<1>5. \A d \in Conns : Waits(d)' =>
        DrainOf(d) \in Range(jobs') \/ (polled' /\ ~Left("conn_drain")')
  BY <1>3, <1>4 DEF EventOK
<1>6. Left("conn_drain")' /\ reader' => HasRoom'
  BY <1>4 DEF EventOK
<1>. QED BY <1>5, <1>6 DEF EventOK

\* Output that waits is drained in this turn, or POLLOUT is asked for, as long
\* as conn_drain wrote nothing.
LEMMA EventOKStep ==
    ASSUME ConnIOConstants, Sound, ChunksOK, BlockedOK, EventOK, [Next]_vars
    PROVE  EventOK'
<1>1. ListT /\ TurnT /\ PipeT /\ ByteT /\ ConnsT /\ TurnOK /\ ListOK
  BY TypeParts DEF Sound
<1>2. SUFFICES ASSUME drained' = {} PROVE EventOK'
  BY DEF EventOK
<1>3. drained = {} /\ mode' = mode /\ (reader' => reader)
  <2>1. mode' = mode /\ reader' \in {reader, FALSE}
    BY TurnFrame
  <2>2. drained = {}
    BY <1>2, TurnFrame DEF past
  <2>3. reader' => reader
    BY <2>1
  <2>. QED BY <2>1, <2>2, <2>3
<1>4. (stdout' = stdout \/ stdout' <= stdout) => (HasRoom => HasRoom')
  <2>1. /\ stdout \in Int /\ stdout' \in Int /\ StdoutSize \in Int /\ MaxSegDataSize \in Int
    BY <1>1, ByteTStep, ConnsAre DEF ByteT
  <2>2. CASE mode = "pipe"
    <3>1. /\ HasRoom <=> stdout + MaxSegDataSize <= StdoutSize
          /\ HasRoom' <=> stdout' + MaxSegDataSize <= StdoutSize
      BY <1>3, <2>2 DEF HasRoom
    <3>2. (stdout' = stdout \/ stdout' <= stdout) /\ stdout + MaxSegDataSize <= StdoutSize
            => stdout' + MaxSegDataSize <= StdoutSize
      <4>1. \A a, b, s, m \in Int : a <= b /\ b + m <= s => a + m <= s
        OBVIOUS
      <4>2. stdout' = stdout \/ stdout' <= stdout => stdout' <= stdout
        BY <2>1
      <4>. QED BY <2>1, <4>1, <4>2
    <3>. QED BY <3>1, <3>2
  <2>3. CASE mode # "pipe"
    <3>1. (HasRoom <=> stdout < StdoutSize) /\ (HasRoom' <=> stdout' < StdoutSize)
      BY <1>3, <2>3 DEF HasRoom
    <3>. QED BY <2>1, <3>1
  <2>. QED BY <2>2, <2>3
<1>5. ASSUME NEW x, x \in Range(jobs), Head(jobs)[1] \in {"receive", "timer"}, jobs # <<>>
      PROVE  x[1] # "conn_drain"
  <2>1. PICK i \in DOMAIN jobs : jobs[i] = x
    BY <1>5 DEF Range
  <2>2. jobs \in Seq(Job) /\ 1 \in DOMAIN jobs /\ Head(jobs) = jobs[1]
    BY <1>1, <1>5 DEF TurnT
  <2>3. i = 1 \/ 1 < i
    BY <2>1, <2>2
  <2>. QED BY <1>1, <1>5, <2>1, <2>2, <2>3 DEF TurnOK
<1>6. CASE do_loop
  <2>1. UNCHANGED <<conn, connections, polled, stdout, reader, mode>> /\ jobs = <<>>
    BY <1>6 DEF do_loop, lists
  <2>2. /\ \A c : DrainOf(c) \in Range(jobs') =>
             /\ reader => polled /\ HasRoom
             /\ \A d \in Range(connections) : DrainOf(d) \in Range(jobs')
        /\ \A x \in Range(jobs') : x[1] = "conn_drain" => \E c : x = DrainOf(c)
    BY <1>1, <1>6, TurnStarts DEF ListT
  <2>3. Left("conn_drain")' => \E c : DrainOf(c) \in Range(jobs')
    BY <2>2 DEF Left
  <2>4. \A d \in Conns : Waits(d)' => Waits(d) /\ d \in Range(connections)
    BY <2>1 DEF Waits
  <2>5. \A d \in Conns : Waits(d) => polled
    <3>1. Range(jobs) = {}
      BY <2>1 DEF Range
    <3>. QED BY <1>3, <3>1 DEF EventOK
  <2>6. \A d \in Conns : Waits(d)' =>
          DrainOf(d) \in Range(jobs') \/ (polled' /\ ~Left("conn_drain")')
    BY <2>1, <2>2, <2>3, <2>4, <2>5
  <2>7. Left("conn_drain")' /\ reader' => HasRoom'
    BY <2>1, <2>2, <2>3 DEF HasRoom
  <2>. QED BY <2>6, <2>7 DEF EventOK
<1>7. ASSUME NEW c \in Conns, DrainStops(c) PROVE EventOK'
  <2>1. Doing("conn_drain", c) /\ UNCHANGED <<stdout, reader>>
    BY <1>7 DEF DrainStops
  <2>2. /\ jobs # <<>> /\ jobs \in Seq(Job) /\ Head(jobs) = DrainOf(c)
        /\ Done \/ jobs' = <<<<"drained", c>>>> \o Tail(jobs)
    BY <1>1, <1>7 DEF TurnT, Doing, DrainOf, DrainStops
  <2>3. /\ Head(jobs) \in Range(jobs)
        /\ \A x : x \in Range(jobs') => x = <<"drained", c>> \/ x \in Range(jobs)
        /\ \A x \in Range(jobs) : x = DrainOf(c) \/ x \in Range(jobs')
    <3>1. Head(jobs) \in Range(jobs)
      <4>1. 1 \in DOMAIN jobs /\ Head(jobs) = jobs[1]
        BY <2>2
      <4>. QED BY <4>1 DEF Range
    <3>. QED BY <1>1, <2>1, <2>2, <3>1, Returns, LoopEnds
  <2>4. Left("conn_drain")
    BY <2>2, <2>3 DEF Left, DrainOf
  <2>5. ASSUME NEW d \in Conns, Waits(d)' PROVE DrainOf(d) \in Range(jobs')
    <3>1. ~DrainWrites(d) /\ ~\E n \in 1..MaxSegDataSize : conn_output(d, n)
      <4>1. Head(jobs)[1] = "conn_drain"
        BY <2>2 DEF DrainOf
      <4>2. ~\E n \in 1..MaxSegDataSize : conn_output(d, n)
        BY <4>1, OneCall DEF conn_output, Arrives
      <4>. QED BY <1>2, <4>2 DEF DrainWrites
    <3>2. Waits(d)
      BY <2>5, <3>1, WaitsKept
    <3>3. DrainOf(d) \in Range(jobs)
      BY <1>3, <2>4, <3>2 DEF EventOK
    <3>4. CASE d = c
      <4>1. /\ conn[c].out_queue # <<>> /\ ~conn[c].wrote_err /\ ~conn'[c].wrote_err
        BY <2>5, <3>2, <3>4 DEF Waits
      <4>2. reader
        <5>1. conn' = [conn EXCEPT ![c].wrote_err = TRUE] => conn'[c].wrote_err
          BY <1>1 DEF ConnsT, ConnT
        <5>. QED BY <1>7, <4>1, <5>1 DEF DrainStops
      <4>3. 0 \in Taken(Len(Head(conn[c].out_queue)))
        BY <1>7, <4>1, <4>2 DEF DrainStops
      <4>4. conn[c].out_queue \in Seq(Chunk)
        BY <1>1, ConnFields
      <4> DEFINE h == Head(conn[c].out_queue)
      <4>5. h \in Chunk /\ h = conn[c].out_queue[1] /\ 1 \in DOMAIN conn[c].out_queue
        BY <4>1, <4>4
      <4>6. Len(h) \in Nat \ {0} /\ Len(h) <= MaxSegDataSize /\ ~run_program
        BY <4>1, <4>5 DEF Chunk, ChunksOK
      <4>7. ~HasRoom
        BY <1>1, <4>3, <4>6, TakenIs DEF TurnT, ByteT
      <4>. QED BY <1>3, <2>4, <4>2, <4>7 DEF EventOK
    <3>5. CASE d # c
      BY <2>3, <3>3, <3>5 DEF DrainOf
    <3>. QED BY <3>4, <3>5
  <2>6. Left("conn_drain")' /\ reader' => HasRoom'
    <3>1. Left("conn_drain")' => Left("conn_drain")
      BY <2>4
    <3>. QED BY <1>3, <1>4, <2>1, <3>1 DEF EventOK
  <2>. QED BY <2>5, <2>6 DEF EventOK
<1>8. ASSUME NEW c \in Conns, NEW n \in 1..MaxSegDataSize, conn_output(c, n)
      PROVE  EventOK'
  <2>1. /\ Doing("receive", Nobody) /\ Done
        /\ IF conn'[c].out_queue # <<>> THEN polled' = TRUE ELSE UNCHANGED polled
    BY <1>8 DEF conn_output, Arrives, Event
  <2>2. jobs # <<>> /\ Head(jobs)[1] = "receive"
    BY <2>1, OneCall
  <2>3. ~Left("conn_drain") /\ ~Left("conn_drain")'
    <3>1. ~Left("conn_drain")
      BY <1>5, <2>2 DEF Left
    <3>2. \A x \in Range(jobs') : x[1] = "timer"
      BY <1>1, <2>1, <2>2, Returns DEF TurnT
    <3>. QED BY <3>1, <3>2 DEF Left
  <2>4. ASSUME NEW d \in Conns, Waits(d)' PROVE polled'
    <3>1. CASE d = c
      BY <2>1, <2>4, <3>1 DEF Waits
    <3>2. CASE d # c
      <4>1. PICK w \in 0..n : OutputIs(c, n, w)
        BY <1>1, <1>8, Outputs
      <4>2. conn'[d] = conn[d] /\ connections' = connections
        <5>1. conn'[d] = conn[d]
          BY <1>1, <3>2, <4>1 DEF ConnsT, OutputIs
        <5>. QED BY <1>8, <5>1 DEF conn_output, lists
      <4>3. Waits(d)
        BY <2>4, <4>2 DEF Waits
      <4>4. DrainOf(d) \notin Range(jobs)
        BY <2>3 DEF Left, DrainOf
      <4>. QED BY <1>3, <2>1, <4>3, <4>4 DEF EventOK
    <3>. QED BY <3>1, <3>2
  <2>. QED BY <2>3, <2>4 DEF EventOK
<1>. DEFINE Quiet == /\ polled' = polled
                     /\ stdout' = stdout \/ stdout' <= stdout
                     /\ jobs' = jobs \/ (jobs # <<>> /\ Done /\ Head(jobs)[1] # "conn_drain")
<1>9. ASSUME Quiet, ~\E c \in Conns : \E n \in 1..MaxSegDataSize : conn_output(c, n)
      PROVE  EventOK'
  <2>1. \A d \in Conns : Waits(d)' => Waits(d)
    BY <1>9, WaitsKept
  <2>. QED BY <1>1, <1>3, <1>4, <1>9, <2>1, EventKept
<1>10. UNCHANGED vars \/ ReaderReads => Quiet
  <2>1. stdout \in Int
    BY <1>1 DEF ByteT
  <2>. QED BY <2>1 DEF vars, ReaderReads
<1>11. CASE ReaderLeaves
  <2>1. ~reader' /\ UNCHANGED <<conn, connections, jobs, polled>>
    BY <1>11 DEF ReaderLeaves, lists
  <2>. QED BY <1>3, <2>1 DEF EventOK, Waits, Left
<1>12. CASE WriteReturns
  <2>1. blocked # None /\ Done /\ UNCHANGED <<polled, stdout>>
    BY <1>12 DEF WriteReturns, None
  <2>2. jobs # <<>> /\ Head(jobs)[1] = "receive"
    BY <2>1 DEF BlockedOK
  <2>3. ~\E c \in Conns : \E n \in 1..MaxSegDataSize : conn_output(c, n)
    BY <2>1 DEF conn_output, Arrives, Doing
  <2>. QED BY <1>9, <2>1, <2>2, <2>3
<1>13. NothingToOutput \/ ctcp_timer => Quiet
  BY OneCall DEF NothingToOutput, ctcp_timer
<1>14. ASSUME NEW c \in Conns, ProgramSteps(c) PROVE Quiet
  BY <1>14, ProgramFrame
<1>15. ASSUME NEW c \in Conns,
              \/ Drained(c) \/ ReadRefused(c) \/ conn_input(c)
              \/ tcp_new_connection(c) \/ conn_output_eof(c)
       PROVE  Quiet
  BY <1>15, OneCall DEF Drained, ReadRefused, conn_input, tcp_new_connection, conn_output_eof
<1>16. ASSUME NEW c \in Conns, NEW n \in 1..MaxSegDataSize,
              conn_output_nothing(c, n) \/ conn_output_program(c, n)
       PROVE  Quiet
  BY <1>16, OneCall DEF conn_output_nothing, conn_output_program, Arrives
<1>17. ~\E c \in Conns : DrainWrites(c)
  BY <1>2 DEF DrainWrites
<1>. HIDE DEF Quiet
<1>. QED BY <1>6, <1>7, <1>8, <1>9, <1>10, <1>11, <1>12, <1>13, <1>14, <1>15, <1>16, <1>17
         DEF Next, Server, Handler

\* Output waits for an event nobody asked for only after conn_drain wrote.
LEMMA LostEventHolds ==
    ASSUME EventOK
    PROVE  LostEventNeedsDrain
<1>1. SUFFICES ASSUME NEW c \in Conns, conn[c].out_queue # <<>>, ~conn[c].wrote_err,
                      ~polled, c \in Range(connections), drained = {}
               PROVE  \E i \in DOMAIN jobs : jobs[i] = <<"conn_drain", c>>
  BY DEF LostEventNeedsDrain
<1>2. DrainOf(c) \in Range(jobs)
  BY <1>1 DEF EventOK, Waits
<1>. QED BY <1>2 DEF Range, DrainOf

-----------------------------------------------------------------------------
\* The programs

\* A step that starts no turn adds no call of ctcp_read to it, and only the call
\* at its head leaves it.
LEMMA ReadsLeft ==
    ASSUME TurnT, TurnOK, [Next]_vars, ~do_loop
    PROVE  /\ \A c \in Conns : ReadOf(c) \in Range(jobs') => ReadOf(c) \in Range(jobs)
           /\ \A c \in Conns : ReadOf(c) \in Range(jobs) =>
                ReadOf(c) \in Range(jobs') \/ (jobs # <<>> /\ Head(jobs) = ReadOf(c))
           /\ \A c \in Conns : jobs # <<>> /\ Done /\ Head(jobs) = ReadOf(c)
                => ReadOf(c) \in Range(jobs) /\ ReadOf(c) \notin Range(jobs')
           /\ Left("receive")' => Left("receive")
<1>1. CASE UNCHANGED jobs
  <2>1. ASSUME NEW c \in Conns, jobs # <<>>, Done, Head(jobs) = ReadOf(c)
        PROVE  ReadOf(c) \in Range(jobs) /\ ReadOf(c) \notin Range(jobs')
    <3>1. jobs \in Seq(Job)
      BY DEF TurnT
    <3>2. Len(Tail(jobs)) # Len(jobs)
      BY <2>1, <3>1
    <3>3. jobs' # jobs
      BY <2>1, <3>2 DEF Done
    <3>. QED BY <1>1, <3>3
  <2>. QED BY <1>1, <2>1 DEF Left
<1>2. CASE jobs # <<>> /\ Done
  <2>1. /\ Head(jobs) \in Range(jobs)
        /\ \A x : x \in Range(jobs') => x \in Range(jobs)
        /\ \A x \in Range(jobs) : x = Head(jobs) \/ x \in Range(jobs')
        /\ Head(jobs)[1] = "ctcp_read" => Head(jobs) \notin Range(jobs')
    BY <1>2, Returns DEF TurnT
  <2>2. \A c : ReadOf(c)[1] = "ctcp_read"
    BY DEF ReadOf
  <2>. QED BY <1>2, <2>1, <2>2 DEF Left
<1>3. ASSUME NEW d \in Conns, Doing("conn_drain", d),
             jobs' = <<<<"drained", d>>>> \o Tail(jobs)
      PROVE  /\ \A c \in Conns : ReadOf(c) \in Range(jobs') => ReadOf(c) \in Range(jobs)
             /\ \A c \in Conns : ReadOf(c) \in Range(jobs) => ReadOf(c) \in Range(jobs')
             /\ \A c \in Conns : Head(jobs) # ReadOf(c)
             /\ Left("receive")' => Left("receive")
  <2>1. /\ \A x : x \in Range(jobs') => x = <<"drained", d>> \/ x \in Range(jobs)
        /\ \A x \in Range(jobs) : x = DrainOf(d) \/ x \in Range(jobs')
    BY <1>3, LoopEnds DEF TurnT
  <2>2. /\ \A c : ReadOf(c) # <<"drained", d>> /\ ReadOf(c) # DrainOf(d)
        /\ <<"drained", d>>[1] # "receive"
    BY DEF ReadOf, DrainOf
  <2>3. Head(jobs) = DrainOf(d)
    BY <1>3 DEF Doing, DrainOf
  <2>. QED BY <2>1, <2>2, <2>3 DEF Left
<1>. QED BY <1>1, <1>2, <1>3, JobsFrame

\* The end of a program's output is read by conn_input only.
LEMMA EofFrame ==
    ASSUME ConnIOConstants, Sound, [Next]_vars, NEW d \in Conns, ~conn_input(d)
    PROVE  conn'[d].read_eof = conn[d].read_eof
<1>1. ListT /\ TurnT /\ PipeT /\ ByteT /\ ConnsT /\ TurnOK /\ ListOK
  BY TypeParts DEF Sound
<1> DEFINE Same == conn'[d].read_eof = conn[d].read_eof
<1>2. CASE conn' = conn
  BY <1>2
<1>3. ASSUME NEW c \in Conns, NEW q, conn' = [conn EXCEPT ![c].out_queue = q] PROVE Same
  BY <1>1, <1>3 DEF ConnsT, ConnT
<1>4. ASSUME NEW c \in Conns, conn' = [conn EXCEPT ![c].wrote_err = TRUE] PROVE Same
  BY <1>1, <1>4 DEF ConnsT, ConnT
<1>5. ASSUME NEW c \in Conns, DrainWrites(c) PROVE Same
  BY <1>1, <1>3, <1>5, Drains
<1>6. ASSUME NEW c \in Conns, DrainStops(c) PROVE Same
  BY <1>2, <1>4, <1>6 DEF DrainStops
<1>7. ASSUME NEW c \in Conns, Drained(c) PROVE Same
  <2> DEFINE a == conn[c].wrote_err \/ (conn[c].wrote_eof /\ conn[c].out_queue = <<>>)
             b == conn[c].wrote_eof \/ outputted
  <2>1. conn' = [conn EXCEPT ![c].wrote_err = a, ![c].wrote_eof = b]
    BY <1>7 DEF Drained
  <2>. HIDE DEF a, b
  <2>. QED BY <1>1, <2>1 DEF ConnsT, ConnT
<1>8. ASSUME NEW c \in Conns, conn_input(c) PROVE Same
  <2>1. PICK eof \in BOOLEAN : conn' = [conn EXCEPT ![c].read_eof = eof, ![c].sent = TRUE]
    BY <1>1, <1>8, Reads
  <2>2. d # c
    BY <1>8
  <2>. QED BY <1>1, <2>1, <2>2 DEF ConnsT, ConnT
<1>9. ASSUME NEW c \in Conns, conn_output_eof(c) PROVE Same
  <2>1. conn' = [conn EXCEPT ![c].fin = TRUE, ![c].wrote_eof = TRUE]
    BY <1>9 DEF conn_output_eof
  <2>. QED BY <1>1, <2>1 DEF ConnsT, ConnT
<1>10. ASSUME NEW c \in Conns, NEW n \in 1..MaxSegDataSize, conn_output_nothing(c, n)
       PROVE  Same
  BY <1>2, <1>4, <1>10 DEF conn_output_nothing
<1>11. ASSUME NEW c \in Conns, NEW n \in 1..MaxSegDataSize, conn_output(c, n) PROVE Same
  <2>1. PICK w \in 0..n : OutputIs(c, n, w)
    BY <1>1, <1>11, Outputs
  <2>. QED BY <1>2, <1>3, <2>1 DEF OutputIs
<1>12. CASE WriteReturns
  <2>1. blocked.conn \in Conns
    BY <1>1, <1>12 DEF WriteReturns, PipeT
  <2>2. conn' = conn \/ conn' = [conn EXCEPT ![blocked.conn].wrote_err = TRUE]
    BY <1>12 DEF WriteReturns
  <2>. QED BY <1>2, <1>4, <2>1, <2>2
<1>13. CASE ctcp_timer
  BY <1>1, <1>2, <1>3, <1>13, Frees
<1>. HIDE DEF Same
<1>14. ASSUME NEW c \in Conns,
              \/ DrainWrites(c) \/ DrainStops(c) \/ Drained(c) \/ conn_input(c)
              \/ conn_output_eof(c)
              \/ \E n \in 1..MaxSegDataSize : conn_output_nothing(c, n) \/ conn_output(c, n)
       PROVE  Same
  <2>1. CASE DrainWrites(c) \/ DrainStops(c) \/ Drained(c)
    BY <1>5, <1>6, <1>7, <2>1
  <2>2. CASE conn_input(c) \/ conn_output_eof(c)
    BY <1>8, <1>9, <2>2
  <2>3. CASE \E n \in 1..MaxSegDataSize : conn_output_nothing(c, n) \/ conn_output(c, n)
    BY <1>10, <1>11, <2>3
  <2>. QED BY <1>14, <2>1, <2>2, <2>3
<1>. QED BY <1>2, <1>12, <1>13, <1>14, ConnFrame DEF Same

\* A program's output is read once a turn, while there is some.
LEMMA ProgramReadsOKStep ==
    ASSUME ConnIOConstants, Sound, ProgramReadsOK, [Next]_vars
    PROVE  ProgramReadsOK'
<1>1. ListT /\ TurnT /\ PipeT /\ ByteT /\ ConnsT /\ TurnOK /\ ListOK
  BY TypeParts DEF Sound
<1>2. SUFFICES ASSUME run_program, run_program', NEW d \in Conns
               PROVE  /\ ~conn'[d].read_eof
                      /\ ReadOf(d) \in Range(jobs') => out'[d] > 0
  BY TurnFrame DEF ProgramReadsOK, run_program, Readable
<1>3. ~conn[d].read_eof /\ (ReadOf(d) \in Range(jobs) => out[d] > 0) /\ out[d] \in Nat
  BY <1>1, <1>2, ConnsAre DEF ProgramReadsOK, Readable, PipeT
<1>4. CASE do_loop
  <2>1. UNCHANGED <<conn, out>>
    BY <1>4 DEF do_loop, pipes
  <2>2. ReadOf(d) \in Range(jobs') => Readable(d)
    BY <1>1, <1>2, <1>4, TurnStarts DEF ListT
  <2>. QED BY <1>3, <2>1, <2>2 DEF Readable
<1>5. CASE ~do_loop /\ conn_input(d)
  <2>1. Head(jobs) = ReadOf(d) /\ jobs # <<>> /\ Done
    BY <1>5 DEF conn_input, Doing, ReadOf
  <2>2. ReadOf(d) \in Range(jobs) /\ ReadOf(d) \notin Range(jobs')
    BY <1>1, <1>5, <2>1, ReadsLeft
  <2>3. PICK taken \in 0..MaxSegDataSize :
          /\ taken = MaxSegDataSize \/ taken = out[d]
          /\ \E eof \in (IF run_program THEN {taken = 0} ELSE BOOLEAN) :
               conn' = [conn EXCEPT ![d].read_eof = eof, ![d].sent = TRUE]
    BY <1>1, <1>5, Reads
  <2>4. taken # 0
    BY <1>3, <2>2, <2>3, ConnsAre
  <2>5. conn' = [conn EXCEPT ![d].read_eof = FALSE, ![d].sent = TRUE]
    BY <1>2, <2>3, <2>4
  <2>6. conn'[d].read_eof = FALSE
    BY <1>1, <2>5 DEF ConnsT, ConnT
  <2>. QED BY <2>2, <2>6
<1>6. CASE ~do_loop /\ ~conn_input(d)
  <2>1. ~conn'[d].read_eof
    BY <1>3, <1>6, EofFrame
  <2>2. out'[d] >= out[d]
    <3>1. CASE UNCHANGED pipes \/ WriteReturns
      <4>1. out' = out
        BY <3>1 DEF pipes, WriteReturns
      <4>. QED BY <1>3, <4>1
    <3>2. ASSUME NEW c \in Conns, conn_input(c) PROVE out'[d] >= out[d]
      <4>1. d # c
        BY <1>6, <3>2
      <4>2. \E x : out' = [out EXCEPT ![c] = x]
        BY <3>2 DEF conn_input
      <4>3. out'[d] = out[d]
        BY <1>1, <4>1, <4>2 DEF PipeT
      <4>. QED BY <1>3, <4>3
    <3>3. ASSUME NEW c \in Conns, ProgramAnswers(c) PROVE out'[d] >= out[d]
      <4>1. out' = [out EXCEPT ![c] = @ + 1]
        BY <3>3 DEF ProgramAnswers
      <4>2. out'[d] = out[d] \/ out'[d] = out[d] + 1
        BY <1>1, <4>1 DEF PipeT
      <4>. QED BY <1>3, <4>2
    <3>4. ASSUME NEW c \in Conns, ProgramWrites(c) PROVE out'[d] >= out[d]
      <4>1. out' = [out EXCEPT ![c] = @ + 1]
        BY <3>4 DEF ProgramWrites
      <4>2. out'[d] = out[d] \/ out'[d] = out[d] + 1
        BY <1>1, <4>1 DEF PipeT
      <4>. QED BY <1>3, <4>2
    <3>5. ASSUME NEW c \in Conns,
                 \/ tcp_new_connection(c) \/ ProgramReads(c) \/ ProgramExits(c)
                 \/ \E n \in 1..MaxSegDataSize : conn_output_program(c, n)
          PROVE  out'[d] >= out[d]
      <4>1. out' = out
        BY <3>5 DEF tcp_new_connection, ProgramReads, ProgramExits, conn_output_program,
           pipes
      <4>. QED BY <1>3, <4>1
    <3>. QED BY <3>1, <3>2, <3>3, <3>4, <3>5, PipeFrame DEF ProgramSteps
  <2>3. ReadOf(d) \in Range(jobs') => ReadOf(d) \in Range(jobs)
    BY <1>1, <1>6, ReadsLeft
  <2>4. out'[d] \in Int
    BY <1>1, PipeTStep, ConnsAre DEF PipeT
  <2>. QED BY <1>3, <2>1, <2>2, <2>3, <2>4
<1>. QED BY <1>4, <1>5, <1>6

\* A program's pipes are never closed because both directions ended.
LEMMA PipesHolds ==
    ASSUME Sound, ProgramReadsOK
    PROVE  PipesCloseByGivingUp
BY DEF Sound, TypeOK, ProgramReadsOK, PipesCloseByGivingUp, Ends

\* A call of ctcp_read returns when the handler refused to read, or when it read.
LEMMA ReadReturns ==
    ASSUME BlockedOK, [Next]_vars, NEW d \in Conns, ~conn_input(d), ~ReadRefused(d)
    PROVE  /\ d \in refused => d \in refused'
           /\ jobs # <<>> /\ Head(jobs) = ReadOf(d) => UNCHANGED jobs
<1>1. CASE UNCHANGED vars \/ ReaderReads \/ ReaderLeaves
  BY <1>1 DEF vars, past, ReaderReads, ReaderLeaves
<1>2. ASSUME NEW c \in Conns, ProgramSteps(c)
      PROVE  UNCHANGED <<refused, jobs>>
  BY <1>2, ProgramFrame
<1>3. CASE do_loop
  BY <1>3 DEF do_loop, past
<1>4. CASE WriteReturns
  <2>1. UNCHANGED refused /\ blocked # None
    BY <1>4 DEF WriteReturns, past, None
  <2>2. Head(jobs)[1] = "receive"
    BY <2>1 DEF BlockedOK
  <2>. QED BY <2>1, <2>2 DEF ReadOf
<1>5. CASE NothingToOutput \/ ctcp_timer
  <2>1. UNCHANGED refused /\ Head(jobs)[1] # "ctcp_read"
    BY <1>5, OneCall DEF NothingToOutput, ctcp_timer, past
  <2>. QED BY <2>1 DEF ReadOf
<1>6. ASSUME NEW c \in Conns,
             \/ DrainWrites(c) \/ DrainStops(c) \/ Drained(c)
             \/ tcp_new_connection(c) \/ conn_output_eof(c)
      PROVE  UNCHANGED refused /\ Head(jobs) # ReadOf(d)
  <2>1. UNCHANGED refused /\ Head(jobs)[1] # "ctcp_read"
    BY <1>6, OneCall DEF DrainWrites, DrainStops, Drained, tcp_new_connection,
       conn_output_eof, past
  <2>. QED BY <2>1 DEF ReadOf
<1>7. ASSUME NEW c \in Conns, ReadRefused(c) \/ conn_input(c)
      PROVE  (d \in refused => d \in refused') /\ Head(jobs) # ReadOf(d)
  <2>1. d # c
    BY <1>7
  <2>2. Head(jobs)[2] = c
    BY <1>7, OneCall DEF ReadRefused, conn_input
  <2>3. refused' \in {refused, refused \cup {c}, refused \ {c}}
    BY <1>7 DEF ReadRefused, conn_input
  <2>. QED BY <2>1, <2>2, <2>3 DEF ReadOf
<1>8. ASSUME NEW c \in Conns, NEW n \in 1..MaxSegDataSize,
             conn_output_nothing(c, n) \/ conn_output(c, n) \/ conn_output_program(c, n)
      PROVE  UNCHANGED refused /\ Head(jobs) # ReadOf(d)
  <2>1. UNCHANGED refused /\ Head(jobs)[1] # "ctcp_read"
    BY <1>8, OneCall DEF conn_output_nothing, conn_output, conn_output_program, Arrives, past
  <2>. QED BY <2>1 DEF ReadOf
<1>. QED BY <1>1, <1>2, <1>3, <1>4, <1>5, <1>6, <1>7, <1>8 DEF Next, Server, Handler

\* Who has no room for a segment in its pipes, both together, is read first.
LEMMA RoomOKStep ==
    ASSUME ConnIOConstants, Sound, BlockedOK, RoomOK, [Next]_vars
    PROVE  RoomOK'
<1>1. ListT /\ TurnT /\ PipeT /\ ByteT /\ ConnsT /\ TurnOK /\ ListOK
  BY TypeParts DEF Sound
<1>2. SUFFICES ASSUME run_program, Left("receive")',
                      NEW d \in Range(connections') \ refused', unprompted'[d] = 0
               PROVE  Room(d)' \/ ReadOf(d) \in Range(jobs')
  BY TurnFrame DEF RoomOK, run_program
<1>3. d \in Conns
  <2>1. connections' \in Seq(Conns)
    BY <1>1, ListTStep DEF ListT
  <2>. QED BY <2>1 DEF Range
<1>4. unprompted[d] = 0
  <2>1. unprompted \in [Conns -> Nat]
    BY <1>1 DEF TurnT
  <2>2. \/ UNCHANGED unprompted
        \/ \E c \in Conns : unprompted' = [unprompted EXCEPT ![c] = @ + 1]
    BY TurnFrame DEF past
  <2>3. unprompted'[d] \in {unprompted[d], unprompted[d] + 1} /\ unprompted[d] \in Nat
    BY <1>3, <2>1, <2>2
  <2>. QED BY <1>2, <2>3
<1>5. /\ in[d] \in 0..InSize /\ out[d] \in 0..OutSize
      /\ InSize \in Nat /\ OutSize \in Nat /\ MaxSegDataSize \in Nat
      /\ MaxSegDataSize <= OutSize
      /\ in'[d] \in Nat /\ out'[d] \in Nat
  BY <1>1, <1>3, PipeTStep, ConnsAre DEF PipeT
<1>6. CASE do_loop
  <2>1. UNCHANGED <<connections, in, out>>
    BY <1>6 DEF do_loop, lists, pipes
  <2>2. Readable(d) => ReadOf(d) \in Range(jobs')
    BY <1>1, <1>2, <1>3, <1>6, <2>1, TurnStarts DEF ListT
  <2>3. CASE ~Readable(d)
    <3>1. out[d] = 0
      BY <1>5, <2>3 DEF Readable
    <3>. QED BY <1>5, <2>1, <3>1 DEF Room
  <2>. QED BY <2>2, <2>3
<1>7. SUFFICES ASSUME ~do_loop PROVE Room(d)' \/ ReadOf(d) \in Range(jobs')
  BY <1>6
<1>8. Left("receive")
  BY <1>1, <1>2, <1>7, ReadsLeft
<1>9. ~(jobs # <<>> /\ Done /\ Head(jobs)[1] \in {"receive", "timer"})
  BY <1>1, <1>2, Returns DEF Left, TurnT
<1>10. d \in Range(connections)
  <2>1. CASE UNCHANGED lists
    BY <1>2, <2>1 DEF lists
  <2>2. ASSUME NEW c \in Conns, tcp_new_connection(c) PROVE FALSE
    BY <1>9, <2>2, OneCall DEF tcp_new_connection
  <2>3. ~ctcp_timer
    BY <1>9, OneCall DEF ctcp_timer
  <2>. QED BY <2>1, <2>2, <2>3, ListFrame
<1>11. CASE conn_input(d)
  <2>1. UNCHANGED in
    BY <1>11 DEF conn_input
  <2>2. PICK taken \in 0..MaxSegDataSize :
          /\ taken = MaxSegDataSize \/ taken = out[d]
          /\ out' = [out EXCEPT ![d] = @ - taken]
    BY <1>1, <1>3, <1>11, Reads
  <2>3. out'[d] = out[d] - taken
    BY <1>1, <1>3, <2>2 DEF PipeT
  <2>4. in'[d] + out'[d] <= InSize + OutSize - MaxSegDataSize
    BY <1>5, <2>1, <2>2, <2>3
  <2>. QED BY <2>4 DEF Room
<1>12. CASE ReadRefused(d)
  BY <1>2, <1>12 DEF ReadRefused
<1>13. ~WriteReturns
  <2>1. ASSUME WriteReturns PROVE blocked # None /\ Done
    BY <2>1 DEF WriteReturns, None
  <2>. QED BY <1>9, <2>1 DEF BlockedOK
<1>14. CASE ~conn_input(d) /\ ~ReadRefused(d)
  <2>1. in'[d] + out'[d] <= in[d] + out[d]
    <3>1. CASE UNCHANGED pipes
      BY <1>5, <3>1 DEF pipes
    <3>2. ASSUME NEW c \in Conns, conn_input(c) PROVE in'[d] + out'[d] <= in[d] + out[d]
      <4>1. d # c
        BY <1>14, <3>2
      <4>2. in' = in /\ \E x : out' = [out EXCEPT ![c] = x]
        BY <3>2 DEF conn_input
      <4>3. in'[d] = in[d] /\ out'[d] = out[d]
        BY <1>1, <4>1, <4>2 DEF PipeT
      <4>. QED BY <1>5, <4>3
    <3>3. ASSUME NEW c \in Conns, ProgramAnswers(c)
          PROVE  in'[d] + out'[d] <= in[d] + out[d]
      <4>1. in' = [in EXCEPT ![c] = @ - 1] /\ out' = [out EXCEPT ![c] = @ + 1]
        BY <3>3 DEF ProgramAnswers
      <4>2. \/ in'[d] = in[d] /\ out'[d] = out[d]
            \/ in'[d] = in[d] - 1 /\ out'[d] = out[d] + 1
        BY <1>1, <1>3, <4>1 DEF PipeT
      <4>. QED BY <1>5, <4>2
    <3>4. ASSUME NEW c \in Conns, ProgramReads(c)
          PROVE  in'[d] + out'[d] <= in[d] + out[d]
      <4>1. in' = [in EXCEPT ![c] = @ - 1] /\ out' = out
        BY <3>4 DEF ProgramReads
      <4>2. (in'[d] = in[d] \/ in'[d] = in[d] - 1) /\ out'[d] = out[d]
        BY <1>1, <1>3, <4>1 DEF PipeT
      <4>. QED BY <1>5, <4>2
    <3>5. ASSUME NEW c \in Conns, ProgramWrites(c)
          PROVE  in'[d] + out'[d] <= in[d] + out[d]
      <4>1. /\ in' = in /\ out' = [out EXCEPT ![c] = @ + 1]
            /\ unprompted' = [unprompted EXCEPT ![c] = @ + 1]
        BY <3>5 DEF ProgramWrites
      <4>2. unprompted \in [Conns -> Nat]
        BY <1>1 DEF TurnT
      <4>3. d # c
        BY <1>2, <1>3, <1>4, <4>1, <4>2
      <4>4. in'[d] = in[d] /\ out'[d] = out[d]
        BY <1>1, <1>3, <4>1, <4>3 DEF PipeT
      <4>. QED BY <1>5, <4>4
    <3>6. ASSUME NEW c \in Conns, ProgramExits(c) PROVE in'[d] + out'[d] <= in[d] + out[d]
      <4>1. in' = [in EXCEPT ![c] = 0] /\ out' = out
        BY <3>6 DEF ProgramExits
      <4>2. (in'[d] = in[d] \/ in'[d] = 0) /\ out'[d] = out[d]
        BY <1>1, <1>3, <4>1 DEF PipeT
      <4>. QED BY <1>5, <4>2
    <3>7. ASSUME NEW c \in Conns,
                 \/ tcp_new_connection(c)
                 \/ \E n \in 1..MaxSegDataSize : conn_output_program(c, n)
          PROVE  in'[d] + out'[d] <= in[d] + out[d]
      <4>1. UNCHANGED <<in, out>>
        BY <3>7 DEF tcp_new_connection, conn_output_program, pipes
      <4>. QED BY <1>5, <4>1
    <3>. QED BY <1>13, <3>1, <3>2, <3>3, <3>4, <3>5, <3>6, <3>7, PipeFrame DEF ProgramSteps
  <2>2. Room(d) => Room(d)'
    BY <1>5, <2>1 DEF Room
  <2>3. d \notin refused
    BY <1>2, <1>3, <1>14, ReadReturns
  <2>4. Room(d) \/ ReadOf(d) \in Range(jobs)
    BY <1>2, <1>4, <1>8, <1>10, <2>3 DEF RoomOK
  <2>5. ReadOf(d) \in Range(jobs) => ReadOf(d) \in Range(jobs')
    BY <1>1, <1>3, <1>7, <1>14, ReadsLeft, ReadReturns
  <2>. QED BY <2>2, <2>4, <2>5
<1>. QED BY <1>11, <1>12, <1>14

\* Server and program wait for each other only if ctcp_read refused to read, or
\* the program wrote what answers nothing.
LEMMA DeadlockHolds ==
    ASSUME ConnIOConstants, Sound, BlockedOK, RoomOK
    PROVE  DeadlockNeedsRefusalOrTalk
<1>1. ListT /\ TurnT /\ PipeT /\ ByteT /\ ConnsT /\ TurnOK /\ ListOK
  BY TypeParts DEF Sound
<1>2. SUFFICES ASSUME NEW c \in Conns, blocked.conn = c,
                      in[c] + Len(blocked.data) > InSize, out[c] = OutSize,
                      c \notin refused, unprompted[c] = 0
               PROVE  FALSE
  <2>1. \A c \in Conns : unprompted[c] \in Nat
    BY <1>1 DEF TurnT
  <2>. QED BY <2>1 DEF DeadlockNeedsRefusalOrTalk
<1>3. blocked # None
  BY <1>2, ConnsAre DEF None
<1>4. /\ jobs # <<>> /\ Head(jobs) = <<"receive", Nobody>> /\ run_program
      /\ c \in Range(connections)
      /\ Len(blocked.data) \in 1..Min({MaxSegDataSize, MaxBufSpace})
  BY <1>2, <1>3 DEF BlockedOK
<1>5. Len(blocked.data) <= MaxSegDataSize /\ Len(blocked.data) \in Nat
  <2> DEFINE m == Min({MaxSegDataSize, MaxBufSpace})
  <2>1. MaxSegDataSize \in Int /\ MaxBufSpace \in Int
    BY ConnsAre
  <2>2. m <= MaxSegDataSize /\ m \in Int
    BY <2>1, MinIs
  <2>. HIDE DEF m
  <2>. QED BY <1>4, <2>1, <2>2 DEF m
<1>6. jobs \in Seq(Job) /\ 1 \in DOMAIN jobs /\ Head(jobs) = jobs[1]
  BY <1>1, <1>4 DEF TurnT
<1>7. Left("receive")
  BY <1>4, <1>6 DEF Left, Range
<1>8. ReadOf(c) \notin Range(jobs)
  <2>1. SUFFICES ASSUME NEW i \in DOMAIN jobs, jobs[i] = ReadOf(c) PROVE FALSE
    BY DEF Range
  <2>2. i # 1
    BY <1>4, <1>6, <2>1 DEF ReadOf
  <2>3. 1 < i
    BY <1>6, <2>2
  <2>4. jobs[i][1] = "timer"
    BY <1>1, <1>4, <1>6, <2>3 DEF TurnOK
  <2>. QED BY <2>1, <2>4 DEF ReadOf
<1>9. in[c] + out[c] <= InSize + OutSize - MaxSegDataSize
  BY <1>2, <1>4, <1>7, <1>8 DEF RoomOK, Room
<1>10. in[c] \in Nat /\ InSize \in Nat /\ OutSize \in Nat /\ MaxSegDataSize \in Nat
  BY <1>1, ConnsAre DEF PipeT
<1>. QED BY <1>2, <1>5, <1>9, <1>10

-----------------------------------------------------------------------------
\* The bytes of a queue

\* The bytes that follow those written, written.
LEMMA MoreBytes ==
    ASSUME NEW n \in Nat, NEW s \in Seq(Nat), \A k \in 1..Len(s) : s[k] = n + k
    PROVE  Fifo!FirstBytes(n) \o s = Fifo!FirstBytes(n + Len(s))
<1> DEFINE f == [i \in 1..n |-> i]
           g == [i \in 1..(n + Len(s)) |-> i]
<1>1. f \in Seq(Nat) /\ Len(f) = n /\ Len(s) \in Nat /\ \A i \in 1..n : f[i] = i
  OBVIOUS
<1>. HIDE DEF f
<1>2. /\ f \o s \in Seq(Nat) /\ Len(f \o s) = n + Len(s)
      /\ \A k \in 1..(n + Len(s)) : (f \o s)[k] = IF k <= n THEN f[k] ELSE s[k - n]
  BY <1>1, ConcatProperties
<1>3. ASSUME NEW k \in 1..(n + Len(s)) PROVE (f \o s)[k] = k
  <2>1. CASE k <= n
    BY <1>1, <1>2, <2>1
  <2>2. CASE ~(k <= n)
    <3>1. k - n \in 1..Len(s)
      BY <1>1, <2>2
    <3>2. (f \o s)[k] = n + (k - n)
      BY <1>2, <2>2, <3>1
    <3>. QED BY <1>1, <3>2
  <2>. QED BY <2>1, <2>2
<1>4. \A q \in Seq(Nat) : q = [k \in 1..Len(q) |-> q[k]]
  OBVIOUS
<1>5. f \o s = g
  <2>1. f \o s = [k \in 1..(n + Len(s)) |-> (f \o s)[k]]
    BY <1>2, <1>4
  <2>. QED BY <1>3, <2>1
<1>. QED BY <1>5 DEF f, Fifo!FirstBytes

\* They are as many as is said.
LEMMA FirstBytesLen ==
    ASSUME NEW n \in Nat
    PROVE  Len(Fifo!FirstBytes(n)) = n
BY DEF Fifo!FirstBytes

\* The chunks of a queue, as numbers.
LEMMA ChunkIs ==
    ASSUME NEW queue \in Seq(Chunk)
    PROVE  /\ Len(queue) \in Nat /\ DOMAIN queue = 1..Len(queue)
           /\ \A i \in 1..Len(queue) :
                /\ queue[i] \in Seq(Nat) /\ Len(queue[i]) \in Nat \ {0}
                /\ DOMAIN queue[i] = 1..Len(queue[i])
                /\ queue[i][1] \in Nat
           /\ queue # <<>> => Len(queue) \in Nat \ {0} /\ Head(queue) = queue[1]
<1>1. ASSUME NEW i \in 1..Len(queue)
      PROVE  /\ queue[i] \in Seq(Nat) /\ Len(queue[i]) \in Nat \ {0}
             /\ DOMAIN queue[i] = 1..Len(queue[i])
             /\ queue[i][1] \in Nat
  <2>1. queue[i] \in Chunk
    OBVIOUS
  <2>2. queue[i] \in Seq(Nat) /\ queue[i] # <<>>
    BY <2>1 DEF Chunk
  <2>. HIDE DEF Chunk
  <2>. QED BY <2>2
<1>. QED BY <1>1

\* The chunks that tile an interval have as many bytes as it.
LEMMA TilesBytes ==
    ASSUME NEW queue \in Seq(Chunk), queue # <<>>, NEW first \in Nat, NEW last \in Nat,
           Tiles(queue, first, last)
    PROVE  /\ ChunkBytes(queue)[Len(queue)] = last - first
           /\ Len(Head(queue)) <= last - first
<1> DEFINE m == Len(queue)
           B == ChunkBytes(queue)
           T == {n \in Nat : 1 <= n /\ n <= m =>
                   /\ B[n] >= Len(queue[1])
                   /\ (IF n = m THEN last + 1 ELSE queue[n + 1][1]) = first + 1 + B[n]}
<1>1. m \in Nat \ {0} /\ DOMAIN queue = 1..m /\ Head(queue) = queue[1]
  BY ChunkIs
<1>2. \A i \in 1..m : Len(queue[i]) \in Nat \ {0} /\ queue[i][1] \in Nat
  BY ChunkIs
<1>3. /\ queue[1][1] = first + 1
      /\ \A i \in 1..m : queue[i][1] + Len(queue[i]) =
                           IF i = m THEN last + 1 ELSE queue[i + 1][1]
  BY <1>1 DEF Tiles
<1>4. \A n \in 0..m : B[n] \in Nat /\ B[n] = IF n = 0 THEN 0 ELSE B[n - 1] + Len(queue[n])
  BY ChunkBytesIs
<1>. HIDE DEF B, m
<1>5. 0 \in T
  OBVIOUS
<1>6. ASSUME NEW n \in T PROVE n + 1 \in T
  <2>1. SUFFICES ASSUME n + 1 <= m
                 PROVE  /\ B[n + 1] >= Len(queue[1])
                        /\ (IF n + 1 = m THEN last + 1 ELSE queue[(n + 1) + 1][1])
                             = first + 1 + B[n + 1]
    OBVIOUS
  <2>2. n \in Nat /\ n + 1 \in 1..m /\ n + 1 \in 0..m /\ n \in 0..m /\ (n + 1) - 1 = n
        /\ n + 1 # 0
    BY <1>1, <2>1
  <2>3. B[n + 1] = B[n] + Len(queue[n + 1])
    BY <1>4, <2>2
  <2>4. queue[n + 1][1] + Len(queue[n + 1]) =
          IF n + 1 = m THEN last + 1 ELSE queue[(n + 1) + 1][1]
    BY <1>3, <2>2
  <2>5. B[n] \in Nat /\ Len(queue[n + 1]) \in Nat /\ queue[n + 1][1] \in Nat
    BY <1>2, <1>4, <2>2
  <2>6. CASE n = 0
    <3>1. B[n] = 0
      BY <1>4, <2>2, <2>6
    <3>2. queue[n + 1] = queue[1]
      BY <2>6
    <3>3. B[n + 1] >= Len(queue[1])
      BY <2>3, <2>5, <3>1, <3>2
    <3>4. queue[n + 1][1] + Len(queue[n + 1]) = first + 1 + B[n + 1]
      <4>1. B[n + 1] = Len(queue[n + 1])
        BY <2>3, <2>5, <3>1
      <4>2. queue[n + 1][1] = first + 1
        BY <1>3, <3>2
      <4>. QED BY <2>5, <4>1, <4>2
    <3>. QED BY <2>4, <3>3, <3>4
  <2>7. CASE n # 0
    <3>1. n \in 1..m /\ n # m
      BY <1>1, <2>1, <2>2, <2>7
    <3>2. B[n] >= Len(queue[1]) /\ queue[n + 1][1] = first + 1 + B[n]
      BY <3>1
    <3>3. Len(queue[1]) \in Nat
      BY <1>1, <1>2
    <3>4. B[n + 1] >= Len(queue[1])
      BY SMTT(20), <2>3, <2>5, <3>2, <3>3
    <3>5. queue[n + 1][1] + Len(queue[n + 1]) = first + 1 + B[n + 1]
      <4>1. \A a, b, l \in Nat : a + 1 + b + l = a + 1 + (b + l)
        OBVIOUS
      <4>. QED BY <2>3, <2>5, <3>2, <4>1
    <3>. QED BY <2>4, <3>4, <3>5
  <2>. QED BY <2>6, <2>7
<1>7. m \in T
  <2>. HIDE DEF T
  <2>1. T \in SUBSET Nat
    BY DEF T
  <2>2. T = Nat
    BY <1>5, <1>6, <2>1, Induction
  <2>. QED BY <1>1, <2>2
<1>8. B[m] >= Len(queue[1]) /\ last + 1 = first + 1 + B[m] /\ B[m] \in Nat
  BY <1>1, <1>4, <1>7
<1>9. Len(queue[1]) \in Nat
  BY <1>1, <1>2
<1>. QED BY <1>1, <1>8, <1>9 DEF B, m

\* When part of the first chunk is written, the rest of the queue follows it.
RestTiles(queue, w, first, last) ==
    /\ Tiles(Rest(queue, w), first + w, last)
    /\ Rest(queue, w) = <<>> => last = first + w
    /\ \A k \in 1..w : SubSeq(Head(queue), 1, w)[k] = first + k
    /\ Len(SubSeq(Head(queue), 1, w)) = w

\* And what was written are the bytes before it.
LEMMA TilesRest ==
    ASSUME NEW queue \in Seq(Chunk), queue # <<>>, NEW first \in Nat, NEW last \in Nat,
           Tiles(queue, first, last), NEW w \in 1..Len(Head(queue))
    PROVE  RestTiles(queue, w, first, last)
<1> DEFINE m == Len(queue)
           h == Head(queue)
           r == Rest(queue, w)
<1>1. m \in Nat \ {0} /\ DOMAIN queue = 1..m /\ h = queue[1]
  BY ChunkIs
<1>2. \A i \in 1..m : /\ Len(queue[i]) \in Nat \ {0} /\ queue[i][1] \in Nat
                      /\ DOMAIN queue[i] = 1..Len(queue[i])
  BY ChunkIs
<1>3. /\ queue[1][1] = first + 1
      /\ \A i \in 1..m :
           /\ \A k \in 1..Len(queue[i]) : queue[i][k] = queue[i][1] + k - 1
           /\ queue[i][1] + Len(queue[i]) = IF i = m THEN last + 1 ELSE queue[i + 1][1]
  BY <1>1, <1>2 DEF Tiles
<1>4. /\ Len(SubSeq(h, 1, w)) = w /\ \A k \in 1..w : SubSeq(h, 1, w)[k] = h[k]
      /\ r \in Seq(Chunk)
      /\ w = Len(h) => r = Tail(queue)
      /\ w # Len(h) =>
           /\ Len(r) = m
           /\ \A i \in 2..m : r[i] = queue[i]
           /\ Len(r[1]) = Len(h) - w
           /\ \A k \in 1..(Len(h) - w) : r[1][k] = h[w + k]
  BY RestIs
<1>. HIDE DEF m, h, r
<1>5. /\ Len(h) \in Nat \ {0} /\ w \in 1..Len(h)
      /\ \A k \in 1..Len(h) : h[k] = first + k
      /\ first + 1 + Len(h) = IF 1 = m THEN last + 1 ELSE queue[2][1]
  <2>1. 1 \in 1..m
    BY <1>1
  <2>2. \A k \in 1..Len(h) : h[k] = first + 1 + k - 1 /\ first + 1 + k - 1 = first + k
    BY SMTT(20), <1>1, <1>2, <1>3, <2>1
  <2>3. w \in 1..Len(h)
    BY DEF h
  <2>. QED BY <1>1, <1>2, <1>3, <2>1, <2>2, <2>3
<1>6. \A k \in 1..w : SubSeq(h, 1, w)[k] = first + k
  BY <1>4, <1>5
<1>7. CASE w = Len(h)
  <2>1. /\ r = Tail(queue) /\ Len(r) = m - 1 /\ DOMAIN r = 1..(m - 1)
        /\ \A i \in 1..(m - 1) : r[i] = queue[i + 1] /\ i + 1 \in 1..m
    <3>1. Tail(queue) \in Seq(Chunk) /\ Len(Tail(queue)) = m - 1
          /\ \A i \in 1..(m - 1) : Tail(queue)[i] = queue[i + 1]
      BY DEF m
    <3>. QED BY <1>1, <1>4, <1>7, <3>1
  <2>2. r # <<>> => m # 1 /\ 1 \in 1..(m - 1)
    BY <1>1, <2>1
  <2>3. r # <<>> => r[1][1] = first + w + 1
    <3>1. r # <<>> => r[1] = queue[2]
      BY <2>1, <2>2
    <3>2. r # <<>> => queue[2][1] = first + 1 + Len(h)
      BY <1>5, <2>2
    <3>3. first + 1 + Len(h) = first + w + 1
      BY <1>5, <1>7
    <3>. QED BY <3>1, <3>2, <3>3
  <2>4. ASSUME NEW i \in DOMAIN r
        PROVE  /\ \A k \in DOMAIN r[i] : r[i][k] = r[i][1] + k - 1
               /\ r[i][1] + Len(r[i]) = IF i = Len(r) THEN last + 1 ELSE r[i + 1][1]
    <3>1. r[i] = queue[i + 1] /\ i + 1 \in 1..m /\ i \in Nat
      BY <2>1
    <3>2. i # Len(r) => i + 1 # m /\ i + 1 \in 1..(m - 1) /\ r[i + 1] = queue[(i + 1) + 1]
      BY <1>1, <2>1
    <3>3. i = Len(r) => i + 1 = m
      BY <1>1, <2>1
    <3>. QED BY <1>2, <1>3, <3>1, <3>2, <3>3
  <2>5. Tiles(r, first + w, last)
    BY <2>3, <2>4 DEF Tiles
  <2>6. r = <<>> => last = first + w
    <3>1. r = <<>> => Len(r) = 0
      OBVIOUS
    <3>2. r = <<>> => m = 1
      BY <1>1, <2>1, <3>1
    <3>. QED BY <1>5, <1>7, <3>2
  <2>. QED BY <1>4, <1>6, <2>5, <2>6 DEF r, h, RestTiles
<1>8. CASE w # Len(h)
  <2>1. /\ Len(r) = m /\ DOMAIN r = 1..m /\ r # <<>>
        /\ \A i \in 2..m : r[i] = queue[i]
        /\ Len(r[1]) = Len(h) - w /\ DOMAIN r[1] = 1..(Len(h) - w)
        /\ \A k \in 1..(Len(h) - w) : r[1][k] = h[w + k]
    <3>1. Len(r) = m /\ DOMAIN r = 1..m /\ r # <<>>
      BY <1>1, <1>4, <1>8
    <3>2. DOMAIN r[1] = 1..Len(r[1])
      BY <1>1, <1>4, <3>1, ChunkIs
    <3>. QED BY <1>4, <1>8, <3>1, <3>2
  <2>2. /\ \A k \in 1..(Len(h) - w) : r[1][k] = first + w + k
        /\ r[1][1] = first + w + 1
    <3>1. \A k \in 1..(Len(h) - w) : w + k \in 1..Len(h) /\ first + (w + k) = first + w + k
      BY <1>5
    <3>2. 1 \in 1..(Len(h) - w)
      BY <1>5, <1>8
    <3>3. \A k \in 1..(Len(h) - w) : r[1][k] = first + w + k
      BY <1>5, <2>1, <3>1
    <3>. QED BY <3>2, <3>3
  <2>3. ASSUME NEW i \in DOMAIN r
        PROVE  /\ \A k \in DOMAIN r[i] : r[i][k] = r[i][1] + k - 1
               /\ r[i][1] + Len(r[i]) = IF i = Len(r) THEN last + 1 ELSE r[i + 1][1]
    <3>1. i # m => i + 1 \in 2..m /\ r[i + 1] = queue[i + 1]
      BY <1>1, <2>1
    <3>2. CASE i = 1
      <4>1. \A k \in DOMAIN r[1] : r[1][k] = r[1][1] + k - 1
        <5>1. \A k \in 1..(Len(h) - w) : first + w + k = first + w + 1 + k - 1
          BY <1>5
        <5>. QED BY <2>1, <2>2, <5>1
      <4>2. r[1][1] + Len(r[1]) = first + 1 + Len(h)
        BY <1>5, <2>1, <2>2
      <4>3. 1 # m => r[1 + 1] = queue[2]
        BY <3>1, <3>2
      <4>. QED BY <1>5, <2>1, <3>2, <4>1, <4>2, <4>3
    <3>3. CASE i # 1
      <4>1. i \in 2..m /\ i \in 1..m
        BY <2>1, <3>3
      <4>2. r[i] = queue[i] /\ DOMAIN r[i] = 1..Len(queue[i])
        BY <1>2, <2>1, <4>1
      <4>3. \A k \in DOMAIN r[i] : r[i][k] = r[i][1] + k - 1
        BY <1>3, <4>1, <4>2
      <4>4. queue[i][1] + Len(queue[i]) = IF i = m THEN last + 1 ELSE queue[i + 1][1]
        BY <1>3, <4>1
      <4>. QED BY <2>1, <3>1, <4>2, <4>3, <4>4
    <3>. QED BY <3>2, <3>3
  <2>4. Tiles(r, first + w, last)
    BY <2>2, <2>3 DEF Tiles
  <2>. QED BY <1>4, <1>6, <2>1, <2>4 DEF r, h, RestTiles
<1>. QED BY <1>7, <1>8

\* A chunk that follows the last byte accepted is queued.
LEMMA TilesAppend ==
    ASSUME NEW queue \in Seq(Chunk), NEW first \in Nat, NEW last \in Nat,
           Tiles(queue, first, last), queue = <<>> => last = first,
           NEW x \in Chunk, \A k \in 1..Len(x) : x[k] = last + k
    PROVE  Tiles(Append(queue, x), first, last + Len(x))
<1> DEFINE m == Len(queue)
           q == Append(queue, x)
<1>1. m \in Nat /\ DOMAIN queue = 1..m
  BY ChunkIs
<1>2. /\ q \in Seq(Chunk) /\ Len(q) = m + 1 /\ DOMAIN q = 1..(m + 1)
      /\ \A i \in 1..m : q[i] = queue[i]
      /\ q[m + 1] = x
  OBVIOUS
<1>3. /\ Len(x) \in Nat \ {0} /\ DOMAIN x = 1..Len(x) /\ x[1] = last + 1
  BY DEF Chunk
<1>4. \A i \in 1..m : queue[i][1] \in Nat /\ Len(queue[i]) \in Nat
  BY ChunkIs
<1>5. /\ queue # <<>> => queue[1][1] = first + 1
      /\ \A i \in 1..m :
           /\ \A k \in DOMAIN queue[i] : queue[i][k] = queue[i][1] + k - 1
           /\ queue[i][1] + Len(queue[i]) = IF i = m THEN last + 1 ELSE queue[i + 1][1]
  BY <1>1 DEF Tiles
<1>6. queue = <<>> <=> m = 0
  OBVIOUS
<1>. HIDE DEF m, q
<1>7. q[1][1] = first + 1
  <2>1. CASE m = 0
    BY <1>2, <1>3, <1>6, <2>1
  <2>2. CASE m # 0
    BY <1>1, <1>2, <1>5, <1>6, <2>2
  <2>. QED BY <2>1, <2>2
<1>8. ASSUME NEW i \in DOMAIN q
      PROVE  /\ \A k \in DOMAIN q[i] : q[i][k] = q[i][1] + k - 1
             /\ q[i][1] + Len(q[i]) = IF i = Len(q) THEN last + Len(x) + 1 ELSE q[i + 1][1]
  <2>1. CASE i = m + 1
    <3>1. q[i] = x /\ i = Len(q)
      BY <1>2, <2>1
    <3>2. \A k \in DOMAIN x : x[k] = x[1] + k - 1
      <4>1. \A k \in 1..Len(x) : last + k = last + 1 + k - 1
        BY <1>3
      <4>. QED BY <1>3, <4>1
    <3>3. x[1] + Len(x) = last + Len(x) + 1
      BY <1>3
    <3>. QED BY <3>1, <3>2, <3>3
  <2>2. CASE i # m + 1
    <3>1. i \in 1..m /\ i # Len(q)
      BY <1>1, <1>2, <2>2
    <3>2. CASE i = m
      BY <1>2, <1>3, <1>5, <3>1, <3>2
    <3>3. CASE i # m
      <4>1. i + 1 \in 1..m
        BY <1>1, <3>1, <3>3
      <4>. QED BY SMTT(20), <1>2, <1>5, <3>1, <3>3, <4>1
    <3>. QED BY <3>2, <3>3
  <2>. QED BY <2>1, <2>2
<1>9. Tiles(q, first, last + Len(x))
  BY <1>7, <1>8 DEF Tiles
<1>. QED BY <1>9 DEF q

-----------------------------------------------------------------------------
\* What a connection accepted, what was written for it, and what is queued

\* A step that outputs nothing for a connection.
LEMMA FifoKept ==
    ASSUME NEW d \in Conns, FifoOf(d), UNCHANGED <<accepted[d], written[d], received[d]>>,
           conn'[d].out_queue = conn[d].out_queue,
           d \in Range(connections') => d \in Range(connections),
           d > num_connected' => d > num_connected,
           conn[d].wrote_eof => conn'[d].wrote_eof,
           conn[d].wrote_err => conn'[d].wrote_err
    PROVE  FifoOf(d)'
BY DEF FifoOf, Tiles, Fifo!FirstBytes

\* conn_drain writes the next bytes.
LEMMA FifoDrain ==
    ASSUME ConnIOConstants, Sound, FifoOK, NEW c \in Conns, DrainWrites(c), [Next]_vars
    PROVE  FifoOf(c)'
<1>1. ListT /\ TurnT /\ PipeT /\ ByteT /\ ConnsT /\ TurnOK /\ ListOK
  BY TypeParts DEF Sound
<1> DEFINE queue == conn[c].out_queue
           first == Len(written[c])
           last == accepted[c]
<1>2. PICK w \in 1..Len(Head(queue)) :
        /\ queue \in Seq(Chunk) /\ queue # <<>>
        /\ written' = [written EXCEPT ![c] = @ \o SubSeq(Head(queue), 1, w)]
        /\ conn' = [conn EXCEPT ![c].out_queue = Rest(queue, w)]
        /\ SubSeq(Head(queue), 1, w) \in Seq(Nat)
        /\ Rest(queue, w) \in Seq(Chunk)
  BY <1>1, Drains
<1> DEFINE s == SubSeq(Head(queue), 1, w)
           q == Rest(queue, w)
<1>3. FifoOf(c)
  BY DEF FifoOK
<1>4. first \in Nat /\ last \in Nat
  BY <1>1 DEF ByteT
<1>5. /\ written[c] = Fifo!FirstBytes(first) /\ Tiles(queue, first, last)
      /\ c > num_connected => last = 0 /\ received[c] = 0 /\ written[c] = <<>>
      /\ c \in Range(connections) /\ ~conn[c].wrote_eof /\ ~conn[c].wrote_err
           => received[c] = last
  BY <1>3 DEF FifoOf
<1>6. UNCHANGED <<accepted, received, connections, num_connected>>
  BY DEF DrainWrites, lists
<1>7. /\ conn'[c].out_queue = q
      /\ conn'[c].wrote_eof = conn[c].wrote_eof /\ conn'[c].wrote_err = conn[c].wrote_err
      /\ written'[c] = written[c] \o s
  BY <1>1, <1>2, ZenonT(30) DEF ConnsT, ConnT, ByteT
<1>. HIDE DEF queue, first, last
<1>8. /\ Tiles(q, first + w, last) /\ (q = <<>> => last = first + w)
      /\ \A k \in 1..w : s[k] = first + k
      /\ Len(s) = w
  <2>1. RestTiles(queue, w, first, last)
    BY <1>2, <1>4, <1>5, TilesRest
  <2>. QED BY <2>1 DEF RestTiles
<1>9. Len(Head(queue)) <= last - first
  BY <1>2, <1>4, <1>5, TilesBytes
<1>10. w \in Nat \ {0} /\ Len(Head(queue)) \in Nat /\ w <= Len(Head(queue))
  BY <1>2, ChunkIs
<1>11. first + w <= last /\ first + w \in Nat
  BY <1>4, <1>9, <1>10
<1>. HIDE DEF s, q
<1>12. /\ Fifo!FirstBytes(first) \o s = Fifo!FirstBytes(first + w)
       /\ Len(Fifo!FirstBytes(first + w)) = first + w
  <2>1. s \in Seq(Nat) /\ \A k \in 1..Len(s) : s[k] = first + k
    BY <1>2, <1>8 DEF s
  <2>2. Fifo!FirstBytes(first) \o s = Fifo!FirstBytes(first + w)
    BY <1>4, <1>8, <2>1, MoreBytes
  <2>3. Len(Fifo!FirstBytes(first + w)) = first + w
    BY <1>11, FirstBytesLen
  <2>. QED BY <2>2, <2>3
<1>13. written'[c] = Fifo!FirstBytes(first + w) /\ Len(written'[c]) = first + w
  BY <1>5, <1>7, <1>12
<1>14. ~(c > num_connected)
  BY <1>1, <1>2 DEF ListOK, queue
<1>15. accepted'[c] = last /\ received'[c] = received[c]
  BY <1>6 DEF last
<1> DEFINE now == Len(written'[c])
<1>16. /\ written'[c] = Fifo!FirstBytes(now) /\ now <= accepted'[c]
       /\ Tiles(conn'[c].out_queue, now, accepted'[c])
       /\ conn'[c].out_queue = <<>> => accepted'[c] = now
  BY <1>7, <1>8, <1>11, <1>13, <1>15
<1>17. c \in Range(connections) /\ ~conn'[c].wrote_eof /\ ~conn'[c].wrote_err
         => received'[c] = accepted'[c]
  BY <1>5, <1>7, <1>15
<1>. QED BY <1>6, <1>14, <1>16, <1>17 DEF FifoOf, Tiles, Fifo!FirstBytes

\* conn_output writes the first bytes of a segment, if nothing is queued, and
\* queues the others.
LEMMA FifoOutput ==
    ASSUME ConnIOConstants, Sound, FifoOK, NEW c \in Conns, NEW n \in 1..MaxSegDataSize,
           conn_output(c, n)
    PROVE  FifoOf(c)'
<1>1. ListT /\ TurnT /\ PipeT /\ ByteT /\ ConnsT /\ TurnOK /\ ListOK
  BY TypeParts DEF Sound
<1> DEFINE queue == conn[c].out_queue
           first == Len(written[c])
           last == accepted[c]
<1>2. PICK w \in 0..n : OutputIs(c, n, w)
  BY <1>1, Outputs
<1> DEFINE s == SubSeq(Data(c, n), 1, w)
           x == SubSeq(Data(c, n), w + 1, n)
           q == Append(queue, x)
<1>3. /\ c \in Range(connections) /\ ~conn[c].wrote_eof /\ ~conn[c].wrote_err
      /\ UNCHANGED <<connections, num_connected>>
  BY DEF conn_output, Arrives, lists
<1>4. FifoOf(c)
  BY DEF FifoOK
<1>5. /\ first \in Nat /\ last \in Nat /\ received[c] \in Nat /\ n \in Nat \ {0} /\ w \in Nat
      /\ w <= n
  BY <1>1, ConnsAre DEF ByteT
<1>6. /\ written[c] = Fifo!FirstBytes(first) /\ first <= last
      /\ Tiles(queue, first, last)
      /\ queue = <<>> => last = first
      /\ received[c] = last
  BY <1>3, <1>4 DEF FifoOf
<1>7. /\ s \in Seq(Nat) /\ Len(s) = w /\ \A k \in 1..w : s[k] = received[c] + k
      /\ x \in Seq(Nat) /\ Len(x) = n - w
      /\ \A k \in 1..(n - w) : x[k] = received[c] + w + k
  <2>1. n \in Nat
    BY <1>5
  <2>2. DataParts(c, n, w)
    BY <1>5, <2>1, DataIs
  <2>. QED BY <2>2 DEF DataParts
<1>8. /\ queue \in Seq(Chunk) /\ (queue # <<>> => w = 0)
      /\ written' = [written EXCEPT ![c] = @ \o s]
      /\ \/ w = n /\ conn' = conn
         \/ w < n /\ x \in Chunk /\ conn' = [conn EXCEPT ![c].out_queue = q]
      /\ received' = [received EXCEPT ![c] = @ + n]
      /\ accepted' = [accepted EXCEPT ![c] = @ + n]
  BY <1>2 DEF OutputIs
<1>9. /\ written'[c] = written[c] \o s
      /\ received'[c] = last + n /\ accepted'[c] = last + n
  BY <1>1, <1>6, <1>8 DEF ByteT
<1>10. \/ w = n /\ conn'[c].out_queue = queue
       \/ w < n /\ x \in Chunk /\ conn'[c].out_queue = q
  <2>1. ASSUME conn' = [conn EXCEPT ![c].out_queue = q] PROVE conn'[c].out_queue = q
    BY <1>1, <2>1 DEF ConnsT, ConnT
  <2>. QED BY <1>8, <2>1
<1>11. ~(c > num_connected)
  BY <1>1, <1>3, Listed
<1>. HIDE DEF queue, first, last, s, x
<1>12. written'[c] = Fifo!FirstBytes(first + w) /\ Len(written'[c]) = first + w
  <2>1. first + w \in Nat
    BY <1>5
  <2>2. Len(Fifo!FirstBytes(first + w)) = first + w
    BY <2>1, FirstBytesLen
  <2>3. Fifo!FirstBytes(first) \o s = Fifo!FirstBytes(first + w)
    <3>1. CASE queue = <<>>
      <4>1. \A k \in 1..Len(s) : s[k] = first + k
        BY <1>6, <1>7, <3>1
      <4>. QED BY <1>5, <1>7, <4>1, MoreBytes
    <3>2. CASE queue # <<>>
      <4>1. w = 0 /\ \A k \in 1..Len(s) : s[k] = first + k
        BY <1>7, <1>8, <3>2
      <4>. QED BY <1>5, <1>7, <4>1, MoreBytes
    <3>. QED BY <3>1, <3>2
  <2>. QED BY <1>6, <1>9, <2>2, <2>3
<1>13. /\ Tiles(queue, first + w, last + w)
       /\ queue = <<>> => last + w = first + w
  <2>1. CASE queue = <<>>
    BY <1>6, <2>1 DEF Tiles
  <2>2. CASE queue # <<>>
    <3>1. w = 0 /\ first + w = first /\ last + w = last
      BY <1>5, <1>8, <2>2
    <3>. QED BY <1>6, <2>2, <3>1
  <2>. QED BY <2>1, <2>2
<1>14. /\ Tiles(conn'[c].out_queue, first + w, last + n)
       /\ conn'[c].out_queue = <<>> => last + n = first + w
  <2>1. CASE w = n /\ conn'[c].out_queue = queue
    BY <1>13, <2>1
  <2>2. CASE w < n /\ x \in Chunk /\ conn'[c].out_queue = q
    <3>1. \A k \in 1..Len(x) : x[k] = (last + w) + k
      BY <1>6, <1>7
    <3>2. first + w \in Nat /\ last + w \in Nat
      BY <1>5
    <3>3. Tiles(q, first + w, (last + w) + Len(x))
      BY <1>8, <1>13, <2>2, <3>1, <3>2, TilesAppend
    <3>4. (last + w) + Len(x) = last + n
      BY <1>5, <1>7
    <3>5. q # <<>>
      <4>1. Len(q) = Len(queue) + 1 /\ Len(queue) \in Nat
        BY <1>8, <2>2
      <4>. HIDE DEF q
      <4>2. q = <<>> => Len(q) = 0
        OBVIOUS
      <4>. QED BY <4>1, <4>2
    <3>. QED BY <2>2, <3>3, <3>4, <3>5
  <2>. QED BY <1>10, <2>1, <2>2
<1>15. first + w <= last + n
  BY <1>5, <1>6
<1>. QED BY <1>3, <1>9, <1>11, <1>12, <1>14, <1>15 DEF FifoOf, Tiles, Fifo!FirstBytes

\* A program's input takes the segment whole, and nothing is queued.
LEMMA FifoProgram ==
    ASSUME ConnIOConstants, Sound, ChunksOK, BlockedOK, FifoOK, WriteReturns,
           NEW c \in Conns, c = blocked.conn
    PROVE  FifoOf(c)'
<1>1. ListT /\ TurnT /\ PipeT /\ ByteT /\ ConnsT /\ TurnOK /\ ListOK
  BY TypeParts DEF Sound
<1> DEFINE s == blocked.data
           n == Len(s)
           first == Len(written[c])
           last == accepted[c]
<1>2. blocked # None /\ c \in Conns
  BY <1>1 DEF WriteReturns, None, PipeT
<1>3. /\ run_program /\ c \in Range(connections)
      /\ s = Data(c, n) /\ ~conn[c].wrote_eof /\ ~conn[c].wrote_err
  BY <1>2 DEF BlockedOK
<1>4. conn[c].out_queue = <<>>
  BY <1>2, <1>3 DEF ChunksOK
<1>5. FifoOf(c)
  BY <1>2 DEF FifoOK
<1>6. /\ first \in Nat /\ last \in Nat /\ received[c] \in Nat
      /\ s \in Seq(Nat) /\ n \in Nat
  BY <1>1, <1>2 DEF ByteT, PipeT
<1>7. /\ written[c] = Fifo!FirstBytes(first) /\ last = first /\ received[c] = last
  BY <1>3, <1>4, <1>5 DEF FifoOf
<1>8. \A k \in 1..n : s[k] = first + k
  <2>. HIDE DEF s, first, last
  <2>1. \A k \in 1..n : Data(c, n)[k] = received[c] + k
    BY <1>6, DataT
  <2>. HIDE DEF n
  <2>. QED BY <1>3, <1>7, <2>1
<1>9. /\ \/ /\ written' = [written EXCEPT ![c] = @ \o s]
            /\ accepted' = [accepted EXCEPT ![c] = @ + n]
            /\ UNCHANGED conn
         \/ /\ conn' = [conn EXCEPT ![c].wrote_err = TRUE]
            /\ UNCHANGED <<accepted, written>>
      /\ received' = [received EXCEPT ![c] = @ + n]
      /\ UNCHANGED <<connections, num_connected>>
  BY DEF WriteReturns, Acknowledged, Accepted, lists
<1>10. ~(c > num_connected)
  BY <1>1, <1>3, Listed
<1>. HIDE DEF s, n, first, last
<1>11. received'[c] = last + n
  BY <1>1, <1>2, <1>7, <1>9 DEF ByteT
<1>12. CASE /\ written' = [written EXCEPT ![c] = @ \o s]
            /\ accepted' = [accepted EXCEPT ![c] = @ + n]
            /\ UNCHANGED conn
  <2>1. written'[c] = written[c] \o s /\ accepted'[c] = last + n
    BY <1>1, <1>2, <1>12 DEF ByteT, last
  <2>2. written'[c] = Fifo!FirstBytes(first + n)
    BY <1>6, <1>7, <1>8, <2>1, MoreBytes DEF n
  <2>3. first + n \in Nat
    BY <1>6
  <2>4. Len(written'[c]) = first + n
    BY <2>2, <2>3, FirstBytesLen
  <2>5. conn'[c].out_queue = <<>>
    BY <1>4, <1>12
  <2>6. accepted'[c] = Len(written'[c]) /\ Len(written'[c]) <= accepted'[c]
        /\ received'[c] = accepted'[c]
    BY <1>7, <1>11, <2>1, <2>3, <2>4
  <2>7. written'[c] = Fifo!FirstBytes(Len(written'[c]))
    BY <2>2, <2>4
  <2>8. ~(c > num_connected')
    BY <1>9, <1>10
  <2>. QED BY <2>5, <2>6, <2>7, <2>8 DEF FifoOf, Tiles, Fifo!FirstBytes
<1>13. CASE /\ conn' = [conn EXCEPT ![c].wrote_err = TRUE]
            /\ UNCHANGED <<accepted, written>>
  <2>1. conn'[c].wrote_err /\ conn'[c].out_queue = <<>>
    BY <1>1, <1>2, <1>4, <1>13 DEF ConnsT, ConnT
  <2>2. accepted'[c] = last /\ written'[c] = written[c] /\ Len(written'[c]) = first
    BY <1>13 DEF last, first
  <2>3. FifoOf(c)'
    BY <1>6, <1>7, <1>9, <1>10, <2>1, <2>2 DEF FifoOf, Tiles, Fifo!FirstBytes
  <2>. QED BY <2>3
<1>. QED BY <1>9, <1>12, <1>13

\* conn_output outputs nothing: after the end of file, or on an error.
LEMMA FifoNothing ==
    ASSUME ConnIOConstants, Sound, FifoOK, NEW c \in Conns, NEW n \in 1..MaxSegDataSize,
           conn_output_nothing(c, n)
    PROVE  FifoOf(c)'
<1>1. ListT /\ TurnT /\ PipeT /\ ByteT /\ ConnsT /\ TurnOK /\ ListOK
  BY TypeParts DEF Sound
<1>2. FifoOf(c)
  BY DEF FifoOK
<1>3. c \in Range(connections) /\ UNCHANGED <<accepted, written, connections, num_connected>>
  BY DEF conn_output_nothing, Arrives, lists
<1>4. ~(c > num_connected) /\ ~(c > num_connected')
  BY <1>1, <1>3, Listed
<1>5. \/ (conn[c].wrote_eof \/ conn[c].wrote_err) /\ conn' = conn
      \/ conn' = [conn EXCEPT ![c].wrote_err = TRUE]
  BY DEF conn_output_nothing
<1>6. /\ conn'[c].wrote_eof \/ conn'[c].wrote_err
      /\ conn'[c].out_queue = conn[c].out_queue
  <2>1. CASE (conn[c].wrote_eof \/ conn[c].wrote_err) /\ conn' = conn
    BY <2>1
  <2>2. CASE conn' = [conn EXCEPT ![c].wrote_err = TRUE]
    BY <1>1, <2>2 DEF ConnsT, ConnT
  <2>. QED BY <1>5, <2>1, <2>2
<1>. QED BY <1>2, <1>3, <1>4, <1>6 DEF FifoOf, Tiles, Fifo!FirstBytes

\* A connection that is new, or freed.
LEMMA FifoListed ==
    ASSUME ConnIOConstants, Sound, FifoOK, NEW d \in Conns,
           ctcp_timer \/ \E c \in Conns : tcp_new_connection(c)
    PROVE  FifoOf(d)'
<1>1. ListT /\ TurnT /\ PipeT /\ ByteT /\ ConnsT /\ TurnOK /\ ListOK
  BY TypeParts DEF Sound
<1>2. FifoOf(d)
  BY DEF FifoOK
<1>3. UNCHANGED <<accepted, written, received>>
  BY DEF ctcp_timer, tcp_new_connection, bytes
<1>4. CASE ctcp_timer
  <2>1. UNCHANGED num_connected
    BY <1>4 DEF ctcp_timer
  <2>2. CASE UNCHANGED <<conn, connections>>
    BY <1>2, <1>3, <2>1, <2>2, FifoKept
  <2>3. ASSUME NEW c \in Conns, conn' = [conn EXCEPT ![c].out_queue = <<>>],
               \A e \in Range(connections') : e \in Range(connections) /\ e # c
        PROVE  FifoOf(d)'
    <3>1. CASE d # c
      <4>1. conn'[d] = conn[d]
        BY <1>1, <2>3, <3>1 DEF ConnsT
      <4>. QED BY <1>2, <1>3, <2>1, <2>3, <4>1, FifoKept
    <3>2. CASE d = c
      <4>1. conn'[d].out_queue = <<>> /\ d \notin Range(connections')
        BY <1>1, <2>3, <3>2 DEF ConnsT, ConnT
      <4>. QED BY <1>2, <1>3, <2>1, <4>1 DEF FifoOf, Tiles, Fifo!FirstBytes
    <3>. QED BY <3>1, <3>2
  <2>. QED BY <1>1, <1>4, <2>2, <2>3, Frees
<1>5. ASSUME NEW c \in Conns, tcp_new_connection(c) PROVE FifoOf(d)'
  <2>1. /\ c = num_connected + 1 /\ num_connected' = c
        /\ connections' = <<c>> \o connections /\ UNCHANGED conn
    BY <1>5 DEF tcp_new_connection
  <2>2. connections \in Seq(Conns) /\ num_connected \in Nat /\ c \in Nat /\ d \in Nat
    BY <1>1, ConnsAre DEF ListT
  <2>3. CASE d # c
    <3>1. d \in Range(connections') => d \in Range(connections)
      <4>1. /\ Len(connections) \in Nat /\ DOMAIN connections = 1..Len(connections)
            /\ DOMAIN connections' = 1..(Len(connections) + 1)
            /\ connections'[1] = c
            /\ \A i \in 2..(Len(connections) + 1) : connections'[i] = connections[i - 1]
        BY <2>1, <2>2
      <4>2. ASSUME NEW i \in DOMAIN connections', connections'[i] = d
            PROVE  i - 1 \in DOMAIN connections /\ connections[i - 1] = d
        BY <2>3, <4>1, <4>2
      <4>. QED BY <4>2 DEF Range
    <3>2. d > num_connected' => d > num_connected
      BY <2>1, <2>2
    <3>. QED BY <1>2, <1>3, <2>1, <3>1, <3>2, FifoKept
  <2>4. CASE d = c
    <3>1. d > num_connected /\ ~(d > num_connected')
      BY <2>1, <2>2, <2>4
    <3>2. accepted[d] = 0 /\ received[d] = 0 /\ written[d] = <<>>
      BY <1>2, <3>1 DEF FifoOf
    <3>3. Len(written[d]) = 0
      BY <3>2
    <3>. QED BY <1>2, <1>3, <2>1, <3>1, <3>2, <3>3 DEF FifoOf, Tiles, Fifo!FirstBytes
  <2>. QED BY <2>3, <2>4
<1>. QED BY <1>4, <1>5

\* What a connection accepted is what was written and what is queued, in order.
LEMMA FifoOKStep ==
    ASSUME ConnIOConstants, Sound, ChunksOK, BlockedOK, FifoOK, [Next]_vars
    PROVE  FifoOK'
<1>1. ListT /\ TurnT /\ PipeT /\ ByteT /\ ConnsT /\ TurnOK /\ ListOK
  BY TypeParts DEF Sound
<1>2. SUFFICES ASSUME NEW d \in Conns PROVE FifoOf(d)'
  BY DEF FifoOK
<1>3. FifoOf(d)
  BY DEF FifoOK
<1>4. SUFFICES ASSUME ~ctcp_timer, ~\E c \in Conns : tcp_new_connection(c)
               PROVE  FifoOf(d)'
  BY FifoListed
<1>5. UNCHANGED <<connections, num_connected>>
  BY <1>4, ListFrame DEF lists
<1>6. ASSUME UNCHANGED <<accepted[d], written[d], received[d]>>, conn'[d] = conn[d]
      PROVE  FifoOf(d)'
  BY <1>3, <1>5, <1>6, FifoKept
<1>7. ASSUME NEW c \in Conns, DrainWrites(c) PROVE FifoOf(d)'
  <2>1. CASE d = c
    BY <1>7, <2>1, FifoDrain
  <2>2. CASE d # c
    <3>1. UNCHANGED <<accepted, received>>
      BY <1>7 DEF DrainWrites
    <3> DEFINE queue == conn[c].out_queue
    <3>2. PICK w \in 1..Len(Head(queue)) :
            /\ written' = [written EXCEPT ![c] = @ \o SubSeq(Head(queue), 1, w)]
            /\ conn' = [conn EXCEPT ![c].out_queue = Rest(queue, w)]
      BY <1>1, <1>7, Drains
    <3>. HIDE DEF queue
    <3>3. written'[d] = written[d]
      BY <1>1, <2>2, <3>2 DEF ByteT
    <3>4. conn'[d] = conn[d]
      BY <1>1, <2>2, <3>2 DEF ConnsT
    <3>. QED BY <1>6, <3>1, <3>3, <3>4
  <2>. QED BY <2>1, <2>2
<1>8. ASSUME NEW c \in Conns, NEW n \in 1..MaxSegDataSize, conn_output(c, n)
      PROVE  FifoOf(d)'
  <2>1. CASE d = c
    BY <1>8, <2>1, FifoOutput
  <2>2. CASE d # c
    <3>1. PICK w \in 0..n : OutputIs(c, n, w)
      BY <1>1, <1>8, Outputs
    <3>2. /\ accepted'[d] = accepted[d] /\ received'[d] = received[d]
          /\ written'[d] = written[d]
      BY <1>1, <2>2, <3>1 DEF ByteT, OutputIs
    <3>3. conn'[d] = conn[d]
      BY <1>1, <2>2, <3>1 DEF ConnsT, OutputIs
    <3>. QED BY <1>6, <3>2, <3>3
  <2>. QED BY <2>1, <2>2
<1>9. ASSUME NEW c \in Conns, NEW n \in 1..MaxSegDataSize, conn_output_nothing(c, n)
      PROVE  FifoOf(d)'
  <2>1. CASE d = c
    BY <1>9, <2>1, FifoNothing
  <2>2. CASE d # c
    <3>1. /\ UNCHANGED <<accepted, written>> /\ received' = [received EXCEPT ![c] = @ + n]
          /\ conn' = conn \/ conn' = [conn EXCEPT ![c].wrote_err = TRUE]
      BY <1>9 DEF conn_output_nothing, Acknowledged
    <3>2. received'[d] = received[d]
      BY <1>1, <2>2, <3>1 DEF ByteT
    <3>3. conn'[d] = conn[d]
      BY <1>1, <2>2, <3>1 DEF ConnsT
    <3>. QED BY <1>6, <3>1, <3>2, <3>3
  <2>. QED BY <2>1, <2>2
<1>10. CASE WriteReturns
  <2> DEFINE b == blocked.conn
             n == Len(blocked.data)
  <2>1. CASE d = b
    BY <1>10, <2>1, FifoProgram
  <2>2. CASE d # b
    <3>1. /\ received' = [received EXCEPT ![b] = @ + n]
          /\ \/ /\ written' = [written EXCEPT ![b] = @ \o blocked.data]
                /\ accepted' = [accepted EXCEPT ![b] = @ + n]
             \/ UNCHANGED <<accepted, written>>
          /\ conn' = conn \/ conn' = [conn EXCEPT ![b].wrote_err = TRUE]
      BY <1>10 DEF WriteReturns, Acknowledged, Accepted
    <3>. HIDE DEF b, n
    <3>2. /\ accepted'[d] = accepted[d] /\ received'[d] = received[d]
          /\ written'[d] = written[d]
      BY <1>1, <2>2, <3>1 DEF ByteT
    <3>3. conn'[d] = conn[d]
      BY <1>1, <2>2, <3>1 DEF ConnsT
    <3>. QED BY <1>6, <3>2, <3>3
  <2>. QED BY <2>1, <2>2
<1>11. CASE UNCHANGED bytes /\ SameQueues
  <2>1. UNCHANGED <<accepted[d], written[d], received[d]>>
    BY <1>11 DEF bytes
  <2>. QED BY <1>3, <1>5, <1>11, <2>1, FifoKept DEF SameQueues, Kept
<1>12. ASSUME NEW c \in Conns,
              \/ DrainWrites(c)
              \/ \E n \in 1..MaxSegDataSize : conn_output_nothing(c, n) \/ conn_output(c, n)
       PROVE  FifoOf(d)'
  BY <1>7, <1>8, <1>9, <1>12
<1>13. UNCHANGED bytes =>
         \/ SameQueues
         \/ \E c \in Conns :
              DrainWrites(c) \/ \E n \in 1..MaxSegDataSize : conn_output(c, n)
  BY <1>1, <1>4, QueueFrame
<1>14. ReaderReads \/ ReaderLeaves => UNCHANGED bytes
  BY DEF ReaderReads, ReaderLeaves
<1>15. UNCHANGED <<bytes, stdout>> => UNCHANGED bytes
  BY DEF bytes
<1>. QED BY <1>10, <1>11, <1>12, <1>13, <1>14, <1>15, ByteFrame

\* Each part holds at first.
LEMMA InvInit ==
    ASSUME ConnIOConstants, Init
    PROVE  /\ ChunksOK /\ BlockedOK /\ OutputtedOK /\ EarlyEndNeedsDrain /\ EventOK
           /\ ProgramReadsOK /\ RoomOK /\ FifoOK
<1>1. /\ Range(jobs) = {} /\ Range(connections) = {} /\ blocked = None /\ ~outputted
      /\ \A c \in Conns : /\ conn[c].out_queue = <<>>
                          /\ ~conn[c].wrote_eof /\ ~conn[c].read_eof
                          /\ accepted[c] = 0 /\ received[c] = 0 /\ written[c] = <<>>
  BY DEF Init, Range
<1>2. ChunksOK /\ BlockedOK /\ OutputtedOK /\ EarlyEndNeedsDrain
  BY <1>1 DEF ChunksOK, BlockedOK, OutputtedOK, EarlyEndNeedsDrain
<1>3. ~\E job : Left(job)
  BY <1>1 DEF Left
<1>4. EventOK /\ ProgramReadsOK /\ RoomOK
  BY <1>1, <1>3 DEF EventOK, Waits, ProgramReadsOK, RoomOK
<1>5. ASSUME NEW c \in Conns PROVE FifoOf(c)
  <2>1. Tiles(<<>>, 0, 0) /\ <<>> = Fifo!FirstBytes(0) /\ Len(<<>>) = 0
    BY DEF Tiles, Fifo!FirstBytes
  <2>. QED BY <1>1, <2>1 DEF FifoOf
<1>. QED BY <1>2, <1>4, <1>5 DEF FifoOK

-----------------------------------------------------------------------------
\* The end of file is recorded for nothing only after conn_drain wrote: the
\* FIN's handler records it, and the rest of conn_drain in the call that wrote.
THEOREM EarlyEndOnlyAfterDrain == Spec => []EarlyEndNeedsDrain
<1> DEFINE IInv == Sound /\ ChunksOK /\ BlockedOK /\ OutputtedOK /\ EarlyEndNeedsDrain
<1>1. Init => IInv
  BY SoundInit, InvInit, ConnIOConstants
<1>2. IInv /\ [Next]_vars => IInv'
  BY SoundStep, ChunksOKStep, BlockedOKStep, OutputtedOKStep, EarlyEndStep,
     ConnIOConstants
<1>3. IInv => EarlyEndNeedsDrain
  OBVIOUS
<1>. QED BY <1>1, <1>2, <1>3, PTL DEF Spec

\* Output waits for an event nobody asked for only after conn_drain wrote:
\* until then whoever waits will be drained, or POLLOUT is asked for.
THEOREM LostEventOnlyAfterDrain == Spec => []LostEventNeedsDrain
<1> DEFINE IInv == Sound /\ ChunksOK /\ BlockedOK /\ EventOK
<1>1. Init => IInv
  BY SoundInit, InvInit, ConnIOConstants
<1>2. IInv /\ [Next]_vars => IInv'
  BY SoundStep, ChunksOKStep, BlockedOKStep, EventOKStep, ConnIOConstants
<1>3. IInv => LostEventNeedsDrain
  BY LostEventHolds
<1>. QED BY <1>1, <1>2, <1>3, PTL DEF Spec

\* The pipes of a program are closed only when its connection gave up: do_loop
\* reads a program only while it has output, so its end is never read.
THEOREM PipesClosedByGivingUp == Spec => []PipesCloseByGivingUp
<1> DEFINE IInv == Sound /\ ProgramReadsOK
<1>1. Init => IInv
  BY SoundInit, InvInit, ConnIOConstants
<1>2. IInv /\ [Next]_vars => IInv'
  BY SoundStep, ProgramReadsOKStep, ConnIOConstants
<1>3. IInv => PipesCloseByGivingUp
  BY PipesHolds
<1>. QED BY <1>1, <1>2, <1>3, PTL DEF Spec

\* Server and program wait for each other only after ctcp_read refused to read, or
\* when the program wrote more than it read: for a program that only answers, a
\* read in each turn makes room for the write of the turn.
THEOREM DeadlockNeedsMoreThanAFilter == Spec => []DeadlockNeedsRefusalOrTalk
<1> DEFINE IInv == Sound /\ ChunksOK /\ BlockedOK /\ RoomOK
<1>1. Init => IInv
  BY SoundInit, InvInit, ConnIOConstants
<1>2. IInv /\ [Next]_vars => IInv'
  BY SoundStep, ChunksOKStep, BlockedOKStep, RoomOKStep, ConnIOConstants
<1>3. IInv => DeadlockNeedsRefusalOrTalk
  BY DeadlockHolds, ConnIOConstants
<1>. QED BY <1>1, <1>2, <1>3, PTL DEF Spec

-----------------------------------------------------------------------------
\* ConnIO implements OutputFifo

Ended == [c \in Conns |-> conn[c].wrote_eof]

\* An end of file is recorded by a step that accepts and writes nothing.
LEMMA EndsFrame ==
    ASSUME ConnIOConstants, Sound, [Next]_vars
    PROVE  \/ UNCHANGED Ended
           \/ \E c \in Conns : Ended' = [Ended EXCEPT ![c] = TRUE] /\ UNCHANGED bytes
<1>1. ListT /\ TurnT /\ PipeT /\ ByteT /\ ConnsT /\ TurnOK /\ ListOK
  BY TypeParts DEF Sound
<1> DEFINE Same == \A d \in Conns : conn'[d].wrote_eof = conn[d].wrote_eof
<1>2. Same => UNCHANGED Ended
  BY DEF Ended
<1>3. ASSUME NEW c \in Conns, NEW q, conn' = [conn EXCEPT ![c].out_queue = q] PROVE Same
  BY <1>1, <1>3 DEF ConnsT, ConnT
<1>4. ASSUME NEW c \in Conns, conn' = conn \/ conn' = [conn EXCEPT ![c].wrote_err = TRUE]
      PROVE  Same
  <2>1. CASE conn' = conn
    BY <2>1
  <2>2. CASE conn' = [conn EXCEPT ![c].wrote_err = TRUE]
    BY <1>1, <2>2 DEF ConnsT, ConnT
  <2>. QED BY <1>4, <2>1, <2>2
<1>5. ASSUME NEW c \in Conns, conn'[c].wrote_eof,
             \A d \in Conns : d # c => conn'[d].wrote_eof = conn[d].wrote_eof
      PROVE  Ended' = [Ended EXCEPT ![c] = TRUE]
  <2>1. conn'[c].wrote_eof = TRUE
    BY <1>5
  <2>. QED BY <1>5, <2>1 DEF Ended
<1>6. ASSUME NEW c \in Conns, DrainWrites(c) PROVE Same
  BY <1>1, <1>3, <1>6, Drains
<1>7. ASSUME NEW c \in Conns, DrainStops(c) PROVE Same
  BY <1>4, <1>7 DEF DrainStops
<1>8. ASSUME NEW c \in Conns, Drained(c)
      PROVE  Same \/ (Ended' = [Ended EXCEPT ![c] = TRUE] /\ UNCHANGED bytes)
  <2> DEFINE a == conn[c].wrote_err \/ (conn[c].wrote_eof /\ conn[c].out_queue = <<>>)
             b == conn[c].wrote_eof \/ outputted
  <2>1. conn' = [conn EXCEPT ![c].wrote_err = a, ![c].wrote_eof = b] /\ UNCHANGED bytes
    BY <1>8 DEF Drained
  <2>2. ~b => conn[c].wrote_eof = b
    BY <1>1, ConnFields
  <2>3. b => b = TRUE
    OBVIOUS
  <2>. HIDE DEF a, b
  <2>4. conn'[c].wrote_eof = b
    BY <1>1, <2>1 DEF ConnsT, ConnT
  <2>5. \A d \in Conns : d # c => conn'[d].wrote_eof = conn[d].wrote_eof
    BY <1>1, <2>1 DEF ConnsT, ConnT
  <2>6. CASE b
    BY <1>5, <2>1, <2>4, <2>5, <2>6
  <2>7. CASE ~b
    BY <2>2, <2>4, <2>5, <2>7
  <2>. QED BY <2>6, <2>7
<1>9. ASSUME NEW c \in Conns, conn_input(c) PROVE Same
  <2>1. PICK eof \in BOOLEAN : conn' = [conn EXCEPT ![c].read_eof = eof, ![c].sent = TRUE]
    BY <1>1, <1>9, Reads
  <2>. QED BY <1>1, <2>1 DEF ConnsT, ConnT
<1>10. ASSUME NEW c \in Conns, conn_output_eof(c)
       PROVE  Ended' = [Ended EXCEPT ![c] = TRUE] /\ UNCHANGED bytes
  <2>1. conn' = [conn EXCEPT ![c].fin = TRUE, ![c].wrote_eof = TRUE] /\ UNCHANGED bytes
    BY <1>10 DEF conn_output_eof
  <2>2. conn'[c].wrote_eof
    BY <1>1, <2>1 DEF ConnsT, ConnT
  <2>3. \A d \in Conns : d # c => conn'[d].wrote_eof = conn[d].wrote_eof
    BY <1>1, <2>1 DEF ConnsT, ConnT
  <2>. QED BY <1>5, <2>1, <2>2, <2>3
<1>11. ASSUME NEW c \in Conns, NEW n \in 1..MaxSegDataSize, conn_output_nothing(c, n)
       PROVE  Same
  BY <1>4, <1>11 DEF conn_output_nothing
<1>12. ASSUME NEW c \in Conns, NEW n \in 1..MaxSegDataSize, conn_output(c, n) PROVE Same
  <2>1. PICK w \in 0..n : OutputIs(c, n, w)
    BY <1>1, <1>12, Outputs
  <2>. QED BY <1>3, <1>4, <2>1 DEF OutputIs
<1>13. CASE WriteReturns
  <2>1. blocked.conn \in Conns
    BY <1>1, <1>13 DEF WriteReturns, PipeT
  <2>2. conn' = conn \/ conn' = [conn EXCEPT ![blocked.conn].wrote_err = TRUE]
    BY <1>13 DEF WriteReturns
  <2>. QED BY <1>2, <1>4, <2>1, <2>2
<1>14. ctcp_timer => Same
  BY <1>1, <1>3, Frees
<1>15. UNCHANGED conn => Same
  OBVIOUS
<1>. HIDE DEF Same
<1>. QED BY <1>2, <1>6, <1>7, <1>8, <1>9, <1>10, <1>11, <1>12, <1>13, <1>14, <1>15,
            ConnFrame

\* For one connection bytes are accepted, or some of what is queued is written.
Accepts(c, a, s) ==
    /\ ~conn[c].wrote_eof
    /\ accepted' = [accepted EXCEPT ![c] = a] /\ written' = [written EXCEPT ![c] = s]
    /\ a > accepted[c] /\ a - Len(written[c]) <= MaxBufSpace
    /\ Len(s) >= Len(written[c])

\* Such a step is the Accept of the abstract queue.
LEMMA AcceptStep ==
    ASSUME Sound, FifoOK', NEW c \in Conns, NEW a \in Nat, NEW s \in Seq(Nat),
           Accepts(c, a, s), UNCHANGED Ended
    PROVE  Fifo!Accept(c)
<1>1. accepted \in [Conns -> Nat] /\ written \in [Conns -> Seq(Nat)]
  BY TypeParts DEF Sound, ByteT
<1>2. accepted'[c] = a /\ written'[c] = s
  BY <1>1 DEF Accepts
<1>3. s = Fifo!FirstBytes(Len(s)) /\ Len(s) <= a
  BY <1>2 DEF FifoOK, FifoOf
<1>4. Len(written[c]) \in Nat /\ Len(s) \in Nat
  BY <1>1
<1>5. ~[d \in Conns |-> conn[d].wrote_eof][c]
  BY DEF Accepts
<1>6. Len(s) \in Len(written[c])..a
  BY <1>3, <1>4 DEF Accepts
<1>. QED BY <1>2, <1>3, <1>5, <1>6 DEF Fifo!Accept, Accepts, Ended

\* conn_output takes what there is room for.
LEMMA OutputAccepts ==
    ASSUME ConnIOConstants, Sound, FifoOK, FifoOK', NEW c \in Conns,
           NEW n \in 1..MaxSegDataSize, conn_output(c, n), UNCHANGED Ended
    PROVE  Fifo!Accept(c)
<1>1. ListT /\ TurnT /\ PipeT /\ ByteT /\ ConnsT /\ TurnOK /\ ListOK
  BY TypeParts DEF Sound
<1>2. PICK w \in 0..n : OutputIs(c, n, w)
  BY <1>1, Outputs
<1> DEFINE queue == conn[c].out_queue
           data == SubSeq(Data(c, n), 1, w)
           a == accepted[c] + n
           s == written[c] \o data
<1>3. /\ accepted' = [accepted EXCEPT ![c] = a] /\ written' = [written EXCEPT ![c] = s]
      /\ queue \in Seq(Chunk) /\ data \in Seq(Nat)
  BY <1>2 DEF OutputIs
<1>4. /\ accepted[c] \in Nat /\ written[c] \in Seq(Nat) /\ MaxBufSpace \in Nat
      /\ MaxSegDataSize \in Nat
  BY <1>1, ConnsAre DEF ByteT
<1>5. /\ c \in Range(connections) /\ ~conn[c].wrote_eof
      /\ MaxBufSpace - Queued(c) >= n
  BY DEF conn_output, Arrives, conn_bufspace
<1>6. Queued(c) = accepted[c] - Len(written[c])
  <2>1. FifoOf(c)
    BY DEF FifoOK
  <2>2. Len(written[c]) \in Nat
    BY <1>4
  <2>3. CASE queue = <<>>
    <3>1. Queued(c) = 0 /\ accepted[c] = Len(written[c])
      BY <1>5, <2>1, <2>3, NothingQueued DEF FifoOf
    <3>. QED BY <1>4, <3>1
  <2>4. CASE queue # <<>>
    <3>1. Tiles(queue, Len(written[c]), accepted[c])
      BY <2>1 DEF FifoOf
    <3>. HIDE DEF queue
    <3>2. ChunkBytes(queue)[Len(queue)] = accepted[c] - Len(written[c])
      BY <1>3, <1>4, <2>2, <2>4, <3>1, TilesBytes
    <3>. QED BY <3>2 DEF Queued, queue
  <2>. QED BY <2>3, <2>4
<1>. HIDE DEF data
<1>7. s \in Seq(Nat) /\ Len(s) >= Len(written[c]) /\ Len(written[c]) \in Nat
  <2>1. s \in Seq(Nat) /\ Len(s) = Len(written[c]) + Len(data)
        /\ Len(written[c]) \in Nat /\ Len(data) \in Nat
    BY <1>3, <1>4
  <2>. QED BY <2>1
<1>8. a \in Nat /\ a > accepted[c] /\ a - Len(written[c]) <= MaxBufSpace
  <2>1. a = accepted[c] + n /\ n \in Nat \ {0} /\ accepted[c] \in Nat
    BY <1>3, <1>4, <1>5
  <2>2. MaxBufSpace - (accepted[c] - Len(written[c])) >= n /\ Len(written[c]) \in Nat
    BY <1>5, <1>6, <1>7
  <2>3. MaxBufSpace \in Nat
    BY ConnsAre
  <2>. QED BY <2>1, <2>2, <2>3, StillWithin
<1>9. Accepts(c, a, s)
  BY <1>3, <1>5, <1>7, <1>8 DEF Accepts
<1>. HIDE DEF a, s
<1>. QED BY <1>7, <1>8, <1>9, AcceptStep

\* A write() to a program takes a segment that there was room for.
LEMMA ProgramAccepts ==
    ASSUME ConnIOConstants, Sound, ChunksOK, BlockedOK, FifoOK, FifoOK',
           NEW c \in Conns, c = blocked.conn,
           NEW n, n = Len(blocked.data),
           accepted' = [accepted EXCEPT ![c] = @ + n],
           written' = [written EXCEPT ![c] = @ \o blocked.data],
           UNCHANGED Ended
    PROVE  Fifo!Accept(c)
<1>1. ListT /\ TurnT /\ PipeT /\ ByteT /\ ConnsT /\ TurnOK /\ ListOK
  BY TypeParts DEF Sound
<1>2. blocked # None
  BY ConnsAre DEF None
<1>3. /\ run_program /\ c \in Range(connections) /\ ~conn[c].wrote_eof
      /\ n \in 1..Min({MaxSegDataSize, MaxBufSpace})
  BY <1>2 DEF BlockedOK
<1>4. /\ accepted[c] \in Nat /\ written[c] \in Seq(Nat) /\ MaxBufSpace \in Nat
      /\ MaxSegDataSize \in Nat /\ blocked.data \in Seq(Nat)
  BY <1>1, ConnsAre DEF ByteT, PipeT
<1>5. n \in Nat /\ n > 0 /\ n <= MaxBufSpace
  <2>1. Min({MaxSegDataSize, MaxBufSpace}) \in {MaxSegDataSize, MaxBufSpace}
        /\ Min({MaxSegDataSize, MaxBufSpace}) <= MaxBufSpace
    <3>1. MaxSegDataSize \in Int /\ MaxBufSpace \in Int
      BY <1>4
    <3>. QED BY <3>1, MinIs
  <2>. QED BY <1>3, <1>4, <2>1
<1>6. accepted[c] = Len(written[c])
  <2>1. conn[c].out_queue = <<>>
    BY <1>3 DEF ChunksOK
  <2>2. FifoOf(c)
    BY DEF FifoOK
  <2>. QED BY <1>3, <2>1, <2>2 DEF FifoOf
<1> DEFINE a == accepted[c] + n
           s == written[c] \o blocked.data
<1>7. s \in Seq(Nat) /\ Len(s) >= Len(written[c]) /\ Len(written[c]) \in Nat
  <2>1. s \in Seq(Nat) /\ Len(s) = Len(written[c]) + n /\ Len(written[c]) \in Nat
    BY <1>4
  <2>2. \A x, y \in Nat : x + y >= x
    OBVIOUS
  <2>. HIDE DEF s
  <2>. QED BY <1>5, <2>1, <2>2
<1>8. a \in Nat /\ a > accepted[c] /\ a - Len(written[c]) <= MaxBufSpace
  <2>1. \A x, y, z \in Nat : y > 0 /\ y <= z => x + y \in Nat /\ x + y > x /\ (x + y) - x <= z
    OBVIOUS
  <2>2. n \in Nat
    BY <1>5
  <2>. QED BY <1>4, <1>5, <1>6, <2>1, <2>2
<1>9. Accepts(c, a, s)
  BY <1>3, <1>7, <1>8 DEF Accepts
<1>. HIDE DEF a, s
<1>. QED BY <1>7, <1>8, <1>9, AcceptStep

\* Each step is one of OutputFifo, or changes nothing of it.
LEMMA FifoStep ==
    ASSUME ConnIOConstants, Sound, ChunksOK, BlockedOK, FifoOK, FifoOK', [Next]_vars
    PROVE  [Fifo!Next]_(Fifo!vars)
<1>1. ListT /\ TurnT /\ PipeT /\ ByteT /\ ConnsT /\ TurnOK /\ ListOK
  BY TypeParts DEF Sound
<1>2. CASE UNCHANGED <<accepted, written, Ended>>
  BY <1>2 DEF Fifo!vars, Ended
<1>3. CASE \E c \in Conns : Ended' = [Ended EXCEPT ![c] = TRUE] /\ UNCHANGED bytes
  BY <1>3 DEF Fifo!Next, Fifo!End, Ended, bytes
<1>4. CASE UNCHANGED Ended
  <2>1. CASE UNCHANGED <<bytes, stdout>> \/ ReaderReads \/ ReaderLeaves
    BY <1>2, <1>4, <2>1 DEF bytes, ReaderReads, ReaderLeaves
  <2>2. ASSUME NEW c \in Conns, NEW n \in 1..MaxSegDataSize, conn_output_nothing(c, n)
        PROVE  [Fifo!Next]_(Fifo!vars)
    BY <1>2, <1>4, <2>2 DEF conn_output_nothing
  <2>3. ASSUME NEW c \in Conns, NEW n \in 1..MaxSegDataSize, conn_output(c, n)
        PROVE  [Fifo!Next]_(Fifo!vars)
    BY <1>4, <2>3, OutputAccepts DEF Fifo!Next
  <2>4. CASE WriteReturns
    <3>1. CASE UNCHANGED <<accepted, written>>
      BY <1>2, <1>4, <3>1
    <3> DEFINE c == blocked.conn
               n == Len(blocked.data)
    <3>2. CASE /\ accepted' = [accepted EXCEPT ![c] = @ + n]
               /\ written' = [written EXCEPT ![c] = @ \o blocked.data]
      <4>1. c \in Conns
        BY <1>1, <2>4 DEF WriteReturns, PipeT
      <4>2. PICK d \in Conns : d = c
        BY <4>1
      <4>3. PICK m \in {n} : m = n
        OBVIOUS
      <4>4. Fifo!Accept(d)
        BY <1>4, <3>2, <4>2, <4>3, ProgramAccepts
      <4>. QED BY <4>4 DEF Fifo!Next
    <3>. QED BY <2>4, <3>1, <3>2 DEF WriteReturns, Accepted
  <2>5. ASSUME NEW c \in Conns, DrainWrites(c) PROVE [Fifo!Next]_(Fifo!vars)
    <3> DEFINE queue == conn[c].out_queue
    <3>1. PICK w \in 1..Len(Head(queue)) :
            /\ queue \in Seq(Chunk) /\ queue # <<>>
            /\ written' = [written EXCEPT ![c] = @ \o SubSeq(Head(queue), 1, w)]
            /\ SubSeq(Head(queue), 1, w) \in Seq(Nat)
      BY <1>1, <2>5, Drains
    <3> DEFINE data == SubSeq(Head(queue), 1, w)
               s == written[c] \o data
    <3>2. Len(data) = w /\ w > 0 /\ w \in Nat
      <4>1. Head(queue) \in Seq(Nat)
        <5>1. Head(queue) \in Chunk
          BY <3>1
        <5>. QED BY <5>1 DEF Chunk
      <4>. HIDE DEF queue
      <4>. QED BY <4>1
    <3>3. /\ written' = [written EXCEPT ![c] = s] /\ data \in Seq(Nat)
          /\ UNCHANGED accepted /\ written[c] \in Seq(Nat) /\ accepted[c] \in Nat
      BY <1>1, <2>5, <3>1 DEF ByteT, DrainWrites
    <3>. HIDE DEF data
    <3>4. s \in Seq(Nat) /\ Len(s) \in Nat /\ Len(written[c]) \in Nat
          /\ Len(s) = Len(written[c]) + w
      <4>1. \A x, y \in Seq(Nat) : /\ x \o y \in Seq(Nat) /\ Len(x \o y) = Len(x) + Len(y)
                                   /\ Len(x) \in Nat /\ Len(x \o y) \in Nat
        OBVIOUS
      <4>. QED BY <3>2, <3>3, <4>1
    <3>. HIDE DEF s
    <3>5. written'[c] = s /\ accepted'[c] = accepted[c]
      BY <1>1, <3>3 DEF ByteT
    <3>6. s = Fifo!FirstBytes(Len(s)) /\ Len(s) <= accepted[c]
      BY <3>5 DEF FifoOK, FifoOf
    <3>7. Len(s) \in (Len(written[c]) + 1)..accepted[c]
      BY <3>2, <3>3, <3>4, <3>6
    <3>8. Fifo!Write(c)
      BY <1>4, <3>3, <3>5, <3>6, <3>7 DEF Fifo!Write, Ended
    <3>. QED BY <3>8 DEF Fifo!Next
  <2>. QED BY <2>1, <2>2, <2>3, <2>4, <2>5, ByteFrame
<1>. QED BY <1>3, <1>4, EndsFrame

\* What a connection outputs is a queue of bytes: nothing is written twice, out
\* of order, or beyond what was accepted, and no more is kept than MAX_BUF_SPACE.
THEOREM OutputIsFifo == Spec => ImplementsFifo
<1> DEFINE IInv == Sound /\ ChunksOK /\ BlockedOK /\ FifoOK
<1>1. Init => IInv
  BY SoundInit, InvInit, ConnIOConstants
<1>2. IInv /\ [Next]_vars => IInv'
  BY SoundStep, ChunksOKStep, BlockedOKStep, FifoOKStep, ConnIOConstants
<1>3. Init => Fifo!Init
  BY DEF Init, Fifo!Init
<1>4. IInv /\ IInv' /\ [Next]_vars => [Fifo!Next]_(Fifo!vars)
  BY FifoStep, ConnIOConstants
<1>. QED BY <1>1, <1>2, <1>3, <1>4, PTL DEF Spec, ImplementsFifo, Fifo!Spec
=============================================================================
