-------------------------- MODULE CtcpServerProof --------------------------
(***************************************************************************)
(* For any clients, windows, inputs and limits, and whatever undefined     *)
(* behaviour does: every connection that do_loop serves still has its      *)
(* state, whoever reads input finds the log open, and nothing but the ACK  *)
(* of a handshake is taken for one.                                        *)
(*                                                                         *)
(* The lists agree because every state that is freed is the newest, and    *)
(* freeing the newest connection empties the library's list. So SInv says  *)
(* who closed the log: only the newest connection's FIN can have, and who  *)
(* has sent a FIN reads no more.                                           *)
(*                                                                         *)
(* A segment that looks like the handshake's ACK is that ACK because the   *)
(* links are orderly: HInv follows a client's link from its SYN, which the *)
(* server knows nothing of before it takes it, to the ACK, which stays at  *)
(* the head of the link while the server waits for it.                     *)
(***************************************************************************)
EXTENDS CtcpServer, CtcpHandlers

-----------------------------------------------------------------------------
\* Sequences

\* A prefix, element by element.
LEMMA PrefixIndex ==
    ASSUME NEW S, NEW a \in Seq(S), NEW b \in Seq(S)
    PROVE  IsPrefix(a, b) <=> /\ Len(a) <= Len(b)
                              /\ \A i \in 1..Len(a) : a[i] = b[i]
<1>1. SubSeq(a, 1, Len(a)) = a
  BY SubSeqFull
<1>2. ASSUME Len(a) <= Len(b)
      PROVE  /\ SubSeq(b, 1, Len(a)) \in Seq(S)
             /\ Len(SubSeq(b, 1, Len(a))) = Len(a)
             /\ \A i \in 1..Len(a) : SubSeq(b, 1, Len(a))[i] = b[i]
  BY <1>2, SubSeqProperties
<1>3. ASSUME Len(a) <= Len(b)
      PROVE  a = SubSeq(b, 1, Len(a)) <=> \A i \in 1..Len(a) : a[i] = b[i]
  BY <1>2, <1>3, SeqEqual
<1>. QED BY <1>1, <1>3 DEF IsPrefix

\* The newest goes to the front of both lists.
LEMMA PrefixCons ==
    ASSUME NEW S, NEW a \in Seq(S), NEW b \in Seq(S), NEW c \in S, IsPrefix(a, b)
    PROVE  /\ <<c>> \o a \in Seq(S) /\ <<c>> \o b \in Seq(S)
           /\ IsPrefix(<<c>> \o a, <<c>> \o b)
           /\ <<c>> \o a # <<>> /\ Head(<<c>> \o a) = c
<1>1. <<c>> \in Seq(S) /\ Len(<<c>>) = 1 /\ <<c>>[1] = c
  OBVIOUS
<1>2. /\ <<c>> \o a \in Seq(S) /\ Len(<<c>> \o a) = 1 + Len(a)
      /\ \A i \in 1..(1 + Len(a)) : (<<c>> \o a)[i] = IF i <= 1 THEN <<c>>[i] ELSE a[i - 1]
  BY <1>1, ConcatProperties
<1>3. /\ <<c>> \o b \in Seq(S) /\ Len(<<c>> \o b) = 1 + Len(b)
      /\ \A i \in 1..(1 + Len(b)) : (<<c>> \o b)[i] = IF i <= 1 THEN <<c>>[i] ELSE b[i - 1]
  BY <1>1, ConcatProperties
<1>4. Len(a) <= Len(b) /\ \A i \in 1..Len(a) : a[i] = b[i]
  BY PrefixIndex
<1>5. IsPrefix(<<c>> \o a, <<c>> \o b)
  <2>1. Len(<<c>> \o a) <= Len(<<c>> \o b)
    BY <1>2, <1>3, <1>4
  <2>2. ASSUME NEW i \in 1..Len(<<c>> \o a)
        PROVE  (<<c>> \o a)[i] = (<<c>> \o b)[i]
    <3>1. i \in 1..(1 + Len(a)) /\ i \in 1..(1 + Len(b))
      BY <1>2, <1>4
    <3>2. CASE i <= 1
      BY <1>2, <1>3, <3>1, <3>2
    <3>3. CASE i > 1
      <4>1. i - 1 \in 1..Len(a)
        BY <3>1, <3>3
      <4>2. (<<c>> \o a)[i] = a[i - 1]
        BY <1>2, <3>1, <3>3
      <4>3. (<<c>> \o b)[i] = b[i - 1]
        BY <1>3, <3>1, <3>3
      <4>4. a[i - 1] = b[i - 1]
        BY <1>4, <4>1
      <4>. QED BY <4>2, <4>3, <4>4
    <3>4. i <= 1 \/ i > 1
      BY <3>1
    <3>. QED BY <3>2, <3>3, <3>4
  <2>. QED BY <1>2, <1>3, <2>1, <2>2, PrefixIndex
<1>6. <<c>> \o a # <<>> /\ Head(<<c>> \o a) = c
  BY <1>1, <1>2, EmptySeq
<1>. QED BY <1>2, <1>3, <1>5, <1>6

\* Who goes to the front of a list is the only one to join it.
LEMMA RangeCons ==
    ASSUME NEW S, NEW a \in Seq(S), NEW c \in S
    PROVE  Range(<<c>> \o a) = Range(a) \cup {c}
<1> DEFINE one == <<c>>
<1>1. one \in Seq(S) /\ DOMAIN one = {1} /\ one[1] = c
  OBVIOUS
<1>. HIDE DEF one
<1>2. Range(one) = {c}
  BY <1>1 DEF Range
<1>3. Range(one \o a) = Range(one) \cup Range(a)
  BY <1>1, RangeConcatenation
<1>. QED BY <1>2, <1>3 DEF one

\* A prefix has the same front.
LEMMA PrefixHead ==
    ASSUME NEW S, NEW a \in Seq(S), NEW b \in Seq(S), IsPrefix(a, b), a # <<>>
    PROVE  b # <<>> /\ Head(a) = Head(b)
<1>1. Len(a) \in Nat \ {0} /\ Len(a) <= Len(b) /\ a[1] = b[1]
  BY PrefixIndex, EmptySeq
<1>. QED BY <1>1, EmptySeq

\* An emptied list is a prefix of any.
LEMMA EmptyPrefix ==
    ASSUME NEW S, NEW b \in Seq(S)
    PROVE  <<>> \in Seq(S) /\ IsPrefix(<<>>, b)
<1> DEFINE e == <<>>
<1>1. e \in Seq(S) /\ Len(e) = 0 /\ Len(b) \in Nat
  OBVIOUS
<1>. HIDE DEF e
<1>2. Len(e) <= Len(b) /\ \A i \in 1..Len(e) : e[i] = b[i]
  BY <1>1
<1>3. IsPrefix(e, b)
  BY <1>1, <1>2, PrefixIndex
<1>. QED BY <1>1, <1>3 DEF e

\* Taking an element out leaves a sequence.
LEMMA RemoveAtType ==
    ASSUME NEW S, NEW q \in Seq(S), NEW i \in 1..Len(q)
    PROVE  RemoveAt(q, i) \in Seq(S)
<1>1. /\ Len(q) \in Nat /\ i - 1 \in Int /\ i + 1 \in Int
      /\ \A k \in 1..(i - 1) : q[k] \in S
      /\ \A k \in (i + 1)..Len(q) : q[k] \in S
  OBVIOUS
<1>2. SubSeq(q, 1, i - 1) \in Seq(S) /\ SubSeq(q, i + 1, Len(q)) \in Seq(S)
  BY <1>1, SubSeqProperties
<1>. QED BY <1>2 DEF RemoveAt

-----------------------------------------------------------------------------
\* The invariant

\* The log is closed by the FIN of a connection that may still be served.
ClosedByNewest ==
    connections # <<>> /\ ~log_open => server[Head(connections)].FIN_sent

\* Who has sent a FIN has read the end of its input.
FinAfterInput == \A c \in Clients : server[c].FIN_sent => server[c].read_finish

SInv == TypeOK /\ ServedHaveState /\ FinAfterInput /\ ClosedByNewest

\* What is on its way may be handed to ctcp_receive, and names a window.
LEMMA OnItsWay ==
    /\ Syn \in AnySegment /\ SynAck \in AnySegment /\ HandshakeAck \in Segment
    /\ Segment \subseteq AnySegment
<1>1. RecvWindow \in Nat /\ <<>> \in Seq(Nat)
  BY ServerConstants
<1>2. Syn \in AnySegment
  BY <1>1 DEF Syn, AnySegment
<1>3. SynAck \in AnySegment
  BY <1>1 DEF Syn, SynAck, AnySegment, Flags
<1>4. HandshakeAck \in Segment
  BY <1>1 DEF HandshakeAck, Segment, Flags
<1>5. Segment \subseteq AnySegment
  BY DEF Segment, AnySegment
<1>. QED BY <1>2, <1>3, <1>4, <1>5

\* A new connection has not sent its FIN.
LEMMA FirstHost ==
    ASSUME NEW w \in Nat
    PROVE  /\ ctcp_init(RecvWindow, w) \in HostState
           /\ ~ctcp_init(RecvWindow, w).FIN_sent
<1>1. <<>> \in Seq(Segment) /\ <<>> \in Seq(Nat) /\ RecvWindow \in Nat
  BY ServerConstants
<1>. QED BY <1>1 DEF ctcp_init, HostState, Statuses

\* What conn_send lets through is made of what was sent.
LEMMA PassedType ==
    ASSUME NEW wire \in Seq(Segment), NEW dropped \in Nat, Drop(wire, dropped),
           drops \in 0..MaxDrops
    PROVE  Passed(wire, dropped) \in Seq(Segment) /\ drops' \in 0..MaxDrops
<1>1. Passed(wire, dropped) \in Seq(Segment)
  <2>1. CASE dropped \in DOMAIN wire
    BY <2>1, RemoveAtType DEF Passed
  <2>2. CASE dropped \notin DOMAIN wire
    BY <2>2 DEF Passed
  <2>. QED BY <2>1, <2>2
<1>2. drops' \in 0..MaxDrops
  BY ServerConstants DEF Drop
<1>. QED BY <1>1, <1>2

\* The fields of a host between handlers.
LEMMA Cleaned ==
    ASSUME NEW s \in HostState
    PROVE  LET clean == [s EXCEPT !.wire = <<>>]
           IN  /\ clean \in HostState /\ clean.FIN_sent = s.FIN_sent
               /\ clean.read_finish = s.read_finish
<1>1. <<>> \in Seq(Segment)
  OBVIOUS
<1>. QED BY <1>1 DEF HostState

-----------------------------------------------------------------------------
\* The handlers of a client

\* A client's handler concerns neither the server's connections nor the lists.
LEMMA ClientHandledKeeps ==
    ASSUME SInv, NEW c \in Clients, NEW s \in HostState,
           NEW rest \in Seq(Segment \cup {SynAck}), ClientHandled(c, s, rest)
    PROVE  SInv'
<1>1. PICK dropped \in 0..Len(s.wire) :
        /\ Drop(s.wire, dropped)
        /\ toServer' = [toServer EXCEPT ![c] = @ \o Passed(s.wire, dropped)]
  BY DEF ClientHandled
<1> DEFINE sent == Passed(s.wire, dropped)
           clean == [s EXCEPT !.wire = <<>>]
<1>2. TypeOK
  BY DEF SInv
<1>3. sent \in Seq(Segment) /\ drops' \in 0..MaxDrops
  <2>1. s.wire \in Seq(Segment) /\ dropped \in Nat
    BY DEF HostState
  <2>. QED BY <1>1, <1>2, <2>1, PassedType DEF TypeOK
<1>. HIDE DEF sent
<1>4. toServer[c] \o sent \in Seq(Segment \cup {Syn})
  <2>1. sent \in Seq(Segment \cup {Syn}) /\ toServer[c] \in Seq(Segment \cup {Syn})
    BY <1>2, <1>3 DEF TypeOK
  <2>. QED BY <2>1, ConcatProperties
<1>5. toServer' \in [Clients -> Seq(Segment \cup {Syn})]
  BY <1>1, <1>2, <1>4 DEF TypeOK, sent
<1>6. clean \in HostState
  BY Cleaned
<1>. HIDE DEF clean
<1>7. /\ client' = [client EXCEPT ![c] = clean]
      /\ toClient' = [toClient EXCEPT ![c] = rest]
      /\ phase' = phase /\ server' = server /\ log_open' = log_open
      /\ crashed' = crashed /\ connections' = connections
      /\ state_list' = state_list /\ num_connected' = num_connected
      /\ new_connection' = new_connection
  BY DEF ClientHandled, lists, clean
<1>8. TypeOK'
  BY <1>2, <1>3, <1>5, <1>6, <1>7 DEF TypeOK
<1>. QED BY <1>7, <1>8 DEF SInv, ServedHaveState, FinAfterInput, ClosedByNewest

\* No step of a client concerns the lists or the log.
LEMMA ClientKeeps ==
    ASSUME SInv, NEW c \in Clients, Client(c)
    PROVE  SInv'
<1>0. /\ TypeOK /\ client[c] \in HostState
      /\ toClient[c] \in Seq(Segment \cup {SynAck})
      /\ toServer[c] \in Seq(Segment \cup {Syn})
  BY DEF SInv, TypeOK
<1>1. CASE tcp_handshake(c)
  <2>1. /\ Head(toClient[c]) \in Segment \cup {SynAck}
        /\ Tail(toClient[c]) \in Seq(Segment \cup {SynAck})
    BY <1>0, <1>1, HeadTailProperties DEF tcp_handshake
  <2>2. Head(toClient[c]).window \in Nat
    BY <2>1, OnItsWay DEF AnySegment
  <2> DEFINE s == ctcp_init(RecvWindow, Head(toClient[c]).window)
             q == Append(toServer[c], HandshakeAck)
  <2>3. s \in HostState
    BY <2>2, FirstHost
  <2>4. q \in Seq(Segment \cup {Syn})
    BY <1>0, OnItsWay
  <2>. HIDE DEF s, q
  <2>5. /\ phase' = [phase EXCEPT ![c] = "connected"]
        /\ client' = [client EXCEPT ![c] = s]
        /\ toServer' = [toServer EXCEPT ![c] = q]
        /\ toClient' = [toClient EXCEPT ![c] = Tail(@)]
        /\ server' = server /\ log_open' = log_open /\ drops' = drops
        /\ crashed' = crashed /\ connections' = connections
        /\ state_list' = state_list /\ num_connected' = num_connected
        /\ new_connection' = new_connection
    BY <1>1 DEF tcp_handshake, lists, s, q
  <2>6. TypeOK'
    BY <1>0, <2>1, <2>3, <2>4, <2>5 DEF TypeOK
  <2>. QED BY <2>5, <2>6 DEF SInv, ServedHaveState, FinAfterInput, ClosedByNewest
<1>2. CASE HandshakeTimeout(c)
  <2>1. TypeOK'
    BY <1>0, <1>2 DEF HandshakeTimeout, TypeOK, lists
  <2>. QED BY <1>2, <2>1 DEF HandshakeTimeout, lists, SInv, ServedHaveState,
                            FinAfterInput, ClosedByNewest
<1>3. CASE ClientRead(c)
  <2>1. CASE \E count \in 1..MaxSegDataSize, throttled \in BOOLEAN :
               ClientHandled(c, ctcp_read(client[c], count, throttled), toClient[c])
    <3>1. PICK count \in 1..MaxSegDataSize, throttled \in BOOLEAN :
            ClientHandled(c, ctcp_read(client[c], count, throttled), toClient[c])
      BY <2>1
    <3>2. count \in Nat \ {0}
      BY CtcpConstants
    <3>3. ctcp_read(client[c], count, throttled) \in HostState
      BY <1>0, <3>2, ReadEffect
    <3>. QED BY <1>0, <3>1, <3>3, ClientHandledKeeps
  <2>2. CASE ClientHandled(c, ctcp_read_eof(client[c]), toClient[c])
    BY <1>0, <2>2, ReadEofEffect, ClientHandledKeeps
  <2>. QED BY <1>3, <2>1, <2>2 DEF ClientRead
<1>4. CASE ClientReceive(c)
  <2> DEFINE seg == Head(toClient[c])
             s == IF ClientOpen(c) THEN ctcp_receive(client[c], seg, Len(seg.data))
                                   ELSE client[c]
  <2>1. /\ seg \in Segment \cup {SynAck}
        /\ Tail(toClient[c]) \in Seq(Segment \cup {SynAck})
    BY <1>0, <1>4, HeadTailProperties DEF ClientReceive
  <2>2. seg \in AnySegment
    BY <2>1, OnItsWay
  <2>3. Len(seg.data) \in 0..Len(seg.data)
    <3>1. seg.data \in Seq(Nat)
      BY <2>2 DEF AnySegment
    <3>. QED BY <3>1
  <2>4. s \in HostState
    BY <1>0, <2>2, <2>3, ReceiveEffect DEF Kept
  <2>5. ClientHandled(c, s, Tail(toClient[c]))
    BY <1>4 DEF ClientReceive
  <2>. HIDE DEF s
  <2>. QED BY <2>1, <2>4, <2>5, ClientHandledKeeps
<1>5. CASE ClientTimer(c)
  <2>1. PICK expired \in BOOLEAN :
          ClientHandled(c, ctcp_timer(client[c], expired, "ignored"), toClient[c])
    BY <1>5 DEF ClientTimer
  <2>2. ctcp_timer(client[c], expired, "ignored") \in HostState
    BY <1>0, TimerEffect DEF Timed
  <2>. QED BY <1>0, <2>1, <2>2, ClientHandledKeeps
<1>. QED BY <1>1, <1>2, <1>3, <1>4, <1>5 DEF Client

-----------------------------------------------------------------------------
\* The handlers of the server

\* What a handler of the server leaves: the types, and FINs stay sent.
Handled(c, s) ==
    /\ server' = [server EXCEPT ![c] = [s EXCEPT !.wire = <<>>]]
    /\ server' \in [Clients -> HostState]
    /\ toClient' \in [Clients -> Seq(Segment \cup {SynAck})]
    /\ toServer' \in [Clients -> Seq(Segment \cup {Syn})]
    /\ drops' \in 0..MaxDrops /\ crashed' \in BOOLEAN
    /\ phase' = phase /\ client' = client
    /\ \A d \in Clients : server[d].FIN_sent => server'[d].FIN_sent
    /\ s.FIN_sent => server'[c].FIN_sent
    /\ FinAfterInput'

\* No handler takes a FIN back or reads after it.
LEMMA ServerHandledKeeps ==
    ASSUME SInv, NEW c \in Clients, NEW s \in HostState,
           NEW rest \in Seq(Segment \cup {Syn}), NEW stale \in BOOLEAN,
           ServerHandled(c, s, rest, stale),
           s.FIN_sent => s.read_finish, server[c].FIN_sent => s.FIN_sent
    PROVE  Handled(c, s)
<1>1. PICK dropped \in 0..Len(s.wire) :
        /\ Drop(s.wire, dropped)
        /\ toClient' = [toClient EXCEPT ![c] = @ \o Passed(s.wire, dropped)]
  BY DEF ServerHandled
<1> DEFINE sent == Passed(s.wire, dropped)
           clean == [s EXCEPT !.wire = <<>>]
<1>2. TypeOK /\ FinAfterInput
  BY DEF SInv
<1>3. sent \in Seq(Segment) /\ drops' \in 0..MaxDrops
  <2>1. s.wire \in Seq(Segment) /\ dropped \in Nat
    BY DEF HostState
  <2>. QED BY <1>1, <1>2, <2>1, PassedType DEF TypeOK
<1>. HIDE DEF sent
<1>4. toClient[c] \o sent \in Seq(Segment \cup {SynAck})
  <2>1. sent \in Seq(Segment \cup {SynAck}) /\ toClient[c] \in Seq(Segment \cup {SynAck})
    BY <1>2, <1>3 DEF TypeOK
  <2>. QED BY <2>1, ConcatProperties
<1>5. toClient' \in [Clients -> Seq(Segment \cup {SynAck})]
  BY <1>1, <1>2, <1>4 DEF TypeOK, sent
<1>6. /\ clean \in HostState /\ clean.FIN_sent = s.FIN_sent
      /\ clean.read_finish = s.read_finish
  BY Cleaned
<1>. HIDE DEF clean
<1>7. /\ server' = [server EXCEPT ![c] = clean]
      /\ toServer' = [toServer EXCEPT ![c] = rest]
      /\ phase' = phase /\ client' = client
  BY DEF ServerHandled, clean
<1>8. crashed' \in BOOLEAN
  BY DEF ServerHandled
<1>9. server' \in [Clients -> HostState] /\ server'[c] = clean
  BY <1>2, <1>6, <1>7 DEF TypeOK
<1>10. \A d \in Clients : d # c => server'[d] = server[d]
  BY <1>2, <1>7 DEF TypeOK
<1>11. \A d \in Clients : server[d].FIN_sent => server'[d].FIN_sent
  BY <1>6, <1>9, <1>10
<1>12. FinAfterInput'
  BY <1>2, <1>6, <1>9, <1>10 DEF FinAfterInput
<1>13. toServer' \in [Clients -> Seq(Segment \cup {Syn})]
  BY <1>2, <1>7 DEF TypeOK
<1>14. s.FIN_sent => server'[c].FIN_sent
  BY <1>6, <1>9
<1>15. server' = [server EXCEPT ![c] = [s EXCEPT !.wire = <<>>]]
  BY <1>7 DEF clean
<1>. QED
  BY <1>3, <1>5, <1>7, <1>8, <1>9, <1>11, <1>12, <1>13, <1>14, <1>15 DEF Handled

\* A handler that closes no log and changes neither list keeps SInv.
LEMMA HandledQuietly ==
    ASSUME SInv, NEW c \in Clients, NEW s, Handled(c, s),
           UNCHANGED <<lists, log_open>>
    PROVE  SInv'
<1>1. /\ connections' = connections /\ state_list' = state_list
      /\ num_connected' = num_connected /\ new_connection' = new_connection
      /\ log_open' = log_open
  BY DEF lists
<1>2. TypeOK'
  BY <1>1 DEF SInv, TypeOK, Handled
<1>3. ServedHaveState'
  BY <1>1 DEF SInv, ServedHaveState
<1>4. ClosedByNewest'
  <2>1. connections # <<>> => Head(connections) \in Clients
    BY HeadTailProperties DEF SInv, TypeOK
  <2>. QED BY <1>1, <2>1 DEF SInv, ClosedByNewest, Handled
<1>. QED BY <1>2, <1>3, <1>4 DEF SInv, Handled

\* Reading sends no FIN.
LEMMA ServerReadKeeps ==
    ASSUME SInv, NEW c \in Clients, ServerRead(c)
    PROVE  SInv'
<1>1. /\ server[c] \in HostState /\ toServer[c] \in Seq(Segment \cup {Syn})
      /\ server[c].FIN_sent => server[c].read_finish
  BY DEF SInv, TypeOK, FinAfterInput
<1>2. UNCHANGED <<lists, log_open>>
  BY DEF ServerRead
<1>3. CASE \E count \in 1..MaxSegDataSize, throttled \in BOOLEAN :
             ServerHandled(c, ctcp_read(server[c], count, throttled),
                           toServer[c], ~throttled /\ ~log_open)
  <2>1. PICK count \in 1..MaxSegDataSize, throttled \in BOOLEAN :
          ServerHandled(c, ctcp_read(server[c], count, throttled),
                        toServer[c], ~throttled /\ ~log_open)
    BY <1>3
  <2> DEFINE s == ctcp_read(server[c], count, throttled)
             stale == ~throttled /\ ~log_open
  <2>2. count \in Nat \ {0}
    BY CtcpConstants
  <2>3. /\ s \in HostState /\ s.FIN_sent = server[c].FIN_sent
        /\ s.read_finish = server[c].read_finish
    BY <1>1, <2>2, ReadEffect
  <2>4. stale \in BOOLEAN /\ ServerHandled(c, s, toServer[c], stale)
    BY <2>1
  <2>. HIDE DEF s, stale
  <2>5. Handled(c, s)
    BY <1>1, <2>3, <2>4, ServerHandledKeeps
  <2>. QED BY <1>2, <2>5, HandledQuietly
<1>4. CASE ServerHandled(c, ctcp_read_eof(server[c]), toServer[c], FALSE)
  <2> DEFINE s == ctcp_read_eof(server[c])
  <2>1. s \in HostState /\ s.FIN_sent = server[c].FIN_sent /\ s.read_finish
    BY <1>1, ReadEofEffect
  <2>2. ServerHandled(c, s, toServer[c], FALSE)
    BY <1>4
  <2>. HIDE DEF s
  <2>3. Handled(c, s)
    BY <1>1, <2>1, <2>2, ServerHandledKeeps
  <2>. QED BY <1>2, <2>3, HandledQuietly
<1>. QED BY <1>3, <1>4 DEF ServerRead

\* Receiving sends no FIN, and forgets at most the awaited client.
LEMMA ServerReceiveKeeps ==
    ASSUME SInv, NEW c \in Clients, ServerReceive(c)
    PROVE  SInv'
<1> DEFINE seg == Head(toServer[c])
           rest == Tail(toServer[c])
<1>1. /\ server[c] \in HostState /\ toServer[c] \in Seq(Segment \cup {Syn})
      /\ server[c].FIN_sent => server[c].read_finish
  BY DEF SInv, TypeOK, FinAfterInput
<1>2. seg \in Segment \cup {Syn} /\ rest \in Seq(Segment \cup {Syn})
  BY <1>1, HeadTailProperties DEF ServerReceive
<1>3. seg \in AnySegment
  BY <1>2, OnItsWay
<1>. HIDE DEF seg, rest
<1>4. log_open' = log_open
  BY DEF ServerReceive
<1>5. CASE /\ toServer' = [toServer EXCEPT ![c] = rest]
           /\ UNCHANGED <<phase, client, server, lists, toClient, drops, crashed>>
  <2>1. TypeOK'
    BY <1>2, <1>4, <1>5 DEF SInv, TypeOK, lists
  <2>. QED BY <1>4, <1>5, <2>1 DEF lists, SInv, ServedHaveState, FinAfterInput,
                                    ClosedByNewest
<1>6. CASE /\ Awaited
           /\ toServer' = [toServer EXCEPT ![c] = rest]
           /\ UNCHANGED <<phase, client, server, connections, state_list,
                          num_connected, toClient, drops, crashed>>
  <2>1. TypeOK'
    BY <1>2, <1>4, <1>6 DEF SInv, TypeOK, Awaited
  <2>. QED BY <1>4, <1>6, <2>1 DEF SInv, ServedHaveState, FinAfterInput,
                                    ClosedByNewest
<1>7. CASE /\ ServerHandled(c, ctcp_receive(server[c], seg, Len(seg.data)), rest, FALSE)
           /\ UNCHANGED lists
  <2> DEFINE s == ctcp_receive(server[c], seg, Len(seg.data))
  <2>1. Len(seg.data) \in 0..Len(seg.data)
    <3>1. seg.data \in Seq(Nat)
      BY <1>3 DEF AnySegment
    <3>. QED BY <3>1
  <2>2. /\ s \in HostState /\ s.FIN_sent = server[c].FIN_sent
        /\ s.read_finish = server[c].read_finish
    BY <1>1, <1>3, <2>1, ReceiveEffect DEF Kept, SameIn
  <2>3. ServerHandled(c, s, rest, FALSE)
    BY <1>7
  <2>. HIDE DEF s
  <2>4. Handled(c, s)
    BY <1>1, <1>2, <2>2, <2>3, ServerHandledKeeps
  <2>. QED BY <1>4, <1>7, <2>4, HandledQuietly
<1>. QED BY <1>5, <1>6, <1>7 DEF ServerReceive, seg, rest

\* ctcp_destroy and conn_free each make a list skip a node.
LEMMA UnlinkType ==
    ASSUME NEW S, NEW list \in Seq(S), NEW c
    PROVE  Unlink(list, c) \in Seq(S)
<1>1. CASE c \in Range(list)
  <2> DEFINE i == CHOOSE j \in DOMAIN list : list[j] = c
  <2>1. DOMAIN list = 1..Len(list)
    OBVIOUS
  <2>2. i \in 1..Len(list)
    BY <1>1, <2>1 DEF Range
  <2>. HIDE DEF i
  <2>3. RemoveAt(list, i) \in Seq(S)
    BY <2>2, RemoveAtType
  <2>. QED BY <1>1, <2>3 DEF Unlink, i
<1>2. CASE c \notin Range(list)
  BY <1>2 DEF Unlink
<1>. QED BY <1>1, <1>2

\* The newest connection's is the state that the timer serves.
LEMMA ServerTimerKeeps ==
    ASSUME SInv, ServerTimer
    PROVE  SInv'
<1> DEFINE c == Head(state_list)
           s == server[c]
<1>1. PICK expired \in BOOLEAN :
        LET t == ctcp_timer(s, expired, "ignored")
            closes == t.FIN_sent /\ ~s.FIN_sent
            writes == t.retrans_count > s.retrans_count
        IN  /\ ServerHandled(c, t, toServer[c],
                 \/ ~log_open /\ (closes \/ writes)
                 \/ closes /\ writes
                 \/ t.status # "open" /\ IsNewest(c))
            /\ log_open' = (log_open /\ ~closes)
            /\ \/ t.status = "open" /\ UNCHANGED <<connections, state_list>>
               \/ /\ t.status # "open"
                  /\ state_list' = Unlink(state_list, c)
                  /\ conn_free(c)
  BY DEF ServerTimer, Served
<1> DEFINE t == ctcp_timer(s, expired, "ignored")
           closes == t.FIN_sent /\ ~s.FIN_sent
           stale == \/ ~log_open /\ (closes \/ t.retrans_count > s.retrans_count)
                    \/ closes /\ t.retrans_count > s.retrans_count
                    \/ t.status # "open" /\ IsNewest(c)
<1>2. /\ connections \in Seq(Clients) /\ state_list \in Seq(Clients)
      /\ log_open \in BOOLEAN /\ state_list # <<>>
      /\ IsPrefix(connections, state_list)
      /\ UNCHANGED <<num_connected, new_connection>>
  BY DEF SInv, TypeOK, ServedHaveState, ServerTimer
<1>3. c \in Clients
  BY <1>2, HeadTailProperties
<1>4. connections # <<>> => Head(connections) = c
  BY <1>2, PrefixHead
<1>. HIDE DEF c
<1>5. /\ s \in HostState /\ toServer[c] \in Seq(Segment \cup {Syn})
      /\ s.FIN_sent => s.read_finish
  BY <1>3 DEF SInv, TypeOK, FinAfterInput
<1>. HIDE DEF s
<1>6. Timed(s, t)
  BY <1>5, TimerEffect
<1>7. /\ t \in HostState
      /\ t.FIN_sent => t.read_finish
      /\ s.FIN_sent => t.FIN_sent
  BY <1>5, <1>6 DEF Timed
<1>8. /\ ServerHandled(c, t, toServer[c], stale)
      /\ log_open' = (log_open /\ ~closes)
      /\ \/ t.status = "open" /\ UNCHANGED <<connections, state_list>>
         \/ state_list' = Unlink(state_list, c) /\ conn_free(c)
  BY <1>1
<1>9. stale \in BOOLEAN
  OBVIOUS
<1>. HIDE DEF t, stale
<1>10. Handled(c, t)
  BY <1>3, <1>5, <1>7, <1>8, <1>9, ServerHandledKeeps DEF s
<1>11. log_open' \in BOOLEAN
  BY <1>8
<1>12. CASE t.status = "open" /\ UNCHANGED <<connections, state_list>>
  <2>1. TypeOK'
    BY <1>2, <1>10, <1>11, <1>12 DEF SInv, TypeOK, Handled
  <2>2. ServedHaveState'
    BY <1>2, <1>12 DEF ServedHaveState
  <2>3. ClosedByNewest'
    <3>1. SUFFICES ASSUME connections # <<>>, ~log_open'
                   PROVE  server'[c].FIN_sent
      BY <1>4, <1>12 DEF ClosedByNewest
    <3>2. CASE ~log_open
      <4>1. server[c].FIN_sent
        BY <1>4, <3>1, <3>2 DEF SInv, ClosedByNewest
      <4>. QED BY <1>3, <1>10, <4>1 DEF Handled
    <3>3. CASE closes
      BY <1>10, <3>3 DEF Handled
    <3>. QED BY <1>8, <3>1, <3>2, <3>3
  <2>. QED BY <1>10, <2>1, <2>2, <2>3 DEF SInv, Handled
<1>13. CASE state_list' = Unlink(state_list, c) /\ conn_free(c)
  <2>1. connections' = <<>>
    <3>1. CASE connections # <<>>
      BY <1>4, <1>13, <3>1 DEF conn_free, IsNewest
    <3>2. CASE connections = <<>>
      BY <1>13, <3>2 DEF conn_free, IsNewest, Unlink, Range
    <3>. QED BY <3>1, <3>2
  <2>2. state_list' \in Seq(Clients)
    BY <1>2, <1>13, UnlinkType
  <2>3. connections' \in Seq(Clients) /\ IsPrefix(connections', state_list')
    BY <2>1, <2>2, EmptyPrefix
  <2>4. TypeOK'
    BY <1>2, <1>10, <1>11, <2>2, <2>3 DEF SInv, TypeOK, Handled
  <2>5. ServedHaveState' /\ ClosedByNewest'
    BY <2>1, <2>3 DEF ServedHaveState, ClosedByNewest
  <2>. QED BY <1>10, <2>4, <2>5 DEF SInv, Handled
<1>. QED BY <1>8, <1>12, <1>13

-----------------------------------------------------------------------------
\* Connecting

\* A SYN is only on its way.
LEMMA ConnectKeeps ==
    ASSUME SInv, NEW c \in Clients, Connect(c)
    PROVE  SInv'
<1>1. Append(toServer[c], Syn) \in Seq(Segment \cup {Syn})
  BY DEF SInv, TypeOK
<1>2. TypeOK'
  BY <1>1 DEF Connect, SInv, TypeOK, lists
<1>. QED BY <1>2 DEF Connect, lists, SInv, ServedHaveState, FinAfterInput, ClosedByNewest

\* A new connection goes to the front of both lists, and its log is open.
LEMMA NewConnectionKeeps ==
    ASSUME SInv, NEW c \in Clients, tcp_new_connection(c)
    PROVE  SInv'
<1>1. /\ TypeOK /\ toServer[c] # <<>> /\ toServer[c] \in Seq(Segment \cup {Syn})
      /\ toClient[c] \in Seq(Segment \cup {SynAck})
  BY DEF SInv, TypeOK, tcp_new_connection
<1>2. Tail(toServer[c]) \in Seq(Segment \cup {Syn})
  BY <1>1, HeadTailProperties
<1>3. /\ toServer' = [toServer EXCEPT ![c] = Tail(@)] /\ new_connection' = c
      /\ phase' = phase /\ client' = client /\ drops' = drops /\ crashed' = crashed
  BY DEF tcp_new_connection
<1>4. CASE UNCHANGED <<server, connections, state_list, num_connected, log_open, toClient>>
  <2>1. TypeOK'
    BY <1>1, <1>2, <1>3, <1>4 DEF TypeOK
  <2>. QED BY <1>3, <1>4, <2>1 DEF SInv, ServedHaveState, FinAfterInput, ClosedByNewest
<1>5. CASE /\ ~Refused
           /\ num_connected' = num_connected + 1
           /\ connections' = <<c>> \o connections
           /\ AddState(c)
           /\ server' = [server EXCEPT ![c] = ctcp_init(RecvWindow, Syn.window)]
           /\ log_open' = TRUE
           /\ toClient' = [toClient EXCEPT ![c] = Append(@, SynAck)]
  <2> DEFINE s == ctcp_init(RecvWindow, Syn.window)
  <2>1. s \in HostState /\ ~s.FIN_sent
    <3>1. Syn.window \in Nat
      BY ServerConstants DEF Syn
    <3>. QED BY <3>1, FirstHost
  <2>. HIDE DEF s
  <2>2. num_connected' \in 0..MaxNumClients
    <3>1. num_connected \in 0..MaxNumClients /\ MaxNumClients \in Nat
      BY <1>1, ServerConstants DEF TypeOK
    <3>2. ~(num_connected >= MaxNumClients)
      BY <1>5 DEF Refused
    <3>. QED BY <1>5, <3>1, <3>2
  <2>3. /\ connections' \in Seq(Clients) /\ state_list' \in Seq(Clients)
        /\ IsPrefix(connections', state_list')
    <3>1. /\ connections \in Seq(Clients) /\ state_list \in Seq(Clients)
          /\ IsPrefix(connections, state_list)
      BY DEF SInv, TypeOK, ServedHaveState
    <3>. QED BY <1>5, <3>1, PrefixCons DEF AddState
  <2>4. Append(toClient[c], SynAck) \in Seq(Segment \cup {SynAck})
    BY <1>1
  <2>5. server' = [server EXCEPT ![c] = s]
    BY <1>5 DEF s
  <2>6. TypeOK'
    BY <1>1, <1>2, <1>3, <1>5, <2>1, <2>2, <2>3, <2>4, <2>5 DEF TypeOK
  <2>7. FinAfterInput'
    BY <1>1, <2>1, <2>5 DEF SInv, FinAfterInput, TypeOK
  <2>. QED BY <1>5, <2>3, <2>6, <2>7 DEF SInv, ServedHaveState, ClosedByNewest
<1>. QED BY <1>4, <1>5 DEF tcp_new_connection

-----------------------------------------------------------------------------
\* The theorems

\* There is no connection yet.
LEMMA InitServer == Init => SInv
<1>1. SUFFICES ASSUME Init PROVE SInv
  OBVIOUS
<1>2. RecvWindow \in Nat /\ MaxNumClients \in Nat /\ MaxDrops \in Nat
  BY ServerConstants
<1> DEFINE s == ctcp_init(RecvWindow, RecvWindow)
<1>3. s \in HostState /\ ~s.FIN_sent
  BY <1>2, FirstHost
<1>. HIDE DEF s
<1>4. client = [c \in Clients |-> s] /\ server = client
  BY <1>1 DEF Init, s
<1>5. <<>> \in Seq(Segment \cup {Syn}) /\ <<>> \in Seq(Segment \cup {SynAck})
  OBVIOUS
<1>6. <<>> \in Seq(Clients) /\ IsPrefix(<<>>, <<>>)
  <2>1. <<>> \in Seq(Clients)
    OBVIOUS
  <2>. QED BY <2>1, EmptyPrefix
<1>7. /\ toServer \in [Clients -> Seq(Segment \cup {Syn})]
      /\ toClient \in [Clients -> Seq(Segment \cup {SynAck})]
  BY <1>1, <1>5 DEF Init
<1>8. client \in [Clients -> HostState] /\ server \in [Clients -> HostState]
  BY <1>3, <1>4
<1>9. /\ phase \in [Clients -> {"new", "handshake", "connected", "refused"}]
      /\ new_connection \in Clients \cup {Nobody}
      /\ log_open \in BOOLEAN /\ crashed \in BOOLEAN
      /\ connections = <<>> /\ state_list = <<>>
  BY <1>1 DEF Init
<1>10. num_connected \in 0..MaxNumClients /\ drops \in 0..MaxDrops
  BY <1>1, <1>2 DEF Init
<1>11. TypeOK
  BY <1>6, <1>7, <1>8, <1>9, <1>10 DEF TypeOK
<1>12. FinAfterInput
  BY <1>3, <1>4 DEF FinAfterInput
<1>. QED BY <1>6, <1>9, <1>11, <1>12 DEF SInv, ServedHaveState, ClosedByNewest

\* Every step of a client and of the server keeps SInv.
LEMMA StepServer == SInv /\ [Next]_vars => SInv'
<1>1. SUFFICES ASSUME SInv, [Next]_vars PROVE SInv'
  OBVIOUS
<1>2. ASSUME NEW c \in Clients, Connect(c) PROVE SInv'
  BY <1>1, <1>2, ConnectKeeps
<1>3. ASSUME NEW c \in Clients, Client(c) PROVE SInv'
  BY <1>1, <1>3, ClientKeeps
<1>4. ASSUME NEW c \in Clients, tcp_new_connection(c) PROVE SInv'
  BY <1>1, <1>4, NewConnectionKeeps
<1>5. ASSUME NEW c \in Clients, ServerRead(c) PROVE SInv'
  BY <1>1, <1>5, ServerReadKeeps
<1>6. ASSUME NEW c \in Clients, ServerReceive(c) PROVE SInv'
  BY <1>1, <1>6, ServerReceiveKeeps
<1>7. CASE ServerTimer
  BY <1>1, <1>7, ServerTimerKeeps
<1>8. CASE UNCHANGED vars
  BY <1>1, <1>8 DEF vars, lists, SInv, TypeOK, ServedHaveState, FinAfterInput,
                    ClosedByNewest
<1>. QED BY <1>1, <1>2, <1>3, <1>4, <1>5, <1>6, <1>7, <1>8 DEF Next, Server

\* However many clients come and go: the types hold, the two lists agree, and
\* a closed log was closed for the newest connection (ctcp.c and
\* ctcp_sys_internal.c change the lists, ctcp_timer closes the log).
THEOREM ServerInductive == Spec => []SInv
<1>. QED BY InitServer, StepServer, PTL DEF Spec

\* The server's variables keep their types; connections never name a client
\* that is not there and num_connected stays within MAX_NUM_CLIENTS.
THEOREM ServerTypeCorrect == Spec => []TypeOK
<1>1. SInv => TypeOK
  BY DEF SInv
<1>. QED BY <1>1, ServerInductive, PTL

\* No connection that do_loop serves has lost its state: ctcp_destroy and
\* conn_free, which free them one by one, never leave one half behind.
THEOREM ServedKeepTheirState == Spec => []ServedHaveState
<1>1. SInv => ServedHaveState
  BY DEF SInv
<1>. QED BY <1>1, ServerInductive, PTL

\* ctcp_send_data never writes to a log that another connection's FIN closed:
\* who reads input has sent no FIN, so the log is open.
THEOREM ReadersFindTheLog == Spec => []LogIsOpenToRead
<1>1. SInv => LogIsOpenToRead
  <2>1. SUFFICES ASSUME SInv, NEW c \in Clients, IsNewest(c), CanRead(server[c])
                 PROVE  log_open
    BY DEF LogIsOpenToRead
  <2>2. ~server[c].FIN_sent
    BY <2>1 DEF CanRead, SInv, FinAfterInput
  <2>. QED BY <2>1, <2>2 DEF IsNewest, SInv, ClosedByNewest
<1>. QED BY <1>1, ServerInductive, PTL

-----------------------------------------------------------------------------
\* The handshake
\*
\* A client on whose behalf the server has done nothing has sent nothing but
\* its SYN, and the first segment of the client whose handshake ACK is awaited
\* is that ACK.

\* The server knows nothing of d.
Untouched(d) ==
    /\ toClient[d] = <<>> /\ new_connection # d
    /\ d \notin Range(connections) /\ d \notin Range(state_list)

\* Before it is connected d has sent at most its SYN, and the server has
\* answered only when it has taken the SYN off the link.
Asking(d) ==
    /\ phase[d] = "new" => toServer[d] = <<>> /\ Untouched(d)
    /\ phase[d] = "handshake" =>
         toServer[d] = <<>> \/ (toServer[d] = <<Syn>> /\ Untouched(d))
    /\ phase[d] = "refused" => toServer[d] = <<>>

\* Then it sends segments, and its handshake ACK, which conn_send cannot drop,
\* stays at their head while the server waits for it.
Acking(d) ==
    phase[d] = "connected" =>
        /\ toServer[d] \in Seq(Segment)
        /\ d = new_connection /\ d \in Range(connections) /\ ~crashed =>
             toServer[d] # <<>> /\ Head(toServer[d]) = HandshakeAck

HInv == \A d \in Clients : Asking(d) /\ Acking(d)

\* A step that leaves d's link and phase alone, and does not begin to serve it.
Undisturbed(d) ==
    /\ phase'[d] = phase[d] /\ toServer'[d] = toServer[d]
    /\ d \in Range(connections') => d \in Range(connections)
    /\ new_connection' = d => new_connection = d
    /\ crashed => crashed'

\* Such a step leaves d's handshake where it was, if it says nothing to d and
\* keeps no state for it.
LEMMA UndisturbedKeeps ==
    ASSUME NEW d \in Clients, Asking(d) /\ Acking(d), Undisturbed(d),
           Untouched(d) => /\ toClient'[d] = toClient[d]
                           /\ d \in Range(state_list') => d \in Range(state_list)
    PROVE  (Asking(d) /\ Acking(d))'
<1>1. Untouched(d) => Untouched(d)'
  BY DEF Untouched, Undisturbed
<1>2. Asking(d)'
  BY <1>1 DEF Asking, Undisturbed
<1>3. Acking(d)'
  BY DEF Acking, Undisturbed
<1>. QED BY <1>2, <1>3

\* A SYN is not a segment that conn_send sends.
LEMMA SynIsNoSegment == Syn \notin Segment
<1>1. Syn.flags = {"SYN"}
  BY DEF Syn
<1>2. ASSUME NEW seg \in Segment PROVE seg.flags \in SUBSET Flags
  BY DEF Segment
<1>3. "SYN" \notin Flags
  BY DEF Flags
<1>. QED BY <1>1, <1>2, <1>3

\* Where a SYN is the next to arrive its sender is shaking hands, and the
\* server knows nothing of it.
LEMMA SynMeansAsking ==
    ASSUME NEW c \in Clients, TypeOK, Asking(c) /\ Acking(c),
           toServer[c] # <<>>, Head(toServer[c]) = Syn
    PROVE  phase[c] = "handshake" /\ toServer[c] = <<Syn>> /\ Untouched(c)
<1>1. phase[c] # "connected"
  <2>1. SUFFICES ASSUME phase[c] = "connected" PROVE FALSE
    OBVIOUS
  <2>2. toServer[c] \in Seq(Segment)
    BY <2>1 DEF Acking
  <2>3. Head(toServer[c]) \in Segment
    BY <2>2, HeadTailProperties
  <2>. QED BY <2>3, SynIsNoSegment
<1>2. phase[c] \in {"new", "handshake", "connected", "refused"}
  BY DEF TypeOK
<1>. QED BY <1>1, <1>2 DEF Asking

\* A SYN goes out on an empty link.
LEMMA ConnectShakes ==
    ASSUME SInv, HInv, NEW c \in Clients, Connect(c)
    PROVE  HInv'
<1>1. /\ phase[c] = "new" /\ phase' = [phase EXCEPT ![c] = "handshake"]
      /\ toServer' = [toServer EXCEPT ![c] = Append(@, Syn)]
      /\ toClient' = toClient /\ connections' = connections
      /\ state_list' = state_list /\ new_connection' = new_connection
      /\ crashed' = crashed
  BY DEF Connect, lists
<1>2. TypeOK
  BY DEF SInv
<1>3. toServer[c] = <<>> /\ Untouched(c)
  BY <1>1 DEF HInv, Asking
<1>4. phase'[c] = "handshake" /\ toServer'[c] = <<Syn>>
  BY <1>1, <1>2, <1>3 DEF TypeOK
<1>5. Untouched(c)'
  BY <1>1, <1>3 DEF Untouched
<1>6. (Asking(c) /\ Acking(c))'
  BY <1>4, <1>5 DEF Asking, Acking
<1>7. ASSUME NEW d \in Clients, d # c PROVE (Asking(d) /\ Acking(d))'
  <2>1. Undisturbed(d) /\ toClient'[d] = toClient[d] /\ state_list' = state_list
    BY <1>1, <1>2, <1>7 DEF Undisturbed, TypeOK
  <2>. QED BY <2>1, UndisturbedKeeps DEF HInv
<1>. QED BY <1>6, <1>7 DEF HInv

\* The server takes the SYN off the link, and nobody else is served for it.
LEMMA NewConnectionShakes ==
    ASSUME SInv, HInv, NEW c \in Clients, tcp_new_connection(c)
    PROVE  HInv'
<1>1. /\ toServer[c] # <<>> /\ Head(toServer[c]) = Syn
      /\ toServer' = [toServer EXCEPT ![c] = Tail(@)]
      /\ new_connection' = c /\ phase' = phase /\ crashed' = crashed
      /\ \/ UNCHANGED <<connections, state_list, toClient>>
         \/ /\ connections' = <<c>> \o connections
            /\ state_list' = <<c>> \o state_list
            /\ toClient' = [toClient EXCEPT ![c] = Append(@, SynAck)]
  BY DEF tcp_new_connection, AddState
<1>2. TypeOK
  BY DEF SInv
<1>3. phase[c] = "handshake" /\ toServer[c] = <<Syn>>
  BY <1>1, <1>2, SynMeansAsking DEF HInv
<1>4. phase'[c] = "handshake" /\ toServer'[c] = <<>>
  BY <1>1, <1>2, <1>3 DEF TypeOK
<1>5. (Asking(c) /\ Acking(c))'
  BY <1>4 DEF Asking, Acking
<1>6. /\ Range(connections') \subseteq Range(connections) \cup {c}
      /\ Range(state_list') \subseteq Range(state_list) \cup {c}
  <2>1. /\ connections \in Seq(Clients) /\ state_list \in Seq(Clients)
    BY <1>2 DEF TypeOK
  <2>2. /\ Range(<<c>> \o connections) = Range(connections) \cup {c}
        /\ Range(<<c>> \o state_list) = Range(state_list) \cup {c}
    BY <2>1, RangeCons
  <2>. QED BY <1>1, <2>2
<1>7. ASSUME NEW d \in Clients, d # c PROVE (Asking(d) /\ Acking(d))'
  <2>1. /\ Undisturbed(d) /\ toClient'[d] = toClient[d]
        /\ d \in Range(state_list') => d \in Range(state_list)
    BY <1>1, <1>2, <1>6, <1>7 DEF Undisturbed, TypeOK
  <2>. QED BY <2>1, UndisturbedKeeps DEF HInv
<1>. QED BY <1>5, <1>7 DEF HInv

\* A client that is answered acknowledges at once, on an empty link, and one
\* that gives up was not heard.
LEMMA ConnectingShakes ==
    ASSUME SInv, HInv, NEW c \in Clients, tcp_handshake(c) \/ HandshakeTimeout(c)
    PROVE  HInv'
<1>1. TypeOK /\ phase[c] = "handshake"
  BY DEF SInv, tcp_handshake, HandshakeTimeout
<1>2. /\ connections' = connections /\ state_list' = state_list
      /\ new_connection' = new_connection /\ crashed' = crashed
  BY DEF tcp_handshake, HandshakeTimeout, lists
<1>3. ASSUME NEW d \in Clients, d # c PROVE (Asking(d) /\ Acking(d))'
  <2>1. Undisturbed(d) /\ toClient'[d] = toClient[d]
    BY <1>1, <1>2, <1>3 DEF Undisturbed, TypeOK, tcp_handshake, HandshakeTimeout
  <2>. QED BY <1>2, <2>1, UndisturbedKeeps DEF HInv
<1>4. CASE tcp_handshake(c)
  <2>1. toServer[c] = <<>>
    BY <1>1, <1>4 DEF tcp_handshake, HInv, Asking, Untouched
  <2>2. toServer'[c] = <<HandshakeAck>> /\ phase'[c] = "connected"
    BY <1>1, <1>4, <2>1 DEF tcp_handshake, TypeOK
  <2>3. <<HandshakeAck>> \in Seq(Segment)
    BY OnItsWay
  <2>4. toServer'[c] # <<>> /\ Head(toServer'[c]) = HandshakeAck
    BY <2>2
  <2>5. (Asking(c) /\ Acking(c))'
    BY <2>2, <2>3, <2>4 DEF Asking, Acking
  <2>. QED BY <1>3, <2>5 DEF HInv
<1>5. CASE HandshakeTimeout(c)
  <2>1. toServer'[c] = <<>> /\ phase'[c] = "refused"
    BY <1>1, <1>5 DEF HandshakeTimeout, TypeOK
  <2>2. (Asking(c) /\ Acking(c))'
    BY <2>1 DEF Asking, Acking
  <2>. QED BY <1>3, <2>2 DEF HInv
<1>. QED BY <1>4, <1>5

\* What a client's handler sends goes behind the handshake ACK.
LEMMA ClientHandledShakes ==
    ASSUME SInv, HInv, NEW c \in Clients, NEW s \in HostState, NEW rest,
           phase[c] = "connected", ClientHandled(c, s, rest)
    PROVE  HInv'
<1>1. PICK dropped \in 0..Len(s.wire) :
        /\ Drop(s.wire, dropped)
        /\ toServer' = [toServer EXCEPT ![c] = @ \o Passed(s.wire, dropped)]
  BY DEF ClientHandled
<1> DEFINE sent == Passed(s.wire, dropped)
           q == toServer[c]
<1>2. TypeOK
  BY DEF SInv
<1>3. sent \in Seq(Segment)
  <2>1. s.wire \in Seq(Segment) /\ dropped \in Nat
    BY DEF HostState
  <2>. QED BY <1>1, <1>2, <2>1, PassedType DEF TypeOK
<1>. HIDE DEF sent
<1>4. /\ q \in Seq(Segment)
      /\ c = new_connection /\ c \in Range(connections) /\ ~crashed =>
           q # <<>> /\ Head(q) = HandshakeAck
  BY DEF HInv, Acking
<1>5. toServer'[c] = q \o sent
  BY <1>1, <1>2 DEF TypeOK, sent
<1>6. /\ toClient' = [toClient EXCEPT ![c] = rest] /\ phase' = phase
      /\ connections' = connections /\ state_list' = state_list
      /\ new_connection' = new_connection /\ crashed' = crashed
  BY DEF ClientHandled, lists
<1>. HIDE DEF q
<1>7. q \o sent \in Seq(Segment)
  BY <1>3, <1>4, ConcatProperties
<1>8. q # <<>> => q \o sent # <<>> /\ Head(q \o sent) = Head(q)
  <2>1. SUFFICES ASSUME q # <<>> PROVE q \o sent # <<>> /\ Head(q \o sent) = Head(q)
    OBVIOUS
  <2>2. Len(q) \in Nat \ {0} /\ Len(sent) \in Nat
    BY <1>3, <1>4, <2>1, EmptySeq, LenProperties
  <2>3. Len(q \o sent) = Len(q) + Len(sent) /\ (q \o sent)[1] = q[1]
    BY <1>3, <1>4, <2>2, ConcatProperties
  <2>. QED BY <1>4, <1>7, <2>1, <2>2, <2>3, EmptySeq
<1>9. (Asking(c) /\ Acking(c))'
  BY <1>4, <1>5, <1>6, <1>7, <1>8 DEF Asking, Acking
<1>10. ASSUME NEW d \in Clients, d # c PROVE (Asking(d) /\ Acking(d))'
  <2>1. Undisturbed(d) /\ toClient'[d] = toClient[d]
    BY <1>1, <1>2, <1>6, <1>10 DEF Undisturbed, TypeOK
  <2>. QED BY <1>6, <2>1, UndisturbedKeeps DEF HInv
<1>. QED BY <1>9, <1>10 DEF HInv

\* No step of a client brings anything before its handshake ACK.
LEMMA ClientShakes ==
    ASSUME SInv, HInv, NEW c \in Clients, Client(c)
    PROVE  HInv'
<1>1. /\ client[c] \in HostState /\ toClient[c] \in Seq(Segment \cup {SynAck})
  BY DEF SInv, TypeOK
<1>2. CASE tcp_handshake(c) \/ HandshakeTimeout(c)
  BY <1>2, ConnectingShakes
<1>3. CASE ClientRead(c)
  <2>1. phase[c] = "connected"
    BY <1>3 DEF ClientRead, ClientOpen
  <2>2. ASSUME NEW count \in 1..MaxSegDataSize, NEW throttled \in BOOLEAN,
               ClientHandled(c, ctcp_read(client[c], count, throttled), toClient[c])
        PROVE  HInv'
    <3>1. count \in Nat \ {0}
      BY CtcpConstants
    <3>2. ctcp_read(client[c], count, throttled) \in HostState
      BY <1>1, <3>1, ReadEffect
    <3>. QED BY <2>1, <2>2, <3>2, ClientHandledShakes
  <2>3. CASE ClientHandled(c, ctcp_read_eof(client[c]), toClient[c])
    BY <1>1, <2>1, <2>3, ReadEofEffect, ClientHandledShakes
  <2>. QED BY <1>3, <2>2, <2>3 DEF ClientRead
<1>4. CASE ClientReceive(c)
  <2> DEFINE seg == Head(toClient[c])
             s == IF ClientOpen(c) THEN ctcp_receive(client[c], seg, Len(seg.data))
                                   ELSE client[c]
  <2>1. seg \in Segment \cup {SynAck}
    BY <1>1, <1>4, HeadTailProperties DEF ClientReceive
  <2>2. seg \in AnySegment
    BY <2>1, OnItsWay
  <2>3. Len(seg.data) \in 0..Len(seg.data)
    <3>1. seg.data \in Seq(Nat)
      BY <2>2 DEF AnySegment
    <3>. QED BY <3>1
  <2>4. s \in HostState
    BY <1>1, <2>2, <2>3, ReceiveEffect DEF Kept
  <2>5. ClientHandled(c, s, Tail(toClient[c])) /\ phase[c] = "connected"
    BY <1>4 DEF ClientReceive
  <2>. HIDE DEF s
  <2>. QED BY <2>4, <2>5, ClientHandledShakes
<1>5. CASE ClientTimer(c)
  <2>1. PICK expired \in BOOLEAN :
          ClientHandled(c, ctcp_timer(client[c], expired, "ignored"), toClient[c])
    BY <1>5 DEF ClientTimer
  <2>2. ctcp_timer(client[c], expired, "ignored") \in HostState
    BY <1>1, TimerEffect DEF Timed
  <2>3. phase[c] = "connected"
    BY <1>5 DEF ClientTimer, ClientOpen
  <2>. QED BY <2>1, <2>2, <2>3, ClientHandledShakes
<1>. QED BY <1>2, <1>3, <1>4, <1>5 DEF Client

\* The front of a list is in it.
LEMMA HeadInRange ==
    ASSUME NEW S, NEW a \in Seq(S), a # <<>>
    PROVE  Head(a) \in Range(a)
<1>1. 1 \in DOMAIN a /\ Head(a) = a[1]
  BY EmptySeq
<1>. QED BY <1>1 DEF Range

\* A list that skips a node has nobody new.
LEMMA UnlinkRange ==
    ASSUME NEW S, NEW list \in Seq(S), NEW c
    PROVE  Range(Unlink(list, c)) \subseteq Range(list)
<1>1. list \in Seq(Range(list))
  BY SeqOfRange
<1>2. Unlink(list, c) \in Seq(Range(list))
  BY <1>1, UnlinkType
<1>. QED BY <1>2, RangeOfSeq

\* A handler that takes nothing off the link of a client which is served leaves
\* every handshake where it was.
LEMMA ServedShakes ==
    ASSUME SInv, HInv, NEW c \in Clients, NEW s, NEW stale,
           ServerHandled(c, s, toServer[c], stale), ~crashed,
           c \in Range(connections) \cup Range(state_list),
           Range(connections') \subseteq Range(connections),
           Range(state_list') \subseteq Range(state_list),
           new_connection' = new_connection
    PROVE  HInv'
<1>1. TypeOK
  BY DEF SInv
<1>2. /\ phase' = phase /\ toServer' = [toServer EXCEPT ![c] = toServer[c]]
      /\ \A d \in Clients : d # c => toClient'[d] = toClient[d]
  BY <1>1 DEF ServerHandled, TypeOK
<1>3. ~Untouched(c)
  BY DEF Untouched
<1>4. ASSUME NEW d \in Clients PROVE (Asking(d) /\ Acking(d))'
  <2>1. Undisturbed(d)
    BY <1>1, <1>2 DEF Undisturbed, TypeOK
  <2>. QED BY <1>2, <1>3, <2>1, UndisturbedKeeps DEF HInv
<1>. QED BY <1>4 DEF HInv

\* Input is read for a connection that is served.
LEMMA ServerReadShakes ==
    ASSUME SInv, HInv, NEW c \in Clients, ServerRead(c)
    PROVE  HInv'
<1>1. c \in Range(connections)
  BY HeadInRange DEF ServerRead, IsNewest, SInv, TypeOK
<1>2. PICK s, stale : ServerHandled(c, s, toServer[c], stale)
  BY DEF ServerRead
<1>3. /\ ~crashed /\ connections' = connections /\ state_list' = state_list
      /\ new_connection' = new_connection
  BY DEF ServerRead, lists
<1>. QED BY <1>1, <1>2, <1>3, ServedShakes

\* The timer serves the front of state_list, and only shortens the lists.
LEMMA ServerTimerShakes ==
    ASSUME SInv, HInv, ServerTimer
    PROVE  HInv'
<1> DEFINE c == Head(state_list)
<1>1. /\ connections \in Seq(Clients) /\ state_list \in Seq(Clients)
      /\ state_list # <<>> /\ ~crashed /\ new_connection' = new_connection
  BY DEF SInv, TypeOK, ServerTimer
<1>2. c \in Clients /\ c \in Range(state_list)
  BY <1>1, HeadTailProperties, HeadInRange
<1>3. PICK s, stale : ServerHandled(c, s, toServer[c], stale)
  BY DEF ServerTimer, Served
<1>4. \/ UNCHANGED <<connections, state_list>>
      \/ state_list' = Unlink(state_list, c) /\ conn_free(c)
  BY DEF ServerTimer, Served
<1>. HIDE DEF c
<1>5. Range(<<>>) = {}
  BY DEF Range
<1>6. /\ Range(connections') \subseteq Range(connections)
      /\ Range(state_list') \subseteq Range(state_list)
  BY <1>1, <1>4, <1>5, UnlinkRange DEF conn_free
<1>. QED BY <1>1, <1>2, <1>3, <1>6, ServedShakes

\* What the server takes off the link while it waits for the handshake ACK is
\* that ACK, and then it waits no more.
LEMMA ServerReceiveShakes ==
    ASSUME SInv, HInv, NEW c \in Clients, ServerReceive(c)
    PROVE  HInv'
<1> DEFINE seg == Head(toServer[c])
           rest == Tail(toServer[c])
<1>1. /\ TypeOK /\ toServer[c] # <<>> /\ toServer[c] \in Seq(Segment \cup {Syn})
      /\ c # Nobody
  <2>1. Clients \in SUBSET (Nat \ {0})
    BY ServerConstants
  <2>. QED BY <2>1 DEF SInv, TypeOK, ServerReceive, Nobody
<1>2. /\ phase' = phase /\ toServer' = [toServer EXCEPT ![c] = rest]
      /\ connections' = connections /\ state_list' = state_list
      /\ crashed => crashed'
      /\ \A d \in Clients : d # c => toClient'[d] = toClient[d]
  BY <1>1 DEF ServerReceive, ServerHandled, lists, TypeOK
<1>3. \/ new_connection' = new_connection
         /\ (crashed \/ c \notin Range(connections) \/ ~IsHandshakeAck(c, seg))
      \/ new_connection' = Nobody
  BY DEF ServerReceive, lists, Awaited
<1>4. ASSUME NEW d \in Clients, d # c PROVE (Asking(d) /\ Acking(d))'
  <2>1. d # Nobody
    BY ServerConstants DEF Nobody
  <2>2. Undisturbed(d)
    BY <1>1, <1>2, <1>3, <1>4, <2>1 DEF Undisturbed, TypeOK
  <2>. QED BY <1>2, <1>4, <2>2, UndisturbedKeeps DEF HInv
<1>5. phase'[c] = phase[c] /\ toServer'[c] = rest
  BY <1>1, <1>2 DEF TypeOK
<1>6. Asking(c)'
  <2>1. Asking(c)
    BY DEF HInv
  <2>2. phase[c] = "handshake" => rest = <<>>
    BY <1>1, <2>1 DEF Asking
  <2>. QED BY <1>1, <1>5, <2>1, <2>2 DEF Asking
<1>7. Acking(c)'
  <2>1. SUFFICES ASSUME phase[c] = "connected"
                 PROVE  /\ rest \in Seq(Segment)
                        /\ ~(c = new_connection' /\ c \in Range(connections') /\ ~crashed')
    BY <1>5 DEF Acking
  <2>2. /\ toServer[c] \in Seq(Segment)
        /\ c = new_connection /\ c \in Range(connections) /\ ~crashed => seg = HandshakeAck
    BY <2>1 DEF HInv, Acking
  <2>3. rest \in Seq(Segment)
    BY <1>1, <2>2, HeadTailProperties
  <2>4. c = new_connection /\ seg = HandshakeAck => IsHandshakeAck(c, seg)
    BY DEF IsHandshakeAck, HandshakeAck
  <2>. QED BY <1>1, <1>2, <1>3, <2>2, <2>3, <2>4
<1>. QED BY <1>4, <1>6, <1>7 DEF HInv

\* Nobody has begun to connect.
LEMMA InitShakes == Init => HInv
<1>1. SUFFICES ASSUME Init, NEW d \in Clients PROVE Asking(d) /\ Acking(d)
  BY DEF HInv
<1>2. d # Nobody
  BY ServerConstants DEF Nobody
<1>3. phase[d] = "new" /\ toServer[d] = <<>> /\ toClient[d] = <<>>
  BY <1>1 DEF Init
<1>4. d \notin Range(connections) /\ d \notin Range(state_list)
  BY <1>1 DEF Init, Range
<1>5. Untouched(d)
  BY <1>1, <1>2, <1>3, <1>4 DEF Init, Untouched
<1>. QED BY <1>3, <1>5 DEF Asking, Acking

\* Every step keeps HInv.
LEMMA StepShakes == SInv /\ HInv /\ [Next]_vars => HInv'
<1>1. SUFFICES ASSUME SInv, HInv, [Next]_vars PROVE HInv'
  OBVIOUS
<1>2. ASSUME NEW c \in Clients, Connect(c) PROVE HInv'
  BY <1>1, <1>2, ConnectShakes
<1>3. ASSUME NEW c \in Clients, Client(c) PROVE HInv'
  BY <1>1, <1>3, ClientShakes
<1>4. ASSUME NEW c \in Clients, tcp_new_connection(c) PROVE HInv'
  BY <1>1, <1>4, NewConnectionShakes
<1>5. ASSUME NEW c \in Clients, ServerRead(c) PROVE HInv'
  BY <1>1, <1>5, ServerReadShakes
<1>6. ASSUME NEW c \in Clients, ServerReceive(c) PROVE HInv'
  BY <1>1, <1>6, ServerReceiveShakes
<1>7. CASE ServerTimer
  BY <1>1, <1>7, ServerTimerShakes
<1>8. CASE UNCHANGED vars
  BY <1>1, <1>8 DEF vars, lists, HInv, Asking, Acking, Untouched
<1>. QED BY <1>1, <1>2, <1>3, <1>4, <1>5, <1>6, <1>7, <1>8 DEF Next, Server

\* do_loop takes any ACK numbered 1, 1 of the client that connected last for the
\* ACK of its handshake, and forgets an older client that still owes it one: yet
\* what it throws away is an empty ACK, never data and never a FIN.
THEOREM OnlyTheHandshakeAck == Spec => []OnlyHandshakeIsSwallowed
<1>1. Init => SInv /\ HInv
  BY InitServer, InitShakes
<1>2. SInv /\ HInv /\ [Next]_vars => (SInv /\ HInv)'
  BY StepServer, StepShakes
<1>3. SInv /\ HInv => OnlyHandshakeIsSwallowed
  <2>1. SUFFICES ASSUME SInv, HInv, NEW c \in Range(connections), ~crashed,
                        toServer[c] # <<>>, IsHandshakeAck(c, Head(toServer[c]))
                 PROVE  Head(toServer[c]) = HandshakeAck
    BY DEF OnlyHandshakeIsSwallowed
  <2>2. c \in Clients /\ c = new_connection /\ ~Untouched(c)
    BY <2>1, RangeOfSeq DEF SInv, TypeOK, IsHandshakeAck, Untouched
  <2>3. phase[c] = "connected"
    BY <2>1, <2>2 DEF HInv, Asking, SInv, TypeOK
  <2>. QED BY <2>1, <2>2, <2>3 DEF HInv, Acking
<1>. QED BY <1>1, <1>2, <1>3, PTL DEF Spec
=============================================================================
