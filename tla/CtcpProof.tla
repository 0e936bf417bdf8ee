----------------------------- MODULE CtcpProof -----------------------------
(***************************************************************************)
(* For every window, input, retransmission limit and stdout: the proof     *)
(* that a cTCP sender forgets nothing its peer has not accepted, that a    *)
(* receiver acknowledges nothing its peer has not sent, and that the       *)
(* output queue is never overrun. And when write() takes all it is given:  *)
(* what a host has acknowledged is what it has output, a side that         *)
(* finished its teardown has all of its peer's stream, and the connection  *)
(* is a pair of byte streams (CtcpStream), as long as no payload is        *)
(* corrupted.                                                              *)
(*                                                                         *)
(* LocalInv is what each handler keeps of one host; IInv adds what relates *)
(* a host to its peer and to the segments it has sent, OInv what relates   *)
(* the output to the numbers of the stream, CInv the bytes that the        *)
(* segments and the output hold.                                           *)
(*                                                                         *)
(* Whatever write() takes and whatever is corrupted, the output is in its  *)
(* place (PInv).                                                           *)
(*                                                                         *)
(* Last, CtcpLink: WayInv says that what is on its way was sent, so that   *)
(* the orderly network is one of CtcpNet's; LInv says what may still be on *)
(* its way to a host that waits for the ACK of its FIN, so that the host   *)
(* is not answered twice.                                                  *)
(***************************************************************************)
EXTENDS CtcpLink, CtcpHandlers

-----------------------------------------------------------------------------
\* The windows a host may be told of.
Windows == {RecvWindow[h] : h \in Hosts}

\* What a host may have sent: it acknowledges no more than the host accepted,
\* stays within the host's stream, and a FIN ends that stream.
Sendable(s, seg) ==
    /\ seg \in Segment /\ seg.window \in Windows
    /\ seg.ackno <= s.ackno
    /\ End(seg) <= s.next_seqno
    /\ "FIN" \in seg.flags =>
         s.FIN_sent /\ s.read_finish /\ seg.seqno = s.next_seqno

Contiguous(q) == \A i \in 1..(Len(q) - 1) : End(q[i]) = q[i + 1].seqno

Tiles(q, first, last) ==
    /\ Contiguous(q)
    /\ q = <<>> => first = last
    /\ q # <<>> => q[1].seqno = first /\ End(q[Len(q)]) = last

LocalInv(s) ==
    /\ s \in HostState
    /\ s.send_window \in Windows /\ s.recv_window \in Windows
    /\ s.seqno <= s.next_seqno
    /\ \A i \in 1..Len(s.segments) : Sendable(s, s.segments[i])
    /\ \A i \in 1..Len(s.wire) : Sendable(s, s.wire[i])
    /\ s.status = "open" => Tiles(s.segments, s.seqno, s.next_seqno)
    /\ s.FIN_sent => s.seqno = s.next_seqno /\ s.read_finish
    /\ s.get_all_ack => s.segments = <<>>

\* What no handler undoes.
Grew(s, t) ==
    /\ s.ackno <= t.ackno /\ s.seqno <= t.seqno
    /\ s.next_seqno <= t.next_seqno
    /\ s.read_finish => t.read_finish
    /\ s.FIN_sent => t.FIN_sent /\ t.next_seqno = s.next_seqno

\* The fields that a handler's output and its sends leave alone.
Same(s, t) ==
    /\ t.status = s.status /\ t.segments = s.segments
    /\ t.seqno = s.seqno /\ t.next_seqno = s.next_seqno /\ t.ackno = s.ackno
    /\ t.read_finish = s.read_finish /\ t.FIN_sent = s.FIN_sent
    /\ t.get_all_ack = s.get_all_ack /\ t.inputted = s.inputted
    /\ t.send_window = s.send_window /\ t.recv_window = s.recv_window

LEMMA SendableGrows ==
    ASSUME NEW s \in HostState, NEW t \in HostState, Grew(s, t),
           NEW seg, Sendable(s, seg)
    PROVE  Sendable(t, seg)
<1>1. seg.ackno \in Nat /\ seg.seqno \in Nat /\ End(seg) \in Nat
  BY DEF Sendable, Segment, End
<1>2. /\ s.ackno \in Nat /\ t.ackno \in Nat
      /\ s.next_seqno \in Nat /\ t.next_seqno \in Nat
  BY DEF HostState
<1>. QED
  BY <1>1, <1>2 DEF Sendable, Grew

\* Appending to a queue keeps it contiguous if the new segment starts where
\* the last one ends.
LEMMA AppendTiles ==
    ASSUME NEW q \in Seq(Segment), NEW seg \in Segment,
           NEW first \in Nat, NEW last \in Nat,
           Tiles(q, first, last), seg.seqno = last
    PROVE  Tiles(Append(q, seg), first, End(seg))
<1> DEFINE r == Append(q, seg)
<1>1. /\ r \in Seq(Segment) /\ Len(r) = Len(q) + 1 /\ r # <<>>
      /\ r[Len(r)] = seg /\ \A i \in 1..Len(q) : r[i] = q[i]
  OBVIOUS
<1>2. ASSUME NEW i \in 1..(Len(r) - 1) PROVE End(r[i]) = r[i + 1].seqno
  <2>1. CASE i = Len(q)
    BY <2>1, <1>1 DEF Tiles
  <2>2. CASE i # Len(q)
    BY <2>2, <1>1, <1>2 DEF Tiles, Contiguous
  <2>. QED BY <2>1, <2>2
<1>3. r[1].seqno = first
  <2>1. CASE q = <<>>
    BY <2>1, <1>1 DEF Tiles
  <2>2. CASE q # <<>>
    BY <2>2, <1>1 DEF Tiles
  <2>. QED BY <2>1, <2>2
<1>. QED
  BY <1>1, <1>2, <1>3 DEF Tiles, Contiguous

LEMMA EmptyQueue ==
    \A q \in Seq(Segment) : Len(q) \in Nat /\ (Len(q) = 0 <=> q = <<>>)
<1>. TAKE q \in Seq(Segment)
<1>1. Len(<<>>) = 0 /\ Len(q) \in Nat
  OBVIOUS
<1>2. q # <<>> => Len(q) \in Nat \ {0}
  BY EmptySeq
<1>. QED BY <1>1, <1>2

\* Removing the front of a queue moves its start to the front's end.
LEMMA TailTiles ==
    ASSUME NEW q \in Seq(Segment), q # <<>>,
           NEW first \in Nat, NEW last \in Nat, Tiles(q, first, last)
    PROVE  /\ Tail(q) \in Seq(Segment)
           /\ Tiles(Tail(q), End(Head(q)), last)
<1>1. /\ Tail(q) \in Seq(Segment) /\ Len(Tail(q)) = Len(q) - 1
      /\ \A i \in 1..Len(Tail(q)) : Tail(q)[i] = q[i + 1]
      /\ Head(q) = q[1] /\ Len(q) \in Nat \ {0}
  BY HeadTailProperties, EmptyQueue
<1>2. Contiguous(Tail(q))
  BY <1>1 DEF Tiles, Contiguous
<1>3. CASE Len(q) = 1
  <2>0. Len(Tail(q)) = 0
    BY <1>1, <1>3
  <2>1. Tail(q) = <<>>
    BY <1>1, <2>0, EmptyQueue, Zenon
  <2>. QED
    BY <1>1, <1>2, <1>3, <2>1 DEF Tiles
<1>4. CASE Len(q) # 1
  <2>1. Len(Tail(q)) > 0 /\ Tail(q) # <<>>
    BY <1>1, <1>4, EmptyQueue
  <2>2. Tail(q)[1] = q[2] /\ Tail(q)[Len(Tail(q))] = q[Len(q)]
    BY <1>1, <2>1
  <2>. QED
    BY <1>1, <1>2, <1>4, <2>1, <2>2 DEF Tiles, Contiguous
<1>. QED BY <1>3, <1>4

-----------------------------------------------------------------------------
\* The library calls

LEMMA SendKeeps ==
    ASSUME NEW s, LocalInv(s), NEW seg, Sendable(s, seg)
    PROVE  LocalInv(conn_send(s, seg)) /\ Same(s, conn_send(s, seg))
<1> DEFINE sent  == convert_to_datagram(seg)
           w     == Append(s.wire, sent)
           t     == [s EXCEPT !.wire = w]
<1>1. conn_send(s, seg) = t
  BY DEF conn_send
<1>2. s \in HostState /\ s.wire \in Seq(Segment)
  BY DEF LocalInv, HostState
<1>3. /\ sent \in Segment /\ Sendable(s, sent)
  <2> DEFINE added == IF PiggybackAck THEN {"ACK"} ELSE {}
  <2>0. sent = [seg EXCEPT !.flags = @ \cup added]
    BY DEF convert_to_datagram
  <2>1. added \in SUBSET Flags /\ "FIN" \notin added
    BY DEF Flags
  <2>2. seg \in Segment /\ seg.flags \cup added \in SUBSET Flags
    BY <2>1 DEF Sendable, Segment
  <2>. HIDE DEF added, sent
  <2>3. /\ sent \in Segment /\ sent.ackno = seg.ackno /\ sent.data = seg.data
        /\ sent.seqno = seg.seqno /\ sent.flags = seg.flags \cup added
        /\ sent.window = seg.window
    BY <2>0, <2>2 DEF Segment
  <2>. QED BY <2>1, <2>3 DEF Sendable, End
<1>. HIDE DEF sent
<1>4. /\ w \in Seq(Segment) /\ Len(w) = Len(s.wire) + 1
      /\ \A i \in 1..Len(s.wire) : w[i] = s.wire[i]
      /\ w[Len(s.wire) + 1] = sent
  BY <1>2, <1>3, AppendProperties
<1>. HIDE DEF w
<1>5. t \in HostState /\ t.wire = w /\ Same(s, t)
  BY <1>2, <1>4 DEF HostState, Same
<1>6. \A m : Sendable(s, m) => Sendable(t, m)
  BY <1>5 DEF Sendable, Same
<1>7. \A i \in 1..Len(w) : Sendable(t, w[i])
  BY <1>2, <1>3, <1>4, <1>6 DEF LocalInv
<1>. HIDE DEF t
<1>8. LocalInv(t)
  BY <1>5, <1>6, <1>7 DEF LocalInv, Same
<1>. QED BY <1>1, <1>5, <1>8

\* What LocalInv says of a host depends on nothing but the fields in Same.
LEMMA SameKeeps ==
    ASSUME NEW s, NEW t \in HostState, LocalInv(s), Same(s, t), t.wire = s.wire
    PROVE  LocalInv(t)
<1>1. \A m : Sendable(s, m) => Sendable(t, m)
  BY DEF Sendable, Same
<1>. QED BY <1>1 DEF LocalInv, Same

LEMMA OutputKeeps ==
    ASSUME NEW s, LocalInv(s), NEW data \in Seq(Nat), NEW written \in 0..Len(data)
    PROVE  /\ LocalInv(conn_output(s, data, written))
           /\ Same(s, conn_output(s, data, written))
<1> DEFINE t == conn_output(s, data, written)
<1>1. s \in HostState /\ s.taken \in Seq(Nat) /\ s.queued \in Nat
  BY DEF LocalInv, HostState
<1>2. t \in HostState /\ Same(s, t) /\ t.wire = s.wire
  <2>1. CASE t = s
    BY <2>1, <1>1 DEF Same
  <2>2. CASE t = [s EXCEPT !.wrote_eof = TRUE]
    BY <2>2, <1>1 DEF Same, HostState
  <2> DEFINE taken == s.taken \o data
             queued == s.queued + Len(data) - (IF s.queued = 0 THEN written ELSE 0)
  <2>3. CASE t = [s EXCEPT !.taken = taken, !.queued = queued]
    <3>1. taken \in Seq(Nat) /\ queued \in Nat
      BY <1>1
    <3>. HIDE DEF taken, queued
    <3>. QED BY <2>3, <3>1, <1>1 DEF Same, HostState
  <2>4. \/ t = s \/ t = [s EXCEPT !.wrote_eof = TRUE]
        \/ t = [s EXCEPT !.taken = taken, !.queued = queued]
    <3>1. CASE s.wrote_eof
      BY <3>1 DEF conn_output
    <3>2. CASE ~s.wrote_eof /\ data = <<>>
      BY <3>2 DEF conn_output
    <3>3. CASE ~s.wrote_eof /\ data # <<>> /\ conn_bufspace(s) = 0
      BY <3>3 DEF conn_output
    <3>4. CASE ~s.wrote_eof /\ data # <<>> /\ conn_bufspace(s) # 0
      BY <3>4 DEF conn_output
    <3>. QED BY <3>1, <3>2, <3>3, <3>4
  <2>. QED BY <2>1, <2>2, <2>3, <2>4
<1>. QED BY <1>2, SameKeeps

LEMMA DrainKeeps ==
    ASSUME NEW s, LocalInv(s), NEW drained \in 1..s.queued
    PROVE  /\ LocalInv(conn_drain(s, drained))
           /\ Same(s, conn_drain(s, drained))
<1> DEFINE q == s.queued - drained
           t == [s EXCEPT !.queued = q]
<1>1. s \in HostState /\ s.queued \in Nat
  BY DEF LocalInv, HostState
<1>2. q \in Nat
  BY <1>1
<1>. HIDE DEF q
<1>3. t \in HostState /\ Same(s, t) /\ t.wire = s.wire
  BY <1>1, <1>2 DEF Same, HostState
<1>4. LocalInv(t)
  BY <1>3, SameKeeps
<1>5. conn_drain(s, drained) \in {t, conn_output(t, <<>>, 0)}
  BY DEF conn_drain, ctcp_output, q
<1>6. LocalInv(conn_output(t, <<>>, 0)) /\ Same(t, conn_output(t, <<>>, 0))
  <2>1. <<>> \in Seq(Nat) /\ 0 \in 0..Len(<<>>)
    OBVIOUS
  <2>. HIDE DEF t
  <2>. QED BY <1>4, <2>1, OutputKeeps
<1>. QED BY <1>3, <1>4, <1>5, <1>6 DEF Same

-----------------------------------------------------------------------------
\* Sending and reading

LEMMA AckKeeps ==
    ASSUME NEW s, LocalInv(s)
    PROVE  LocalInv(ctcp_send_ack(s)) /\ Same(s, ctcp_send_ack(s))
<1> DEFINE seg == [seqno |-> s.next_seqno, ackno |-> s.ackno, flags |-> {"ACK"},
                   window |-> s.recv_window, data |-> <<>>]
<1>1. s \in HostState
  BY DEF LocalInv
<1>2. seg \in Segment /\ End(seg) = s.next_seqno
  BY <1>1 DEF HostState, Segment, Flags, End
<1>3. Sendable(s, seg)
  BY <1>1, <1>2 DEF Sendable, HostState, LocalInv
<1>. QED BY <1>3, SendKeeps DEF ctcp_send_ack

\* A segment with the next sequence number joins the queue.
LEMMA EnqueueKeeps ==
    ASSUME NEW s, LocalInv(s), s.status = "open", ~s.FIN_sent,
           NEW seg \in Segment, seg.seqno = s.next_seqno, seg.ackno = s.ackno,
           "FIN" \notin seg.flags, seg.window \in Windows
    PROVE  /\ LocalInv(Enqueue(s, seg))
           /\ Sendable(Enqueue(s, seg), seg)
           /\ Grew(s, Enqueue(s, seg))
           /\ Enqueue(s, seg).ackno = s.ackno
           /\ Enqueue(s, seg).seqno = s.seqno
           /\ Enqueue(s, seg).read_finish = s.read_finish
           /\ Enqueue(s, seg).inputted = s.inputted
           /\ Enqueue(s, seg).FIN_sent = s.FIN_sent
           /\ Enqueue(s, seg).status = s.status
<1> DEFINE q == Append(s.segments, seg)
           next == s.next_seqno + Len(seg.data)
           t == [s EXCEPT !.segments = q, !.get_all_ack = FALSE, !.next_seqno = next]
<1>1. /\ s \in HostState /\ s.segments \in Seq(Segment)
      /\ s.next_seqno \in Nat /\ s.seqno \in Nat /\ s.ackno \in Nat
      /\ s.seqno <= s.next_seqno
  BY DEF LocalInv, HostState
<1>2. next \in Nat /\ s.next_seqno <= next /\ next = End(seg)
  BY <1>1 DEF Segment, End
<1>3. /\ q \in Seq(Segment) /\ Len(q) = Len(s.segments) + 1 /\ q # <<>>
      /\ \A i \in 1..Len(s.segments) : q[i] = s.segments[i]
      /\ q[Len(s.segments) + 1] = seg
  BY <1>1, AppendProperties
<1>4. Tiles(q, s.seqno, next)
  <2>1. Tiles(s.segments, s.seqno, s.next_seqno)
    BY DEF LocalInv
  <2>. QED BY <1>1, <1>2, <2>1, AppendTiles
<1>5. Enqueue(s, seg) = t
  BY DEF Enqueue
<1>. HIDE DEF q, next
<1>6. /\ t \in HostState /\ t.segments = q /\ t.next_seqno = next
      /\ ~t.get_all_ack /\ ~t.FIN_sent /\ t.FIN_sent = s.FIN_sent
      /\ t.seqno = s.seqno /\ t.ackno = s.ackno /\ t.wire = s.wire
      /\ t.status = s.status /\ t.read_finish = s.read_finish
      /\ t.send_window = s.send_window /\ t.recv_window = s.recv_window
      /\ t.inputted = s.inputted
  BY <1>1, <1>2, <1>3 DEF HostState
<1>. HIDE DEF t
<1>7. Grew(s, t)
  BY <1>1, <1>2, <1>6 DEF Grew
<1>8. Sendable(t, seg)
  BY <1>1, <1>2, <1>6 DEF Sendable
<1>9. \A m : Sendable(s, m) => Sendable(t, m)
  BY <1>1, <1>6, <1>7, SendableGrows
<1>10. \A i \in 1..Len(q) : Sendable(t, q[i])
  BY <1>1, <1>3, <1>8, <1>9 DEF LocalInv
<1>11. LocalInv(t)
  BY <1>1, <1>2, <1>4, <1>6, <1>9, <1>10 DEF LocalInv
<1>. QED BY <1>5, <1>6, <1>7, <1>8, <1>11

\* What a handler leaves to the step that takes its result: the invariant of
\* its own host, and how far that host may have moved.
HandlerKeeps(s, t) == LocalInv(t) /\ Grew(s, t)

LEMMA SameGrows ==
    ASSUME NEW s \in HostState, NEW t, Same(s, t)
    PROVE  Grew(s, t)
  BY DEF Same, Grew, HostState

LEMMA ReadKeeps ==
    ASSUME NEW s, LocalInv(s), s.status = "open", ~s.read_finish,
           NEW count \in Nat \ {0}, NEW throttled \in BOOLEAN
    PROVE  LET t == ctcp_read(s, count, throttled)
           IN  /\ HandlerKeeps(s, t)
               /\ t.ackno = s.ackno /\ t.seqno = s.seqno
               /\ ~t.read_finish
<1> DEFINE data == [i \in 1..count |-> s.inputted + i]
           n == s.inputted + count
           r == [s EXCEPT !.inputted = n]
           seg == DataSegment(r, data)
           u == Enqueue(r, seg)
<1>1. s \in HostState /\ s.inputted \in Nat
  BY DEF LocalInv, HostState
<1>2. data \in Seq(Nat)
  BY <1>1
<1>3. n \in Nat
  BY <1>1
<1>. HIDE DEF n, data
<1>4. /\ r \in HostState /\ r.wire = s.wire /\ r.status = s.status
      /\ r.segments = s.segments /\ r.seqno = s.seqno /\ r.ackno = s.ackno
      /\ r.next_seqno = s.next_seqno /\ r.read_finish = s.read_finish
      /\ r.FIN_sent = s.FIN_sent /\ r.get_all_ack = s.get_all_ack
      /\ r.send_window = s.send_window /\ r.recv_window = s.recv_window
  BY <1>1, <1>3 DEF HostState
<1>. HIDE DEF r
<1>5. LocalInv(r)
  <2>1. \A m : Sendable(s, m) => Sendable(r, m)
    BY <1>4 DEF Sendable
  <2>. QED BY <1>4, <2>1 DEF LocalInv
<1>6. Grew(s, r)
  BY <1>1, <1>4 DEF Grew, HostState
<1>7. ~r.FIN_sent
  BY <1>4 DEF LocalInv
<1>8. /\ seg \in Segment /\ seg.seqno = r.next_seqno /\ seg.ackno = r.ackno
      /\ "FIN" \notin seg.flags /\ seg.window \in Windows
  BY <1>2, <1>4 DEF DataSegment, Segment, Flags, HostState, LocalInv
<1>. HIDE DEF seg
<1>9. /\ LocalInv(u) /\ Sendable(u, seg) /\ Grew(r, u)
      /\ u.ackno = r.ackno /\ u.seqno = r.seqno /\ u.read_finish = r.read_finish
  BY <1>4, <1>5, <1>7, <1>8, EnqueueKeeps
<1>. HIDE DEF u
<1>10. u \in HostState
  BY <1>9 DEF LocalInv
<1>11. Grew(s, u)
  BY <1>1, <1>4, <1>6, <1>9, <1>10 DEF Grew, HostState
<1>12. LocalInv(conn_send(u, seg)) /\ Same(u, conn_send(u, seg))
  BY <1>9, SendKeeps
<1>13. ctcp_read(s, count, throttled) \in {u, conn_send(u, seg)}
  BY DEF ctcp_read, bbr_send, ctcp_send_data, u, seg, r, n, data
<1>. QED
  BY <1>4, <1>9, <1>11, <1>12, <1>13 DEF HandlerKeeps, Same, Grew

LEMMA ReadEofKeeps ==
    ASSUME NEW s, LocalInv(s)
    PROVE  LET t == ctcp_read_eof(s)
           IN  /\ HandlerKeeps(s, t)
               /\ t.ackno = s.ackno /\ t.seqno = s.seqno
               /\ t.inputted = s.inputted
<1> DEFINE t == ctcp_read_eof(s)
<1>1. s \in HostState
  BY DEF LocalInv
<1>2. /\ t \in HostState /\ t.wire = s.wire /\ t.status = s.status
      /\ t.segments = s.segments /\ t.seqno = s.seqno /\ t.ackno = s.ackno
      /\ t.next_seqno = s.next_seqno /\ t.read_finish
      /\ t.FIN_sent = s.FIN_sent /\ t.get_all_ack = s.get_all_ack
      /\ t.send_window = s.send_window /\ t.recv_window = s.recv_window
      /\ t.inputted = s.inputted
  BY <1>1 DEF ctcp_read_eof, HostState
<1>. HIDE DEF t
<1>3. Grew(s, t)
  BY <1>1, <1>2 DEF Grew, HostState
<1>4. \A m : Sendable(s, m) => Sendable(t, m)
  BY <1>2 DEF Sendable
<1>5. LocalInv(t)
  BY <1>2, <1>4 DEF LocalInv
<1>. QED BY <1>2, <1>3, <1>5 DEF HandlerKeeps, t

-----------------------------------------------------------------------------
\* Receiving

\* How far a peer's state allows an ackno to go.
Limit(p) == p.next_seqno + (IF p.FIN_sent THEN 1 ELSE 0)

\* What the receipt of a segment from peer p leaves of s.
Received(s, t, p) ==
    /\ HandlerKeeps(s, t)
    /\ t.ackno <= Limit(p) /\ t.seqno <= p.ackno
    /\ t.read_finish = s.read_finish /\ t.inputted = s.inputted
    /\ t.FIN_sent = s.FIN_sent

\* A change that leaves the queues and the positions in the stream alone, but
\* for an ackno that may advance and a status that may leave "open".
LEMMA FrameKeeps ==
    ASSUME NEW s, LocalInv(s), NEW t \in HostState,
           t.segments = s.segments, t.wire = s.wire,
           t.seqno = s.seqno, t.next_seqno = s.next_seqno, s.ackno <= t.ackno,
           t.FIN_sent = s.FIN_sent, t.read_finish = s.read_finish,
           t.get_all_ack = s.get_all_ack, t.status = "open" => s.status = "open",
           t.send_window = s.send_window, t.recv_window = s.recv_window
    PROVE  HandlerKeeps(s, t)
<1>1. s \in HostState
  BY DEF LocalInv
<1>2. Grew(s, t)
  BY <1>1 DEF Grew, HostState
<1>3. \A m : Sendable(s, m) => Sendable(t, m)
  BY <1>1, <1>2, SendableGrows
<1>4. LocalInv(t)
  BY <1>3 DEF LocalInv
<1>. QED BY <1>2, <1>4 DEF HandlerKeeps

LEMMA GrewTrans ==
    ASSUME NEW s \in HostState, NEW t \in HostState, NEW u \in HostState,
           Grew(s, t), Grew(t, u)
    PROVE  Grew(s, u)
<1>1. /\ s.ackno \in Nat /\ t.ackno \in Nat /\ u.ackno \in Nat
      /\ s.next_seqno \in Nat /\ t.next_seqno \in Nat /\ u.next_seqno \in Nat
      /\ s.seqno \in Nat /\ t.seqno \in Nat /\ u.seqno \in Nat
  BY DEF HostState
<1>2. s.ackno <= u.ackno /\ s.next_seqno <= u.next_seqno /\ s.seqno <= u.seqno
  BY <1>1 DEF Grew
<1>3. s.read_finish => u.read_finish
  BY DEF Grew
<1>4. s.FIN_sent => u.FIN_sent /\ u.next_seqno = s.next_seqno
  BY DEF Grew
<1>. QED BY <1>2, <1>3, <1>4 DEF Grew

LEMMA ReceivedTrans ==
    ASSUME NEW s, NEW t, NEW u, NEW p, LocalInv(s),
           Received(s, t, p), Received(t, u, p)
    PROVE  Received(s, u, p)
<1>1. s \in HostState /\ t \in HostState /\ u \in HostState
  BY DEF Received, HandlerKeeps, LocalInv
<1>. QED BY <1>1, GrewTrans DEF Received, HandlerKeeps

LEMMA ReceivedSame ==
    ASSUME NEW s, NEW t, NEW p, LocalInv(s), LocalInv(t), Same(s, t),
           s.ackno <= Limit(p), s.seqno <= p.ackno
    PROVE  Received(s, t, p)
<1>1. s \in HostState
  BY DEF LocalInv
<1>. QED BY <1>1, SameGrows DEF Received, HandlerKeeps, Same

LEMMA ReceiveDataKeeps ==
    ASSUME NEW s, LocalInv(s), NEW p \in HostState, NEW seg, Sendable(p, seg),
           NEW written \in 0..Len(seg.data),
           s.ackno <= Limit(p), s.seqno <= p.ackno
    PROVE  /\ Received(s, ReceiveData(s, seg, written), p)
           /\ ReceiveData(s, seg, written).status = s.status
<1> DEFINE n == s.ackno + Len(seg.data)
           r == [s EXCEPT !.ackno = n]
           u == ctcp_output(r, seg.data, written)
<1>1. s \in HostState /\ s.ackno \in Nat /\ seg.data \in Seq(Nat)
  BY DEF LocalInv, HostState, Sendable, Segment
<1>2. n \in Nat /\ s.ackno <= n
  BY <1>1
<1>3. CASE seg.seqno = s.ackno /\ conn_bufspace(s) >= Len(seg.data)
  <2>1. n <= Limit(p)
    <3>1. n = End(seg) /\ n <= p.next_seqno
      BY <1>1, <1>3 DEF Sendable, End
    <3>2. p.next_seqno \in Nat
      BY DEF HostState
    <3>. QED BY <1>2, <3>1, <3>2 DEF Limit
  <2>. HIDE DEF n
  <2>2. /\ r \in HostState /\ r.ackno = n /\ r.segments = s.segments
        /\ r.wire = s.wire /\ r.seqno = s.seqno /\ r.next_seqno = s.next_seqno
        /\ r.FIN_sent = s.FIN_sent /\ r.read_finish = s.read_finish
        /\ r.get_all_ack = s.get_all_ack /\ r.status = s.status
        /\ r.send_window = s.send_window /\ r.recv_window = s.recv_window
        /\ r.inputted = s.inputted
    BY <1>1, <1>2 DEF HostState
  <2>. HIDE DEF r
  <2>3. HandlerKeeps(s, r)
    BY <1>2, <2>2, FrameKeeps
  <2>4. Received(s, r, p)
    BY <2>1, <2>2, <2>3 DEF Received
  <2>5. LocalInv(u) /\ Same(r, u)
    <3>1. u \in {r, conn_output(r, seg.data, written)}
      BY DEF ctcp_output
    <3>2. LocalInv(r) /\ Same(r, r)
      BY <2>3 DEF HandlerKeeps, Same
    <3>. QED BY <1>1, <3>1, <3>2, OutputKeeps
  <2>. HIDE DEF u
  <2>6. LocalInv(ctcp_send_ack(u)) /\ Same(u, ctcp_send_ack(u))
    BY <2>5, AckKeeps
  <2>7. Same(r, ctcp_send_ack(u))
    BY <2>5, <2>6 DEF Same
  <2>8. Received(r, ctcp_send_ack(u), p)
    BY <2>1, <2>2, <2>3, <2>6, <2>7, ReceivedSame DEF HandlerKeeps
  <2>9. ReceiveData(s, seg, written) = ctcp_send_ack(u)
    BY <1>3 DEF ReceiveData, u, r, n
  <2>. QED BY <2>2, <2>4, <2>7, <2>8, <2>9, ReceivedTrans DEF Same
<1>4. CASE ~(seg.seqno = s.ackno /\ conn_bufspace(s) >= Len(seg.data))
  <2>1. ReceiveData(s, seg, written) = ctcp_send_ack(s)
    BY <1>4 DEF ReceiveData
  <2>2. LocalInv(ctcp_send_ack(s)) /\ Same(s, ctcp_send_ack(s))
    BY AckKeeps
  <2>3. Received(s, ctcp_send_ack(s), p)
    BY <2>2, ReceivedSame
  <2>. QED BY <2>1, <2>2, <2>3 DEF Same
<1>. QED BY <1>3, <1>4

\* Removing the acknowledged front of the queue.
LEMMA PopKeeps ==
    ASSUME NEW s, LocalInv(s), s.status = "open", s.segments # <<>>,
           NEW t \in HostState, t.segments = Tail(s.segments),
           t.seqno = End(Head(s.segments)), t.wire = s.wire,
           t.next_seqno = s.next_seqno, t.ackno = s.ackno,
           t.FIN_sent = s.FIN_sent, t.read_finish = s.read_finish,
           t.get_all_ack = s.get_all_ack,
           t.send_window \in Windows, t.recv_window \in Windows
    PROVE  HandlerKeeps(s, t)
<1> DEFINE q == s.segments
<1>1. /\ s \in HostState /\ q \in Seq(Segment)
      /\ s.seqno \in Nat /\ s.next_seqno \in Nat /\ s.ackno \in Nat
  BY DEF LocalInv, HostState
<1>2. Tiles(q, s.seqno, s.next_seqno)
  BY DEF LocalInv
<1>3. /\ Len(q) \in Nat \ {0} /\ Head(q) = q[1]
      /\ Len(Tail(q)) = Len(q) - 1
      /\ \A i \in 1..Len(Tail(q)) : Tail(q)[i] = q[i + 1]
  BY <1>1, HeadTailProperties, EmptyQueue
<1>4. Sendable(s, q[1])
  BY <1>3 DEF LocalInv
<1>5. s.seqno <= t.seqno /\ t.seqno <= s.next_seqno
  <2>1. q[1].seqno = s.seqno /\ Len(q[1].data) \in Nat
    BY <1>2, <1>4 DEF Tiles, Sendable, Segment
  <2>. QED BY <1>1, <1>3, <1>4, <2>1 DEF Sendable, End
<1>6. t.seqno \in Nat
  BY DEF HostState
<1>7. Tiles(t.segments, t.seqno, t.next_seqno)
  BY <1>1, <1>2, TailTiles
<1>8. Grew(s, t)
  BY <1>1, <1>5 DEF Grew
<1>9. \A m : Sendable(s, m) => Sendable(t, m)
  BY <1>1, <1>8, SendableGrows
<1>10. \A i \in 1..Len(t.segments) : Sendable(t, t.segments[i])
  BY <1>3, <1>9 DEF LocalInv
<1>11. t.FIN_sent => t.seqno = t.next_seqno /\ t.read_finish
  BY <1>1, <1>5, <1>6 DEF LocalInv
<1>12. LocalInv(t)
  BY <1>5, <1>7, <1>9, <1>10, <1>11 DEF LocalInv
<1>. QED BY <1>8, <1>12 DEF HandlerKeeps

\* What PopFront changes.
LEMMA PopFrontFields ==
    ASSUME NEW s \in HostState, s.segments # <<>>
    PROVE  LET t == PopFront(s)
           IN  /\ t \in HostState /\ t.segments = Tail(s.segments)
               /\ t.wire = s.wire /\ t.status = s.status
               /\ t.seqno = s.seqno /\ t.next_seqno = s.next_seqno
               /\ t.ackno = s.ackno /\ t.FIN_sent = s.FIN_sent
               /\ t.read_finish = s.read_finish
               /\ t.send_window = s.send_window /\ t.recv_window = s.recv_window
               /\ t.get_all_ack = s.get_all_ack /\ t.inputted = s.inputted
<1> DEFINE q == Tail(s.segments)
           t == PopFront(s)
<1>1. q \in Seq(Segment)
  <2>1. s.segments \in Seq(Segment)
    BY DEF HostState
  <2>. QED BY <2>1, HeadTailProperties
<1>2. t = [s EXCEPT !.segments = q, !.retrans_count = 0]
  BY DEF PopFront
<1>. HIDE DEF q, t
<1>3. /\ t \in HostState /\ t.segments = q
      /\ t.wire = s.wire /\ t.status = s.status
      /\ t.seqno = s.seqno /\ t.next_seqno = s.next_seqno
      /\ t.ackno = s.ackno /\ t.FIN_sent = s.FIN_sent
      /\ t.read_finish = s.read_finish
      /\ t.send_window = s.send_window /\ t.recv_window = s.recv_window
      /\ t.get_all_ack = s.get_all_ack /\ t.inputted = s.inputted
  BY <1>1, <1>2 DEF HostState
<1>. QED BY <1>3 DEF q, t

LEMMA FinAckedKeeps ==
    ASSUME NEW s, LocalInv(s), s.status = "open", NEW p \in HostState,
           NEW seg, IsFinAck(s, seg), s.ackno <= Limit(p), s.seqno <= p.ackno
    PROVE  Received(s, FinAcked(s), p)
<1> DEFINE t == FinAcked(s)
<1>1. s \in HostState /\ s.segments \in Seq(Segment)
  BY DEF LocalInv, HostState
<1>2. CASE s.segments = <<>>
  <2>1. /\ t \in HostState /\ t.segments = s.segments /\ t.wire = s.wire
        /\ t.seqno = s.seqno /\ t.next_seqno = s.next_seqno
        /\ t.ackno = s.ackno /\ t.FIN_sent = s.FIN_sent
        /\ t.read_finish = s.read_finish /\ t.get_all_ack = s.get_all_ack
        /\ t.send_window = s.send_window /\ t.recv_window = s.recv_window
        /\ t.inputted = s.inputted /\ t.status = "crashed"
    BY <1>1, <1>2 DEF FinAcked, HostState, Statuses
  <2>2. s.ackno \in Nat
    BY <1>1 DEF HostState
  <2>. HIDE DEF t
  <2>3. HandlerKeeps(s, t)
    BY <2>1, <2>2, FrameKeeps
  <2>. QED BY <2>1, <2>3 DEF Received, t
<1>3. CASE s.segments # <<>>
  <2> DEFINE r == [s EXCEPT !.FIN_received = TRUE]
  <2>1. /\ r \in HostState /\ r.segments = s.segments /\ r.wire = s.wire
        /\ r.seqno = s.seqno /\ r.next_seqno = s.next_seqno
        /\ r.ackno = s.ackno /\ r.FIN_sent = s.FIN_sent
        /\ r.read_finish = s.read_finish /\ r.get_all_ack = s.get_all_ack
        /\ r.send_window = s.send_window /\ r.recv_window = s.recv_window
        /\ r.inputted = s.inputted
    BY <1>1 DEF HostState
  <2>2. t = PopFront(r)
    BY <1>3 DEF FinAcked
  <2>. HIDE DEF r, t
  <2>3. /\ t \in HostState /\ t.segments = Tail(s.segments) /\ t.wire = s.wire
        /\ t.seqno = s.seqno /\ t.next_seqno = s.next_seqno
        /\ t.ackno = s.ackno /\ t.FIN_sent = s.FIN_sent
        /\ t.read_finish = s.read_finish /\ t.get_all_ack = s.get_all_ack
        /\ t.send_window = s.send_window /\ t.recv_window = s.recv_window
        /\ t.inputted = s.inputted
    BY <1>3, <2>1, <2>2, PopFrontFields
  <2>4. s.seqno = End(Head(s.segments))
    <3>1. s.seqno = s.next_seqno /\ s.seqno \in Nat
      BY <1>1 DEF IsFinAck, LocalInv, HostState
    <3>2. Head(s.segments) = s.segments[1] /\ Len(s.segments) \in Nat \ {0}
      BY <1>1, <1>3, HeadTailProperties, EmptyQueue
    <3>3. Sendable(s, s.segments[1]) /\ s.segments[1].seqno = s.seqno
      BY <1>3, <3>2 DEF LocalInv, Tiles
    <3>4. Len(s.segments[1].data) \in Nat
      BY <3>3 DEF Sendable, Segment
    <3>. QED BY <3>1, <3>2, <3>3, <3>4 DEF Sendable, End
  <2>5. s.send_window \in Windows /\ s.recv_window \in Windows
    BY DEF LocalInv
  <2>6. HandlerKeeps(s, t)
    BY <1>3, <2>3, <2>4, <2>5, PopKeeps
  <2>. QED BY <2>3, <2>6 DEF Received, t
<1>. QED BY <1>2, <1>3

\* An ACK that names the end of the front, or goes past it.
LEMMA AckedFrontKeeps ==
    ASSUME NEW s, LocalInv(s), s.status = "open", s.segments # <<>>,
           NEW p \in HostState, NEW seg, Sendable(p, seg),
           End(Head(s.segments)) <= seg.ackno,
           s.ackno <= Limit(p)
    PROVE  Received(s, ExactAck(s, seg), p) /\ Received(s, LargerAck(s), p)
<1> DEFINE front == End(Head(s.segments))
           r == PopFront(s)
<1>1. s \in HostState /\ s.segments \in Seq(Segment)
  BY DEF LocalInv, HostState
<1>2. front \in Nat
  <2>1. Head(s.segments) \in Segment
    BY <1>1, HeadTailProperties
  <2>. QED BY <2>1 DEF Segment, End
<1>3. seg.window \in Nat /\ seg.window \in Windows
      /\ seg.ackno \in Nat /\ seg.ackno <= p.ackno
      /\ p.ackno \in Nat
  BY DEF Sendable, Segment, HostState
<1>4. front <= p.ackno
  BY <1>2, <1>3
<1>5. /\ r \in HostState /\ r.segments = Tail(s.segments)
      /\ r.wire = s.wire /\ r.next_seqno = s.next_seqno
      /\ r.ackno = s.ackno /\ r.FIN_sent = s.FIN_sent
      /\ r.read_finish = s.read_finish
      /\ r.send_window = s.send_window /\ r.recv_window = s.recv_window
      /\ r.get_all_ack = s.get_all_ack /\ r.inputted = s.inputted
  BY <1>1, PopFrontFields
<1>6. s.send_window \in Windows /\ s.recv_window \in Windows
  BY DEF LocalInv
<1>7. /\ ExactAck(s, seg) = [r EXCEPT !.seqno = front, !.send_window = seg.window]
      /\ LargerAck(s) = [r EXCEPT !.seqno = front]
  BY DEF ExactAck, LargerAck
<1>. HIDE DEF front, r
<1>8. ASSUME NEW t, t \in {ExactAck(s, seg), LargerAck(s)}
      PROVE  Received(s, t, p)
  <2>1. /\ t \in HostState /\ t.segments = Tail(s.segments) /\ t.wire = s.wire
        /\ t.seqno = front /\ t.next_seqno = s.next_seqno
        /\ t.ackno = s.ackno /\ t.FIN_sent = s.FIN_sent
        /\ t.read_finish = s.read_finish /\ t.get_all_ack = s.get_all_ack
        /\ t.send_window \in Windows /\ t.recv_window \in Windows
        /\ t.inputted = s.inputted
    <3>1. CASE t = ExactAck(s, seg)
      <4> DEFINE u == [r EXCEPT !.seqno = front]
      <4>1. u \in HostState /\ t = [u EXCEPT !.send_window = seg.window]
        BY <1>2, <1>5, <1>7, <3>1 DEF HostState
      <4>2. t \in HostState
        BY <1>3, <4>1 DEF HostState
      <4>. QED BY <1>3, <1>5, <1>7, <1>6, <3>1, <4>2 DEF HostState
    <3>2. CASE t = LargerAck(s)
      <4>1. t \in HostState
        BY <1>2, <1>5, <1>7, <3>2 DEF HostState
      <4>. QED BY <1>5, <1>7, <1>6, <3>2, <4>1 DEF HostState
    <3>. QED BY <1>8, <3>1, <3>2
  <2>2. HandlerKeeps(s, t)
    BY <2>1, PopKeeps DEF front
  <2>. QED BY <1>4, <2>1, <2>2 DEF Received
<1>. QED BY <1>8

LEMMA ReceiveAckKeeps ==
    ASSUME NEW s, LocalInv(s), s.status = "open", NEW p \in HostState,
           NEW seg, Sendable(p, seg), s.ackno <= Limit(p), s.seqno <= p.ackno
    PROVE  Received(s, ReceiveAck(s, seg), p)
<1>1. CASE IsFinAck(s, seg)
  BY <1>1, FinAckedKeeps DEF ReceiveAck
<1>2. CASE ~IsFinAck(s, seg) /\ s.segments = <<>>
  <2>1. ReceiveAck(s, seg) = s /\ Same(s, s)
    BY <1>2 DEF ReceiveAck, Same
  <2>. QED BY <2>1, ReceivedSame
<1>3. CASE ~IsFinAck(s, seg) /\ s.segments # <<>>
  <2> DEFINE front == End(Head(s.segments))
  <2>1. s \in HostState /\ s.segments \in Seq(Segment)
    BY DEF LocalInv, HostState
  <2>2. Head(s.segments) \in Segment /\ Head(s.segments) = s.segments[1]
        /\ Len(s.segments) \in Nat \ {0}
    BY <1>3, <2>1, HeadTailProperties, EmptyQueue
  <2>3. front \in Nat /\ seg.ackno \in Nat
    BY <2>2, SMTT(20) DEF Segment, End, Sendable
  <2>4. CASE front = seg.ackno
    <3>1. ReceiveAck(s, seg) = ExactAck(s, seg)
      BY <1>3, <2>3, <2>4 DEF ReceiveAck
    <3>. QED BY <1>3, <2>3, <2>4, <3>1, AckedFrontKeeps
  <2>5. CASE front < seg.ackno
    <3>1. ReceiveAck(s, seg) = LargerAck(s)
      BY <1>3, <2>3, <2>5 DEF ReceiveAck
    <3>. QED BY <1>3, <2>3, <2>5, <3>1, AckedFrontKeeps
  <2>6. CASE front > seg.ackno
    <3>1. ReceiveAck(s, seg) = SmallerAck(s)
      BY <1>3, <2>3, <2>6 DEF ReceiveAck
    <3>2. Sendable(s, Head(s.segments))
      BY <2>2 DEF LocalInv
    <3>. QED BY <3>1, <3>2, SendKeeps, ReceivedSame DEF SmallerAck
  <2>. QED BY <2>3, <2>4, <2>5, <2>6
<1>. QED BY <1>1, <1>2, <1>3

\* The fields FrameKeeps asks about, when only the acceptance flags change.
LEMMA FlagKeeps ==
    ASSUME NEW s, LocalInv(s), NEW t, NEW p,
           s.ackno <= Limit(p), s.seqno <= p.ackno,
           \/ t = [s EXCEPT !.FIN_received = TRUE]
           \/ t = [s EXCEPT !.all_recv_output = TRUE]
    PROVE  Received(s, t, p) /\ t.ackno = s.ackno
<1>1. s \in HostState /\ s.ackno \in Nat
  BY DEF LocalInv, HostState
<1>2. /\ t \in HostState /\ t.segments = s.segments /\ t.wire = s.wire
      /\ t.seqno = s.seqno /\ t.next_seqno = s.next_seqno
      /\ t.ackno = s.ackno /\ t.FIN_sent = s.FIN_sent
      /\ t.read_finish = s.read_finish /\ t.get_all_ack = s.get_all_ack
      /\ t.send_window = s.send_window /\ t.recv_window = s.recv_window
      /\ t.inputted = s.inputted /\ t.status = s.status
  BY <1>1 DEF HostState
<1>3. HandlerKeeps(s, t)
  BY <1>1, <1>2, FrameKeeps
<1>. QED BY <1>2, <1>3 DEF Received

LEMMA ReceiveFinKeeps ==
    ASSUME NEW s, LocalInv(s), NEW p \in HostState, NEW seg, Sendable(p, seg),
           "FIN" \in seg.flags, s.ackno <= Limit(p), s.seqno <= p.ackno
    PROVE  Received(s, ReceiveFin(s, seg), p)
<1> DEFINE r == [s EXCEPT !.FIN_received = TRUE]
           n == r.ackno + 1
           a == [r EXCEPT !.ackno = n]
           b == ctcp_send_ack(a)
           c == conn_output(b, <<>>, 0)
           d == [c EXCEPT !.all_recv_output = TRUE]
<1>1. Received(s, r, p) /\ r.ackno = s.ackno
  BY FlagKeeps
<1>2. LocalInv(r) /\ r \in HostState /\ r.ackno \in Nat
  BY <1>1 DEF Received, HandlerKeeps, LocalInv, HostState
<1>3. CASE seg.seqno = r.ackno
  <2>1. n \in Nat /\ r.ackno <= n /\ n <= Limit(p)
    <3>1. seg.seqno = p.next_seqno /\ p.FIN_sent
      BY DEF Sendable
    <3>. QED BY <1>2, <1>3, <3>1 DEF Limit
  <2>2. /\ a \in HostState /\ a.ackno = n /\ a.segments = r.segments
        /\ a.wire = r.wire /\ a.seqno = r.seqno /\ a.next_seqno = r.next_seqno
        /\ a.FIN_sent = r.FIN_sent /\ a.read_finish = r.read_finish
        /\ a.get_all_ack = r.get_all_ack /\ a.status = r.status
        /\ a.send_window = r.send_window /\ a.recv_window = r.recv_window
        /\ a.inputted = r.inputted
    <3>. HIDE DEF r, n
    <3>. QED BY <1>2, <2>1 DEF HostState
  <2>3. ReceiveFin(s, seg) = d
    BY <1>3 DEF ReceiveFin
  <2>. HIDE DEF r, n, a
  <2>4. HandlerKeeps(r, a)
    BY <1>2, <2>1, <2>2, FrameKeeps
  <2>5. Received(r, a, p)
    BY <1>1, <2>1, <2>2, <2>4 DEF Received
  <2>6. LocalInv(b) /\ Same(a, b)
    BY <2>4, AckKeeps DEF HandlerKeeps
  <2>. HIDE DEF b
  <2>7. LocalInv(c) /\ Same(b, c)
    <3>1. <<>> \in Seq(Nat) /\ 0 \in 0..Len(<<>>)
      OBVIOUS
    <3>. QED BY <2>6, <3>1, OutputKeeps
  <2>. HIDE DEF c
  <2>8. Same(a, c)
    BY <2>6, <2>7 DEF Same
  <2>9. Received(a, c, p)
    BY <2>4, <2>5, <2>7, <2>8, ReceivedSame DEF HandlerKeeps, Received
  <2>10. Received(c, d, p)
    BY <2>7, <2>9, FlagKeeps DEF Received
  <2>. HIDE DEF d
  <2>11. LocalInv(a)
    BY <2>4 DEF HandlerKeeps
  <2>12. Received(a, d, p)
    BY <2>9, <2>10, <2>11, ReceivedTrans
  <2>13. Received(r, d, p)
    BY <1>2, <2>5, <2>12, ReceivedTrans
  <2>. QED BY <1>1, <2>3, <2>13, ReceivedTrans
<1>4. CASE seg.seqno # r.ackno
  BY <1>1, <1>4 DEF ReceiveFin
<1>. QED BY <1>3, <1>4

\* What ctcp_receive leaves, whatever segment of the peer's it is given.
LEMMA ReceiveKeeps ==
    ASSUME NEW s, LocalInv(s), s.status = "open", NEW p \in HostState,
           NEW seg, Sendable(p, seg), NEW written \in 0..Len(seg.data),
           s.ackno <= Limit(p), s.seqno <= p.ackno
    PROVE  Received(s, ctcp_receive(s, seg, written), p)
<1> DEFINE a == IF HasData(seg) THEN ReceiveData(s, seg, written) ELSE s
           b == IF "ACK" \in seg.flags THEN ReceiveAck(a, seg) ELSE a
           c == IF "FIN" \in seg.flags /\ ~IsFinAck(a, seg)
                THEN ReceiveFin(b, seg) ELSE b
<1>1. \A t : LocalInv(t) /\ t.ackno <= Limit(p) /\ t.seqno <= p.ackno
               => Received(t, t, p)
  BY ReceivedSame DEF Same
<1>2. Received(s, a, p) /\ a.status = "open"
  <2>1. CASE HasData(seg)
    BY <2>1, ReceiveDataKeeps
  <2>2. CASE ~HasData(seg)
    BY <1>1, <2>2
  <2>. QED BY <2>1, <2>2
<1>. HIDE DEF a
<1>3. LocalInv(a) /\ a.ackno <= Limit(p) /\ a.seqno <= p.ackno
  BY <1>2 DEF Received, HandlerKeeps
<1>4. Received(a, b, p)
  BY <1>1, <1>2, <1>3, ReceiveAckKeeps
<1>. HIDE DEF b
<1>5. LocalInv(b) /\ b.ackno <= Limit(p) /\ b.seqno <= p.ackno
  BY <1>4 DEF Received, HandlerKeeps
<1>6. Received(b, c, p)
  BY <1>1, <1>5, ReceiveFinKeeps
<1>. HIDE DEF c
<1>7. Received(s, c, p)
  BY <1>2, <1>3, <1>4, <1>6, ReceivedTrans
<1>8. ctcp_receive(s, seg, written) = IF Ignored(s, seg) THEN s ELSE c
  BY DEF ctcp_receive, a, b, c
<1>. QED BY <1>1, <1>7, <1>8

-----------------------------------------------------------------------------
\* The timer

\* What the timer leaves alone.
Ticked(s, t) ==
    /\ HandlerKeeps(s, t)
    /\ t.ackno = s.ackno /\ t.seqno = s.seqno
    /\ t.read_finish = s.read_finish /\ t.inputted = s.inputted

LEMMA TickedTrans ==
    ASSUME NEW s, NEW t, NEW u, LocalInv(s), Ticked(s, t), Ticked(t, u)
    PROVE  Ticked(s, u)
<1>1. s \in HostState /\ t \in HostState /\ u \in HostState
  BY DEF Ticked, HandlerKeeps, LocalInv
<1>. QED BY <1>1, GrewTrans DEF Ticked, HandlerKeeps

LEMMA TickedSame ==
    ASSUME NEW s, NEW t, LocalInv(s), LocalInv(t), Same(s, t)
    PROVE  Ticked(s, t)
<1>1. s \in HostState
  BY DEF LocalInv
<1>. QED BY <1>1, SameGrows DEF Ticked, HandlerKeeps, Same

\* The FIN joins an empty queue, at the end of the stream.
LEMMA SendFinKeeps ==
    ASSUME NEW s, LocalInv(s), s.status = "open"
    PROVE  Ticked(s, SendFinIfDone(s)) /\ SendFinIfDone(s).status = "open"
<1>1. /\ s \in HostState /\ s.next_seqno \in Nat /\ s.ackno \in Nat
      /\ s.seqno \in Nat
  BY DEF LocalInv, HostState
<1>2. CASE s.read_finish /\ s.get_all_ack /\ ~s.FIN_sent
  <2> DEFINE f == FinSegment(s)
             q == <<f>>
             e == Enqueue(s, f)
             v == [e EXCEPT !.FIN_sent = TRUE]
  <2>1. /\ f \in Segment /\ f.seqno = s.next_seqno /\ f.ackno = s.ackno
        /\ f.data = <<>> /\ End(f) = s.next_seqno /\ f.flags = {"FIN"}
        /\ f.window \in Windows
    BY <1>1 DEF FinSegment, Segment, Flags, End, HostState, LocalInv
  <2>2. s.segments = <<>> /\ s.seqno = s.next_seqno
    BY <1>2 DEF LocalInv, Tiles
  <2>. HIDE DEF f
  <2>3. q \in Seq(Segment) /\ Len(q) = 1 /\ q[1] = f /\ q # <<>>
    BY <2>1
  <2>4. e = [s EXCEPT !.segments = q, !.get_all_ack = FALSE,
                      !.next_seqno = s.next_seqno]
    <3> DEFINE next == s.next_seqno + Len(f.data)
    <3>1. next = s.next_seqno
      BY <1>1, <2>1
    <3>2. Append(s.segments, f) = q
      BY <2>2
    <3>3. e = [s EXCEPT !.segments = Append(s.segments, f), !.get_all_ack = FALSE,
                        !.next_seqno = next]
      BY DEF Enqueue
    <3>. HIDE DEF next, q, e
    <3>. QED BY <3>1, <3>2, <3>3
  <2>. HIDE DEF q, e
  <2>5. /\ e \in HostState /\ e.segments = q /\ e.next_seqno = s.next_seqno
        /\ ~e.get_all_ack /\ e.seqno = s.seqno /\ e.ackno = s.ackno
        /\ e.wire = s.wire /\ e.status = s.status
        /\ e.send_window = s.send_window /\ e.recv_window = s.recv_window
        /\ e.read_finish = s.read_finish /\ e.inputted = s.inputted
    BY <1>1, <2>3, <2>4 DEF HostState
  <2>6. /\ v \in HostState /\ v.segments = q /\ v.next_seqno = s.next_seqno
        /\ ~v.get_all_ack /\ v.seqno = s.seqno /\ v.ackno = s.ackno
        /\ v.wire = s.wire /\ v.status = s.status /\ v.FIN_sent
        /\ v.send_window = s.send_window /\ v.recv_window = s.recv_window
        /\ v.read_finish = s.read_finish /\ v.inputted = s.inputted
    BY <2>5 DEF HostState
  <2>7. SendFinIfDone(s) = conn_send(v, f)
    <3> DEFINE w == Append(e.wire, convert_to_datagram(f))
    <3>1. SendFinIfDone(s) = [[e EXCEPT !.wire = w] EXCEPT !.FIN_sent = TRUE]
      BY <1>2 DEF SendFinIfDone, ctcp_send_fin, conn_send, e, f
    <3>2. v.wire = e.wire
      BY <2>5, <2>6
    <3>3. conn_send(v, f) = [v EXCEPT !.wire = w]
      BY <3>2 DEF conn_send
    <3>. HIDE DEF w
    <3>. QED BY <2>5, <3>1, <3>3 DEF HostState
  <2>. HIDE DEF v
  <2>8. Grew(s, v)
    BY <1>1, <1>2, <2>6 DEF Grew
  <2>9. \A m : Sendable(s, m) => Sendable(v, m)
    BY <1>1, <2>6, <2>8, SendableGrows
  <2>10. Sendable(v, f)
    BY <1>1, <1>2, <2>1, <2>6 DEF Sendable
  <2>11. Tiles(v.segments, v.seqno, v.next_seqno)
    <3>1. Contiguous(q)
      BY <2>3 DEF Contiguous
    <3>2. End(q[Len(q)]) = s.next_seqno /\ q[1].seqno = s.seqno
      BY <2>1, <2>2, <2>3
    <3>. QED BY <2>3, <2>6, <3>1, <3>2 DEF Tiles
  <2>12. LocalInv(v)
    <3>1. \A i \in 1..Len(v.segments) : Sendable(v, v.segments[i])
      <4>1. \A i \in 1..Len(q) : q[i] = f
        BY <2>3
      <4>. QED BY <2>6, <2>10, <4>1
    <3>2. \A i \in 1..Len(v.wire) : Sendable(v, v.wire[i])
      BY <2>6, <2>9 DEF LocalInv
    <3>3. v.seqno = v.next_seqno /\ v.next_seqno <= v.next_seqno
      BY <1>1, <2>2, <2>6
    <3>4. /\ v \in HostState /\ v.read_finish /\ ~v.get_all_ack
          /\ v.send_window \in Windows /\ v.recv_window \in Windows
      BY <1>2, <2>6 DEF LocalInv
    <3>. QED BY <2>11, <3>1, <3>2, <3>3, <3>4 DEF LocalInv
  <2>13. Ticked(s, v)
    BY <2>6, <2>8, <2>12 DEF Ticked, HandlerKeeps
  <2>14. LocalInv(conn_send(v, f)) /\ Same(v, conn_send(v, f))
    BY <2>10, <2>12, SendKeeps
  <2>15. Ticked(v, conn_send(v, f))
    BY <2>12, <2>14, TickedSame
  <2>16. conn_send(v, f).status = "open"
    BY <2>6, <2>14 DEF Same
  <2>. QED BY <2>7, <2>13, <2>15, <2>16, TickedTrans
<1>3. CASE ~(s.read_finish /\ s.get_all_ack /\ ~s.FIN_sent)
  <2>1. SendFinIfDone(s) = s /\ Same(s, s)
    BY <1>3 DEF SendFinIfDone, Same
  <2>. QED BY <2>1, TickedSame
<1>. QED BY <1>2, <1>3

LEMMA DestroyKeeps ==
    ASSUME NEW s, LocalInv(s), NEW why \in {"finished", "gave_up"}
    PROVE  Ticked(s, ctcp_destroy(s, why))
<1> DEFINE t == ctcp_destroy(s, why)
<1>1. s \in HostState
  BY DEF LocalInv
<1>2. <<>> \in Seq(Segment) /\ Len(<<>>) = 0
  OBVIOUS
<1>3. /\ t \in HostState /\ t.segments = <<>> /\ t.wire = s.wire
      /\ t.seqno = s.seqno /\ t.next_seqno = s.next_seqno
      /\ t.ackno = s.ackno /\ t.FIN_sent = s.FIN_sent
      /\ t.read_finish = s.read_finish /\ t.inputted = s.inputted
      /\ t.send_window = s.send_window /\ t.recv_window = s.recv_window
      /\ t.status # "open"
  BY <1>1, <1>2 DEF ctcp_destroy, HostState, Statuses
<1>. HIDE DEF t
<1>4. Grew(s, t)
  BY <1>1, <1>3 DEF Grew, HostState
<1>5. \A m : Sendable(s, m) => Sendable(t, m)
  BY <1>1, <1>3, <1>4, SendableGrows
<1>6. \A i \in 1..Len(t.segments) : Sendable(t, t.segments[i])
  BY <1>2, <1>3
<1>7. LocalInv(t)
  BY <1>3, <1>5, <1>6 DEF LocalInv
<1>. QED BY <1>3, <1>4, <1>7 DEF Ticked, HandlerKeeps, t

LEMMA RetransmitKeeps ==
    ASSUME NEW s, LocalInv(s), s.status = "open", s.segments # <<>>,
           NEW stale_log \in {"ignored", "crash"}
    PROVE  Ticked(s, Retransmit(s, stale_log))
<1> DEFINE u == conn_send(s, Head(s.segments))
           n == u.retrans_count + 1
           why == IF s.FIN_sent /\ stale_log = "crash" THEN "crashed" ELSE u.status
           t == [u EXCEPT !.retrans_count = n, !.status = why]
<1>1. s \in HostState /\ s.segments \in Seq(Segment)
  BY DEF LocalInv, HostState
<1>2. Sendable(s, Head(s.segments))
  <2>1. Head(s.segments) = s.segments[1] /\ Len(s.segments) \in Nat \ {0}
    BY <1>1, HeadTailProperties, EmptyQueue
  <2>. QED BY <2>1 DEF LocalInv
<1>3. LocalInv(u) /\ Same(s, u)
  BY <1>2, SendKeeps
<1>4. Retransmit(s, stale_log) = t
  BY DEF Retransmit
<1>. HIDE DEF u
<1>5. u \in HostState /\ n \in Nat /\ u.ackno \in Nat
  <2>1. u \in HostState
    BY <1>3 DEF LocalInv
  <2>. QED BY <2>1 DEF HostState
<1>6. why \in Statuses
  BY <1>3, <1>5 DEF Statuses, HostState
<1>7. u.status = "open"
  BY <1>3 DEF Same
<1>. HIDE DEF n, why
<1>8. /\ t \in HostState /\ t.segments = u.segments /\ t.wire = u.wire
      /\ t.seqno = u.seqno /\ t.next_seqno = u.next_seqno
      /\ t.ackno = u.ackno /\ t.FIN_sent = u.FIN_sent
      /\ t.read_finish = u.read_finish /\ t.get_all_ack = u.get_all_ack
      /\ t.send_window = u.send_window /\ t.recv_window = u.recv_window
      /\ t.inputted = u.inputted
  BY <1>5, <1>6 DEF HostState
<1>. HIDE DEF t
<1>9. HandlerKeeps(u, t)
  BY <1>3, <1>5, <1>7, <1>8, FrameKeeps
<1>10. Ticked(u, t)
  BY <1>8, <1>9 DEF Ticked
<1>11. Ticked(s, u)
  BY <1>3, TickedSame
<1>. QED BY <1>4, <1>10, <1>11, TickedTrans

LEMMA TimerKeeps ==
    ASSUME NEW s, LocalInv(s), s.status = "open",
           NEW expired \in BOOLEAN, NEW stale_log \in {"ignored", "crash"}
    PROVE  Ticked(s, ctcp_timer(s, expired, stale_log))
<1> DEFINE t == SendFinIfDone(s)
           u == ctcp_timer(s, expired, stale_log)
<1>1. Ticked(s, t) /\ t.status = "open" /\ LocalInv(t)
  BY SendFinKeeps DEF Ticked, HandlerKeeps
<1>2. /\ t \in HostState /\ t.retrans_count \in Nat
  BY <1>1 DEF LocalInv, HostState
<1>3. Ticked(t, u)
  <2>1. CASE TeardownReady(t)
    <3>1. u = ctcp_destroy(t, "finished")
      BY <2>1 DEF ctcp_timer
    <3>. QED BY <1>1, <3>1, DestroyKeeps
  <2>2. CASE t.segments = <<>> /\ ~TeardownReady(t)
    <3>1. u = [t EXCEPT !.get_all_ack = TRUE]
      BY <2>2 DEF ctcp_timer
    <3>. HIDE DEF t, u
    <3>2. /\ u \in HostState /\ u.segments = t.segments /\ u.wire = t.wire
          /\ u.seqno = t.seqno /\ u.next_seqno = t.next_seqno
          /\ u.ackno = t.ackno /\ u.FIN_sent = t.FIN_sent
          /\ u.read_finish = t.read_finish /\ u.inputted = t.inputted
          /\ u.send_window = t.send_window /\ u.recv_window = t.recv_window
          /\ u.status = t.status
      BY <1>2, <3>1 DEF HostState
    <3>3. Grew(t, u)
      BY <1>2, <3>2 DEF Grew, HostState
    <3>4. \A m : Sendable(t, m) => Sendable(u, m)
      BY <1>2, <3>2, <3>3, SendableGrows
    <3>5. LocalInv(u)
      BY <1>1, <2>2, <3>2, <3>4 DEF LocalInv, t
    <3>. QED BY <3>2, <3>3, <3>5 DEF Ticked, HandlerKeeps
  <2>3. CASE t.segments # <<>> /\ ~TeardownReady(t)
    <3>1. CASE ~expired
      <4>1. u = t /\ Same(t, t)
        BY <2>3, <3>1 DEF ctcp_timer, Same
      <4>. QED BY <1>1, <4>1, TickedSame
    <3>2. CASE expired /\ t.retrans_count <= RetransmitLimit
      <4>1. u = Retransmit(t, stale_log)
        BY <1>2, <2>3, <3>2, CtcpConstants DEF ctcp_timer
      <4>. QED BY <1>1, <2>3, <4>1, RetransmitKeeps
    <3>3. CASE expired /\ t.retrans_count > RetransmitLimit
      <4>1. u = ctcp_destroy(t, "gave_up")
        BY <1>2, <2>3, <3>3, CtcpConstants DEF ctcp_timer
      <4>. QED BY <1>1, <4>1, DestroyKeeps
    <3>. QED BY <1>2, <3>1, <3>2, <3>3, CtcpConstants
  <2>. QED BY <2>1, <2>2, <2>3
<1>. QED BY <1>1, <1>3, TickedTrans

-----------------------------------------------------------------------------
\* The inductive invariant of the two hosts and the network

IInv ==
    /\ TypeOK
    /\ \A h \in Hosts :
         /\ LocalInv(host[h]) /\ host[h].wire = <<>>
         /\ host[h].seqno <= host[Peer(h)].ackno
         /\ host[Peer(h)].ackno <= Limit(host[h])
         /\ \A seg \in net[Peer(h)] : Sendable(host[h], seg)
         /\ host[h].read_finish => host[h].inputted = InputLen[h]

LEMMA PeerIsOther ==
    \A h \in Hosts : /\ Peer(h) \in Hosts /\ Peer(h) # h /\ Peer(Peer(h)) = h
                     /\ Hosts = {h, Peer(h)}
  BY NetConstants DEF Peer, Hosts

\* The stream of a host only gets longer.
LEMMA LimitGrows ==
    ASSUME NEW s \in HostState, NEW t \in HostState, Grew(s, t)
    PROVE  Limit(s) \in Nat /\ Limit(t) \in Nat /\ Limit(s) <= Limit(t)
<1>1. s.next_seqno \in Nat /\ t.next_seqno \in Nat
  BY DEF HostState
<1>. QED BY <1>1 DEF Grew, Limit

\* A handler's result that keeps its own invariant and stays within what the
\* peer sent and accepted keeps the invariant of the pair.
LEMMA HandledKeeps ==
    ASSUME IInv, NEW h \in Hosts, NEW t, HandlerKeeps(host[h], t),
           t.seqno <= host[Peer(h)].ackno, t.ackno <= Limit(host[Peer(h)]),
           t.read_finish => t.inputted = InputLen[h],
           Handled(h, t)
    PROVE  IInv'
<1> DEFINE p == Peer(h)
           s == host[h]
           clean == [t EXCEPT !.wire = <<>>]
           sent == {t.wire[i] : i \in DOMAIN t.wire}
<1>1. /\ p \in Hosts /\ p # h /\ Peer(p) = h /\ Hosts = {h, p}
      /\ h \in Hosts
  BY PeerIsOther
<1>2. /\ host \in [Hosts -> HostState] /\ net \in [Hosts -> SUBSET Segment]
  BY DEF IInv, TypeOK
<1>3. /\ s \in HostState /\ t \in HostState /\ LocalInv(t) /\ Grew(s, t)
      /\ t.wire \in Seq(Segment)
  BY <1>2 DEF HandlerKeeps, LocalInv, HostState
<1>4. host' = [host EXCEPT ![h] = clean] /\ net' = [net EXCEPT ![p] = @ \cup sent]
  BY DEF Handled
<1>5. \A m \in sent : Sendable(t, m)
  <2>1. DOMAIN t.wire = 1..Len(t.wire)
    BY <1>3
  <2>. QED BY <1>3, <2>1 DEF LocalInv
<1>6. /\ clean \in HostState /\ clean.wire = <<>>
      /\ clean.status = t.status /\ clean.segments = t.segments
      /\ clean.seqno = t.seqno /\ clean.next_seqno = t.next_seqno
      /\ clean.ackno = t.ackno /\ clean.read_finish = t.read_finish
      /\ clean.FIN_sent = t.FIN_sent /\ clean.get_all_ack = t.get_all_ack
      /\ clean.send_window = t.send_window /\ clean.recv_window = t.recv_window
      /\ clean.inputted = t.inputted
  <2>1. <<>> \in Seq(Segment) /\ clean = [t EXCEPT !.wire = <<>>]
    OBVIOUS
  <2>. HIDE DEF clean
  <2>. QED BY <1>3, <2>1 DEF HostState
<1>. HIDE DEF clean, sent
<1>7. \A m : Sendable(t, m) => Sendable(clean, m)
  BY <1>6 DEF Sendable
<1>8. LocalInv(clean)
  <2>1. \A i \in 1..Len(clean.wire) : Sendable(clean, clean.wire[i])
    <3>1. Len(clean.wire) = 0
      BY <1>6
    <3>. QED BY <3>1
  <2>. QED BY <1>3, <1>6, <1>7, <2>1 DEF LocalInv
<1>9. /\ host'[h] = clean /\ host'[p] = host[p]
      /\ net'[h] = net[h] /\ net'[p] = net[p] \cup sent
  <2>. HIDE DEF p
  <2>. QED BY <1>1, <1>2, <1>4
<1>10. \A m \in net'[p] : Sendable(clean, m)
  <2>1. \A m \in net[p] : Sendable(t, m)
    BY <1>3, SendableGrows DEF IInv
  <2>. QED BY <1>5, <1>7, <1>9, <2>1
<1>11. TypeOK'
  <2>1. host' \in [Hosts -> HostState]
    BY <1>2, <1>4, <1>6
  <2>2. sent \subseteq Segment
    BY <1>5 DEF Sendable
  <2>3. net' \in [Hosts -> SUBSET Segment]
    BY <1>2, <1>4, <2>2
  <2>. QED BY <2>1, <2>3 DEF TypeOK
<1>12. /\ LocalInv(host'[h]) /\ host'[h].wire = <<>>
       /\ host'[h].seqno <= host'[p].ackno
       /\ host'[p].ackno <= Limit(host'[h])
       /\ \A m \in net'[p] : Sendable(host'[h], m)
       /\ host'[h].read_finish => host'[h].inputted = InputLen[h]
  <2>1. host[p].ackno <= Limit(clean)
    <3>1. Limit(s) \in Nat /\ Limit(t) \in Nat /\ Limit(s) <= Limit(t)
      BY <1>3, LimitGrows
    <3>2. Limit(clean) = Limit(t) /\ host[p].ackno <= Limit(s)
      BY <1>6 DEF Limit, IInv
    <3>3. host[p].ackno \in Nat
      BY <1>1, <1>2 DEF HostState
    <3>. QED BY <3>1, <3>2, <3>3
  <2>. QED BY <1>6, <1>8, <1>9, <1>10, <2>1
<1>13. /\ LocalInv(host'[p]) /\ host'[p].wire = <<>>
       /\ host'[p].seqno <= host'[h].ackno
       /\ host'[h].ackno <= Limit(host'[p])
       /\ \A m \in net'[h] : Sendable(host'[p], m)
       /\ host'[p].read_finish => host'[p].inputted = InputLen[p]
  <2>1. /\ LocalInv(host[p]) /\ host[p].wire = <<>>
        /\ host[p].seqno <= host[h].ackno
        /\ \A m \in net[h] : Sendable(host[p], m)
        /\ host[p].read_finish => host[p].inputted = InputLen[p]
    BY <1>1 DEF IInv
  <2>2. host[p].seqno \in Nat /\ host[h].ackno \in Nat /\ clean.ackno \in Nat
    BY <1>1, <1>2, <1>6 DEF HostState
  <2>3. host[h].ackno <= clean.ackno
    BY <1>3, <1>6 DEF Grew
  <2>. QED BY <1>6, <1>9, <2>1, <2>2, <2>3
<1>14. \A k \in Hosts :
         /\ LocalInv(host'[k]) /\ host'[k].wire = <<>>
         /\ host'[k].seqno <= host'[Peer(k)].ackno
         /\ host'[Peer(k)].ackno <= Limit(host'[k])
         /\ \A m \in net'[Peer(k)] : Sendable(host'[k], m)
         /\ host'[k].read_finish => host'[k].inputted = InputLen[k]
  <2>. TAKE k \in Hosts
  <2>1. CASE k = h
    BY <1>12, <2>1
  <2>2. CASE k = p
    BY <1>1, <1>13, <2>2
  <2>. QED BY <1>1, <2>1, <2>2
<1>. QED BY <1>11, <1>14 DEF IInv

\* Flipping a bit of a payload changes none of a segment's numbers.
LEMMA CorruptKeeps ==
    ASSUME IInv, NEW h \in Hosts, Corrupt(h)
    PROVE  IInv'
<1>0. PICK seg \in net[h] : \E i \in DOMAIN seg.data :
        net' = [net EXCEPT ![h] = @ \cup {[seg EXCEPT !.data[i] = 0]}]
  BY DEF Corrupt
<1>1. PICK i \in DOMAIN seg.data :
        net' = [net EXCEPT ![h] = @ \cup {[seg EXCEPT !.data[i] = 0]}]
  BY <1>0
<1> DEFINE p == Peer(h)
           data == [seg.data EXCEPT ![i] = 0]
           bad == [seg EXCEPT !.data = data]
<1>2. p \in Hosts /\ p # h /\ Peer(p) = h /\ Hosts = {h, p}
  BY PeerIsOther
<1>3. host' = host /\ net \in [Hosts -> SUBSET Segment] /\ host \in [Hosts -> HostState]
  BY DEF Corrupt, IInv, TypeOK
<1>4. Sendable(host[p], seg)
  BY <1>2 DEF IInv
<1>5. seg \in Segment /\ seg.data \in Seq(Nat)
  BY <1>4 DEF Sendable, Segment
<1>6. data \in Seq(Nat) /\ Len(data) = Len(seg.data)
  BY <1>5
<1>7. net' = [net EXCEPT ![h] = @ \cup {bad}]
  BY <1>1
<1>. HIDE DEF data
<1>8. /\ bad \in Segment /\ bad.seqno = seg.seqno /\ bad.ackno = seg.ackno
      /\ bad.flags = seg.flags /\ bad.data = data /\ bad.window = seg.window
  BY <1>5, <1>6 DEF Segment
<1>. HIDE DEF bad
<1>9. Sendable(host[p], bad)
  BY <1>4, <1>6, <1>8 DEF Sendable, End
<1>10. net' \in [Hosts -> SUBSET Segment] /\ net'[p] = net[p]
       /\ net'[h] = net[h] \cup {bad}
  BY <1>2, <1>3, <1>7, <1>8
<1>11. TypeOK'
  BY <1>3, <1>10 DEF TypeOK
<1>12. \A k \in Hosts : \A m \in net'[Peer(k)] : Sendable(host[k], m)
  <2>. SUFFICES ASSUME NEW k \in Hosts, NEW m \in net'[Peer(k)]
                PROVE  Sendable(host[k], m)
    OBVIOUS
  <2>1. CASE k = h
    BY <1>10, <2>1 DEF IInv
  <2>2. CASE k = p
    BY <1>2, <1>9, <1>10, <2>2 DEF IInv
  <2>. QED BY <1>2, <2>1, <2>2
<1>. QED BY <1>3, <1>11, <1>12 DEF IInv

LEMMA InitKeeps ==
    ASSUME Init
    PROVE  IInv
<1>1. ASSUME NEW h \in Hosts
      PROVE  /\ LocalInv(host[h]) /\ host[h] \in HostState
             /\ host[h].wire = <<>> /\ host[h].seqno = 1 /\ host[h].ackno = 1
             /\ host[h].next_seqno = 1 /\ ~host[h].FIN_sent
             /\ ~host[h].read_finish
  <2> DEFINE s == ctcp_init(RecvWindow[h], RecvWindow[Peer(h)])
  <2>1. host[h] = s
    BY <1>1 DEF Init
  <2>2. RecvWindow[h] \in Nat /\ RecvWindow[Peer(h)] \in Nat
    BY <1>1, PeerIsOther, NetConstants
  <2>3. <<>> \in Seq(Segment) /\ <<>> \in Seq(Nat) /\ Len(<<>>) = 0
    OBVIOUS
  <2>4. /\ s \in HostState /\ s.segments = <<>> /\ s.wire = <<>>
        /\ s.seqno = 1 /\ s.ackno = 1 /\ s.next_seqno = 1 /\ ~s.FIN_sent
        /\ ~s.read_finish
        /\ s.recv_window = RecvWindow[h] /\ s.send_window = RecvWindow[Peer(h)]
    BY <2>2, <2>3 DEF ctcp_init, HostState, Statuses
  <2>. HIDE DEF s
  <2>5. Tiles(<<>>, 1, 1)
    BY <2>3 DEF Tiles, Contiguous
  <2>6. /\ \A i \in 1..Len(s.segments) : Sendable(s, s.segments[i])
        /\ \A i \in 1..Len(s.wire) : Sendable(s, s.wire[i])
    BY <2>3, <2>4
  <2>7. RecvWindow[h] \in Windows /\ RecvWindow[Peer(h)] \in Windows
    BY <1>1, PeerIsOther DEF Windows
  <2>8. LocalInv(s)
    BY <2>4, <2>5, <2>6, <2>7 DEF LocalInv
  <2>. QED BY <2>1, <2>4, <2>8
<1>2. host \in [Hosts -> HostState]
  <2>1. host = [h \in Hosts |-> host[h]]
    BY DEF Init
  <2>. QED BY <1>1, <2>1
<1>3. net \in [Hosts -> SUBSET Segment] /\ \A h \in Hosts : net[h] = {}
  BY DEF Init
<1>. QED BY <1>1, <1>2, <1>3, PeerIsOther DEF IInv, TypeOK, Limit

LEMMA ReadStep ==
    ASSUME IInv, NEW h \in Hosts, Read(h)
    PROVE  IInv'
<1> DEFINE s == host[h]
<1>1. PICK count \in 1..MaxSegDataSize, throttled \in BOOLEAN :
        Handled(h, ctcp_read(s, count, throttled))
  BY DEF Read
<1> DEFINE t == ctcp_read(s, count, throttled)
<1>2. /\ LocalInv(s) /\ s.status = "open" /\ ~s.read_finish
      /\ s.seqno <= host[Peer(h)].ackno /\ s.ackno <= Limit(host[Peer(h)])
  BY PeerIsOther DEF IInv, Read, Open, CanRead
<1>3. count \in Nat \ {0}
  BY <1>1, CtcpConstants
<1>4. HandlerKeeps(s, t) /\ t.ackno = s.ackno /\ t.seqno = s.seqno /\ ~t.read_finish
  BY <1>2, <1>3, ReadKeeps
<1>5. Handled(h, t)
  BY <1>1
<1>. HIDE DEF t
<1>. QED BY <1>2, <1>4, <1>5, HandledKeeps

LEMMA ReadEofStep ==
    ASSUME IInv, NEW h \in Hosts, ReadEOF(h)
    PROVE  IInv'
<1> DEFINE s == host[h]
           t == ctcp_read_eof(s)
<1>1. /\ LocalInv(s) /\ s.inputted = InputLen[h] /\ Handled(h, t)
      /\ s.seqno <= host[Peer(h)].ackno /\ s.ackno <= Limit(host[Peer(h)])
  BY PeerIsOther DEF IInv, ReadEOF
<1>2. /\ HandlerKeeps(s, t) /\ t.ackno = s.ackno /\ t.seqno = s.seqno
      /\ t.inputted = s.inputted
  BY <1>1, ReadEofKeeps
<1>. HIDE DEF t
<1>. QED BY <1>1, <1>2, HandledKeeps

LEMMA ReceiveStep ==
    ASSUME IInv, NEW h \in Hosts, Receive(h)
    PROVE  IInv'
<1> DEFINE s == host[h]
           p == host[Peer(h)]
<1>1. PICK seg \in net[h] :
        \E written \in Written(h, Len(seg.data)) :
          Handled(h, ctcp_receive(s, seg, written))
  BY DEF Receive
<1>2. PICK written \in Written(h, Len(seg.data)) :
        Handled(h, ctcp_receive(s, seg, written))
  BY <1>1
<1> DEFINE t == ctcp_receive(s, seg, written)
<1>3. /\ LocalInv(s) /\ s.status = "open" /\ p \in HostState
      /\ s.seqno <= p.ackno /\ s.ackno <= Limit(p) /\ Sendable(p, seg)
      /\ s.read_finish => s.inputted = InputLen[h]
  BY PeerIsOther DEF IInv, TypeOK, Receive, Open
<1>4. written \in 0..Len(seg.data)
  <2>1. Len(seg.data) \in Nat
    BY <1>3 DEF Sendable, Segment
  <2>. QED BY <1>2, <2>1 DEF Written
<1>5. Received(s, t, p)
  BY <1>3, <1>4, ReceiveKeeps
<1>6. Handled(h, t)
  BY <1>2
<1>. HIDE DEF t
<1>. QED BY <1>3, <1>5, <1>6, HandledKeeps DEF Received

LEMMA TimerStep ==
    ASSUME IInv, NEW h \in Hosts, NEW expired \in BOOLEAN, Timer(h, expired)
    PROVE  IInv'
<1> DEFINE s == host[h]
<1>1. PICK stale_log \in StaleLog : Handled(h, ctcp_timer(s, expired, stale_log))
  BY DEF Timer
<1> DEFINE t == ctcp_timer(s, expired, stale_log)
<1>2. /\ LocalInv(s) /\ s.status = "open"
      /\ s.seqno <= host[Peer(h)].ackno /\ s.ackno <= Limit(host[Peer(h)])
      /\ s.read_finish => s.inputted = InputLen[h]
  BY PeerIsOther DEF IInv, Timer, Open
<1>3. stale_log \in {"ignored", "crash"}
  BY <1>1, NetConstants
<1>4. Ticked(s, t)
  BY <1>2, <1>3, TimerKeeps
<1>5. Handled(h, t)
  BY <1>1
<1>. HIDE DEF t
<1>. QED BY <1>2, <1>4, <1>5, HandledKeeps DEF Ticked

LEMMA DrainStep ==
    ASSUME IInv, NEW h \in Hosts, Drain(h)
    PROVE  IInv'
<1> DEFINE s == host[h]
<1>1. PICK drained \in 1..s.queued : Handled(h, conn_drain(s, drained))
  BY DEF Drain
<1> DEFINE t == conn_drain(s, drained)
<1>2. /\ LocalInv(s) /\ s \in HostState
      /\ s.seqno <= host[Peer(h)].ackno /\ s.ackno <= Limit(host[Peer(h)])
      /\ s.read_finish => s.inputted = InputLen[h]
  BY PeerIsOther DEF IInv, TypeOK
<1>3. LocalInv(t) /\ Same(s, t) /\ Handled(h, t)
  BY <1>1, <1>2, DrainKeeps
<1>. HIDE DEF t
<1>4. HandlerKeeps(s, t)
  BY <1>2, <1>3, SameGrows DEF HandlerKeeps
<1>. QED BY <1>2, <1>3, <1>4, HandledKeeps DEF Same

\* Every step of the specification keeps the invariant.
LEMMA NextKeeps ==
    ASSUME IInv, [Next]_vars
    PROVE  IInv'
<1>1. CASE UNCHANGED vars
  BY <1>1 DEF vars, IInv, TypeOK
<1>2. ASSUME NEW h \in Hosts, Read(h) PROVE IInv'
  BY <1>2, ReadStep
<1>3. ASSUME NEW h \in Hosts, ReadEOF(h) PROVE IInv'
  BY <1>3, ReadEofStep
<1>4. ASSUME NEW h \in Hosts, Receive(h) PROVE IInv'
  BY <1>4, ReceiveStep
<1>5. ASSUME NEW h \in Hosts, Drain(h) PROVE IInv'
  BY <1>5, DrainStep
<1>6. ASSUME NEW h \in Hosts, Corrupt(h) PROVE IInv'
  BY <1>6, CorruptKeeps
<1>7. ASSUME NEW h \in Hosts, NEW expired \in BOOLEAN, Timer(h, expired)
      PROVE IInv'
  BY <1>7, TimerStep
<1>. QED
  BY <1>1, <1>2, <1>3, <1>4, <1>5, <1>6, <1>7 DEF Next

\* The invariant holds initially and every step of the specification keeps it.
THEOREM Inductive == Spec => []IInv
<1>1. Init => IInv
  BY InitKeeps
<1>2. IInv /\ [Next]_vars => IInv'
  BY NextKeeps
<1>. QED BY <1>1, <1>2, PTL DEF Spec

\* Whatever a host sent, or holds to send again, is still what it may send.
LEMMA SentIsSendable ==
    ASSUME IInv, NEW h \in Hosts, NEW seg \in SentBy(h)
    PROVE  Sendable(host[h], seg)
<1>1. host[h].segments \in Seq(Segment) /\ LocalInv(host[h])
  BY DEF IInv, TypeOK, HostState
<1>2. DOMAIN host[h].segments = 1..Len(host[h].segments)
  BY <1>1
<1>. QED BY <1>1, <1>2 DEF IInv, LocalInv, SentBy

-----------------------------------------------------------------------------
\* What follows from it, for every value of the constants

\* Type correctness of the two hosts and of everything in the network: in
\* particular conn_drain and conn_output never leave out_queue with a negative
\* count.
THEOREM TypeCorrect == Spec => []TypeOK
<1>1. IInv => TypeOK
  BY DEF IInv
<1>. QED BY <1>1, Inductive, PTL

\* ctcp_receive's exact and larger ACK never release from the retransmission
\* queue a byte the peer has not accepted, whatever is lost, duplicated,
\* reordered or corrupted.
THEOREM ReleasedOnlyAccepted == Spec => []ReleasedWasAccepted
<1>1. IInv => ReleasedWasAccepted
  BY DEF IInv, ReleasedWasAccepted
<1>. QED BY <1>1, Inductive, PTL

\* The queue and the two sequence numbers of ctcp_state never disagree.
THEOREM QueueTiles == Spec => []QueueTilesWindow
<1>1. IInv => QueueTilesWindow
  <2>. SUFFICES ASSUME IInv, NEW h \in Hosts, Open(h)
                PROVE  Tiles(host[h].segments, host[h].seqno, host[h].next_seqno)
    BY DEF QueueTilesWindow, Tiles, Contiguous
  <2>. QED BY DEF IInv, LocalInv, Open
<1>. QED BY <1>1, Inductive, PTL

\* A receiver never acknowledges a byte, or a FIN, that was not sent.
THEOREM AckedOnlySent == Spec => []AckedWasSent
<1>1. IInv => AckedWasSent
  <2>. SUFFICES ASSUME IInv, NEW h \in Hosts
                PROVE  /\ host[Peer(h)].ackno <= StreamEnd(h)
                       /\ \A seg \in SentBy(Peer(h)) : seg.ackno <= host[Peer(h)].ackno
    BY DEF AckedWasSent
  <2>1. host[Peer(h)].ackno <= StreamEnd(h)
    BY DEF IInv, Limit, StreamEnd
  <2>2. \A seg \in SentBy(Peer(h)) : Sendable(host[Peer(h)], seg)
    BY PeerIsOther, SentIsSendable
  <2>. QED BY <2>1, <2>2 DEF Sendable
<1>. QED BY <1>1, Inductive, PTL

\* The FIN ends the stream: ctcp_timer sends it after the whole input was read
\* and accepted by the peer.
THEOREM FinEndsStream == Spec => []FinIsLast
<1>1. IInv => FinIsLast
  <2>. SUFFICES ASSUME IInv, NEW h \in Hosts
                PROVE  /\ \A seg \in SentBy(h) :
                            "FIN" \in seg.flags =>
                              /\ host[h].FIN_sent /\ host[h].read_finish
                              /\ seg.seqno = host[h].next_seqno
                       /\ host[h].FIN_sent =>
                            /\ host[h].seqno = host[h].next_seqno
                            /\ host[h].inputted = InputLen[h]
    BY DEF FinIsLast
  <2>1. \A seg \in SentBy(h) : Sendable(host[h], seg)
    BY SentIsSendable
  <2>. QED BY <2>1 DEF IInv, LocalInv, Sendable
<1>. QED BY <1>1, Inductive, PTL

-----------------------------------------------------------------------------
\* The output queue

\* Every handler leaves in out_queue no more than MAX_BUF_SPACE bytes, if it
\* found no more there.
LEMMA HandledQueue ==
    ASSUME IInv, BufferNeverOverrun, NEW h \in Hosts, NEW t \in HostState,
           t.queued <= MaxBufSpace, Handled(h, t)
    PROVE  BufferNeverOverrun'
<1> DEFINE clean == [t EXCEPT !.wire = <<>>]
<1>1. host \in [Hosts -> HostState] /\ host' = [host EXCEPT ![h] = clean]
  BY DEF IInv, TypeOK, Handled
<1>2. clean.queued = t.queued
  BY DEF HostState
<1>. HIDE DEF clean
<1>3. \A k \in Hosts : host'[k].queued <= MaxBufSpace
  BY <1>1, <1>2 DEF BufferNeverOverrun
<1>. QED BY <1>3 DEF BufferNeverOverrun

\* A segment of the network is one that a handler can be given.
LEMMA Arriving ==
    ASSUME IInv, NEW h \in Hosts, NEW seg \in net[h],
           NEW written \in Written(h, Len(seg.data))
    PROVE  /\ seg \in Segment /\ seg \in AnySegment
           /\ written \in 0..Len(seg.data) /\ Sendable(host[Peer(h)], seg)
<1>1. seg \in Segment /\ Sendable(host[Peer(h)], seg)
  BY PeerIsOther DEF IInv, Sendable
<1>2. seg \in AnySegment
  BY <1>1 DEF Segment, AnySegment
<1>3. Len(seg.data) \in Nat
  BY <1>1 DEF Segment
<1>. QED BY <1>1, <1>2, <1>3 DEF Written

\* conn_output is never asked for more than conn_bufspace: whatever the peer
\* sends and however little write() takes, out_queue stays within
\* MAX_BUF_SPACE.
THEOREM QueueWithinBuffer == Spec => []BufferNeverOverrun
<1>1. Init => BufferNeverOverrun
  <2>. SUFFICES ASSUME Init, NEW h \in Hosts PROVE host[h].queued <= MaxBufSpace
    BY DEF BufferNeverOverrun
  <2>1. host[h].queued = 0
    BY DEF Init, ctcp_init
  <2>. QED BY <2>1, CtcpConstants
<1>2. IInv /\ BufferNeverOverrun /\ [Next]_vars => BufferNeverOverrun'
  <2>. SUFFICES ASSUME IInv, BufferNeverOverrun, [Next]_vars
                PROVE  BufferNeverOverrun'
    OBVIOUS
  <2>0. \A h \in Hosts : /\ host[h] \in HostState /\ host[h].queued <= MaxBufSpace
                         /\ host[h].queued \in Nat
    BY DEF IInv, TypeOK, BufferNeverOverrun, HostState
  <2>1. CASE UNCHANGED vars
    BY <2>1 DEF vars, BufferNeverOverrun
  <2>2. ASSUME NEW h \in Hosts, Read(h) PROVE BufferNeverOverrun'
    <3>1. PICK count \in 1..MaxSegDataSize, throttled \in BOOLEAN :
            Handled(h, ctcp_read(host[h], count, throttled))
      BY <2>2 DEF Read
    <3> DEFINE t == ctcp_read(host[h], count, throttled)
    <3>2. count \in Nat \ {0}
      BY CtcpConstants
    <3>3. t \in HostState /\ SameOut(host[h], t) /\ Handled(h, t)
      BY <2>0, <3>1, <3>2, ReadEffect
    <3>. HIDE DEF t
    <3>. QED BY <2>0, <3>3, HandledQueue DEF SameOut
  <2>3. ASSUME NEW h \in Hosts, ReadEOF(h) PROVE BufferNeverOverrun'
    <3> DEFINE t == ctcp_read_eof(host[h])
    <3>1. t \in HostState /\ SameOut(host[h], t) /\ Handled(h, t)
      BY <2>0, <2>3, ReadEofEffect DEF ReadEOF
    <3>. HIDE DEF t
    <3>. QED BY <2>0, <3>1, HandledQueue DEF SameOut
  <2>4. ASSUME NEW h \in Hosts, Receive(h) PROVE BufferNeverOverrun'
    <3>1. PICK seg \in net[h] : \E written \in Written(h, Len(seg.data)) :
            Handled(h, ctcp_receive(host[h], seg, written))
      BY <2>4 DEF Receive
    <3>2. PICK written \in Written(h, Len(seg.data)) :
            Handled(h, ctcp_receive(host[h], seg, written))
      BY <3>1
    <3> DEFINE t == ctcp_receive(host[h], seg, written)
    <3>3. Kept(host[h], t) /\ Handled(h, t)
      BY <2>0, <3>2, Arriving, ReceiveEffect
    <3>. HIDE DEF t
    <3>. QED BY <2>0, <3>3, HandledQueue DEF Kept
  <2>5. ASSUME NEW h \in Hosts, Drain(h) PROVE BufferNeverOverrun'
    <3>1. PICK drained \in 1..host[h].queued : Handled(h, conn_drain(host[h], drained))
      BY <2>5 DEF Drain
    <3> DEFINE t == conn_drain(host[h], drained)
    <3>2. t \in HostState /\ t.queued <= host[h].queued /\ Handled(h, t)
      BY <2>0, <3>1, DrainEffect
    <3>. HIDE DEF t
    <3>3. t.queued \in Nat /\ MaxBufSpace \in Nat
      BY <3>2, CtcpConstants DEF HostState
    <3>. QED BY <2>0, <3>2, <3>3, HandledQueue
  <2>6. ASSUME NEW h \in Hosts, Corrupt(h) PROVE BufferNeverOverrun'
    BY <2>6 DEF Corrupt, BufferNeverOverrun
  <2>7. ASSUME NEW h \in Hosts, NEW expired \in BOOLEAN, Timer(h, expired)
        PROVE  BufferNeverOverrun'
    <3>1. PICK stale_log \in StaleLog :
            Handled(h, ctcp_timer(host[h], expired, stale_log))
      BY <2>7 DEF Timer
    <3> DEFINE t == ctcp_timer(host[h], expired, stale_log)
    <3>2. stale_log \in {"ignored", "crash"}
      BY NetConstants
    <3>3. Timed(host[h], t) /\ Handled(h, t)
      BY <2>0, <3>1, <3>2, TimerEffect
    <3>. HIDE DEF t
    <3>. QED BY <2>0, <3>3, HandledQueue DEF Timed, SameOut
  <2>. QED
    BY <2>1, <2>2, <2>3, <2>4, <2>5, <2>6, <2>7 DEF Next
<1>. QED BY <1>1, <1>2, Inductive, PTL DEF Spec

-----------------------------------------------------------------------------
\* The window

\* How far a host may be ahead of what was acknowledged.
WithinWindow(s) ==
    \E g \in Hosts : s.next_seqno - s.seqno < RecvWindow[g] + MaxSegDataSize

\* A handler that leaves its host within the window keeps both there.
LEMMA HandledWindow ==
    ASSUME IInv, WindowOverrunBounded, NEW h \in Hosts, NEW t \in HostState,
           WithinWindow(t), Handled(h, t)
    PROVE  WindowOverrunBounded'
<1> DEFINE clean == [t EXCEPT !.wire = <<>>]
<1>1. host \in [Hosts -> HostState] /\ host' = [host EXCEPT ![h] = clean]
  BY DEF IInv, TypeOK, Handled
<1>2. clean.next_seqno = t.next_seqno /\ clean.seqno = t.seqno
  BY DEF HostState
<1>. HIDE DEF clean
<1>3. ASSUME NEW k \in Hosts PROVE WithinWindow(host'[k])
  <2>1. CASE k = h
    <3>1. host'[k] = clean
      BY <1>1, <2>1
    <3>. QED BY <1>2, <3>1 DEF WithinWindow
  <2>2. CASE k # h
    <3>1. host'[k] = host[k]
      BY <1>1, <2>2
    <3>. QED BY <3>1 DEF WithinWindow, WindowOverrunBounded
  <2>. QED BY <2>1, <2>2
<1>. QED BY <1>3 DEF WithinWindow, WindowOverrunBounded

\* Whoever sends nothing new only comes nearer to what was acknowledged.
LEMMA NothingNew ==
    ASSUME NEW s \in HostState, NEW t \in HostState, WithinWindow(s),
           Grew(s, t), t.next_seqno = s.next_seqno
    PROVE  WithinWindow(t)
<1>1. PICK g \in Hosts : s.next_seqno - s.seqno < RecvWindow[g] + MaxSegDataSize
  BY DEF WithinWindow
<1>2. /\ s.next_seqno \in Nat /\ s.seqno \in Nat /\ t.seqno \in Nat
      /\ RecvWindow[g] \in Nat /\ MaxSegDataSize \in Nat
  BY NetConstants, CtcpConstants DEF HostState
<1>3. s.seqno <= t.seqno
  BY DEF Grew
<1>4. t.next_seqno - t.seqno < RecvWindow[g] + MaxSegDataSize
  BY <1>1, <1>2, <1>3
<1>. QED BY <1>4 DEF WithinWindow

\* ctcp_read looks at the window before it reads a segment.
LEMMA ReadWithin ==
    ASSUME NEW s, LocalInv(s), s.status = "open", CanRead(s),
           NEW count \in 1..MaxSegDataSize, NEW throttled \in BOOLEAN
    PROVE  /\ WithinWindow(ctcp_read(s, count, throttled))
           /\ ctcp_read(s, count, throttled) \in HostState
<1> DEFINE t == ctcp_read(s, count, throttled)
<1>1. s \in HostState /\ count \in Nat \ {0}
  BY CtcpConstants DEF LocalInv
<1>2. t.seqno = s.seqno
  BY <1>1, ReadKeeps DEF CanRead
<1>3. t \in HostState /\ t.next_seqno = s.next_seqno + count
  BY <1>1, ReadEffect
<1>. HIDE DEF t
<1>4. PICK g \in Hosts : s.send_window = RecvWindow[g]
  BY DEF LocalInv, Windows
<1>5. /\ s.next_seqno \in Nat /\ s.seqno \in Nat /\ s.next_seqno < s.seqno + RecvWindow[g]
      /\ RecvWindow[g] \in Nat /\ MaxSegDataSize \in Nat /\ count <= MaxSegDataSize
  BY <1>1, <1>4, NetConstants, CtcpConstants DEF HostState, CanRead
<1>6. t.next_seqno - t.seqno < RecvWindow[g] + MaxSegDataSize
  BY <1>1, <1>2, <1>3, <1>5
<1>. QED BY <1>3, <1>6 DEF WithinWindow, t

\* The unacknowledged bytes of a host overrun the largest window it may be told of
\* by less than a segment (ctcp.c:101), whatever the network does to
\* the acknowledgements and to the windows in them.
THEOREM OverrunBounded == Spec => []WindowOverrunBounded
<1>1. Init => WindowOverrunBounded
  <2>. SUFFICES ASSUME Init, NEW h \in Hosts PROVE WithinWindow(host[h])
    BY DEF WindowOverrunBounded, WithinWindow
  <2>1. host[h].next_seqno = 1 /\ host[h].seqno = 1 /\ RecvWindow[h] \in Nat
    BY NetConstants DEF Init, ctcp_init
  <2>2. host[h].next_seqno - host[h].seqno < RecvWindow[h] + MaxSegDataSize
    BY <2>1, CtcpConstants
  <2>. QED BY <2>2 DEF WithinWindow
<1>2. IInv /\ WindowOverrunBounded /\ [Next]_vars => WindowOverrunBounded'
  <2>. SUFFICES ASSUME IInv, WindowOverrunBounded, [Next]_vars
                PROVE  WindowOverrunBounded'
    OBVIOUS
  <2>0. \A h \in Hosts : /\ host[h] \in HostState /\ LocalInv(host[h])
                         /\ WithinWindow(host[h]) /\ Peer(h) \in Hosts
                         /\ host[h].seqno <= host[Peer(h)].ackno
                         /\ host[h].ackno <= Limit(host[Peer(h)])
    BY PeerIsOther DEF IInv, TypeOK, WindowOverrunBounded, WithinWindow
  <2>1. CASE UNCHANGED vars
    BY <2>1 DEF vars, WindowOverrunBounded
  <2>2. ASSUME NEW h \in Hosts, Read(h) PROVE WindowOverrunBounded'
    <3>1. PICK count \in 1..MaxSegDataSize, throttled \in BOOLEAN :
            Handled(h, ctcp_read(host[h], count, throttled))
      BY <2>2 DEF Read
    <3>2. host[h].status = "open" /\ CanRead(host[h])
      BY <2>2 DEF Read, Open
    <3>. QED BY <2>0, <3>1, <3>2, ReadWithin, HandledWindow
  <2>3. ASSUME NEW h \in Hosts, ReadEOF(h) PROVE WindowOverrunBounded'
    <3> DEFINE t == ctcp_read_eof(host[h])
    <3>1. /\ t \in HostState /\ t.next_seqno = host[h].next_seqno /\ Handled(h, t)
          /\ Grew(host[h], t)
      BY <2>0, <2>3, ReadEofEffect, ReadEofKeeps DEF ReadEOF, HandlerKeeps
    <3>. HIDE DEF t
    <3>. QED BY <2>0, <3>1, NothingNew, HandledWindow
  <2>4. ASSUME NEW h \in Hosts, Receive(h) PROVE WindowOverrunBounded'
    <3>1. PICK seg \in net[h] : \E written \in Written(h, Len(seg.data)) :
            Handled(h, ctcp_receive(host[h], seg, written))
      BY <2>4 DEF Receive
    <3>2. PICK written \in Written(h, Len(seg.data)) :
            Handled(h, ctcp_receive(host[h], seg, written))
      BY <3>1
    <3> DEFINE t == ctcp_receive(host[h], seg, written)
    <3>3. Kept(host[h], t) /\ Handled(h, t)
      BY <2>0, <3>2, Arriving, ReceiveEffect
    <3>4. host[h].status = "open"
      BY <2>4 DEF Receive, Open
    <3>5. Grew(host[h], t)
      BY <2>0, <3>4, Arriving, ReceiveKeeps DEF Received, HandlerKeeps
    <3>. HIDE DEF t
    <3>. QED BY <2>0, <3>3, <3>5, NothingNew, HandledWindow DEF Kept, SameIn
  <2>5. ASSUME NEW h \in Hosts, Drain(h) PROVE WindowOverrunBounded'
    <3>1. PICK drained \in 1..host[h].queued : Handled(h, conn_drain(host[h], drained))
      BY <2>5 DEF Drain
    <3> DEFINE t == conn_drain(host[h], drained)
    <3>2. t \in HostState /\ Same(host[h], t) /\ Handled(h, t)
      BY <2>0, <3>1, DrainKeeps DEF LocalInv
    <3>. HIDE DEF t
    <3>. QED BY <2>0, <3>2, SameGrows, NothingNew, HandledWindow DEF Same
  <2>6. ASSUME NEW h \in Hosts, Corrupt(h) PROVE WindowOverrunBounded'
    BY <2>6 DEF Corrupt, WindowOverrunBounded
  <2>7. ASSUME NEW h \in Hosts, NEW expired \in BOOLEAN, Timer(h, expired)
        PROVE  WindowOverrunBounded'
    <3>1. PICK stale_log \in StaleLog :
            Handled(h, ctcp_timer(host[h], expired, stale_log))
      BY <2>7 DEF Timer
    <3> DEFINE t == ctcp_timer(host[h], expired, stale_log)
    <3>2. stale_log \in {"ignored", "crash"} /\ host[h].status = "open"
      BY <2>7, NetConstants DEF Timer, Open
    <3>3. Timed(host[h], t) /\ Ticked(host[h], t) /\ Handled(h, t)
      BY <2>0, <3>1, <3>2, TimerEffect, TimerKeeps
    <3>. HIDE DEF t
    <3>. QED BY <2>0, <3>3, NothingNew, HandledWindow
              DEF Timed, Ticked, HandlerKeeps
  <2>. QED
    BY <2>1, <2>2, <2>3, <2>4, <2>5, <2>6, <2>7 DEF Next
<1>. QED BY <1>1, <1>2, Inductive, PTL DEF Spec

-----------------------------------------------------------------------------
\* What a host's output owes to its peer's stream, when nothing stays queued

OutInv(s, p) ==
    /\ s.queued = 0 /\ (s.wrote_eof <=> s.all_recv_output)
    /\ ~s.all_recv_output => Len(s.taken) = s.ackno - 1
    /\ s.all_recv_output => /\ Len(s.taken) + 1 = s.ackno - 1
                            /\ p.FIN_sent /\ s.ackno = p.next_seqno + 1

StreamInv(s) ==
    /\ s.next_seqno = s.inputted + 1
    /\ s.status = "finished" => s.FIN_sent /\ s.all_recv_output

OInv == \A h \in Hosts : OutInv(host[h], host[Peer(h)]) /\ StreamInv(host[h])

\* Every byte is where its sender's input has it, in the segments and output.
InOrder(seq) == \A i \in 1..Len(seq) : seq[i] = i

CInv == \A h \in Hosts : /\ Contents(host[h]) /\ InOrder(host[h].taken)
                         /\ \A seg \in net[h] : Content(seg)

\* A step that outputs nothing, seen from CtcpStream.
NoOutput(s, t) == t.taken = s.taken /\ t.wrote_eof = s.wrote_eof

\* The next bytes of the peer's input are output.
DataOutput(s, t, seg, p) ==
    /\ ~s.wrote_eof /\ ~t.wrote_eof /\ seg.data # <<>>
    /\ seg.seqno = Len(s.taken) + 1 /\ t.taken = s.taken \o seg.data
    /\ Len(s.taken) + Len(seg.data) <= p.inputted

\* The end of file is output, after all of the peer's input.
EndOutput(s, t, p) ==
    /\ t.taken = s.taken /\ t.wrote_eof
    /\ p.FIN_sent /\ Len(s.taken) = p.inputted

\* What a host has for output depends on its output half alone.
LEMMA OutFrame ==
    ASSUME NEW s, NEW t, NEW p, SameOut(s, t), OutInv(s, p)
    PROVE  OutInv(t, p) /\ NoOutput(s, t)
BY DEF SameOut, OutInv, NoOutput

\* The next bytes after the first bytes are the first bytes.
LEMMA AppendedInOrder ==
    ASSUME NEW q \in Seq(Nat), NEW data \in Seq(Nat), InOrder(q),
           \A i \in 1..Len(data) : data[i] = Len(q) + i
    PROVE  /\ InOrder(q \o data)
           /\ data = [i \in 1..Len(data) |-> Len(q) + i]
<1>1. /\ q \o data \in Seq(Nat) /\ Len(q \o data) = Len(q) + Len(data)
      /\ \A i \in 1..(Len(q) + Len(data)) :
           (q \o data)[i] = IF i <= Len(q) THEN q[i] ELSE data[i - Len(q)]
  BY ConcatProperties
<1>2. ASSUME NEW i \in 1..Len(q \o data) PROVE (q \o data)[i] = i
  <2>1. CASE i <= Len(q)
    BY <1>1, <2>1 DEF InOrder
  <2>2. CASE i > Len(q)
    <3>1. i - Len(q) \in 1..Len(data)
      BY <1>1, <2>2
    <3>. QED BY <1>1, <2>2, <3>1
  <2>. QED BY <1>1, <2>1, <2>2
<1>3. data = [i \in 1..Len(data) |-> Len(q) + i]
  OBVIOUS
<1>. QED BY <1>2, <1>3 DEF InOrder

\* ctcp_receive outputs the peer's stream: data that starts where the output
\* ends, and the end when all of it is there.
LEMMA ReceiveOutput ==
    ASSUME NEW s \in HostState, NEW p \in HostState, NEW seg, Sendable(p, seg),
           OutInv(s, p), p.next_seqno = p.inputted + 1
    PROVE  LET t == ctcp_receive(s, seg, Len(seg.data))
           IN  /\ OutInv(t, p)
               /\ \/ NoOutput(s, t) \/ DataOutput(s, t, seg, p)
                  \/ EndOutput(s, t, p)
<1> DEFINE t == ctcp_receive(s, seg, Len(seg.data))
<1>1. /\ seg \in Segment /\ seg \in AnySegment /\ seg.data \in Seq(Nat)
      /\ Len(seg.data) \in Nat /\ seg.seqno \in Nat
  BY DEF Sendable, Segment, AnySegment
<1>2. /\ s.ackno \in Nat /\ s.taken \in Seq(Nat) /\ Len(s.taken) \in Nat
      /\ p.next_seqno \in Nat /\ p.inputted \in Nat
  BY DEF OutInv, HostState
<1>3. seg.seqno + Len(seg.data) <= p.next_seqno
  BY DEF Sendable, End
<1>4. seg.data # <<>> => Len(seg.data) > 0
  BY <1>1, EmptySeq
<1>5. "FIN" \in seg.flags => /\ ~HasData(seg)
                             /\ p.FIN_sent /\ seg.seqno = p.next_seqno
  <2>1. "FIN" \in seg.flags => p.FIN_sent /\ seg.seqno = p.next_seqno
    BY DEF Sendable
  <2>. QED BY <1>1, <1>2, <1>3, <1>4, <2>1 DEF HasData
<1>6. \/ SameOut(s, t)
      \/ /\ HasData(seg) /\ seg.seqno = s.ackno
         /\ Accepted(s, t, seg.data, Len(seg.data))
      \/ /\ "FIN" \in seg.flags /\ seg.seqno = s.ackno /\ Ended(s, t)
  <2>1. Len(seg.data) \in 0..Len(seg.data)
    BY <1>1
  <2>. HIDE DEF t
  <2>2. t = ctcp_receive(s, seg, Len(seg.data))
    BY DEF t
  <2>. QED BY <1>1, <1>5, <2>1, <2>2, ReceiveEffect
<1>. HIDE DEF t
<1>7. CASE SameOut(s, t)
  BY <1>7, OutFrame DEF t
<1>8. ASSUME seg.seqno = s.ackno, seg.seqno <= p.next_seqno
      PROVE  ~s.all_recv_output /\ Len(s.taken) = s.ackno - 1
  <2>1. s.all_recv_output => s.ackno = p.next_seqno + 1
    BY DEF OutInv
  <2>2. s.ackno # p.next_seqno + 1
    BY <1>1, <1>2, <1>8
  <2>. QED BY <2>1, <2>2 DEF OutInv
<1>9. CASE /\ HasData(seg) /\ seg.seqno = s.ackno
           /\ Accepted(s, t, seg.data, Len(seg.data))
  <2>1. seg.seqno <= p.next_seqno /\ seg.data # <<>>
    BY <1>1, <1>2, <1>3, <1>9 DEF HasData
  <2>2. /\ ~s.all_recv_output /\ ~s.wrote_eof /\ s.queued = 0
        /\ Len(s.taken) = s.ackno - 1
    BY <1>8, <1>9, <2>1 DEF OutInv
  <2>3. /\ t.taken = s.taken \o seg.data /\ ~t.wrote_eof
        /\ t.ackno = s.ackno + Len(seg.data)
        /\ t.all_recv_output = s.all_recv_output
        /\ t.queued = s.queued + Len(seg.data)
                        - (IF s.queued = 0 THEN Len(seg.data) ELSE 0)
    BY <1>9, <2>2 DEF Accepted
  <2>4. t.queued = 0
    BY <1>1, <2>2, <2>3
  <2>5. Len(t.taken) = t.ackno - 1
    <3>1. Len(t.taken) = Len(s.taken) + Len(seg.data)
      BY <1>1, <1>2, <2>3, ConcatProperties
    <3>. QED BY <1>1, <1>2, <2>2, <2>3, <3>1
  <2>6. t.wrote_eof <=> t.all_recv_output
    BY <2>2, <2>3
  <2>7. OutInv(t, p)
    BY <2>2, <2>3, <2>4, <2>5, <2>6 DEF OutInv
  <2>8. /\ seg.seqno = Len(s.taken) + 1
        /\ Len(s.taken) + Len(seg.data) <= p.inputted
    BY SMTT(20), <1>1, <1>2, <1>3, <1>9, <2>2
  <2>. QED BY <2>1, <2>2, <2>3, <2>7, <2>8 DEF DataOutput, t
<1>10. CASE "FIN" \in seg.flags /\ seg.seqno = s.ackno /\ Ended(s, t)
  <2>1. seg.seqno = p.next_seqno /\ seg.seqno <= p.next_seqno
    BY <1>1, <1>5, <1>10
  <2>2. /\ ~s.all_recv_output /\ Len(s.taken) = s.ackno - 1
        /\ s.queued = 0
    BY <1>8, <1>10, <2>1 DEF OutInv
  <2>3. /\ t.ackno = s.ackno + 1 /\ t.all_recv_output /\ t.wrote_eof
        /\ t.taken = s.taken /\ t.queued = s.queued
    BY <1>10 DEF Ended
  <2>4. /\ Len(t.taken) + 1 = t.ackno - 1 /\ t.ackno = p.next_seqno + 1
        /\ Len(s.taken) = p.inputted
    <3>1. /\ s.ackno = p.next_seqno /\ Len(s.taken) = s.ackno - 1
          /\ t.ackno = s.ackno + 1 /\ t.taken = s.taken
      BY <1>10, <2>1, <2>2, <2>3
    <3>. QED BY <1>2, <3>1
  <2>5. OutInv(t, p)
    BY <1>5, <1>10, <2>2, <2>3, <2>4 DEF OutInv
  <2>. QED BY <1>5, <1>10, <2>3, <2>4, <2>5 DEF EndOutput, t
<1>. QED BY <1>6, <1>7, <1>9, <1>10

\* What the peer does leaves the debt of this side's output as it is.
LEMMA PeerGrows ==
    ASSUME NEW s, NEW p \in HostState, NEW q \in HostState, OutInv(s, p), Grew(p, q)
    PROVE  OutInv(s, q)
BY DEF OutInv, Grew

\* A handler of h that keeps OutInv and StreamInv of its host keeps OInv.
LEMMA HandledOutput ==
    ASSUME IInv, OInv, NEW h \in Hosts, NEW t \in HostState,
           OutInv(t, host[Peer(h)]), StreamInv(t), Grew(host[h], t),
           Handled(h, t)
    PROVE  OInv'
<1> DEFINE p == Peer(h)
           clean == [t EXCEPT !.wire = <<>>]
<1>1. p \in Hosts /\ p # h /\ Peer(p) = h /\ Hosts = {h, p}
  BY PeerIsOther
<1>2. host \in [Hosts -> HostState] /\ host' = [host EXCEPT ![h] = clean]
  BY DEF IInv, TypeOK, Handled
<1>3. <<>> \in Seq(Segment)
  OBVIOUS
<1>4. /\ clean \in HostState /\ clean.queued = t.queued
      /\ clean.wrote_eof = t.wrote_eof /\ clean.taken = t.taken
      /\ clean.all_recv_output = t.all_recv_output /\ clean.ackno = t.ackno
      /\ clean.next_seqno = t.next_seqno /\ clean.inputted = t.inputted
      /\ clean.status = t.status /\ clean.FIN_sent = t.FIN_sent
      /\ clean.read_finish = t.read_finish /\ clean.seqno = t.seqno
  BY <1>3 DEF HostState
<1>. HIDE DEF clean, p
<1>5. host'[h] = clean /\ host'[p] = host[p]
  BY <1>1, <1>2
<1>6. OutInv(clean, host[p]) /\ StreamInv(clean)
  BY <1>4 DEF OutInv, StreamInv, p
<1>7. OutInv(host[p], clean) /\ StreamInv(host[p])
  <2>1. OutInv(host[p], host[h]) /\ StreamInv(host[p])
    BY <1>1 DEF OInv
  <2>2. Grew(host[h], clean)
    BY <1>4 DEF Grew
  <2>3. host[h] \in HostState
    BY <1>2
  <2>. QED BY <1>4, <2>1, <2>2, <2>3, PeerGrows
<1>8. \A k \in Hosts : OutInv(host'[k], host'[Peer(k)]) /\ StreamInv(host'[k])
  BY <1>1, <1>5, <1>6, <1>7 DEF p
<1>. QED BY <1>8 DEF OInv

\* What a handler of h makes of h when all of its output is taken at once.
Bytes(h) ==
    Contents(host[h]) /\ InOrder(host[h].taken) /\ \A seg \in net[h] : Content(seg)

Progress(h, t) ==
    LET s == host[h]
        p == host[Peer(h)]
    IN  /\ t \in HostState /\ Grew(s, t) /\ OutInv(t, p) /\ StreamInv(t)
        /\ Bytes(h) => Contents(t) /\ InOrder(t.taken)
        /\ \/ /\ NoOutput(s, t)
              /\ \/ t.inputted = s.inputted /\ t.read_finish = s.read_finish
                 \/ t.inputted = s.inputted /\ t.read_finish
                 \/ /\ t.inputted > s.inputted /\ ~s.read_finish
                    /\ t.read_finish = s.read_finish
           \/ /\ t.inputted = s.inputted /\ t.read_finish = s.read_finish
              /\ EndOutput(s, t, p) \/ \E seg \in net[h] : DataOutput(s, t, seg, p)

\* What the invariants say of one host.
LEMMA HostFacts ==
    ASSUME IInv, OInv, NEW h \in Hosts
    PROVE  LET s == host[h]
               p == host[Peer(h)]
           IN  /\ s \in HostState /\ p \in HostState
               /\ LocalInv(s) /\ OutInv(s, p) /\ StreamInv(s) /\ StreamInv(p)
               /\ s.seqno <= p.ackno /\ s.ackno <= Limit(p)
               /\ s.inputted \in Nat /\ s.next_seqno \in Nat
BY PeerIsOther DEF IInv, OInv, TypeOK, HostState

\* Reading is a write of the abstract service.
LEMMA ReadProgress ==
    ASSUME IInv, OInv, NEW h \in Hosts, Read(h)
    PROVE  \E t : Handled(h, t) /\ Progress(h, t)
<1> DEFINE s == host[h]
           p == host[Peer(h)]
<1>1. PICK count \in 1..MaxSegDataSize, throttled \in BOOLEAN :
        Handled(h, ctcp_read(s, count, throttled))
  BY DEF Read
<1> DEFINE t == ctcp_read(s, count, throttled)
<1>2. count \in Nat \ {0}
  BY CtcpConstants
<1>3. /\ s \in HostState /\ LocalInv(s) /\ OutInv(s, p) /\ StreamInv(s)
      /\ s.inputted \in Nat /\ s.next_seqno \in Nat
  BY HostFacts
<1>4. s.status = "open" /\ ~s.read_finish
  BY DEF Read, Open, CanRead
<1>5. Grew(s, t)
  BY <1>2, <1>3, <1>4, ReadKeeps DEF HandlerKeeps
<1>6. /\ t \in HostState /\ SameOut(s, t)
      /\ t.inputted = s.inputted + count /\ t.next_seqno = s.next_seqno + count
      /\ t.read_finish = s.read_finish /\ t.status = s.status
      /\ Contents(s) /\ s.next_seqno = s.inputted + 1 => Contents(t)
  BY <1>2, <1>3, ReadEffect
<1>7. Handled(h, t)
  BY <1>1
<1>. HIDE DEF t
<1>8. OutInv(t, p) /\ NoOutput(s, t)
  BY <1>3, <1>6, OutFrame
<1>9. StreamInv(t)
  BY <1>2, <1>3, <1>4, <1>6 DEF StreamInv
<1>10. t.inputted > s.inputted
  BY <1>2, <1>3, <1>6
<1>11. Bytes(h) => Contents(t) /\ InOrder(t.taken)
  BY <1>3, <1>6 DEF Bytes, StreamInv, SameOut
<1>12. Progress(h, t)
  BY <1>4, <1>5, <1>6, <1>8, <1>9, <1>10, <1>11 DEF Progress
<1>. QED BY <1>7, <1>12

\* The end of the input is a close.
LEMMA ReadEofProgress ==
    ASSUME IInv, OInv, NEW h \in Hosts, ReadEOF(h)
    PROVE  \E t : Handled(h, t) /\ Progress(h, t)
<1> DEFINE s == host[h]
           p == host[Peer(h)]
           t == ctcp_read_eof(s)
<1>1. s \in HostState /\ LocalInv(s) /\ OutInv(s, p) /\ StreamInv(s)
  BY HostFacts
<1>2. Handled(h, t) /\ s.status = "open"
  BY DEF ReadEOF, Open
<1>3. Grew(s, t)
  BY <1>1, ReadEofKeeps DEF HandlerKeeps
<1>4. /\ t \in HostState /\ SameOut(s, t) /\ t.read_finish
      /\ t.inputted = s.inputted /\ t.next_seqno = s.next_seqno
      /\ t.status = s.status
      /\ Contents(s) => Contents(t)
  BY <1>1, ReadEofEffect
<1>. HIDE DEF t
<1>5. OutInv(t, p) /\ NoOutput(s, t)
  BY <1>1, <1>4, OutFrame
<1>6. StreamInv(t)
  BY <1>1, <1>2, <1>4 DEF StreamInv
<1>7. Bytes(h) => Contents(t) /\ InOrder(t.taken)
  BY <1>4 DEF Bytes, SameOut
<1>8. Progress(h, t)
  BY <1>3, <1>4, <1>5, <1>6, <1>7 DEF Progress
<1>. QED BY <1>2, <1>8

\* The timer is no step of the service.
LEMMA TimerProgress ==
    ASSUME IInv, OInv, NEW h \in Hosts, NEW expired \in BOOLEAN, Timer(h, expired)
    PROVE  \E t : Handled(h, t) /\ Progress(h, t)
<1> DEFINE s == host[h]
           p == host[Peer(h)]
<1>1. PICK stale_log \in StaleLog : Handled(h, ctcp_timer(s, expired, stale_log))
  BY DEF Timer
<1> DEFINE t == ctcp_timer(s, expired, stale_log)
<1>2. stale_log \in {"ignored", "crash"}
  BY NetConstants
<1>3. s \in HostState /\ LocalInv(s) /\ OutInv(s, p) /\ StreamInv(s)
  BY HostFacts
<1>4. Handled(h, t) /\ s.status = "open"
  BY <1>1 DEF Timer, Open
<1>5. Grew(s, t)
  BY <1>2, <1>3, <1>4, TimerKeeps DEF Ticked, HandlerKeeps
<1>6. Timed(s, t)
  BY <1>2, <1>3, TimerEffect
<1>. HIDE DEF t
<1>7. OutInv(t, p) /\ NoOutput(s, t)
  BY <1>3, <1>6, OutFrame DEF Timed
<1>8. StreamInv(t)
  <2>1. t.next_seqno = t.inputted + 1
    <3>1. t.next_seqno = s.next_seqno /\ t.inputted = s.inputted
      BY <1>6 DEF Timed
    <3>. QED BY <1>3, <3>1 DEF StreamInv
  <2>2. t.status = "finished" => t.FIN_sent /\ t.all_recv_output
    <3>1. s.status # "finished"
      BY <1>4
    <3>. QED BY <1>6, <3>1 DEF Timed
  <2>. QED BY <2>1, <2>2 DEF StreamInv
<1>9. Bytes(h) => Contents(t) /\ InOrder(t.taken)
  <2>1. t.taken = s.taken /\ (Contents(s) => Contents(t))
    BY <1>6 DEF SameOut, Timed
  <2>. QED BY <2>1 DEF Bytes
<1>10. Progress(h, t)
  BY <1>5, <1>6, <1>7, <1>8, <1>9 DEF Progress, Timed
<1>. QED BY <1>4, <1>10

\* Receiving is a delivery, the delivery of the end, or nothing.
LEMMA ReceiveProgress ==
    ASSUME IInv, OInv, SlowStdout = {}, NEW h \in Hosts, Receive(h)
    PROVE  \E t : Handled(h, t) /\ Progress(h, t)
<1> DEFINE s == host[h]
           p == host[Peer(h)]
<1>1. PICK seg \in net[h] : \E written \in Written(h, Len(seg.data)) :
        Handled(h, ctcp_receive(s, seg, written))
  BY DEF Receive
<1>2. PICK written \in Written(h, Len(seg.data)) :
        Handled(h, ctcp_receive(s, seg, written))
  BY <1>1
<1>3. written = Len(seg.data)
  BY <1>2 DEF Written
<1> DEFINE t == ctcp_receive(s, seg, Len(seg.data))
<1>4. /\ s \in HostState /\ p \in HostState /\ LocalInv(s)
      /\ OutInv(s, p) /\ StreamInv(s) /\ StreamInv(p)
      /\ s.seqno <= p.ackno /\ s.ackno <= Limit(p)
  BY HostFacts
<1>5. /\ seg \in Segment /\ seg \in AnySegment /\ seg.data \in Seq(Nat)
      /\ Len(seg.data) \in 0..Len(seg.data) /\ Sendable(p, seg)
  BY <1>2, <1>3, Arriving DEF Segment
<1>6. Handled(h, t) /\ s.status = "open"
  BY <1>2, <1>3 DEF Receive, Open
<1>7. Grew(s, t) /\ t.read_finish = s.read_finish /\ t.inputted = s.inputted
  BY <1>4, <1>5, <1>6, ReceiveKeeps DEF Received, HandlerKeeps
<1>8. Kept(s, t) /\ t.status \in {s.status, "crashed"}
  BY <1>4, <1>5, ReceiveEffect
<1>9. /\ OutInv(t, p)
      /\ NoOutput(s, t) \/ DataOutput(s, t, seg, p) \/ EndOutput(s, t, p)
  BY <1>4, <1>5, ReceiveOutput DEF StreamInv
<1>. HIDE DEF t
<1>10. StreamInv(t)
  BY <1>4, <1>6, <1>8 DEF StreamInv, Kept, SameIn
<1>11. Bytes(h) => Contents(t) /\ InOrder(t.taken)
  <2>. SUFFICES ASSUME Bytes(h) PROVE InOrder(t.taken)
    BY <1>8 DEF Bytes, Kept
  <2>1. CASE t.taken = s.taken
    BY <2>1 DEF Bytes
  <2>2. CASE DataOutput(s, t, seg, p)
    <3>1. /\ seg.seqno = Len(s.taken) + 1 /\ t.taken = s.taken \o seg.data
      BY <2>2 DEF DataOutput
    <3>2. s.taken \in Seq(Nat) /\ InOrder(s.taken) /\ Content(seg)
      BY <1>1, <1>4 DEF HostState, Bytes
    <3>3. \A i \in 1..Len(seg.data) : seg.data[i] = Len(s.taken) + i
      BY <1>5, <3>1, <3>2 DEF Content
    <3>. QED BY <1>5, <3>1, <3>2, <3>3, AppendedInOrder
  <2>. QED BY <1>9, <2>1, <2>2 DEF NoOutput, EndOutput
<1>12. t \in HostState
  BY <1>8 DEF Kept
<1>13. Progress(h, t)
  BY <1>1, <1>7, <1>9, <1>10, <1>11, <1>12 DEF Progress
<1>. QED BY <1>6, <1>13

\* Every handler is a step of the service or none.
LEMMA HandlersProgress ==
    ASSUME IInv, OInv, SlowStdout = {}, NEW h \in Hosts,
           \/ Read(h) \/ ReadEOF(h) \/ Receive(h) \/ Drain(h)
           \/ \E expired \in BOOLEAN : Timer(h, expired)
    PROVE  \E t : Handled(h, t) /\ Progress(h, t)
<1>1. ~Drain(h)
  <2>1. host[h].queued = 0
    BY HostFacts DEF OutInv
  <2>. QED BY <2>1 DEF Drain
<1>. QED BY <1>1, ReadProgress, ReadEofProgress, TimerProgress, ReceiveProgress

\* Nothing has been output yet.
LEMMA InitOutput ==
    ASSUME Init
    PROVE  OInv /\ CInv
<1>1. ASSUME NEW h \in Hosts
      PROVE  /\ OutInv(host[h], host[Peer(h)]) /\ StreamInv(host[h])
             /\ Contents(host[h]) /\ InOrder(host[h].taken)
  <2> DEFINE s == ctcp_init(RecvWindow[h], RecvWindow[Peer(h)])
  <2>1. host[h] = s
    BY DEF Init
  <2>2. /\ s.queued = 0 /\ ~s.wrote_eof /\ ~s.all_recv_output /\ s.ackno = 1
        /\ s.next_seqno = 1 /\ s.inputted = 0 /\ s.status = "open"
        /\ s.taken = <<>> /\ s.segments = <<>> /\ s.wire = <<>>
    BY DEF ctcp_init
  <2>. HIDE DEF s
  <2>3. Len(<<>>) = 0
    OBVIOUS
  <2>4. Len(s.taken) = s.ackno - 1
    BY <2>2, <2>3
  <2>5. OutInv(s, host[Peer(h)])
    BY <2>2, <2>4 DEF OutInv
  <2>6. s.next_seqno = s.inputted + 1
    BY <2>2
  <2>7. StreamInv(s)
    BY <2>2, <2>6 DEF StreamInv
  <2>8. Contents(s) /\ InOrder(s.taken)
    BY <2>2, <2>3 DEF Contents, InOrder
  <2>. QED BY <2>1, <2>5, <2>7, <2>8
<1>2. \A h \in Hosts : net[h] = {}
  BY DEF Init
<1>. QED BY <1>1, <1>2 DEF OInv, CInv

\* Every step of Next but a corruption of a payload is a handler's.
LEMMA Handler ==
    ASSUME Next
    PROVE  \E h \in Hosts :
             \/ Read(h) \/ ReadEOF(h) \/ Receive(h) \/ Drain(h)
             \/ \E expired \in BOOLEAN : Timer(h, expired)
             \/ Corrupt(h)
BY DEF Next

\* When write() takes all it is given, OInv is an invariant.
THEOREM OutputInductive ==
    ASSUME SlowStdout = {}
    PROVE  Spec => []OInv
<1>1. Init => OInv
  BY InitOutput
<1>2. IInv /\ OInv /\ [Next]_vars => OInv'
  <2>. SUFFICES ASSUME IInv, OInv, [Next]_vars PROVE OInv'
    OBVIOUS
  <2>1. CASE host' = host
    BY <2>1 DEF OInv
  <2>2. ASSUME NEW h \in Hosts, NEW t, Handled(h, t), Progress(h, t)
        PROVE  OInv'
    BY <2>2, HandledOutput DEF Progress
  <2>3. CASE Next
    <3>1. PICK h \in Hosts :
            \/ Read(h) \/ ReadEOF(h) \/ Receive(h) \/ Drain(h)
            \/ \E expired \in BOOLEAN : Timer(h, expired)
            \/ Corrupt(h)
      BY <2>3, Handler
    <3>2. CASE Corrupt(h)
      BY <2>1, <3>2 DEF Corrupt
    <3>3. CASE ~Corrupt(h)
      BY <2>2, <3>1, <3>3, HandlersProgress
    <3>. QED BY <3>2, <3>3
  <2>. QED BY <2>1, <2>3 DEF vars
<1>. QED BY <1>1, <1>2, Inductive, PTL DEF Spec

\* What the receiver acknowledged is exactly what it handed to conn_output,
\* when write() takes all it is given.
THEOREM AckedIsOutputted ==
    ASSUME SlowStdout = {}
    PROVE  Spec => []AckedIsOutput
<1>1. IInv /\ OInv => AckedIsOutput
  <2>. SUFFICES ASSUME IInv, OInv, NEW h \in Hosts
                PROVE  Len(host[h].taken)
                         + (IF host[h].all_recv_output THEN 1 ELSE 0)
                         = host[h].ackno - 1
    BY DEF AckedIsOutput
  <2> DEFINE s == host[h]
  <2>1. OutInv(s, host[Peer(h)]) /\ Len(s.taken) \in Nat
    BY HostFacts DEF HostState
  <2>2. CASE s.all_recv_output
    <3>1. Len(s.taken) + 1 = s.ackno - 1
      BY <2>1, <2>2 DEF OutInv
    <3>. QED BY <2>2, <3>1
  <2>3. CASE ~s.all_recv_output
    <3>1. Len(s.taken) = s.ackno - 1
      BY <2>1, <2>3 DEF OutInv
    <3>. QED BY <2>1, <2>3, <3>1
  <2>. QED BY <2>2, <2>3
<1>. QED BY <1>1, Inductive, OutputInductive, PTL

\* A side that tore its connection down as finished (ctcp_timer) has output
\* the whole of its peer's input, and its peer accepted the whole of its own.
THEOREM FinishedHasAll ==
    ASSUME SlowStdout = {}
    PROVE  Spec => []FinishedIsComplete
<1>1. IInv /\ OInv => FinishedIsComplete
  <2>. SUFFICES ASSUME IInv, OInv, NEW h \in Hosts, host[h].status = "finished"
                PROVE  /\ Len(host[h].taken) = InputLen[Peer(h)]
                       /\ host[Peer(h)].ackno >= 1 + InputLen[h]
    BY DEF FinishedIsComplete
  <2> DEFINE s == host[h]
             p == host[Peer(h)]
  <2>1. /\ LocalInv(s) /\ OutInv(s, p) /\ StreamInv(s) /\ StreamInv(p)
        /\ s.seqno <= p.ackno /\ s.inputted \in Nat
    BY HostFacts
  <2>2. /\ p.inputted \in Nat /\ s.ackno \in Nat /\ p.ackno \in Nat
        /\ Len(s.taken) \in Nat /\ LocalInv(p) /\ s.seqno \in Nat
    <3>1. s \in HostState /\ p \in HostState
      BY HostFacts
    <3>2. LocalInv(p)
      BY PeerIsOther DEF IInv
    <3>3. /\ p.inputted \in Nat /\ s.ackno \in Nat /\ p.ackno \in Nat
          /\ s.seqno \in Nat /\ s.taken \in Seq(Nat)
      BY <3>1 DEF HostState
    <3>. QED BY <3>2, <3>3
  <2>3. /\ s.FIN_sent /\ Len(s.taken) + 1 = s.ackno - 1
        /\ p.FIN_sent /\ s.ackno = p.next_seqno + 1
    BY <2>1 DEF StreamInv, OutInv
  <2>4. s.inputted = InputLen[h] /\ p.inputted = InputLen[Peer(h)]
    BY <2>1, <2>2, <2>3, PeerIsOther DEF IInv, LocalInv
  <2>5. /\ p.next_seqno = p.inputted + 1 /\ s.next_seqno = s.inputted + 1
        /\ s.seqno = s.next_seqno
    BY <2>1, <2>3 DEF StreamInv, LocalInv
  <2>6. Len(s.taken) = p.inputted
    BY <2>2, <2>3, <2>5
  <2>7. p.ackno >= 1 + s.inputted
    BY <2>1, <2>2, <2>5
  <2>. QED BY <2>4, <2>6, <2>7
<1>. QED BY <1>1, Inductive, OutputInductive, PTL

-----------------------------------------------------------------------------
\* The connection implements CtcpStream

\* A handler of h keeps the bytes of both hosts and of the network in order.
LEMMA HandledBytes ==
    ASSUME IInv, CInv, NEW h \in Hosts, NEW t, Handled(h, t), Progress(h, t)
    PROVE  CInv'
<1> DEFINE p == Peer(h)
           clean == [t EXCEPT !.wire = <<>>]
           sent == {t.wire[i] : i \in DOMAIN t.wire}
<1>1. p \in Hosts /\ p # h /\ Peer(p) = h /\ Hosts = {h, p}
  BY PeerIsOther
<1>2. /\ host \in [Hosts -> HostState] /\ host' = [host EXCEPT ![h] = clean]
      /\ net \in [Hosts -> SUBSET Segment] /\ net' = [net EXCEPT ![p] = @ \cup sent]
  BY DEF IInv, TypeOK, Handled
<1>3. t \in HostState /\ Contents(t) /\ InOrder(t.taken)
  BY DEF CInv, Bytes, Progress
<1>4. \A seg \in sent : Content(seg)
  <2>1. DOMAIN t.wire = 1..Len(t.wire)
    BY <1>3 DEF HostState
  <2>. QED BY <1>3, <2>1 DEF Contents
<1>5. /\ clean.wire = <<>> /\ clean.segments = t.segments
      /\ clean.taken = t.taken
  BY <1>3 DEF HostState
<1>6. Contents(clean) /\ InOrder(clean.taken)
  <2>1. Len(<<>>) = 0
    OBVIOUS
  <2>. HIDE DEF clean
  <2>. QED BY <1>3, <1>5, <2>1 DEF Contents
<1>. HIDE DEF clean, sent, p
<1>7. /\ host'[h] = clean /\ host'[p] = host[p]
      /\ net'[h] = net[h] /\ net'[p] = net[p] \cup sent
  BY <1>1, <1>2
<1>8. \A k \in Hosts : /\ Contents(host'[k]) /\ InOrder(host'[k].taken)
                       /\ \A seg \in net'[k] : Content(seg)
  BY <1>1, <1>4, <1>6, <1>7 DEF CInv
<1>. QED BY <1>8 DEF CInv

\* Nothing but a corruption puts a byte where it does not belong.
THEOREM BytesInductive ==
    ASSUME SlowStdout = {}, ~CanCorrupt
    PROVE  Spec => []CInv
<1>1. Init => CInv
  BY InitOutput
<1>2. IInv /\ OInv /\ CInv /\ [Next]_vars => CInv'
  <2>. SUFFICES ASSUME IInv, OInv, CInv, [Next]_vars PROVE CInv'
    OBVIOUS
  <2>1. CASE UNCHANGED vars
    BY <2>1 DEF CInv, vars
  <2>2. CASE Next
    <3>1. PICK h \in Hosts :
            \/ Read(h) \/ ReadEOF(h) \/ Receive(h) \/ Drain(h)
            \/ \E expired \in BOOLEAN : Timer(h, expired)
      BY <2>2, Handler DEF Corrupt
    <3>. QED BY <3>1, HandlersProgress, HandledBytes
  <2>. QED BY <2>1, <2>2
<1>. QED BY <1>1, <1>2, Inductive, OutputInductive, PTL DEF Spec

\* Each handler is one step of the two streams, or none.
LEMMA HandledStream ==
    ASSUME IInv, OInv, CInv, NEW h \in Hosts, NEW t, Handled(h, t), Progress(h, t)
    PROVE  [Stream!Next]_(Stream!vars)
<1> DEFINE p == Peer(h)
           s == host[h]
           clean == [t EXCEPT !.wire = <<>>]
           sent == [k \in Hosts |-> host[k].inputted]
           closed == [k \in Hosts |-> host[k].read_finish]
           received == [k \in Hosts |-> host[k].taken]
           ended == [k \in Hosts |-> host[k].wrote_eof]
<1>1. p \in Hosts /\ p # h /\ Peer(p) = h /\ Hosts = {h, p}
  BY PeerIsOther
<1>2. host \in [Hosts -> HostState] /\ host' = [host EXCEPT ![h] = clean]
  BY DEF IInv, TypeOK, Handled
<1>3. t \in HostState
  BY DEF Progress
<1>4. /\ clean.inputted = t.inputted /\ clean.read_finish = t.read_finish
      /\ clean.taken = t.taken /\ clean.wrote_eof = t.wrote_eof
  BY <1>3 DEF HostState
<1>. HIDE DEF clean
<1>5. /\ sent' = [sent EXCEPT ![h] = t.inputted]
      /\ closed' = [closed EXCEPT ![h] = t.read_finish]
      /\ received' = [received EXCEPT ![h] = t.taken]
      /\ ended' = [ended EXCEPT ![h] = t.wrote_eof]
  BY <1>2, <1>4
<1>6. /\ sent[h] = s.inputted /\ closed[h] = s.read_finish
      /\ received[h] = s.taken /\ ended[h] = s.wrote_eof
      /\ sent[p] = host[p].inputted /\ closed[p] = host[p].read_finish
  BY <1>1
<1>7. /\ s \in HostState /\ OutInv(s, host[p]) /\ s.inputted \in Nat
      /\ s.taken \in Seq(Nat) /\ s.wrote_eof \in BOOLEAN
      /\ t.wrote_eof \in BOOLEAN /\ t.read_finish \in BOOLEAN
      /\ t.inputted \in Nat
  BY <1>3, HostFacts DEF HostState
<1>. HIDE DEF sent, closed, received, ended
<1>0. /\ t.inputted = s.inputted => sent' = sent
      /\ t.read_finish = s.read_finish => closed' = closed
      /\ t.taken = s.taken => received' = received
      /\ t.wrote_eof = s.wrote_eof => ended' = ended
  <2>1. t.inputted = s.inputted => sent' = sent
    BY <1>5, <1>6 DEF sent
  <2>2. t.read_finish = s.read_finish => closed' = closed
    BY <1>5, <1>6 DEF closed
  <2>3. t.taken = s.taken => received' = received
    BY <1>5, <1>6 DEF received
  <2>4. t.wrote_eof = s.wrote_eof => ended' = ended
    BY <1>5, <1>6 DEF ended
  <2>. QED BY <2>1, <2>2, <2>3, <2>4
<1>8. CASE NoOutput(s, t) /\ t.inputted = s.inputted /\ t.read_finish = s.read_finish
  <2>1. sent' = sent /\ closed' = closed /\ received' = received /\ ended' = ended
    BY <1>0, <1>8 DEF NoOutput
  <2>. QED BY <2>1 DEF Stream!vars, sent, closed, received, ended
<1>9. CASE NoOutput(s, t) /\ t.inputted = s.inputted /\ t.read_finish
  <2>1. /\ sent' = sent /\ received' = received /\ ended' = ended
        /\ closed' = [closed EXCEPT ![h] = TRUE]
    <3>1. t.read_finish = TRUE
      BY <1>7, <1>9
    <3>2. closed' = [closed EXCEPT ![h] = TRUE]
      BY <1>5, <3>1, Zenon
    <3>3. sent' = sent /\ received' = received /\ ended' = ended
      BY <1>0, <1>9 DEF NoOutput
    <3>. QED BY <3>2, <3>3
  <2>2. Stream!Close(h)
    BY <2>1 DEF Stream!Close, sent, closed, received, ended
  <2>. QED BY <2>2 DEF Stream!Next
<1>10. CASE /\ NoOutput(s, t) /\ t.inputted > s.inputted /\ ~s.read_finish
            /\ t.read_finish = s.read_finish
  <2>1. /\ closed' = closed /\ received' = received /\ ended' = ended
        /\ sent' = [sent EXCEPT ![h] = t.inputted] /\ sent'[h] = t.inputted
    <3>1. sent' = [sent EXCEPT ![h] = t.inputted] /\ sent'[h] = t.inputted
      BY <1>5 DEF sent
    <3>. QED BY <1>0, <1>10, <3>1 DEF NoOutput
  <2>2. Stream!Write(h)
    BY <1>6, <1>7, <1>10, <2>1 DEF Stream!Write, sent, closed, received, ended
  <2>. QED BY <2>2 DEF Stream!Next
<1>11. CASE /\ t.inputted = s.inputted /\ t.read_finish = s.read_finish
            /\ EndOutput(s, t, host[p])
  <2>1. /\ sent' = sent /\ closed' = closed /\ received' = received
        /\ ended' = [ended EXCEPT ![h] = TRUE]
    <3>1. t.wrote_eof = TRUE
      BY <1>7, <1>11 DEF EndOutput
    <3>2. ended' = [ended EXCEPT ![h] = TRUE]
      BY <1>5, <3>1, Zenon
    <3>3. sent' = sent /\ closed' = closed /\ received' = received
      BY <1>0, <1>11 DEF EndOutput
    <3>. QED BY <3>2, <3>3
  <2>2. closed[p] /\ Len(received[h]) = sent[p]
    <3>1. host[p].read_finish
      BY <1>1, <1>11 DEF EndOutput, IInv, LocalInv
    <3>. QED BY <1>6, <1>11, <3>1 DEF EndOutput
  <2>3. Stream!End(h)
    BY <2>1, <2>2 DEF Stream!End, p, sent, closed, received, ended
  <2>. QED BY <2>3 DEF Stream!Next
<1>12. ASSUME NEW seg \in net[h], t.inputted = s.inputted,
              t.read_finish = s.read_finish, DataOutput(s, t, seg, host[p])
       PROVE  Stream!Next
  <2> DEFINE upto == Len(s.taken) + Len(seg.data)
             more == [i \in 1..(upto - Len(s.taken)) |-> Len(s.taken) + i]
  <2>1. /\ sent' = sent /\ closed' = closed /\ ended' = ended
        /\ received' = [received EXCEPT ![h] = t.taken]
    <3>1. t.wrote_eof = s.wrote_eof
      BY <1>7, <1>12 DEF DataOutput
    <3>. QED BY <1>0, <1>5, <1>12, <3>1
  <2>2. seg.data \in Seq(Nat) /\ Content(seg)
    <3>1. seg \in Segment
      <4>1. net[h] \in SUBSET Segment
        BY DEF IInv, TypeOK
      <4>. QED BY <1>12, <4>1
    <3>2. Content(seg)
      BY <1>12 DEF CInv
    <3>. QED BY <3>1, <3>2 DEF Segment
  <2>3. /\ Len(seg.data) \in Nat \ {0} /\ Len(s.taken) \in Nat
        /\ host[p].inputted \in Nat
    <3>1. seg.data # <<>>
      BY <1>12 DEF DataOutput
    <3>2. host[p] \in HostState
      BY <1>1, <1>2
    <3>3. host[p].inputted \in Nat
      BY <3>2 DEF HostState
    <3>. QED BY <1>7, <2>2, <3>1, <3>3, EmptySeq
  <2>4. more = seg.data
    <3>1. seg.seqno = Len(s.taken) + 1
      BY <1>12 DEF DataOutput
    <3>2. \A i \in 1..Len(seg.data) : seg.data[i] = Len(s.taken) + i
      BY <2>2, <2>3, <3>1 DEF Content
    <3>3. upto - Len(s.taken) = Len(seg.data)
      BY <2>3
    <3>4. more = [i \in 1..Len(seg.data) |-> Len(s.taken) + i]
      BY <3>3
    <3>5. seg.data = [i \in 1..Len(seg.data) |-> seg.data[i]]
      BY <2>2
    <3>. HIDE DEF more
    <3>. QED BY <3>2, <3>4, <3>5
  <2>5. upto \in (Len(s.taken) + 1)..host[p].inputted
    <3>1. Len(s.taken) + Len(seg.data) <= host[p].inputted
      BY <1>12 DEF DataOutput
    <3>2. \A a, b, c \in Nat : b # 0 /\ a + b <= c => a + b \in (a + 1)..c
      OBVIOUS
    <3>. QED BY <2>3, <3>1, <3>2
  <2>6. received' = [received EXCEPT ![h] = s.taken \o more]
    BY <1>12, <2>1, <2>4 DEF DataOutput
  <2>7. ~ended[h]
    BY <1>6, <1>12 DEF DataOutput
  <2>. HIDE DEF upto
  <2>8. Stream!Deliver(h)
    <3>1. upto \in (Len(received[h]) + 1)..sent[Peer(h)]
      BY <1>6, <2>5 DEF p
    <3>2. received' = [received EXCEPT ![h] =
                         @ \o [i \in 1..(upto - Len(@)) |-> Len(@) + i]]
      BY <1>6, <2>6
    <3>. QED BY <2>1, <2>7, <3>1, <3>2 DEF Stream!Deliver, sent, closed, received, ended
  <2>. QED BY <2>8 DEF Stream!Next
<1>. QED BY <1>8, <1>9, <1>10, <1>11, <1>12 DEF Progress, p

\* The network, the acknowledgements, the retransmissions, the timeouts and the
\* teardown implement the pair of byte streams that CtcpStream specifies.
THEOREM StreamImplemented ==
    ASSUME SlowStdout = {}, ~CanCorrupt
    PROVE  Spec => ImplementsStream
<1>1. Init => Stream!Init
  <2>. SUFFICES ASSUME Init PROVE Stream!Init
    OBVIOUS
  <2>1. \A h \in Hosts : /\ host[h].inputted = 0 /\ host[h].read_finish = FALSE
                         /\ host[h].taken = <<>> /\ host[h].wrote_eof = FALSE
    BY DEF Init, ctcp_init
  <2>. QED BY <2>1 DEF Stream!Init
<1>2. IInv /\ OInv /\ CInv /\ [Next]_vars => [Stream!Next]_(Stream!vars)
  <2>. SUFFICES ASSUME IInv, OInv, CInv, [Next]_vars
                PROVE  [Stream!Next]_(Stream!vars)
    OBVIOUS
  <2>1. CASE UNCHANGED vars
    BY <2>1 DEF vars, Stream!vars
  <2>2. CASE Next
    <3>1. PICK h \in Hosts :
            \/ Read(h) \/ ReadEOF(h) \/ Receive(h) \/ Drain(h)
            \/ \E expired \in BOOLEAN : Timer(h, expired)
      BY <2>2, Handler DEF Corrupt
    <3>. QED BY <3>1, HandlersProgress, HandledStream
  <2>. QED BY <2>1, <2>2
<1>. QED
  BY <1>1, <1>2, Inductive, OutputInductive, BytesInductive, PTL
  DEF Spec, ImplementsStream, Stream!Spec

-----------------------------------------------------------------------------
\* Whatever write() takes and whatever is corrupted, the output is in its place

\* The bytes of a segment are those its numbers say, but for corrupted ones.
Mangled(seg) == \A i \in 1..Len(seg.data) : seg.data[i] \in {0, seg.seqno - 1 + i}

InPlace(seq) == \A i \in 1..Len(seq) : seq[i] \in {0, i}

\* Until an end of file is recorded, be it a false one, s has output what it
\* acknowledged; it never outputs more than p has read.
Placed(s, p) ==
    /\ s.next_seqno = s.inputted + 1 /\ Contents(s)
    /\ InPlace(s.taken) /\ Len(s.taken) <= p.inputted
    /\ ~s.wrote_eof => Len(s.taken) = s.ackno - 1

PInv == \A h \in Hosts : /\ Placed(host[h], host[Peer(h)])
                         /\ \A seg \in net[h] : Mangled(seg)

\* A step that outputs nothing leaves the output in its place.
LEMMA PlacedFrame ==
    ASSUME NEW s, NEW t, NEW p, Placed(s, p), Contents(t), t.taken = s.taken,
           t.next_seqno = t.inputted + 1,
           s.wrote_eof => t.wrote_eof,
           ~t.wrote_eof => t.ackno = s.ackno
    PROVE  Placed(t, p)
BY DEF Placed

\* The next bytes, corrupted or not, after the first ones.
LEMMA AppendedInPlace ==
    ASSUME NEW q \in Seq(Nat), NEW seg \in Segment, InPlace(q), Mangled(seg),
           seg.seqno = Len(q) + 1
    PROVE  InPlace(q \o seg.data)
<1> DEFINE data == seg.data
           c == q \o data
<1>1. data \in Seq(Nat) /\ Len(q) \in Nat /\ Len(data) \in Nat
  BY DEF Segment
<1>2. /\ Len(c) = Len(q) + Len(data)
      /\ \A i \in 1..(Len(q) + Len(data)) :
           c[i] = IF i <= Len(q) THEN q[i] ELSE data[i - Len(q)]
  BY <1>1, ConcatProperties
<1>3. \A i \in 1..Len(data) : data[i] \in {0, Len(q) + i}
  BY <1>1 DEF Mangled
<1>. HIDE DEF c, data
<1>4. ASSUME NEW i \in 1..Len(c) PROVE c[i] \in {0, i}
  <2>1. CASE i <= Len(q)
    BY <1>1, <1>2, <2>1 DEF InPlace
  <2>2. CASE i > Len(q)
    <3>1. i - Len(q) \in 1..Len(data)
      BY <1>1, <1>2, <2>2
    <3>2. data[i - Len(q)] \in {0, Len(q) + (i - Len(q))}
      BY <1>3, <3>1
    <3>3. Len(q) + (i - Len(q)) = i /\ c[i] = data[i - Len(q)]
      BY <1>1, <1>2, <2>2
    <3>. QED BY <3>2, <3>3
  <2>. QED BY <1>1, <1>2, <2>1, <2>2
<1>. QED BY <1>4 DEF InPlace, c, data

\* A segment that is accepted carries the bytes after those that were output.
LEMMA ReceivePlaced ==
    ASSUME NEW s \in HostState, NEW p \in HostState, NEW seg, Sendable(p, seg),
           Placed(s, p), p.next_seqno = p.inputted + 1, Mangled(seg),
           NEW written \in 0..Len(seg.data)
    PROVE  Placed(ctcp_receive(s, seg, written), p)
<1> DEFINE t == ctcp_receive(s, seg, written)
<1>1. /\ seg \in Segment /\ seg \in AnySegment /\ seg.data \in Seq(Nat)
      /\ Len(seg.data) \in Nat /\ seg.seqno \in Nat
      /\ s.ackno \in Nat /\ s.taken \in Seq(Nat) /\ Len(s.taken) \in Nat
      /\ p.next_seqno \in Nat /\ p.inputted \in Nat
  <2>1. seg \in Segment
    BY DEF Sendable
  <2>2. seg \in AnySegment /\ seg.data \in Seq(Nat) /\ seg.seqno \in Nat
    BY <2>1 DEF Segment, AnySegment
  <2>3. s.ackno \in Nat /\ s.taken \in Seq(Nat)
    BY DEF HostState
  <2>4. p.next_seqno \in Nat /\ p.inputted \in Nat
    BY DEF HostState
  <2>. QED BY <2>1, <2>2, <2>3, <2>4
<1>2. seg.seqno + Len(seg.data) <= p.next_seqno
  BY DEF Sendable, End
<1>3. "FIN" \in seg.flags => ~HasData(seg)
  <2>1. "FIN" \in seg.flags => seg.seqno = p.next_seqno
    BY DEF Sendable
  <2>. QED BY <1>1, <1>2, <2>1, EmptySeq DEF HasData
<1>4. /\ Kept(s, t)
      /\ \/ SameOut(s, t)
         \/ /\ HasData(seg) /\ seg.seqno = s.ackno
            /\ Accepted(s, t, seg.data, written)
         \/ Ended(s, t)
  BY <1>1, <1>3, ReceiveEffect
<1>. HIDE DEF t
<1>5. Contents(t) /\ t.next_seqno = t.inputted + 1
  BY <1>4 DEF Kept, SameIn, Placed
<1>6. CASE SameOut(s, t)
  BY <1>5, <1>6, PlacedFrame DEF SameOut, t
<1>7. CASE Ended(s, t)
  BY <1>5, <1>7, PlacedFrame DEF Ended, t
<1>8. CASE s.wrote_eof /\ Accepted(s, t, seg.data, written)
  BY <1>5, <1>8, PlacedFrame DEF Accepted, t
<1>9. CASE ~s.wrote_eof /\ seg.seqno = s.ackno /\ Accepted(s, t, seg.data, written)
  <2>1. /\ t.ackno = s.ackno + Len(seg.data) /\ t.taken = s.taken \o seg.data
        /\ ~t.wrote_eof
    BY <1>9 DEF Accepted
  <2>2. Len(s.taken) = s.ackno - 1 /\ InPlace(s.taken)
    BY <1>9 DEF Placed
  <2>3. seg.seqno = Len(s.taken) + 1
    BY <1>1, <1>9, <2>2
  <2>4. InPlace(t.taken)
    BY <1>1, <2>1, <2>2, <2>3, AppendedInPlace
  <2>5. Len(t.taken) = Len(s.taken) + Len(seg.data)
    BY <1>1, <2>1, ConcatProperties
  <2>6. Len(t.taken) = t.ackno - 1 /\ Len(t.taken) <= p.inputted
    <3> DEFINE len == Len(s.taken)
               more == Len(seg.data)
               ackno == s.ackno
               next == p.next_seqno
               inputted == p.inputted
    <3>1. /\ len \in Nat /\ more \in Nat /\ ackno \in Nat /\ inputted \in Nat
          /\ len = ackno - 1 /\ ackno + more <= next /\ next = inputted + 1
      BY <1>1, <1>2, <1>9, <2>2
    <3>2. Len(t.taken) = len + more /\ t.ackno = ackno + more
      BY <2>1, <2>5
    <3>. HIDE DEF len, more, ackno, next, inputted
    <3>3. len + more = (ackno + more) - 1 /\ len + more <= inputted
      BY <3>1
    <3>. QED BY <3>2, <3>3 DEF inputted
  <2>. QED BY <1>5, <2>4, <2>6 DEF Placed, t
<1>. QED BY <1>4, <1>6, <1>7, <1>8, <1>9

\* A handler of h that leaves h's output in its place, and reads on, keeps PInv.
LEMMA HandledPlaces ==
    ASSUME IInv, PInv, NEW h \in Hosts, NEW t \in HostState, Handled(h, t),
           Placed(t, host[Peer(h)]), host[h].inputted <= t.inputted
    PROVE  PInv'
<1> DEFINE p == Peer(h)
           clean == [t EXCEPT !.wire = <<>>]
           sent == {t.wire[i] : i \in DOMAIN t.wire}
<1>1. p \in Hosts /\ p # h /\ Peer(p) = h /\ Hosts = {h, p}
  BY PeerIsOther
<1>2. /\ host \in [Hosts -> HostState] /\ host' = [host EXCEPT ![h] = clean]
      /\ net \in [Hosts -> SUBSET Segment] /\ net' = [net EXCEPT ![p] = @ \cup sent]
  BY DEF IInv, TypeOK, Handled
<1>3. \A seg \in sent : Mangled(seg)
  <2>1. DOMAIN t.wire = 1..Len(t.wire)
    BY DEF HostState
  <2>2. \A seg \in sent : Content(seg)
    BY <2>1 DEF Placed, Contents
  <2>. QED BY <2>2 DEF Content, Mangled
<1>4. /\ clean.wire = <<>> /\ clean.segments = t.segments
      /\ clean.taken = t.taken /\ clean.wrote_eof = t.wrote_eof
      /\ clean.ackno = t.ackno /\ clean.inputted = t.inputted
      /\ clean.next_seqno = t.next_seqno
  BY DEF HostState
<1>. HIDE DEF clean, sent
<1>5. Placed(clean, host[p])
  <2>1. Len(<<>>) = 0
    OBVIOUS
  <2>2. Contents(clean)
    BY <1>4, <2>1 DEF Placed, Contents
  <2>. QED BY <1>4, <2>2 DEF Placed
<1>6. Placed(host[p], clean)
  <2>1. Placed(host[p], host[h])
    BY <1>1 DEF PInv
  <2>2. /\ Len(host[p].taken) \in Nat /\ host[h].inputted \in Nat
        /\ t.inputted \in Nat
    BY <1>1, <1>2 DEF HostState
  <2>. QED BY <1>4, <2>1, <2>2 DEF Placed
<1>. HIDE DEF p
<1>7. /\ host'[h] = clean /\ host'[p] = host[p]
      /\ net'[h] = net[h] /\ net'[p] = net[p] \cup sent
  BY <1>1, <1>2
<1>8. \A k \in Hosts : /\ Placed(host'[k], host'[Peer(k)])
                       /\ \A seg \in net'[k] : Mangled(seg)
  BY <1>1, <1>3, <1>5, <1>6, <1>7 DEF PInv, p
<1>. QED BY <1>8 DEF PInv

\* A corrupted payload has its other bytes where they were.
LEMMA CorruptPlaces ==
    ASSUME IInv, PInv, NEW h \in Hosts, Corrupt(h)
    PROVE  PInv'
<1>1. PICK seg \in net[h] : \E i \in DOMAIN seg.data :
        /\ net' = [net EXCEPT ![h] = @ \cup {[seg EXCEPT !.data[i] = 0]}]
        /\ host' = host
  BY DEF Corrupt
<1>2. PICK i \in DOMAIN seg.data :
        /\ net' = [net EXCEPT ![h] = @ \cup {[seg EXCEPT !.data[i] = 0]}]
        /\ host' = host
  BY <1>1
<1> DEFINE bad == [seg EXCEPT !.data[i] = 0]
<1>3. net \in [Hosts -> SUBSET Segment] /\ seg \in Segment /\ Mangled(seg)
  BY DEF IInv, TypeOK, PInv
<1>4. /\ bad.seqno = seg.seqno /\ bad.data = [seg.data EXCEPT ![i] = 0]
      /\ Len(bad.data) = Len(seg.data)
  BY <1>3 DEF Segment
<1>5. Mangled(bad)
  <2>1. \A j \in 1..Len(seg.data) : bad.data[j] \in {0, seg.data[j]}
    BY <1>3, <1>4 DEF Segment
  <2>. HIDE DEF bad
  <2>. QED BY <1>3, <1>4, <2>1 DEF Mangled
<1>. HIDE DEF bad
<1>6. \A k \in Hosts : net'[k] \subseteq net[k] \cup {bad}
  BY <1>2, <1>3 DEF bad
<1>. QED BY <1>2, <1>5, <1>6 DEF PInv

\* Nothing is repeated in the output or left out of it, for any write(): an end
\* of file that conn_drain records by mistake cuts the output short, and a
\* corruption, which the receiver does not look for, changes only the byte it hits.
THEOREM OutputInPlace == Spec => []OutputIsInPlace
<1>1. Init => PInv
  <2>. SUFFICES ASSUME Init, NEW h \in Hosts PROVE Placed(host[h], host[Peer(h)])
    BY DEF Init, PInv
  <2>1. /\ host[h].next_seqno = 1 /\ host[h].inputted = 0 /\ host[h].ackno = 1
        /\ host[h].taken = <<>> /\ host[h].segments = <<>> /\ host[h].wire = <<>>
        /\ host[Peer(h)].inputted = 0
    BY PeerIsOther DEF Init, ctcp_init
  <2>2. Len(<<>>) = 0
    OBVIOUS
  <2>3. Contents(host[h]) /\ InPlace(host[h].taken)
    BY <2>1, <2>2 DEF Contents, InPlace
  <2>. QED BY <2>1, <2>2, <2>3 DEF Placed
<1>2. IInv /\ PInv /\ [Next]_vars => PInv'
  <2>. SUFFICES ASSUME IInv, PInv, [Next]_vars PROVE PInv'
    OBVIOUS
  <2>0. ASSUME NEW h \in Hosts
        PROVE  /\ host[h] \in HostState /\ host[Peer(h)] \in HostState
               /\ Placed(host[h], host[Peer(h)])
               /\ host[h].next_seqno = host[h].inputted + 1
               /\ host[Peer(h)].next_seqno = host[Peer(h)].inputted + 1
               /\ host[h].inputted \in Nat /\ Contents(host[h])
    BY PeerIsOther DEF IInv, TypeOK, PInv, Placed, HostState
  <2>1. CASE UNCHANGED vars
    BY <2>1 DEF vars, PInv
  <2>2. ASSUME NEW h \in Hosts, Read(h) PROVE PInv'
    <3>1. PICK count \in 1..MaxSegDataSize, throttled \in BOOLEAN :
            Handled(h, ctcp_read(host[h], count, throttled))
      BY <2>2 DEF Read
    <3> DEFINE t == ctcp_read(host[h], count, throttled)
    <3>2. count \in Nat \ {0}
      BY CtcpConstants
    <3>3. /\ t \in HostState /\ SameOut(host[h], t) /\ Contents(t) /\ Handled(h, t)
          /\ t.inputted = host[h].inputted + count
          /\ t.next_seqno = host[h].next_seqno + count
      BY <2>0, <3>1, <3>2, ReadEffect
    <3>. HIDE DEF t
    <3>4. t.next_seqno = t.inputted + 1 /\ host[h].inputted <= t.inputted
      BY <2>0, <3>2, <3>3
    <3>5. Placed(t, host[Peer(h)])
      BY <2>0, <3>3, <3>4, PlacedFrame DEF SameOut
    <3>. QED BY <3>3, <3>4, <3>5, HandledPlaces
  <2>3. ASSUME NEW h \in Hosts, ReadEOF(h) PROVE PInv'
    <3> DEFINE t == ctcp_read_eof(host[h])
    <3>1. /\ t \in HostState /\ SameOut(host[h], t) /\ Contents(t) /\ Handled(h, t)
          /\ t.inputted = host[h].inputted /\ t.next_seqno = host[h].next_seqno
      BY <2>0, <2>3, ReadEofEffect DEF ReadEOF
    <3>. HIDE DEF t
    <3>2. Placed(t, host[Peer(h)])
      BY <2>0, <3>1, PlacedFrame DEF SameOut
    <3>. QED BY <2>0, <3>1, <3>2, HandledPlaces
  <2>4. ASSUME NEW h \in Hosts, Receive(h) PROVE PInv'
    <3>1. PICK seg \in net[h] : \E written \in Written(h, Len(seg.data)) :
            Handled(h, ctcp_receive(host[h], seg, written))
      BY <2>4 DEF Receive
    <3>2. PICK written \in Written(h, Len(seg.data)) :
            Handled(h, ctcp_receive(host[h], seg, written))
      BY <3>1
    <3> DEFINE t == ctcp_receive(host[h], seg, written)
    <3>3. /\ seg \in AnySegment /\ written \in 0..Len(seg.data)
          /\ Sendable(host[Peer(h)], seg) /\ Mangled(seg)
      BY Arriving DEF PInv
    <3>4. Kept(host[h], t) /\ Placed(t, host[Peer(h)]) /\ Handled(h, t)
      BY <2>0, <3>2, <3>3, ReceiveEffect, ReceivePlaced
    <3>. HIDE DEF t
    <3>. QED BY <2>0, <3>4, HandledPlaces DEF Kept, SameIn
  <2>5. ASSUME NEW h \in Hosts, Drain(h) PROVE PInv'
    <3>1. PICK drained \in 1..host[h].queued : Handled(h, conn_drain(host[h], drained))
      BY <2>5 DEF Drain
    <3> DEFINE t == conn_drain(host[h], drained)
    <3>2. /\ t \in HostState /\ SameIn(host[h], t) /\ Handled(h, t)
          /\ t.taken = host[h].taken /\ t.ackno = host[h].ackno
          /\ host[h].wrote_eof => t.wrote_eof
          /\ t.segments = host[h].segments /\ t.wire = host[h].wire
      BY <2>0, <3>1, DrainEffect
    <3>. HIDE DEF t
    <3>3. Contents(t) /\ t.next_seqno = t.inputted + 1 /\ t.inputted = host[h].inputted
      BY <2>0, <3>2 DEF Contents, SameIn
    <3>4. Placed(t, host[Peer(h)])
      BY <2>0, <3>2, <3>3, PlacedFrame
    <3>. QED BY <2>0, <3>2, <3>3, <3>4, HandledPlaces
  <2>6. ASSUME NEW h \in Hosts, NEW expired \in BOOLEAN, Timer(h, expired)
        PROVE  PInv'
    <3>1. PICK stale_log \in StaleLog :
            Handled(h, ctcp_timer(host[h], expired, stale_log))
      BY <2>6 DEF Timer
    <3> DEFINE t == ctcp_timer(host[h], expired, stale_log)
    <3>2. stale_log \in {"ignored", "crash"}
      BY NetConstants
    <3>3. Timed(host[h], t) /\ Handled(h, t)
      BY <2>0, <3>1, <3>2, TimerEffect
    <3>. HIDE DEF t
    <3>4. Placed(t, host[Peer(h)])
      BY <2>0, <3>3, PlacedFrame DEF Timed, SameOut
    <3>. QED BY <2>0, <3>3, <3>4, HandledPlaces DEF Timed
  <2>. QED BY <2>1, <2>2, <2>3, <2>4, <2>5, <2>6, CorruptPlaces DEF Next
<1>3. PInv => OutputIsInPlace
  BY DEF PInv, Placed, InPlace, OutputIsInPlace
<1>. QED BY <1>1, <1>2, <1>3, Inductive, PTL DEF Spec

-----------------------------------------------------------------------------
\* The orderly network (CtcpLink) is one of CtcpNet's

\* The segments of a queue.
Elems(q) == {q[i] : i \in 1..Len(q)}

\* What is left of a queue was in it.
LEMMA ElemsTail ==
    ASSUME NEW q \in Seq(Segment), q # <<>>
    PROVE  /\ Tail(q) \in Seq(Segment) /\ Elems(Tail(q)) \subseteq Elems(q)
           /\ Head(q) \in Elems(q) /\ Head(q) \in Segment
<1>1. /\ Tail(q) \in Seq(Segment) /\ Len(Tail(q)) = Len(q) - 1
      /\ \A i \in 1..Len(Tail(q)) : Tail(q)[i] = q[i + 1]
      /\ Head(q) = q[1] /\ Len(q) \in Nat \ {0}
  BY HeadTailProperties, EmptyQueue
<1>2. \A i \in 1..Len(Tail(q)) : i + 1 \in 1..Len(q)
  BY <1>1
<1>3. Elems(Tail(q)) \subseteq Elems(q)
  BY <1>1, <1>2 DEF Elems
<1>4. 1 \in 1..Len(q) /\ q[1] \in Segment
  BY <1>1
<1>. QED BY <1>1, <1>3, <1>4 DEF Elems

\* Joining two queues joins their segments.
LEMMA ElemsConcat ==
    ASSUME NEW q \in Seq(Segment), NEW r \in Seq(Segment)
    PROVE  q \o r \in Seq(Segment) /\ Elems(q \o r) = Elems(q) \cup Elems(r)
<1>1. /\ q \o r \in Seq(Segment) /\ Len(q \o r) = Len(q) + Len(r)
      /\ Len(q) \in Nat /\ Len(r) \in Nat
      /\ \A i \in 1..(Len(q) + Len(r)) :
           (q \o r)[i] = IF i <= Len(q) THEN q[i] ELSE r[i - Len(q)]
  BY ConcatProperties
<1>2. ASSUME NEW i \in 1..Len(q \o r)
      PROVE  (q \o r)[i] \in Elems(q) \cup Elems(r)
  <2>1. CASE i <= Len(q)
    BY <1>1, <2>1 DEF Elems
  <2>2. CASE i > Len(q)
    <3>1. i - Len(q) \in 1..Len(r)
      BY <1>1, <2>2
    <3>. QED BY <1>1, <2>2, <3>1 DEF Elems
  <2>. QED BY <1>1, <2>1, <2>2
<1>3. ASSUME NEW i \in 1..Len(q) PROVE q[i] \in Elems(q \o r)
  <2>1. i \in 1..Len(q \o r) /\ (q \o r)[i] = q[i]
    BY <1>1
  <2>. QED BY <2>1 DEF Elems
<1>4. ASSUME NEW i \in 1..Len(r) PROVE r[i] \in Elems(q \o r)
  <2>1. /\ i + Len(q) \in 1..Len(q \o r)
        /\ (q \o r)[i + Len(q)] = r[i]
    BY <1>1
  <2>. QED BY <2>1 DEF Elems
<1>5. Elems(q \o r) \subseteq Elems(q) \cup Elems(r)
  BY <1>2 DEF Elems
<1>6. Elems(q) \subseteq Elems(q \o r) /\ Elems(r) \subseteq Elems(q \o r)
  BY <1>3, <1>4 DEF Elems
<1>. QED BY <1>1, <1>5, <1>6

\* What is on its way was sent.
WayInv ==
    /\ link \in [Hosts -> Seq(Segment)]
    /\ \A h \in Hosts : Elems(link[h]) \subseteq net[h]

\* A handler's step, seen from both hosts.
LEMMA LinkEffect ==
    ASSUME IInv, WayInv, NEW h \in Hosts, NEW t \in HostState,
           NEW rest \in Seq(Segment), Elems(rest) \subseteq net[h],
           LinkHandled(h, t, rest)
    PROVE  LET p == Peer(h)
           IN  /\ WayInv'
               /\ link'[h] = rest /\ link'[p] = link[p] \o t.wire
               /\ host'[h] = [t EXCEPT !.wire = <<>>] /\ host'[p] = host[p]
<1> DEFINE p == Peer(h)
           clean == [t EXCEPT !.wire = <<>>]
           sent == {t.wire[i] : i \in DOMAIN t.wire}
           w == link[p] \o t.wire
<1>1. p \in Hosts /\ p # h /\ Peer(p) = h /\ Hosts = {h, p}
  BY PeerIsOther
<1>2. /\ host \in [Hosts -> HostState] /\ net \in [Hosts -> SUBSET Segment]
      /\ link \in [Hosts -> Seq(Segment)] /\ Elems(link[p]) \subseteq net[p]
  BY <1>1 DEF IInv, TypeOK, WayInv
<1>3. /\ host' = [host EXCEPT ![h] = clean] /\ net' = [net EXCEPT ![p] = @ \cup sent]
      /\ link' = [link EXCEPT ![h] = rest, ![p] = @ \o t.wire]
  BY DEF LinkHandled, Handled
<1>4. t.wire \in Seq(Segment) /\ sent = Elems(t.wire) /\ link[p] \in Seq(Segment)
  <2>1. t.wire \in Seq(Segment)
    BY DEF HostState
  <2>2. DOMAIN t.wire = 1..Len(t.wire)
    BY <2>1
  <2>. QED BY <1>1, <1>2, <2>1, <2>2 DEF Elems
<1>. HIDE DEF sent, clean
<1>5. w \in Seq(Segment) /\ Elems(w) = Elems(link[p]) \cup sent
  BY <1>4, ElemsConcat
<1>6. link' = [link EXCEPT ![h] = rest, ![p] = w]
  BY <1>1, <1>2, <1>3
<1>. HIDE DEF w, p
<1>7. /\ host'[h] = clean /\ host'[p] = host[p]
      /\ net'[h] = net[h] /\ net'[p] = net[p] \cup sent
      /\ link'[h] = rest /\ link'[p] = w
      /\ link' \in [Hosts -> Seq(Segment)]
  <2>1. host'[h] = clean /\ host'[p] = host[p]
    BY <1>1, <1>2, <1>3
  <2>2. net'[h] = net[h] /\ net'[p] = net[p] \cup sent
    BY <1>1, <1>2, <1>3
  <2>3. link'[h] = rest /\ link'[p] = w
    BY <1>1, <1>2, <1>6
  <2>4. link' \in [Hosts -> Seq(Segment)]
    BY <1>1, <1>2, <1>5, <1>6
  <2>. QED BY <2>1, <2>2, <2>3, <2>4
<1>8. \A k \in Hosts : Elems(link'[k]) \subseteq net'[k]
  BY <1>1, <1>2, <1>5, <1>7
<1>. QED BY <1>7, <1>8 DEF WayInv, w, clean, p

\* A segment that is lost, or thrown away, leaves its queue.
LEMMA DropEffect ==
    ASSUME WayInv, NEW h \in Hosts, Discard(h) \/ Lose(h)
    PROVE  /\ host' = host /\ net' = net
           /\ link[h] \in Seq(Segment) /\ link[h] # <<>>
           /\ link'[h] = Tail(link[h]) /\ link'[Peer(h)] = link[Peer(h)]
           /\ WayInv'
<1>1. /\ link \in [Hosts -> Seq(Segment)] /\ link[h] # <<>>
      /\ link' = [link EXCEPT ![h] = Tail(@)] /\ host' = host /\ net' = net
  BY DEF Discard, Lose, WayInv
<1>2. Tail(link[h]) \in Seq(Segment) /\ Elems(Tail(link[h])) \subseteq Elems(link[h])
  BY <1>1, ElemsTail
<1>3. \A k \in Hosts : link'[k] = IF k = h THEN Tail(link[h]) ELSE link[k]
  BY <1>1
<1>4. link' \in [Hosts -> Seq(Segment)]
  BY <1>1, <1>2
<1>5. \A k \in Hosts : Elems(link'[k]) \subseteq net'[k]
  BY <1>1, <1>2, <1>3 DEF WayInv
<1>. QED BY <1>1, <1>3, <1>4, <1>5, PeerIsOther DEF WayInv

\* A step of the orderly network is a step of CtcpNet, or of neither host.
LEMMA LinkStep ==
    ASSUME IInv, WayInv, [LinkNext]_linkVars
    PROVE  [Next]_vars /\ WayInv'
<1>1. CASE UNCHANGED linkVars
  BY <1>1 DEF linkVars, vars, WayInv
<1>2. ASSUME NEW h \in Hosts, NEW t \in HostState, LinkHandled(h, t, link[h])
      PROVE  WayInv'
  <2>1. link[h] \in Seq(Segment) /\ Elems(link[h]) \subseteq net[h]
    BY DEF WayInv
  <2>. QED BY <1>2, <2>1, LinkEffect
<1>3. ASSUME NEW h \in Hosts PROVE host[h] \in HostState
  BY DEF IInv, TypeOK
<1>4. ASSUME NEW h \in Hosts, LinkRead(h) PROVE Next /\ WayInv'
  <2>1. PICK count \in 1..MaxSegDataSize, throttled \in BOOLEAN :
          /\ host[h].inputted + count <= InputLen[h]
          /\ LinkHandled(h, ctcp_read(host[h], count, throttled), link[h])
    BY <1>4 DEF LinkRead
  <2> DEFINE t == ctcp_read(host[h], count, throttled)
  <2>2. count \in Nat \ {0}
    BY CtcpConstants
  <2>3. t \in HostState
    BY <1>3, <2>2, ReadEffect
  <2>4. Handled(h, t)
    BY <2>1 DEF LinkHandled
  <2>5. Read(h)
    BY <1>4, <2>1, <2>4 DEF LinkRead, Read
  <2>6. WayInv'
    BY <1>2, <2>1, <2>3
  <2>. QED BY <2>5, <2>6 DEF Next
<1>5. ASSUME NEW h \in Hosts, LinkReadEOF(h) PROVE Next /\ WayInv'
  <2> DEFINE t == ctcp_read_eof(host[h])
  <2>1. t \in HostState
    BY <1>3, ReadEofEffect
  <2>2. LinkHandled(h, t, link[h]) /\ Handled(h, t)
    BY <1>5 DEF LinkReadEOF, LinkHandled
  <2>3. ReadEOF(h)
    BY <1>5, <2>2 DEF LinkReadEOF, ReadEOF
  <2>. HIDE DEF t
  <2>4. WayInv'
    BY <1>2, <2>1, <2>2
  <2>. QED BY <2>3, <2>4 DEF Next
<1>6. ASSUME NEW h \in Hosts, LinkReceive(h) PROVE Next /\ WayInv'
  <2> DEFINE seg == Head(link[h])
             t == ctcp_receive(host[h], seg, Len(seg.data))
  <2>1. LinkHandled(h, t, Tail(link[h])) /\ Handled(h, t) /\ link[h] # <<>> /\ Open(h)
    BY <1>6 DEF LinkReceive, LinkHandled
  <2>2. seg \in net[h]
    BY <2>1, ElemsTail DEF WayInv
  <2>3. Len(seg.data) \in Written(h, Len(seg.data))
    <3>1. Len(seg.data) \in Nat
      BY <2>2 DEF IInv, TypeOK, Segment
    <3>. QED BY <3>1 DEF Written
  <2>. HIDE DEF seg
  <2>4. t \in HostState
    <3>1. seg \in AnySegment /\ Len(seg.data) \in 0..Len(seg.data)
      BY <2>2, <2>3, Arriving
    <3>. QED BY <1>3, <3>1, ReceiveEffect DEF Kept
  <2>5. Receive(h)
    BY <2>1, <2>2, <2>3 DEF Receive
  <2>. HIDE DEF t
  <2>6. WayInv'
    <3>1. Tail(link[h]) \in Seq(Segment) /\ Elems(Tail(link[h])) \subseteq net[h]
      BY <2>1, ElemsTail DEF WayInv
    <3>. QED BY <2>1, <2>4, <3>1, LinkEffect
  <2>. QED BY <2>5, <2>6 DEF Next
<1>7. ASSUME NEW h \in Hosts, LinkTimer(h) PROVE Next /\ WayInv'
  <2>1. PICK expired \in BOOLEAN, stale_log \in StaleLog :
          LinkHandled(h, ctcp_timer(host[h], expired, stale_log), link[h])
    BY <1>7 DEF LinkTimer
  <2> DEFINE t == ctcp_timer(host[h], expired, stale_log)
  <2>2. stale_log \in {"ignored", "crash"}
    BY NetConstants
  <2>3. t \in HostState
    BY <1>3, <2>2, TimerEffect DEF Timed
  <2>4. Handled(h, t)
    BY <2>1 DEF LinkHandled
  <2>5. Timer(h, expired)
    BY <1>7, <2>1, <2>4 DEF LinkTimer, Timer
  <2>6. WayInv'
    BY <1>2, <2>1, <2>3
  <2>. QED BY <2>5, <2>6 DEF Next
<1>8. ASSUME NEW h \in Hosts, Discard(h) \/ Lose(h) PROVE UNCHANGED vars /\ WayInv'
  BY <1>8, DropEffect DEF vars
<1>. QED BY <1>1, <1>4, <1>5, <1>6, <1>7, <1>8 DEF LinkNext

\* Nothing is on its way at first.
LEMMA LinkInitKeeps ==
    ASSUME LinkInit
    PROVE  IInv /\ WayInv
<1>1. IInv
  BY InitKeeps DEF LinkInit
<1>2. /\ <<>> \in Seq(Segment) /\ Elems(<<>>) = {}
      /\ link = [h \in Hosts |-> <<>>]
  BY DEF LinkInit, Elems
<1>. QED BY <1>1, <1>2 DEF WayInv

\* IInv and WayInv hold over the orderly network.
LEMMA LinkInductive == LinkSpec => [](IInv /\ WayInv)
<1>1. LinkInit => IInv /\ WayInv
  BY LinkInitKeeps
<1>2. (IInv /\ WayInv) /\ [LinkNext]_linkVars => (IInv /\ WayInv)'
  BY LinkStep, NextKeeps
<1>. QED BY <1>1, <1>2, PTL DEF LinkSpec

\* Every behaviour over the orderly network is one of CtcpNet: what is proved
\* of CtcpNet holds of the liveness model too.
THEOREM LinkImplementsNet == LinkSpec => Spec
<1>1. LinkInit => Init
  BY DEF LinkInit
<1>2. (IInv /\ WayInv) /\ [LinkNext]_linkVars => [Next]_vars
  BY LinkStep
<1>. QED BY <1>1, <1>2, LinkInductive, PTL DEF LinkSpec, Spec

-----------------------------------------------------------------------------
\* Over the orderly network an acknowledgement of everything comes once

\* Kinds of segments: with data, with a FIN, with the acknowledgement number n,
\* and of these the ones without data.
WithData == {seg \in Segment : HasData(seg)}
Fins == {seg \in Segment : "FIN" \in seg.flags}
Carrying(n) == {seg \in Segment : "ACK" \in seg.flags /\ seg.ackno = n}
Answers(n) == Carrying(n) \ WithData

\* No segment of A comes before one of B.
NoneBefore(q, A, B) ==
    \A i \in 1..Len(q) : q[i] \in B => \A j \in 1..(i - 1) : q[j] \notin A

\* The hosts that get no data after their FIN is out.
Calm(h) == InputLen[Peer(h)] = 0 \/ h \in ClosesLast

\* A host that sends no data any more.
Silent(h, s) == s.FIN_sent \/ InputLen[h] = 0

QueueOK(q, silent) ==
    \A seg \in Elems(q) : Queued(seg) /\ (silent => ~HasData(seg))

\* What h, in state s, holds to send again.
HoldInv(h, s) ==
    /\ QueueOK(s.segments, Silent(h, s))
    /\ h \in ClosesLast /\ s.read_finish => s.wrote_eof

\* What is on its way, as q, from a peer in state p.
WayTo(h, s, p, q) ==
    /\ \A seg \in Elems(q) : Plain(seg)
    /\ s.wrote_eof => p.FIN_sent
    /\ s.wrote_eof \/ InputLen[Peer(h)] = 0 => Elems(q) \cap WithData = {}
    /\ NoneBefore(q, Fins, WithData)

\* All that s sent is acknowledged once, and the FIN apart from the data.
NoRepeat(s, p, q) ==
    /\ s.status # "crashed"
    /\ NoneBefore(q, Carrying(Limit(s)), Answers(Limit(s)))
    /\ s.status = "open" /\ s.segments = <<>> => Elems(q) \cap Answers(Limit(s)) = {}
    /\ s.FIN_sent => Elems(q) \cap Carrying(s.next_seqno) = {}
    /\ s.FIN_sent /\ s.status = "open" /\ s.segments = <<>> => p.ackno = Limit(s)

LInv ==
    \A h \in Hosts :
        /\ HoldInv(h, host[h])
        /\ WayTo(h, host[h], host[Peer(h)], link[h])
        /\ Calm(h) => NoRepeat(host[h], host[Peer(h)], link[h])

\* Losing the first segment changes no order.
LEMMA NoneBeforeTail ==
    ASSUME NEW q \in Seq(Segment), q # <<>>, NEW A, NEW B, NoneBefore(q, A, B)
    PROVE  /\ NoneBefore(Tail(q), A, B)
           /\ Head(q) \in A => Elems(Tail(q)) \cap B = {}
<1>1. /\ Len(Tail(q)) = Len(q) - 1 /\ Head(q) = q[1]
      /\ \A i \in 1..Len(Tail(q)) : Tail(q)[i] = q[i + 1]
      /\ Len(q) \in Nat \ {0}
  BY HeadTailProperties, EmptyQueue
<1>2. ASSUME NEW i \in 1..Len(Tail(q)), Tail(q)[i] \in B
      PROVE  Head(q) \notin A /\ \A j \in 1..(i - 1) : Tail(q)[j] \notin A
  <2>1. i + 1 \in 1..Len(q) /\ q[i + 1] \in B /\ 1 \in 1..((i + 1) - 1)
    BY <1>1, <1>2
  <2>2. \A j \in 1..((i + 1) - 1) : q[j] \notin A
    BY <2>1 DEF NoneBefore
  <2>3. ASSUME NEW j \in 1..(i - 1) PROVE Tail(q)[j] \notin A
    <3>1. j \in 1..Len(Tail(q)) /\ j + 1 \in 1..((i + 1) - 1)
      BY <1>1, <1>2
    <3>. QED BY <1>1, <2>2, <3>1
  <2>. QED BY <1>1, <2>1, <2>2, <2>3
<1>3. NoneBefore(Tail(q), A, B)
  BY <1>2 DEF NoneBefore
<1>. QED BY <1>2, <1>3 DEF Elems

\* Joining two queues, of which the first has none of A or the second none of B.
LEMMA NoneBeforeConcat ==
    ASSUME NEW q \in Seq(Segment), NEW r \in Seq(Segment), NEW A, NEW B,
           NoneBefore(q, A, B), NoneBefore(r, A, B),
           Elems(q) \cap A = {} \/ Elems(r) \cap B = {}
    PROVE  NoneBefore(q \o r, A, B)
<1> DEFINE c == q \o r
<1>1. /\ Len(c) = Len(q) + Len(r) /\ Len(q) \in Nat /\ Len(r) \in Nat
      /\ \A i \in 1..(Len(q) + Len(r)) :
           c[i] = IF i <= Len(q) THEN q[i] ELSE r[i - Len(q)]
  BY ConcatProperties
<1>. HIDE DEF c
<1>2. ASSUME NEW i \in 1..Len(c), c[i] \in B, NEW j \in 1..(i - 1)
      PROVE  c[j] \notin A
  <2>0. j \in 1..Len(c)
    BY <1>1, <1>2
  <2>1. CASE i <= Len(q)
    <3>1. i \in 1..Len(q) /\ c[i] = q[i] /\ c[j] = q[j]
      BY <1>1, <2>0, <2>1
    <3>. QED BY <1>2, <3>1 DEF NoneBefore
  <2>2. CASE i > Len(q)
    <3>1. i - Len(q) \in 1..Len(r) /\ c[i] = r[i - Len(q)]
      BY <1>1, <2>2
    <3>2. Elems(r) \cap B # {}
      BY <1>2, <3>1 DEF Elems
    <3>3. CASE j <= Len(q)
      <4>1. j \in 1..Len(q) /\ c[j] = q[j]
        BY <1>1, <2>0, <3>3
      <4>. QED BY <3>2, <4>1 DEF Elems
    <3>4. CASE j > Len(q)
      <4>1. j - Len(q) \in 1..((i - Len(q)) - 1) /\ c[j] = r[j - Len(q)]
        BY <1>1, <1>2, <2>0, <2>2, <3>4
      <4>. QED BY <1>2, <3>1, <4>1 DEF NoneBefore
    <3>. QED BY <1>1, <2>0, <3>3, <3>4
  <2>. QED BY <1>1, <2>1, <2>2
<1>3. NoneBefore(c, A, B)
  BY <1>2 DEF NoneBefore
<1>. QED BY <1>3 DEF c

\* Why s answers p now: it had not accepted all of p's data, or it has just
\* taken p's FIN.
Timely(s, t, p) ==
    \/ s.ackno < p.next_seqno
    \/ p.FIN_sent /\ s.ackno = p.next_seqno /\ t.ackno = s.ackno + 1

\* A handler sends what it holds in z, and at most one answer before it.
Sends(s, t, p, z) ==
    \A i \in 1..Len(t.wire) :
        \/ t.wire[i] \in Elems(z)
        \/ i = 1 /\ Answer(t, t.wire[i]) /\ Timely(s, t, p)

\* What is in two disjoint parts of the network in no order.
LEMMA NoneBeforeNone ==
    ASSUME NEW q, NEW A, NEW B, Elems(q) \cap A = {} \/ Elems(q) \cap B = {}
    PROVE  NoneBefore(q, A, B)
BY SMTT(20) DEF NoneBefore, Elems

\* What a handler of h sends is in the order its peer k relies on.
LEMMA WayKeeps ==
    ASSUME NEW h \in Hosts, NEW s \in HostState, NEW t \in HostState, NEW p,
           NEW q \in Seq(Segment), NEW z, NEW k \in Hosts, Peer(k) = h,
           WayTo(k, p, s, q), QueueOK(z, Silent(h, t)), Sends(s, t, p, z),
           s.FIN_sent => t.FIN_sent, LocalInv(t),
           \A seg \in Elems(q) : Sendable(s, seg)
    PROVE  WayTo(k, p, t, q \o t.wire)
<1> DEFINE w == t.wire
<1>1. /\ w \in Seq(Segment) /\ q \o w \in Seq(Segment)
      /\ Elems(q \o w) = Elems(q) \cup Elems(w)
  BY ElemsConcat DEF HostState
<1>2. ASSUME NEW seg \in Elems(w)
      PROVE  /\ Plain(seg) /\ seg \in Segment
             /\ Silent(h, t) => ~HasData(seg)
             /\ "FIN" \in seg.flags => t.FIN_sent
  <2>1. PICK i \in 1..Len(w) : seg = w[i]
    BY DEF Elems
  <2>2. "FIN" \in seg.flags => t.FIN_sent
    BY <2>1 DEF LocalInv, Sendable
  <2>3. seg \in Elems(z) \/ Answer(t, seg)
    BY <2>1 DEF Sends
  <2>4. CASE seg \in Elems(z)
    BY <1>1, <2>1, <2>2, <2>4 DEF QueueOK, Plain
  <2>5. CASE Answer(t, seg)
    BY <2>2, <2>5 DEF Answer, Plain
  <2>. QED BY <2>3, <2>4, <2>5
<1>3. \A seg \in Elems(q \o w) : Plain(seg)
  BY <1>1, <1>2 DEF WayTo
<1>4. p.wrote_eof => t.FIN_sent
  BY DEF WayTo
<1>5. p.wrote_eof \/ InputLen[h] = 0 => Elems(q \o w) \cap WithData = {}
  BY <1>1, <1>2, <1>4 DEF WayTo, Silent, WithData
<1>6. Elems(q) \cap Fins # {} => t.FIN_sent
  BY DEF Fins, Sendable
<1>7. NoneBefore(q \o w, Fins, WithData)
  <2>1. CASE t.FIN_sent
    <3>1. Elems(w) \cap WithData = {}
      BY <1>2, <2>1 DEF Silent, WithData
    <3>. QED BY <1>1, <3>1, NoneBeforeNone, NoneBeforeConcat DEF WayTo
  <2>2. CASE ~t.FIN_sent
    <3>1. Elems(w) \cap Fins = {} /\ Elems(q) \cap Fins = {}
      BY <1>2, <1>6, <2>2 DEF Fins
    <3>. QED BY <1>1, <3>1, NoneBeforeNone, NoneBeforeConcat DEF WayTo
  <2>. QED BY <2>1, <2>2
<1>. HIDE DEF w
<1>8. WayTo(k, p, t, q \o w)
  BY <1>3, <1>4, <1>5, <1>7 DEF WayTo
<1>. QED BY <1>8 DEF w

\* What a handler of h answers is no repetition for its peer.
LEMMA RepeatKeeps ==
    ASSUME NEW h \in Hosts, NEW s \in HostState, NEW t \in HostState,
           NEW p \in HostState, NEW q \in Seq(Segment), NEW z,
           NEW k \in Hosts, Peer(k) = h, Calm(k),
           NoRepeat(p, s, q), WayTo(k, p, s, q), HoldInv(k, p), LocalInv(p),
           QueueOK(z, Silent(h, t)), Sends(s, t, p, z),
           s.FIN_sent => t.FIN_sent,
           p.seqno <= s.ackno, s.ackno <= t.ackno, t.ackno <= Limit(p),
           \A seg \in Elems(q) : Sendable(s, seg)
    PROVE  NoRepeat(p, t, q \o t.wire)
<1> DEFINE w == t.wire
           n == Limit(p)
<1>1. /\ w \in Seq(Segment) /\ q \o w \in Seq(Segment)
      /\ Elems(q \o w) = Elems(q) \cup Elems(w)
  BY ElemsConcat DEF HostState
<1>2. /\ s.ackno \in Nat /\ t.ackno \in Nat /\ p.seqno \in Nat
      /\ p.next_seqno \in Nat /\ n \in Nat
      /\ n = IF p.FIN_sent THEN p.next_seqno + 1 ELSE p.next_seqno
  <2>1. /\ s.ackno \in Nat /\ t.ackno \in Nat /\ p.seqno \in Nat
        /\ p.next_seqno \in Nat /\ p.FIN_sent \in BOOLEAN
    BY DEF HostState
  <2>. QED BY <2>1 DEF Limit
<1>3. ASSUME NEW i \in 1..Len(w), "ACK" \in w[i].flags, ~HasData(w[i])
      PROVE  i = 1 /\ w[i].ackno = t.ackno /\ Timely(s, t, p)
  <2>1. w[i] \notin Elems(z)
    BY <1>3 DEF QueueOK, Queued
  <2>. QED BY <2>1 DEF Sends, Answer
<1>4. ASSUME p.FIN_sent, NEW seg \in Elems(w)
      PROVE  ~HasData(seg)
  <2>1. Silent(h, t)
    <3>1. p.read_finish
      BY <1>4 DEF LocalInv
    <3>. QED BY <3>1 DEF Calm, HoldInv, WayTo, Silent
  <2>2. PICK i \in 1..Len(w) : seg = w[i]
    BY <1>4 DEF Elems
  <2>3. seg \in Elems(z) \/ Answer(t, seg)
    BY <2>2 DEF Sends
  <2>. QED BY <2>1, <2>3 DEF QueueOK, Answer
<1>. HIDE DEF w, n
<1>5. ASSUME NEW seg \in Elems(w) \cap Answers(n)
      PROVE  /\ t.ackno = n /\ s.ackno < n /\ Timely(s, t, p)
             /\ Elems(q) \cap Carrying(n) = {}
  <2>1. PICK i \in 1..Len(w) : seg = w[i]
    BY <1>5 DEF Elems
  <2>2. "ACK" \in seg.flags /\ ~HasData(seg) /\ seg.ackno = n
    BY <1>5 DEF Answers, Carrying, WithData
  <2>3. t.ackno = n /\ Timely(s, t, p)
    BY <1>3, <2>1, <2>2
  <2>4. s.ackno < n
    BY <1>2, <2>3 DEF Timely
  <2>5. \A m \in Elems(q) : m.ackno \in Nat /\ m.ackno <= s.ackno
    BY DEF Sendable, Segment
  <2>. QED BY <1>2, <2>3, <2>4, <2>5 DEF Carrying
<1>6. NoneBefore(q \o w, Carrying(n), Answers(n))
  <2>1. NoneBefore(w, Carrying(n), Answers(n))
    <3>1. ASSUME NEW i \in 1..Len(w), w[i] \in Answers(n) PROVE i = 1
      BY <1>3, <3>1 DEF Answers, Carrying, WithData
    <3>. QED BY <3>1 DEF NoneBefore
  <2>2. NoneBefore(q, Carrying(n), Answers(n))
    BY DEF NoRepeat, n
  <2>. QED BY <1>1, <1>5, <2>1, <2>2, NoneBeforeConcat
<1>7. ASSUME p.status = "open", p.segments = <<>>
      PROVE  Elems(q \o w) \cap Answers(n) = {}
  <2>1. Elems(q) \cap Answers(n) = {}
    BY <1>7 DEF NoRepeat, n
  <2>2. p.seqno = p.next_seqno
    BY <1>7 DEF LocalInv, Tiles
  <2>3. ASSUME NEW seg \in Elems(w) \cap Answers(n) PROVE FALSE
    <3>1. s.ackno < n /\ Timely(s, t, p)
      BY <1>5
    <3>2. p.FIN_sent /\ s.ackno = p.next_seqno
      BY <1>2, <2>2, <3>1 DEF Timely
    <3>3. s.ackno = n
      BY <1>7, <3>2 DEF NoRepeat, n
    <3>. QED BY <1>2, <3>1, <3>3
  <2>. QED BY <1>1, <2>1, <2>3
<1>8. ASSUME p.FIN_sent
      PROVE  Elems(q \o w) \cap Carrying(p.next_seqno) = {}
  <2>1. Elems(q) \cap Carrying(p.next_seqno) = {}
    BY <1>8 DEF NoRepeat
  <2>2. p.seqno = p.next_seqno
    BY <1>8 DEF LocalInv
  <2>3. ASSUME NEW seg \in Elems(w) \cap Carrying(p.next_seqno) PROVE FALSE
    <3>1. PICK i \in 1..Len(w) : seg = w[i]
      BY <2>3 DEF Elems
    <3>2. ~HasData(seg) /\ "ACK" \in seg.flags /\ seg.ackno = p.next_seqno
      BY <1>4, <1>8, <2>3 DEF Carrying
    <3>3. t.ackno = p.next_seqno /\ Timely(s, t, p)
      BY <1>3, <3>1, <3>2
    <3>. QED BY <1>2, <2>2, <3>3 DEF Timely
  <2>. QED BY <1>1, <2>1, <2>3
<1>9. p.FIN_sent /\ p.status = "open" /\ p.segments = <<>> => t.ackno = n
  BY <1>2 DEF NoRepeat, n
<1>. QED BY <1>6, <1>7, <1>8, <1>9 DEF NoRepeat, n, w

\* A segment joins the end of its queue.
LEMMA ElemsAppend ==
    ASSUME NEW q \in Seq(Segment), NEW seg \in Segment
    PROVE  Elems(Append(q, seg)) = Elems(q) \cup {seg}
<1> DEFINE r == Append(q, seg)
<1>1. /\ Len(r) = Len(q) + 1 /\ Len(q) \in Nat
      /\ \A i \in 1..Len(q) : r[i] = q[i]
      /\ r[Len(q) + 1] = seg
  BY AppendProperties
<1>. HIDE DEF r
<1>2. \A i \in 1..Len(r) : r[i] \in Elems(q) \cup {seg}
  BY <1>1 DEF Elems
<1>3. \A i \in 1..Len(q) : i \in 1..Len(r) /\ r[i] = q[i]
  BY <1>1
<1>4. Len(q) + 1 \in 1..Len(r)
  BY <1>1
<1>5. Elems(r) = Elems(q) \cup {seg}
  BY <1>1, <1>2, <1>3, <1>4 DEF Elems
<1>. QED BY <1>5 DEF r

\* What the three invariants say of h and its peer.
LEMMA LinkFacts ==
    ASSUME IInv, WayInv, LInv, NEW h \in Hosts
    PROVE  LET s == host[h]
               p == host[Peer(h)]
           IN  /\ s \in HostState /\ p \in HostState /\ LocalInv(s) /\ LocalInv(p)
               /\ s.wire = <<>>
               /\ s.seqno <= p.ackno /\ p.ackno <= Limit(s) /\ s.ackno <= Limit(p)
               /\ p.seqno <= s.ackno
               /\ link[h] \in Seq(Segment) /\ link[Peer(h)] \in Seq(Segment)
               /\ \A seg \in Elems(link[h]) : seg \in Segment /\ Sendable(p, seg)
               /\ \A seg \in Elems(link[Peer(h)]) : Sendable(s, seg)
               /\ HoldInv(h, s) /\ HoldInv(Peer(h), p)
               /\ WayTo(h, s, p, link[h]) /\ WayTo(Peer(h), p, s, link[Peer(h)])
               /\ Calm(h) => NoRepeat(s, p, link[h])
               /\ Calm(Peer(h)) => NoRepeat(p, s, link[Peer(h)])
<1> DEFINE k == Peer(h)
<1>1. k \in Hosts /\ Peer(k) = h
  BY PeerIsOther
<1>2. \A seg \in Elems(link[h]) : seg \in Segment /\ Sendable(host[k], seg)
  <2>1. Elems(link[h]) \subseteq net[Peer(k)]
    BY <1>1 DEF WayInv
  <2>. HIDE DEF k
  <2>. QED BY <1>1, <2>1 DEF IInv, Sendable
<1>3. \A seg \in Elems(link[k]) : Sendable(host[h], seg)
  BY <1>1 DEF IInv, WayInv
<1>. HIDE DEF k
<1>4. /\ host[h] \in HostState /\ host[k] \in HostState
      /\ link[h] \in Seq(Segment) /\ link[k] \in Seq(Segment)
  BY <1>1 DEF IInv, TypeOK, WayInv
<1>5. /\ LocalInv(host[h]) /\ LocalInv(host[k]) /\ host[h].wire = <<>>
      /\ host[h].seqno <= host[k].ackno /\ host[k].ackno <= Limit(host[h])
      /\ host[h].ackno <= Limit(host[k]) /\ host[k].seqno <= host[h].ackno
  BY <1>1 DEF IInv, k
<1>6. /\ HoldInv(h, host[h]) /\ HoldInv(k, host[k])
      /\ WayTo(h, host[h], host[k], link[h]) /\ WayTo(k, host[k], host[h], link[k])
      /\ Calm(h) => NoRepeat(host[h], host[k], link[h])
      /\ Calm(k) => NoRepeat(host[k], host[h], link[k])
  BY <1>1 DEF LInv, k
<1>. QED BY <1>2, <1>3, <1>4, <1>5, <1>6 DEF k

\* A handler that leaves its own host in order, and sends only what Sends
\* allows, leaves both in order.
LEMMA LinkHandledKeeps ==
    ASSUME IInv, WayInv, LInv, NEW h \in Hosts, NEW t \in HostState, NEW z,
           NEW rest \in Seq(Segment), Elems(rest) \subseteq net[h],
           LinkHandled(h, t, rest),
           HandlerKeeps(host[h], t), t.ackno <= Limit(host[Peer(h)]),
           QueueOK(z, Silent(h, t)), Sends(host[h], t, host[Peer(h)], z),
           HoldInv(h, t), WayTo(h, t, host[Peer(h)], rest),
           Calm(h) => NoRepeat(t, host[Peer(h)], rest)
    PROVE  LInv'
<1> DEFINE k == Peer(h)
           s == host[h]
           p == host[Peer(h)]
           c == [t EXCEPT !.wire = <<>>]
           w == link[k] \o t.wire
<1>1. k \in Hosts /\ Peer(k) = h /\ Hosts = {h, k}
  BY PeerIsOther
<1>2. /\ link'[h] = rest /\ link'[k] = w /\ host'[h] = c /\ host'[k] = p
  BY LinkEffect
<1>3. /\ s \in HostState /\ p \in HostState /\ LocalInv(p)
      /\ p.seqno <= s.ackno /\ link[k] \in Seq(Segment)
      /\ \A seg \in Elems(link[k]) : Sendable(s, seg)
      /\ HoldInv(k, p) /\ WayTo(k, p, s, link[k])
      /\ Calm(k) => NoRepeat(p, s, link[k])
  BY LinkFacts
<1>4. LocalInv(t) /\ s.ackno <= t.ackno /\ (s.FIN_sent => t.FIN_sent)
  BY DEF HandlerKeeps, Grew
<1>5. /\ c.wire = <<>> /\ c.segments = t.segments /\ c.status = t.status
      /\ c.FIN_sent = t.FIN_sent /\ c.next_seqno = t.next_seqno
      /\ c.read_finish = t.read_finish /\ c.wrote_eof = t.wrote_eof
      /\ c.ackno = t.ackno
  BY DEF HostState
<1>. HIDE DEF s, p, k, c
<1>6. WayTo(k, p, t, w)
  BY <1>1, <1>3, <1>4, WayKeeps DEF s, p, k
<1>7. Calm(k) => NoRepeat(p, t, w)
  BY <1>1, <1>3, <1>4, RepeatKeeps DEF s, p, k
<1>. HIDE DEF w
<1>8. /\ HoldInv(h, c) /\ WayTo(h, c, p, rest)
      /\ Calm(h) => NoRepeat(c, p, rest)
  BY <1>5 DEF HoldInv, Silent, WayTo, NoRepeat, Limit, p
<1>9. WayTo(k, p, c, w) /\ (Calm(k) => NoRepeat(p, c, w))
  BY <1>5, <1>6, <1>7 DEF WayTo, NoRepeat
<1>10. \A g \in Hosts :
         /\ HoldInv(g, host'[g])
         /\ WayTo(g, host'[g], host'[Peer(g)], link'[g])
         /\ Calm(g) => NoRepeat(host'[g], host'[Peer(g)], link'[g])
  BY <1>1, <1>2, <1>3, <1>8, <1>9 DEF k
<1>. QED BY <1>10 DEF LInv, HoldInv, WayTo, NoRepeat, Calm, Silent, QueueOK

\* Data a host reads is new to its peer, and the FIN is still to come.
LEMMA LinkReadKeeps ==
    ASSUME ~PiggybackAck, IInv, WayInv, LInv, NEW h \in Hosts, LinkRead(h)
    PROVE  LInv'
<1> DEFINE s == host[h]
           p == host[Peer(h)]
<1>1. PICK count \in 1..MaxSegDataSize, throttled \in BOOLEAN :
        /\ s.inputted + count <= InputLen[h]
        /\ LinkHandled(h, ctcp_read(s, count, throttled), link[h])
  BY DEF LinkRead
<1> DEFINE t == ctcp_read(s, count, throttled)
<1>2. /\ s \in HostState /\ LocalInv(s) /\ s.wire = <<>> /\ s.status = "open"
      /\ ~s.read_finish /\ ~s.FIN_sent
      /\ p.ackno <= Limit(s) /\ s.ackno <= Limit(p)
      /\ HoldInv(h, s) /\ WayTo(h, s, p, link[h])
      /\ link[h] \in Seq(Segment)
      /\ \A seg \in Elems(link[h]) : Sendable(p, seg)
  BY LinkFacts DEF LinkRead, Open, CanRead, LocalInv
<1>3. count \in Nat \ {0} /\ Len(<<>>) = 0
  BY CtcpConstants
<1>4. HandlerKeeps(s, t) /\ t.ackno = s.ackno
  BY <1>2, <1>3, ReadKeeps
<1>5. /\ t \in HostState /\ SameOut(s, t) /\ t.next_seqno = s.next_seqno + count
      /\ t.read_finish = s.read_finish /\ t.FIN_sent = s.FIN_sent
      /\ t.status = s.status
  BY <1>2, <1>3, ReadEffect
<1>6. PICK m \in Segment :
        /\ Queued(m) /\ HasData(m)
        /\ t.segments = Append(s.segments, m) /\ SentFrom(t.segments, t)
  BY <1>2, <1>3, ReadSends
<1>7. LinkHandled(h, t, link[h]) /\ Elems(link[h]) \subseteq net[h]
  BY <1>1 DEF WayInv
<1>. HIDE DEF t
<1>8. ~Silent(h, t)
  <2>1. s.inputted \in Nat /\ InputLen[h] \in Nat
    BY <1>2, NetConstants DEF HostState
  <2>2. InputLen[h] # 0
    BY <1>1, <1>3, <2>1
  <2>. QED BY <1>2, <1>5, <2>2 DEF Silent
<1>9. QueueOK(t.segments, Silent(h, t))
  <2>1. s.segments \in Seq(Segment)
    BY <1>2 DEF HostState
  <2>2. Elems(t.segments) = Elems(s.segments) \cup {m}
    BY <1>6, <2>1, ElemsAppend
  <2>. QED BY <1>2, <1>6, <1>8, <2>2 DEF HoldInv, QueueOK
<1>10. Sends(s, t, p, t.segments)
  BY <1>6 DEF SentFrom, Sends, Elems
<1>11. HoldInv(h, t) /\ WayTo(h, t, p, link[h])
  BY <1>2, <1>5, <1>9 DEF HoldInv, WayTo, SameOut
<1>12. Calm(h) => NoRepeat(t, p, link[h])
  <2>1. Elems(link[h]) \cap Carrying(Limit(t)) = {}
    <3>1. Limit(s) = s.next_seqno /\ Limit(t) = s.next_seqno + count
      <4>1. s.next_seqno \in Nat /\ ~t.FIN_sent
        BY <1>2, <1>5 DEF HostState
      <4>. QED BY <1>2, <1>3, <1>5, <4>1 DEF Limit
    <3>2. s.next_seqno \in Nat /\ p.ackno \in Nat
      BY <1>2, LinkFacts DEF HostState
    <3>3. \A seg \in Elems(link[h]) : seg.ackno \in Nat /\ seg.ackno <= p.ackno
      BY <1>2 DEF Sendable, Segment
    <3>. QED BY <1>2, <1>3, <3>1, <3>2, <3>3 DEF Carrying
  <2>2. NoneBefore(link[h], Carrying(Limit(t)), Answers(Limit(t)))
    BY <2>1, NoneBeforeNone
  <2>. QED BY <1>2, <1>5, <2>1, <2>2 DEF NoRepeat, Answers
<1>. QED BY <1>2, <1>4, <1>5, <1>7, <1>9, <1>10, <1>11, <1>12, LinkHandledKeeps

\* The end of the input says nothing to the peer.
LEMMA LinkReadEofKeeps ==
    ASSUME IInv, WayInv, LInv, NEW h \in Hosts, LinkReadEOF(h)
    PROVE  LInv'
<1> DEFINE s == host[h]
           p == host[Peer(h)]
           t == ctcp_read_eof(s)
<1>1. /\ s \in HostState /\ LocalInv(s) /\ s.wire = <<>>
      /\ s.ackno <= Limit(p) /\ HoldInv(h, s) /\ WayTo(h, s, p, link[h])
      /\ link[h] \in Seq(Segment) /\ (Calm(h) => NoRepeat(s, p, link[h]))
  BY LinkFacts
<1>2. /\ LinkHandled(h, t, link[h]) /\ Elems(link[h]) \subseteq net[h]
      /\ h \in ClosesLast => s.wrote_eof
  BY DEF LinkReadEOF, WayInv
<1>3. HandlerKeeps(s, t) /\ t.ackno = s.ackno
  BY <1>1, ReadEofKeeps
<1>4. /\ t \in HostState /\ SameOut(s, t) /\ t.FIN_sent = s.FIN_sent
      /\ t.next_seqno = s.next_seqno /\ t.status = s.status
  BY <1>1, ReadEofEffect
<1>5. t.segments = s.segments /\ t.wire = <<>> /\ Len(<<>>) = 0
  BY <1>1 DEF ctcp_read_eof, HostState
<1>. HIDE DEF t
<1>6. HoldInv(h, t) /\ WayTo(h, t, p, link[h])
  BY <1>1, <1>2, <1>4, <1>5 DEF HoldInv, WayTo, Silent, SameOut
<1>7. Calm(h) => NoRepeat(t, p, link[h])
  BY <1>1, <1>4, <1>5 DEF NoRepeat, Limit
<1>8. QueueOK(t.segments, Silent(h, t)) /\ Sends(s, t, p, t.segments)
  BY <1>5, <1>6 DEF HoldInv, Sends
<1>. QED BY <1>1, <1>2, <1>3, <1>4, <1>6, <1>7, <1>8, LinkHandledKeeps

\* The FIN's own number is never acknowledged before the FIN is sent.
LEMMA LinkTimerKeeps ==
    ASSUME ~PiggybackAck, "crash" \notin StaleLog,
           IInv, WayInv, LInv, NEW h \in Hosts, LinkTimer(h)
    PROVE  LInv'
<1> DEFINE s == host[h]
           p == host[Peer(h)]
<1>1. PICK expired \in BOOLEAN, stale_log \in StaleLog :
        LinkHandled(h, ctcp_timer(s, expired, stale_log), link[h])
  BY DEF LinkTimer
<1>2. stale_log \in {"ignored"} /\ stale_log \in {"ignored", "crash"}
  BY NetConstants
<1> DEFINE t == ctcp_timer(s, expired, stale_log)
<1>3. /\ s \in HostState /\ LocalInv(s) /\ s.wire = <<>> /\ s.status = "open"
      /\ p.ackno <= Limit(s) /\ s.ackno <= Limit(p)
      /\ HoldInv(h, s) /\ WayTo(h, s, p, link[h])
      /\ link[h] \in Seq(Segment) /\ (Calm(h) => NoRepeat(s, p, link[h]))
      /\ \A seg \in Elems(link[h]) : Sendable(p, seg)
      /\ p \in HostState
  BY LinkFacts DEF LinkTimer, Open
<1>4. Ticked(s, t)
  BY <1>2, <1>3, TimerKeeps
<1>5. t \in HostState
  BY <1>2, <1>3, TimerEffect DEF Timed
<1>6. PICK u : /\ FinJoined(s, u) /\ u.next_seqno = s.next_seqno
               /\ TimerDone(u, t, u.segments)
               /\ u.read_finish = s.read_finish /\ u.ackno = s.ackno
               /\ u.wrote_eof = s.wrote_eof
  <2>1. s.get_all_ack => s.segments = <<>>
    BY <1>3 DEF LocalInv
  <2>. QED BY <1>2, <1>3, <2>1, TimerSends
<1>7. LinkHandled(h, t, link[h]) /\ Elems(link[h]) \subseteq net[h]
  BY <1>1 DEF WayInv
<1>. HIDE DEF t
<1>8. /\ t.FIN_sent = u.FIN_sent /\ t.next_seqno = s.next_seqno
      /\ t.read_finish = s.read_finish /\ t.wrote_eof = s.wrote_eof
      /\ t.status # "crashed" /\ SentFrom(u.segments, t)
      /\ t.segments = u.segments \/ (t.segments = <<>> /\ t.status # "open")
  BY <1>6 DEF TimerDone
<1>9. QueueOK(u.segments, Silent(h, t))
  <2>1. CASE u = s
    BY <1>3, <1>8, <2>1 DEF HoldInv, Silent
  <2>2. CASE u # s
    <3>1. PICK seg \in Segment : Queued(seg) /\ ~HasData(seg) /\ u.segments = <<seg>>
      BY <1>6, <2>2 DEF FinJoined
    <3>2. Elems(<<seg>>) = {seg}
      BY DEF Elems
    <3>. QED BY <3>1, <3>2 DEF QueueOK
  <2>. QED BY <2>1, <2>2
<1>10. Sends(s, t, p, u.segments)
  BY <1>8 DEF SentFrom, Sends, Elems
<1>11. HoldInv(h, t) /\ WayTo(h, t, p, link[h])
  <2>1. Elems(<<>>) = {}
    BY DEF Elems
  <2>2. QueueOK(t.segments, Silent(h, t))
    BY <1>8, <1>9, <2>1 DEF QueueOK
  <2>. QED BY <1>3, <1>8, <2>2 DEF HoldInv, WayTo
<1>12. Calm(h) => NoRepeat(t, p, link[h])
  <2>. SUFFICES ASSUME Calm(h) PROVE NoRepeat(t, p, link[h])
    OBVIOUS
  <2>1. CASE u = s
    <3>1. Limit(t) = Limit(s)
      BY <1>8, <2>1 DEF Limit
    <3>2. p.ackno = p.ackno /\ (t.status = "open" => t.segments = s.segments)
      BY <1>8, <2>1
    <3>. QED BY <1>3, <1>8, <2>1, <3>1, <3>2 DEF NoRepeat
  <2>2. CASE u # s
    <3>1. /\ ~s.FIN_sent /\ s.read_finish /\ s.segments = <<>> /\ u.FIN_sent
          /\ \E seg \in Segment : u.segments = <<seg>>
      BY <1>6, <2>2 DEF FinJoined
    <3>2. /\ Limit(s) = s.next_seqno /\ Limit(t) = s.next_seqno + 1
          /\ s.next_seqno \in Nat /\ p.ackno \in Nat
      BY <1>3, <1>8, <3>1 DEF Limit, HostState
    <3>3. Elems(link[h]) \cap Carrying(Limit(t)) = {}
      <4>1. \A seg \in Elems(link[h]) : seg.ackno \in Nat /\ seg.ackno <= p.ackno
        BY <1>3 DEF Sendable, Segment
      <4>. QED BY <1>3, <3>2, <4>1 DEF Carrying
    <3>4. Elems(link[h]) \cap Carrying(s.next_seqno) = {}
      <4>1. Elems(link[h]) \cap Answers(s.next_seqno) = {}
        BY <1>3, <3>1, <3>2 DEF NoRepeat
      <4>2. Elems(link[h]) \cap WithData = {}
        BY <1>3, <3>1 DEF Calm, HoldInv, WayTo
      <4>. QED BY <4>1, <4>2 DEF Answers
    <3>5. NoneBefore(link[h], Carrying(Limit(t)), Answers(Limit(t)))
      BY <3>3, NoneBeforeNone
    <3>6. t.status = "open" => t.segments # <<>>
      <4>1. \A seg \in Segment : <<seg>> # <<>>
        OBVIOUS
      <4>. QED BY <1>8, <3>1, <4>1
    <3>. QED BY <1>8, <3>3, <3>4, <3>5, <3>6 DEF NoRepeat, Answers
  <2>. QED BY <2>1, <2>2
<1>. QED BY <1>3, <1>4, <1>5, <1>7, <1>9, <1>10, <1>11, <1>12, LinkHandledKeeps
         DEF Ticked

\* What arrives is answered, and empties the queue only if it says that all
\* was accepted.
LEMMA LinkReceiveKeeps ==
    ASSUME ~PiggybackAck, IInv, WayInv, LInv, NEW h \in Hosts, LinkReceive(h)
    PROVE  LInv'
<1> DEFINE s == host[h]
           p == host[Peer(h)]
           q == link[h]
           seg == Head(q)
           rest == Tail(q)
           t == ctcp_receive(s, seg, Len(seg.data))
           n == Limit(s)
<1>1. /\ s \in HostState /\ LocalInv(s) /\ s.wire = <<>> /\ s.status = "open"
      /\ q \in Seq(Segment) /\ q # <<>>
      /\ \A m \in Elems(q) : Sendable(p, m)
      /\ HoldInv(h, s) /\ WayTo(h, s, p, q) /\ (Calm(h) => NoRepeat(s, p, q))
      /\ LinkHandled(h, t, rest)
  BY LinkFacts DEF LinkReceive, Open
<1>2. /\ p \in HostState /\ LocalInv(p)
      /\ s.seqno <= p.ackno /\ p.ackno <= n /\ s.ackno <= Limit(p)
  BY LinkFacts
<1>3. /\ rest \in Seq(Segment) /\ Elems(rest) \subseteq Elems(q)
      /\ seg \in Elems(q) /\ seg \in Segment
  BY <1>1, ElemsTail
<1>4. Elems(rest) \subseteq net[h]
  BY <1>3 DEF WayInv
<1>5. Sendable(p, seg) /\ Plain(seg) /\ Len(seg.data) \in 0..Len(seg.data)
      /\ seg \in AnySegment
  BY <1>1, <1>3 DEF WayTo, Segment, AnySegment
<1>6. /\ s.ackno \in Nat /\ p.ackno \in Nat /\ n \in Nat /\ s.next_seqno \in Nat
      /\ n = IF s.FIN_sent THEN s.next_seqno + 1 ELSE s.next_seqno
      /\ seg.seqno \in Nat /\ seg.ackno \in Nat /\ p.next_seqno \in Nat
      /\ Len(seg.data) \in Nat
  <2>. HIDE DEF seg, rest, t
  <2>1. /\ s.ackno \in Nat /\ p.ackno \in Nat /\ s.next_seqno \in Nat
        /\ s.FIN_sent \in BOOLEAN /\ p.next_seqno \in Nat
    BY <1>1, <1>2 DEF HostState
  <2>2. seg.seqno \in Nat /\ seg.ackno \in Nat /\ Len(seg.data) \in Nat
    BY <1>3 DEF Segment
  <2>3. n \in Nat /\ n = IF s.FIN_sent THEN s.next_seqno + 1 ELSE s.next_seqno
    BY <2>1 DEF Limit
  <2>. QED BY <2>1, <2>2, <2>3
<1>. HIDE DEF seg, rest
<1>7. Received(s, t, p)
  BY <1>1, <1>2, <1>5, ReceiveKeeps
<1>8. ReceiveDone(s, t, seg)
  BY <1>1, <1>3, <1>5, ReceiveSends
<1>9. /\ Kept(s, t) /\ t \in HostState
      /\ ("FIN" \in seg.flags => ~HasData(seg)) =>
           \/ SameOut(s, t)
           \/ HasData(seg) /\ Accepted(s, t, seg.data, Len(seg.data))
           \/ "FIN" \in seg.flags /\ Ended(s, t)
  BY <1>1, <1>5, ReceiveEffect DEF Kept
<1>. HIDE DEF t, n
<1>10. /\ s.wrote_eof => t.wrote_eof
       /\ t.wrote_eof => s.wrote_eof \/ "FIN" \in seg.flags
  <2>1. "FIN" \in seg.flags => ~HasData(seg)
    BY <1>5 DEF Plain, Queued
  <2>2. s.wrote_eof \in BOOLEAN
    BY <1>1 DEF HostState
  <2>. QED BY <1>9, <2>1, <2>2 DEF SameOut, Accepted, Ended
<1>11. HandlerKeeps(s, t) /\ t.ackno <= Limit(p) /\ s.ackno <= t.ackno
  BY <1>7 DEF Received, HandlerKeeps, Grew
\* The queue
<1>12. /\ t.FIN_sent = s.FIN_sent /\ t.next_seqno = s.next_seqno
       /\ t.read_finish = s.read_finish /\ Limit(t) = n
       /\ t.segments = s.segments \/ Popped(s, t, seg)
  BY <1>8 DEF ReceiveDone, Limit, n
<1>13. s.segments \in Seq(Segment)
  BY <1>1 DEF HostState
<1>14. HoldInv(h, t)
  <2>1. Elems(t.segments) \subseteq Elems(s.segments)
    BY <1>12, <1>13, ElemsTail DEF Popped
  <2>. QED BY <1>1, <1>10, <1>12, <2>1 DEF HoldInv, Silent, QueueOK
<1>15. QueueOK(s.segments, Silent(h, t))
  BY <1>1, <1>12 DEF HoldInv, Silent
\* What is sent
<1>16. Sends(s, t, p, s.segments)
  <2>1. ASSUME AnswersTo(s, t, seg) PROVE Timely(s, t, p)
    <3>1. CASE HasData(seg) /\ seg.seqno >= s.ackno
      <4>1. Len(seg.data) > 0
        BY <1>3, <3>1, EmptySeq DEF HasData, Segment
      <4>2. seg.seqno + Len(seg.data) <= p.next_seqno
        BY <1>5 DEF Sendable, End
      <4>3. s.ackno < p.next_seqno
        BY <1>6, <3>1, <4>1, <4>2
      <4>. QED BY <4>3 DEF Timely
    <3>2. CASE "FIN" \in seg.flags /\ seg.seqno = s.ackno /\ t.ackno = s.ackno + 1
      BY <1>5, <3>2 DEF Sendable, Timely
    <3>. QED BY <2>1, <3>1, <3>2 DEF AnswersTo
  <2>2. s.segments # <<>> => Head(s.segments) \in Elems(s.segments)
    BY <1>13, ElemsTail
  <2>. QED BY <1>8, <2>1, <2>2 DEF ReceiveDone, Sends
\* What is still to come
<1>17. WayTo(h, t, p, rest)
  <2>1. t.wrote_eof => p.FIN_sent
    BY <1>1, <1>5, <1>10 DEF WayTo, Sendable
  <2>2. NoneBefore(rest, Fins, WithData)
        /\ (seg \in Fins => Elems(rest) \cap WithData = {})
    BY <1>1, NoneBeforeTail DEF WayTo, seg, rest
  <2>3. t.wrote_eof \/ InputLen[Peer(h)] = 0 => Elems(rest) \cap WithData = {}
    BY <1>1, <1>3, <1>10, <2>2 DEF WayTo, Fins
  <2>4. \A m \in Elems(rest) : Plain(m)
    BY <1>1, <1>3 DEF WayTo
  <2>. QED BY <2>1, <2>2, <2>3, <2>4 DEF WayTo
<1>18. ASSUME Calm(h) PROVE NoRepeat(t, p, rest)
  <2>1. /\ NoneBefore(q, Carrying(n), Answers(n)) /\ s.status # "crashed"
        /\ s.segments = <<>> => Elems(q) \cap Answers(n) = {}
        /\ s.FIN_sent => Elems(q) \cap Carrying(s.next_seqno) = {}
        /\ s.FIN_sent /\ s.segments = <<>> => p.ackno = n
    BY <1>1, <1>18 DEF NoRepeat, n
  <2>2. /\ NoneBefore(rest, Carrying(n), Answers(n))
        /\ seg \in Carrying(n) => Elems(rest) \cap Answers(n) = {}
    BY <1>1, <2>1, NoneBeforeTail DEF seg, rest
  <2>3. seg.ackno <= p.ackno
    BY <1>5 DEF Sendable
  <2>4. IsFinAck(s, seg) => /\ "ACK" \in seg.flags /\ s.FIN_sent
                            /\ seg.ackno = n
    BY <1>1, <1>6 DEF IsFinAck, LocalInv
  <2>5. s.FIN_sent => ~HasData(seg)
    <3>1. s.FIN_sent => s.wrote_eof \/ InputLen[Peer(h)] = 0
      BY <1>1, <1>18 DEF LocalInv, HoldInv, Calm
    <3>. QED BY <1>1, <1>3, <3>1 DEF WayTo, WithData
  <2>6. t.status # "crashed"
    <3>. SUFFICES ASSUME IsFinAck(s, seg), s.segments = <<>> PROVE FALSE
      BY <1>1, <1>8 DEF ReceiveDone
    <3>. QED BY <1>3, <2>1, <2>4, <2>5 DEF Answers, Carrying, WithData
  <2>7. ASSUME Popped(s, t, seg), t.segments = <<>>
        PROVE  seg \in Carrying(n) /\ seg.ackno = n
    <3>1. "ACK" \in seg.flags
      BY <2>7 DEF Popped
    <3>2. seg.ackno = n
      <4>1. CASE IsFinAck(s, seg)
        BY <2>4, <4>1
      <4>2. CASE End(Head(s.segments)) <= seg.ackno
        <5>1. s.seqno \in Nat /\ Tiles(s.segments, s.seqno, s.next_seqno)
          BY <1>1 DEF LocalInv, HostState
        <5>2. Tiles(t.segments, End(Head(s.segments)), s.next_seqno)
          BY <1>6, <1>13, <2>7, <5>1, TailTiles DEF Popped
        <5>3. s.next_seqno <= seg.ackno
          BY <2>7, <4>2, <5>2 DEF Tiles
        <5>4. s.FIN_sent => seg.ackno # s.next_seqno
          BY <1>3, <2>1, <3>1 DEF Carrying
        <5>. QED BY <1>2, <1>6, <2>3, <5>3, <5>4
      <4>. QED BY <2>7, <4>1, <4>2 DEF Popped
    <3>. QED BY <1>3, <3>1, <3>2 DEF Carrying
  <2>8. t.segments = <<>> => Elems(rest) \cap Answers(n) = {}
    BY <1>3, <1>12, <2>1, <2>2, <2>7
  <2>9. s.FIN_sent => Elems(rest) \cap Carrying(s.next_seqno) = {}
    BY <1>3, <2>1
  <2>10. s.FIN_sent /\ t.segments = <<>> => p.ackno = n
    BY <1>2, <1>6, <1>12, <2>1, <2>3, <2>7
  <2>. QED BY <1>12, <2>2, <2>6, <2>8, <2>9, <2>10 DEF NoRepeat
<1>. QED BY <1>1, <1>3, <1>4, <1>9, <1>11, <1>14, <1>15, <1>16, <1>17, <1>18,
            LinkHandledKeeps

\* What is lost leaves the rest in order.
LEMMA LinkDropKeeps ==
    ASSUME IInv, WayInv, LInv, NEW h \in Hosts, Discard(h) \/ Lose(h)
    PROVE  LInv'
<1> DEFINE k == Peer(h)
           q == link[h]
<1>1. k \in Hosts /\ k # h /\ Peer(k) = h /\ Hosts = {h, k}
  BY PeerIsOther
<1>2. /\ host' = host /\ q \in Seq(Segment) /\ q # <<>>
      /\ link'[h] = Tail(q) /\ link'[k] = link[k]
  BY DropEffect
<1>3. Elems(Tail(q)) \subseteq Elems(q)
  BY <1>2, ElemsTail
<1>4. \A A, B : NoneBefore(q, A, B) => NoneBefore(Tail(q), A, B)
  BY <1>2, NoneBeforeTail
<1>5. /\ HoldInv(h, host[h]) /\ WayTo(h, host[h], host[k], q)
      /\ Calm(h) => NoRepeat(host[h], host[k], q)
  BY DEF LInv
<1>. HIDE DEF q
<1>6. WayTo(h, host[h], host[k], Tail(q))
  BY <1>3, <1>4, <1>5 DEF WayTo
<1>7. Calm(h) => NoRepeat(host[h], host[k], Tail(q))
  <2>. HIDE DEF k
  <2>. QED BY <1>3, <1>4, <1>5 DEF NoRepeat
<1>8. \A g \in Hosts :
        /\ HoldInv(g, host'[g])
        /\ WayTo(g, host'[g], host'[Peer(g)], link'[g])
        /\ Calm(g) => NoRepeat(host'[g], host'[Peer(g)], link'[g])
  BY <1>1, <1>2, <1>5, <1>6, <1>7 DEF LInv
<1>. QED BY <1>8 DEF LInv, HoldInv, WayTo, NoRepeat, Calm, Silent, QueueOK

\* Nothing is on its way, and nothing is queued, at first.
LEMMA LinkInitInv ==
    ASSUME LinkInit
    PROVE  LInv
<1>1. Elems(<<>>) = {} /\ \A A, B : NoneBefore(<<>>, A, B)
  BY DEF Elems, NoneBefore
<1>2. ASSUME NEW h \in Hosts
      PROVE  /\ host[h].segments = <<>> /\ ~host[h].FIN_sent
             /\ ~host[h].read_finish /\ ~host[h].wrote_eof
             /\ host[h].status = "open" /\ link[h] = <<>>
  BY DEF LinkInit, Init, ctcp_init
<1>. QED BY <1>1, <1>2 DEF LInv, HoldInv, QueueOK, WayTo, NoRepeat

\* The receiver acknowledges a FIN once, so a host dies of a second ACK only if
\* something else repeats its number: data the peer still had, or any segment
\* if the library adds the ACK flag.
THEOREM CrashesOnlyOnRepeat == LinkSpec => []CrashNeedsRepeatedAck
<1>1. CASE PiggybackAck \/ "crash" \in StaleLog
  <2>1. CrashNeedsRepeatedAck
    BY <1>1 DEF CrashNeedsRepeatedAck
  <2>. QED BY <2>1, PTL
<1>2. CASE ~PiggybackAck /\ "crash" \notin StaleLog
  <2>1. LinkInit => LInv
    BY LinkInitInv
  <2>2. (IInv /\ WayInv) /\ LInv /\ [LinkNext]_linkVars => LInv'
    <3>. SUFFICES ASSUME IInv, WayInv, LInv, [LinkNext]_linkVars PROVE LInv'
      OBVIOUS
    <3>1. CASE UNCHANGED linkVars
      BY <3>1 DEF linkVars, LInv, HoldInv, WayTo, NoRepeat, Calm, Silent, QueueOK
    <3>2. CASE LinkNext
      BY <1>2, <3>2, LinkReadKeeps, LinkReadEofKeeps, LinkReceiveKeeps,
         LinkTimerKeeps, LinkDropKeeps DEF LinkNext
    <3>. QED BY <3>1, <3>2
  <2>3. LInv => CrashNeedsRepeatedAck
    <3>. SUFFICES ASSUME LInv, NEW h \in Hosts, host[h].status = "crashed"
                  PROVE  InputLen[Peer(h)] > 0 /\ h \notin ClosesLast
      BY DEF CrashNeedsRepeatedAck
    <3>1. ~Calm(h)
      BY DEF LInv, NoRepeat
    <3>2. InputLen[Peer(h)] \in Nat
      BY PeerIsOther, NetConstants
    <3>. QED BY <3>1, <3>2 DEF Calm
  <2>. QED BY <2>1, <2>2, <2>3, LinkInductive, PTL DEF LinkSpec
<1>. QED BY <1>1, <1>2
=============================================================================
