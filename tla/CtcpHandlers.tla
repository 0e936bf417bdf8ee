---------------------------- MODULE CtcpHandlers ----------------------------
(***************************************************************************)
(* What each handler of Ctcp makes of a host's record, as lemmas: its type *)
(* and what it does to the two halves, what the host takes for output and  *)
(* what it reads from its input; and which segments it sends when the      *)
(* library does not add the ACK flag. The proofs about CtcpNet's output,   *)
(* about CtcpLink and about CtcpServer rest on them.                       *)
(***************************************************************************)
EXTENDS Ctcp, SequenceTheorems, TLAPS

\* What may arrive: the handshake's segments too, when they come astray.
AnySegment == [seqno : Nat, ackno : Nat, flags : SUBSET (Flags \cup {"SYN"}),
               window : Nat, data : Seq(Nat)]

SameOut(s, t) ==
    /\ t.taken = s.taken /\ t.queued = s.queued /\ t.wrote_eof = s.wrote_eof
    /\ t.all_recv_output = s.all_recv_output /\ t.ackno = s.ackno

SameIn(s, t) ==
    /\ t.inputted = s.inputted /\ t.next_seqno = s.next_seqno
    /\ t.read_finish = s.read_finish /\ t.FIN_sent = s.FIN_sent

\* A segment carries the bytes of the input that its numbers say.
Content(seg) == \A i \in 1..Len(seg.data) : seg.data[i] = seg.seqno - 1 + i

Contents(s) ==
    /\ \A i \in 1..Len(s.segments) : Content(s.segments[i])
    /\ \A i \in 1..Len(s.wire) : Content(s.wire[i])

\* A step that sends nothing new and takes nothing for output.
Quiet(s, t) ==
    /\ t \in HostState /\ SameOut(s, t) /\ SameIn(s, t)
    /\ Contents(s) => Contents(t)

\* Two quiet steps are one.
LEMMA QuietTrans ==
    ASSUME NEW s, NEW t, NEW u, Quiet(s, t), Quiet(t, u)
    PROVE  Quiet(s, u)
BY DEF Quiet, SameOut, SameIn

-----------------------------------------------------------------------------
\* The library calls

\* conn_send only adds to what was handed over.
LEMMA SendQuiet ==
    ASSUME NEW s \in HostState, NEW seg \in Segment
    PROVE  LET t == conn_send(s, seg)
           IN  /\ t \in HostState /\ SameOut(s, t) /\ SameIn(s, t)
               /\ Content(seg) => Quiet(s, t)
               /\ t.status = s.status /\ t.segments = s.segments
               /\ t.retrans_count = s.retrans_count
<1> DEFINE sent == convert_to_datagram(seg)
           w    == Append(s.wire, sent)
           t    == [s EXCEPT !.wire = w]
<1>1. /\ sent \in Segment /\ sent.data = seg.data /\ sent.seqno = seg.seqno
  BY DEF convert_to_datagram, Segment, Flags
<1>. HIDE DEF sent
<1>2. s.wire \in Seq(Segment)
  BY DEF HostState
<1>3. /\ w \in Seq(Segment) /\ Len(w) = Len(s.wire) + 1
      /\ \A i \in 1..Len(s.wire) : w[i] = s.wire[i]
      /\ w[Len(s.wire) + 1] = sent
  BY <1>1, <1>2, AppendProperties
<1>. HIDE DEF w
<1>4. /\ t \in HostState /\ SameOut(s, t) /\ SameIn(s, t)
      /\ t.status = s.status /\ t.segments = s.segments /\ t.wire = w
      /\ t.retrans_count = s.retrans_count
  BY <1>3 DEF HostState, SameOut, SameIn
<1>. HIDE DEF t
<1>5. ASSUME Content(seg), Contents(s) PROVE Contents(t)
  <2>1. Content(sent)
    BY <1>1, <1>5 DEF Content
  <2>. QED BY <1>2, <1>3, <1>4, <1>5, <2>1 DEF Contents
<1>6. conn_send(s, seg) = t
  BY DEF conn_send, t, w, sent
<1>. QED BY <1>4, <1>5, <1>6 DEF Quiet

\* conn_output, as ctcp_output calls it: with no more than fits.
LEMMA OutputEffect ==
    ASSUME NEW s \in HostState, NEW data \in Seq(Nat), NEW written \in 0..Len(data)
    PROVE  LET t == conn_output(s, data, written)
           IN  /\ t \in HostState /\ SameIn(s, t)
               /\ t.ackno = s.ackno /\ t.all_recv_output = s.all_recv_output
               /\ t.status = s.status /\ t.segments = s.segments
               /\ t.wire = s.wire /\ t.retrans_count = s.retrans_count
               /\ data = <<>> => /\ t.taken = s.taken /\ t.queued = s.queued
                                 /\ t.wrote_eof
               /\ data # <<>> /\ Len(data) <= conn_bufspace(s) /\ ~s.wrote_eof =>
                    /\ t.taken = s.taken \o data /\ ~t.wrote_eof
                    /\ t.queued = s.queued + Len(data)
                                    - (IF s.queued = 0 THEN written ELSE 0)
               /\ Len(data) <= conn_bufspace(s) /\ s.queued <= MaxBufSpace
                    => t.queued <= MaxBufSpace
<1> DEFINE t == conn_output(s, data, written)
           taken == s.taken \o data
           queued == s.queued + Len(data) - (IF s.queued = 0 THEN written ELSE 0)
<1>1. /\ s.taken \in Seq(Nat) /\ s.queued \in Nat /\ Len(data) \in Nat
      /\ s.wrote_eof \in BOOLEAN /\ MaxBufSpace \in Nat
  BY CtcpConstants DEF HostState
<1>2. taken \in Seq(Nat) /\ queued \in Nat
  BY <1>1
<1>3. data # <<>> => Len(data) > 0
  BY <1>1, EmptySeq
<1>. HIDE DEF taken
<1>4. CASE s.wrote_eof
  <2>1. t = s
    BY <1>4 DEF conn_output
  <2>. QED BY <1>1, <1>4, <2>1 DEF SameIn, HostState
<1>5. CASE ~s.wrote_eof /\ data = <<>>
  <2>1. t = [s EXCEPT !.wrote_eof = TRUE]
    BY <1>5 DEF conn_output
  <2>2. t \in HostState
    BY <2>1 DEF HostState
  <2>. HIDE DEF t
  <2>3. /\ t.taken = s.taken /\ t.queued = s.queued /\ t.wrote_eof
        /\ SameIn(s, t) /\ t.ackno = s.ackno
        /\ t.all_recv_output = s.all_recv_output
        /\ t.status = s.status /\ t.segments = s.segments
        /\ t.wire = s.wire /\ t.retrans_count = s.retrans_count
    BY <2>1 DEF SameIn, HostState
  <2>. QED BY <1>5, <2>2, <2>3 DEF t
<1>6. CASE ~s.wrote_eof /\ data # <<>> /\ conn_bufspace(s) = 0
  <2>1. t = s
    BY <1>6 DEF conn_output
  <2>. QED BY <1>1, <1>3, <1>6, <2>1 DEF SameIn, HostState
<1>7. CASE ~s.wrote_eof /\ data # <<>> /\ conn_bufspace(s) # 0
  <2>1. t = [s EXCEPT !.taken = taken, !.queued = queued]
    BY <1>7 DEF conn_output, taken
  <2>. HIDE DEF t
  <2>2. /\ t \in HostState /\ t.taken = taken /\ t.queued = queued
        /\ ~t.wrote_eof /\ SameIn(s, t)
        /\ t.ackno = s.ackno /\ t.all_recv_output = s.all_recv_output
        /\ t.status = s.status /\ t.segments = s.segments
        /\ t.wire = s.wire /\ t.retrans_count = s.retrans_count
    <3>. HIDE DEF queued
    <3>. QED BY <1>2, <1>7, <2>1 DEF SameIn, HostState
  <2>3. Len(data) <= conn_bufspace(s) => queued <= MaxBufSpace
    BY <1>1 DEF conn_bufspace
  <2>. HIDE DEF queued
  <2>4. /\ Len(data) <= conn_bufspace(s) => t.queued <= MaxBufSpace
        /\ t.taken = s.taken \o data
    BY <2>2, <2>3 DEF taken
  <2>. QED BY <1>7, <2>2, <2>4 DEF t, queued
<1>. QED BY <1>1, <1>4, <1>5, <1>6, <1>7

\* Nothing is taken after the end of file, which data does not record.
LEMMA OutputFrame ==
    ASSUME NEW s \in HostState, NEW data, NEW written
    PROVE  LET t == conn_output(s, data, written)
           IN  /\ t.seqno = s.seqno
               /\ data # <<>> => t.wrote_eof = s.wrote_eof
               /\ s.wrote_eof => t.taken = s.taken /\ t.wrote_eof
<1> DEFINE t == conn_output(s, data, written)
<1>1. CASE s.wrote_eof
  <2>1. t = s
    BY <1>1 DEF conn_output
  <2>. QED BY <1>1, <2>1
<1>2. CASE ~s.wrote_eof /\ data = <<>>
  <2>1. t = [s EXCEPT !.wrote_eof = TRUE]
    BY <1>2 DEF conn_output
  <2>. HIDE DEF t
  <2>. QED BY <1>2, <2>1 DEF HostState, t
<1>3. CASE ~s.wrote_eof /\ data # <<>> /\ conn_bufspace(s) = 0
  <2>1. t = s
    BY <1>3 DEF conn_output
  <2>. QED BY <1>3, <2>1
<1>4. CASE ~s.wrote_eof /\ data # <<>> /\ conn_bufspace(s) # 0
  <2> DEFINE taken == s.taken \o data
             queued == s.queued + Len(data) - (IF s.queued = 0 THEN written ELSE 0)
  <2>1. t = [s EXCEPT !.taken = taken, !.queued = queued]
    BY <1>4 DEF conn_output
  <2>. HIDE DEF t, taken, queued
  <2>. QED BY <1>4, <2>1 DEF HostState, t
<1>. QED BY <1>1, <1>2, <1>3, <1>4

\* conn_drain makes room, and may record the end of file; it outputs nothing.
LEMMA DrainEffect ==
    ASSUME NEW s \in HostState, NEW drained \in 1..s.queued
    PROVE  LET t == conn_drain(s, drained)
           IN  /\ t \in HostState /\ t.queued <= s.queued
               /\ SameIn(s, t) /\ t.taken = s.taken /\ t.ackno = s.ackno
               /\ s.wrote_eof => t.wrote_eof
               /\ t.segments = s.segments /\ t.wire = s.wire
<1> DEFINE q == s.queued - drained
           r == [s EXCEPT !.queued = q]
<1>1. s.queued \in Nat /\ q \in Nat /\ q <= s.queued
  BY DEF HostState
<1>. HIDE DEF q
<1>2. /\ r \in HostState /\ r.queued = q /\ SameIn(s, r)
      /\ r.taken = s.taken /\ r.ackno = s.ackno /\ r.wrote_eof = s.wrote_eof
      /\ r.segments = s.segments /\ r.wire = s.wire
  BY <1>1 DEF HostState, SameIn
<1>. HIDE DEF r
<1>3. conn_drain(s, drained) \in {r, conn_output(r, <<>>, 0)}
  BY DEF conn_drain, ctcp_output, q, r
<1>4. <<>> \in Seq(Nat) /\ 0 \in 0..Len(<<>>)
  OBVIOUS
<1> DEFINE o == conn_output(r, <<>>, 0)
<1>5. /\ o \in HostState /\ o.queued = r.queued /\ SameIn(r, o)
      /\ o.taken = r.taken /\ o.ackno = r.ackno /\ o.wrote_eof
      /\ o.segments = r.segments /\ o.wire = r.wire
  <2>1. r \in HostState
    BY <1>2
  <2>. QED BY <1>4, <2>1, OutputEffect
<1>. HIDE DEF o
<1>6. SameIn(s, o)
  BY <1>2, <1>5 DEF SameIn
<1>. QED BY <1>1, <1>2, <1>3, <1>5, <1>6 DEF o

\* An acknowledgement carries nothing.
LEMMA AckQuiet ==
    ASSUME NEW s \in HostState
    PROVE  LET t == ctcp_send_ack(s)
           IN  /\ Quiet(s, t) /\ t.status = s.status
               /\ t.segments = s.segments /\ t.retrans_count = s.retrans_count
<1> DEFINE seg == [seqno |-> s.next_seqno, ackno |-> s.ackno, flags |-> {"ACK"},
                   window |-> s.recv_window, data |-> <<>>]
<1>1. seg \in Segment /\ Content(seg)
  BY DEF HostState, Segment, Flags, Content
<1>. HIDE DEF seg
<1>. QED BY <1>1, SendQuiet DEF ctcp_send_ack, seg
-----------------------------------------------------------------------------
\* Sending and reading

\* A segment put in the retransmission queue adds its data to the stream.
LEMMA EnqueueEffect ==
    ASSUME NEW s \in HostState, NEW seg \in Segment
    PROVE  LET t == Enqueue(s, seg)
           IN  /\ t \in HostState /\ SameOut(s, t)
               /\ t.inputted = s.inputted /\ t.read_finish = s.read_finish
               /\ t.FIN_sent = s.FIN_sent /\ t.status = s.status
               /\ t.next_seqno = s.next_seqno + Len(seg.data)
               /\ Contents(s) /\ Content(seg) => Contents(t)
<1> DEFINE q == Append(s.segments, seg)
           next == s.next_seqno + Len(seg.data)
           t == [s EXCEPT !.segments = q, !.get_all_ack = FALSE, !.next_seqno = next]
<1>1. s.segments \in Seq(Segment) /\ s.wire \in Seq(Segment) /\ next \in Nat
  BY DEF HostState, Segment
<1>2. /\ q \in Seq(Segment) /\ Len(q) = Len(s.segments) + 1
      /\ \A i \in 1..Len(s.segments) : q[i] = s.segments[i]
      /\ q[Len(s.segments) + 1] = seg
  BY <1>1, AppendProperties
<1>3. Enqueue(s, seg) = t
  BY DEF Enqueue
<1>. HIDE DEF q, next
<1>4. /\ t \in HostState /\ SameOut(s, t) /\ t.segments = q /\ t.wire = s.wire
      /\ t.inputted = s.inputted /\ t.read_finish = s.read_finish
      /\ t.FIN_sent = s.FIN_sent /\ t.status = s.status
      /\ t.next_seqno = next
  BY <1>1, <1>2 DEF HostState, SameOut
<1>. HIDE DEF t
<1>5. Contents(s) /\ Content(seg) => Contents(t)
  BY <1>1, <1>2, <1>4 DEF Contents
<1>. QED BY <1>3, <1>4, <1>5 DEF next

\* conn_input's bytes are counted in the input and in the stream alike, and
\* the segment made of them carries the bytes its numbers say.
LEMMA ReadEffect ==
    ASSUME NEW s \in HostState, NEW count \in Nat \ {0}, NEW throttled \in BOOLEAN
    PROVE  LET t == ctcp_read(s, count, throttled)
           IN  /\ t \in HostState /\ SameOut(s, t)
               /\ t.inputted = s.inputted + count
               /\ t.next_seqno = s.next_seqno + count
               /\ t.read_finish = s.read_finish /\ t.FIN_sent = s.FIN_sent
               /\ t.status = s.status
               /\ Contents(s) /\ s.next_seqno = s.inputted + 1 => Contents(t)
<1> DEFINE data == [i \in 1..count |-> s.inputted + i]
           n == s.inputted + count
           r == [s EXCEPT !.inputted = n]
           seg == DataSegment(r, data)
           u == Enqueue(r, seg)
           t == ctcp_read(s, count, throttled)
<1>1. /\ s.inputted \in Nat /\ s.next_seqno \in Nat /\ n \in Nat
      /\ data \in Seq(Nat) /\ Len(data) = count
  BY DEF HostState
<1>2. \A i \in 1..Len(data) : data[i] = s.inputted + i
  BY <1>1
<1>. HIDE DEF data, n
<1>3. /\ r \in HostState /\ SameOut(s, r) /\ r.inputted = n
      /\ r.next_seqno = s.next_seqno /\ r.read_finish = s.read_finish
      /\ r.FIN_sent = s.FIN_sent /\ r.status = s.status
      /\ r.segments = s.segments /\ r.wire = s.wire
  BY <1>1 DEF HostState, SameOut
<1>. HIDE DEF r
<1>4. seg \in Segment /\ seg.seqno = s.next_seqno /\ seg.data = data
  BY <1>1, <1>3 DEF DataSegment, Segment, Flags, HostState
<1>. HIDE DEF seg
<1>5. s.next_seqno = s.inputted + 1 => Content(seg)
  BY <1>1, <1>2, <1>4 DEF Content
<1>6. Contents(s) => Contents(r)
  BY <1>3 DEF Contents
<1>7. /\ u \in HostState /\ SameOut(r, u) /\ u.inputted = r.inputted
      /\ u.read_finish = r.read_finish /\ u.FIN_sent = r.FIN_sent
      /\ u.status = r.status /\ u.next_seqno = r.next_seqno + Len(seg.data)
      /\ Contents(r) /\ Content(seg) => Contents(u)
  BY <1>3, <1>4, EnqueueEffect
<1>. HIDE DEF u
<1>8. /\ conn_send(u, seg) \in HostState /\ SameOut(u, conn_send(u, seg))
      /\ SameIn(u, conn_send(u, seg)) /\ conn_send(u, seg).status = u.status
      /\ Content(seg) => Quiet(u, conn_send(u, seg))
  BY <1>4, <1>7, SendQuiet
<1>9. t \in {u, conn_send(u, seg)}
  BY DEF ctcp_read, bbr_send, ctcp_send_data, u, seg, r, n, data
<1>. HIDE DEF t
<1>10. CASE t = u
  BY <1>1, <1>3, <1>4, <1>5, <1>6, <1>7, <1>10 DEF SameOut, n, t
<1>11. CASE t = conn_send(u, seg)
  <2>1. Contents(s) /\ s.next_seqno = s.inputted + 1 => Contents(t)
    BY <1>5, <1>6, <1>7, <1>8, <1>11 DEF Quiet
  <2>2. SameOut(s, t)
    BY <1>3, <1>7, <1>8, <1>11 DEF SameOut
  <2>3. /\ t \in HostState /\ t.inputted = s.inputted + count
        /\ t.next_seqno = s.next_seqno + count
        /\ t.read_finish = s.read_finish /\ t.FIN_sent = s.FIN_sent
        /\ t.status = s.status
    BY <1>1, <1>3, <1>4, <1>7, <1>8, <1>11 DEF SameIn, n
  <2>. QED BY <2>1, <2>2, <2>3 DEF t
<1>. QED BY <1>9, <1>10, <1>11

\* The end of the input is only noted.
LEMMA ReadEofEffect ==
    ASSUME NEW s \in HostState
    PROVE  LET t == ctcp_read_eof(s)
           IN  /\ t \in HostState /\ SameOut(s, t) /\ t.read_finish
               /\ t.inputted = s.inputted /\ t.next_seqno = s.next_seqno
               /\ t.FIN_sent = s.FIN_sent /\ t.status = s.status
               /\ Contents(s) => Contents(t)
  BY DEF ctcp_read_eof, HostState, SameOut, Contents

-----------------------------------------------------------------------------
\* Receiving

\* Acknowledgements change nothing of the streams; at worst the host dies.
Released(s, t) == Quiet(s, t) /\ t.status \in {s.status, "crashed"}

\* What is released was in the queue.
LEMMA PopQuiet ==
    ASSUME NEW s \in HostState, s.segments # <<>>
    PROVE  /\ Released(s, PopFront(s))
           /\ End(Head(s.segments)) \in Nat /\ Head(s.segments) \in Segment
           /\ Contents(s) => Content(Head(s.segments))
<1> DEFINE q == Tail(s.segments)
           t == PopFront(s)
<1>1. s.segments \in Seq(Segment)
  BY DEF HostState
<1>2. /\ q \in Seq(Segment) /\ Len(q) = Len(s.segments) - 1
      /\ \A i \in 1..Len(q) : q[i] = s.segments[i + 1]
      /\ Head(s.segments) = s.segments[1] /\ Head(s.segments) \in Segment
      /\ Len(s.segments) \in Nat \ {0}
  BY <1>1, HeadTailProperties, EmptySeq
<1>3. t = [s EXCEPT !.segments = q, !.retrans_count = 0]
  BY DEF PopFront
<1>. HIDE DEF q, t
<1>4. /\ t \in HostState /\ t.segments = q /\ t.wire = s.wire
      /\ SameOut(s, t) /\ SameIn(s, t) /\ t.status = s.status
  BY <1>2, <1>3 DEF HostState, SameOut, SameIn
<1>5. Contents(s) => Contents(t) /\ Content(s.segments[1])
  BY <1>2, <1>4 DEF Contents
<1>6. End(Head(s.segments)) \in Nat
  BY <1>2 DEF Segment, End
<1>. QED BY <1>2, <1>4, <1>5, <1>6 DEF Released, Quiet, t

\* The acknowledgement of the FIN releases the front, if there is one.
LEMMA FinAckedQuiet ==
    ASSUME NEW s \in HostState
    PROVE  Released(s, FinAcked(s))
<1>1. CASE s.segments = <<>>
  BY <1>1 DEF FinAcked, Released, Quiet, SameOut, SameIn, Contents,
              HostState, Statuses
<1>2. CASE s.segments # <<>>
  <2> DEFINE r == [s EXCEPT !.FIN_received = TRUE]
  <2>1. Released(s, r) /\ r \in HostState /\ r.segments # <<>>
    BY <1>2 DEF Released, Quiet, SameOut, SameIn, Contents, HostState
  <2>2. FinAcked(s) = PopFront(r)
    BY <1>2 DEF FinAcked
  <2>. HIDE DEF r
  <2>3. Released(r, PopFront(r))
    BY <2>1, PopQuiet
  <2>. QED BY <2>1, <2>2, <2>3, QuietTrans DEF Released
<1>. QED BY <1>1, <1>2

\* An ACK, whatever its number, leaves both halves as they are.
LEMMA ReceiveAckQuiet ==
    ASSUME NEW s \in HostState, NEW seg \in AnySegment
    PROVE  Released(s, ReceiveAck(s, seg))
<1> DEFINE t == ReceiveAck(s, seg)
           r == PopFront(s)
           front == End(Head(s.segments))
<1>1. CASE IsFinAck(s, seg)
  BY <1>1, FinAckedQuiet DEF ReceiveAck
<1>2. CASE ~IsFinAck(s, seg) /\ s.segments = <<>>
  BY <1>2 DEF ReceiveAck, Released, Quiet, SameOut, SameIn
<1>3. CASE ~IsFinAck(s, seg) /\ s.segments # <<>>
  <2>1. /\ Released(s, r) /\ r \in HostState /\ front \in Nat
        /\ seg.window \in Nat /\ seg.ackno \in Nat
        /\ Head(s.segments) \in Segment
        /\ Contents(s) => Content(Head(s.segments))
    BY <1>3, PopQuiet DEF Released, Quiet, AnySegment
  <2>2. CASE front = seg.ackno
    <3>1. t = [r EXCEPT !.seqno = front, !.send_window = seg.window]
      BY <1>3, <2>1, <2>2 DEF ReceiveAck, ExactAck
    <3>. HIDE DEF t, r, front
    <3>2. Released(r, t)
      BY <2>1, <3>1 DEF Released, Quiet, SameOut, SameIn, Contents, HostState
    <3>. QED BY <2>1, <3>2, QuietTrans DEF Released, t
  <2>3. CASE front < seg.ackno
    <3>1. t = [r EXCEPT !.seqno = front]
      BY <1>3, <2>1, <2>3 DEF ReceiveAck, LargerAck
    <3>. HIDE DEF t, r, front
    <3>2. Released(r, t)
      BY <2>1, <3>1 DEF Released, Quiet, SameOut, SameIn, Contents, HostState
    <3>. QED BY <2>1, <3>2, QuietTrans DEF Released, t
  <2>4. CASE front > seg.ackno
    <3>1. t = conn_send(s, Head(s.segments))
      BY <1>3, <2>1, <2>4 DEF ReceiveAck, SmallerAck
    <3>. HIDE DEF t
    <3>2. Released(s, t)
      BY <2>1, <3>1, SendQuiet DEF Released, Quiet
    <3>. QED BY <3>2 DEF t
  <2>. QED BY <2>1, <2>2, <2>3, <2>4
<1>. QED BY <1>1, <1>2, <1>3

\* What a receipt never touches, and the room of the output queue.
Kept(s, t) ==
    /\ t \in HostState /\ SameIn(s, t)
    /\ Contents(s) => Contents(t)
    /\ s.queued <= MaxBufSpace => t.queued <= MaxBufSpace

\* The data went to the output, whole or with a part of it queued.
Accepted(s, t, data, written) ==
    /\ t.ackno = s.ackno + Len(data) /\ t.all_recv_output = s.all_recv_output
    /\ ~s.wrote_eof => /\ t.taken = s.taken \o data /\ ~t.wrote_eof
                       /\ t.queued = s.queued + Len(data)
                                       - (IF s.queued = 0 THEN written ELSE 0)
    /\ s.wrote_eof => t.taken = s.taken /\ t.wrote_eof

\* The peer's stream ended.
Ended(s, t) ==
    /\ t.ackno = s.ackno + 1 /\ t.all_recv_output /\ t.wrote_eof
    /\ t.taken = s.taken /\ t.queued = s.queued

\* A quiet step keeps the input half.
LEMMA QuietKept ==
    ASSUME NEW s \in HostState, NEW t, Quiet(s, t)
    PROVE  Kept(s, t)
BY DEF Quiet, Kept, SameOut

\* Two such steps are one.
LEMMA KeptTrans ==
    ASSUME NEW s, NEW t, NEW u, Kept(s, t), Kept(t, u)
    PROVE  Kept(s, u)
BY DEF Kept, SameIn

\* Data is taken whole, when it is the next and fits, or not at all.
LEMMA ReceiveDataEffect ==
    ASSUME NEW s \in HostState, NEW seg \in AnySegment, HasData(seg),
           NEW written \in 0..Len(seg.data)
    PROVE  LET t == ReceiveData(s, seg, written)
           IN  /\ Kept(s, t) /\ t.status = s.status
               /\ \/ SameOut(s, t)
                  \/ seg.seqno = s.ackno /\ Accepted(s, t, seg.data, written)
<1> DEFINE n == s.ackno + Len(seg.data)
           r == [s EXCEPT !.ackno = n]
           u == conn_output(r, seg.data, written)
           t == ReceiveData(s, seg, written)
<1>1. /\ s.ackno \in Nat /\ s.queued \in Nat
      /\ seg.data \in Seq(Nat) /\ seg.data # <<>> /\ n \in Nat
  BY SMTT(20) DEF HostState, AnySegment, HasData
<1>2. CASE seg.seqno = s.ackno /\ conn_bufspace(s) >= Len(seg.data)
  <2>. HIDE DEF n
  <2>1. /\ r \in HostState /\ SameIn(s, r) /\ r.ackno = n
        /\ r.taken = s.taken /\ r.queued = s.queued
        /\ r.wrote_eof = s.wrote_eof /\ r.all_recv_output = s.all_recv_output
        /\ r.status = s.status /\ r.segments = s.segments /\ r.wire = s.wire
    BY <1>1 DEF HostState, SameIn
  <2>. HIDE DEF r
  <2>2. conn_bufspace(r) = conn_bufspace(s)
    BY <2>1 DEF conn_bufspace
  <2>3. /\ t = ctcp_send_ack(u)
        /\ Len(seg.data) <= conn_bufspace(r)
    <3>1. conn_bufspace(r) >= Len(seg.data)
      BY <1>2, <2>2
    <3>2. t = ctcp_send_ack(ctcp_output(r, seg.data, written))
      BY <1>2 DEF ReceiveData, r, n
    <3>3. ctcp_output(r, seg.data, written) = u
      BY <3>1 DEF ctcp_output
    <3>4. Len(seg.data) \in Nat /\ conn_bufspace(r) \in Int
      BY <1>1, <2>1, CtcpConstants DEF conn_bufspace
    <3>. QED BY <3>1, <3>2, <3>3, <3>4
  <2>4. /\ u \in HostState /\ SameIn(r, u)
        /\ u.ackno = r.ackno /\ u.all_recv_output = r.all_recv_output
        /\ u.status = r.status /\ u.segments = r.segments /\ u.wire = r.wire
        /\ ~r.wrote_eof => /\ u.taken = r.taken \o seg.data /\ ~u.wrote_eof
                           /\ u.queued = r.queued + Len(seg.data)
                                - (IF r.queued = 0 THEN written ELSE 0)
        /\ r.queued <= MaxBufSpace => u.queued <= MaxBufSpace
        /\ r.wrote_eof => u.taken = r.taken /\ u.wrote_eof
    <3>1. /\ r \in HostState /\ seg.data \in Seq(Nat) /\ seg.data # <<>>
          /\ written \in 0..Len(seg.data) /\ Len(seg.data) <= conn_bufspace(r)
      BY <1>1, <2>1, <2>3
    <3>. HIDE DEF u
    <3>2. u = conn_output(r, seg.data, written)
      BY DEF u
    <3>3. /\ u \in HostState /\ SameIn(r, u)
          /\ u.ackno = r.ackno /\ u.all_recv_output = r.all_recv_output
          /\ u.status = r.status /\ u.segments = r.segments /\ u.wire = r.wire
      BY <3>1, <3>2, OutputEffect
    <3>4. r.queued <= MaxBufSpace => u.queued <= MaxBufSpace
      BY <3>1, <3>2, OutputEffect
    <3>5. ~r.wrote_eof => /\ u.taken = r.taken \o seg.data /\ ~u.wrote_eof
                          /\ u.queued = r.queued + Len(seg.data)
                               - (IF r.queued = 0 THEN written ELSE 0)
      BY <3>1, <3>2, OutputEffect
    <3>6. r.wrote_eof => u.taken = r.taken /\ u.wrote_eof
      BY <3>1, <3>2, OutputFrame
    <3>. QED BY <3>3, <3>4, <3>5, <3>6
  <2>. HIDE DEF u, t
  <2>5. Kept(s, u)
    BY <2>1, <2>4 DEF Kept, SameIn, Contents
  <2>6. Accepted(s, u, seg.data, written)
    BY <2>1, <2>4 DEF Accepted, n
  <2>7. Quiet(u, t) /\ t.status = u.status
    BY <2>3, <2>4, AckQuiet
  <2>8. Kept(s, t)
    BY <2>4, <2>5, <2>7, QuietKept, KeptTrans
  <2>9. Accepted(s, t, seg.data, written)
    BY <2>6, <2>7 DEF Accepted, Quiet, SameOut
  <2>. QED BY <1>2, <2>1, <2>4, <2>7, <2>8, <2>9 DEF t
<1>3. CASE ~(seg.seqno = s.ackno /\ conn_bufspace(s) >= Len(seg.data))
  <2>1. t = ctcp_send_ack(s)
    BY <1>3 DEF ReceiveData
  <2>. HIDE DEF t
  <2>2. Quiet(s, t) /\ t.status = s.status
    BY <2>1, AckQuiet
  <2>. QED BY <2>2, QuietKept DEF Quiet, t
<1>. QED BY <1>2, <1>3

\* A FIN ends the output when everything before it is here.
LEMMA ReceiveFinEffect ==
    ASSUME NEW s \in HostState, NEW seg
    PROVE  LET t == ReceiveFin(s, seg)
           IN  /\ Kept(s, t) /\ t.status = s.status
               /\ \/ SameOut(s, t)
                  \/ seg.seqno = s.ackno /\ Ended(s, t)
<1> DEFINE r == [s EXCEPT !.FIN_received = TRUE]
           n == r.ackno + 1
           a == [r EXCEPT !.ackno = n]
           b == ctcp_send_ack(a)
           c == conn_output(b, <<>>, 0)
           d == [c EXCEPT !.all_recv_output = TRUE]
           t == ReceiveFin(s, seg)
<1>1. Quiet(s, r) /\ r.status = s.status
  BY DEF Quiet, SameOut, SameIn, Contents, HostState
<1>2. CASE seg.seqno = r.ackno
  <2>1. t = d
    BY <1>2 DEF ReceiveFin
  <2>. HIDE DEF r, t
  <2>2. r \in HostState /\ n \in Nat
    <3>1. r \in HostState
      BY <1>1 DEF Quiet
    <3>2. r.ackno \in Nat
      BY <3>1 DEF HostState
    <3>. QED BY <3>1, <3>2
  <2>. HIDE DEF n
  <2>3. /\ Kept(r, a) /\ a.status = r.status /\ a.ackno = n
        /\ a.taken = r.taken /\ a.queued = r.queued
    BY <2>2 DEF Kept, SameIn, Contents, HostState
  <2>. HIDE DEF a
  <2>4. Quiet(a, b) /\ b.status = a.status
    BY <2>3, AckQuiet DEF Kept
  <2>. HIDE DEF b
  <2>5. b \in HostState /\ <<>> \in Seq(Nat) /\ 0 \in 0..Len(<<>>)
    BY <2>4 DEF Quiet
  <2>6. /\ c \in HostState /\ SameIn(b, c) /\ c.ackno = b.ackno
        /\ c.status = b.status /\ c.segments = b.segments /\ c.wire = b.wire
        /\ c.taken = b.taken /\ c.queued = b.queued /\ c.wrote_eof
    BY <2>5, OutputEffect
  <2>. HIDE DEF c
  <2>7. Kept(b, c)
    BY <2>6 DEF Kept, Contents
  <2>8. /\ Kept(c, d) /\ d.status = c.status /\ d.ackno = c.ackno
        /\ d.taken = c.taken /\ d.queued = c.queued
        /\ d.wrote_eof /\ d.all_recv_output
    BY <2>6 DEF Kept, SameIn, Contents, HostState
  <2>. HIDE DEF d
  <2>9. Kept(s, d)
    <3>1. Kept(s, r)
      BY <1>1, QuietKept
    <3>2. Kept(s, a)
      BY <2>3, <3>1, KeptTrans
    <3>3. Kept(a, b)
      BY <2>3, <2>4, QuietKept DEF Kept
    <3>. QED BY <2>7, <2>8, <3>2, <3>3, KeptTrans
  <2>10. Ended(s, d)
    BY <1>1, <2>3, <2>4, <2>6, <2>8 DEF Ended, Quiet, SameOut, n
  <2>11. d.status = s.status /\ seg.seqno = s.ackno
    BY <1>1, <1>2, <2>3, <2>4, <2>6, <2>8 DEF Quiet, SameOut
  <2>. QED BY <2>1, <2>9, <2>10, <2>11 DEF t
<1>3. CASE seg.seqno # r.ackno
  <2>1. t = r
    BY <1>3 DEF ReceiveFin
  <2>. HIDE DEF t, r
  <2>. QED BY <1>1, <2>1, QuietKept DEF Quiet, t
<1>. QED BY <1>2, <1>3

\* ctcp_receive: the segment's data is output, or its FIN is, or neither.
LEMMA ReceiveEffect ==
    ASSUME NEW s \in HostState, NEW seg \in AnySegment,
           NEW written \in 0..Len(seg.data)
    PROVE  LET t == ctcp_receive(s, seg, written)
           IN  /\ Kept(s, t) /\ t.status \in {s.status, "crashed"}
               /\ ("FIN" \in seg.flags => ~HasData(seg)) =>
                    \/ SameOut(s, t)
                    \/ /\ HasData(seg) /\ seg.seqno = s.ackno
                       /\ Accepted(s, t, seg.data, written)
                    \/ /\ "FIN" \in seg.flags /\ seg.seqno = s.ackno
                       /\ Ended(s, t)
<1> DEFINE a == IF HasData(seg) THEN ReceiveData(s, seg, written) ELSE s
           b == IF "ACK" \in seg.flags THEN ReceiveAck(a, seg) ELSE a
           c == IF "FIN" \in seg.flags /\ ~IsFinAck(a, seg)
                THEN ReceiveFin(b, seg) ELSE b
           t == ctcp_receive(s, seg, written)
<1>1. \A u \in HostState : Kept(u, u) /\ SameOut(u, u)
  BY DEF Kept, SameIn, SameOut
<1>2. /\ Kept(s, a) /\ a.status = s.status /\ a \in HostState
      /\ ~HasData(seg) => SameOut(s, a)
      /\ HasData(seg) => \/ SameOut(s, a)
                         \/ /\ seg.seqno = s.ackno
                            /\ Accepted(s, a, seg.data, written)
  <2>1. CASE HasData(seg)
    BY <2>1, ReceiveDataEffect DEF Kept
  <2>2. CASE ~HasData(seg)
    BY <1>1, <2>2
  <2>. QED BY <2>1, <2>2
<1>. HIDE DEF a
<1>3. /\ Kept(a, b) /\ SameOut(a, b) /\ b.status \in {a.status, "crashed"}
      /\ b \in HostState
  <2>1. CASE "ACK" \in seg.flags
    <3>1. Released(a, b)
      BY <1>2, <2>1, ReceiveAckQuiet
    <3>. QED BY <1>2, <3>1, QuietKept DEF Released, Quiet
  <2>2. CASE "ACK" \notin seg.flags
    BY <1>1, <1>2, <2>2
  <2>. QED BY <2>1, <2>2
<1>. HIDE DEF b
<1>4. /\ Kept(b, c) /\ c.status = b.status
      /\ \/ SameOut(b, c)
         \/ "FIN" \in seg.flags /\ seg.seqno = b.ackno /\ Ended(b, c)
  <2>1. CASE "FIN" \in seg.flags /\ ~IsFinAck(a, seg)
    BY <1>3, <2>1, ReceiveFinEffect
  <2>2. CASE ~("FIN" \in seg.flags /\ ~IsFinAck(a, seg))
    BY <1>1, <1>3, <2>2
  <2>. QED BY <2>1, <2>2
<1>. HIDE DEF c
<1>5. t = IF Ignored(s, seg) THEN s ELSE c
  BY DEF ctcp_receive, a, b, c
<1>. HIDE DEF t
<1>6. CASE t = s
  BY <1>1, <1>6 DEF t
<1>7. CASE t = c
  <2>1. Kept(s, c) /\ c.status \in {s.status, "crashed"}
    BY <1>2, <1>3, <1>4, KeptTrans
  <2>2. ASSUME "FIN" \in seg.flags => ~HasData(seg)
        PROVE  \/ SameOut(s, c)
               \/ /\ HasData(seg) /\ seg.seqno = s.ackno
                  /\ Accepted(s, c, seg.data, written)
               \/ /\ "FIN" \in seg.flags /\ seg.seqno = s.ackno
                  /\ Ended(s, c)
    <3>1. CASE SameOut(b, c)
      BY <1>2, <1>3, <3>1 DEF SameOut, Accepted
    <3>2. CASE "FIN" \in seg.flags /\ seg.seqno = b.ackno /\ Ended(b, c)
      BY <1>2, <1>3, <2>2, <3>2 DEF SameOut, Ended
    <3>. QED BY <1>4, <3>1, <3>2
  <2>. QED BY <1>7, <2>1, <2>2 DEF t
<1>. QED BY <1>5, <1>6, <1>7

-----------------------------------------------------------------------------
\* The timer

\* The timer reads nothing and outputs nothing. It sends the FIN only when the
\* input has ended, and finishes only when both streams have.
Timed(s, t) ==
    /\ t \in HostState /\ SameOut(s, t)
    /\ t.inputted = s.inputted /\ t.next_seqno = s.next_seqno
    /\ t.read_finish = s.read_finish
    /\ s.FIN_sent => t.FIN_sent
    /\ t.FIN_sent => s.FIN_sent \/ s.read_finish
    /\ Contents(s) => Contents(t)
    /\ t.status = "finished" =>
         s.status = "finished" \/ (t.FIN_sent /\ t.all_recv_output)

\* Two parts of the timer are one.
LEMMA TimedTrans ==
    ASSUME NEW s, NEW t, NEW u, Timed(s, t), Timed(t, u), t.status = s.status
    PROVE  Timed(s, u)
BY DEF Timed, SameOut

\* A Quiet step is Timed if it does not finish.
LEMMA QuietTimed ==
    ASSUME NEW s, NEW t, Quiet(s, t), t.status \in {s.status, "crashed", "gave_up"}
    PROVE  Timed(s, t)
BY DEF Quiet, Timed, SameIn

\* The FIN is sent after the end of the input.
LEMMA SendFinEffect ==
    ASSUME NEW s \in HostState
    PROVE  Timed(s, SendFinIfDone(s)) /\ SendFinIfDone(s).status = s.status
<1> DEFINE t == SendFinIfDone(s)
<1>1. CASE s.read_finish /\ s.get_all_ack /\ ~s.FIN_sent
  <2> DEFINE f == FinSegment(s)
             e == Enqueue(s, f)
             w == conn_send(e, f)
  <2>1. /\ f \in Segment /\ Content(f) /\ Len(f.data) = 0
        /\ s.next_seqno \in Nat
    BY DEF FinSegment, Segment, Flags, Content, HostState
  <2>2. t = [w EXCEPT !.FIN_sent = TRUE]
    BY <1>1 DEF SendFinIfDone, ctcp_send_fin
  <2>. HIDE DEF f, t
  <2>3. /\ e \in HostState /\ SameOut(s, e) /\ e.inputted = s.inputted
        /\ e.read_finish = s.read_finish /\ e.status = s.status
        /\ e.next_seqno = s.next_seqno + Len(f.data)
        /\ Contents(s) /\ Content(f) => Contents(e)
    BY <2>1, EnqueueEffect
  <2>. HIDE DEF e
  <2>4. Quiet(e, w) /\ w.status = e.status
    BY <2>1, <2>3, SendQuiet
  <2>. HIDE DEF w
  <2>5. /\ t \in HostState /\ SameOut(w, t) /\ t.FIN_sent
        /\ t.inputted = w.inputted /\ t.next_seqno = w.next_seqno
        /\ t.read_finish = w.read_finish /\ t.status = w.status
        /\ Contents(w) => Contents(t)
    BY <2>2, <2>4 DEF Quiet, HostState, SameOut, Contents
  <2>6. e.next_seqno = s.next_seqno
    BY <2>1, <2>3
  <2>7. SameOut(s, t) /\ (Contents(s) => Contents(t))
    BY <2>1, <2>3, <2>4, <2>5 DEF Quiet, SameOut
  <2>8. /\ t.inputted = s.inputted /\ t.next_seqno = s.next_seqno
        /\ t.read_finish = s.read_finish /\ t.status = s.status
    BY <2>3, <2>4, <2>5, <2>6 DEF Quiet, SameIn
  <2>. QED BY <1>1, <2>5, <2>7, <2>8 DEF Timed, t
<1>2. CASE ~(s.read_finish /\ s.get_all_ack /\ ~s.FIN_sent)
  BY <1>2 DEF SendFinIfDone, Timed, SameOut
<1>. QED BY <1>1, <1>2

\* Who is destroyed keeps what it took.
LEMMA DestroyQuiet ==
    ASSUME NEW s \in HostState, NEW why \in {"finished", "gave_up"}
    PROVE  Quiet(s, ctcp_destroy(s, why)) /\ ctcp_destroy(s, why).status = why
<1> DEFINE t == ctcp_destroy(s, why)
<1>1. <<>> \in Seq(Segment) /\ Len(<<>>) = 0
  OBVIOUS
<1>2. /\ t \in HostState /\ t.segments = <<>> /\ t.wire = s.wire
      /\ SameOut(s, t) /\ SameIn(s, t) /\ t.status = why
  BY <1>1 DEF ctcp_destroy, HostState, Statuses, SameOut, SameIn
<1>. HIDE DEF t
<1>3. Contents(s) => Contents(t)
  BY <1>1, <1>2 DEF Contents
<1>. QED BY <1>2, <1>3 DEF Quiet, t

\* What is retransmitted was in the queue.
LEMMA RetransmitQuiet ==
    ASSUME NEW s \in HostState, s.segments # <<>>,
           NEW stale_log \in {"ignored", "crash"}
    PROVE  Released(s, Retransmit(s, stale_log))
<1> DEFINE u == conn_send(s, Head(s.segments))
           n == u.retrans_count + 1
           why == IF s.FIN_sent /\ stale_log = "crash" THEN "crashed" ELSE u.status
           t == [u EXCEPT !.retrans_count = n, !.status = why]
<1>1. /\ Head(s.segments) \in Segment
      /\ Contents(s) => Content(Head(s.segments))
  BY PopQuiet
<1>2. /\ u \in HostState /\ SameOut(s, u) /\ SameIn(s, u)
      /\ Content(Head(s.segments)) => Quiet(s, u)
      /\ u.status = s.status
  BY <1>1, SendQuiet
<1>3. Retransmit(s, stale_log) = t
  BY DEF Retransmit
<1>. HIDE DEF u
<1>4. n \in Nat /\ why \in {u.status, "crashed"} /\ why \in Statuses
  <2>1. u.retrans_count \in Nat /\ u.status \in Statuses
    BY <1>2 DEF HostState
  <2>. QED BY <2>1 DEF Statuses
<1>. HIDE DEF n, why
<1>5. /\ t \in HostState /\ SameOut(u, t) /\ SameIn(u, t) /\ t.status = why
      /\ t.wire = u.wire /\ t.segments = u.segments
  BY <1>2, <1>4 DEF HostState, SameOut, SameIn
<1>. HIDE DEF t
<1>6. Contents(s) => Contents(t)
  BY <1>1, <1>2, <1>5 DEF Quiet, Contents
<1>7. SameOut(s, t) /\ SameIn(s, t)
  BY <1>2, <1>5 DEF SameOut, SameIn
<1>. QED BY <1>2, <1>3, <1>4, <1>5, <1>6, <1>7 DEF Released, Quiet

\* The timer takes nothing, and finishes only after both FINs.
LEMMA TimerEffect ==
    ASSUME NEW s \in HostState, NEW expired \in BOOLEAN,
           NEW stale_log \in {"ignored", "crash"}
    PROVE  Timed(s, ctcp_timer(s, expired, stale_log))
<1> DEFINE t == SendFinIfDone(s)
           u == ctcp_timer(s, expired, stale_log)
<1>1. Timed(s, t) /\ t.status = s.status /\ t \in HostState
  BY SendFinEffect DEF Timed
<1>2. t.retrans_count \in Nat /\ RetransmitLimit \in Nat
  BY <1>1, CtcpConstants DEF HostState
<1>3. Timed(t, u)
  <2>1. CASE TeardownReady(t)
    <3>1. u = ctcp_destroy(t, "finished")
      BY <2>1 DEF ctcp_timer
    <3>. HIDE DEF t, u
    <3>2. Quiet(t, u)
      BY <1>1, <3>1, DestroyQuiet
    <3>. QED BY <2>1, <3>2 DEF Timed, Quiet, SameIn, SameOut, TeardownReady
  <2>2. CASE t.segments = <<>> /\ ~TeardownReady(t)
    <3>1. u = [t EXCEPT !.get_all_ack = TRUE]
      BY <2>2 DEF ctcp_timer
    <3>. HIDE DEF t, u
    <3>2. Quiet(t, u) /\ u.status = t.status
      BY <1>1, <3>1 DEF Quiet, SameOut, SameIn, Contents, HostState
    <3>. QED BY <3>2, QuietTimed
  <2>3. CASE t.segments # <<>> /\ ~TeardownReady(t)
    <3>1. CASE ~expired
      <4>1. u = t
        BY <2>3, <3>1 DEF ctcp_timer
      <4>. HIDE DEF t, u
      <4>. QED BY <1>1, <4>1 DEF Timed, SameOut
    <3>2. CASE expired /\ t.retrans_count <= RetransmitLimit
      <4>1. u = Retransmit(t, stale_log)
        BY <1>2, <2>3, <3>2 DEF ctcp_timer
      <4>. HIDE DEF t, u
      <4>2. Released(t, u)
        BY <1>1, <2>3, <4>1, RetransmitQuiet
      <4>. QED BY <4>2, QuietTimed DEF Released
    <3>3. CASE expired /\ t.retrans_count > RetransmitLimit
      <4>1. u = ctcp_destroy(t, "gave_up")
        BY <1>2, <2>3, <3>3 DEF ctcp_timer
      <4>. HIDE DEF t, u
      <4>2. Quiet(t, u) /\ u.status = "gave_up"
        BY <1>1, <4>1, DestroyQuiet
      <4>. QED BY <4>2, QuietTimed
    <3>. QED BY <1>2, <3>1, <3>2, <3>3
  <2>. QED BY <2>1, <2>2, <2>3
<1>. QED BY <1>1, <1>3, TimedTrans
-----------------------------------------------------------------------------
\* What a handler sends, when the library does not add the ACK flag

\* What the senders put in the queue: data with the ACK flag, or the FIN.
Queued(seg) ==
    \/ seg.flags = {"ACK"} /\ HasData(seg)
    \/ seg.flags = {"FIN"} /\ ~HasData(seg)

\* What may be on its way: what was queued, and acknowledgements.
Plain(seg) == seg.flags = {"ACK"} \/ Queued(seg)

\* An acknowledgement of all that s accepted.
Answer(s, seg) ==
    seg \in Segment /\ seg.flags = {"ACK"} /\ ~HasData(seg) /\ seg.ackno = s.ackno

\* conn_send hands over the segment as it is.
LEMMA SentAsIs ==
    ASSUME ~PiggybackAck, NEW s \in HostState, NEW seg \in Segment
    PROVE  conn_send(s, seg) = [s EXCEPT !.wire = Append(@, seg)]
<1>1. convert_to_datagram(seg) = seg
  <2>1. convert_to_datagram(seg) = [seg EXCEPT !.flags = @ \cup {}]
    BY DEF convert_to_datagram
  <2>2. [seg EXCEPT !.flags = @ \cup {}] = seg
    BY DEF Segment
  <2>. QED BY <2>1, <2>2
<1>. QED BY <1>1 DEF conn_send

\* ctcp_send_ack hands over an answer, and no more.
LEMMA AckSent ==
    ASSUME ~PiggybackAck, NEW s \in HostState
    PROVE  \E m : /\ Answer(s, m)
                  /\ ctcp_send_ack(s) = [s EXCEPT !.wire = Append(@, m)]
<1> DEFINE m == [seqno |-> s.next_seqno, ackno |-> s.ackno, flags |-> {"ACK"},
                 window |-> s.recv_window, data |-> <<>>]
<1>1. m \in Segment /\ Answer(s, m)
  BY DEF HostState, Segment, Flags, Answer, HasData
<1>2. ctcp_send_ack(s) = conn_send(s, m)
  BY DEF ctcp_send_ack
<1>. HIDE DEF m
<1>. QED BY <1>1, <1>2, SentAsIs

\* What a host keeps when it sends or outputs.
SameQueue(s, t) ==
    /\ t.segments = s.segments /\ t.status = s.status
    /\ t.seqno = s.seqno /\ t.next_seqno = s.next_seqno
    /\ t.FIN_sent = s.FIN_sent /\ t.read_finish = s.read_finish

\* Data is answered, taken or not.
LEMMA DataAnswered ==
    ASSUME ~PiggybackAck, NEW s \in HostState, NEW seg \in Segment, HasData(seg),
           NEW written \in 0..Len(seg.data)
    PROVE  LET t == ReceiveData(s, seg, written)
           IN  /\ t \in HostState /\ SameQueue(s, t) /\ t.wrote_eof = s.wrote_eof
               /\ \E m : Answer(t, m) /\ t.wire = Append(s.wire, m)
               /\ \/ t.ackno = s.ackno
                  \/ seg.seqno = s.ackno /\ t.ackno = End(seg)
<1> DEFINE n == s.ackno + Len(seg.data)
           r == [s EXCEPT !.ackno = n]
           u == ctcp_output(r, seg.data, written)
           t == ReceiveData(s, seg, written)
<1>1. s.ackno \in Nat /\ seg.data \in Seq(Nat) /\ seg.data # <<>> /\ n \in Nat
  BY SMTT(20) DEF HostState, Segment, HasData
<1>. HIDE DEF n
<1>2. /\ r \in HostState /\ SameQueue(s, r) /\ r.wrote_eof = s.wrote_eof
      /\ r.wire = s.wire /\ r.ackno = n
  BY <1>1 DEF HostState, SameQueue
<1>. HIDE DEF r
<1>3. /\ u \in HostState /\ SameQueue(r, u) /\ u.wrote_eof = r.wrote_eof
      /\ u.wire = r.wire /\ u.ackno = r.ackno
  <2>1. CASE conn_bufspace(r) >= Len(seg.data)
    <3> DEFINE v == conn_output(r, seg.data, written)
    <3>1. u = v
      BY <2>1 DEF ctcp_output
    <3>. HIDE DEF u
    <3>2. /\ v \in HostState /\ SameIn(r, v) /\ v.ackno = r.ackno
          /\ v.status = r.status /\ v.segments = r.segments /\ v.wire = r.wire
      BY <1>1, <1>2, OutputEffect
    <3>3. v.seqno = r.seqno /\ v.wrote_eof = r.wrote_eof
      BY <1>1, <1>2, OutputFrame
    <3>. HIDE DEF v
    <3>. QED BY <3>1, <3>2, <3>3 DEF SameQueue, SameIn
  <2>2. CASE ~(conn_bufspace(r) >= Len(seg.data))
    <3>1. u = r
      BY <2>2 DEF ctcp_output
    <3>. HIDE DEF u
    <3>. QED BY <1>2, <3>1 DEF SameQueue
  <2>. QED BY <2>1, <2>2
<1>. HIDE DEF u
<1>4. ASSUME NEW x \in {s, u}
      PROVE  LET y == ctcp_send_ack(x)
             IN  /\ y \in HostState /\ SameQueue(x, y) /\ y.wrote_eof = x.wrote_eof
                 /\ y.ackno = x.ackno
                 /\ \E m : Answer(y, m) /\ y.wire = Append(x.wire, m)
  <2> DEFINE y == ctcp_send_ack(x)
  <2>1. x \in HostState /\ x.wire \in Seq(Segment)
    BY <1>3 DEF HostState
  <2>2. PICK m : Answer(x, m) /\ y = [x EXCEPT !.wire = Append(@, m)]
    BY <2>1, AckSent
  <2> DEFINE w == Append(x.wire, m)
  <2>3. w \in Seq(Segment)
    BY <2>1, <2>2, AppendProperties DEF Answer
  <2>4. y = [x EXCEPT !.wire = w]
    BY <2>2
  <2>. HIDE DEF y, w
  <2>5. /\ y \in HostState /\ SameQueue(x, y) /\ y.wrote_eof = x.wrote_eof
        /\ y.wire = w /\ y.ackno = x.ackno
    BY <2>1, <2>3, <2>4 DEF HostState, SameQueue
  <2>6. Answer(y, m)
    BY <2>2, <2>5 DEF Answer
  <2>. QED BY <2>5, <2>6 DEF y, w
<1>5. CASE seg.seqno = s.ackno /\ conn_bufspace(s) >= Len(seg.data)
  <2>1. t = ctcp_send_ack(u)
    BY <1>5 DEF ReceiveData, u, r, n
  <2>2. s.ackno + Len(seg.data) = End(seg)
    BY <1>5 DEF End
  <2>. HIDE DEF t
  <2>3. /\ t \in HostState /\ SameQueue(u, t) /\ t.wrote_eof = u.wrote_eof
        /\ t.ackno = u.ackno
        /\ \E m : Answer(t, m) /\ t.wire = Append(u.wire, m)
    BY <1>4, <2>1
  <2>4. SameQueue(s, t)
    BY <1>2, <1>3, <2>3 DEF SameQueue
  <2>. QED BY <1>2, <1>3, <1>5, <2>2, <2>3, <2>4 DEF n, t
<1>6. CASE ~(seg.seqno = s.ackno /\ conn_bufspace(s) >= Len(seg.data))
  <2>1. t = ctcp_send_ack(s)
    BY <1>6 DEF ReceiveData
  <2>. HIDE DEF t
  <2>. QED BY <1>4, <2>1 DEF t
<1>. QED BY <1>5, <1>6
\* The front of the queue leaves it for an ACK that covers it, and for no other.
Popped(s, t, seg) ==
    /\ s.segments # <<>> /\ t.segments = Tail(s.segments)
    /\ "ACK" \in seg.flags
    /\ IsFinAck(s, seg) \/ End(Head(s.segments)) <= seg.ackno

\* What an ACK does: the front is released, resent, or nothing; and the host
\* dies only if there is none to release.
AckDone(s, t, seg) ==
    /\ t.FIN_sent = s.FIN_sent /\ t.next_seqno = s.next_seqno
    /\ t.read_finish = s.read_finish /\ t.ackno = s.ackno
    /\ t.segments = s.segments \/ Popped(s, t, seg)
    /\ \/ t.wire = s.wire
       \/ s.segments # <<>> /\ t.wire = Append(s.wire, Head(s.segments))
    /\ t.status = s.status \/ (IsFinAck(s, seg) /\ s.segments = <<>>)

\* What no ACK changes.
SameFields(s, t) ==
    /\ t.FIN_sent = s.FIN_sent /\ t.next_seqno = s.next_seqno
    /\ t.read_finish = s.read_finish /\ t.ackno = s.ackno /\ t.wire = s.wire

LEMMA AckHandled ==
    ASSUME ~PiggybackAck, NEW s \in HostState, NEW seg \in Segment,
           "ACK" \in seg.flags
    PROVE  AckDone(s, ReceiveAck(s, seg), seg)
<1> DEFINE t == ReceiveAck(s, seg)
<1>1. CASE IsFinAck(s, seg)
  <2>1. t = FinAcked(s)
    BY <1>1 DEF ReceiveAck
  <2>2. CASE s.segments = <<>>
    <3>1. t = [s EXCEPT !.FIN_received = TRUE, !.status = "crashed"]
      BY <2>1, <2>2 DEF FinAcked
    <3>. HIDE DEF t
    <3>2. SameFields(s, t) /\ t.segments = s.segments
      BY <3>1 DEF HostState, SameFields
    <3>3. AckDone(s, t, seg)
      BY <1>1, <2>2, <3>2 DEF AckDone, SameFields
    <3>. QED BY <3>3 DEF t
  <2>3. CASE s.segments # <<>>
    <3>1. t = [s EXCEPT !.FIN_received = TRUE, !.segments = Tail(s.segments),
                        !.retrans_count = 0]
      BY <2>1, <2>3 DEF FinAcked, PopFront, HostState
    <3>. HIDE DEF t
    <3>2. SameFields(s, t) /\ t.segments = Tail(s.segments) /\ t.status = s.status
      BY <3>1 DEF HostState, SameFields
    <3>3. AckDone(s, t, seg)
      BY <1>1, <2>3, <3>2 DEF Popped, AckDone, SameFields
    <3>. QED BY <3>3 DEF t
  <2>. QED BY <2>2, <2>3
<1>2. CASE ~IsFinAck(s, seg) /\ s.segments = <<>>
  <2>1. t = s
    BY <1>2 DEF ReceiveAck
  <2>. QED BY <2>1 DEF AckDone
<1>3. CASE ~IsFinAck(s, seg) /\ s.segments # <<>>
  <2> DEFINE front == End(Head(s.segments))
             r == PopFront(s)
  <2>1. /\ Head(s.segments) \in Segment /\ front \in Nat /\ seg.ackno \in Nat
        /\ Released(s, r)
    BY <1>3, PopQuiet DEF Segment
  <2>2. /\ r.FIN_sent = s.FIN_sent /\ r.next_seqno = s.next_seqno
        /\ r.read_finish = s.read_finish /\ r.ackno = s.ackno
        /\ r.wire = s.wire /\ r.segments = Tail(s.segments)
        /\ r.status = s.status /\ r \in HostState
    BY <2>1 DEF PopFront, HostState, Released, Quiet
  <2>. HIDE DEF r, front
  <2>3. CASE front = seg.ackno
    <3>1. t = [r EXCEPT !.seqno = front, !.send_window = seg.window]
      BY <1>3, <2>1, <2>3 DEF ReceiveAck, ExactAck, front, r
    <3>. HIDE DEF t
    <3>2. SameFields(r, t) /\ t.segments = r.segments /\ t.status = r.status
      BY <2>2, <3>1 DEF HostState, SameFields
    <3>3. Popped(s, t, seg)
      BY <1>3, <2>1, <2>2, <2>3, <3>2 DEF Popped, front
    <3>4. AckDone(s, t, seg)
      BY <2>2, <3>2, <3>3 DEF AckDone, SameFields
    <3>. QED BY <3>4 DEF t
  <2>4. CASE front < seg.ackno
    <3>1. t = [r EXCEPT !.seqno = front]
      BY <1>3, <2>1, <2>4 DEF ReceiveAck, LargerAck, front, r
    <3>. HIDE DEF t
    <3>2. SameFields(r, t) /\ t.segments = r.segments /\ t.status = r.status
      BY <2>2, <3>1 DEF HostState, SameFields
    <3>3. Popped(s, t, seg)
      BY <1>3, <2>1, <2>2, <2>4, <3>2 DEF Popped, front
    <3>4. AckDone(s, t, seg)
      BY <2>2, <3>2, <3>3 DEF AckDone, SameFields
    <3>. QED BY <3>4 DEF t
  <2>5. CASE front > seg.ackno
    <3>1. t = [s EXCEPT !.wire = Append(@, Head(s.segments))]
      BY <1>3, <2>1, <2>5, SentAsIs DEF ReceiveAck, SmallerAck, front
    <3>. HIDE DEF t
    <3>2. AckDone(s, t, seg)
      BY <1>3, <3>1 DEF HostState, AckDone
    <3>. QED BY <3>2 DEF t
  <2>. QED BY <2>1, <2>3, <2>4, <2>5
<1>. QED BY <1>1, <1>2, <1>3

\* A FIN is answered when it is taken, and only then.
FinDone(s, t, seg) ==
    /\ SameQueue(s, t)
    /\ \/ t.wire = s.wire /\ t.ackno = s.ackno
       \/ /\ seg.seqno = s.ackno /\ t.ackno = s.ackno + 1
          /\ \E m : Answer(t, m) /\ t.wire = Append(s.wire, m)

LEMMA FinAnswered ==
    ASSUME ~PiggybackAck, NEW s \in HostState, NEW seg \in Segment
    PROVE  FinDone(s, ReceiveFin(s, seg), seg)
<1> DEFINE r == [s EXCEPT !.FIN_received = TRUE]
           n == r.ackno + 1
           a == [r EXCEPT !.ackno = n]
           b == ctcp_send_ack(a)
           c == conn_output(b, <<>>, 0)
           t == ReceiveFin(s, seg)
<1>1. /\ r \in HostState /\ SameQueue(s, r) /\ r.wire = s.wire
      /\ r.ackno = s.ackno /\ s.ackno \in Nat
  BY DEF HostState, SameQueue
<1>2. CASE seg.seqno = r.ackno
  <2>1. t = [c EXCEPT !.all_recv_output = TRUE]
    BY <1>2 DEF ReceiveFin
  <2>2. n = s.ackno + 1 /\ n \in Nat
    BY <1>1
  <2>. HIDE DEF r, n, t
  <2>3. a \in HostState /\ SameQueue(r, a) /\ a.wire = r.wire /\ a.ackno = n
    BY <1>1, <2>2 DEF HostState, SameQueue
  <2>. HIDE DEF a
  <2>4. PICK m : Answer(a, m) /\ b = [a EXCEPT !.wire = Append(@, m)]
    BY <2>3, AckSent
  <2> DEFINE w == Append(a.wire, m)
  <2>5. w \in Seq(Segment) /\ b = [a EXCEPT !.wire = w]
    BY <2>3, <2>4, AppendProperties DEF Answer, HostState
  <2>. HIDE DEF b, w
  <2>6. b \in HostState /\ SameQueue(a, b) /\ b.wire = w /\ b.ackno = n
    BY <2>3, <2>5 DEF HostState, SameQueue
  <2>7. <<>> \in Seq(Nat) /\ 0 \in 0..Len(<<>>)
    OBVIOUS
  <2>8. /\ c \in HostState /\ SameIn(b, c) /\ c.ackno = b.ackno
        /\ c.status = b.status /\ c.segments = b.segments /\ c.wire = b.wire
    BY <2>6, <2>7, OutputEffect
  <2>9. c.seqno = b.seqno
    BY <2>6, OutputFrame
  <2>. HIDE DEF c
  <2>10. /\ SameQueue(b, c) /\ SameQueue(c, t) /\ t.wire = w /\ t.ackno = n
    BY <2>1, <2>6, <2>8, <2>9 DEF SameQueue, SameIn, HostState
  <2>11. SameQueue(s, t)
    BY <1>1, <2>3, <2>6, <2>10 DEF SameQueue
  <2>12. Answer(t, m) /\ t.wire = Append(s.wire, m)
    BY <1>1, <2>3, <2>4, <2>10 DEF Answer, w
  <2>13. FinDone(s, t, seg)
    BY <1>1, <1>2, <2>2, <2>10, <2>11, <2>12 DEF FinDone
  <2>. QED BY <2>13 DEF t
<1>3. CASE seg.seqno # r.ackno
  <2>1. t = r
    BY <1>3 DEF ReceiveFin
  <2>. HIDE DEF r, t
  <2>2. FinDone(s, t, seg)
    BY <1>1, <2>1 DEF FinDone
  <2>. QED BY <2>2 DEF t
<1>. QED BY <1>2, <1>3

\* Why an answer is sent: for data not taken before, or for the FIN.
AnswersTo(s, t, seg) ==
    \/ HasData(seg) /\ seg.seqno >= s.ackno
    \/ "FIN" \in seg.flags /\ seg.seqno = s.ackno /\ t.ackno = s.ackno + 1

\* What ctcp_receive sends: an answer, and the front of the queue again.
ReceiveDone(s, t, seg) ==
    /\ t.FIN_sent = s.FIN_sent /\ t.next_seqno = s.next_seqno
    /\ t.read_finish = s.read_finish
    /\ t.segments = s.segments \/ Popped(s, t, seg)
    /\ t.status = s.status \/ (IsFinAck(s, seg) /\ s.segments = <<>>)
    /\ \A i \in 1..Len(t.wire) :
         \/ s.segments # <<>> /\ t.wire[i] = Head(s.segments)
         \/ i = 1 /\ Answer(t, t.wire[i]) /\ AnswersTo(s, t, seg)

\* What is sent first.
LEMMA OneAnswer ==
    ASSUME NEW m
    PROVE  Append(<<>>, m) = <<m>>
OBVIOUS

LEMMA ReceiveSends ==
    ASSUME ~PiggybackAck, NEW s \in HostState, s.wire = <<>>,
           NEW seg \in Segment, Plain(seg), NEW written \in 0..Len(seg.data)
    PROVE  ReceiveDone(s, ctcp_receive(s, seg, written), seg)
<1> DEFINE a == IF HasData(seg) THEN ReceiveData(s, seg, written) ELSE s
           b == ReceiveAck(a, seg)
           t == ctcp_receive(s, seg, written)
<1>0. Len(<<>>) = 0
  OBVIOUS
<1>1. CASE Ignored(s, seg)
  <2>1. t = s
    BY <1>1 DEF ctcp_receive
  <2>. HIDE DEF t
  <2>2. ReceiveDone(s, t, seg)
    BY <1>0, <2>1 DEF ReceiveDone
  <2>. QED BY <2>2 DEF t
<1>2. CASE ~Ignored(s, seg) /\ seg.flags = {"ACK"}
  <2>1. t = b
    BY <1>2 DEF ctcp_receive
  <2>2. /\ a \in HostState /\ SameQueue(s, a)
        /\ \/ a.wire = <<>> /\ a.ackno = s.ackno
           \/ /\ HasData(seg) /\ seg.seqno >= s.ackno
              /\ \E m : Answer(a, m) /\ a.wire = <<m>>
    <3>1. CASE HasData(seg)
      <4>1. a = ReceiveData(s, seg, written)
        BY <3>1
      <4>. HIDE DEF a
      <4>2. PICK m : Answer(a, m) /\ a.wire = Append(<<>>, m)
        BY <3>1, <4>1, DataAnswered
      <4>3. a.wire = <<m>>
        BY <4>2, OneAnswer, Zenon
      <4>4. seg.seqno >= s.ackno
        BY <1>2, <3>1 DEF Ignored, Segment, HostState
      <4>5. a \in HostState /\ SameQueue(s, a)
        BY <3>1, <4>1, DataAnswered
      <4>. QED BY <3>1, <4>2, <4>3, <4>4, <4>5
    <3>2. CASE ~HasData(seg)
      BY <3>2 DEF SameQueue
    <3>. QED BY <3>1, <3>2
  <2>. HIDE DEF a
  <2>3. AckDone(a, b, seg)
    BY <1>2, <2>2, AckHandled
  <2>. HIDE DEF b, t
  <2>4. \A x : Answer(a, x) => Answer(t, x)
    BY <2>1, <2>3 DEF Answer, AckDone
  <2>5. IsFinAck(a, seg) <=> IsFinAck(s, seg)
    BY <2>2 DEF IsFinAck, SameQueue
  <2>6. t.segments = s.segments \/ Popped(s, t, seg)
    BY <2>1, <2>2, <2>3, <2>5 DEF AckDone, Popped, SameQueue
  <2>7. ASSUME NEW i \in 1..Len(t.wire)
        PROVE  \/ s.segments # <<>> /\ t.wire[i] = Head(s.segments)
               \/ i = 1 /\ Answer(t, t.wire[i]) /\ AnswersTo(s, t, seg)
    <3> DEFINE f == Head(s.segments)
    <3>1. \/ t.wire = a.wire
          \/ s.segments # <<>> /\ t.wire = Append(a.wire, f)
      BY <2>1, <2>2, <2>3 DEF AckDone, SameQueue
    <3>. HIDE DEF f
    <3>2. CASE a.wire = <<>>
      <4>1. t.wire = <<>> \/ (s.segments # <<>> /\ t.wire = <<f>>)
        BY <3>1, <3>2, OneAnswer, Zenon
      <4>. QED BY <1>0, <2>7, <4>1 DEF f
    <3>3. CASE /\ HasData(seg) /\ seg.seqno >= s.ackno
               /\ \E m : Answer(a, m) /\ a.wire = <<m>>
      <4>1. PICK m : Answer(a, m) /\ a.wire = <<m>>
        BY <3>3
      <4>2. a.wire \in Seq(Segment) /\ Len(a.wire) = 1 /\ a.wire[1] = m
        <5>1. a.wire \in Seq(Segment)
          BY <2>2 DEF HostState
        <5>2. Len(a.wire) = 1 /\ a.wire[1] = m
          BY <4>1
        <5>. QED BY <5>1, <5>2
      <4>3. s.segments # <<>> => f \in Segment
        BY PopQuiet DEF f
      <4>4. ASSUME t.wire = a.wire
            PROVE  i = 1 /\ t.wire[i] = m
        <5>1. Len(t.wire) = 1 /\ t.wire[1] = m
          BY <4>2, <4>4
        <5>. QED BY <2>7, <5>1
      <4>5. ASSUME s.segments # <<>>, t.wire = Append(a.wire, f)
            PROVE  (i = 1 /\ t.wire[i] = m) \/ t.wire[i] = f
        <5>1. Len(t.wire) = 2 /\ t.wire[1] = m /\ t.wire[2] = f
          BY <4>2, <4>3, <4>5, AppendProperties
        <5>. QED BY <2>7, <4>5, <5>1
      <4>6. \/ i = 1 /\ t.wire[i] = m
            \/ s.segments # <<>> /\ t.wire[i] = f
        BY <3>1, <4>4, <4>5
      <4>. QED BY <2>4, <3>3, <4>1, <4>6 DEF AnswersTo, f
    <3>. QED BY <2>2, <3>2, <3>3
  <2>8. ReceiveDone(s, t, seg)
    BY <2>1, <2>2, <2>3, <2>5, <2>6, <2>7 DEF ReceiveDone, AckDone, SameQueue
  <2>. QED BY <2>8 DEF t
<1>3. CASE ~Ignored(s, seg) /\ seg.flags = {"FIN"} /\ ~HasData(seg)
  <2>1. t = ReceiveFin(s, seg)
    BY <1>3 DEF ctcp_receive, IsFinAck
  <2>. HIDE DEF t
  <2>2. FinDone(s, t, seg)
    BY <2>1, FinAnswered
  <2>3. ASSUME NEW i \in 1..Len(t.wire)
        PROVE  i = 1 /\ Answer(t, t.wire[i]) /\ AnswersTo(s, t, seg)
    <3>1. t.wire # <<>>
      BY <1>0, <2>3
    <3>2. PICK m : Answer(t, m) /\ t.wire = Append(<<>>, m)
      BY <2>2, <3>1 DEF FinDone
    <3>3. t.wire = <<m>>
      BY <3>2, OneAnswer, Zenon
    <3>4. AnswersTo(s, t, seg)
      BY <1>3, <2>2, <3>1 DEF FinDone, AnswersTo
    <3>. QED BY <2>3, <3>2, <3>3, <3>4
  <2>4. ReceiveDone(s, t, seg)
    BY <2>2, <2>3 DEF FinDone, ReceiveDone, SameQueue
  <2>. QED BY <2>4 DEF t
<1>. QED BY <1>1, <1>2, <1>3 DEF Plain, Queued

\* All that was handed over is in the queue, to be sent again.
SentFrom(q, t) == \A i \in 1..Len(t.wire) : \E j \in 1..Len(q) : t.wire[i] = q[j]

\* ctcp_read queues one segment of data, and sends it or not.
LEMMA ReadSends ==
    ASSUME ~PiggybackAck, NEW s \in HostState, s.wire = <<>>,
           NEW count \in Nat \ {0}, NEW throttled \in BOOLEAN
    PROVE  LET t == ctcp_read(s, count, throttled)
           IN  \E seg \in Segment :
                 /\ Queued(seg) /\ HasData(seg)
                 /\ t.segments = Append(s.segments, seg) /\ SentFrom(t.segments, t)
<1> DEFINE data == [i \in 1..count |-> s.inputted + i]
           n == s.inputted + count
           r == [s EXCEPT !.inputted = n]
           seg == DataSegment(r, data)
           q == Append(r.segments, seg)
           next == r.next_seqno + Len(seg.data)
           u == Enqueue(r, seg)
           v == conn_send(u, seg)
           t == ctcp_read(s, count, throttled)
<1>1. /\ s.inputted \in Nat /\ n \in Nat
      /\ data \in Seq(Nat) /\ Len(data) = count
  BY DEF HostState
<1>2. data # <<>>
  <2>1. Len(<<>>) = 0
    OBVIOUS
  <2>. HIDE DEF data
  <2>. QED BY <1>1, <2>1
<1>. HIDE DEF data, n
<1>3. r \in HostState /\ r.segments = s.segments /\ r.wire = s.wire
  BY <1>1 DEF HostState
<1>. HIDE DEF r
<1>4. seg \in Segment /\ Queued(seg) /\ HasData(seg)
  BY <1>1, <1>2, <1>3 DEF DataSegment, Segment, Flags, HostState, Queued, HasData
<1>. HIDE DEF seg
<1>5. /\ q \in Seq(Segment) /\ Len(q) = Len(r.segments) + 1
      /\ q[Len(r.segments) + 1] = seg /\ Len(r.segments) \in Nat
      /\ next \in Nat
  <2>1. r.segments \in Seq(Segment) /\ r.next_seqno \in Nat
    BY <1>3 DEF HostState
  <2>2. Len(seg.data) \in Nat
    BY <1>4 DEF Segment
  <2>. QED BY <1>4, <2>1, <2>2, AppendProperties
<1>6. u = [r EXCEPT !.segments = q, !.get_all_ack = FALSE, !.next_seqno = next]
  BY DEF Enqueue
<1>. HIDE DEF u, q, next
<1>7. u \in HostState /\ u.segments = q /\ u.wire = <<>>
  BY <1>3, <1>5, <1>6 DEF HostState
<1>8. v = [u EXCEPT !.wire = Append(@, seg)]
  BY <1>4, <1>7, SentAsIs
<1>9. v.segments = q /\ v.wire = <<seg>>
  <2>1. v.segments = u.segments /\ v.wire = Append(u.wire, seg)
    BY <1>7, <1>8 DEF HostState
  <2>. QED BY <1>7, <2>1, OneAnswer, Zenon
<1>10. t \in {u, v}
  BY DEF ctcp_read, bbr_send, ctcp_send_data, u, v, seg, r, n, data
<1>. HIDE DEF t, v
<1>11. t.segments = q /\ (t.wire = <<>> \/ t.wire = <<seg>>)
  BY <1>7, <1>9, <1>10
<1>12. \A i \in 1..Len(t.wire) : t.wire[i] = q[Len(r.segments) + 1]
  <2>1. Len(<<>>) = 0 /\ Len(<<seg>>) = 1 /\ <<seg>>[1] = seg
    OBVIOUS
  <2>. QED BY <1>5, <1>11, <2>1
<1>13. SentFrom(q, t)
  BY <1>5, <1>12 DEF SentFrom
<1>. QED BY <1>3, <1>4, <1>11, <1>13 DEF q, t

\* The FIN joins an empty queue, or nothing changes.
FinJoined(s, u) ==
    \/ u = s
    \/ /\ ~s.FIN_sent /\ s.read_finish /\ s.segments = <<>>
       /\ u.FIN_sent /\ ~u.get_all_ack
       /\ \E seg \in Segment : /\ Queued(seg) /\ ~HasData(seg)
                               /\ u.segments = <<seg>> /\ u.wire = <<seg>>

\* What the timer keeps of the input half of a host whose FIN is settled.
TimerDone(s, t, q) ==
    /\ t.FIN_sent = s.FIN_sent /\ t.next_seqno = s.next_seqno
    /\ t.read_finish = s.read_finish /\ t.ackno = s.ackno
    /\ t.wrote_eof = s.wrote_eof
    /\ t.status # "crashed" /\ SentFrom(q, t)
    /\ t.segments = q \/ (t.segments = <<>> /\ t.status # "open")

LEMMA SendFinSends ==
    ASSUME ~PiggybackAck, NEW s \in HostState, s.wire = <<>>,
           s.get_all_ack => s.segments = <<>>
    PROVE  LET u == SendFinIfDone(s)
           IN  /\ FinJoined(s, u) /\ u \in HostState
               /\ u.next_seqno = s.next_seqno /\ u.read_finish = s.read_finish
               /\ u.ackno = s.ackno /\ u.wrote_eof = s.wrote_eof
               /\ u.status = s.status
<1> DEFINE u == SendFinIfDone(s)
<1>1. CASE s.read_finish /\ s.get_all_ack /\ ~s.FIN_sent
  <2> DEFINE f == FinSegment(s)
             q == <<f>>
             e == Enqueue(s, f)
             w == conn_send(e, f)
  <2>1. f \in Segment /\ Queued(f) /\ ~HasData(f) /\ Len(f.data) = 0
    BY DEF FinSegment, Segment, Flags, HostState, Queued, HasData
  <2>2. u = [w EXCEPT !.FIN_sent = TRUE]
    BY <1>1 DEF SendFinIfDone, ctcp_send_fin
  <2>. HIDE DEF f, u
  <2>3. s.segments = <<>> /\ s.next_seqno \in Nat /\ s.next_seqno + 0 = s.next_seqno
    BY <1>1 DEF HostState
  <2>4. Append(s.segments, f) = q /\ q \in Seq(Segment)
    BY <2>1, <2>3, OneAnswer
  <2>. HIDE DEF q
  <2>5. e = [s EXCEPT !.segments = q, !.get_all_ack = FALSE,
                      !.next_seqno = s.next_seqno]
    BY <2>1, <2>3, <2>4 DEF Enqueue
  <2>. HIDE DEF e
  <2>6. /\ e \in HostState /\ e.segments = q /\ e.wire = <<>> /\ ~e.get_all_ack
        /\ e.next_seqno = s.next_seqno /\ e.read_finish = s.read_finish
        /\ e.ackno = s.ackno /\ e.wrote_eof = s.wrote_eof /\ e.status = s.status
    BY <2>3, <2>4, <2>5 DEF HostState
  <2>7. w = [e EXCEPT !.wire = q]
    <3>1. w = [e EXCEPT !.wire = Append(@, f)]
      BY <2>1, <2>6, SentAsIs
    <3>2. Append(e.wire, f) = q
      BY <2>6, OneAnswer DEF q
    <3>. QED BY <3>1, <3>2
  <2>. HIDE DEF w
  <2>8. u = [e EXCEPT !.wire = q, !.FIN_sent = TRUE]
    BY <2>2, <2>7
  <2>9. /\ u \in HostState /\ u.segments = q /\ u.wire = q /\ ~u.get_all_ack
        /\ u.next_seqno = s.next_seqno /\ u.read_finish = s.read_finish
        /\ u.ackno = s.ackno /\ u.wrote_eof = s.wrote_eof /\ u.status = s.status
        /\ u.FIN_sent
    <3>1. e \in HostState /\ q \in Seq(Segment)
      BY <2>4, <2>6
    <3>2. /\ u \in HostState /\ u.wire = q /\ u.FIN_sent
          /\ u.segments = e.segments /\ u.get_all_ack = e.get_all_ack
          /\ u.next_seqno = e.next_seqno /\ u.read_finish = e.read_finish
          /\ u.ackno = e.ackno /\ u.wrote_eof = e.wrote_eof /\ u.status = e.status
      BY <2>8, <3>1 DEF HostState
    <3>. QED BY <2>6, <3>2
  <2>10. FinJoined(s, u)
    BY <1>1, <2>1, <2>3, <2>9 DEF FinJoined, q
  <2>. QED BY <2>9, <2>10 DEF u
<1>2. CASE ~(s.read_finish /\ s.get_all_ack /\ ~s.FIN_sent)
  <2>1. u = s
    BY <1>2 DEF SendFinIfDone
  <2>. QED BY <2>1 DEF FinJoined
<1>. QED BY <1>1, <1>2

\* The timer sends the FIN, and the front of the queue.
LEMMA TimerSends ==
    ASSUME ~PiggybackAck, NEW s \in HostState, s.wire = <<>>, s.status = "open",
           s.get_all_ack => s.segments = <<>>,
           NEW expired \in BOOLEAN, NEW stale_log \in {"ignored"}
    PROVE  \E u : FinJoined(s, u) /\ u.next_seqno = s.next_seqno
                  /\ TimerDone(u, ctcp_timer(s, expired, stale_log), u.segments)
                  /\ u.read_finish = s.read_finish /\ u.ackno = s.ackno
                  /\ u.wrote_eof = s.wrote_eof
<1> DEFINE u == SendFinIfDone(s)
           t == ctcp_timer(s, expired, stale_log)
           q == u.segments
<1>1. /\ FinJoined(s, u) /\ u \in HostState
      /\ u.next_seqno = s.next_seqno /\ u.read_finish = s.read_finish
      /\ u.ackno = s.ackno /\ u.wrote_eof = s.wrote_eof
      /\ u.status = "open" /\ u.retrans_count \in Nat /\ RetransmitLimit \in Nat
  BY SendFinSends, CtcpConstants DEF HostState
<1>0. Len(<<>>) = 0
  OBVIOUS
<1>2. /\ Len(u.wire) \in Nat /\ SentFrom(q, u)
      /\ u.segments # <<>> => Head(u.segments) = q[1] /\ 1 \in 1..Len(q)
  <2>1. q \in Seq(Segment) /\ Len(u.wire) \in Nat
    BY <1>1 DEF HostState
  <2>2. q # <<>> => Head(q) = q[1] /\ 1 \in 1..Len(q)
    BY <2>1, EmptySeq
  <2>3. CASE u = s
    BY <1>0, <2>1, <2>2, <2>3 DEF SentFrom
  <2>4. CASE u.segments = u.wire
    BY <2>1, <2>2, <2>4 DEF SentFrom
  <2>. QED BY <1>1, <2>3, <2>4 DEF FinJoined
<1>. HIDE DEF u
<1>3. TimerDone(u, t, q)
  <2>1. CASE TeardownReady(u)
    <3>1. t = [u EXCEPT !.status = "finished", !.segments = <<>>]
      BY <2>1 DEF ctcp_timer, ctcp_destroy, u
    <3>. HIDE DEF t
    <3>2. t.status = "finished" /\ t.segments = <<>> /\ t.wire = u.wire
      BY <1>1, <3>1 DEF HostState
    <3>. QED BY <1>1, <1>2, <3>1, <3>2 DEF HostState, TimerDone, SentFrom
  <2>2. CASE u.segments = <<>> /\ ~TeardownReady(u)
    <3>1. t = [u EXCEPT !.get_all_ack = TRUE]
      BY <2>2 DEF ctcp_timer, u
    <3>. HIDE DEF t
    <3>. QED BY <1>1, <1>2, <3>1 DEF HostState, TimerDone, SentFrom
  <2>3. CASE u.segments # <<>> /\ ~TeardownReady(u)
    <3>1. CASE ~expired
      <4>1. t = u
        BY <2>3, <3>1 DEF ctcp_timer, u
      <4>. HIDE DEF t
      <4>. QED BY <1>1, <1>2, <4>1 DEF TimerDone
    <3>2. CASE expired /\ u.retrans_count <= RetransmitLimit
      <4> DEFINE f == Head(u.segments)
                 w == Append(u.wire, f)
      <4>1. f \in Segment
        BY <1>1, <2>3, PopQuiet
      <4>2. t = [conn_send(u, f) EXCEPT !.retrans_count = @ + 1, !.status = @]
        BY <1>1, <2>3, <3>2 DEF ctcp_timer, Retransmit, u
      <4>. HIDE DEF t, f
      <4>3. conn_send(u, f) = [u EXCEPT !.wire = w]
        BY <1>1, <4>1, SentAsIs
      <4>4. u.wire \in Seq(Segment)
        BY <1>1 DEF HostState
      <4>5. /\ Len(w) = Len(u.wire) + 1 /\ w[Len(u.wire) + 1] = f
            /\ \A i \in 1..Len(u.wire) : w[i] = u.wire[i]
        BY <4>1, <4>4, AppendProperties
      <4>. HIDE DEF w
      <4>6. /\ t.wire = w /\ t.segments = u.segments /\ t.status = u.status
            /\ t.FIN_sent = u.FIN_sent /\ t.next_seqno = u.next_seqno
            /\ t.read_finish = u.read_finish /\ t.ackno = u.ackno
            /\ t.wrote_eof = u.wrote_eof
        BY <1>1, <4>2, <4>3 DEF HostState
      <4>7. SentFrom(q, t)
        BY <1>2, <2>3, <4>5, <4>6 DEF SentFrom, f
      <4>. QED BY <1>1, <4>6, <4>7 DEF TimerDone
    <3>3. CASE expired /\ u.retrans_count > RetransmitLimit
      <4>1. t = [u EXCEPT !.status = "gave_up", !.segments = <<>>]
        BY <1>1, <2>3, <3>3 DEF ctcp_timer, ctcp_destroy, u
      <4>. HIDE DEF t
      <4>2. t.status = "gave_up" /\ t.segments = <<>> /\ t.wire = u.wire
        BY <1>1, <4>1 DEF HostState
      <4>. QED BY <1>1, <1>2, <4>1, <4>2 DEF HostState, TimerDone, SentFrom
    <3>. QED BY <1>1, <3>1, <3>2, <3>3
  <2>. QED BY <2>1, <2>2, <2>3
<1>. QED BY <1>1, <1>3
=============================================================================
