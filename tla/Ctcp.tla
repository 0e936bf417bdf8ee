-------------------------------- MODULE Ctcp --------------------------------
(***************************************************************************)
(* One end of a cTCP connection: the handlers of lab4/ctcp/ctcp.c and the  *)
(* part of the library (ctcp_sys_internal.c) that a handler changes.       *)
(*                                                                         *)
(* A handler is an operator from the host's record to its next record, so  *)
(* that handlers compose as the C functions call each other; conn_send     *)
(* appends to the field wire, which the module that composes two hosts     *)
(* takes into its network after each handler.                              *)
(*                                                                         *)
(* A byte of input is its position in the sender's input (1, 2, ...), so a *)
(* payload is a sequence of positions and 0 stands for a corrupted byte.   *)
(* What is chosen outside the handlers is a parameter of theirs: how much  *)
(* write() took, whether BBR holds a segment back, whether the timer       *)
(* expired, and what a fprintf to the closed log file did.                 *)
(***************************************************************************)
EXTENDS Integers, Sequences

CONSTANTS
    MaxSegDataSize,  \* MAX_SEG_DATA_SIZE
    MaxBufSpace,     \* MAX_BUF_SPACE
    RetransmitLimit, \* RETRANSMIT_LIMIT
    PiggybackAck     \* the library adds TH_ACK to every segment (not a Unix
                     \* socket, no program)

ASSUME CtcpConstants ==
    /\ MaxSegDataSize \in Nat \ {0}
    /\ MaxBufSpace \in Nat
    /\ RetransmitLimit \in Nat
    /\ PiggybackAck \in BOOLEAN

Flags == {"ACK", "FIN"}

Segment == [seqno : Nat, ackno : Nat, flags : SUBSET Flags, window : Nat,
            data : Seq(Nat)]

\* The sequence number after a segment's data: the ackno that answers it.
End(seg) == seg.seqno + Len(seg.data)

Statuses == {"open", "finished", "gave_up", "crashed"}

HostState ==
    [status : Statuses,
     \* struct ctcp_state
     segments : Seq(Segment), seqno : Nat, next_seqno : Nat, ackno : Nat,
     recv_window : Nat, send_window : Nat, read_finish : BOOLEAN,
     FIN_received : BOOLEAN, FIN_sent : BOOLEAN, get_all_ack : BOOLEAN,
     all_recv_output : BOOLEAN, retrans_count : Nat,
     \* conn_t: bytes read from the input, bytes conn_output accepted and how
     \* many of these are still in out_queue, the recorded EOF
     inputted : Nat, taken : Seq(Nat), queued : Nat, wrote_eof : BOOLEAN,
     \* segments handed to conn_send by the running handler
     wire : Seq(Segment)]

ctcp_init(recv_window, send_window) ==
    [status |-> "open", segments |-> <<>>, seqno |-> 1, next_seqno |-> 1,
     ackno |-> 1, recv_window |-> recv_window, send_window |-> send_window,
     read_finish |-> FALSE, FIN_received |-> FALSE, FIN_sent |-> FALSE,
     get_all_ack |-> FALSE, all_recv_output |-> FALSE, retrans_count |-> 0,
     inputted |-> 0, taken |-> <<>>, queued |-> 0, wrote_eof |-> FALSE,
     wire |-> <<>>]

-----------------------------------------------------------------------------
\* The library below the handlers

\* Mutant: the bytes still queued are not counted.
conn_bufspace_Whole(s) == MaxBufSpace

conn_bufspace(s) == MaxBufSpace - s.queued

convert_to_datagram(seg) ==
    [seg EXCEPT !.flags = @ \cup (IF PiggybackAck THEN {"ACK"} ELSE {})]

conn_send(s, seg) == [s EXCEPT !.wire = Append(@, convert_to_datagram(seg))]

\* write() is tried only on an empty out_queue and takes `written' bytes; the
\* rest is queued. No data records EOF, and nothing is taken after EOF.
conn_output(s, data, written) ==
    CASE s.wrote_eof -> s
      [] ~s.wrote_eof /\ data = <<>> -> [s EXCEPT !.wrote_eof = TRUE]
      [] ~s.wrote_eof /\ data # <<>> /\ conn_bufspace(s) = 0 -> s
      [] OTHER ->
           [s EXCEPT !.taken = @ \o data,
                     !.queued = @ + Len(data) - (IF @ = 0 THEN written ELSE 0)]

\* state->output is NULL between handlers: ctcp_receive hands it over only
\* when it fits, so the data is passed along instead of being a field.
ctcp_output(s, data, written) ==
    IF conn_bufspace(s) >= Len(data) THEN conn_output(s, data, written) ELSE s

\* Mutant: a drained chunk counts as a whole segment.
conn_drain_WholeChunk(s, drained) ==
    ctcp_output([s EXCEPT !.queued = @ - drained - MaxSegDataSize], <<>>, 0)

\* The queue is drained by at least a byte, and then the handler's
\* ctcp_output is called, with nothing to output.
conn_drain(s, drained) ==
    ctcp_output([s EXCEPT !.queued = @ - drained], <<>>, 0)

-----------------------------------------------------------------------------
\* Sending

ctcp_send_ack(s) ==
    conn_send(s, [seqno |-> s.next_seqno, ackno |-> s.ackno, flags |-> {"ACK"},
                  window |-> s.recv_window, data |-> <<>>])

Enqueue(s, seg) ==
    [s EXCEPT !.segments = Append(@, seg), !.get_all_ack = FALSE,
              !.next_seqno = @ + Len(seg.data)]

DataSegment(s, data) ==
    [seqno |-> s.next_seqno, ackno |-> s.ackno, flags |-> {"ACK"},
     window |-> s.send_window, data |-> data]

FinSegment(s) ==
    [seqno |-> s.next_seqno, ackno |-> s.ackno, flags |-> {"FIN"},
     window |-> s.recv_window, data |-> <<>>]

ctcp_send_data(s, data) ==
    conn_send(Enqueue(s, DataSegment(s, data)), DataSegment(s, data))

ctcp_send_fin(s) ==
    conn_send(Enqueue(s, FinSegment(s)), FinSegment(s))

\* Over its congestion window BBR leaves the segment in the retransmission
\* queue without sending it.
bbr_send(s, data, throttled) ==
    IF throttled THEN Enqueue(s, DataSegment(s, data))
                 ELSE ctcp_send_data(s, data)

\* Mutant: the send window is not looked at.
CanRead_NoWindow(s) == ~s.read_finish

CanRead(s) ==
    /\ ~s.read_finish
    /\ s.next_seqno < s.seqno + s.send_window

\* conn_input returned `count' bytes.
ctcp_read(s, count, throttled) ==
    bbr_send([s EXCEPT !.inputted = @ + count],
             [i \in 1..count |-> s.inputted + i], throttled)

\* conn_input returned -1.
ctcp_read_eof(s) == [s EXCEPT !.read_finish = TRUE]

-----------------------------------------------------------------------------
\* Receiving

HasData(seg) == seg.data # <<>>

\* A segment already accepted, or one past the window, ends the handler.
Ignored(s, seg) ==
    /\ HasData(seg)
    /\ \/ seg.seqno < s.ackno
       \/ seg.seqno > s.ackno + s.recv_window

\* Mutant: any data in the window is taken, in order or not.
ReceiveData_AnyOrder(s, seg, written) ==
    IF conn_bufspace(s) >= Len(seg.data)
    THEN ctcp_send_ack(
           ctcp_output([s EXCEPT !.ackno = @ + Len(seg.data)], seg.data, written))
    ELSE ctcp_send_ack(s)

\* Mutant: data that fills the room exactly is refused.
ReceiveData_OffByOne(s, seg, written) ==
    IF seg.seqno = s.ackno /\ conn_bufspace(s) > Len(seg.data)
    THEN ctcp_send_ack(
           ctcp_output([s EXCEPT !.ackno = @ + Len(seg.data)], seg.data, written))
    ELSE ctcp_send_ack(s)

\* The next data expected, if there is room for it, is output and
\* acknowledged; any other data in the window is answered by the old ackno.
ReceiveData(s, seg, written) ==
    IF seg.seqno = s.ackno /\ conn_bufspace(s) >= Len(seg.data)
    THEN ctcp_send_ack(
           ctcp_output([s EXCEPT !.ackno = @ + Len(seg.data)], seg.data, written))
    ELSE ctcp_send_ack(s)

PopFront(s) == [s EXCEPT !.segments = Tail(@), !.retrans_count = 0]

\* An ACK one past our seqno once the FIN is out. The front of the queue is
\* freed without looking whether there is one: a null dereference if not.
IsFinAck(s, seg) ==
    "ACK" \in seg.flags /\ s.FIN_sent /\ seg.ackno = s.seqno + 1

FinAcked(s) ==
    IF s.segments = <<>>
    THEN [s EXCEPT !.FIN_received = TRUE, !.status = "crashed"]
    ELSE PopFront([s EXCEPT !.FIN_received = TRUE])

ExactAck(s, seg) ==
    [PopFront(s) EXCEPT !.seqno = End(Head(s.segments)),
                        !.send_window = seg.window]

\* Mutant: seqno is left behind.
LargerAck_NoSeqno(s) == PopFront(s)

LargerAck(s) == [PopFront(s) EXCEPT !.seqno = End(Head(s.segments))]

SmallerAck(s) == conn_send(s, Head(s.segments))

\* Mutant: every ACK releases the front of the queue.
ReceiveAck_AnyAck(s, seg) ==
    CASE IsFinAck(s, seg)    -> FinAcked(s)
      [] s.segments = <<>> /\ ~IsFinAck(s, seg) -> s
      [] OTHER -> ExactAck(s, seg)

ReceiveAck(s, seg) ==
    CASE IsFinAck(s, seg)    -> FinAcked(s)
      [] s.segments = <<>> /\ ~IsFinAck(s, seg) -> s
      [] OTHER ->
           LET expected == End(Head(s.segments))
           IN  CASE expected = seg.ackno -> ExactAck(s, seg)
                 [] expected < seg.ackno -> LargerAck(s)
                 [] expected > seg.ackno -> SmallerAck(s)

\* Mutant: a FIN is accepted before the data it follows, and every time.
ReceiveFin_AnyOrder(s, seg) ==
    [conn_output(ctcp_send_ack([s EXCEPT !.FIN_received = TRUE, !.ackno = @ + 1]),
                 <<>>, 0)
       EXCEPT !.all_recv_output = TRUE]

\* Mutant: a FIN received again is acknowledged again.
ReceiveFin_ReAck(s, seg) ==
    IF seg.seqno = s.ackno
    THEN ReceiveFin_AnyOrder(s, seg)
    ELSE ctcp_send_ack([s EXCEPT !.FIN_received = TRUE])

\* Mutant: the FIN is not acknowledged.
ReceiveFin_NoAck(s, seg) ==
    IF seg.seqno = s.ackno
    THEN [conn_output([s EXCEPT !.FIN_received = TRUE, !.ackno = @ + 1], <<>>, 0)
            EXCEPT !.all_recv_output = TRUE]
    ELSE [s EXCEPT !.FIN_received = TRUE]

\* The peer's FIN; it counts as a byte when everything before it is here.
ReceiveFin(s, seg) ==
    LET r == [s EXCEPT !.FIN_received = TRUE]
    IN  IF seg.seqno = r.ackno
        THEN [conn_output(ctcp_send_ack([r EXCEPT !.ackno = @ + 1]), <<>>, 0)
                EXCEPT !.all_recv_output = TRUE]
        ELSE r

ctcp_receive(s, seg, written) ==
    IF Ignored(s, seg)
    THEN s
    ELSE LET a == IF HasData(seg) THEN ReceiveData(s, seg, written) ELSE s
             b == IF "ACK" \in seg.flags THEN ReceiveAck(a, seg) ELSE a
         IN  IF "FIN" \in seg.flags /\ ~IsFinAck(a, seg)
             THEN ReceiveFin(b, seg) ELSE b

-----------------------------------------------------------------------------
\* The timer

\* The retransmission queue and the connection's chunks are freed; `queued'
\* keeps how many accepted bytes the freed out_queue still held.
ctcp_destroy(s, why) == [s EXCEPT !.status = why, !.segments = <<>>]

\* Mutant: the connection is torn down before the peer's FIN is in order.
TeardownReady_AnyFin(s) ==
    s.FIN_received /\ s.FIN_sent /\ s.read_finish /\ s.get_all_ack

TeardownReady(s) ==
    /\ s.FIN_received /\ s.FIN_sent /\ s.read_finish
    /\ s.get_all_ack /\ s.all_recv_output

\* Mutant: the FIN is sent while data is outstanding.
SendFinIfDone_Early(s) ==
    IF s.read_finish /\ ~s.FIN_sent
    THEN [ctcp_send_fin(s) EXCEPT !.FIN_sent = TRUE]
    ELSE s

SendFinIfDone(s) ==
    IF s.read_finish /\ s.get_all_ack /\ ~s.FIN_sent
    THEN [ctcp_send_fin(s) EXCEPT !.FIN_sent = TRUE]
    ELSE s

\* The log file was closed when the FIN was sent: writing to it afterwards is
\* undefined, `stale_log' says what it did.
Retransmit(s, stale_log) ==
    [conn_send(s, Head(s.segments))
       EXCEPT !.retrans_count = @ + 1,
              !.status = IF s.FIN_sent /\ stale_log = "crash"
                         THEN "crashed" ELSE @]

ctcp_timer(s, expired, stale_log) ==
    LET t == SendFinIfDone(s)
    IN  CASE TeardownReady(t) -> ctcp_destroy(t, "finished")
          [] t.segments = <<>> /\ ~TeardownReady(t) ->
               [t EXCEPT !.get_all_ack = TRUE]
          [] OTHER ->
               CASE ~expired -> t
                 [] expired /\ t.retrans_count <= RetransmitLimit ->
                      Retransmit(t, stale_log)
                 [] expired /\ t.retrans_count > RetransmitLimit ->
                      ctcp_destroy(t, "gave_up")
=============================================================================
