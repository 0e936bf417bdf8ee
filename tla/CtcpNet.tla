------------------------------ MODULE CtcpNet ------------------------------
(***************************************************************************)
(* A cTCP client and server over the network conn_send simulates, which    *)
(* drops, duplicates and delays segments, and corrupts them when           *)
(* CanCorrupt says so. net[h] holds every segment ever sent to h: each may *)
(* be received in any order, any number of times or never, which is all    *)
(* that the options --drop, --duplicate and --delay can do.                *)
(*                                                                         *)
(* Every iteration of the library's do_loop runs some of the handlers, so  *)
(* any sequence of handlers of the two processes is a behaviour.           *)
(***************************************************************************)
EXTENDS Ctcp

CONSTANTS
    Client, Server,
    InputLen,    \* how many bytes each host's standard input holds
    RecvWindow,  \* each host's receive window (-w)
    SlowStdout,  \* the hosts whose standard output may take a partial write
    CanCorrupt,  \* --corrupt
    StaleLog     \* what writing to the closed log file may do

Hosts == {Client, Server}
Peer(h) == IF h = Client THEN Server ELSE Client

ASSUME NetConstants ==
    /\ Client # Server
    /\ InputLen \in [Hosts -> Nat]
    /\ RecvWindow \in [Hosts -> Nat]
    /\ SlowStdout \subseteq Hosts
    /\ CanCorrupt \in BOOLEAN
    /\ StaleLog \subseteq {"ignored", "crash"} /\ StaleLog # {}

VARIABLES
    host, \* host[h]: the state of h's end of the connection
    net   \* net[h]: the segments sent to h

vars == <<host, net>>

TypeOK ==
    /\ host \in [Hosts -> HostState]
    /\ net \in [Hosts -> SUBSET Segment]

Open(h) == host[h].status = "open"

\* The handshake is over: each side knows the other's receive window.
Init ==
    /\ host = [h \in Hosts |-> ctcp_init(RecvWindow[h], RecvWindow[Peer(h)])]
    /\ net = [h \in Hosts |-> {}]

\* The handler of h ended in state `s': what it sent goes out.
Handled(h, s) ==
    /\ host' = [host EXCEPT ![h] = [s EXCEPT !.wire = <<>>]]
    /\ net' = [net EXCEPT ![Peer(h)] = @ \cup {s.wire[i] : i \in DOMAIN s.wire}]

\* The counts a write of n bytes to h's standard output may return.
Written(h, n) == IF h \in SlowStdout THEN 0..n ELSE {n}

Read(h) ==
    /\ Open(h)
    /\ CanRead(host[h])
    /\ \E count \in 1..MaxSegDataSize, throttled \in BOOLEAN :
         /\ host[h].inputted + count <= InputLen[h]
         /\ Handled(h, ctcp_read(host[h], count, throttled))

ReadEOF(h) ==
    /\ Open(h)
    /\ CanRead(host[h])
    /\ host[h].inputted = InputLen[h]
    /\ Handled(h, ctcp_read_eof(host[h]))

Receive(h) ==
    /\ Open(h)
    /\ \E seg \in net[h] : \E written \in Written(h, Len(seg.data)) :
         Handled(h, ctcp_receive(host[h], seg, written))

Timer(h, expired) ==
    /\ Open(h)
    /\ \E stale_log \in StaleLog :
         Handled(h, ctcp_timer(host[h], expired, stale_log))

Drain(h) ==
    /\ Open(h)
    /\ \E drained \in 1..host[h].queued :
         Handled(h, conn_drain(host[h], drained))

\* A bit of the payload is flipped on the way.
Corrupt(h) ==
    /\ CanCorrupt
    /\ \E seg \in net[h] : \E i \in DOMAIN seg.data :
         net' = [net EXCEPT ![h] = @ \cup {[seg EXCEPT !.data[i] = 0]}]
    /\ UNCHANGED host

Next ==
    \E h \in Hosts :
        \/ Read(h) \/ ReadEOF(h) \/ Receive(h) \/ Drain(h) \/ Corrupt(h)
        \/ \E expired \in BOOLEAN : Timer(h, expired)

Spec == Init /\ [][Next]_vars

-----------------------------------------------------------------------------
\* Safety

\* What h has sent to its peer, or holds to send again.
SentBy(h) ==
    net[Peer(h)] \cup {host[h].segments[i] : i \in DOMAIN host[h].segments}

\* The sequence number the peer of h must reach to have all of h's stream.
StreamEnd(h) == host[h].next_seqno + (IF host[h].FIN_sent THEN 1 ELSE 0)

\* The retransmission queue holds, in order and without a gap, exactly the
\* bytes between seqno and next_seqno (ll_add in the senders, ll_remove in
\* ctcp_receive), so that popping its front moves seqno to the next front.
QueueTilesWindow ==
    \A h \in Hosts : Open(h) =>
        LET q == host[h].segments
        IN  /\ \A i \in 1..(Len(q) - 1) : End(q[i]) = q[i + 1].seqno
            /\ IF q = <<>> THEN host[h].seqno = host[h].next_seqno
               ELSE /\ q[1].seqno = host[h].seqno
                    /\ End(q[Len(q)]) = host[h].next_seqno

\* Nothing leaves the retransmission queue as acknowledged (ctcp_receive's
\* exact and larger ACK) before the peer accepted it: a stale, duplicated or
\* reordered ACK never makes a sender forget bytes it must still resend.
ReleasedWasAccepted ==
    \A h \in Hosts : host[h].seqno <= host[Peer(h)].ackno

\* A receiver never acknowledges, in its state or in an ACK still travelling,
\* a byte (or a FIN) its peer has not sent.
AckedWasSent ==
    \A h \in Hosts :
        /\ host[Peer(h)].ackno <= StreamEnd(h)
        /\ \A seg \in SentBy(Peer(h)) : seg.ackno <= host[Peer(h)].ackno

\* A FIN goes out only after the input ended and every data byte was released
\* (ctcp_timer's get_all_ack): it is alone in the queue and ends the stream.
FinIsLast ==
    \A h \in Hosts :
        /\ \A seg \in SentBy(h) :
             "FIN" \in seg.flags => /\ host[h].FIN_sent /\ host[h].read_finish
                                    /\ seg.seqno = host[h].next_seqno
        /\ host[h].FIN_sent =>
             /\ host[h].seqno = host[h].next_seqno
             /\ host[h].inputted = InputLen[h]

\* The output queue never holds more than MAX_BUF_SPACE bytes: what ctcp_receive
\* acknowledges was asked of conn_bufspace before it was queued.
BufferNeverOverrun == \A h \in Hosts : host[h].queued <= MaxBufSpace

\* The bytes a sender has outstanding may overrun the largest window it may be
\* told of, but by less than a segment: ctcp_read looks at the window before it
\* reads, not after (ctcp.c:101), and a data segment carries its sender's
\* send_window for its own. lab4/assignment.md:128 allows no overrun: "the sum
\* of the data size of these segments is less than or equal to" the window.
WindowOverrunBounded ==
    \A h \in Hosts : \E g \in Hosts :
        host[h].next_seqno - host[h].seqno < RecvWindow[g] + MaxSegDataSize

\* Every byte acknowledged was handed to the output, and nothing else was.
AckedIsOutput ==
    \A h \in Hosts :
        Len(host[h].taken) + (IF host[h].all_recv_output THEN 1 ELSE 0)
            = host[h].ackno - 1

\* Whatever write() takes, whatever is corrupted, and where a false end of file
\* cuts it short: what a host has output are the first bytes of its peer's
\* input, each in its place, as it was read or corrupted. None is repeated or
\* left out, though some may be acknowledged and never output.
OutputIsInPlace ==
    \A h \in Hosts :
        /\ Len(host[h].taken) <= host[Peer(h)].inputted
        /\ \A i \in 1..Len(host[h].taken) : host[h].taken[i] \in {0, i}

\* The connection is a pair of byte streams (CtcpStream): reordered, repeated
\* and lost segments never show in the output, and the end of file follows the
\* whole of the peer's input.
Stream == INSTANCE CtcpStream WITH
    sent     <- [h \in Hosts |-> host[h].inputted],
    closed   <- [h \in Hosts |-> host[h].read_finish],
    received <- [h \in Hosts |-> host[h].taken],
    ended    <- [h \in Hosts |-> host[h].wrote_eof]

ImplementsStream == Stream!Spec

\* The data of a finished teardown is whole in both directions (ctcp_timer's
\* test at ctcp.c:278): the side that finished has output all of its peer's
\* input, and its peer accepted all of its own. Of its FIN this says nothing.
FinishedIsComplete ==
    \A h \in Hosts : host[h].status = "finished" =>
        /\ Len(host[h].taken) = InputLen[Peer(h)]
        /\ host[Peer(h)].ackno >= 1 + InputLen[h]

\* ctcp.h:146: ctcp_destroy waits until "All sent segments (including the FIN)
\* have been acknowledged", so the peer of a side that finished has its FIN.
\* (False: an ACK of the last byte that comes after the FIN was sent equals the
\* FIN's seqno plus its length, 0, and ctcp_receive takes the FIN off the queue.)
FinishedIsAcknowledged ==
    \A h \in Hosts : host[h].status = "finished" =>
        host[Peer(h)].ackno = StreamEnd(h)
=============================================================================
