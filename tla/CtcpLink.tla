------------------------------ MODULE CtcpLink ------------------------------
(***************************************************************************)
(* The hosts of CtcpNet over an orderly network: link[h] is the queue of   *)
(* segments on their way to h, received in the order they were sent, of    *)
(* which at most MaxDrops are lost. It is what conn_send does without      *)
(* --duplicate, --delay and --corrupt, and what the liveness of a transfer *)
(* can be asked of. net stays what it is in CtcpNet, all that was ever     *)
(* sent, so that a step of this module is a step of CtcpNet or none.       *)
(*                                                                         *)
(* A round trip takes less than the 200 ms of rt_timeout: between two      *)
(* retransmissions of a segment everything on its way arrives. The first   *)
(* one may come at any tick, since state->current_time is not set when a   *)
(* segment is first sent. The standard output takes all it is given.       *)
(***************************************************************************)
EXTENDS CtcpNet

CONSTANTS
    ClosesLast,  \* the hosts whose input ends only after the peer's did, like
                 \* a program that reads its input to the end first
    MaxDrops     \* how many segments the network loses

ASSUME LinkConstants ==
    /\ ClosesLast \subseteq Hosts
    /\ MaxDrops \in Nat

VARIABLES
    link,  \* link[h]: the segments on their way to h
    drops  \* how many segments were lost

linkVars == <<host, net, link, drops>>

LinkInit ==
    /\ Init
    /\ link = [h \in Hosts |-> <<>>]
    /\ drops = 0

\* The handler of h ended in state `s', with `rest' still on its way to h.
LinkHandled(h, s, rest) ==
    /\ Handled(h, s)
    /\ link' = [link EXCEPT ![h] = rest, ![Peer(h)] = @ \o s.wire]

LinkRead(h) ==
    /\ Open(h)
    /\ CanRead(host[h])
    /\ \E count \in 1..MaxSegDataSize, throttled \in BOOLEAN :
         /\ host[h].inputted + count <= InputLen[h]
         /\ LinkHandled(h, ctcp_read(host[h], count, throttled), link[h])
    /\ UNCHANGED drops

LinkReadEOF(h) ==
    /\ Open(h)
    /\ CanRead(host[h])
    /\ host[h].inputted = InputLen[h]
    /\ h \in ClosesLast => host[h].wrote_eof
    /\ LinkHandled(h, ctcp_read_eof(host[h]), link[h])
    /\ UNCHANGED drops

LinkReceive(h) ==
    /\ link[h] # <<>>
    /\ Open(h)
    /\ LET seg == Head(link[h])
       IN  LinkHandled(h, ctcp_receive(host[h], seg, Len(seg.data)), Tail(link[h]))
    /\ UNCHANGED drops

\* A segment for a connection that is gone is thrown away.
Discard(h) ==
    /\ link[h] # <<>>
    /\ ~Open(h)
    /\ link' = [link EXCEPT ![h] = Tail(@)]
    /\ UNCHANGED <<host, net, drops>>

Lose(h) ==
    /\ link[h] # <<>>
    /\ drops < MaxDrops
    /\ drops' = drops + 1
    /\ link' = [link EXCEPT ![h] = Tail(@)]
    /\ UNCHANGED <<host, net>>

LinkTimer(h) ==
    /\ Open(h)
    /\ \E expired \in BOOLEAN, stale_log \in StaleLog :
         /\ expired => \/ host[h].retrans_count = 0
                       \/ \A g \in Hosts : link[g] = <<>>
         /\ LinkHandled(h, ctcp_timer(host[h], expired, stale_log), link[h])
    /\ UNCHANGED drops

LinkNext == \E h \in Hosts :
    \/ LinkRead(h) \/ LinkReadEOF(h) \/ LinkReceive(h) \/ Discard(h)
    \/ Lose(h) \/ LinkTimer(h)

LinkSpec == LinkInit /\ [][LinkNext]_linkVars

\* do_loop polls its inputs and its socket for ever and calls ctcp_timer every
\* 40 ms; an input that is ready is read once pacing lets it.
FairSpec ==
    /\ LinkSpec
    /\ \A h \in Hosts :
         /\ WF_linkVars(LinkRead(h)) /\ WF_linkVars(LinkReadEOF(h))
         /\ WF_linkVars(LinkReceive(h) \/ Discard(h)) /\ WF_linkVars(LinkTimer(h))

-----------------------------------------------------------------------------
\* FinAcked dereferences the front of an empty queue (ctcp.c:180) when an ACK of
\* the FIN finds the FIN already taken off. The receiver acknowledges a FIN once,
\* so what crashes a host is another segment with the number of all its data or
\* of its FIN: data of a peer that still has some after the host sent its FIN, or
\* any segment if the library adds the ACK flag.
CrashNeedsRepeatedAck ==
    \A h \in Hosts : host[h].status = "crashed" =>
        \/ PiggybackAck
        \/ InputLen[Peer(h)] > 0 /\ h \notin ClosesLast
        \/ "crash" \in StaleLog

\* If nothing is ever lost both sides finish their teardown in the end.
LosslessFinishes ==
    [](drops = 0) => <>(\A h \in Hosts : host[h].status = "finished")

\* However much is lost, a byte that was read is output in the end unless its
\* reader gives up: no transfer hangs, and none ends well without its data.
ReadIsOutputOrGivenUp ==
    \A h \in Hosts : \A n \in 1..InputLen[h] :
        (host[h].inputted >= n) ~>
            \/ Len(host[Peer(h)].taken) >= n
            \/ host[h].status = "gave_up"

\* "Ensure reliable transport by having the recipient acknowledge segments":
\* losing fewer segments than there are retransmissions ends no connection.
\* (False: a segment received again is not acknowledged again.)
LossIsRecovered == \A h \in Hosts : host[h].status # "gave_up"
=============================================================================
