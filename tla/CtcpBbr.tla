------------------------------ MODULE CtcpBbr ------------------------------
(***************************************************************************)
(* A one-way cTCP transfer with its clock: the handlers of Ctcp, where BBR *)
(* decides what CtcpNet and CtcpLink leave to chance, when input is read   *)
(* and whether a segment is sent or only queued.                           *)
(*                                                                         *)
(* The sender's input does not end within the run and the receiver has     *)
(* nothing to say. A segment is on its way for MinDelay to MaxDelay        *)
(* milliseconds, in order, and at most MaxDrops are lost.                  *)
(***************************************************************************)
EXTENDS Ctcp, Bbr

CONSTANTS
    InputLen,            \* bytes of the sender's input
    Window,              \* both windows
    HeaderSize,          \* sizeof(ctcp_segment_t)
    RtTimeout,           \* rt_timeout
    MinDelay, MaxDelay,  \* of the link, each way
    MaxDrops,
    MaxTime              \* how long the run is

ASSUME LinkConstants ==
    /\ InputLen \in Nat /\ Window \in Nat /\ HeaderSize \in Nat
    /\ RtTimeout \in Nat /\ MinDelay \in Nat /\ MaxDelay \in Nat
    /\ MinDelay <= MaxDelay /\ MaxDrops \in Nat /\ MaxTime \in Nat
    /\ MaxTime <= NoRtt      \* 2^31 ms are 24 days
    /\ LongMin < -InputLen

VARIABLES
    clock,        \* current_time()
    sender, receiver,
    bbr,          \* the sender's struct ctcp_bbr
    marks,        \* delivered and delivered_time of each segment of its queue
    timer_start,  \* state->current_time
    data, acks,   \* the link: [seg, at], with the time it was sent
    drops,
    rtts,         \* every sample, oldest first
    resent,       \* bytes that ctcp_timer sent again, headers included
    held          \* bytes queued without being sent

vars == <<clock, sender, receiver, bbr, marks, timer_start, data, acks, drops,
          rtts, resent, held>>

\* ctcp_init, at time 1: nextSendTime, which is 0, is past.
Init ==
    /\ clock = 1
    /\ sender = ctcp_init(Window, Window) /\ receiver = ctcp_init(Window, Window)
    /\ bbr = init_bbr(1)
    /\ marks = <<>> /\ timer_start = 1
    /\ data = <<>> /\ acks = <<>> /\ drops = 0
    /\ rtts = <<>> /\ resent = 0 /\ held = 0

\* What a handler put on the wire.
Sent(s) == [i \in DOMAIN s.wire |-> [seg |-> s.wire[i], at |-> clock]]
Idle(s) == [s EXCEPT !.wire = <<>>]

Arrives(queue) == queue # <<>> /\ clock >= Head(queue).at + MinDelay

\* ctcp_read and bbr_send: held back over the window, else sent and paced.
Read ==
    /\ sender.status = "open" /\ CanRead(sender)
    /\ clock > bbr.nextSendTime
    /\ \E count \in 1..MaxSegDataSize :
          LET s == ctcp_read(sender, count, OverCwnd(bbr))
              marked == [delivered |-> IF OverCwnd(bbr) THEN 0 ELSE bbr.delivered,
                         delivered_time |-> bbr.delivered_time]
          IN  /\ sender.inputted + count <= InputLen
              /\ sender' = Idle(s)
              /\ data' = data \o Sent(s)
              /\ marks' = Append(marks, marked)
              /\ IF OverCwnd(bbr)
                 THEN held' = held + count /\ UNCHANGED bbr
                 ELSE /\ bbr' = [bbr EXCEPT !.inflight = @ + count,
                                            !.nextSendTime = NextSendTime(bbr, count, clock)]
                      /\ UNCHANGED held
    /\ UNCHANGED <<clock, receiver, timer_start, acks, drops, rtts, resent>>

\* The receiver's ctcp_receive; its standard output takes all it is given.
ReceiveSegment ==
    /\ Arrives(data)
    /\ LET seg == Head(data).seg
           r == ctcp_receive(receiver, seg, Len(seg.data)) IN
          /\ receiver' = Idle(r)
          /\ acks' = acks \o Sent(r)
    /\ data' = Tail(data)
    /\ UNCHANGED <<clock, sender, bbr, marks, timer_start, drops, rtts, resent, held>>

\* Mutant: a larger acknowledgement does not take its data off inflight.
Acknowledged_ExactOnly(b, front, ackno) ==
    IF End(front) = ackno
    THEN bbr_onAck([b EXCEPT !.inflight = @ - Len(front.data)], Head(marks),
                   Len(front.data), clock)
    ELSE b

\* What ctcp_receive does to BBR when `ackno' comes for the front of the queue.
Acknowledged(b, front, ackno) ==
    CASE End(front) = ackno ->
           bbr_onAck([b EXCEPT !.inflight = @ - Len(front.data)], Head(marks),
                     Len(front.data), clock)
      [] End(front) < ackno -> [b EXCEPT !.inflight = @ - Len(front.data)]
      [] End(front) > ackno -> b

\* The sender's ctcp_receive. A smaller acknowledgement sends the front of the
\* queue again, of which inflight is not told.
ReceiveAcknowledgement ==
    /\ Arrives(acks)
    /\ LET seg == Head(acks).seg
           s == ctcp_receive(sender, seg, 0)
           front == Head(sender.segments) IN
          /\ sender' = Idle(s)
          /\ data' = data \o Sent(s)
          /\ marks' = IF Len(s.segments) < Len(sender.segments) THEN Tail(marks) ELSE marks
          /\ IF sender.segments = <<>>
             THEN UNCHANGED <<bbr, rtts>>
             ELSE /\ bbr' = Acknowledged(bbr, front, seg.ackno)
                  /\ rtts' = IF End(front) = seg.ackno
                             THEN Append(rtts, clock - Head(marks).delivered_time) ELSE rtts
    /\ acks' = Tail(acks)
    /\ UNCHANGED <<clock, receiver, timer_start, drops, resent, held>>

\* sgm->delivered and sgm->delivered_time are set again.
Remark(m) == [m EXCEPT ![1] = [delivered |-> bbr.delivered,
                               delivered_time |-> bbr.delivered_time]]

\* ctcp_timer with a segment outstanding: the retransmission adds header and
\* data to inflight.
Timer ==
    /\ sender.status = "open" /\ sender.segments # <<>>
    /\ clock - timer_start > RtTimeout
    /\ LET s == ctcp_timer(sender, TRUE, "ignored")
           sgm_len == HeaderSize + Len(Head(sender.segments).data) IN
          /\ sender' = Idle(s)
          /\ data' = data \o Sent(s)
          /\ IF s.status = "open"
             THEN /\ marks' = Remark(marks)
                  /\ timer_start' = clock
                  /\ resent' = resent + sgm_len
                  /\ bbr' = [bbr EXCEPT !.inflight = @ + sgm_len]
             ELSE marks' = <<>> /\ UNCHANGED <<timer_start, resent, bbr>>
    /\ UNCHANGED <<clock, receiver, acks, drops, rtts, held>>

\* ctcp_timer with everything acknowledged.
TimerIdle ==
    /\ sender.status = "open" /\ sender.segments = <<>>
    /\ ~sender.get_all_ack
    /\ sender' = ctcp_timer(sender, FALSE, "ignored")
    /\ UNCHANGED <<clock, receiver, bbr, marks, timer_start, data, acks, drops,
                   rtts, resent, held>>

Lose ==
    /\ drops < MaxDrops /\ drops' = drops + 1
    /\ \/ data # <<>> /\ data' = Tail(data) /\ UNCHANGED acks
       \/ acks # <<>> /\ acks' = Tail(acks) /\ UNCHANGED data
    /\ UNCHANGED <<clock, sender, receiver, bbr, marks, timer_start, rtts,
                   resent, held>>

\* Time passes, but nothing stays on the link for longer than MaxDelay.
Tick ==
    /\ clock < MaxTime
    /\ \A queue \in {data, acks} : queue # <<>> => clock < Head(queue).at + MaxDelay
    /\ clock' = clock + 1
    /\ UNCHANGED <<sender, receiver, bbr, marks, timer_start, data, acks, drops,
                   rtts, resent, held>>

Next ==
    \/ Read \/ ReceiveSegment \/ ReceiveAcknowledgement
    \/ Timer \/ TimerIdle \/ Lose \/ Tick

Spec == Init /\ [][Next]_vars

-----------------------------------------------------------------------------
\* The bytes of a queue's segments, added up segment by segment.
Bytes(queue) ==
    LET upto[n \in 0..Len(queue)] ==
          IF n = 0 THEN 0 ELSE upto[n - 1] + Len(queue[n].data)
    IN  upto[Len(queue)]

Outstanding == Bytes(sender.segments)

\* What inflight is: the data that waits for an acknowledgement, and every
\* byte ctcp_timer ever sent again (no acknowledgement takes those off, so
\* inflight only drifts upwards, ctcp.c:307), less every byte bbr_send held
\* back (their acknowledgements take off what was never added). It holds
\* whichever acknowledgements are exact, larger, smaller or lost.
InflightIsAccounted ==
    sender.status = "open" => bbr.inflight = Outstanding + resent - held

\* min_rtt_us is the smallest of the last FilterSize samples.
MinRttIsOfTheWindow ==
    LET first == IF Len(rtts) > FilterSize THEN Len(rtts) - FilterSize + 1 ELSE 1
    IN  rtts # <<>> => bbr.min_rtt_us = Min({rtts[i] : i \in first..Len(rtts)})

\* However the samples come, the bandwidth estimate never falls: only a larger
\* one enters the filter, so the filter never forgets one (ctcp_bbr.c:109).
BandwidthNeverFalls == [][~Less(bbr'.max_btlbw, bbr.max_btlbw)]_vars

\* Once a sample took no time the window is closed for good: whatever is read
\* is held back, and only retransmissions carry data.
InfiniteBandwidthHoldsAll ==
    [][(Infinite(bbr.max_btlbw) /\ bbr.cwnd_gain > 0 /\ sender'.inputted > sender.inputted)
          => held' > held]_vars
=============================================================================
