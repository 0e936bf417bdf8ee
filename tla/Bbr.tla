-------------------------------- MODULE Bbr --------------------------------
(***************************************************************************)
(* The congestion control of lab4/ctcp/ctcp_bbr.c: struct ctcp_bbr and the *)
(* functions that change it, as operators from the record to its next one. *)
(*                                                                         *)
(* A rate is a quotient of bytes by milliseconds, kept exact: a double's   *)
(* rounding is abstracted, its infinity (a division by 0 ms) is not. The   *)
(* gains are what C's integer division leaves of them. Casting an infinite *)
(* or undefined double to long gives LONG_MIN, as x86-64 compilers do.     *)
(***************************************************************************)
EXTENDS Integers, SequencesExt, FiniteSetsExt

CONSTANTS
    FilterSize,  \* FILTER_SIZE
    NoRtt,       \* 0x7fffffff, what RTpropFilter starts with
    LongMin      \* LONG_MIN: below minus any number of bytes there can be

ASSUME BbrConstants ==
    /\ FilterSize \in Nat \ {0, 1}
    /\ NoRtt \in Nat
    /\ LongMin \in Int /\ LongMin < 0

\* The rate [n, d] is n / d bytes per millisecond.
Zero == [n |-> 0, d |-> 1]
Infinite(r) == r.d = 0
Less(r, s) == ~Infinite(r) /\ (Infinite(s) \/ r.n * s.d < s.n * r.d)

ProbeBW_pacing == <<5 \div 4, 3 \div 4, 1, 1, 1, 1, 1, 1>>

init_bbr(now) ==
    [mode |-> "STARTUP", pacing_gain |-> 2885 \div 1000, cwnd_gain |-> 0,
     RTpropFilter |-> [i \in 1..FilterSize |-> NoRtt], min_rtt_us |-> 0,
     delivered |-> 0, delivered_time |-> now,
     BtlBwFilter |-> [i \in 1..FilterSize |-> 0], max_btlbw |-> Zero,
     max_btlbw_last |-> Zero, btlbw_not_incre_cnt |-> 0,
     inflight |-> 0, nextSendTime |-> 0, ProbeBW_index |-> 0]

-----------------------------------------------------------------------------
\* The state machine, looked at before the acknowledgement's own sample

ctcp_bbr_startup(b) ==
    [b EXCEPT !.pacing_gain = 2885 \div 1000, !.cwnd_gain = 2885 \div 1000]

ctcp_bbr_drain(b) == [b EXCEPT !.pacing_gain = 1000 \div 2885]

ctcp_bbr_probe_bw(b) ==
    [b EXCEPT !.pacing_gain = ProbeBW_pacing[(b.ProbeBW_index % 8) + 1],
              !.ProbeBW_index = (@ % 8) + 1]

\* max_btlbw_last * 1.25 > max_btlbw
NotIncreased(b) ==
    Less(b.max_btlbw, [n |-> 5 * b.max_btlbw_last.n, d |-> 4 * b.max_btlbw_last.d])

\* inflight <= max_btlbw * min_rtt_us; infinity times 0 compares with nothing.
Drained(b) ==
    IF Infinite(b.max_btlbw) THEN b.min_rtt_us > 0
    ELSE b.inflight * b.max_btlbw.d <= b.max_btlbw.n * b.min_rtt_us

Startup(b) ==
    LET s == ctcp_bbr_startup(b)
        c == b.btlbw_not_incre_cnt + IF NotIncreased(b) THEN 1 ELSE 0
    IN  IF c = 3 THEN ctcp_bbr_drain([s EXCEPT !.mode = "DRAIN", !.btlbw_not_incre_cnt = 0])
                 ELSE [s EXCEPT !.btlbw_not_incre_cnt = c]

Drain(b) ==
    IF Drained(b)
    THEN ctcp_bbr_probe_bw([b EXCEPT !.mode = "PROBE_BW", !.ProbeBW_index = 0])
    ELSE ctcp_bbr_drain(b)

StateMachine(b) ==
    CASE b.mode = "STARTUP"  -> Startup(b)
      [] b.mode = "DRAIN"    -> Drain(b)
      [] b.mode = "PROBE_BW" -> ctcp_bbr_probe_bw(b)

-----------------------------------------------------------------------------
\* The estimators

\* Mutant: the sample is not compared with the last of the others.
update_min_filter_Short(b, rtt) ==
    LET filter == Append(Tail(b.RTpropFilter), rtt)
    IN  [b EXCEPT !.RTpropFilter = filter,
                  !.min_rtt_us = Min({rtt} \cup {filter[i] : i \in 1..(FilterSize - 2)})]

update_min_filter(b, rtt) ==
    LET filter == Append(Tail(b.RTpropFilter), rtt)
    IN  [b EXCEPT !.RTpropFilter = filter, !.min_rtt_us = Min(Range(filter))]

\* The entries are longs: each keeps the whole bytes per millisecond.
Truncated(r) == IF Infinite(r) THEN LongMin ELSE r.n \div r.d

update_max_filter(b, rate) ==
    LET kept == Tail(b.BtlBwFilter)
        more == {i \in DOMAIN kept : kept[i] >= 0 /\ Less(rate, [n |-> kept[i], d |-> 1])}
    IN  [b EXCEPT !.BtlBwFilter = Append(kept, Truncated(rate)),
                  !.max_btlbw = IF more = {} THEN rate
                                ELSE [n |-> Max({kept[i] : i \in more}), d |-> 1]]

\* Mutant: every sample enters the filter.
Sample_Every(b, rate) ==
    update_max_filter([b EXCEPT !.max_btlbw_last = b.max_btlbw], rate)

Sample(b, rate) ==
    LET c == [b EXCEPT !.max_btlbw_last = b.max_btlbw]
    IN  IF Less(b.max_btlbw, rate) THEN update_max_filter(c, rate) ELSE c

\* `info' is what the segment was marked with when it was sent.
bbr_onAck(b, info, pkt_size, now) ==
    LET a == update_min_filter(StateMachine(b), now - info.delivered_time)
        c == [a EXCEPT !.delivered = @ + pkt_size, !.delivered_time = now]
    IN  Sample(c, [n |-> c.delivered - info.delivered, d |-> now - info.delivered_time])

-----------------------------------------------------------------------------
\* Sending

\* Mutant: the cast of an infinity saturates, as a clamp would.
Bdp_Saturated(b) == IF Infinite(b.max_btlbw) THEN NoRtt
                    ELSE (b.max_btlbw.n * b.min_rtt_us) \div b.max_btlbw.d

\* bdp, a long.
Bdp(b) == IF Infinite(b.max_btlbw) THEN LongMin
          ELSE (b.max_btlbw.n * b.min_rtt_us) \div b.max_btlbw.d

OverCwnd(b) == b.inflight > b.cwnd_gain * Bdp(b)

\* nextSendTime after `bytes' were sent: with a gain of 0 there is no pacing,
\* and an infinite rate times 0 casts to LONG_MIN.
NextSendTime(b, bytes, now) ==
    CASE Infinite(b.max_btlbw) -> IF b.pacing_gain = 0 THEN LongMin ELSE now
      [] ~Infinite(b.max_btlbw) /\ b.pacing_gain * b.max_btlbw.n = 0 -> now
      [] OTHER -> now + (bytes * b.max_btlbw.d) \div (b.pacing_gain * b.max_btlbw.n)
=============================================================================
