---------------------------- MODULE CtcpBbrProof ----------------------------
(***************************************************************************)
(* For every input, window, delay and size of the filters: what inflight   *)
(* counts, what the two estimates of BBR are of, and when its window is    *)
(* closed for good.                                                        *)
(*                                                                         *)
(* IInv is the invariant of the transfer: neither side sends a FIN, only   *)
(* the sender has a queue, and BBR's record, the marks of the queue and    *)
(* the filters are what the samples made them.                             *)
(***************************************************************************)
EXTENDS CtcpBbr, CtcpHandlers, SequenceLemmas

-----------------------------------------------------------------------------
\* The invariant

PlainSegment == {seg \in Segment : "FIN" \notin seg.flags}
PlainAck == {seg \in PlainSegment : "ACK" \in seg.flags /\ seg.data = <<>>}

\* A host that has not come to the end of its input.
OneWay(s) ==
    /\ s \in HostState /\ s.segments \in Seq(PlainSegment)
    /\ ~s.read_finish /\ ~s.FIN_sent

Rate == [n : Nat, d : Nat]
Filters(S) == {f \in Seq(S) : Len(f) = FilterSize}

BbrState ==
    [mode : {"STARTUP", "DRAIN", "PROBE_BW"}, pacing_gain : Nat, cwnd_gain : Nat,
     RTpropFilter : Filters(Nat), min_rtt_us : Nat,
     delivered : Nat, delivered_time : Nat,
     BtlBwFilter : Filters(Int), max_btlbw : Rate, max_btlbw_last : Rate,
     btlbw_not_incre_cnt : Nat, inflight : Int, nextSendTime : Int,
     ProbeBW_index : Nat]

Mark == [delivered : Nat, delivered_time : Nat]

\* What a segment was marked with is not later than now.
MarkOK(m) ==
    /\ m \in Mark
    /\ m.delivered <= bbr.delivered
    /\ m.delivered_time \in 1..clock

HostsOK ==
    /\ OneWay(sender) /\ sender.wire = <<>> /\ sender.inputted <= InputLen
    /\ sender.status \in {"open", "gave_up"}
    /\ sender.status = "gave_up" => sender.segments = <<>>
    /\ OneWay(receiver) /\ receiver.wire = <<>> /\ receiver.segments = <<>>

LinkOK ==
    /\ clock \in 1..(MaxTime + 1)
    /\ data \in Seq([seg : PlainSegment, at : Nat])
    /\ acks \in Seq([seg : PlainAck, at : Nat])

MarksOK ==
    /\ bbr \in BbrState /\ bbr.delivered_time \in 1..clock
    /\ marks \in Seq(Mark) /\ Len(marks) = Len(sender.segments)
    /\ \A i \in 1..Len(marks) : MarkOK(marks[i])

CountsOK == resent \in Nat /\ held \in Nat /\ held <= sender.inputted

\* The filter holds the last samples, the newest last.
FilterOK ==
    /\ rtts \in Seq(0..MaxTime)
    /\ \A i \in 1..FilterSize :
         bbr.RTpropFilter[i] = IF Len(rtts) + i > FilterSize
                               THEN rtts[Len(rtts) + i - FilterSize] ELSE NoRtt
    /\ rtts # <<>> => bbr.min_rtt_us = Min(Range(bbr.RTpropFilter))

IInv == HostsOK /\ LinkOK /\ MarksOK /\ CountsOK /\ FilterOK /\ InflightIsAccounted

-----------------------------------------------------------------------------
\* Numbers

\* A quotient of numbers is a number.
LEMMA DivIs ==
    ASSUME NEW a \in Int, NEW b \in Nat \ {0}
    PROVE  a \div b \in Int /\ (a >= 0 => a \div b \in Nat)
OBVIOUS

\* What a positive factor keeps.
LEMMA TimesKeeps ==
    ASSUME NEW a \in Int, NEW b \in Int, NEW c \in Nat
    PROVE  /\ a <= b => a * c <= b * c
           /\ c > 0 => (a < b <=> a * c < b * c)
OBVIOUS

\* A rate is not less than one that is less than it.
LEMMA LessAsymmetric ==
    ASSUME NEW r \in Rate, NEW s \in Rate, Less(r, s)
    PROVE  ~Less(s, r)
<1>1. r.n * s.d \in Int /\ s.n * r.d \in Int
  BY DEF Rate
<1>. QED BY <1>1 DEF Less, Infinite

\* What is less than a smaller rate is less than the larger.
LEMMA LessTransitive ==
    ASSUME NEW r \in Rate, NEW s \in Rate, NEW k \in Nat,
           Less(r, s), Less(s, [n |-> k, d |-> 1])
    PROVE  Less(r, [n |-> k, d |-> 1])
<1> DEFINE a == r.n  b == r.d  c == s.n  e == s.d
<1>1. a \in Nat /\ b \in Nat /\ c \in Nat /\ e \in Nat
  BY DEF Rate
<1>2. b # 0 /\ e # 0 /\ c < k * e /\ a * e < c * b
  BY <1>1 DEF Less, Infinite
<1>3. a < k * b
  <2>. HIDE DEF a, b, c, e
  <2>1. SUFFICES ASSUME k * b <= a PROVE FALSE
    BY <1>1
  <2>2. /\ a * e \in Int /\ c * b \in Int /\ k * b \in Int /\ k * e \in Int
        /\ (k * b) * e \in Int /\ (k * e) * b \in Int
    BY <1>1
  <2>3. (k * b) * e <= a * e
    BY <1>1, <2>1, <2>2, TimesKeeps
  <2>4. c * b < (k * e) * b
    BY <1>1, <1>2, <2>2, TimesKeeps
  <2>5. (k * b) * e = (k * e) * b
    BY <1>1
  <2>. QED BY <1>2, <2>2, <2>3, <2>4, <2>5
<1>. QED BY <1>1, <1>2, <1>3 DEF Less, Infinite

\* A nonempty part of a filter has a largest entry.
LEMMA LargestOf ==
    ASSUME NEW m \in Nat, NEW f, \A i \in 1..m : f[i] \in Int,
           NEW P \in SUBSET (1..m), P # {}
    PROVE  Max({f[i] : i \in P}) \in {f[i] : i \in P}
<1> DEFINE T == {k \in Nat : \A Q \in SUBSET (1..m) : Q # {} /\ (\A i \in Q : i <= k) =>
                      \E i \in Q : \A j \in Q : f[j] <= f[i]}
<1>1. 0 \in T
  <2>1. \A i \in 1..m : ~(i <= 0)
    OBVIOUS
  <2>. QED BY <2>1
<1>2. ASSUME NEW k \in T PROVE k + 1 \in T
  <2>1. SUFFICES ASSUME NEW Q \in SUBSET (1..m), Q # {}, \A i \in Q : i <= k + 1
                 PROVE  \E i \in Q : \A j \in Q : f[j] <= f[i]
    OBVIOUS
  <2> DEFINE R == Q \ {k + 1}
  <2>2. k \in Nat /\ \A i \in Q : i \in Nat /\ f[i] \in Int
    OBVIOUS
  <2>3. \A i \in R : i <= k
    BY <2>1, <2>2
  <2>4. CASE R = {}
    <3>1. Q = {k + 1}
      BY <2>1, <2>4
    <3>. QED BY <2>2, <3>1
  <2>5. CASE R # {}
    <3>1. PICK i \in R : \A j \in R : f[j] <= f[i]
      BY <1>2, <2>3, <2>5
    <3>2. CASE k + 1 \in Q /\ f[i] < f[k + 1]
      <4>1. \A j \in Q : j = k + 1 \/ j \in R
        OBVIOUS
      <4>. QED BY <2>2, <3>1, <3>2, <4>1
    <3>3. CASE ~(k + 1 \in Q /\ f[i] < f[k + 1])
      <4>1. \A j \in Q : j = k + 1 \/ j \in R
        OBVIOUS
      <4>. QED BY <2>2, <3>1, <3>3, <4>1
    <3>. QED BY <3>2, <3>3
  <2>. QED BY <2>4, <2>5
<1>3. T = Nat
  <2>. HIDE DEF T
  <2>1. T \in SUBSET Nat
    BY DEF T
  <2>. QED BY <1>1, <1>2, <2>1, Induction
<1>4. PICK i \in P : \A j \in P : f[j] <= f[i]
  <2>1. m \in T
    BY <1>3
  <2>. QED BY <2>1
<1>5. f[i] \in {f[j] : j \in P} /\ \A x \in {f[j] : j \in P} : x <= f[i]
  BY <1>4
<1>. HIDE DEF T
<1>. QED BY <1>5 DEF Max


-----------------------------------------------------------------------------
\* What BBR's functions do to its record

\* What the state machine does not touch.
SameEstimates(b, c) ==
    /\ c.RTpropFilter = b.RTpropFilter /\ c.min_rtt_us = b.min_rtt_us
    /\ c.BtlBwFilter = b.BtlBwFilter /\ c.max_btlbw = b.max_btlbw
    /\ c.delivered = b.delivered /\ c.delivered_time = b.delivered_time
    /\ c.inflight = b.inflight

\* The gains are numbers.
LEMMA GainsAre ==
    /\ 2885 \div 1000 \in Nat /\ 1000 \div 2885 \in Nat
    /\ \A i \in Nat : ProbeBW_pacing[(i % 8) + 1] \in Nat /\ (i % 8) + 1 \in Nat
<1>1. 2885 \div 1000 \in Nat /\ 1000 \div 2885 \in Nat
      /\ 5 \div 4 \in Nat /\ 3 \div 4 \in Nat
  BY DivIs
<1>2. ASSUME NEW i \in Nat PROVE ProbeBW_pacing[(i % 8) + 1] \in Nat /\ (i % 8) + 1 \in Nat
  <2> DEFINE k == (i % 8) + 1
  <2>1. k \in 1..8
    OBVIOUS
  <2>. HIDE DEF k
  <2>2. ProbeBW_pacing[k] \in Nat
    BY <1>1, <2>1 DEF ProbeBW_pacing
  <2>. QED BY <2>1, <2>2 DEF k
<1>. QED BY <1>1, <1>2

\* The state machine changes the mode and the gains.
LEMMA StateMachineKeeps ==
    ASSUME NEW b \in BbrState
    PROVE  StateMachine(b) \in BbrState /\ SameEstimates(b, StateMachine(b))
<1>1. CASE b.mode = "STARTUP"
  <2>1. StateMachine(b) = Startup(b)
    BY <1>1 DEF StateMachine
  <2> DEFINE s == ctcp_bbr_startup(b)
             c == b.btlbw_not_incre_cnt + IF NotIncreased(b) THEN 1 ELSE 0
             d == [s EXCEPT !.mode = "DRAIN", !.btlbw_not_incre_cnt = 0]
  <2>2. s \in BbrState /\ SameEstimates(b, s)
    <3> DEFINE g == 2885 \div 1000
    <3>1. g \in Nat /\ s = [b EXCEPT !.pacing_gain = g, !.cwnd_gain = g]
      BY GainsAre DEF ctcp_bbr_startup
    <3>. HIDE DEF g, s
    <3>. QED BY <3>1 DEF BbrState, SameEstimates
  <2>3. c \in Nat
    BY DEF BbrState
  <2>4. Startup(b) = IF c = 3 THEN ctcp_bbr_drain(d) ELSE [s EXCEPT !.btlbw_not_incre_cnt = c]
    BY DEF Startup
  <2>. HIDE DEF s, c
  <2>5. d \in BbrState /\ SameEstimates(s, d)
    BY <2>2 DEF BbrState, SameEstimates
  <2>. HIDE DEF d
  <2>6. ctcp_bbr_drain(d) \in BbrState /\ SameEstimates(d, ctcp_bbr_drain(d))
    BY <2>5, GainsAre DEF ctcp_bbr_drain, BbrState, SameEstimates
  <2>7. [s EXCEPT !.btlbw_not_incre_cnt = c] \in BbrState
        /\ SameEstimates(s, [s EXCEPT !.btlbw_not_incre_cnt = c])
    BY <2>2, <2>3 DEF BbrState, SameEstimates
  <2>. QED BY <2>1, <2>2, <2>4, <2>5, <2>6, <2>7 DEF SameEstimates
<1>2. ASSUME NEW a \in BbrState, SameEstimates(b, a)
      PROVE  ctcp_bbr_probe_bw(a) \in BbrState /\ SameEstimates(b, ctcp_bbr_probe_bw(a))
  <2>1. a.ProbeBW_index \in Nat
    BY DEF BbrState
  <2> DEFINE x == ProbeBW_pacing[(a.ProbeBW_index % 8) + 1]
             y == (a.ProbeBW_index % 8) + 1
  <2>2. x \in Nat /\ y \in Nat
    BY <2>1, GainsAre
  <2>3. ctcp_bbr_probe_bw(a) = [a EXCEPT !.pacing_gain = x, !.ProbeBW_index = y]
    BY DEF ctcp_bbr_probe_bw
  <2>. HIDE DEF x, y
  <2>. QED BY <1>2, <2>2, <2>3 DEF BbrState, SameEstimates
<1>3. CASE b.mode = "DRAIN"
  <2>1. StateMachine(b) = Drain(b)
    BY <1>3 DEF StateMachine
  <2> DEFINE a == [b EXCEPT !.mode = "PROBE_BW", !.ProbeBW_index = 0]
  <2>2. a \in BbrState /\ SameEstimates(b, a)
    BY DEF BbrState, SameEstimates
  <2>3. ctcp_bbr_drain(b) \in BbrState /\ SameEstimates(b, ctcp_bbr_drain(b))
    BY GainsAre DEF ctcp_bbr_drain, BbrState, SameEstimates
  <2>4. Drain(b) = IF Drained(b) THEN ctcp_bbr_probe_bw(a) ELSE ctcp_bbr_drain(b)
    BY DEF Drain
  <2>. HIDE DEF a
  <2>. QED BY <1>2, <2>1, <2>2, <2>3, <2>4
<1>4. CASE b.mode = "PROBE_BW"
  <2>1. StateMachine(b) = ctcp_bbr_probe_bw(b)
    BY <1>4 DEF StateMachine
  <2>2. SameEstimates(b, b)
    BY DEF SameEstimates
  <2>. QED BY <1>2, <2>1, <2>2
<1>5. b.mode \in {"STARTUP", "DRAIN", "PROBE_BW"}
  BY DEF BbrState
<1>. QED BY <1>1, <1>3, <1>4, <1>5

\* A filter drops its first entry and takes a new one for its last.
LEMMA FilterShifts ==
    ASSUME NEW S, NEW f \in Filters(S), NEW x \in S
    PROVE  LET g == Append(Tail(f), x)
           IN  /\ g \in Filters(S)
               /\ \A i \in 1..FilterSize :
                    g[i] = IF i < FilterSize THEN f[i + 1] ELSE x
<1> DEFINE t == Tail(f)
           g == Append(t, x)
<1>1. FilterSize \in Nat /\ FilterSize > 1 /\ f \in Seq(S) /\ Len(f) = FilterSize
  BY BbrConstants DEF Filters
<1>2. f # <<>>
  BY <1>1
<1>3. /\ t \in Seq(S) /\ Len(t) = FilterSize - 1
      /\ \A i \in 1..(FilterSize - 1) : t[i] = f[i + 1]
  BY <1>1, <1>2, HeadTailProperties
<1>. HIDE DEF t
<1>4. /\ g \in Seq(S) /\ Len(g) = Len(t) + 1
      /\ \A i \in 1..Len(t) : g[i] = t[i]
      /\ g[Len(t) + 1] = x
  BY <1>3, AppendProperties
<1>. HIDE DEF g
<1>5. ASSUME NEW i \in 1..FilterSize PROVE g[i] = IF i < FilterSize THEN f[i + 1] ELSE x
  <2>1. CASE i < FilterSize
    <3>1. i \in 1..(FilterSize - 1)
      BY <1>1, <2>1
    <3>. QED BY <1>1, <1>3, <1>4, <2>1, <3>1
  <2>2. CASE ~(i < FilterSize)
    <3>1. i = Len(t) + 1
      BY <1>1, <1>3, <2>2
    <3>. QED BY <1>4, <2>2, <3>1
  <2>. QED BY <2>1, <2>2
<1>6. Len(g) = FilterSize
  BY <1>1, <1>3, <1>4
<1>. QED BY <1>4, <1>5, <1>6 DEF Filters, g, t

\* The new sample enters the filter of the least round-trip times, and the
\* estimate is the least of the filter.
LEMMA MinFilterEffect ==
    ASSUME NEW b \in BbrState, NEW rtt \in Nat
    PROVE  LET c == update_min_filter(b, rtt)
           IN  /\ c \in BbrState
               /\ \A i \in 1..FilterSize :
                    c.RTpropFilter[i] = IF i < FilterSize THEN b.RTpropFilter[i + 1] ELSE rtt
               /\ c.min_rtt_us = Min(Range(c.RTpropFilter))
               /\ c.BtlBwFilter = b.BtlBwFilter /\ c.max_btlbw = b.max_btlbw
               /\ c.delivered = b.delivered /\ c.delivered_time = b.delivered_time
               /\ c.inflight = b.inflight
<1> DEFINE g == Append(Tail(b.RTpropFilter), rtt)
           m == Min(Range(g))
           c == update_min_filter(b, rtt)
<1>1. b.RTpropFilter \in Filters(Nat)
  BY DEF BbrState
<1>2. /\ g \in Filters(Nat)
      /\ \A i \in 1..FilterSize :
           g[i] = IF i < FilterSize THEN b.RTpropFilter[i + 1] ELSE rtt
  <2> DEFINE f == b.RTpropFilter
             h == Append(Tail(f), rtt)
  <2>1. f \in Filters(Nat)
    BY <1>1
  <2>. HIDE DEF f
  <2>2. h \in Filters(Nat) /\ \A i \in 1..FilterSize :
           h[i] = IF i < FilterSize THEN f[i + 1] ELSE rtt
    BY <2>1, FilterShifts, ZenonT(30)
  <2>. QED BY <2>2 DEF f
<1>3. c = [b EXCEPT !.RTpropFilter = g, !.min_rtt_us = m]
  BY DEF update_min_filter
<1>. HIDE DEF g
<1>4. g \in Seq(Nat) /\ Len(g) = FilterSize /\ FilterSize \in Nat /\ FilterSize > 1
  BY <1>2, BbrConstants DEF Filters
<1>5. Range(g) \in SUBSET Nat /\ Range(g) # {}
  <2>1. DOMAIN g = 1..FilterSize /\ 1 \in 1..FilterSize
    BY <1>4
  <2>. QED BY <1>4, <2>1 DEF Range
<1>6. m \in Nat
  BY <1>5, MinIn
<1>7. c \in BbrState /\ c.RTpropFilter = g /\ c.min_rtt_us = m
      /\ c.BtlBwFilter = b.BtlBwFilter /\ c.max_btlbw = b.max_btlbw
      /\ c.delivered = b.delivered /\ c.delivered_time = b.delivered_time
      /\ c.inflight = b.inflight
  <2>. HIDE DEF m, c
  <2>. QED BY <1>2, <1>3, <1>6 DEF BbrState
<1>. HIDE DEF c
<1>. QED BY <1>2, <1>7 DEF c

\* A sample never lowers the estimate of the bandwidth: a lower one is thrown
\* away, and with a higher one the estimate is that or more.
LEMMA SampleEffect ==
    ASSUME NEW b \in BbrState, NEW rate \in Rate
    PROVE  LET c == Sample(b, rate)
           IN  /\ c \in BbrState /\ ~Less(c.max_btlbw, b.max_btlbw)
               /\ c.RTpropFilter = b.RTpropFilter /\ c.min_rtt_us = b.min_rtt_us
               /\ c.delivered = b.delivered /\ c.delivered_time = b.delivered_time
               /\ c.inflight = b.inflight
<1> DEFINE a == [b EXCEPT !.max_btlbw_last = b.max_btlbw]
           old == b.max_btlbw
<1>1. /\ a \in BbrState /\ a.max_btlbw = old /\ a.BtlBwFilter = b.BtlBwFilter
      /\ a.RTpropFilter = b.RTpropFilter /\ a.min_rtt_us = b.min_rtt_us
      /\ a.delivered = b.delivered /\ a.delivered_time = b.delivered_time
      /\ a.inflight = b.inflight
  BY DEF BbrState
<1>2. old \in Rate
  BY DEF BbrState
<1>3. Sample(b, rate) = IF Less(old, rate) THEN update_max_filter(a, rate) ELSE a
  BY DEF Sample
<1>. HIDE DEF a
<1>4. CASE ~Less(old, rate)
  <2>1. ~Less(old, old)
    BY <1>2, LessAsymmetric
  <2>. HIDE DEF old
  <2>. QED BY <1>1, <1>3, <1>4, <2>1 DEF old
<1>5. CASE Less(old, rate)
  <2> DEFINE kept == Tail(a.BtlBwFilter)
             more == {i \in DOMAIN kept : kept[i] >= 0 /\ Less(rate, [n |-> kept[i], d |-> 1])}
             x == Truncated(rate)
             g == Append(kept, x)
             new == IF more = {} THEN rate ELSE [n |-> Max({kept[i] : i \in more}), d |-> 1]
             c == update_max_filter(a, rate)
  <2>1. x \in Int
    BY DivIs, BbrConstants DEF Truncated, Infinite, Rate
  <2>2. a.BtlBwFilter \in Filters(Int)
    BY <1>1 DEF BbrState
  <2>3. g \in Filters(Int)
    <3>. HIDE DEF x
    <3>. QED BY <2>1, <2>2, FilterShifts
  <2>4. kept \in Seq(Int) /\ Len(kept) \in Nat
    <3>1. a.BtlBwFilter \in Seq(Int) /\ a.BtlBwFilter # <<>>
      BY <2>2, BbrConstants DEF Filters
    <3>. QED BY <3>1, HeadTailProperties
  <2>5. c = [a EXCEPT !.BtlBwFilter = g, !.max_btlbw = new]
    BY DEF update_max_filter
  <2>. HIDE DEF kept, x
  <2>6. new \in Rate /\ ~Less(new, old)
    <3>1. CASE more = {}
      <4>1. new = rate
        BY <3>1
      <4>. HIDE DEF new, old
      <4>. QED BY <1>2, <1>5, <4>1, LessAsymmetric
    <3>2. CASE more # {}
      <4> DEFINE k == Max({kept[i] : i \in more})
      <4>1. more \in SUBSET (1..Len(kept)) /\ \A i \in 1..Len(kept) : kept[i] \in Int
        BY <2>4
      <4>2. k \in {kept[i] : i \in more}
        <5>. HIDE DEF more
        <5>. QED BY <2>4, <3>2, <4>1, LargestOf
      <4>3. k \in Nat /\ Less(rate, [n |-> k, d |-> 1])
        <5>. HIDE DEF k
        <5>1. PICK i \in more : k = kept[i]
          BY <4>2
        <5>2. kept[i] >= 0 /\ Less(rate, [n |-> kept[i], d |-> 1]) /\ kept[i] \in Int
          BY <4>1
        <5>. QED BY <5>1, <5>2
      <4>4. new = [n |-> k, d |-> 1]
        BY <3>2
      <4>. HIDE DEF new, old, k
      <4>5. new \in Rate
        BY <4>3, <4>4 DEF Rate
      <4>6. Less(old, new)
        BY <1>2, <1>5, <4>3, <4>4, LessTransitive
      <4>. QED BY <1>2, <4>5, <4>6, LessAsymmetric
    <3>. QED BY <3>1, <3>2
  <2>. HIDE DEF new, g, c, old
  <2>7. /\ c \in BbrState /\ c.max_btlbw = new
        /\ c.RTpropFilter = a.RTpropFilter /\ c.min_rtt_us = a.min_rtt_us
        /\ c.delivered = a.delivered /\ c.delivered_time = a.delivered_time
        /\ c.inflight = a.inflight
    BY <1>1, <2>3, <2>5, <2>6 DEF BbrState
  <2>8. Sample(b, rate) = c
    BY <1>3, <1>5 DEF c
  <2>. QED BY <1>1, <2>6, <2>7, <2>8 DEF old
<1>. QED BY <1>4, <1>5

\* An acknowledged segment is one sample of each: of the time since it was
\* marked, and of what was delivered since.
LEMMA OnAckEffect ==
    ASSUME NEW b \in BbrState, NEW info \in Mark, NEW pkt_size \in Nat, NEW now \in Nat,
           info.delivered <= b.delivered, info.delivered_time <= now
    PROVE  LET c == bbr_onAck(b, info, pkt_size, now)
               rtt == now - info.delivered_time
           IN  /\ c \in BbrState /\ ~Less(c.max_btlbw, b.max_btlbw)
               /\ \A i \in 1..FilterSize :
                    c.RTpropFilter[i] = IF i < FilterSize THEN b.RTpropFilter[i + 1] ELSE rtt
               /\ c.min_rtt_us = Min(Range(c.RTpropFilter))
               /\ c.delivered = b.delivered + pkt_size /\ c.delivered_time = now
               /\ c.inflight = b.inflight
<1> DEFINE rtt == now - info.delivered_time
           m == StateMachine(b)
           a == update_min_filter(m, rtt)
           c == [a EXCEPT !.delivered = @ + pkt_size, !.delivered_time = now]
           rate == [n |-> c.delivered - info.delivered, d |-> rtt]
           e == Sample(c, rate)
<1>1. bbr_onAck(b, info, pkt_size, now) = e
  BY DEF bbr_onAck
<1>2. rtt \in Nat /\ info.delivered \in Nat
  BY DEF Mark
<1>. HIDE DEF rtt
<1>3. m \in BbrState /\ SameEstimates(b, m)
  BY StateMachineKeeps
<1>. HIDE DEF m
<1>4. /\ a \in BbrState
      /\ \A i \in 1..FilterSize :
           a.RTpropFilter[i] = IF i < FilterSize THEN m.RTpropFilter[i + 1] ELSE rtt
      /\ a.min_rtt_us = Min(Range(a.RTpropFilter))
      /\ a.max_btlbw = m.max_btlbw /\ a.delivered = m.delivered
      /\ a.inflight = m.inflight
  BY <1>2, <1>3, MinFilterEffect
<1>. HIDE DEF a
<1>5. /\ c \in BbrState /\ c.RTpropFilter = a.RTpropFilter /\ c.min_rtt_us = a.min_rtt_us
      /\ c.max_btlbw = a.max_btlbw /\ c.inflight = a.inflight
      /\ c.delivered = a.delivered + pkt_size /\ c.delivered_time = now
  <2>1. a.delivered \in Nat /\ a.delivered + pkt_size \in Nat
    BY <1>4 DEF BbrState
  <2>. QED BY <1>4, <2>1 DEF BbrState
<1>. HIDE DEF c
<1>6. rate \in Rate
  <2>1. b.delivered \in Nat /\ a.delivered = b.delivered
    BY <1>3, <1>4 DEF BbrState, SameEstimates
  <2>. QED BY <1>2, <1>5, <2>1 DEF Rate
<1>. HIDE DEF rate
<1>7. /\ e \in BbrState /\ ~Less(e.max_btlbw, c.max_btlbw)
      /\ e.RTpropFilter = c.RTpropFilter /\ e.min_rtt_us = c.min_rtt_us
      /\ e.delivered = c.delivered /\ e.delivered_time = c.delivered_time
      /\ e.inflight = c.inflight
  BY <1>5, <1>6, SampleEffect
<1>. HIDE DEF e
<1>8. \A i \in 1..FilterSize :
        e.RTpropFilter[i] = IF i < FilterSize THEN b.RTpropFilter[i + 1] ELSE rtt
  BY <1>3, <1>4, <1>5, <1>7 DEF SameEstimates
<1>9. e.min_rtt_us = Min(Range(e.RTpropFilter))
  BY <1>4, <1>5, <1>7
<1>10. /\ e \in BbrState /\ ~Less(e.max_btlbw, b.max_btlbw)
       /\ e.delivered = b.delivered + pkt_size /\ e.delivered_time = now
       /\ e.inflight = b.inflight
  BY <1>3, <1>4, <1>5, <1>7 DEF SameEstimates
<1>. QED BY <1>1, <1>8, <1>9, <1>10 DEF rtt

\* When the next segment may go is a time.
LEMMA NextSendTimeIs ==
    ASSUME NEW b \in BbrState, NEW bytes \in Nat, NEW now \in Nat
    PROVE  NextSendTime(b, bytes, now) \in Int
<1> DEFINE n == b.max_btlbw.n
           d == b.max_btlbw.d
           gain == b.pacing_gain
<1>1. n \in Nat /\ d \in Nat /\ gain \in Nat
  BY DEF BbrState, Rate
<1>2. NextSendTime(b, bytes, now) =
        CASE d = 0 -> IF gain = 0 THEN LongMin ELSE now
          [] ~(d = 0) /\ gain * n = 0 -> now
          [] OTHER -> now + (bytes * d) \div (gain * n)
  BY DEF NextSendTime, Infinite
<1>. HIDE DEF n, d, gain
<1>3. gain * n \in Nat /\ bytes * d \in Nat
  BY <1>1
<1>4. CASE d = 0
  <2>1. NextSendTime(b, bytes, now) = IF gain = 0 THEN LongMin ELSE now
    BY <1>2, <1>3, <1>4
  <2>. QED BY <2>1, BbrConstants
<1>5. CASE d # 0 /\ gain * n = 0
  BY <1>2, <1>5
<1>6. CASE d # 0 /\ gain * n # 0
  <2> DEFINE x == bytes * d
             y == gain * n
  <2>1. NextSendTime(b, bytes, now) = now + x \div y
    BY <1>2, <1>6
  <2>2. x \in Int /\ y \in Nat \ {0}
    BY <1>3, <1>6
  <2>. HIDE DEF x, y
  <2>3. x \div y \in Int
    BY <2>2, DivIs
  <2>. QED BY <2>1, <2>3
<1>. QED BY <1>4, <1>5, <1>6

-----------------------------------------------------------------------------
\* The bytes of a queue

\* The recursive function of Bytes, as a relation.
SumsTo(q, f) ==
    /\ f \in [0..Len(q) -> Nat] /\ f[0] = 0
    /\ \A i \in 1..Len(q) : f[i] = f[i - 1] + Len(q[i].data)

\* It has one value for every queue.
LEMMA BytesIs ==
    ASSUME NEW q \in Seq(PlainSegment)
    PROVE  \E f : SumsTo(q, f) /\ Bytes(q) = f[Len(q)]
<1> DEFINE m == Len(q)
           step == [i \in 1..m |-> [t \in Nat |-> t + Len(q[i].data)]]
           Is(x) == x = [n \in 0..m |-> IF n = 0 THEN 0 ELSE x[n - 1] + Len(q[n].data)]
           g == CHOOSE x : Is(x)
<1>1. m \in Nat /\ \A i \in 1..m : Len(q[i].data) \in Nat
  BY DEF PlainSegment, Segment
<1>2. Bytes(q) = g[m]
  BY DEF Bytes
<1>. HIDE DEF m
<1>3. step \in [1..m -> [Nat -> Nat]] /\ \A i \in 1..m, t \in Nat : step[i][t] = t + Len(q[i].data)
  BY <1>1
<1>. HIDE DEF step
<1>4. PICK f \in [0..m -> Nat] : f[0] = 0 /\ \A i \in 1..m : f[i] = step[i][f[i - 1]]
  <2>1. Recursive(Nat, m, 0, step)
    BY <1>1, <1>3, Recursion
  <2>. QED BY <2>1 DEF Recursive
<1>5. ASSUME NEW i \in 1..m PROVE i # 0 /\ i - 1 \in 0..m /\ f[i] = f[i - 1] + Len(q[i].data)
  <2>1. i # 0 /\ i - 1 \in 0..m
    BY <1>1
  <2>. QED BY <1>3, <1>4, <2>1
<1>6. Is(f)
  <2>1. \A n \in 0..m : n = 0 \/ n \in 1..m
    BY <1>1
  <2>2. \A n \in 0..m : f[n] = IF n = 0 THEN 0 ELSE f[n - 1] + Len(q[n].data)
    BY <1>4, <1>5, <2>1
  <2>. QED BY <1>4, <2>2
<1>7. Is(g)
  BY <1>6
<1>. HIDE DEF g
<1>8. g[0] = 0 /\ \A n \in 1..m : g[n] = g[n - 1] + Len(q[n].data)
  <2>1. 0 \in 0..m /\ \A n \in 1..m : n \in 0..m /\ n # 0
    BY <1>1
  <2>2. \A n \in 0..m : g[n] = IF n = 0 THEN 0 ELSE g[n - 1] + Len(q[n].data)
    BY <1>7
  <2>. QED BY <2>1, <2>2
<1>. HIDE DEF Is
<1> DEFINE T == {n \in Nat : n <= m => g[n] = f[n]}
<1>9. 0 \in T
  BY <1>4, <1>8
<1>10. ASSUME NEW n \in T PROVE n + 1 \in T
  <2>1. SUFFICES ASSUME n + 1 <= m PROVE g[n + 1] = f[n + 1]
    OBVIOUS
  <2>2. n + 1 \in 1..m /\ (n + 1) - 1 = n /\ g[n] = f[n]
    BY <1>1, <2>1
  <2>. QED BY <1>5, <1>8, <2>2
<1>11. T = Nat
  <2>. HIDE DEF T
  <2>1. T \in SUBSET Nat
    BY DEF T
  <2>. QED BY <1>9, <1>10, <2>1, Induction
<1>12. g[m] = f[m]
  BY <1>1, <1>11
<1>. QED BY <1>2, <1>4, <1>5, <1>12 DEF SumsTo, m

\* And only one.
LEMMA SumsAgree ==
    ASSUME NEW p, NEW q, NEW f, NEW g, SumsTo(p, f), SumsTo(q, g),
           Len(p) \in Nat, Len(p) <= Len(q), Len(q) \in Nat,
           \A i \in 1..Len(p) : p[i] = q[i]
    PROVE  f[Len(p)] = g[Len(p)]
<1> DEFINE T == {n \in Nat : n <= Len(p) => g[n] = f[n]}
<1>1. 0 \in T
  BY DEF SumsTo
<1>2. ASSUME NEW n \in T PROVE n + 1 \in T
  <2>1. SUFFICES ASSUME n + 1 <= Len(p) PROVE g[n + 1] = f[n + 1]
    OBVIOUS
  <2>2. n + 1 \in 1..Len(p) /\ n + 1 \in 1..Len(q) /\ (n + 1) - 1 = n /\ g[n] = f[n]
    BY <2>1
  <2>. QED BY <2>2 DEF SumsTo
<1>3. T = Nat
  <2>. HIDE DEF T
  <2>1. T \in SUBSET Nat
    BY DEF T
  <2>. QED BY <1>1, <1>2, <2>1, Induction
<1>. QED BY <1>3

\* No queue has a negative number of bytes, and an empty one none.
LEMMA BytesNat ==
    ASSUME NEW q \in Seq(PlainSegment)
    PROVE  Bytes(q) \in Nat /\ (q = <<>> => Bytes(q) = 0)
<1>1. PICK f : SumsTo(q, f) /\ Bytes(q) = f[Len(q)]
  BY BytesIs
<1>2. Len(q) \in Nat /\ Len(q) \in 0..Len(q) /\ (q = <<>> => Len(q) = 0)
  OBVIOUS
<1>. QED BY <1>1, <1>2 DEF SumsTo

\* A segment that is queued adds its own.
LEMMA BytesAppend ==
    ASSUME NEW q \in Seq(PlainSegment), NEW seg \in PlainSegment
    PROVE  Bytes(Append(q, seg)) = Bytes(q) + Len(seg.data)
<1> DEFINE r == Append(q, seg)
<1>1. /\ r \in Seq(PlainSegment) /\ Len(r) = Len(q) + 1 /\ r[Len(q) + 1] = seg
      /\ \A i \in 1..Len(q) : r[i] = q[i]
  BY AppendProperties
<1>. HIDE DEF r
<1>2. PICK f : SumsTo(q, f) /\ Bytes(q) = f[Len(q)]
  BY BytesIs
<1>3. PICK g : SumsTo(r, g) /\ Bytes(r) = g[Len(r)]
  BY <1>1, BytesIs
<1>4. Len(q) \in Nat /\ Len(r) \in Nat /\ Len(q) <= Len(r)
  BY <1>1
<1>5. f[Len(q)] = g[Len(q)]
  <2>1. \A i \in 1..Len(q) : q[i] = r[i]
    BY <1>1
  <2>. QED BY <1>2, <1>3, <1>4, <2>1, SumsAgree
<1>6. Len(r) \in 1..Len(r) /\ Len(r) - 1 = Len(q)
  BY <1>1, <1>4
<1>7. g[Len(r)] = g[Len(q)] + Len(r[Len(r)].data)
  BY <1>3, <1>6 DEF SumsTo
<1>. QED BY <1>1, <1>2, <1>3, <1>5, <1>7 DEF r

\* One that leaves the front takes its own away.
LEMMA BytesTail ==
    ASSUME NEW q \in Seq(PlainSegment), q # <<>>
    PROVE  Bytes(q) = Len(Head(q).data) + Bytes(Tail(q))
<1> DEFINE t == Tail(q)
           x == Len(q[1].data)
<1>1. /\ t \in Seq(PlainSegment) /\ Len(t) = Len(q) - 1 /\ Head(q) = q[1]
      /\ \A i \in 1..Len(t) : t[i] = q[i + 1]
      /\ Len(q) \in Nat /\ Len(q) # 0
  BY HeadTailProperties, EmptySeq
<1>2. x \in Nat
  <2>1. q[1] \in PlainSegment
    BY <1>1
  <2>. QED BY <2>1 DEF PlainSegment, Segment
<1>. HIDE DEF t, x
<1>3. PICK f : SumsTo(q, f) /\ Bytes(q) = f[Len(q)]
  BY BytesIs
<1>4. PICK g : SumsTo(t, g) /\ Bytes(t) = g[Len(t)]
  BY <1>1, BytesIs
<1> DEFINE T == {n \in Nat : n <= Len(t) => f[n + 1] = x + g[n]}
<1>5. 0 \in T
  <2>1. 1 \in 1..Len(q) /\ 1 - 1 = 0
    BY <1>1
  <2>2. f[1] = f[0] + x
    BY <1>3, <2>1 DEF SumsTo, x
  <2>. QED BY <1>2, <1>3, <1>4, <2>2 DEF SumsTo
<1>6. ASSUME NEW n \in T PROVE n + 1 \in T
  <2>1. SUFFICES ASSUME n + 1 <= Len(t) PROVE f[(n + 1) + 1] = x + g[n + 1]
    OBVIOUS
  <2> DEFINE y == Len(t[n + 1].data)
  <2>2. /\ n + 1 \in 1..Len(t) /\ (n + 1) + 1 \in 1..Len(q) /\ n \in 0..Len(t)
        /\ ((n + 1) + 1) - 1 = n + 1 /\ (n + 1) - 1 = n /\ f[n + 1] = x + g[n]
    BY <1>1, <2>1
  <2>3. f[(n + 1) + 1] = f[n + 1] + y
    BY <1>1, <1>3, <2>2 DEF SumsTo
  <2>4. g[n + 1] = g[n] + y /\ g[n] \in Nat
    BY <1>4, <2>2 DEF SumsTo
  <2>5. y \in Nat
    <3>1. t[n + 1] \in PlainSegment
      BY <1>1, <2>2
    <3>. QED BY <3>1 DEF PlainSegment, Segment
  <2>. HIDE DEF y
  <2>. QED BY <1>2, <2>2, <2>3, <2>4, <2>5
<1>7. T = Nat
  <2>. HIDE DEF T
  <2>1. T \in SUBSET Nat
    BY DEF T
  <2>. QED BY <1>5, <1>6, <2>1, Induction
<1>8. Len(t) \in Nat /\ Len(t) + 1 = Len(q)
  BY <1>1
<1>9. f[Len(t) + 1] = x + g[Len(t)]
  BY <1>7, <1>8
<1>. QED BY <1>1, <1>3, <1>4, <1>8, <1>9 DEF x, t

-----------------------------------------------------------------------------
\* The handlers of a one-way transfer

\* conn_send adds a segment to the wire and no FIN.
LEMMA SendKeeps ==
    ASSUME NEW s, OneWay(s), s.wire \in Seq(PlainSegment), NEW seg \in PlainSegment
    PROVE  LET t == conn_send(s, seg)
           IN  /\ OneWay(t) /\ t.wire \in Seq(PlainSegment) /\ t.inputted = s.inputted
               /\ t.segments = s.segments /\ t.status = s.status
               /\ t.wire = Append(s.wire, convert_to_datagram(seg))
               /\ convert_to_datagram(seg) \in PlainSegment
               /\ convert_to_datagram(seg).data = seg.data
<1> DEFINE d == convert_to_datagram(seg)
           t == conn_send(s, seg)
<1>1. d \in PlainSegment /\ d.data = seg.data
  BY DEF convert_to_datagram, PlainSegment, Segment, Flags
<1>2. t = [s EXCEPT !.wire = Append(s.wire, d)]
  BY DEF conn_send
<1>. HIDE DEF d
<1>3. Append(s.wire, d) \in Seq(PlainSegment) /\ Append(s.wire, d) \in Seq(Segment)
  <2>1. Append(s.wire, d) \in Seq(PlainSegment)
    BY <1>1
  <2>2. PlainSegment \subseteq Segment
    BY DEF PlainSegment
  <2>. QED BY <2>1, <2>2
<1>4. t \in HostState /\ t.wire = Append(s.wire, d)
      /\ t.segments = s.segments /\ t.status = s.status /\ t.inputted = s.inputted
      /\ ~t.read_finish /\ ~t.FIN_sent
  BY <1>2, <1>3 DEF OneWay, HostState
<1>. HIDE DEF t
<1>5. OneWay(t)
  BY <1>4 DEF OneWay
<1>. QED BY <1>1, <1>3, <1>4, <1>5 DEF t, d

\* ctcp_read queues one segment with what was read, whether it sends it or not.
LEMMA ReadQueues ==
    ASSUME NEW s, OneWay(s), s.wire = <<>>, NEW count \in Nat \ {0},
           NEW throttled \in BOOLEAN
    PROVE  LET t == ctcp_read(s, count, throttled)
           IN  /\ OneWay(t) /\ t.wire \in Seq(PlainSegment) /\ t.status = s.status
               /\ t.inputted = s.inputted + count
               /\ \E seg \in PlainSegment : /\ Len(seg.data) = count
                                            /\ t.segments = Append(s.segments, seg)
<1> DEFINE i == s.inputted + count
           r == [s EXCEPT !.inputted = i]
           bytes == [n \in 1..count |-> s.inputted + n]
           seg == DataSegment(r, bytes)
           q == Append(s.segments, seg)
           e == Enqueue(r, seg)
           t == ctcp_read(s, count, throttled)
<1>1. i \in Nat /\ \A n \in 1..count : s.inputted + n \in Nat
  BY DEF OneWay, HostState
<1>2. bytes \in Seq(Nat) /\ Len(bytes) = count
  BY <1>1
<1>3. r \in HostState /\ r.segments = s.segments /\ r.wire = <<>> /\ r.inputted = i
      /\ r.status = s.status /\ ~r.read_finish /\ ~r.FIN_sent
      /\ r.next_seqno \in Nat /\ r.ackno \in Nat /\ r.send_window \in Nat
  BY <1>1 DEF OneWay, HostState
<1>4. t = IF throttled THEN e ELSE conn_send(e, seg)
  BY DEF ctcp_read, bbr_send, ctcp_send_data
<1>. HIDE DEF i, bytes, r
<1>5. seg \in PlainSegment /\ seg.data = bytes
  BY <1>2, <1>3 DEF DataSegment, PlainSegment, Segment, Flags
<1>. HIDE DEF seg
<1>6. q \in Seq(PlainSegment) /\ q \in Seq(Segment)
  <2>1. q \in Seq(PlainSegment)
    BY <1>5 DEF OneWay
  <2>2. PlainSegment \subseteq Segment
    BY DEF PlainSegment
  <2>. QED BY <2>1, <2>2
<1>7. OneWay(e) /\ e.segments = q /\ e.wire = <<>> /\ e.inputted = i /\ e.status = s.status
  <2> DEFINE n == r.next_seqno + Len(seg.data)
  <2>1. n \in Nat
    BY <1>2, <1>3, <1>5
  <2>2. e = [r EXCEPT !.segments = q, !.get_all_ack = FALSE, !.next_seqno = n]
    BY <1>3 DEF Enqueue
  <2>. HIDE DEF n, q, e
  <2>. QED BY <1>3, <1>6, <2>1, <2>2 DEF OneWay, HostState
<1>. HIDE DEF e
<1>8. CASE throttled
  <2>1. t = e
    BY <1>4, <1>8
  <2>2. <<>> \in Seq(PlainSegment)
    OBVIOUS
  <2>. QED BY <1>2, <1>5, <1>7, <2>1, <2>2 DEF i
<1>9. CASE ~throttled
  <2>1. t = conn_send(e, seg)
    BY <1>4, <1>9
  <2>2. e.wire \in Seq(PlainSegment)
    BY <1>7
  <2>. HIDE DEF t
  <2>3. OneWay(t) /\ t.wire \in Seq(PlainSegment) /\ t.inputted = e.inputted
        /\ t.segments = e.segments /\ t.status = e.status
    BY <1>5, <1>7, <2>1, <2>2, SendKeeps
  <2>. QED BY <1>2, <1>5, <1>7, <2>3 DEF i, t
<1>. QED BY <1>8, <1>9

\* An acknowledgement releases the front of the queue if it covers it, and
\* nothing else.
LEMMA AckReleases ==
    ASSUME NEW s, OneWay(s), s.wire = <<>>, NEW seg \in PlainAck
    PROVE  LET t == ctcp_receive(s, seg, 0)
           IN  /\ OneWay(t) /\ t.wire \in Seq(PlainSegment) /\ t.status = s.status
               /\ t.inputted = s.inputted
               /\ s.segments = <<>> => t.segments = <<>>
               /\ s.segments # <<>> =>
                    t.segments = IF End(Head(s.segments)) <= seg.ackno
                                 THEN Tail(s.segments) ELSE s.segments
<1> DEFINE t == ctcp_receive(s, seg, 0)
           front == Head(s.segments)
<1>1. t = ReceiveAck(s, seg) /\ ~IsFinAck(s, seg)
  BY DEF ctcp_receive, Ignored, HasData, IsFinAck, PlainAck, PlainSegment, OneWay
<1>2. <<>> \in Seq(PlainSegment)
  OBVIOUS
<1>3. CASE s.segments = <<>>
  <2>1. t = s
    BY <1>1, <1>3 DEF ReceiveAck
  <2>. QED BY <1>2, <1>3, <2>1
<1>4. CASE s.segments # <<>>
  <2> DEFINE q == Tail(s.segments)
             end == End(front)
             r == PopFront(s)
  <2>1. /\ q \in Seq(PlainSegment) /\ q \in Seq(Segment)
        /\ front \in PlainSegment /\ end \in Nat /\ seg.ackno \in Nat
        /\ seg.window \in Nat
    <3>1. q \in Seq(PlainSegment) /\ front \in PlainSegment
      BY <1>4, HeadTailProperties DEF OneWay
    <3>2. PlainSegment \subseteq Segment
      BY DEF PlainSegment
    <3>3. end \in Nat
      BY <3>1, SMTT(20) DEF PlainSegment, Segment, End
    <3>4. seg.ackno \in Nat /\ seg.window \in Nat
      BY DEF PlainAck, PlainSegment, Segment
    <3>. QED BY <3>1, <3>2, <3>3, <3>4
  <2>2. t = CASE end = seg.ackno -> [r EXCEPT !.seqno = end, !.send_window = seg.window]
              [] end < seg.ackno -> [r EXCEPT !.seqno = end]
              [] end > seg.ackno -> conn_send(s, front)
    BY <1>1, <1>4 DEF ReceiveAck, ExactAck, LargerAck, SmallerAck
  <2>3. r = [s EXCEPT !.segments = q, !.retrans_count = 0]
    BY DEF PopFront
  <2>. HIDE DEF q
  <2>4. /\ OneWay(r) /\ r.wire = <<>> /\ r.segments = q /\ r.status = s.status
        /\ r.inputted = s.inputted
    <3>. HIDE DEF r
    <3>. QED BY <2>1, <2>3 DEF OneWay, HostState
  <2>. HIDE DEF r, end, front, t
  <2>5. CASE end = seg.ackno
    <3>1. t = [r EXCEPT !.seqno = end, !.send_window = seg.window]
      BY <2>1, <2>2, <2>5
    <3>2. OneWay(t) /\ t.wire = <<>> /\ t.segments = q /\ t.status = s.status
          /\ t.inputted = s.inputted
      BY <2>1, <2>4, <3>1 DEF OneWay, HostState
    <3>3. end <= seg.ackno
      BY <2>1, <2>5
    <3>. QED BY <1>2, <1>4, <3>2, <3>3 DEF t, q, end, front
  <2>6. CASE end < seg.ackno
    <3>1. t = [r EXCEPT !.seqno = end]
      BY <2>1, <2>2, <2>6
    <3>2. OneWay(t) /\ t.wire = <<>> /\ t.segments = q /\ t.status = s.status
          /\ t.inputted = s.inputted
      BY <2>1, <2>4, <3>1 DEF OneWay, HostState
    <3>3. end <= seg.ackno
      BY <2>1, <2>6
    <3>. QED BY <1>2, <1>4, <3>2, <3>3 DEF t, q, end, front
  <2>7. CASE end > seg.ackno
    <3>1. t = conn_send(s, front)
      BY <2>1, <2>2, <2>7
    <3>2. s.wire \in Seq(PlainSegment)
      BY <1>2
    <3>3. OneWay(t) /\ t.wire \in Seq(PlainSegment) /\ t.inputted = s.inputted
          /\ t.segments = s.segments /\ t.status = s.status
      BY <2>1, <3>1, <3>2, SendKeeps
    <3>4. ~(end <= seg.ackno)
      BY <2>1, <2>7
    <3>. QED BY <1>4, <3>3, <3>4 DEF t, end, front
  <2>. QED BY <2>1, <2>5, <2>6, <2>7
<1>. QED BY <1>3, <1>4

\* The timer sends the front of the queue again or gives the connection up.
LEMMA TimerRepeats ==
    ASSUME NEW s, OneWay(s), s.wire = <<>>, s.status = "open", s.segments # <<>>
    PROVE  LET t == ctcp_timer(s, TRUE, "ignored")
           IN  /\ OneWay(t) /\ t.wire \in Seq(PlainSegment) /\ t.inputted = s.inputted
               /\ \/ t.status = "open" /\ t.segments = s.segments
                  \/ t.status = "gave_up" /\ t.segments = <<>>
<1> DEFINE t == ctcp_timer(s, TRUE, "ignored")
           front == Head(s.segments)
           c == conn_send(s, front)
<1>1. SendFinIfDone(s) = s /\ ~TeardownReady(s)
  BY DEF SendFinIfDone, TeardownReady, OneWay
<1>2. t = IF s.retrans_count <= RetransmitLimit THEN Retransmit(s, "ignored")
                                              ELSE ctcp_destroy(s, "gave_up")
  <2>1. s.retrans_count \in Nat
    BY DEF OneWay, HostState
  <2>. QED BY <1>1, <2>1, CtcpConstants DEF ctcp_timer
<1>3. front \in PlainSegment /\ <<>> \in Seq(PlainSegment)
  BY HeadTailProperties DEF OneWay
<1>. HIDE DEF front, t
<1>4. CASE s.retrans_count <= RetransmitLimit
  <2>1. /\ OneWay(c) /\ c.wire \in Seq(PlainSegment) /\ c.inputted = s.inputted
        /\ c.segments = s.segments /\ c.status = s.status
    BY <1>3, SendKeeps
  <2> DEFINE n == c.retrans_count + 1
  <2>2. n \in Nat /\ ~s.FIN_sent
    BY <2>1, SMTT(20) DEF OneWay, HostState
  <2>3. Retransmit(s, "ignored") = [c EXCEPT !.retrans_count = n, !.status = c.status]
    BY DEF Retransmit, front
  <2>. HIDE DEF c, n
  <2>4. t = [c EXCEPT !.retrans_count = n, !.status = c.status]
    BY <1>2, <1>4, <2>3
  <2>5. /\ OneWay(t) /\ t.wire = c.wire /\ t.inputted = c.inputted
        /\ t.segments = c.segments /\ t.status = c.status
    BY <2>1, <2>2, <2>4 DEF OneWay, HostState
  <2>. QED BY <2>1, <2>5 DEF t
<1>5. CASE ~(s.retrans_count <= RetransmitLimit)
  <2>1. t = [s EXCEPT !.status = "gave_up", !.segments = <<>>]
    BY <1>2, <1>5 DEF ctcp_destroy
  <2>2. <<>> \in Seq(Segment)
    OBVIOUS
  <2>3. /\ OneWay(t) /\ t.wire = <<>> /\ t.inputted = s.inputted
        /\ t.segments = <<>> /\ t.status = "gave_up"
    BY <1>3, <2>1, <2>2 DEF OneWay, HostState, Statuses
  <2>. QED BY <1>3, <2>3 DEF t
<1>. QED BY <1>4, <1>5

\* With nothing outstanding it only notes that everything is acknowledged.
LEMMA TimerRests ==
    ASSUME NEW s, OneWay(s), s.segments = <<>>
    PROVE  LET t == ctcp_timer(s, FALSE, "ignored")
           IN  /\ OneWay(t) /\ t.wire = s.wire /\ t.inputted = s.inputted
               /\ t.status = s.status /\ t.segments = <<>>
<1> DEFINE t == ctcp_timer(s, FALSE, "ignored")
<1>1. SendFinIfDone(s) = s /\ ~TeardownReady(s)
  BY DEF SendFinIfDone, TeardownReady, OneWay
<1>2. t = [s EXCEPT !.get_all_ack = TRUE]
  BY <1>1 DEF ctcp_timer
<1>. HIDE DEF t
<1>3. /\ OneWay(t) /\ t.wire = s.wire /\ t.inputted = s.inputted
      /\ t.status = s.status /\ t.segments = <<>>
  BY <1>2 DEF OneWay, HostState
<1>. QED BY <1>3 DEF t

\* The receiver answers with acknowledgements alone.
LEMMA SegmentAnswered ==
    ASSUME NEW r, OneWay(r), r.wire = <<>>, r.segments = <<>>, NEW seg \in PlainSegment
    PROVE  LET t == ctcp_receive(r, seg, Len(seg.data))
           IN  OneWay(t) /\ t.wire \in Seq(PlainAck) /\ t.segments = <<>>
<1> DEFINE w == Len(seg.data)
           t == ctcp_receive(r, seg, w)
           d == ReceiveData(r, seg, w)
<1>1. <<>> \in Seq(PlainAck) /\ <<>> \in Seq(PlainSegment)
  OBVIOUS
<1>2. /\ "FIN" \notin seg.flags /\ w \in Nat /\ seg.data \in Seq(Nat)
      /\ r \in HostState /\ seg \in Segment
  BY DEF PlainSegment, Segment, OneWay
<1>3. ASSUME NEW s, OneWay(s), s.wire = <<>>, s.segments = <<>>
      PROVE  LET u == ctcp_send_ack(s)
             IN  OneWay(u) /\ u.wire \in Seq(PlainAck) /\ u.segments = <<>>
  <2> DEFINE ack == [seqno |-> s.next_seqno, ackno |-> s.ackno, flags |-> {"ACK"},
                     window |-> s.recv_window, data |-> <<>>]
             u == conn_send(s, ack)
  <2>1. ack \in PlainSegment
    <3>1. s.next_seqno \in Nat /\ s.ackno \in Nat /\ s.recv_window \in Nat /\ <<>> \in Seq(Nat)
      BY <1>3 DEF OneWay, HostState
    <3>. QED BY <3>1 DEF PlainSegment, Segment, Flags
  <2>2. convert_to_datagram(ack) = [ack EXCEPT !.flags = {"ACK"}]
    BY DEF convert_to_datagram
  <2>3. ack.data = <<>> /\ "ACK" \in convert_to_datagram(ack).flags
    BY DEF convert_to_datagram
  <2>. HIDE DEF ack
  <2>4. s.wire \in Seq(PlainSegment)
    BY <1>1, <1>3
  <2>5. /\ OneWay(u) /\ u.segments = s.segments
        /\ u.wire = Append(s.wire, convert_to_datagram(ack))
        /\ convert_to_datagram(ack) \in PlainSegment
        /\ convert_to_datagram(ack).data = ack.data
    BY <1>3, <2>1, <2>4, SendKeeps
  <2>6. convert_to_datagram(ack) \in PlainAck
    BY <2>3, <2>5 DEF PlainAck
  <2>7. u.wire \in Seq(PlainAck)
    BY <1>1, <1>3, <2>5, <2>6, AppendProperties
  <2>8. ctcp_send_ack(s) = u
    BY DEF ctcp_send_ack, ack
  <2>. HIDE DEF u
  <2>. QED BY <1>3, <2>5, <2>7, <2>8
<1>4. ASSUME HasData(seg)
      PROVE  OneWay(d) /\ d.wire \in Seq(PlainAck) /\ d.segments = <<>>
  <2>1. CASE seg.seqno = r.ackno /\ conn_bufspace(r) >= w
    <3> DEFINE n == r.ackno + w
               a == [r EXCEPT !.ackno = n]
               u == conn_output(a, seg.data, w)
    <3>1. n \in Nat
      BY <1>2 DEF HostState
    <3>. HIDE DEF n
    <3>2. a \in HostState /\ OneWay(a) /\ a.wire = <<>> /\ a.segments = <<>> /\ a.queued = r.queued
      BY <1>2, <3>1 DEF OneWay, HostState
    <3>. HIDE DEF a
    <3>3. conn_bufspace(a) >= w
      BY <2>1, <3>2 DEF conn_bufspace
    <3>4. d = ctcp_send_ack(u)
      <4>1. d = ctcp_send_ack(ctcp_output(a, seg.data, w))
        BY <2>1 DEF ReceiveData, a, n
      <4>2. ctcp_output(a, seg.data, w) = u
        BY <3>3 DEF ctcp_output
      <4>. QED BY <4>1, <4>2
    <3>5. OneWay(u) /\ u.wire = <<>> /\ u.segments = <<>>
      <4>1. w \in 0..Len(seg.data)
        BY <1>2
      <4>2. /\ u \in HostState /\ SameIn(a, u) /\ u.segments = a.segments /\ u.wire = a.wire
        BY <1>2, <3>2, <4>1, OutputEffect
      <4>. HIDE DEF u
      <4>. QED BY <1>1, <3>2, <4>2 DEF OneWay, SameIn
    <3>. HIDE DEF u, d
    <3>. QED BY <1>3, <3>4, <3>5
  <2>2. CASE ~(seg.seqno = r.ackno /\ conn_bufspace(r) >= w)
    <3>1. d = ctcp_send_ack(r)
      BY <2>2 DEF ReceiveData
    <3>. HIDE DEF d
    <3>. QED BY <1>3, <3>1
  <2>. QED BY <2>1, <2>2
<1>. HIDE DEF d, w
<1>5. ASSUME NEW s, OneWay(s), s.segments = <<>>
      PROVE  ReceiveAck(s, seg) = s
  <2>1. ~IsFinAck(s, seg)
    BY <1>5 DEF IsFinAck, OneWay
  <2>. QED BY <1>5, <2>1 DEF ReceiveAck
<1>6. t = IF Ignored(r, seg) \/ ~HasData(seg) THEN r ELSE d
  <2>1. CASE Ignored(r, seg)
    BY <2>1 DEF ctcp_receive
  <2>2. CASE ~Ignored(r, seg) /\ HasData(seg)
    <3>1. t = IF "ACK" \in seg.flags THEN ReceiveAck(d, seg) ELSE d
      BY <1>2, <2>2 DEF ctcp_receive, d
    <3>2. ReceiveAck(d, seg) = d
      BY <1>4, <1>5, <2>2
    <3>. QED BY <2>2, <3>1, <3>2
  <2>3. CASE ~Ignored(r, seg) /\ ~HasData(seg)
    <3>1. t = IF "ACK" \in seg.flags THEN ReceiveAck(r, seg) ELSE r
      BY <1>2, <2>3 DEF ctcp_receive
    <3>2. ReceiveAck(r, seg) = r
      BY <1>5
    <3>. QED BY <2>3, <3>1, <3>2
  <2>. QED BY <2>1, <2>2, <2>3
<1>. HIDE DEF t
<1>7. OneWay(t) /\ t.wire \in Seq(PlainAck) /\ t.segments = <<>>
  BY <1>1, <1>4, <1>6
<1>. QED BY <1>7 DEF t, w

-----------------------------------------------------------------------------
\* The steps

\* What a handler sent goes out now.
LEMMA SentIs ==
    ASSUME NEW X, NEW s, s.wire \in Seq(X), clock \in Nat
    PROVE  Sent(s) \in Seq([seg : X, at : Nat])
<1>1. DOMAIN s.wire = 1..Len(s.wire) /\ Len(s.wire) \in Nat
  OBVIOUS
<1>2. \A i \in 1..Len(s.wire) : s.wire[i] \in X
  OBVIOUS
<1>. QED BY <1>1, <1>2 DEF Sent

\* Taking it off the wire changes nothing else.
LEMMA IdleIs ==
    ASSUME NEW s, OneWay(s)
    PROVE  /\ OneWay(Idle(s)) /\ Idle(s).wire = <<>>
           /\ Idle(s).segments = s.segments /\ Idle(s).inputted = s.inputted
           /\ Idle(s).status = s.status
<1> DEFINE t == Idle(s)
<1>1. t = [s EXCEPT !.wire = <<>>]
  BY DEF Idle
<1>2. <<>> \in Seq(Segment)
  OBVIOUS
<1>. HIDE DEF t
<1>3. /\ OneWay(t) /\ t.wire = <<>> /\ t.segments = s.segments /\ t.inputted = s.inputted
      /\ t.status = s.status
  BY <1>1, <1>2 DEF OneWay, HostState
<1>. QED BY <1>3 DEF t

\* The constants and the queue as the steps need them.
LEMMA Facts ==
    ASSUME IInv
    PROVE  /\ sender.segments \in Seq(PlainSegment) /\ sender.inputted \in Nat
           /\ clock \in Nat /\ clock >= 1 /\ clock - 1 <= MaxTime
           /\ MaxTime \in Nat /\ InputLen \in Nat /\ HeaderSize \in Nat
           /\ bbr.inflight \in Int /\ bbr.delivered \in Nat /\ bbr.delivered_time \in Nat
<1>1. sender.segments \in Seq(PlainSegment) /\ sender.inputted \in Nat
  BY DEF IInv, HostsOK, OneWay, HostState
<1>2. clock \in Nat /\ clock >= 1 /\ clock - 1 <= MaxTime
      /\ MaxTime \in Nat /\ InputLen \in Nat /\ HeaderSize \in Nat
  BY LinkConstants DEF IInv, LinkOK
<1>3. bbr.inflight \in Int /\ bbr.delivered \in Nat /\ bbr.delivered_time \in Nat
  BY DEF IInv, MarksOK, BbrState
<1>. QED BY <1>1, <1>2, <1>3

\* The transfer starts with nothing under way.
LEMMA InvInit ==
    ASSUME Init
    PROVE  IInv
<1> DEFINE s == ctcp_init(Window, Window)
           f == [i \in 1..FilterSize |-> NoRtt]
           h == [i \in 1..FilterSize |-> 0]
<1>1. /\ Window \in Nat /\ FilterSize \in Nat /\ NoRtt \in Nat
      /\ InputLen \in Nat /\ MaxTime \in Nat
  BY BbrConstants, LinkConstants
<1>2. <<>> \in Seq(PlainSegment) /\ <<>> \in Seq(Segment) /\ <<>> \in Seq(Nat)
  OBVIOUS
<1>3. /\ OneWay(s) /\ s.wire = <<>> /\ s.segments = <<>> /\ s.inputted = 0 /\ s.status = "open"
  BY <1>1, <1>2 DEF OneWay, ctcp_init, HostState, Statuses
<1>. HIDE DEF s
<1>4. HostsOK
  BY <1>1, <1>3 DEF Init, HostsOK, s
<1>5. LinkOK
  BY <1>1 DEF Init, LinkOK
<1>6. f \in Filters(Nat) /\ h \in Filters(Int)
  <2>1. f \in Seq(Nat) /\ Len(f) = FilterSize /\ h \in Seq(Int) /\ Len(h) = FilterSize
    BY <1>1
  <2>. QED BY <2>1 DEF Filters
<1>7. bbr \in BbrState /\ bbr.RTpropFilter = f /\ bbr.inflight = 0 /\ bbr.delivered_time = 1
  <2>1. Zero \in Rate
    BY DEF Zero, Rate
  <2> DEFINE g == 2885 \div 1000
  <2>2. g \in Nat
    BY GainsAre
  <2>. HIDE DEF f, h, g
  <2>3. bbr = [mode |-> "STARTUP", pacing_gain |-> g, cwnd_gain |-> 0,
               RTpropFilter |-> f, min_rtt_us |-> 0, delivered |-> 0, delivered_time |-> 1,
               BtlBwFilter |-> h, max_btlbw |-> Zero, max_btlbw_last |-> Zero,
               btlbw_not_incre_cnt |-> 0, inflight |-> 0, nextSendTime |-> 0,
               ProbeBW_index |-> 0]
    BY DEF Init, init_bbr, f, h, g
  <2>. QED BY <1>6, <2>1, <2>2, <2>3 DEF BbrState
<1>8. MarksOK
  <2>1. marks = <<>> /\ sender.segments = <<>> /\ clock = 1
    BY <1>3 DEF Init, s
  <2>. QED BY <1>7, <2>1 DEF MarksOK
<1>9. CountsOK
  BY <1>3 DEF Init, CountsOK, s
<1>10. FilterOK
  <2>1. rtts = <<>> /\ Len(rtts) = 0
    BY DEF Init
  <2>2. \A i \in 1..FilterSize : ~(Len(rtts) + i > FilterSize) /\ f[i] = NoRtt
    BY <1>1, <2>1
  <2>. QED BY <1>7, <2>1, <2>2 DEF FilterOK
<1>11. InflightIsAccounted
  <2>1. Bytes(sender.segments) = 0
    BY <1>2, <1>3, BytesNat DEF Init, s
  <2>. QED BY <1>7, <2>1 DEF Init, InflightIsAccounted, Outstanding
<1>. QED BY <1>4, <1>5, <1>8, <1>9, <1>10, <1>11 DEF IInv

\* Reading: what is sent is in flight, what is held back is counted as held.
LEMMA ReadStep ==
    ASSUME IInv, Read
    PROVE  IInv'
<1>1. PICK count \in 1..MaxSegDataSize :
        LET s == ctcp_read(sender, count, OverCwnd(bbr))
            marked == [delivered |-> IF OverCwnd(bbr) THEN 0 ELSE bbr.delivered,
                       delivered_time |-> bbr.delivered_time]
        IN  /\ sender.inputted + count <= InputLen
            /\ sender' = Idle(s) /\ data' = data \o Sent(s)
            /\ marks' = Append(marks, marked)
            /\ IF OverCwnd(bbr)
               THEN held' = held + count /\ UNCHANGED bbr
               ELSE /\ bbr' = [bbr EXCEPT !.inflight = @ + count,
                                          !.nextSendTime = NextSendTime(bbr, count, clock)]
                    /\ UNCHANGED held
  BY DEF Read
<1> DEFINE s == ctcp_read(sender, count, OverCwnd(bbr))
           marked == [delivered |-> IF OverCwnd(bbr) THEN 0 ELSE bbr.delivered,
                      delivered_time |-> bbr.delivered_time]
           x == bbr.inflight + count
           y == NextSendTime(bbr, count, clock)
<1>2. /\ sender.inputted + count <= InputLen
      /\ sender' = Idle(s) /\ data' = data \o Sent(s) /\ marks' = Append(marks, marked)
      /\ OverCwnd(bbr) => held' = held + count /\ bbr' = bbr
      /\ ~OverCwnd(bbr) => /\ bbr' = [bbr EXCEPT !.inflight = x, !.nextSendTime = y]
                           /\ held' = held
  BY <1>1
<1>3. UNCHANGED <<clock, receiver, timer_start, acks, drops, rtts, resent>>
      /\ sender.status = "open"
  BY DEF Read
<1>4. count \in Nat \ {0} /\ OverCwnd(bbr) \in BOOLEAN
  BY CtcpConstants DEF OverCwnd
<1>5. OneWay(sender) /\ sender.wire = <<>>
  BY DEF IInv, HostsOK
<1>6. PICK seg \in PlainSegment : Len(seg.data) = count /\ s.segments = Append(sender.segments, seg)
  BY <1>4, <1>5, ReadQueues
<1>7. /\ OneWay(s) /\ s.wire \in Seq(PlainSegment) /\ s.status = sender.status
      /\ s.inputted = sender.inputted + count
  BY <1>4, <1>5, ReadQueues
<1>. HIDE DEF s
<1>8. /\ OneWay(sender') /\ sender'.wire = <<>> /\ sender'.status = "open"
      /\ sender'.segments = Append(sender.segments, seg)
      /\ sender'.inputted = sender.inputted + count
  BY <1>2, <1>3, <1>6, <1>7, IdleIs
<1>9. HostsOK'
  BY <1>2, <1>3, <1>8 DEF IInv, HostsOK
<1>10. LinkOK'
  <2>1. Sent(s) \in Seq([seg : PlainSegment, at : Nat])
    BY <1>7, Facts, SentIs
  <2>2. data' \in Seq([seg : PlainSegment, at : Nat])
    BY <1>2, <2>1, ConcatProperties DEF IInv, LinkOK
  <2>. QED BY <1>3, <2>2 DEF IInv, LinkOK
<1>11. x \in Int /\ y \in Int
  <2>1. bbr \in BbrState /\ count \in Nat /\ clock \in Nat
    BY <1>4, Facts DEF IInv, MarksOK
  <2>2. y \in Int
    BY <2>1, NextSendTimeIs
  <2>3. bbr.inflight \in Int
    BY Facts
  <2>. QED BY <2>1, <2>2, <2>3
<1>. HIDE DEF y
<1>12. /\ bbr' \in BbrState /\ bbr'.delivered = bbr.delivered
       /\ bbr'.delivered_time = bbr.delivered_time
       /\ bbr'.RTpropFilter = bbr.RTpropFilter /\ bbr'.min_rtt_us = bbr.min_rtt_us
       /\ bbr'.inflight = IF OverCwnd(bbr) THEN bbr.inflight ELSE x
  <2>1. bbr \in BbrState
    BY DEF IInv, MarksOK
  <2>2. CASE OverCwnd(bbr)
    BY <1>2, <2>1, <2>2
  <2>3. CASE ~OverCwnd(bbr)
    <3>1. bbr' = [bbr EXCEPT !.inflight = x, !.nextSendTime = y]
      BY <1>2, <2>3
    <3>. HIDE DEF x
    <3>2. /\ bbr' \in BbrState /\ bbr'.delivered = bbr.delivered
          /\ bbr'.delivered_time = bbr.delivered_time
          /\ bbr'.RTpropFilter = bbr.RTpropFilter /\ bbr'.min_rtt_us = bbr.min_rtt_us
          /\ bbr'.inflight = x
      BY <1>11, <2>1, <3>1 DEF BbrState
    <3>. QED BY <2>3, <3>2
  <2>. QED BY <2>2, <2>3
<1>13. MarksOK'
  <2>1. marked \in Mark /\ marked.delivered <= bbr.delivered /\ marked.delivered_time \in 1..clock
    BY Facts DEF IInv, MarksOK, Mark
  <2>2. marks \in Seq(Mark) /\ Len(marks) = Len(sender.segments)
        /\ \A i \in 1..Len(marks) : MarkOK(marks[i])
    BY DEF IInv, MarksOK
  <2>. HIDE DEF marked
  <2>3. /\ marks' \in Seq(Mark) /\ Len(marks') = Len(marks) + 1 /\ marks'[Len(marks) + 1] = marked
        /\ \A i \in 1..Len(marks) : marks'[i] = marks[i]
    BY <1>2, <2>1, <2>2, AppendProperties
  <2>4. Len(sender'.segments) = Len(sender.segments) + 1
    BY <1>8, Facts, AppendProperties
  <2>5. ASSUME NEW i \in 1..Len(marks')
        PROVE  /\ marks'[i] \in Mark /\ marks'[i].delivered <= bbr'.delivered
               /\ marks'[i].delivered_time \in 1..clock'
    <3>1. i \in 1..Len(marks) \/ i = Len(marks) + 1
      BY <2>2, <2>3
    <3>. QED BY <1>3, <1>12, <2>1, <2>2, <2>3, <3>1 DEF MarkOK
  <2>6. bbr'.delivered_time \in 1..clock'
    BY <1>3, <1>12 DEF IInv, MarksOK
  <2>. QED BY <1>12, <2>2, <2>3, <2>4, <2>5, <2>6 DEF MarksOK, MarkOK
<1>14. CountsOK'
  BY <1>2, <1>3, <1>4, <1>8, Facts, SMTT(20) DEF IInv, CountsOK
<1>15. FilterOK'
  BY <1>3, <1>12 DEF IInv, FilterOK
<1>16. InflightIsAccounted'
  <2>1. Bytes(sender'.segments) = Bytes(sender.segments) + count
    BY <1>6, <1>8, Facts, BytesAppend
  <2>2. bbr.inflight = Bytes(sender.segments) + resent - held
    BY <1>3 DEF IInv, InflightIsAccounted, Outstanding
  <2>3. /\ Bytes(sender.segments) \in Nat /\ resent \in Nat /\ held \in Nat
        /\ resent' = resent /\ bbr.inflight \in Int
    BY <1>3, Facts, BytesNat DEF IInv, CountsOK
  <2>4. bbr'.inflight = Bytes(sender'.segments) + resent' - held'
    BY <1>2, <1>4, <1>12, <2>1, <2>2, <2>3
  <2>. QED BY <2>4 DEF InflightIsAccounted, Outstanding
<1>. QED BY <1>9, <1>10, <1>13, <1>14, <1>15, <1>16 DEF IInv

\* What is lost or only received leaves the sender as it is.
LEMMA SenderRests ==
    ASSUME IInv, UNCHANGED <<sender, bbr, marks, rtts, resent, held>>,
           clock' \in 1..(MaxTime + 1), clock <= clock'
    PROVE  /\ (MarksOK /\ CountsOK /\ FilterOK /\ InflightIsAccounted)'
           /\ OneWay(sender') /\ sender'.wire = <<>> /\ sender'.inputted <= InputLen
           /\ sender'.status \in {"open", "gave_up"}
           /\ sender'.status = "gave_up" => sender'.segments = <<>>
<1>1. clock \in Nat /\ clock' \in Nat /\ clock <= clock'
  BY Facts, LinkConstants
<1>2. 1..clock \subseteq 1..clock'
  BY <1>1
<1>3. MarksOK'
  BY <1>2 DEF IInv, MarksOK, MarkOK
<1>4. (CountsOK /\ FilterOK /\ InflightIsAccounted)'
  BY DEF IInv, CountsOK, FilterOK, InflightIsAccounted, Outstanding
<1>. QED BY <1>3, <1>4 DEF IInv, HostsOK

\* Taking the first of what is under way leaves the others.
LEMMA Taken ==
    ASSUME NEW X, NEW queue \in Seq([seg : X, at : Nat]), queue # <<>>
    PROVE  Head(queue).seg \in X /\ Tail(queue) \in Seq([seg : X, at : Nat])
<1>1. Head(queue) \in [seg : X, at : Nat] /\ Tail(queue) \in Seq([seg : X, at : Nat])
  BY HeadTailProperties
<1>. QED BY <1>1

\* The receiver answers.
LEMMA SegmentStep ==
    ASSUME IInv, ReceiveSegment
    PROVE  IInv'
<1> DEFINE seg == Head(data).seg
           r == ctcp_receive(receiver, seg, Len(seg.data))
<1>1. /\ data # <<>> /\ receiver' = Idle(r) /\ acks' = acks \o Sent(r) /\ data' = Tail(data)
      /\ UNCHANGED <<clock, sender, bbr, marks, timer_start, drops, rtts, resent, held>>
  BY DEF ReceiveSegment, Arrives
<1>2. seg \in PlainSegment /\ data' \in Seq([seg : PlainSegment, at : Nat])
  BY <1>1, Taken DEF IInv, LinkOK
<1>3. OneWay(receiver) /\ receiver.wire = <<>> /\ receiver.segments = <<>>
  BY DEF IInv, HostsOK
<1>. HIDE DEF seg
<1>4. OneWay(r) /\ r.wire \in Seq(PlainAck) /\ r.segments = <<>>
  BY <1>2, <1>3, SegmentAnswered
<1>. HIDE DEF r
<1>5. OneWay(receiver') /\ receiver'.wire = <<>> /\ receiver'.segments = <<>>
  BY <1>1, <1>4, IdleIs
<1>6. acks' \in Seq([seg : PlainAck, at : Nat])
  <2>1. Sent(r) \in Seq([seg : PlainAck, at : Nat])
    BY <1>4, Facts, SentIs
  <2>. QED BY <1>1, <2>1, ConcatProperties DEF IInv, LinkOK
<1>7. LinkOK'
  BY <1>1, <1>2, <1>6 DEF IInv, LinkOK
<1>8. clock' \in 1..(MaxTime + 1) /\ clock <= clock'
  BY <1>1, Facts DEF IInv, LinkOK
<1>9. /\ (MarksOK /\ CountsOK /\ FilterOK /\ InflightIsAccounted)'
      /\ OneWay(sender') /\ sender'.wire = <<>> /\ sender'.inputted <= InputLen
      /\ sender'.status \in {"open", "gave_up"}
      /\ sender'.status = "gave_up" => sender'.segments = <<>>
  BY <1>1, <1>8, SenderRests
<1>10. HostsOK'
  BY <1>5, <1>9 DEF HostsOK
<1>. QED BY <1>7, <1>9, <1>10 DEF IInv

\* A segment is lost.
LEMMA LoseStep ==
    ASSUME IInv, Lose
    PROVE  IInv'
<1>1. UNCHANGED <<clock, sender, receiver, bbr, marks, rtts, resent, held>>
  BY DEF Lose
<1>2. /\ data' \in Seq([seg : PlainSegment, at : Nat])
      /\ acks' \in Seq([seg : PlainAck, at : Nat])
  <2>1. CASE data # <<>> /\ data' = Tail(data) /\ UNCHANGED acks
    BY <2>1, Taken DEF IInv, LinkOK
  <2>2. CASE acks # <<>> /\ acks' = Tail(acks) /\ UNCHANGED data
    BY <2>2, Taken DEF IInv, LinkOK
  <2>. QED BY <2>1, <2>2 DEF Lose
<1>3. LinkOK'
  BY <1>1, <1>2 DEF IInv, LinkOK
<1>4. clock' \in 1..(MaxTime + 1) /\ clock <= clock'
  BY <1>1, Facts DEF IInv, LinkOK
<1>5. /\ (MarksOK /\ CountsOK /\ FilterOK /\ InflightIsAccounted)'
      /\ OneWay(sender') /\ sender'.wire = <<>> /\ sender'.inputted <= InputLen
      /\ sender'.status \in {"open", "gave_up"}
      /\ sender'.status = "gave_up" => sender'.segments = <<>>
  BY <1>1, <1>4, SenderRests
<1>6. HostsOK'
  BY <1>1, <1>5 DEF IInv, HostsOK
<1>. QED BY <1>3, <1>5, <1>6 DEF IInv

\* Time passes.
LEMMA TickStep ==
    ASSUME IInv, Tick
    PROVE  IInv'
<1>1. UNCHANGED <<sender, receiver, bbr, marks, data, acks, rtts, resent, held>>
      /\ clock' = clock + 1 /\ clock < MaxTime
  BY DEF Tick
<1>2. clock' \in 1..(MaxTime + 1) /\ clock <= clock'
  BY <1>1, Facts
<1>3. LinkOK'
  BY <1>1, <1>2 DEF IInv, LinkOK
<1>4. /\ (MarksOK /\ CountsOK /\ FilterOK /\ InflightIsAccounted)'
      /\ OneWay(sender') /\ sender'.wire = <<>> /\ sender'.inputted <= InputLen
      /\ sender'.status \in {"open", "gave_up"}
      /\ sender'.status = "gave_up" => sender'.segments = <<>>
  BY <1>1, <1>2, SenderRests
<1>5. HostsOK'
  BY <1>1, <1>4 DEF IInv, HostsOK
<1>. QED BY <1>3, <1>4, <1>5 DEF IInv

\* Nothing is outstanding.
LEMMA TimerIdleStep ==
    ASSUME IInv, TimerIdle
    PROVE  IInv'
<1>1. /\ sender' = ctcp_timer(sender, FALSE, "ignored") /\ sender.segments = <<>>
      /\ UNCHANGED <<clock, receiver, bbr, marks, data, acks, rtts, resent, held>>
  BY DEF TimerIdle
<1>2. OneWay(sender)
  BY DEF IInv, HostsOK
<1>3. /\ OneWay(sender') /\ sender'.wire = sender.wire /\ sender'.inputted = sender.inputted
      /\ sender'.status = sender.status /\ sender'.segments = <<>>
  BY <1>1, <1>2, TimerRests
<1>4. HostsOK' /\ LinkOK'
  BY <1>1, <1>3 DEF IInv, HostsOK, LinkOK
<1>5. MarksOK' /\ CountsOK' /\ FilterOK'
  BY <1>1, <1>3 DEF IInv, MarksOK, MarkOK, CountsOK, FilterOK
<1>6. InflightIsAccounted'
  BY <1>1, <1>3 DEF IInv, InflightIsAccounted, Outstanding
<1>. QED BY <1>4, <1>5, <1>6 DEF IInv

\* A retransmission adds to inflight what it is counted as; who gives up
\* forgets its queue.
LEMMA TimerStep ==
    ASSUME IInv, Timer
    PROVE  IInv'
<1> DEFINE s == ctcp_timer(sender, TRUE, "ignored")
           len == HeaderSize + Len(Head(sender.segments).data)
           x == bbr.inflight + len
           m == [delivered |-> bbr.delivered, delivered_time |-> bbr.delivered_time]
<1>1. /\ sender.status = "open" /\ sender.segments # <<>>
      /\ sender' = Idle(s) /\ data' = data \o Sent(s)
      /\ s.status = "open" => /\ marks' = [marks EXCEPT ![1] = m]
                              /\ resent' = resent + len
                              /\ bbr' = [bbr EXCEPT !.inflight = x]
      /\ s.status # "open" => marks' = <<>> /\ resent' = resent /\ bbr' = bbr
      /\ UNCHANGED <<clock, receiver, acks, drops, rtts, held>>
  BY DEF Timer, Remark
<1>2. OneWay(sender) /\ sender.wire = <<>>
  BY DEF IInv, HostsOK
<1>3. /\ OneWay(s) /\ s.wire \in Seq(PlainSegment) /\ s.inputted = sender.inputted
      /\ \/ s.status = "open" /\ s.segments = sender.segments
         \/ s.status = "gave_up" /\ s.segments = <<>>
  BY <1>1, <1>2, TimerRepeats
<1>. HIDE DEF s
<1>4. /\ OneWay(sender') /\ sender'.wire = <<>> /\ sender'.inputted = sender.inputted
      /\ sender'.status = s.status /\ sender'.segments = s.segments
  BY <1>1, <1>3, IdleIs
<1>5. HostsOK'
  BY <1>1, <1>3, <1>4 DEF IInv, HostsOK
<1>6. LinkOK'
  <2>1. Sent(s) \in Seq([seg : PlainSegment, at : Nat])
    BY <1>3, Facts, SentIs
  <2>2. data' \in Seq([seg : PlainSegment, at : Nat])
    BY <1>1, <2>1, ConcatProperties DEF IInv, LinkOK
  <2>. QED BY <1>1, <2>2 DEF IInv, LinkOK
<1>7. len \in Nat /\ x \in Int
  <2>1. Head(sender.segments) \in PlainSegment
    BY <1>1, Facts, HeadTailProperties
  <2>2. Len(Head(sender.segments).data) \in Nat
    BY <2>1 DEF PlainSegment, Segment
  <2> DEFINE n == Len(Head(sender.segments).data)
  <2>. HIDE DEF n
  <2>3. len \in Nat
    <3>1. HeaderSize \in Nat /\ n \in Nat /\ len = HeaderSize + n
      BY <2>2, LinkConstants DEF n
    <3>. HIDE DEF len
    <3>. QED BY <3>1
  <2>4. bbr.inflight \in Int
    BY Facts
  <2>. HIDE DEF len
  <2>. QED BY <2>3, <2>4
<1>8. /\ bbr' \in BbrState /\ bbr'.delivered = bbr.delivered
      /\ bbr'.delivered_time = bbr.delivered_time
      /\ bbr'.RTpropFilter = bbr.RTpropFilter /\ bbr'.min_rtt_us = bbr.min_rtt_us
      /\ bbr'.inflight = IF s.status = "open" THEN x ELSE bbr.inflight
  <2>1. bbr \in BbrState
    BY DEF IInv, MarksOK
  <2>2. CASE s.status = "open"
    <3>1. bbr' = [bbr EXCEPT !.inflight = x]
      BY <1>1, <2>2
    <3>. HIDE DEF x
    <3>2. /\ bbr' \in BbrState /\ bbr'.delivered = bbr.delivered
          /\ bbr'.delivered_time = bbr.delivered_time
          /\ bbr'.RTpropFilter = bbr.RTpropFilter /\ bbr'.min_rtt_us = bbr.min_rtt_us
          /\ bbr'.inflight = x
      BY <1>7, <2>1, <3>1 DEF BbrState
    <3>. QED BY <2>2, <3>2
  <2>3. CASE s.status # "open"
    BY <1>1, <2>1, <2>3
  <2>. QED BY <2>2, <2>3
<1>. HIDE DEF len, x
<1>9. MarksOK'
  <2>1. marks \in Seq(Mark) /\ Len(marks) = Len(sender.segments)
        /\ \A i \in 1..Len(marks) : MarkOK(marks[i])
    BY DEF IInv, MarksOK
  <2>2. bbr'.delivered_time \in 1..clock'
    BY <1>1, <1>8 DEF IInv, MarksOK
  <2>3. CASE s.status = "open"
    <3>1. m \in Mark /\ m.delivered <= bbr.delivered /\ m.delivered_time \in 1..clock
      BY Facts DEF IInv, MarksOK, Mark
    <3>. HIDE DEF m
    <3>2. marks' = [marks EXCEPT ![1] = m]
      BY <1>1, <2>3
    <3>3. marks' \in Seq(Mark) /\ Len(marks') = Len(marks)
          /\ \A i \in 1..Len(marks) : marks'[i] = IF i = 1 THEN m ELSE marks[i]
      <4>1. DOMAIN marks = 1..Len(marks) /\ Len(marks) \in Nat
            /\ \A i \in 1..Len(marks) : marks[i] \in Mark
        BY <2>1
      <4>2. marks' = [i \in 1..Len(marks) |-> IF i = 1 THEN m ELSE marks[i]]
        BY <3>2, <4>1
      <4>. QED BY <3>1, <4>1, <4>2
    <3>4. Len(sender'.segments) = Len(sender.segments)
      BY <1>3, <1>4, <2>3
    <3>5. ASSUME NEW i \in 1..Len(marks')
          PROVE  /\ marks'[i] \in Mark /\ marks'[i].delivered <= bbr'.delivered
                 /\ marks'[i].delivered_time \in 1..clock'
      <4>1. i \in 1..Len(marks)
        BY <3>3
      <4>. QED BY <1>1, <1>8, <2>1, <3>1, <3>3, <4>1 DEF MarkOK
    <3>. QED BY <1>8, <2>1, <2>2, <3>3, <3>4, <3>5 DEF MarksOK, MarkOK
  <2>4. CASE s.status # "open"
    <3>1. marks' = <<>> /\ sender'.segments = <<>>
      BY <1>1, <1>3, <1>4, <2>4
    <3>. QED BY <1>8, <2>2, <3>1 DEF MarksOK
  <2>. QED BY <2>3, <2>4
<1>10. CountsOK' /\ FilterOK'
  <2>1. CountsOK'
    BY <1>1, <1>4, <1>7 DEF IInv, CountsOK
  <2>. QED BY <1>1, <1>8, <2>1 DEF IInv, FilterOK
<1>11. InflightIsAccounted'
  <2>1. CASE s.status = "open"
    <3>1. bbr.inflight = Bytes(sender.segments) + resent - held
      BY <1>1 DEF IInv, InflightIsAccounted, Outstanding
    <3>2. Bytes(sender.segments) \in Nat /\ resent \in Nat /\ held \in Nat
      BY Facts, BytesNat DEF IInv, CountsOK
    <3>3. bbr'.inflight = bbr.inflight + len /\ resent' = resent + len /\ held' = held
          /\ sender'.segments = sender.segments
      BY <1>1, <1>3, <1>4, <1>8, <2>1 DEF x
    <3>4. bbr'.inflight = Bytes(sender'.segments) + resent' - held'
      BY <1>7, <3>1, <3>2, <3>3
    <3>. QED BY <3>4 DEF InflightIsAccounted, Outstanding
  <2>2. CASE s.status # "open"
    BY <1>4, <2>2 DEF InflightIsAccounted
  <2>. QED BY <2>1, <2>2
<1>. QED BY <1>5, <1>6, <1>9, <1>10, <1>11 DEF IInv

\* A sample enters the filter: it then holds the last ones again.
LEMMA FilterMoves ==
    ASSUME FilterOK, NEW rtt \in 0..MaxTime, MaxTime \in Nat, rtts' = Append(rtts, rtt),
           \A i \in 1..FilterSize :
             bbr'.RTpropFilter[i] = IF i < FilterSize THEN bbr.RTpropFilter[i + 1] ELSE rtt,
           bbr'.min_rtt_us = Min(Range(bbr'.RTpropFilter))
    PROVE  FilterOK'
<1> DEFINE L == Len(rtts)
<1>1. FilterSize \in Nat /\ L \in Nat /\ rtts \in Seq(0..MaxTime)
  BY BbrConstants DEF FilterOK
<1>2. /\ rtts' \in Seq(0..MaxTime) /\ Len(rtts') = L + 1 /\ rtts'[L + 1] = rtt
      /\ \A i \in 1..L : rtts'[i] = rtts[i]
  BY <1>1, AppendProperties
<1>3. \A i \in 1..FilterSize :
        bbr.RTpropFilter[i] = IF L + i > FilterSize THEN rtts[L + i - FilterSize] ELSE NoRtt
  BY DEF FilterOK
<1>. HIDE DEF L
<1>4. ASSUME NEW i \in 1..FilterSize
      PROVE  bbr'.RTpropFilter[i] = IF Len(rtts') + i > FilterSize
                                    THEN rtts'[Len(rtts') + i - FilterSize] ELSE NoRtt
  <2>1. CASE i < FilterSize
    <3>1. i + 1 \in 1..FilterSize /\ Len(rtts') + i = L + (i + 1)
      <4>1. i \in Nat /\ i >= 1 /\ i + 1 \in 1..FilterSize
        BY <1>1, <2>1
      <4>2. Len(rtts') = L + 1
        BY <1>2
      <4>. QED BY <1>1, <4>1, <4>2
    <3>2. bbr'.RTpropFilter[i] = bbr.RTpropFilter[i + 1]
      BY <2>1
    <3>3. CASE L + (i + 1) > FilterSize
      <4> DEFINE k == L + (i + 1) - FilterSize
      <4>1. k \in 1..L /\ Len(rtts') + i > FilterSize /\ Len(rtts') + i - FilterSize = k
        BY <1>1, <2>1, <3>1, <3>3
      <4>2. bbr.RTpropFilter[i + 1] = rtts[k]
        BY <1>3, <3>1, <3>3
      <4>. HIDE DEF k
      <4>3. rtts'[k] = rtts[k]
        BY <1>2, <4>1
      <4>. QED BY <3>2, <4>1, <4>2, <4>3
    <3>4. CASE ~(L + (i + 1) > FilterSize)
      BY <1>3, <3>1, <3>2, <3>4
    <3>. QED BY <3>3, <3>4
  <2>2. CASE ~(i < FilterSize)
    <3>1. i = FilterSize
      BY <1>1, <2>2
    <3>2. Len(rtts') = L + 1
      BY <1>2
    <3>3. Len(rtts') + i > FilterSize /\ Len(rtts') + i - FilterSize = L + 1
      BY <1>1, <3>1, <3>2
    <3>4. bbr'.RTpropFilter[i] = rtt
      BY <2>2
    <3>. QED BY <1>2, <3>3, <3>4
  <2>. QED BY <2>1, <2>2
<1>. QED BY <1>2, <1>4 DEF FilterOK

\* What an acknowledgement does to the queue and to BBR.
LEMMA AckEffect ==
    ASSUME IInv, ReceiveAcknowledgement
    PROVE  /\ OneWay(sender') /\ sender'.wire = <<>> /\ sender'.inputted = sender.inputted
           /\ sender'.status = sender.status
           /\ sender.segments = <<>> => sender'.segments = <<>>
           /\ data' \in Seq([seg : PlainSegment, at : Nat])
           /\ \/ sender'.segments = sender.segments /\ marks' = marks
              \/ /\ sender.segments # <<>> /\ sender'.segments = Tail(sender.segments)
                 /\ marks' = Tail(marks)
           /\ bbr' \in BbrState /\ ~Less(bbr'.max_btlbw, bbr.max_btlbw)
           /\ bbr'.delivered >= bbr.delivered /\ bbr'.delivered_time \in 1..clock
           /\ bbr'.inflight = bbr.inflight - (Bytes(sender.segments) - Bytes(sender'.segments))
           /\ FilterOK'
<1> DEFINE seg == Head(acks).seg
           s == ctcp_receive(sender, seg, 0)
           front == Head(sender.segments)
           n == Len(front.data)
           info == Head(marks)
           x == bbr.inflight - n
           b == [bbr EXCEPT !.inflight = x]
           rtt == clock - info.delivered_time
<1>1. /\ acks # <<>> /\ sender' = Idle(s) /\ data' = data \o Sent(s)
      /\ marks' = IF Len(s.segments) < Len(sender.segments) THEN Tail(marks) ELSE marks
      /\ sender.segments = <<>> => UNCHANGED <<bbr, rtts>>
      /\ sender.segments # <<>> =>
           /\ bbr' = Acknowledged(bbr, front, seg.ackno)
           /\ rtts' = IF End(front) = seg.ackno THEN Append(rtts, rtt) ELSE rtts
  BY DEF ReceiveAcknowledgement, Arrives
<1>2. seg \in PlainAck /\ seg.ackno \in Nat
  <2>1. seg \in PlainAck
    BY <1>1, Taken DEF IInv, LinkOK
  <2>. QED BY <2>1 DEF PlainAck, PlainSegment, Segment
<1>3. OneWay(sender) /\ sender.wire = <<>>
  BY DEF IInv, HostsOK
<1>. HIDE DEF seg
<1>4. /\ OneWay(s) /\ s.wire \in Seq(PlainSegment) /\ s.status = sender.status
      /\ s.inputted = sender.inputted
      /\ sender.segments = <<>> => s.segments = <<>>
      /\ sender.segments # <<>> =>
           s.segments = IF End(front) <= seg.ackno THEN Tail(sender.segments) ELSE sender.segments
  BY <1>2, <1>3, AckReleases
<1>. HIDE DEF s
<1>5. /\ OneWay(sender') /\ sender'.wire = <<>> /\ sender'.inputted = sender.inputted
      /\ sender'.status = sender.status /\ sender'.segments = s.segments
  BY <1>1, <1>4, IdleIs
<1>6. data' \in Seq([seg : PlainSegment, at : Nat])
  <2>1. Sent(s) \in Seq([seg : PlainSegment, at : Nat])
    BY <1>4, Facts, SentIs
  <2>. QED BY <1>1, <2>1, ConcatProperties DEF IInv, LinkOK
<1>7. /\ bbr \in BbrState /\ bbr.delivered_time \in 1..clock /\ ~Less(bbr.max_btlbw, bbr.max_btlbw)
      /\ bbr.delivered \in Nat /\ bbr.inflight \in Int /\ FilterOK
      /\ bbr.delivered >= bbr.delivered
  <2>1. bbr \in BbrState /\ bbr.max_btlbw \in Rate
    BY DEF IInv, MarksOK, BbrState
  <2>2. ~Less(bbr.max_btlbw, bbr.max_btlbw)
    BY <2>1, LessAsymmetric
  <2>. QED BY <2>2, Facts DEF IInv, MarksOK
<1>8. sender.segments \in Seq(PlainSegment) /\ Bytes(sender.segments) \in Nat
  BY Facts, BytesNat
<1>9. CASE sender.segments = <<>>
  <2>1. s.segments = sender.segments /\ marks' = marks /\ bbr' = bbr /\ rtts' = rtts
    BY <1>1, <1>4, <1>9
  <2>2. bbr'.inflight = bbr.inflight - (Bytes(sender.segments) - Bytes(sender'.segments))
    BY <1>5, <1>7, <1>8, <2>1
  <2>3. FilterOK'
    BY <1>7, <2>1 DEF FilterOK
  <2>. QED BY <1>5, <1>6, <1>7, <1>9, <2>1, <2>2, <2>3
<1>10. CASE sender.segments # <<>>
  <2>1. /\ front \in PlainSegment /\ Tail(sender.segments) \in Seq(PlainSegment)
        /\ Len(Tail(sender.segments)) = Len(sender.segments) - 1
        /\ Len(sender.segments) \in Nat
    BY <1>8, <1>10, HeadTailProperties
  <2>2. n \in Nat /\ End(front) \in Nat
    <3>1. \A f \in PlainSegment : Len(f.data) \in Nat /\ End(f) \in Nat
      BY DEF PlainSegment, Segment, End
    <3>. HIDE DEF front
    <3>. QED BY <2>1, <3>1
  <2>3. Bytes(sender.segments) = n + Bytes(Tail(sender.segments))
        /\ Bytes(Tail(sender.segments)) \in Nat
    BY <1>8, <1>10, <2>1, BytesTail, BytesNat
  <2>4. info \in Mark /\ info.delivered <= bbr.delivered /\ info.delivered_time \in 1..clock
    <3>1. marks \in Seq(Mark) /\ Len(marks) = Len(sender.segments)
          /\ \A i \in 1..Len(marks) : MarkOK(marks[i])
      BY DEF IInv, MarksOK
    <3>2. marks # <<>> /\ 1 \in 1..Len(marks) /\ info = marks[1]
      BY <1>8, <1>10, <3>1, EmptySeq
    <3>. QED BY <3>1, <3>2 DEF MarkOK
  <2>. HIDE DEF n, front, info
  <2>5. /\ b \in BbrState /\ b.inflight = x /\ x \in Int /\ b.delivered = bbr.delivered
        /\ b.max_btlbw = bbr.max_btlbw /\ b.RTpropFilter = bbr.RTpropFilter
        /\ b.min_rtt_us = bbr.min_rtt_us /\ b.delivered_time = bbr.delivered_time
    <3>1. x \in Int
      BY <1>7, <2>2
    <3>. HIDE DEF x
    <3>. QED BY <1>7, <3>1 DEF BbrState
  <2>6. bbr' = CASE End(front) = seg.ackno -> bbr_onAck(b, info, n, clock)
                 [] End(front) < seg.ackno -> b
                 [] End(front) > seg.ackno -> bbr
    BY <1>1, <1>10 DEF Acknowledged, n, info
  <2>. HIDE DEF b
  <2>7. CASE End(front) = seg.ackno
    <3>1. bbr' = bbr_onAck(b, info, n, clock) /\ rtts' = Append(rtts, rtt)
      BY <1>1, <1>2, <1>10, <2>2, <2>6, <2>7
    <3>2. clock \in Nat /\ info.delivered <= b.delivered /\ info.delivered_time <= clock
          /\ rtt \in 0..MaxTime
      BY <2>4, <2>5, Facts, SMTT(20)
    <3>3. /\ bbr' \in BbrState /\ ~Less(bbr'.max_btlbw, b.max_btlbw)
          /\ \A i \in 1..FilterSize :
               bbr'.RTpropFilter[i] = IF i < FilterSize THEN b.RTpropFilter[i + 1] ELSE rtt
          /\ bbr'.min_rtt_us = Min(Range(bbr'.RTpropFilter))
          /\ bbr'.delivered = b.delivered + n /\ bbr'.delivered_time = clock
          /\ bbr'.inflight = b.inflight
      BY <2>2, <2>4, <2>5, <3>1, <3>2, OnAckEffect, SMTT(20)
    <3>. HIDE DEF rtt
    <3>4. FilterOK'
      BY <1>7, <2>5, <3>1, <3>2, <3>3, Facts, FilterMoves
    <3>5. s.segments = Tail(sender.segments) /\ marks' = Tail(marks)
      <4>1. End(front) <= seg.ackno
        BY <1>2, <2>2, <2>7
      <4>2. s.segments = Tail(sender.segments)
        BY <1>4, <1>10, <4>1
      <4>3. Len(s.segments) < Len(sender.segments)
        BY <2>1, <4>2
      <4>. QED BY <1>1, <4>2, <4>3
    <3>6. bbr'.inflight = bbr.inflight - (Bytes(sender.segments) - Bytes(sender'.segments))
      BY <1>5, <1>7, <2>2, <2>3, <2>5, <3>3, <3>5
    <3>7. bbr'.delivered >= bbr.delivered /\ bbr'.delivered_time \in 1..clock
      BY <1>7, <2>2, <2>5, <3>2, <3>3
    <3>. QED BY <1>5, <1>6, <1>10, <2>5, <3>3, <3>4, <3>5, <3>6, <3>7
  <2>8. CASE End(front) < seg.ackno
    <3>1. bbr' = b /\ rtts' = rtts
      BY <1>1, <1>2, <1>10, <2>2, <2>6, <2>8
    <3>2. s.segments = Tail(sender.segments) /\ marks' = Tail(marks)
      <4>1. End(front) <= seg.ackno
        BY <1>2, <2>2, <2>8
      <4>2. s.segments = Tail(sender.segments)
        BY <1>4, <1>10, <4>1
      <4>3. Len(s.segments) < Len(sender.segments)
        BY <2>1, <4>2
      <4>. QED BY <1>1, <4>2, <4>3
    <3>3. bbr'.inflight = bbr.inflight - (Bytes(sender.segments) - Bytes(sender'.segments))
      BY <1>5, <1>7, <2>2, <2>3, <2>5, <3>1, <3>2
    <3>4. FilterOK'
      BY <1>7, <2>5, <3>1 DEF FilterOK
    <3>. QED BY <1>5, <1>6, <1>7, <1>10, <2>5, <3>1, <3>2, <3>3, <3>4
  <2>9. CASE End(front) > seg.ackno
    <3>1. bbr' = bbr /\ rtts' = rtts
      BY <1>1, <1>2, <1>10, <2>2, <2>6, <2>9
    <3>2. s.segments = sender.segments /\ marks' = marks
      BY <1>1, <1>2, <1>4, <1>10, <2>1, <2>2, <2>9
    <3>3. bbr'.inflight = bbr.inflight - (Bytes(sender.segments) - Bytes(sender'.segments))
      BY <1>5, <1>7, <1>8, <3>1, <3>2
    <3>4. FilterOK'
      BY <1>7, <3>1 DEF FilterOK
    <3>. QED BY <1>5, <1>6, <1>7, <1>10, <3>1, <3>2, <3>3, <3>4
  <2>. QED BY <1>2, <2>2, <2>7, <2>8, <2>9
<1>. QED BY <1>9, <1>10

\* An acknowledgement takes what it releases off inflight.
LEMMA AckStep ==
    ASSUME IInv, ReceiveAcknowledgement
    PROVE  IInv'
<1>1. UNCHANGED <<clock, receiver, timer_start, drops, resent, held>>
      /\ acks # <<>> /\ acks' = Tail(acks)
  BY DEF ReceiveAcknowledgement, Arrives
<1>2. /\ OneWay(sender') /\ sender'.wire = <<>> /\ sender'.inputted = sender.inputted
      /\ sender'.status = sender.status
      /\ sender.segments = <<>> => sender'.segments = <<>>
      /\ data' \in Seq([seg : PlainSegment, at : Nat])
      /\ \/ sender'.segments = sender.segments /\ marks' = marks
         \/ /\ sender.segments # <<>> /\ sender'.segments = Tail(sender.segments)
            /\ marks' = Tail(marks)
      /\ bbr' \in BbrState /\ bbr'.delivered >= bbr.delivered
      /\ bbr'.delivered_time \in 1..clock
      /\ bbr'.inflight = bbr.inflight - (Bytes(sender.segments) - Bytes(sender'.segments))
      /\ FilterOK'
  BY AckEffect
<1>3. HostsOK'
  BY <1>1, <1>2 DEF IInv, HostsOK
<1>4. LinkOK'
  BY <1>1, <1>2, Taken DEF IInv, LinkOK
<1>5. MarksOK'
  <2>1. marks \in Seq(Mark) /\ Len(marks) = Len(sender.segments)
        /\ \A i \in 1..Len(marks) : MarkOK(marks[i])
    BY DEF IInv, MarksOK
  <2>2. bbr.delivered \in Nat /\ bbr'.delivered \in Nat
    BY <1>2, Facts DEF BbrState
  <2>3. ASSUME NEW m, MarkOK(m)
        PROVE  m \in Mark /\ m.delivered <= bbr'.delivered /\ m.delivered_time \in 1..clock'
    BY <1>1, <1>2, <2>2, <2>3 DEF MarkOK, Mark
  <2>4. CASE sender'.segments = sender.segments /\ marks' = marks
    BY <1>1, <1>2, <2>1, <2>3, <2>4 DEF MarksOK, MarkOK
  <2>5. CASE /\ sender.segments # <<>> /\ sender'.segments = Tail(sender.segments)
             /\ marks' = Tail(marks)
    <3>1. sender.segments \in Seq(PlainSegment) /\ Len(sender.segments) # 0 /\ marks # <<>>
      BY <2>1, <2>5, Facts, EmptySeq
    <3>2. Len(sender'.segments) = Len(sender.segments) - 1
      BY <2>5, <3>1, HeadTailProperties
    <3>3. /\ marks' \in Seq(Mark) /\ Len(marks') = Len(marks) - 1 /\ Len(marks) \in Nat
          /\ \A i \in 1..Len(marks') : marks'[i] = marks[i + 1]
      BY <2>1, <2>5, <3>1, HeadTailProperties
    <3>4. ASSUME NEW i \in 1..Len(marks')
          PROVE  /\ marks'[i] \in Mark /\ marks'[i].delivered <= bbr'.delivered
                 /\ marks'[i].delivered_time \in 1..clock'
      <4>1. i + 1 \in 1..Len(marks)
        BY <3>3
      <4>. QED BY <2>1, <2>3, <3>3, <4>1
    <3>. QED BY <1>1, <1>2, <2>1, <3>2, <3>3, <3>4 DEF MarksOK, MarkOK
  <2>. QED BY <1>2, <2>4, <2>5
<1>6. CountsOK'
  BY <1>1, <1>2 DEF IInv, CountsOK
<1>7. InflightIsAccounted'
  <2>1. SUFFICES ASSUME sender.status = "open"
                 PROVE  bbr'.inflight = Bytes(sender'.segments) + resent' - held'
    BY <1>2 DEF InflightIsAccounted, Outstanding
  <2>2. bbr.inflight = Bytes(sender.segments) + resent - held
    BY <2>1 DEF IInv, InflightIsAccounted, Outstanding
  <2>3. Bytes(sender.segments) \in Nat /\ resent \in Nat /\ held \in Nat
    BY Facts, BytesNat DEF IInv, CountsOK
  <2>4. Bytes(sender'.segments) \in Nat
    BY <1>2, BytesNat DEF OneWay
  <2>. QED BY <1>1, <1>2, <2>2, <2>3, <2>4
<1>. QED BY <1>2, <1>3, <1>4, <1>5, <1>6, <1>7 DEF IInv

-----------------------------------------------------------------------------
\* What the invariant means

\* Every step keeps the invariant.
LEMMA InvStep ==
    ASSUME IInv, [Next]_vars
    PROVE  IInv'
<1>1. CASE Read
  BY <1>1, ReadStep
<1>2. CASE ReceiveSegment
  BY <1>2, SegmentStep
<1>3. CASE ReceiveAcknowledgement
  BY <1>3, AckStep
<1>4. CASE Timer
  BY <1>4, TimerStep
<1>5. CASE TimerIdle
  BY <1>5, TimerIdleStep
<1>6. CASE Lose
  BY <1>6, LoseStep
<1>7. CASE Tick
  BY <1>7, TickStep
<1>8. CASE UNCHANGED vars
  BY <1>8 DEF vars, IInv, HostsOK, LinkOK, MarksOK, MarkOK, CountsOK, FilterOK,
              InflightIsAccounted, Outstanding
<1>. QED BY <1>1, <1>2, <1>3, <1>4, <1>5, <1>6, <1>7, <1>8 DEF Next

\* The invariant of a transfer paced by BBR (ctcp_bbr.c with the handlers of
\* ctcp.c that call it).
THEOREM BbrInductive == Spec => []IInv
<1>1. Init => IInv
  BY InvInit
<1>2. IInv /\ [Next]_vars => IInv'
  BY InvStep
<1>. QED BY <1>1, <1>2, PTL DEF Spec

\* inflight is what waits for an acknowledgement, with all that was sent again
\* and without what was held back (ctcp.c:196 and 307, ctcp_bbr.c:122).
THEOREM InflightAccounted == Spec => []InflightIsAccounted
<1>1. IInv => InflightIsAccounted
  BY DEF IInv
<1>. QED BY <1>1, BbrInductive, PTL

\* The filter's least is that of the last samples: what the filter starts with
\* is longer than any of them.
LEMMA LeastOfTheWindow ==
    ASSUME IInv
    PROVE  MinRttIsOfTheWindow
<1> DEFINE L == Len(rtts)
           first == IF L > FilterSize THEN L - FilterSize + 1 ELSE 1
           A == {rtts[i] : i \in first..L}
           f == bbr.RTpropFilter
           B == Range(f)
<1>1. SUFFICES ASSUME rtts # <<>> PROVE bbr.min_rtt_us = Min(A)
  BY DEF MinRttIsOfTheWindow
<1>2. FilterSize \in Nat /\ FilterSize > 1 /\ NoRtt \in Nat /\ MaxTime \in Nat /\ MaxTime <= NoRtt
  BY BbrConstants, LinkConstants
<1>3. /\ rtts \in Seq(0..MaxTime) /\ L \in Nat /\ L # 0
      /\ \A i \in 1..FilterSize :
           f[i] = IF L + i > FilterSize THEN rtts[L + i - FilterSize] ELSE NoRtt
      /\ bbr.min_rtt_us = Min(B)
  BY <1>1, EmptySeq DEF IInv, FilterOK
<1>4. f \in Seq(Nat) /\ Len(f) = FilterSize /\ DOMAIN f = 1..FilterSize
  BY DEF IInv, MarksOK, BbrState, Filters
<1>5. \A i \in 1..L : rtts[i] \in 0..MaxTime
  <2>1. rtts \in Seq(0..MaxTime)
    BY <1>3
  <2> DEFINE S == 0..MaxTime
  <2>. HIDE DEF S
  <2>2. rtts \in Seq(S)
    BY <2>1 DEF S
  <2>3. \A i \in 1..Len(rtts) : rtts[i] \in S
    BY <2>2
  <2>. QED BY <2>3 DEF S
<1>. HIDE DEF L, f
<1>6. first \in 1..L
  BY <1>2, <1>3
<1>7. A \in SUBSET Nat /\ A # {} /\ \A x \in A : x <= NoRtt
  <2>1. \A i \in first..L : i \in 1..L
    BY <1>3, <1>6
  <2>2. first \in first..L
    BY <1>3, <1>6
  <2>3. \A i \in first..L : rtts[i] \in Nat /\ rtts[i] <= NoRtt
    BY <1>2, <1>5, <2>1
  <2>. HIDE DEF first
  <2>. QED BY <2>2, <2>3
<1>8. B \in SUBSET Nat /\ B # {}
  <2>1. 1 \in 1..FilterSize
    BY <1>2
  <2>. QED BY <1>4, <2>1 DEF Range
<1>9. A \subseteq B
  <2>1. ASSUME NEW i \in first..L PROVE rtts[i] \in B
    <3> DEFINE k == i + FilterSize - L
    <3>1. k \in 1..FilterSize /\ L + k > FilterSize /\ L + k - FilterSize = i
      BY <1>2, <1>3, <1>6
    <3>. HIDE DEF k
    <3>2. f[k] = rtts[i]
      BY <1>3, <3>1
    <3>. QED BY <1>4, <3>1, <3>2 DEF Range
  <2>. QED BY <2>1
<1>10. \A x \in B : x \in A \/ x = NoRtt
  <2>1. ASSUME NEW k \in 1..FilterSize PROVE f[k] \in A \/ f[k] = NoRtt
    <3>1. CASE L + k > FilterSize
      <4> DEFINE i == L + k - FilterSize
      <4>1. i \in first..L
        BY <1>2, <1>3, <3>1
      <4>2. f[k] = rtts[i]
        BY <1>3, <3>1
      <4>. HIDE DEF i, first
      <4>. QED BY <4>1, <4>2
    <3>2. CASE ~(L + k > FilterSize)
      BY <1>3, <3>2
    <3>. QED BY <3>1, <3>2
  <2>. HIDE DEF A
  <2>. QED BY <1>4, <2>1 DEF Range
<1>. HIDE DEF A, B
<1>11. /\ Min(A) \in A /\ \A x \in A : Min(A) <= x
       /\ Min(B) \in B /\ \A x \in B : Min(B) <= x
  BY <1>7, <1>8, MinIn
<1>12. Min(B) <= Min(A) /\ Min(A) <= Min(B)
  BY <1>7, <1>8, <1>9, <1>10, <1>11
<1>13. Min(A) \in Nat /\ Min(B) \in Nat
  BY <1>7, <1>8, <1>11
<1>. QED BY <1>3, <1>12, <1>13 DEF A, L

\* min_rtt_us is the least of the last FILTER_SIZE samples (ctcp_bbr.c:158).
THEOREM MinRttOfTheWindow == Spec => []MinRttIsOfTheWindow
<1>1. IInv => MinRttIsOfTheWindow
  BY LeastOfTheWindow
<1>. QED BY <1>1, BbrInductive, PTL

\* Only an acknowledgement changes the estimate of the bandwidth.
LEMMA EstimateGrows ==
    ASSUME IInv, [Next]_vars
    PROVE  ~Less(bbr'.max_btlbw, bbr.max_btlbw)
<1>1. bbr \in BbrState /\ bbr.max_btlbw \in Rate
  BY DEF IInv, MarksOK, BbrState
<1>2. ~Less(bbr.max_btlbw, bbr.max_btlbw)
  BY <1>1, LessAsymmetric
<1>3. CASE Read
  <2>1. OverCwnd(bbr) => bbr' = bbr
    BY <1>3 DEF Read
  <2>2. ~OverCwnd(bbr) => \E count \in 1..MaxSegDataSize :
          bbr' = [bbr EXCEPT !.inflight = @ + count,
                             !.nextSendTime = NextSendTime(bbr, count, clock)]
    BY <1>3, Zenon DEF Read
  <2>3. ASSUME NEW x, NEW y, bbr' = [bbr EXCEPT !.inflight = x, !.nextSendTime = y]
        PROVE  bbr'.max_btlbw = bbr.max_btlbw
    BY <1>1, <2>3 DEF BbrState
  <2>4. CASE OverCwnd(bbr)
    BY <1>2, <2>1, <2>4
  <2>5. CASE ~OverCwnd(bbr)
    <3>1. PICK count \in 1..MaxSegDataSize :
            bbr' = [bbr EXCEPT !.inflight = @ + count,
                               !.nextSendTime = NextSendTime(bbr, count, clock)]
      BY <2>2, <2>5, Zenon
    <3> DEFINE x == bbr.inflight + count
               y == NextSendTime(bbr, count, clock)
    <3>2. bbr' = [bbr EXCEPT !.inflight = x, !.nextSendTime = y]
      BY <3>1
    <3>. HIDE DEF x, y
    <3>. QED BY <1>2, <2>3, <3>2
  <2>. QED BY <2>4, <2>5
<1>4. CASE Timer
  <2> DEFINE sgm_len == HeaderSize + Len(Head(sender.segments).data)
  <2>1. bbr' = bbr \/ bbr' = [bbr EXCEPT !.inflight = @ + sgm_len]
    BY <1>4 DEF Timer
  <2>. HIDE DEF sgm_len
  <2>2. bbr'.max_btlbw = bbr.max_btlbw
    BY <1>1, <2>1 DEF BbrState
  <2>. QED BY <1>2, <2>2
<1>5. CASE ReceiveAcknowledgement
  BY <1>5, AckEffect
<1>6. CASE bbr' = bbr
  BY <1>2, <1>6
<1>7. ReceiveSegment \/ TimerIdle \/ Lose \/ Tick \/ UNCHANGED vars => bbr' = bbr
  BY DEF ReceiveSegment, TimerIdle, Lose, Tick, vars
<1>. QED BY <1>3, <1>4, <1>5, <1>6, <1>7 DEF Next

\* However the samples come, the bandwidth estimate never falls
\* (ctcp_bbr.c:109): the filter forgets nothing.
THEOREM BandwidthOnlyGrows == Spec => BandwidthNeverFalls
<1>1. IInv /\ [Next]_vars => [~Less(bbr'.max_btlbw, bbr.max_btlbw)]_vars
  BY EstimateGrows
<1>. QED BY <1>1, BbrInductive, PTL DEF Spec, BandwidthNeverFalls

\* With an infinite estimate the window is below whatever is in flight.
LEMMA WindowClosed ==
    ASSUME IInv, Infinite(bbr.max_btlbw), bbr.cwnd_gain > 0, sender.status = "open"
    PROVE  OverCwnd(bbr)
<1> DEFINE gain == bbr.cwnd_gain
           c == 0 - LongMin
<1>1. LongMin \in Int /\ InputLen \in Nat /\ LongMin < 0 - InputLen
  BY BbrConstants, LinkConstants
<1>2. gain \in Nat /\ gain > 0 /\ bbr.inflight \in Int
  BY DEF IInv, MarksOK, BbrState
<1>3. bbr.inflight >= 0 - InputLen
  <2>1. bbr.inflight = Bytes(sender.segments) + resent - held
    BY DEF IInv, InflightIsAccounted, Outstanding
  <2>2. Bytes(sender.segments) \in Nat /\ resent \in Nat /\ held \in Nat
        /\ held <= sender.inputted /\ sender.inputted <= InputLen /\ sender.inputted \in Nat
    BY Facts, BytesNat DEF IInv, CountsOK, HostsOK
  <2>. QED BY <1>1, <2>1, <2>2
<1>4. gain * LongMin <= LongMin
  <2>1. c \in Nat /\ gain \in Int /\ 1 \in Int /\ 1 <= gain
    BY <1>1, <1>2
  <2>. HIDE DEF gain
  <2>2. 1 * c <= gain * c
    <3>. HIDE DEF c
    <3>. QED BY <2>1, TimesKeeps
  <2>3. gain * c = 0 - gain * LongMin /\ 1 * c = c
    BY <1>1, <2>1
  <2>. QED BY <1>1, <2>1, <2>2, <2>3
<1>5. Bdp(bbr) = LongMin
  BY DEF Bdp
<1>6. OverCwnd(bbr) = (bbr.inflight > gain * LongMin)
  BY <1>5 DEF OverCwnd
<1>. HIDE DEF gain
<1>7. gain * LongMin \in Int
  BY <1>1, <1>2
<1>8. bbr.inflight > gain * LongMin
  <2> DEFINE y == gain * LongMin
  <2>1. y \in Int /\ y <= LongMin
    BY <1>4, <1>7
  <2>. HIDE DEF y
  <2>2. bbr.inflight > y
    BY <1>1, <1>2, <1>3, <2>1
  <2>. QED BY <2>2 DEF y
<1>. QED BY <1>6, <1>8

\* Only Read reads, and then it holds everything back.
LEMMA HoldsAll ==
    ASSUME IInv, [Next]_vars, Infinite(bbr.max_btlbw), bbr.cwnd_gain > 0,
           sender'.inputted > sender.inputted
    PROVE  held' > held
<1>1. sender.inputted \in Nat
  BY Facts
<1>2. sender'.inputted # sender.inputted
  BY <1>1
<1>3. OneWay(sender) /\ sender.wire = <<>>
  BY DEF IInv, HostsOK
<1>4. CASE Read
  <2>1. sender.status = "open"
    BY <1>4 DEF Read
  <2>2. OverCwnd(bbr)
    BY <2>1, WindowClosed
  <2>3. \E count \in 1..MaxSegDataSize : held' = held + count
    BY <1>4, <2>2 DEF Read
  <2>4. held \in Nat
    BY DEF IInv, CountsOK
  <2>. QED BY <2>3, <2>4, CtcpConstants
<1>5. CASE Timer
  <2> DEFINE s == ctcp_timer(sender, TRUE, "ignored")
  <2>1. sender' = Idle(s) /\ sender.status = "open" /\ sender.segments # <<>>
    BY <1>5 DEF Timer
  <2>2. OneWay(s) /\ s.inputted = sender.inputted
    BY <1>3, <2>1, TimerRepeats
  <2>. HIDE DEF s
  <2>. QED BY <1>2, <2>1, <2>2, IdleIs
<1>6. CASE ReceiveAcknowledgement
  BY <1>2, <1>6, AckEffect
<1>7. CASE TimerIdle
  <2>1. sender' = ctcp_timer(sender, FALSE, "ignored") /\ sender.segments = <<>>
    BY <1>7 DEF TimerIdle
  <2>. QED BY <1>2, <1>3, <2>1, TimerRests
<1>8. ReceiveSegment \/ Lose \/ Tick \/ UNCHANGED vars => sender' = sender
  BY DEF ReceiveSegment, Lose, Tick, vars
<1>. QED BY <1>2, <1>4, <1>5, <1>6, <1>7, <1>8 DEF Next

\* Once a sample took no time the window is closed for good (ctcp_bbr.c:119):
\* whatever is read is held back.
THEOREM InfiniteBandwidthHolds == Spec => InfiniteBandwidthHoldsAll
<1>1. IInv /\ [Next]_vars =>
        [(Infinite(bbr.max_btlbw) /\ bbr.cwnd_gain > 0 /\ sender'.inputted > sender.inputted)
           => held' > held]_vars
  BY HoldsAll
<1>. QED BY <1>1, BbrInductive, PTL DEF Spec, InfiniteBandwidthHoldsAll
=============================================================================
