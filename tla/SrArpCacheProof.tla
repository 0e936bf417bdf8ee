-------------------------- MODULE SrArpCacheProof --------------------------
(***************************************************************************)
(* For any routing table, packets, requests and cache, and whatever the    *)
(* use of a freed request does short of a crash:                           *)
(*   - the request queue that the router's two threads share has one       *)
(*     request per address and none that was freed;                        *)
(*   - longest_prefix_match's loop returns the last of the best routes;    *)
(*   - a packet the router has to send is in one place at a time, from its *)
(*     arrival to the interface or to the host unreachable message;        *)
(*   - an address is asked for more often than sr_arpcache.h says only     *)
(*     after both threads were asking for it at one time;                  *)
(*   - if calloc returns no request that a call still points to, giving up *)
(*     a request comes back to it only when packets cross.                 *)
(*                                                                         *)
(* The queue is changed under the lock, but a request is handled, given up *)
(* and destroyed by pointers the threads took before. That it stays sound  *)
(* does not depend on the lock: a request leaves the queue in the step     *)
(* that frees it, the address of a request never changes while it lives,   *)
(* and a request is made only for an address that nobody asks for. Where   *)
(* the packets are does depend on the calls in progress: the frames of the *)
(* two stacks that hold packets, and the requests they were taken from.    *)
(***************************************************************************)
EXTENDS SrArpAsks, SequenceLemmas, FiniteSetTheorems

-----------------------------------------------------------------------------
\* The invariant. Of a request only what QueueSound speaks of is needed.

MemoryOK ==
    /\ DOMAIN reqs = ReqIds
    /\ \A r \in ReqIds : {"live", "ip"} \subseteq DOMAIN reqs[r]

QInv == MemoryOK /\ queue \in Seq(ReqIds) /\ QueueSound

\* No request is made, freed or given another address.
SameReqs ==
    /\ MemoryOK'
    /\ \A r \in ReqIds : reqs'[r].live = reqs[r].live /\ reqs'[r].ip = reqs[r].ip

\* What is in the queue is at one of its places.
LEMMA InQueue ==
    ASSUME queue \in Seq(ReqIds)
    PROVE  /\ Len(queue) \in Nat /\ DOMAIN queue = 1..Len(queue)
           /\ \A i \in DOMAIN queue : queue[i] \in ReqIds /\ queue[i] \in Range(queue)
           /\ \A r \in Range(queue) : r \in ReqIds /\ \E i \in DOMAIN queue : queue[i] = r
BY DEF Range

\* Such a step keeps the queue sound.
LEMMA SameKeeps ==
    ASSUME QInv, SameReqs, queue' = queue
    PROVE  QInv'
<1>1. queue \in Seq(ReqIds)
  BY DEF QInv
<1>2. \A r \in Range(queue) : reqs'[r].live
  BY <1>1, InQueue DEF QInv, QueueSound, SameReqs
<1>3. ASSUME NEW i \in DOMAIN queue, NEW j \in DOMAIN queue,
             reqs'[queue[i]].ip = reqs'[queue[j]].ip
      PROVE  i = j
  <2>1. queue[i] \in ReqIds /\ queue[j] \in ReqIds
    BY <1>1, InQueue
  <2>2. reqs[queue[i]].ip = reqs[queue[j]].ip
    BY <1>3, <2>1 DEF SameReqs
  <2>. QED BY <2>2 DEF QInv, QueueSound
<1>. QED BY <1>1, <1>2, <1>3 DEF QInv, QueueSound, SameReqs

\* A request leaves the queue, wherever it was; the order stays.
LEMMA UnlinkEffect ==
    ASSUME QInv, NEW r, Unlink(r)
    PROVE  /\ queue' \in Seq(ReqIds)
           /\ \A x \in Range(queue') : x \in Range(queue) /\ x # r
           /\ \A i, j \in DOMAIN queue' :
                reqs[queue'[i]].ip = reqs[queue'[j]].ip => i = j
<1>1. queue \in Seq(ReqIds)
  BY DEF QInv
<1>2. CASE r \notin Range(queue)
  BY <1>1, <1>2 DEF Unlink, QInv, QueueSound
<1>3. CASE r \in Range(queue)
  <2> DEFINE p == Place(r)
             g(k) == IF k < p THEN k ELSE k + 1
  <2>1. p \in 1..Len(queue) /\ queue[p] = r
    BY <1>1, <1>3, InQueue DEF Place
  <2>. HIDE DEF p
  <2>2. queue' = RemoveAt(queue, p)
    BY <1>3 DEF Unlink, p
  <2>3. /\ queue' \in Seq(ReqIds) /\ Len(queue') = Len(queue) - 1
        /\ \A k \in 1..(Len(queue) - 1) : queue'[k] = queue[g(k)]
    BY <1>1, <2>1, <2>2, RemoveAtIndex
  <2>4. /\ Len(queue) \in Nat /\ DOMAIN queue = 1..Len(queue)
        /\ DOMAIN queue' = 1..(Len(queue) - 1)
    BY <1>1, <2>3
  <2>5. ASSUME NEW k \in DOMAIN queue'
        PROVE  g(k) \in DOMAIN queue /\ g(k) # p /\ queue'[k] = queue[g(k)]
    BY <2>1, <2>3, <2>4, <2>5
  <2>6. \A i, j \in DOMAIN queue' : g(i) = g(j) => i = j
    BY <2>1, <2>4
  <2>. HIDE DEF g
  <2>7. \A i, j \in DOMAIN queue :
          reqs[queue[i]].ip = reqs[queue[j]].ip => i = j
    BY DEF QInv, QueueSound
  <2>8. \A k \in DOMAIN queue' : queue'[k] \in Range(queue) /\ queue'[k] # r
    BY <1>1, <2>1, <2>4, <2>5, <2>7, InQueue
  <2>9. \A x \in Range(queue') : x \in Range(queue) /\ x # r
    BY <2>8 DEF Range
  <2>10. \A i, j \in DOMAIN queue' :
           reqs[queue'[i]].ip = reqs[queue'[j]].ip => i = j
    BY <2>5, <2>6, <2>7
  <2>. QED BY <2>3, <2>9, <2>10
<1>. QED BY <1>2, <1>3

-----------------------------------------------------------------------------
\* The steps that change a request or the queue

\* calloc returns memory that no live request has.
LEMMA AllocatableIsFree ==
    ASSUME NEW r \in Allocatable
    PROVE  ~reqs[r].live
<1>1. CASE r \in {Min(fresh) : fresh \in {Fresh} \ {{}}}
  <2>1. Fresh # {} /\ r = Min(Fresh)
    BY <1>1
  <2>2. Fresh \in SUBSET Nat
    BY ArpConstants DEF Fresh, Free
  <2>. QED BY <2>1, <2>2, MinIn DEF Fresh, Free
<1>2. CASE r \in Free
  BY <1>2 DEF Free
<1>. QED BY <1>1, <1>2 DEF Allocatable

\* A request is made for an address only when nobody asks for it.
LEMMA QueueReqKeeps ==
    ASSUME QInv, NEW t, sr_arpcache_queuereq(t)
    PROVE  QInv'
<1> DEFINE p == Here(t).pkt
           ip == NextHop(p)
<1>1. PICK r \in ReqIds :
        \/ /\ r \in Asking(ip)
           /\ reqs' = [reqs EXCEPT ![r].packets = AddPacket(@, p)]
           /\ UNCHANGED queue
        \/ /\ Asking(ip) = {} /\ r \in Allocatable
           /\ reqs' = [reqs EXCEPT ![r] =
                [live |-> TRUE, ip |-> ip, sent_ago |-> 2,
                 times_sent |-> 0, packets |-> AddPacket(<<>>, p)]]
           /\ queue' = <<r>> \o queue
  BY DEF sr_arpcache_queuereq
<1>. HIDE DEF p, ip
<1>2. ASSUME reqs' = [reqs EXCEPT ![r].packets = AddPacket(@, p)], UNCHANGED queue
      PROVE  QInv'
  <2>1. SameReqs
    BY <1>2 DEF SameReqs, MemoryOK, QInv
  <2>. QED BY <1>2, <2>1, SameKeeps
<1>3. ASSUME Asking(ip) = {}, r \in Allocatable,
             reqs' = [reqs EXCEPT ![r] =
                [live |-> TRUE, ip |-> ip, sent_ago |-> 2,
                 times_sent |-> 0, packets |-> AddPacket(<<>>, p)]],
             queue' = <<r>> \o queue
      PROVE  QInv'
  <2> DEFINE new == [live |-> TRUE, ip |-> ip, sent_ago |-> 2,
                     times_sent |-> 0, packets |-> AddPacket(<<>>, p)]
  <2>1. ~reqs[r].live
    BY <1>3, AllocatableIsFree
  <2>2. /\ queue \in Seq(ReqIds) /\ DOMAIN reqs = ReqIds
        /\ \A x \in Range(queue) : reqs[x].live
    BY DEF QInv, MemoryOK, QueueSound
  <2>3. new.live /\ new.ip = ip /\ {"live", "ip"} \subseteq DOMAIN new
    OBVIOUS
  <2>. HIDE DEF new
  <2>4. reqs' = [reqs EXCEPT ![r] = new]
    BY <1>3 DEF new
  <2>5. reqs'[r] = new /\ \A x \in ReqIds : x # r => reqs'[x] = reqs[x]
    BY <2>2, <2>4
  <2>6. MemoryOK'
    BY <2>2, <2>3, <2>4, <2>5 DEF MemoryOK, QInv
  <2>7. \A x \in Range(queue) : x \in ReqIds /\ x # r /\ reqs[x].ip # ip
    BY <1>3, <2>1, <2>2, InQueue DEF Asking
  <2>8. /\ queue' \in Seq(ReqIds) /\ Len(queue') = 1 + Len(queue)
        /\ queue'[1] = r
        /\ \A i \in 2..(1 + Len(queue)) : queue'[i] = queue[i - 1]
    <3>1. <<r>> \in Seq(ReqIds) /\ Len(<<r>>) = 1 /\ <<r>>[1] = r
      OBVIOUS
    <3>2. /\ queue' \in Seq(ReqIds) /\ Len(queue') = 1 + Len(queue)
          /\ \A i \in 1..(1 + Len(queue)) :
               queue'[i] = IF i <= 1 THEN <<r>>[i] ELSE queue[i - 1]
      BY <1>3, <2>2, <3>1, ConcatProperties
    <3>3. Len(queue) \in Nat
      BY <2>2
    <3>. QED BY <3>1, <3>2, <3>3
  <2>9. /\ Len(queue) \in Nat /\ DOMAIN queue = 1..Len(queue)
        /\ DOMAIN queue' = 1..(1 + Len(queue))
    BY <2>2, <2>8
  <2>10. ASSUME NEW i \in DOMAIN queue', i # 1
         PROVE  /\ i - 1 \in DOMAIN queue /\ queue'[i] = queue[i - 1]
                /\ queue[i - 1] \in Range(queue)
                /\ reqs'[queue'[i]] = reqs[queue[i - 1]]
    <3>1. i - 1 \in DOMAIN queue /\ i \in 2..(1 + Len(queue))
      BY <2>9, <2>10
    <3>2. queue'[i] = queue[i - 1] /\ queue[i - 1] \in Range(queue)
      BY <2>2, <2>8, <3>1, InQueue
    <3>. QED BY <2>5, <2>7, <3>1, <3>2
  <2>11. \A x \in Range(queue') : reqs'[x].live
    <3>1. \A i \in DOMAIN queue' : reqs'[queue'[i]].live
      BY <2>2, <2>3, <2>5, <2>8, <2>10
    <3>. QED BY <3>1 DEF Range
  <2>12. ASSUME NEW i \in DOMAIN queue', NEW j \in DOMAIN queue',
                reqs'[queue'[i]].ip = reqs'[queue'[j]].ip
         PROVE  i = j
    <3>1. CASE i = 1 /\ j = 1
      BY <3>1
    <3>2. CASE i = 1 /\ j # 1
      BY <2>3, <2>5, <2>7, <2>8, <2>10, <2>12, <3>2
    <3>3. CASE i # 1 /\ j = 1
      BY <2>3, <2>5, <2>7, <2>8, <2>10, <2>12, <3>3
    <3>4. CASE i # 1 /\ j # 1
      <4>1. i - 1 \in DOMAIN queue /\ j - 1 \in DOMAIN queue
        BY <2>10, <3>4
      <4>2. reqs[queue[i - 1]].ip = reqs[queue[j - 1]].ip
        BY <2>10, <2>12, <3>4
      <4>3. i - 1 = j - 1
        BY <4>1, <4>2 DEF QInv, QueueSound
      <4>. QED BY <2>9, <4>3
    <3>. QED BY <3>1, <3>2, <3>3, <3>4
  <2>. QED BY <2>6, <2>8, <2>11, <2>12 DEF QInv, QueueSound
<1>. QED BY <1>1, <1>2, <1>3

\* A request is freed in the step that takes it out of the queue.
LEMMA DestroyKeeps ==
    ASSUME QInv, NEW r, Unlink(r), reqs' = [reqs EXCEPT ![r] = Freed]
    PROVE  QInv'
<1>1. /\ queue' \in Seq(ReqIds)
      /\ \A x \in Range(queue') : x \in Range(queue) /\ x # r
      /\ \A i, j \in DOMAIN queue' :
           reqs[queue'[i]].ip = reqs[queue'[j]].ip => i = j
  BY UnlinkEffect
<1>2. queue \in Seq(ReqIds) /\ MemoryOK /\ \A x \in Range(queue) : reqs[x].live
  BY DEF QInv, QueueSound
<1>3. MemoryOK'
  BY <1>2 DEF MemoryOK, Freed
<1>4. \A x \in Range(queue') : reqs'[x] = reqs[x]
  BY <1>1, <1>2, InQueue DEF MemoryOK
<1>5. \A x \in Range(queue') : reqs'[x].live
  BY <1>1, <1>2, <1>4
<1>6. \A i \in DOMAIN queue' : queue'[i] \in Range(queue')
  BY DEF Range
<1>7. \A i, j \in DOMAIN queue' :
        reqs'[queue'[i]].ip = reqs'[queue'[j]].ip => i = j
  BY <1>1, <1>4, <1>6
<1>. QED BY <1>1, <1>3, <1>5, <1>7 DEF QInv, QueueSound

\* Only the ages change.
LEMMA TickKeeps ==
    ASSUME QInv, Tick
    PROVE  QInv'
<1>1. /\ reqs' = [r \in ReqIds |-> [reqs[r] EXCEPT !.sent_ago = Older(@, 2)]]
      /\ queue' = queue
  BY DEF Tick
<1>2. SameReqs
  BY <1>1 DEF SameReqs, MemoryOK, QInv
<1>. QED BY <1>1, <1>2, SameKeeps

\* An answer takes one request out of the queue.
LEMMA ArpPacketKeeps ==
    ASSUME QInv, sr_handlepacket_arp
    PROVE  QInv'
<1>1. reqs' = reqs
  BY DEF sr_handlepacket_arp
<1>2. CASE queue' = queue
  BY <1>1, <1>2 DEF QInv, MemoryOK, QueueSound
<1>3. CASE \E r \in ReqIds \cup Range(queue) : Unlink(r)
  <2>1. PICK r : Unlink(r)
    BY <1>3
  <2>2. /\ queue' \in Seq(ReqIds)
        /\ \A x \in Range(queue') : x \in Range(queue) /\ x # r
        /\ \A i, j \in DOMAIN queue' :
             reqs[queue'[i]].ip = reqs[queue'[j]].ip => i = j
    BY <2>1, UnlinkEffect
  <2>. QED BY <1>1, <2>2 DEF QInv, MemoryOK, QueueSound
<1>. QED BY <1>2, <1>3 DEF sr_handlepacket_arp, Detach, Asking

-----------------------------------------------------------------------------
\* Every step of a thread outside the lock, or inside, keeps QInv.
LEMMA StepKeeps ==
    ASSUME QInv, NEW t, Step(t)
    PROVE  QInv'
<1>1. CASE UNCHANGED memory
  BY <1>1 DEF memory, QInv, MemoryOK, QueueSound
<1>2. CASE sr_arpcache_queuereq(t)
  BY <1>2, QueueReqKeeps
<1>3. CASE sr_send_arp_req(t)
  <2>1. queue' = queue /\ reqs' = [reqs EXCEPT ![Here(t).req].sent_ago = Here(t).now]
    BY <1>3 DEF sr_send_arp_req
  <2>2. SameReqs
    BY <2>1 DEF SameReqs, MemoryOK, QInv
  <2>. QED BY <2>1, <2>2, SameKeeps
<1>4. CASE CountArp(t)
  <2>1. /\ queue' = queue
        /\ reqs' = [reqs EXCEPT ![Here(t).req].times_sent = Here(t).times_sent + 1]
    BY <1>4 DEF CountArp
  <2>2. SameReqs
    BY <2>1 DEF SameReqs, MemoryOK, QInv
  <2>. QED BY <2>1, <2>2, SameKeeps
<1>5. CASE sr_arpreq_destroy(t)
  BY <1>5, DestroyKeeps DEF sr_arpreq_destroy
<1>6. sr_arpcache_lookup(t) => UNCHANGED memory
  BY DEF sr_arpcache_lookup
<1>7. sr_handle_arpreq(t) => UNCHANGED memory
  BY DEF sr_handle_arpreq
<1>8. sr_send_icmp_to_waiting(t) => UNCHANGED memory
  BY DEF sr_send_icmp_to_waiting
<1>9. UseFreed(t) => UNCHANGED memory
  BY DEF UseFreed, Crash
<1>10. sr_recv_arp(t) => UNCHANGED memory
  BY DEF sr_recv_arp
<1>11. StackOverflow(t) => UNCHANGED memory
  BY DEF StackOverflow, Crash
<1>. QED
  BY <1>1, <1>2, <1>3, <1>4, <1>5, <1>6, <1>7, <1>8, <1>9, <1>10, <1>11 DEF Step

\* So does the sweeper, a packet that arrives, and time.
LEMMA NextKeeps == QInv /\ [Next]_vars => QInv'
<1>1. SUFFICES ASSUME QInv, [Next]_vars PROVE QInv'
  OBVIOUS
<1>2. ASSUME NEW t \in Threads, Step(t) PROVE QInv'
  BY <1>1, <1>2, StepKeeps
<1>3. CASE UNCHANGED <<reqs, queue>>
  BY <1>1, <1>3 DEF QInv, MemoryOK, QueueSound
<1>4. Sweep => UNCHANGED <<reqs, queue>>
  BY DEF Sweep, sr_arpcache_timeout, sr_arpcache_sweepreqs, SweepNext, Crash, memory
<1>5. sr_handlepacket_ip => UNCHANGED <<reqs, queue>>
  BY DEF sr_handlepacket_ip, memory
<1>6. CASE sr_handlepacket_arp
  BY <1>1, <1>6, ArpPacketKeeps
<1>7. CASE Tick
  BY <1>1, <1>7, TickKeeps
<1>8. UNCHANGED vars => UNCHANGED <<reqs, queue>>
  BY DEF vars, memory
<1>. QED BY <1>1, <1>2, <1>3, <1>4, <1>5, <1>6, <1>7, <1>8 DEF Next

\* The queue is empty at first.
LEMMA InitQueue == Init => QInv
<1>1. SUFFICES ASSUME Init PROVE QInv
  OBVIOUS
<1>2. reqs = [r \in ReqIds |-> Freed] /\ queue = <<>>
  BY <1>1 DEF Init, sr_arpcache_init
<1>3. MemoryOK
  BY <1>2 DEF MemoryOK, Freed
<1>4. <<>> \in Seq(ReqIds) /\ Range(<<>>) = {} /\ DOMAIN <<>> = {}
  BY DEF Range
<1>. QED BY <1>2, <1>3, <1>4 DEF QInv, QueueSound

\* However the main thread and the sweeper interleave, and whatever a freed
\* request that is used does: cache->requests has one request per address and
\* none that was freed (sr_arpcache_queuereq, sr_arpcache_insert and
\* sr_arpreq_destroy change it).
THEOREM RequestQueueSound == Spec => []QueueSound
<1>1. QInv => QueueSound
  BY DEF QInv
<1>. QED BY <1>1, InitQueue, NextKeeps, PTL DEF Spec

-----------------------------------------------------------------------------
\* Routing: packets that have a route have a next hop, and what the router makes
\* of a received packet is a packet.

Routable == {p \in Packet : HasRoute(p.dst)}

\* Host unreachable messages are the router's; all it owes is made from what it
\* received.
Original(p) == p.kind # "host_unreach"

\* The routes with dst in their prefix: what a lookup is to choose from.
Matching(dst) == {i \in DOMAIN Table : dst \in Table[i].prefix}

\* Of the first n routes, i is the last of the best that match, or 0 for none.
BestOf(i, n, dst) ==
    /\ i = 0 => \A j \in Matching(dst) : j > n
    /\ i # 0 => /\ i \in Matching(dst) /\ i <= n
               /\ \A j \in Matching(dst) : j <= n =>
                     /\ Table[j].length <= Table[i].length
                     /\ j > i => Table[j].length < Table[i].length

\* What the loop of longest_prefix_match computes from one route to the next.
LEMMA LpmIs ==
    ASSUME NEW dst
    PROVE  \A n \in 0..Len(Table) :
             /\ Lpm(dst)[n] \in 0..Len(Table)
             /\ Lpm(dst)[n] =
                  IF n = 0 THEN 0
                  ELSE IF Replaces(n, Lpm(dst)[n - 1], dst) THEN n ELSE Lpm(dst)[n - 1]
<1> DEFINE m == Len(Table)
           S == 0..m
           Next1(i, n) == IF Replaces(n, i, dst) THEN n ELSE i
           step == [n \in 1..m |-> [i \in S |-> Next1(i, n)]]
           base == 0
           Is(f) == f = [n \in 0..m |-> IF n = 0 THEN 0 ELSE Next1(f[n - 1], n)]
<1>1. m \in Nat /\ base \in S
  BY RoutingConstants
<1>2. ASSUME NEW n \in 1..m, NEW i \in S PROVE Next1(i, n) \in S
  BY <1>1
<1>. HIDE DEF Next1, m
<1>3. step \in [1..m -> [S -> S]]
  BY <1>2
<1>4. \A n \in 1..m, i \in S : step[n][i] = Next1(i, n)
  OBVIOUS
<1>. HIDE DEF step, base
<1>5. PICK f \in [0..m -> S] :
        f[0] = base /\ \A i \in 1..m : f[i] = step[i][f[i - 1]]
  <2>. HIDE DEF S
  <2>1. Recursive(S, m, base, step)
    BY <1>1, <1>3, Recursion
  <2>. QED BY <2>1 DEF Recursive
<1>6. ASSUME NEW n \in 0..m
      PROVE  f[n] = IF n = 0 THEN 0 ELSE Next1(f[n - 1], n)
  <2>1. CASE n = 0
    BY <1>5, <2>1 DEF base
  <2>2. CASE n # 0
    <3>1. n \in 1..m /\ n - 1 \in 0..m
      BY <1>1, <2>2
    <3>2. f[n - 1] \in S
      BY <1>5, <3>1
    <3>. QED BY <1>4, <1>5, <2>2, <3>1, <3>2
  <2>. QED BY <2>1, <2>2
<1>7. Is(f)
  BY <1>5, <1>6
<1>. DEFINE g == CHOOSE h : Is(h)
<1>8. g = Lpm(dst)
  BY DEF Lpm, Next1, m
<1>9. Is(g)
  BY <1>7
<1>. HIDE DEF g
<1>10. g \in [0..m -> S] /\ \A n \in 0..m : g[n] = IF n = 0 THEN 0 ELSE Next1(g[n - 1], n)
  <2> DEFINE T == {n \in Nat : n <= m => g[n] \in S}
  <2>1. \A n \in 0..m : g[n] = IF n = 0 THEN 0 ELSE Next1(g[n - 1], n)
    BY <1>9
  <2>2. 0 \in T
    BY <1>1, <2>1 DEF base
  <2>3. ASSUME NEW n \in T PROVE n + 1 \in T
    <3>1. SUFFICES ASSUME n + 1 <= m PROVE g[n + 1] \in S
      OBVIOUS
    <3>2. n + 1 \in 1..m /\ (n + 1) - 1 = n /\ n + 1 \in 0..m /\ n + 1 # 0 /\ g[n] \in S
      BY <1>1, <3>1
    <3>. QED BY <1>2, <2>1, <3>2
  <2>4. T \in SUBSET Nat
    OBVIOUS
  <2>. HIDE DEF T
  <2>5. T = Nat
    BY <2>2, <2>3, <2>4, Induction
  <2>6. \A n \in 0..m : g[n] \in S
    BY <1>1, <2>5 DEF T
  <2>7. g = [n \in 0..m |-> g[n]]
    BY <1>9
  <2>. QED BY <2>1, <2>6, <2>7
<1>. QED BY <1>8, <1>10 DEF Next1, m, S

\* The loop of longest_prefix_match returns a route exactly when one matches. No
\* other that matches has a longer mask, and those after it have shorter ones: it
\* is the last of the best.
THEOREM LongestPrefix ==
    ASSUME NEW dst
    PROVE  /\ HasRoute(dst) <=> Matching(dst) # {}
           /\ HasRoute(dst) =>
                \E i \in Matching(dst) :
                  /\ longest_prefix_match(dst) = Table[i]
                  /\ \A j \in Matching(dst) :
                       /\ Table[j].length <= Table[i].length
                       /\ j > i => Table[j].length < Table[i].length
<1> DEFINE m == Len(Table)
           T == {n \in Nat : n <= m => BestOf(Lpm(dst)[n], n, dst)}
<1>1. /\ m \in Nat /\ DOMAIN Table = 1..m /\ Matching(dst) \subseteq 1..m
      /\ \A i \in 1..m : Table[i].length \in Nat
  <2>1. m \in Nat /\ DOMAIN Table = 1..m /\ \A i \in 1..m : Table[i] \in Route
    BY RoutingConstants
  <2>2. \A x \in Route : x.length \in 0..32
    BY DEF Route
  <2>3. 0..32 \subseteq Nat
    OBVIOUS
  <2>. QED BY <2>1, <2>2, <2>3 DEF Matching
<1>2. /\ \A n \in 0..m : Lpm(dst)[n] \in 0..m
      /\ Lpm(dst)[0] = 0
      /\ \A n \in 1..m :
           Lpm(dst)[n] = IF Replaces(n, Lpm(dst)[n - 1], dst) THEN n ELSE Lpm(dst)[n - 1]
  BY <1>1, LpmIs
<1>. HIDE DEF m
<1>3. 0 \in T
  BY <1>1, <1>2 DEF BestOf
<1>4. ASSUME NEW n \in T PROVE n + 1 \in T
  <2>1. SUFFICES ASSUME n + 1 <= m PROVE BestOf(Lpm(dst)[n + 1], n + 1, dst)
    OBVIOUS
  <2> DEFINE i == Lpm(dst)[n]
  <2>2. n \in Nat /\ n + 1 \in 1..m /\ (n + 1) - 1 = n /\ n \in 0..m
    BY <1>1, <2>1
  <2>3. i \in 0..m /\ BestOf(i, n, dst)
    BY <1>2, <2>1, <2>2
  <2>4. Lpm(dst)[n + 1] = IF Replaces(n + 1, i, dst) THEN n + 1 ELSE i
    BY <1>2, <2>2
  <2>. HIDE DEF i
  <2>5. n + 1 \in Matching(dst) <=> dst \in Table[n + 1].prefix
    BY <1>1, <2>2 DEF Matching
  <2>6. \A j \in Matching(dst) : j <= n + 1 => j <= n \/ j = n + 1
    BY <1>1, <2>2
  <2>7. CASE Replaces(n + 1, i, dst)
    <3>1. n + 1 \in Matching(dst) /\ Table[n + 1].length >= LargestMask(i)
      BY <2>5, <2>7 DEF Replaces
    <3>2. ASSUME NEW j \in Matching(dst), j <= n
          PROVE  Table[j].length <= Table[n + 1].length
      <4>1. i # 0 /\ Table[j].length <= Table[i].length /\ i \in 1..m
        BY <1>1, <2>2, <2>3, <3>2 DEF BestOf
      <4>. QED BY <1>1, <2>2, <3>1, <4>1 DEF LargestMask
    <3>3. \A j \in Matching(dst) : j <= n + 1 =>
             Table[j].length <= Table[n + 1].length /\ ~(j > n + 1)
      BY <1>1, <2>2, <2>6, <3>2
    <3>. QED BY <2>2, <2>4, <2>7, <3>1, <3>3 DEF BestOf
  <2>8. CASE ~Replaces(n + 1, i, dst)
    <3>1. CASE i = 0
      <4>1. n + 1 \notin Matching(dst)
        BY <1>1, <2>2, <2>5, <2>8, <3>1 DEF Replaces, LargestMask
      <4>. QED BY <1>1, <2>2, <2>3, <2>4, <2>6, <2>8, <3>1, <4>1 DEF BestOf
    <3>2. CASE i # 0
      <4>1. /\ i \in Matching(dst) /\ i <= n /\ i \in 1..m
            /\ \A j \in Matching(dst) : j <= n =>
                 /\ Table[j].length <= Table[i].length
                 /\ j > i => Table[j].length < Table[i].length
        BY <1>1, <2>3, <3>2 DEF BestOf
      <4>2. n + 1 \in Matching(dst) => Table[n + 1].length < Table[i].length
        BY <1>1, <2>2, <2>5, <2>8, <3>2, <4>1 DEF Replaces, LargestMask
      <4>3. \A j \in Matching(dst) : j <= n + 1 =>
                 /\ Table[j].length <= Table[i].length
                 /\ j > i => Table[j].length < Table[i].length
        BY <1>1, <2>2, <2>6, <4>1, <4>2
      <4>4. i <= n + 1
        BY <2>2, <4>1
      <4>. QED BY <2>4, <2>8, <3>2, <4>1, <4>3, <4>4 DEF BestOf
    <3>. QED BY <3>1, <3>2
  <2>. QED BY <2>7, <2>8
<1>5. BestOf(Lpm(dst)[m], m, dst)
  <2>1. T \in SUBSET Nat
    OBVIOUS
  <2>. HIDE DEF T
  <2>2. T = Nat
    BY <1>3, <1>4, <2>1, Induction
  <2>. QED BY <1>1, <2>2 DEF T
<1>6. HasRoute(dst) <=> Lpm(dst)[m] # 0
  BY DEF HasRoute, m
<1>7. longest_prefix_match(dst) = Table[Lpm(dst)[m]]
  BY DEF longest_prefix_match, m
<1>8. \A j \in Matching(dst) : j <= m /\ ~(j > m)
  BY <1>1
<1>. QED BY <1>5, <1>6, <1>7, <1>8 DEF BestOf

\* So the next hop of such a packet is one of the gateways.
LEMMA NextHopIn ==
    ASSUME NEW dst, HasRoute(dst)
    PROVE  longest_prefix_match(dst) \in Route
<1>1. PICK i \in Matching(dst) : longest_prefix_match(dst) = Table[i]
  BY LongestPrefix
<1>. QED BY <1>1, RoutingConstants DEF Matching

\* A host unreachable message is a packet about the same packet, to its source.
LEMMA HostUnreachableIs ==
    ASSUME NEW p \in Routable
    PROVE  /\ HostUnreachable(p) \in Packet /\ ~Original(HostUnreachable(p))
           /\ HostUnreachable(p).dst = p.src /\ NextHop(p) \in Gateways
<1>1. p \in Packet /\ longest_prefix_match(p.dst) \in Route
  BY NextHopIn DEF Routable
<1>2. IfAddress[longest_prefix_match(p.dst).iface] \in Addresses
  BY <1>1, RoutingConstants DEF Route, Own
<1>. QED BY <1>1, <1>2 DEF HostUnreachable, Icmp, Packet, Kinds, Made, Original, Route, NextHop

\* What comes of a received packet is one packet or none, about the same packet.
Single(ps, id) ==
    \/ ps = {}
    \/ \E p \in Packet : ps = {p} /\ p.id = id /\ Original(p)

\* A received packet leads to one packet to send at most, and that is about it.
LEMMA HandledIs ==
    ASSUME NEW in \in InPackets
    PROVE  Single(sr_handle_ip_packet(in[1], in[2]), in[1].id)
<1> DEFINE p == in[1]
           iface == in[2]
<1>1. p \in Packet /\ iface \in Interfaces /\ p.kind \in Received
  BY ArpConstants
<1>2. /\ p.id \in PacketIds /\ p.src \in Addresses /\ p.dst \in Addresses
      /\ p.ttl \in 0..255 /\ p.kind \in Kinds
      /\ p.kind # "host_unreach" /\ IfAddress[iface] \in Addresses
  BY <1>1, RoutingConstants DEF Packet, Own, Received
<1>. HIDE DEF p, iface
<1>3. ASSUME NEW kind \in {"echo_reply", "port_unreach", "net_unreach", "ttl_exceeded"},
             NEW src \in Addresses
      PROVE  /\ Icmp(kind, p, src, p.src) \in Packet
             /\ Icmp(kind, p, src, p.src).id = p.id
             /\ Original(Icmp(kind, p, src, p.src))
  BY <1>2 DEF Icmp, Packet, Kinds, Made, Original
<1>4. DecrementTTL(p) \in Packet /\ DecrementTTL(p).id = p.id /\ Original(DecrementTTL(p))
  <2>1. (p.ttl - 1) % 256 \in 0..255
    BY <1>2
  <2>2. DecrementTTL(p) = [p EXCEPT !.ttl = (p.ttl - 1) % 256]
    BY DEF DecrementTTL
  <2>. QED BY <1>1, <1>2, <2>1, <2>2 DEF Packet, Original
<1>5. CASE p.dst \in Own
  <2>1. sr_handle_ip_packet(p, iface) = sr_handle_my_ip_packet(p)
    BY <1>5 DEF sr_handle_ip_packet
  <2>2. \/ sr_handle_my_ip_packet(p) = {}
        \/ sr_handle_my_ip_packet(p) = {Icmp("echo_reply", p, p.dst, p.src)}
        \/ sr_handle_my_ip_packet(p) = {Icmp("port_unreach", p, p.dst, p.src)}
    BY DEF sr_handle_my_ip_packet
  <2>. QED BY <1>2, <1>3, <2>1, <2>2 DEF Single, p, iface
<1>6. CASE p.dst \notin Own
  <2>1. \/ sr_handle_ip_packet(p, iface) = {Icmp("ttl_exceeded", p, IfAddress[iface], p.src)}
        \/ sr_handle_ip_packet(p, iface) = {Icmp("net_unreach", p, IfAddress[iface], p.src)}
        \/ sr_handle_ip_packet(p, iface) = {DecrementTTL(p)}
    BY <1>6 DEF sr_handle_ip_packet
  <2>. QED BY <1>2, <1>3, <1>4, <2>1 DEF Single, p, iface
<1>. QED BY <1>5, <1>6

\* Sending none of one packet or none is a call or no call.
Attempt(p) == [fn |-> "sr_attempt_send", pkt |-> p]

\* With one packet to send there is a call of sr_attempt_send if it has a route, and
\* else none; with no packet there is none.
LEMMA AttemptsIs ==
    ASSUME NEW ps, ps = {} \/ \E p : ps = {p}
    PROVE  \/ Routed(ps) = {} /\ Attempts(ps) = <<>>
           \/ \E p \in ps : /\ Routed(ps) = {p} /\ HasRoute(p.dst)
                            /\ Attempts(ps) = <<Attempt(p)>>
<1> DEFINE F == {Attempt(p) : p \in Routed(ps)}
<1>0. Attempts(ps) = SetToSeq(F)
  BY DEF Attempts, Attempt
<1>1. CASE Routed(ps) = {}
  <2>1. F = {} /\ Cardinality(F) = 0
    BY <1>1, FS_EmptySet
  <2>2. \A f \in [1..0 -> F] : f = <<>>
    OBVIOUS
  <2>3. \E f \in [1..0 -> F] : IsInjective(f)
    <3>1. <<>> \in [1..0 -> F] /\ IsInjective(<<>>)
      BY DEF IsInjective
    <3>. QED BY <3>1
  <2>4. SetToSeq(F) = <<>>
    BY <2>1, <2>2, <2>3 DEF SetToSeq
  <2>. QED BY <1>0, <1>1, <2>4
<1>2. CASE Routed(ps) # {}
  <2>1. PICK p \in ps : Routed(ps) = {p} /\ HasRoute(p.dst)
    BY <1>2 DEF Routed
  <2>2. F = {Attempt(p)} /\ Cardinality(F) = 1
    BY <2>1, FS_Singleton
  <2>3. <<Attempt(p)>> \in [1..1 -> F] /\ IsInjective(<<Attempt(p)>>)
    BY <2>2 DEF IsInjective
  <2>4. \A f \in [1..1 -> F] : f = <<Attempt(p)>>
    BY <2>2
  <2>5. SetToSeq(F) = <<Attempt(p)>>
    BY <2>2, <2>3, <2>4 DEF SetToSeq
  <2>. QED BY <1>0, <2>1, <2>5
<1>. QED BY <1>1, <1>2

-----------------------------------------------------------------------------
\* The invariant of the two stacks. First the types: only packets that have a
\* route are kept, and the lock is taken across a step by the sweeper alone.

Sends == [fn : {"sr_attempt_send", "sr_arpcache_queuereq"}, pkt : Routable]
Handles == [fn : {"sr_handle_arpreq"}, req : ReqIds]
SweepNexts == [fn : {"sweep_next"}, req : ReqIds, next : ReqIds \cup {Null}]
Sweeps == [fn : {"sr_arpcache_sweepreqs"}, req : ReqIds \cup {Null}]
Asks == [fn : {"ask"}, req : ReqIds, now : 0..2]
Counts == [fn : {"count"}, req : ReqIds, times_sent : Nat]
GiveUps == [fn : {"sr_send_icmp_to_waiting"}, req : ReqIds, rest : Seq(Routable)]
Answers == [fn : {"sr_recv_arp"}, req : ReqIds, rest : Seq(Routable)]

Call == Sends \cup Handles \cup SweepNexts \cup Sweeps \cup Asks \cup Counts
        \cup GiveUps \cup Answers

Queueing == [live : {TRUE}, ip : Gateways, sent_ago : 0..2, times_sent : Nat,
             packets : Seq(Routable) \ {<<>>}]

Stacks == [Threads -> Seq(Call)]

Typed ==
    /\ entries \in [Slots -> Entry]
    /\ reqs \in [ReqIds -> Queueing \cup {Freed}]
    /\ queue \in Seq(ReqIds)
    /\ lock \in {Sweeper, Null}
    /\ stack \in Stacks
    /\ slept \in BOOLEAN /\ crashed \in BOOLEAN
    /\ arrived \subseteq InPackets /\ arps \in 0..MaxArps
    /\ sent \subseteq Packet /\ refused \subseteq Routable

\* Who calls another function waits in one of three; three are called first.
Below == {"sr_send_icmp_to_waiting", "sr_recv_arp", "sweep_next"}
Bottom == {"sr_recv_arp", "sweep_next", "sr_arpcache_sweepreqs"}

Placed(t, fn, i, n) ==
    /\ i > 1 => fn \in Below
    /\ fn \in Bottom => i = n
    /\ fn \in {"sweep_next", "sr_arpcache_sweepreqs"} => t = Sweeper
    /\ fn = "sr_recv_arp" => t = Main

ShapeOK ==
    /\ \A t \in Threads : \A i \in DOMAIN stack[t] :
         Placed(t, stack[t][i].fn, i, Len(stack[t]))
    /\ lock = Null => stack[Sweeper] = <<>>

Calls(t) == Range(stack[t])
Waits(t) == Range(Tail(stack[t]))

\* A request a call points to is freed or in the queue, except the one that
\* sr_recv_arp took out of it.
HeldCall(f) ==
    /\ f.fn \in {"sr_handle_arpreq", "sweep_next", "sr_arpcache_sweepreqs",
                 "ask", "count", "sr_send_icmp_to_waiting"} =>
         f.req = Null \/ ~reqs[f.req].live \/ f.req \in Range(queue)
    /\ f.fn = "sweep_next" =>
         f.next = Null \/ ~reqs[f.next].live \/ f.next \in Range(queue)
    /\ f.fn = "sr_recv_arp" => reqs[f.req].live /\ f.req \notin Range(queue)

HeldOK == \A t \in Threads : \A f \in Calls(t) : HeldCall(f)

\* What a call can be, by its function.
LEMMA CallIs ==
    ASSUME NEW f \in Call
    PROVE  /\ f.fn \in {"sr_attempt_send", "sr_arpcache_queuereq"} =>
                f \in Sends /\ f.pkt \in Routable
           /\ f.fn = "sr_handle_arpreq" => f \in Handles /\ f.req \in ReqIds
           /\ f.fn = "sweep_next" => f \in SweepNexts /\ f.req \in ReqIds
                                     /\ f.next \in ReqIds \cup {Null}
           /\ f.fn = "sr_arpcache_sweepreqs" => f \in Sweeps /\ f.req \in ReqIds \cup {Null}
           /\ f.fn = "ask" => f \in Asks /\ f.req \in ReqIds /\ f.now \in 0..2
           /\ f.fn = "count" => f \in Counts /\ f.req \in ReqIds /\ f.times_sent \in Nat
           /\ f.fn = "sr_send_icmp_to_waiting" =>
                f \in GiveUps /\ f.req \in ReqIds /\ f.rest \in Seq(Routable)
           /\ f.fn = "sr_recv_arp" =>
                f \in Answers /\ f.req \in ReqIds /\ f.rest \in Seq(Routable)
BY DEF Call, Sends, Handles, SweepNexts, Sweeps, Asks, Counts, GiveUps, Answers

\* The calls the steps make.
LEMMA CallMade ==
    /\ \A p \in Routable : Attempt(p) \in Call
    /\ \A p \in Routable : [fn |-> "sr_arpcache_queuereq", pkt |-> p] \in Call
    /\ \A r \in ReqIds : [fn |-> "sr_handle_arpreq", req |-> r] \in Call
    /\ \A r \in ReqIds, n \in ReqIds \cup {Null} :
         [fn |-> "sweep_next", req |-> r, next |-> n] \in Call
    /\ \A r \in ReqIds \cup {Null} : [fn |-> "sr_arpcache_sweepreqs", req |-> r] \in Call
    /\ \A r \in ReqIds : [fn |-> "ask", req |-> r, now |-> 0] \in Call
    /\ \A r \in ReqIds, n \in Nat : [fn |-> "count", req |-> r, times_sent |-> n] \in Call
    /\ \A r \in ReqIds, s \in Seq(Routable) :
         /\ [fn |-> "sr_send_icmp_to_waiting", req |-> r, rest |-> s] \in Call
         /\ [fn |-> "sr_recv_arp", req |-> r, rest |-> s] \in Call
BY DEF Attempt, Call, Sends, Handles, SweepNexts, Sweeps, Asks, Counts, GiveUps, Answers

\* The running call is the first, and the rest are those it returns to.
LEMMA CallsAre ==
    ASSUME stack \in Stacks, NEW t \in Threads, stack[t] # <<>>
    PROVE  /\ Here(t) = stack[t][1] /\ Here(t) \in Call /\ Here(t) \in Calls(t)
           /\ 1 \in DOMAIN stack[t]
           /\ Tail(stack[t]) \in Seq(Call) /\ Len(stack[t]) \in Nat
           /\ Len(Tail(stack[t])) = Len(stack[t]) - 1
           /\ \A i \in DOMAIN Tail(stack[t]) :
                i + 1 \in DOMAIN stack[t] /\ Tail(stack[t])[i] = stack[t][i + 1]
           /\ Calls(t) = {Here(t)} \cup Waits(t)
           /\ \A f \in Calls(t) : f \in Call
<1>1. stack[t] \in Seq(Call)
  BY DEF Stacks
<1>2. /\ Len(stack[t]) \in Nat /\ DOMAIN stack[t] = 1..Len(stack[t])
      /\ Len(stack[t]) # 0
  BY <1>1
<1>3. /\ Tail(stack[t]) \in Seq(Call) /\ Len(Tail(stack[t])) = Len(stack[t]) - 1
      /\ \A i \in 1..Len(Tail(stack[t])) : Tail(stack[t])[i] = stack[t][i + 1]
      /\ Head(stack[t]) \in Call /\ Head(stack[t]) = stack[t][1]
  BY <1>1, HeadTailProperties
<1>4. DOMAIN Tail(stack[t]) = 1..(Len(stack[t]) - 1) /\ 1 \in DOMAIN stack[t]
  BY <1>2, <1>3
<1>5. \A i \in DOMAIN Tail(stack[t]) : i + 1 \in DOMAIN stack[t]
  BY <1>2, <1>4
<1>6. \A f \in Calls(t) : f \in Call
  BY <1>1 DEF Calls, Range
<1>7. ASSUME NEW f \in Calls(t) PROVE f = stack[t][1] \/ f \in Waits(t)
  <2>1. PICK i \in DOMAIN stack[t] : f = stack[t][i]
    BY DEF Calls, Range
  <2>2. CASE i = 1
    BY <2>1, <2>2
  <2>3. CASE i # 1
    <3>1. i - 1 \in DOMAIN Tail(stack[t]) /\ i = (i - 1) + 1
      BY <1>2, <1>4, <2>3
    <3>2. Tail(stack[t])[i - 1] = f
      BY <1>3, <1>4, <2>1, <3>1
    <3>. QED BY <3>1, <3>2 DEF Waits, Range
  <2>. QED BY <2>2, <2>3
<1>8. \A f \in Waits(t) : f \in Calls(t)
  BY <1>3, <1>4, <1>5 DEF Calls, Waits, Range
<1>9. stack[t][1] \in Calls(t)
  BY <1>4 DEF Calls, Range
<1>. QED BY <1>2, <1>3, <1>4, <1>5, <1>6, <1>7, <1>8, <1>9 DEF Here

\* What Goto does: the calls of new come instead of the running one.
Gone(t, new) ==
    /\ stack' \in Stacks
    /\ \A u \in Threads : u # t => stack'[u] = stack[u] /\ Calls(u)' = Calls(u)
    /\ Calls(t)' = Range(new) \cup Waits(t)
    /\ Len(stack'[t]) = Len(new) + (Len(stack[t]) - 1)
    /\ DOMAIN stack'[t] = 1..Len(stack'[t])
    /\ \A i \in DOMAIN new : i \in DOMAIN stack'[t] /\ stack'[t][i] = new[i]
    /\ \A i \in DOMAIN stack'[t] :
         i \in DOMAIN new \/ /\ i - Len(new) \in DOMAIN Tail(stack[t])
                             /\ stack'[t][i] = Tail(stack[t])[i - Len(new)]

\* Such a step of a thread puts its new calls in the place of the one it ends.
LEMMA GotoIs ==
    ASSUME stack \in Stacks, NEW t \in Threads, stack[t] # <<>>,
           NEW new \in Seq(Call), Goto(t, new)
    PROVE  Gone(t, new)
<1> DEFINE old == Tail(stack[t])
<1>1. old \in Seq(Call) /\ Len(old) = Len(stack[t]) - 1 /\ Len(old) \in Nat
  BY CallsAre
<1>2. stack' = [stack EXCEPT ![t] = new \o old]
  BY DEF Goto
<1>3. /\ new \o old \in Seq(Call)
      /\ \A i \in DOMAIN new : i \in DOMAIN (new \o old) /\ (new \o old)[i] = new[i]
      /\ \A j \in DOMAIN old :
           Len(new) + j \in DOMAIN (new \o old) /\ (new \o old)[Len(new) + j] = old[j]
      /\ \A i \in DOMAIN (new \o old) :
           \/ i \in DOMAIN new
           \/ i - Len(new) \in DOMAIN old /\ i = Len(new) + (i - Len(new))
  BY <1>1, ConcatIs
<1>4. Len(new \o old) = Len(new) + Len(old) /\ DOMAIN (new \o old) = 1..Len(new \o old)
  BY <1>1, ConcatProperties
<1>. HIDE DEF old
<1>5. /\ stack' \in Stacks /\ stack'[t] = new \o old
      /\ \A u \in Threads : u # t => stack'[u] = stack[u]
  BY <1>2, <1>3 DEF Stacks
<1>6. \A u \in Threads : u # t => Calls(u)' = Calls(u)
  BY <1>5 DEF Calls
<1>7. Calls(t)' = Range(new) \cup Range(old)
  <2>1. Calls(t)' = {(new \o old)[i] : i \in DOMAIN (new \o old)}
    BY <1>5 DEF Calls, Range
  <2>2. ASSUME NEW f \in Calls(t)' PROVE f \in Range(new) \cup Range(old)
    <3>1. PICK i \in DOMAIN (new \o old) : f = (new \o old)[i]
      BY <2>1, <2>2
    <3>2. CASE i \in DOMAIN new
      BY <1>3, <3>1, <3>2 DEF Range
    <3>3. CASE i - Len(new) \in DOMAIN old /\ i = Len(new) + (i - Len(new))
      <4>1. f = old[i - Len(new)]
        BY <1>3, <3>1, <3>3
      <4>. QED BY <3>3, <4>1 DEF Range
    <3>. QED BY <1>3, <3>1, <3>2, <3>3
  <2>3. \A f \in Range(new) : f \in Calls(t)'
    BY <1>3, <2>1 DEF Range
  <2>4. \A f \in Range(old) : f \in Calls(t)'
    BY <1>3, <2>1 DEF Range
  <2>. QED BY <2>2, <2>3, <2>4
<1>8. \A i \in DOMAIN stack'[t] :
         i \in DOMAIN new \/ /\ i - Len(new) \in DOMAIN old
                             /\ stack'[t][i] = old[i - Len(new)]
  BY <1>3, <1>5
<1>9. \A i \in DOMAIN new : i \in DOMAIN stack'[t] /\ stack'[t][i] = new[i]
  BY <1>3, <1>5
<1>. QED BY <1>1, <1>4, <1>5, <1>6, <1>7, <1>8, <1>9 DEF Gone, Waits, old

\* The calls that wait are below, and three kinds of call have none below them.
LEMMA WaitsAre ==
    ASSUME stack \in Stacks, ShapeOK, NEW t \in Threads, stack[t] # <<>>
    PROVE  /\ \A f \in Waits(t) : f.fn \in Below
           /\ Here(t).fn \in Bottom => Waits(t) = {} /\ Tail(stack[t]) = <<>>
           /\ Here(t).fn \in {"sweep_next", "sr_arpcache_sweepreqs"} => t = Sweeper
           /\ Here(t).fn = "sr_recv_arp" => t = Main
           /\ \A f \in Calls(t) :
                /\ f.fn \in {"sweep_next", "sr_arpcache_sweepreqs"} => t = Sweeper
                /\ f.fn = "sr_recv_arp" => t = Main
<1>1. /\ Here(t) = stack[t][1] /\ 1 \in DOMAIN stack[t] /\ Len(stack[t]) \in Nat
      /\ Tail(stack[t]) \in Seq(Call)
      /\ Len(Tail(stack[t])) = Len(stack[t]) - 1
      /\ \A i \in DOMAIN Tail(stack[t]) :
           i + 1 \in DOMAIN stack[t] /\ Tail(stack[t])[i] = stack[t][i + 1]
  BY CallsAre
<1>2. \A i \in DOMAIN stack[t] : Placed(t, stack[t][i].fn, i, Len(stack[t]))
  BY DEF ShapeOK
<1>3. DOMAIN Tail(stack[t]) = 1..(Len(stack[t]) - 1)
  BY <1>1
<1>4. ASSUME NEW f \in Waits(t) PROVE f.fn \in Below
  <2>1. PICK i \in DOMAIN Tail(stack[t]) : f = stack[t][i + 1] /\ i + 1 \in DOMAIN stack[t]
    BY <1>1 DEF Waits, Range
  <2>2. i + 1 > 1
    BY <1>1, <1>3
  <2>. QED BY <1>2, <2>1, <2>2 DEF Placed
<1>5. ASSUME Here(t).fn \in Bottom PROVE Waits(t) = {} /\ Tail(stack[t]) = <<>>
  <2>1. Len(stack[t]) = 1
    BY <1>1, <1>2, <1>5 DEF Placed
  <2>2. Tail(stack[t]) = <<>>
    BY <1>1, <2>1, EmptySeq
  <2>. QED BY <2>2 DEF Waits, Range
<1>6. \A f \in Calls(t) :
        /\ f.fn \in {"sweep_next", "sr_arpcache_sweepreqs"} => t = Sweeper
        /\ f.fn = "sr_recv_arp" => t = Main
  BY <1>2 DEF Placed, Calls, Range
<1>. QED BY <1>1, <1>2, <1>4, <1>5, <1>6 DEF Placed

\* New calls on top of the others keep the shape.
LEMMA GoneKeepsShape ==
    ASSUME stack \in Stacks, ShapeOK, NEW t \in Threads, stack[t] # <<>>,
           NEW new \in Seq(Call), Gone(t, new), lock' = lock,
           t = Sweeper => lock # Null,
           \A i \in DOMAIN new :
              /\ Placed(t, new[i].fn, i, Len(new))
              /\ new[i].fn \in Bottom => Tail(stack[t]) = <<>>
    PROVE  ShapeOK'
<1>1. /\ Len(stack[t]) \in Nat /\ Len(stack[t]) # 0 /\ Tail(stack[t]) \in Seq(Call)
      /\ Len(Tail(stack[t])) = Len(stack[t]) - 1
      /\ \A i \in DOMAIN Tail(stack[t]) :
           i + 1 \in DOMAIN stack[t] /\ Tail(stack[t])[i] = stack[t][i + 1]
      /\ DOMAIN new = 1..Len(new) /\ Len(new) \in Nat
  <2>1. 1 \in DOMAIN stack[t] /\ stack[t] \in Seq(Call)
    BY CallsAre DEF Stacks
  <2>2. Len(stack[t]) # 0
    BY <2>1
  <2>. QED BY <2>2, CallsAre
<1>2. \A u \in Threads : \A i \in DOMAIN stack[u] :
        Placed(u, stack[u][i].fn, i, Len(stack[u]))
  BY DEF ShapeOK
<1>3. ASSUME NEW i \in DOMAIN stack'[t]
      PROVE  Placed(t, stack'[t][i].fn, i, Len(stack'[t]))
  <2>1. /\ DOMAIN stack'[t] = 1..Len(stack'[t])
        /\ Len(stack'[t]) = Len(new) + (Len(stack[t]) - 1)
    BY DEF Gone
  <2>2. CASE i \in DOMAIN new
    <3>1. stack'[t][i] = new[i] /\ Placed(t, new[i].fn, i, Len(new))
      BY <2>2 DEF Gone
    <3>2. ASSUME new[i].fn \in Bottom PROVE Len(stack[t]) = 1
      <4>1. Tail(stack[t]) = <<>>
        BY <2>2, <3>2
      <4>2. Len(<<>>) = 0
        OBVIOUS
      <4>3. Len(Tail(stack[t])) = 0
        BY <4>1, <4>2, Zenon
      <4>. QED BY <1>1, <4>3
    <3>. QED BY <1>1, <2>1, <3>1, <3>2 DEF Placed
  <2>3. CASE i \notin DOMAIN new
    <3> DEFINE j == i - Len(new)
    <3>1. j \in DOMAIN Tail(stack[t]) /\ stack'[t][i] = Tail(stack[t])[j]
      BY <2>3 DEF Gone
    <3>2. j + 1 \in DOMAIN stack[t] /\ stack'[t][i] = stack[t][j + 1] /\ j \in Nat /\ j + 1 > 1
      BY <1>1, <3>1
    <3>3. Placed(t, stack[t][j + 1].fn, j + 1, Len(stack[t]))
      BY <1>2, <3>2
    <3>4. i \in Nat /\ j + 1 = Len(stack[t]) => i = Len(stack'[t])
      BY <1>1, <2>1, <3>2
    <3>5. i \in Nat
      BY <1>1, <2>1
    <3>. QED BY <3>2, <3>3, <3>4, <3>5 DEF Placed
  <2>. QED BY <2>2, <2>3
<1>4. \A u \in Threads : u # t => stack'[u] = stack[u]
  BY DEF Gone
<1>5. lock' = Null => stack'[Sweeper] = <<>>
  BY <1>4 DEF ShapeOK, Threads
<1>. QED BY <1>2, <1>3, <1>4, <1>5 DEF ShapeOK

-----------------------------------------------------------------------------
\* The places of a packet. One the router owes is in one place at a time: about
\* to be sent by the main thread, among those it sends after an answer, in one
\* request of the queue, sent, or refused, and a refused one may still be in the
\* request that is being given up.

Sending(t, p) ==
    \E f \in Calls(t) : /\ f.fn \in {"sr_attempt_send", "sr_arpcache_queuereq"}
                        /\ f.pkt = p

Answered(p) == \E f \in Calls(Main) : f.fn = "sr_recv_arp" /\ p \in Range(f.rest)

Queued(r, p) == r \in Range(queue) /\ p \in Range(reqs[r].packets)

GivingUp(t, r) ==
    \E f \in Calls(t) : f.fn = "sr_send_icmp_to_waiting" /\ f.req = r

\* What is still to be refused is what is in the request, less what was.
GivenUp(f, p) ==
    f.fn = "sr_send_icmp_to_waiting" =>
        /\ Queued(f.req, p) => p \in refused \/ p \in Range(f.rest)
        /\ p \in Range(f.rest) => p \in refused \/ Queued(f.req, p)

Apart(p) ==
    /\ p \in sent => /\ ~Sending(Main, p) /\ ~Answered(p) /\ p \notin refused
                     /\ \A r \in ReqIds : ~Queued(r, p)
    /\ Sending(Main, p) => /\ ~Answered(p) /\ p \notin refused
                           /\ \A r \in ReqIds : ~Queued(r, p)
    /\ Answered(p) => p \notin refused /\ \A r \in ReqIds : ~Queued(r, p)
    /\ \A r, q \in ReqIds : Queued(r, p) /\ Queued(q, p) => r = q

InPlace(p) ==
    \/ p \in sent \/ p \in refused \/ Sending(Main, p) \/ Answered(p)
    \/ \E r \in ReqIds : Queued(r, p)

OnePlace(p) ==
    /\ Apart(p)
    /\ \A r \in ReqIds :
         Queued(r, p) /\ p \in refused => \E t \in Threads : GivingUp(t, r)
    /\ \A t \in Threads : \A f \in Calls(t) : GivenUp(f, p)
    /\ InPlace(p) <=> p \in Owed

\* The router's messages about its packets are sent while giving up, all others
\* by the main thread when it is not giving up anything.
FirstHand(p) ==
    /\ ~Sending(Sweeper, p)
    /\ Sending(Main, p) => \A r \in ReqIds : ~GivingUp(Main, r)

Once(s) == \A i, j \in DOMAIN s : s[i] = s[j] /\ Original(s[i]) => i = j

OnceEach ==
    /\ \A r \in Range(queue) : Once(reqs[r].packets)
    /\ \A f \in Calls(Main) : f.fn = "sr_recv_arp" => Once(f.rest)

PlacesOK ==
    /\ \A p \in Routable : Original(p) => OnePlace(p) /\ FirstHand(p)
    /\ OnceEach

SInv == Typed /\ ShapeOK /\ HeldOK /\ PlacesOK /\ QInv

\* Nothing changes for a packet when its places and what is being given up stay.
Stays(p) ==
    /\ p \in sent' <=> p \in sent
    /\ p \in refused' <=> p \in refused
    /\ p \in Owed' <=> p \in Owed
    /\ \A t \in Threads : Sending(t, p)' <=> Sending(t, p)
    /\ Answered(p)' <=> Answered(p)
    /\ \A r \in ReqIds : Queued(r, p)' <=> Queued(r, p)

SameGivingUp ==
    /\ \A t \in Threads : \A f :
         f.fn = "sr_send_icmp_to_waiting" => (f \in Calls(t)' <=> f \in Calls(t))
    /\ \A t \in Threads : \A f \in Calls(t)' : f \in Call

\* The router's threads are two.
LEMMA MainSweeper == Main \in Threads /\ Sweeper \in Threads /\ Main # Sweeper
BY ArpConstants DEF Threads

\* A packet that stays where it is keeps its one place.
LEMMA StaysKeeps ==
    ASSUME NEW p, OnePlace(p), FirstHand(p), Stays(p), SameGivingUp
    PROVE  OnePlace(p)' /\ FirstHand(p)'
<1>1. Apart(p)'
  BY MainSweeper DEF Stays, OnePlace, Apart
<1>2. \A t \in Threads, r \in ReqIds : GivingUp(t, r)' <=> GivingUp(t, r)
  BY DEF SameGivingUp, GivingUp
<1>3. \A r \in ReqIds :
        Queued(r, p)' /\ p \in refused' => \E t \in Threads : GivingUp(t, r)'
  BY <1>2 DEF Stays, OnePlace
<1>4. ASSUME NEW t \in Threads, NEW f \in Calls(t)'
      PROVE  GivenUp(f, p)'
  <2>1. CASE f.fn # "sr_send_icmp_to_waiting"
    BY <2>1 DEF GivenUp
  <2>2. CASE f.fn = "sr_send_icmp_to_waiting"
    <3>1. f \in Calls(t) /\ f.req \in ReqIds
      BY <1>4, <2>2, CallIs DEF SameGivingUp
    <3>2. GivenUp(f, p)
      BY <3>1 DEF OnePlace
    <3>. QED BY <3>1, <3>2 DEF GivenUp, Stays
  <2>. QED BY <2>1, <2>2
<1>5. InPlace(p)' <=> p \in Owed'
  BY MainSweeper DEF Stays, OnePlace, InPlace
<1>6. FirstHand(p)'
  BY <1>2, MainSweeper DEF Stays, FirstHand
<1>. QED BY <1>1, <1>3, <1>4, <1>5, <1>6 DEF OnePlace

-----------------------------------------------------------------------------
\* What is known of a thread that is running, and what its steps change

Running(t) ==
    /\ Here(t) \in Call /\ Here(t) \in Calls(t)
    /\ Calls(t) = {Here(t)} \cup Waits(t)
    /\ \A f \in Calls(t) : f \in Call /\ HeldCall(f)
    /\ \A f \in Waits(t) : f.fn \in Below
    /\ Here(t).fn \in Bottom => Waits(t) = {} /\ Tail(stack[t]) = <<>>
    /\ Here(t).fn \in {"sweep_next", "sr_arpcache_sweepreqs"} => t = Sweeper
    /\ Here(t).fn = "sr_recv_arp" => t = Main
    /\ t = Sweeper => lock = Sweeper

\* A thread that has a call in progress is running.
LEMMA RunningIs ==
    ASSUME SInv, NEW t \in Threads, stack[t] # <<>>
    PROVE  Running(t)
<1>1. stack \in Stacks /\ ShapeOK /\ lock \in {Sweeper, Null}
  BY DEF SInv, Typed
<1>2. t = Sweeper => lock = Sweeper
  BY <1>1 DEF ShapeOK
<1>3. \A f \in Calls(t) : HeldCall(f)
  BY DEF SInv, HeldOK
<1>. QED BY <1>1, <1>2, <1>3, CallsAre, WaitsAre DEF Running

\* Short sequences of calls.
LEMMA RangeOf ==
    /\ Range(<<>>) = {}
    /\ \A f : Range(<<f>>) = {f}
    /\ \A f, g : Range(<<f, g>>) = {f, g}
    /\ \A f \in Call : <<f>> \in Seq(Call)
    /\ \A f, g \in Call : <<f, g>> \in Seq(Call)
    /\ <<>> \in Seq(Call)
BY DEF Range

\* Which calls may be made where.
Fits(t, new) ==
    \A i \in DOMAIN new :
       /\ Placed(t, new[i].fn, i, Len(new))
       /\ new[i].fn \in Bottom => Tail(stack[t]) = <<>>

\* No call, a call that may be made anywhere, and the sweep of an empty stack fit.
LEMMA FitsIf ==
    ASSUME NEW t
    PROVE  /\ Fits(t, <<>>)
           /\ \A f : f.fn \notin Bottom => Fits(t, <<f>>)
           /\ \A f : /\ f.fn = "sr_arpcache_sweepreqs" /\ t = Sweeper
                     /\ Tail(stack[t]) = <<>>
                     => Fits(t, <<f>>)
           /\ \A f, g : /\ f.fn \notin Bottom /\ g.fn = "sr_send_icmp_to_waiting"
                        => Fits(t, <<f, g>>)
           /\ \A f, g : /\ f.fn \notin Bottom /\ Tail(stack[t]) = <<>>
                        /\ \/ g.fn = "sweep_next" /\ t = Sweeper
                           \/ g.fn = "sr_recv_arp" /\ t = Main
                        => Fits(t, <<f, g>>)
<1>1. /\ DOMAIN <<>> = {} /\ \A f : DOMAIN <<f>> = {1} /\ <<f>>[1] = f /\ Len(<<f>>) = 1
      /\ \A f, g : /\ DOMAIN <<f, g>> = {1, 2} /\ Len(<<f, g>>) = 2
                   /\ <<f, g>>[1] = f /\ <<f, g>>[2] = g
  OBVIOUS
<1>2. Fits(t, <<>>)
  BY <1>1 DEF Fits
<1>3. ASSUME NEW f, f.fn \notin Bottom PROVE Fits(t, <<f>>)
  BY <1>1, <1>3 DEF Fits, Placed, Bottom
<1>4. ASSUME NEW f, f.fn = "sr_arpcache_sweepreqs", t = Sweeper, Tail(stack[t]) = <<>>
      PROVE  Fits(t, <<f>>)
  BY <1>1, <1>4 DEF Fits, Placed, Bottom
<1>5. ASSUME NEW f, NEW g, f.fn \notin Bottom, g.fn \in Below,
             g.fn \in Bottom => Tail(stack[t]) = <<>>,
             g.fn = "sweep_next" => t = Sweeper, g.fn = "sr_recv_arp" => t = Main
      PROVE  Fits(t, <<f, g>>)
  <2>1. Placed(t, f.fn, 1, 2)
    BY <1>5 DEF Placed, Bottom
  <2>2. Placed(t, g.fn, 2, 2)
    BY <1>5 DEF Placed, Below
  <2>. QED BY <1>1, <1>5, <2>1, <2>2 DEF Fits
<1>. QED BY <1>2, <1>3, <1>4, <1>5 DEF Below, Bottom

\* Such a step keeps the shape and the pointers.
LEMMA GoneKeeps ==
    ASSUME SInv, NEW t \in Threads, stack[t] # <<>>, NEW new \in Seq(Call),
           Goto(t, new), Fits(t, new), lock' = lock
    PROVE  Gone(t, new) /\ stack' \in Stacks /\ ShapeOK'
<1>1. stack \in Stacks /\ ShapeOK /\ Running(t)
  BY RunningIs DEF SInv, Typed
<1>2. Gone(t, new)
  BY <1>1, GotoIs
<1>3. t = Sweeper => lock # Null
  BY <1>1, ArpConstants DEF Running, Threads
<1>. QED BY <1>1, <1>2, <1>3, GoneKeepsShape DEF Fits, Gone

\* A step that changes no request keeps what the calls know of theirs, if its new
\* calls know as much.
LEMMA GoneHeld ==
    ASSUME SInv, NEW t \in Threads, stack[t] # <<>>, NEW new, Gone(t, new),
           reqs' = reqs, queue' = queue,
           \A f \in Range(new) : HeldCall(f)
    PROVE  HeldOK'
<1>1. Running(t) /\ HeldOK
  BY RunningIs DEF SInv
<1>2. ASSUME NEW u \in Threads, NEW f \in Calls(u)' PROVE HeldCall(f)
  BY <1>1, <1>2 DEF Gone, Running, HeldOK
<1>3. ASSUME NEW u \in Threads, NEW f \in Calls(u)' PROVE HeldCall(f)'
  BY <1>2, <1>3 DEF HeldCall
<1>. QED BY <1>3 DEF HeldOK

\* What such a step does to the places of packets.
LEMMA GoneViews ==
    ASSUME SInv, NEW t \in Threads, stack[t] # <<>>, NEW new \in Seq(Call), Gone(t, new)
    PROVE  /\ \A p : \A u \in Threads : u # t => (Sending(u, p)' <=> Sending(u, p))
           /\ \A p : Sending(t, p) <=>
                /\ Here(t).fn \in {"sr_attempt_send", "sr_arpcache_queuereq"}
                /\ Here(t).pkt = p
           /\ \A p : Sending(t, p)' <=>
                \E f \in Range(new) :
                  /\ f.fn \in {"sr_attempt_send", "sr_arpcache_queuereq"}
                  /\ f.pkt = p
           /\ \A u \in Threads : \A f \in Calls(u)' : f \in Call
           /\ Here(t).fn # "sr_send_icmp_to_waiting"
              /\ (\A f \in Range(new) : f.fn # "sr_send_icmp_to_waiting")
              => SameGivingUp
           /\ Here(t).fn # "sr_recv_arp" /\ (\A f \in Range(new) : f.fn # "sr_recv_arp")
              => /\ \A p : Answered(p)' <=> Answered(p)
                 /\ \A f \in Calls(Main)' : f.fn = "sr_recv_arp" => f \in Calls(Main)
<1>1. Running(t)
  BY RunningIs
<1>2. /\ \A u \in Threads : u # t => Calls(u)' = Calls(u)
      /\ Calls(t)' = Range(new) \cup Waits(t)
      /\ Calls(t) = {Here(t)} \cup Waits(t)
      /\ \A f \in Waits(t) : f.fn \notin {"sr_attempt_send", "sr_arpcache_queuereq"}
  BY <1>1 DEF Gone, Running, Below
<1>3. stack' \in Stacks
  BY DEF Gone
<1>4. \A u \in Threads : \A f \in Calls(u)' : f \in Call
  BY <1>3 DEF Stacks, Calls, Range
<1>5. \A p : \A u \in Threads : u # t => (Sending(u, p)' <=> Sending(u, p))
  BY <1>2 DEF Sending
<1>6. \A p : Sending(t, p) <=>
        /\ Here(t).fn \in {"sr_attempt_send", "sr_arpcache_queuereq"}
        /\ Here(t).pkt = p
  BY <1>2 DEF Sending
<1>7. \A p : Sending(t, p)' <=>
        \E f \in Range(new) :
          f.fn \in {"sr_attempt_send", "sr_arpcache_queuereq"} /\ f.pkt = p
  BY <1>2 DEF Sending
<1>8. ASSUME Here(t).fn # "sr_send_icmp_to_waiting",
             \A f \in Range(new) : f.fn # "sr_send_icmp_to_waiting"
      PROVE  SameGivingUp
  BY <1>2, <1>4, <1>8 DEF SameGivingUp
<1>9. ASSUME Here(t).fn # "sr_recv_arp", \A f \in Range(new) : f.fn # "sr_recv_arp"
      PROVE  /\ \A p : Answered(p)' <=> Answered(p)
             /\ \A f \in Calls(Main)' : f.fn = "sr_recv_arp" => f \in Calls(Main)
  <2>1. \A f : f.fn = "sr_recv_arp" => (f \in Calls(Main)' <=> f \in Calls(Main))
    BY <1>2, <1>9, MainSweeper
  <2>. QED BY <2>1 DEF Answered
<1>. QED BY <1>4, <1>5, <1>6, <1>7, <1>8, <1>9

-----------------------------------------------------------------------------
\* The steps of a thread

\* A packet that a thread is about to send is the main thread's if it is owed.
LEMMA SenderIs ==
    ASSUME SInv, NEW t \in Threads, stack[t] # <<>>,
           Here(t).fn \in {"sr_attempt_send", "sr_arpcache_queuereq"}
    PROVE  /\ Here(t).pkt \in Routable /\ Sending(t, Here(t).pkt)
           /\ Original(Here(t).pkt) => t = Main
<1>1. Running(t)
  BY RunningIs
<1>2. Here(t).pkt \in Routable /\ Sending(t, Here(t).pkt)
  BY <1>1, CallIs DEF Running, Sending
<1>3. Original(Here(t).pkt) => ~Sending(Sweeper, Here(t).pkt)
  BY <1>2 DEF SInv, PlacesOK, FirstHand
<1>. QED BY <1>2, <1>3 DEF Threads

\* A hit: the packet is sent. A miss: nothing has happened to it.
LEMMA LookupKeeps ==
    ASSUME SInv, NEW t \in Threads, sr_arpcache_lookup(t)
    PROVE  Typed' /\ ShapeOK' /\ HeldOK' /\ PlacesOK'
<1> DEFINE q == Here(t).pkt
           miss == [fn |-> "sr_arpcache_queuereq", pkt |-> q]
<1>1. /\ stack[t] # <<>> /\ Here(t).fn = "sr_attempt_send"
      /\ UNCHANGED <<entries, reqs, queue, lock, slept, arrived, arps, refused, crashed>>
      /\ \/ sent' = sent \cup {q} /\ Goto(t, <<>>)
         \/ sent' = sent /\ Goto(t, <<miss>>)
  BY DEF sr_arpcache_lookup, At, Here, Return, memory, input
<1>2. Running(t) /\ q \in Routable /\ Sending(t, q) /\ (Original(q) => t = Main)
  BY <1>1, RunningIs, SenderIs
<1>3. miss \in Call /\ miss.fn = "sr_arpcache_queuereq" /\ miss.pkt = q
  BY <1>2, CallMade
<1>. HIDE DEF q, miss
<1>4. PICK new \in Seq(Call) :
        /\ Goto(t, new)
        /\ \/ new = <<>> /\ sent' = sent \cup {q}
           \/ new = <<miss>> /\ sent' = sent
  BY <1>1, <1>3, RangeOf
<1>5. Fits(t, new)
  BY <1>3, <1>4, FitsIf DEF Bottom
<1>6. Gone(t, new) /\ stack' \in Stacks /\ ShapeOK'
  BY <1>1, <1>4, <1>5, GoneKeeps
<1>7. \A f \in Range(new) : f = miss
  BY <1>4, RangeOf
<1>8. HeldOK'
  <2>1. HeldCall(miss)
    BY <1>3 DEF HeldCall
  <2>. QED BY <1>1, <1>6, <1>7, <2>1, GoneHeld
<1>9. Typed'
  <2>1. sent' \subseteq Packet
    BY <1>2, <1>4 DEF SInv, Typed, Routable
  <2>. QED BY <1>1, <1>6, <2>1 DEF SInv, Typed
<1>10. /\ SameGivingUp
       /\ \A p : Answered(p)' <=> Answered(p)
       /\ \A f \in Calls(Main)' : f.fn = "sr_recv_arp" => f \in Calls(Main)
       /\ \A p : \A u \in Threads : u # t => (Sending(u, p)' <=> Sending(u, p))
       /\ \A p : Sending(t, p) <=> p = q
       /\ \A p : Sending(t, p)' <=> new = <<miss>> /\ p = q
  <2>1. Here(t).fn # "sr_send_icmp_to_waiting" /\ Here(t).fn # "sr_recv_arp"
    BY <1>1
  <2>2. \A f \in Range(new) : f.fn # "sr_send_icmp_to_waiting" /\ f.fn # "sr_recv_arp"
    BY <1>3, <1>7
  <2>3. \A p : Sending(t, p) <=> p = q
    BY <1>1, <1>6, GoneViews DEF q
  <2>4. \A p : Sending(t, p)' <=> new = <<miss>> /\ p = q
    <3>1. \A p : Sending(t, p)' <=>
                \E f \in Range(new) :
                  /\ f.fn \in {"sr_attempt_send", "sr_arpcache_queuereq"}
                  /\ f.pkt = p
      BY <1>1, <1>6, GoneViews
    <3>2. <<miss>> # <<>>
      OBVIOUS
    <3>. QED BY <1>3, <1>4, <3>1, <3>2, RangeOf
  <2>. QED BY <1>1, <1>6, <2>1, <2>2, <2>3, <2>4, GoneViews
<1>11. /\ \A r, p : Queued(r, p)' <=> Queued(r, p)
       /\ Owed' = Owed
       /\ \A p : p \in refused' <=> p \in refused
  BY <1>1 DEF Queued, Owed
<1>12. ASSUME NEW p \in Routable, Original(p)
       PROVE  OnePlace(p)' /\ FirstHand(p)'
  <2>1. OnePlace(p) /\ FirstHand(p)
    BY <1>12 DEF SInv, PlacesOK
  <2>2. CASE new = <<miss>> \/ p # q
    <3>1. \A u \in Threads : Sending(u, p)' <=> Sending(u, p)
      BY <1>10, <2>2
    <3>2. p \in sent' <=> p \in sent
      BY SMTT(20), <1>4, <2>2
    <3>3. Stays(p)
      BY <1>10, <1>11, <3>1, <3>2 DEF Stays
    <3>. QED BY <1>10, <2>1, <3>3, StaysKeeps
  <2>3. CASE new # <<miss>> /\ p = q
    <3>1. t = Main /\ p \in sent' /\ Sending(Main, p) /\ ~Sending(Main, p)'
      BY <1>2, <1>4, <1>10, <1>12, <2>3
    <3>2. /\ ~Answered(p) /\ p \notin refused /\ \A r \in ReqIds : ~Queued(r, p)
          /\ p \in Owed
      BY <2>1, <3>1 DEF OnePlace, Apart, InPlace
    <3>3. Apart(p)' /\ InPlace(p)' /\ p \in Owed'
      BY <1>10, <1>11, <3>1, <3>2 DEF Apart, InPlace
    <3>4. ~Sending(Sweeper, p)'
      BY <1>10, <2>1, <3>1, MainSweeper DEF FirstHand
    <3>5. ASSUME NEW u \in Threads, NEW f \in Calls(u)' PROVE GivenUp(f, p)'
      <4>1. CASE f.fn # "sr_send_icmp_to_waiting"
        BY <4>1 DEF GivenUp
      <4>2. CASE f.fn = "sr_send_icmp_to_waiting"
        <5>1. f \in Calls(u)
          BY <1>10, <3>5, <4>2 DEF SameGivingUp
        <5>2. GivenUp(f, p)
          BY <2>1, <5>1 DEF OnePlace
        <5>. QED BY <1>11, <5>2 DEF GivenUp
      <4>. QED BY <4>1, <4>2
    <3>6. \A r \in ReqIds : ~Queued(r, p)'
      BY <1>11, <3>2
    <3>. QED BY <3>1, <3>3, <3>4, <3>5, <3>6 DEF OnePlace, FirstHand
  <2>. QED BY <2>2, <2>3
<1>13. OnceEach'
  BY <1>1, <1>10 DEF SInv, PlacesOK, OnceEach
<1>. QED BY <1>6, <1>8, <1>9, <1>12, <1>13 DEF PlacesOK

\* The packet that is queued goes to the front of one request, r, of the queue.
QueuedAt(r, q) ==
    /\ r \in ReqIds
    /\ queue' \in Seq(ReqIds) /\ Range(queue') = Range(queue) \cup {r}
    /\ \A x \in ReqIds : x # r => reqs'[x] = reqs[x]
    /\ reqs' \in [ReqIds -> Queueing \cup {Freed}] /\ reqs'[r].live
    /\ \E old \in Seq(Routable) :
         /\ reqs'[r].packets = <<q>> \o old
         /\ \A p : p \in Range(old) <=> Queued(r, p)
         /\ Once(old)
    /\ reqs[r].live => r \in Range(queue)

\* sr_arpcache_queuereq puts the packet at the front of one request, the one it
\* handles next.
LEMMA QueuedAtOne ==
    ASSUME SInv, NEW t \in Threads, sr_arpcache_queuereq(t)
    PROVE  \E r \in ReqIds :
             /\ QueuedAt(r, Here(t).pkt)
             /\ Goto(t, <<[fn |-> "sr_handle_arpreq", req |-> r]>>)
<1> DEFINE q == Here(t).pkt
<1>1. PICK r \in ReqIds :
        /\ \/ /\ r \in Asking(NextHop(q))
              /\ reqs' = [reqs EXCEPT ![r].packets = AddPacket(@, q)]
              /\ UNCHANGED queue
           \/ /\ Asking(NextHop(q)) = {} /\ r \in Allocatable
              /\ reqs' = [reqs EXCEPT ![r] =
                   [live |-> TRUE, ip |-> NextHop(q), sent_ago |-> 2,
                    times_sent |-> 0, packets |-> AddPacket(<<>>, q)]]
              /\ queue' = <<r>> \o queue
        /\ Goto(t, <<[fn |-> "sr_handle_arpreq", req |-> r]>>)
  BY DEF sr_arpcache_queuereq
<1>2. q \in Routable /\ NextHop(q) \in Gateways
  <2>1. stack[t] # <<>> /\ Here(t).fn = "sr_arpcache_queuereq"
    BY DEF sr_arpcache_queuereq, At, Here
  <2>. QED BY <2>1, SenderIs, HostUnreachableIs
<1>. HIDE DEF q
<1>3. /\ queue \in Seq(ReqIds) /\ reqs \in [ReqIds -> Queueing \cup {Freed}]
      /\ \A x \in Range(queue) : x \in ReqIds /\ reqs[x].live
      /\ \A x \in Range(queue) : Once(reqs[x].packets)
  BY InQueue DEF SInv, Typed, QInv, QueueSound, PlacesOK, OnceEach
<1>4. ASSUME r \in Asking(NextHop(q)), UNCHANGED queue,
             reqs' = [reqs EXCEPT ![r].packets = AddPacket(@, q)]
      PROVE  QueuedAt(r, q)
  <2> DEFINE old == reqs[r].packets
  <2>1. r \in Range(queue) /\ reqs[r] \in Queueing
    BY <1>3, <1>4 DEF Asking, Freed
  <2>2. old \in Seq(Routable)
    BY <2>1 DEF Queueing
  <2>3. <<q>> \o old \in Seq(Routable) /\ <<q>> \o old # <<>>
    <3>1. <<q>> \in Seq(Routable) /\ Len(<<q>>) = 1
      BY <1>2
    <3>2. <<q>> \o old \in Seq(Routable) /\ Len(<<q>> \o old) = 1 + Len(old)
      BY <2>2, <3>1, ConcatProperties
    <3>3. Len(<<q>> \o old) # 0 /\ Len(<<>>) = 0
      BY <2>2, <3>2
    <3>. QED BY <3>2, <3>3
  <2>4. reqs' = [reqs EXCEPT ![r] = [reqs[r] EXCEPT !.packets = <<q>> \o old]]
    BY <1>4 DEF AddPacket
  <2>. HIDE DEF old
  <2>5. /\ [reqs[r] EXCEPT !.packets = <<q>> \o old] \in Queueing
        /\ [reqs[r] EXCEPT !.packets = <<q>> \o old].packets = <<q>> \o old
        /\ [reqs[r] EXCEPT !.packets = <<q>> \o old].live
    BY <2>1, <2>3 DEF Queueing
  <2>6. /\ reqs' \in [ReqIds -> Queueing \cup {Freed}]
        /\ reqs'[r].live /\ reqs'[r].packets = <<q>> \o old
        /\ \A x \in ReqIds : x # r => reqs'[x] = reqs[x]
    BY <1>3, <2>4, <2>5
  <2>7. (\A p : p \in Range(old) <=> Queued(r, p)) /\ Once(old)
    BY <1>3, <2>1 DEF Queued, old
  <2>. QED BY <1>3, <1>4, <2>1, <2>2, <2>6, <2>7 DEF QueuedAt
<1>5. ASSUME r \in Allocatable, queue' = <<r>> \o queue,
             reqs' = [reqs EXCEPT ![r] =
                   [live |-> TRUE, ip |-> NextHop(q), sent_ago |-> 2,
                    times_sent |-> 0, packets |-> AddPacket(<<>>, q)]]
      PROVE  QueuedAt(r, q)
  <2>1. ~reqs[r].live /\ r \notin Range(queue)
    BY <1>3, <1>5, AllocatableIsFree
  <2>2. /\ <<q>> \in Seq(Routable) /\ <<q>> # <<>> /\ <<>> \in Seq(Routable)
        /\ <<q>> = <<q>> \o <<>>
    BY <1>2
  <2> DEFINE new == [live |-> TRUE, ip |-> NextHop(q), sent_ago |-> 2,
                     times_sent |-> 0, packets |-> <<q>>]
  <2>3. new \in Queueing /\ new.live /\ new.packets = <<q>> \o <<>>
    BY <1>2, <2>2 DEF Queueing
  <2>4. AddPacket(<<>>, q) = <<q>>
    BY <2>2 DEF AddPacket
  <2>5. reqs' = [reqs EXCEPT ![r] = new]
    BY <1>5, <2>4
  <2>. HIDE DEF new
  <2>6. /\ reqs' \in [ReqIds -> Queueing \cup {Freed}]
        /\ reqs'[r].live /\ reqs'[r].packets = <<q>> \o <<>>
        /\ \A x \in ReqIds : x # r => reqs'[x] = reqs[x]
    BY <1>3, <2>3, <2>5
  <2>7. (\A p : p \in Range(<<>>) <=> Queued(r, p)) /\ Once(<<>>)
    BY <2>1 DEF Queued, Once, Range
  <2>8. queue' \in Seq(ReqIds) /\ Range(queue') = Range(queue) \cup {r}
    <3>1. /\ queue' \in Seq(ReqIds)
          /\ \A i \in DOMAIN <<r>> : i \in DOMAIN queue' /\ queue'[i] = <<r>>[i]
          /\ \A j \in DOMAIN queue :
               Len(<<r>>) + j \in DOMAIN queue' /\ queue'[Len(<<r>>) + j] = queue[j]
          /\ \A i \in DOMAIN queue' :
               \/ i \in DOMAIN <<r>>
               \/ i - Len(<<r>>) \in DOMAIN queue
                  /\ i = Len(<<r>>) + (i - Len(<<r>>))
      <4>1. <<r>> \in Seq(ReqIds)
        OBVIOUS
      <4>. QED BY <1>3, <1>5, <4>1, ConcatIs
    <3>2. DOMAIN <<r>> = {1} /\ <<r>>[1] = r
      OBVIOUS
    <3>3. r \in Range(queue')
      BY <3>1, <3>2 DEF Range
    <3>4. \A x \in Range(queue) : x \in Range(queue')
      BY <3>1 DEF Range
    <3>5. ASSUME NEW x \in Range(queue') PROVE x = r \/ x \in Range(queue)
      <4>1. PICK i \in DOMAIN queue' : x = queue'[i]
        BY <3>5 DEF Range
      <4>2. CASE i \in DOMAIN <<r>>
        BY <3>1, <3>2, <4>1, <4>2
      <4>3. CASE i - Len(<<r>>) \in DOMAIN queue /\ i = Len(<<r>>) + (i - Len(<<r>>))
        <5>1. x = queue[i - Len(<<r>>)]
          BY <3>1, <4>1, <4>3
        <5>. QED BY <4>3, <5>1 DEF Range
      <4>. QED BY <3>1, <4>2, <4>3
    <3>. QED BY <3>1, <3>3, <3>4, <3>5
  <2>. QED BY <2>1, <2>2, <2>6, <2>7, <2>8 DEF QueuedAt
<1>. QED BY <1>1, <1>4, <1>5 DEF q

\* A packet put before others that are each there once, and not it, is there once.
LEMMA OnceBefore ==
    ASSUME NEW q \in Routable, NEW old \in Seq(Routable), Once(old),
           Original(q) => q \notin Range(old)
    PROVE  /\ Once(<<q>> \o old)
           /\ \A p : p \in Range(<<q>> \o old) <=> p = q \/ p \in Range(old)
<1> DEFINE s == <<q>> \o old
<1>1. DOMAIN <<q>> = {1} /\ Len(<<q>>) = 1 /\ <<q>>[1] = q /\ <<q>> \in Seq(Routable)
  OBVIOUS
<1>2. /\ \A i \in DOMAIN <<q>> : i \in DOMAIN s /\ s[i] = <<q>>[i]
      /\ \A j \in DOMAIN old :
           Len(<<q>>) + j \in DOMAIN s /\ s[Len(<<q>>) + j] = old[j]
      /\ \A i \in DOMAIN s :
           \/ i \in DOMAIN <<q>>
           \/ i - Len(<<q>>) \in DOMAIN old /\ i = Len(<<q>>) + (i - Len(<<q>>))
  BY <1>1, ConcatIs
<1>. HIDE DEF s
<1>3. /\ 1 \in DOMAIN s /\ s[1] = q
      /\ \A i \in DOMAIN s : i # 1 => i - 1 \in DOMAIN old /\ s[i] = old[i - 1]
      /\ \A j \in DOMAIN old : 1 + j \in DOMAIN s /\ s[1 + j] = old[j]
  BY <1>1, <1>2
<1>4. \A j \in DOMAIN old : j \in Int
  OBVIOUS
<1>5. ASSUME NEW i \in DOMAIN s, NEW j \in DOMAIN s, s[i] = s[j], Original(s[i])
      PROVE  i = j
  <2>1. \A k \in DOMAIN s : k # 1 => s[k] \in Range(old)
    BY <1>3 DEF Range
  <2>2. CASE i = 1 \/ j = 1
    BY <1>3, <1>5, <2>1, <2>2
  <2>3. CASE i # 1 /\ j # 1
    <3>1. i - 1 = j - 1
      BY <1>3, <1>5, <2>3 DEF Once
    <3>2. i \in Int /\ j \in Int
      BY <1>1, <1>2
    <3>. QED BY <3>1, <3>2
  <2>. QED BY <2>2, <2>3
<1>6. \A p : p \in Range(s) <=> p = q \/ p \in Range(old)
  <2>1. \A p : p \in Range(old) => p \in Range(s)
    BY <1>3 DEF Range
  <2>2. q \in Range(s)
    BY <1>3 DEF Range
  <2>3. \A i \in DOMAIN s : s[i] = q \/ s[i] \in Range(old)
    BY <1>3 DEF Range
  <2>4. \A p : p \in Range(s) => p = q \/ p \in Range(old)
    BY <2>3 DEF Range
  <2>. QED BY <2>1, <2>2, <2>4
<1>. QED BY <1>5, <1>6 DEF Once, s

\* The packet waits in one request, and nobody is giving that request up unless
\* the packet is a message about another.
LEMMA QueueReqPlaces ==
    ASSUME SInv, NEW t \in Threads, sr_arpcache_queuereq(t)
    PROVE  Typed' /\ ShapeOK' /\ HeldOK' /\ PlacesOK'
<1> DEFINE q == Here(t).pkt
<1>1. /\ stack[t] # <<>> /\ Here(t).fn = "sr_arpcache_queuereq" /\ CanLock(t)
      /\ UNCHANGED <<entries, lock, slept, arrived, arps, sent, refused, crashed>>
  BY DEF sr_arpcache_queuereq, At, Here, input, history
<1>2. Running(t) /\ q \in Routable /\ Sending(t, q) /\ (Original(q) => t = Main)
  BY <1>1, RunningIs, SenderIs
<1>3. PICK r \in ReqIds :
        QueuedAt(r, q) /\ Goto(t, <<[fn |-> "sr_handle_arpreq", req |-> r]>>)
  BY QueuedAtOne
<1> DEFINE f0 == [fn |-> "sr_handle_arpreq", req |-> r]
<1>4. f0 \in Call /\ f0.fn = "sr_handle_arpreq" /\ f0.req = r
  BY CallMade
<1>5. <<f0>> \in Seq(Call) /\ Range(<<f0>>) = {f0} /\ Goto(t, <<f0>>)
  BY <1>3, <1>4, RangeOf
<1>. HIDE DEF q, f0
<1>6. Fits(t, <<f0>>)
  BY <1>4, FitsIf DEF Bottom
<1>7. Gone(t, <<f0>>) /\ stack' \in Stacks /\ ShapeOK'
  BY <1>1, <1>5, <1>6, GoneKeeps
<1>8. Typed'
  BY <1>1, <1>3, <1>7 DEF SInv, Typed, QueuedAt
<1>9. HeldOK'
  <2>1. ASSUME NEW f \in Call, HeldCall(f) PROVE HeldCall(f)'
    <3>1. ASSUME NEW x \in ReqIds \cup {Null},
                 x = Null \/ ~reqs[x].live \/ x \in Range(queue)
          PROVE  x = Null \/ ~reqs'[x].live \/ x \in Range(queue')
      BY <1>3, <3>1 DEF QueuedAt
    <3>2. ASSUME f.fn = "sr_recv_arp" PROVE reqs'[f.req].live /\ f.req \notin Range(queue')
      <4>1. f.req \in ReqIds /\ reqs[f.req].live /\ f.req \notin Range(queue)
        BY <2>1, <3>2, CallIs DEF HeldCall
      <4>2. f.req # r
        BY <1>3, <4>1 DEF QueuedAt
      <4>. QED BY <1>3, <4>1, <4>2 DEF QueuedAt
    <3>3. f.fn \in {"sr_handle_arpreq", "sweep_next", "sr_arpcache_sweepreqs",
                    "ask", "count", "sr_send_icmp_to_waiting"} => f.req \in ReqIds \cup {Null}
      BY CallIs
    <3>4. f.fn = "sweep_next" => f.next \in ReqIds \cup {Null}
      BY CallIs
    <3>. QED BY <2>1, <3>1, <3>2, <3>3, <3>4 DEF HeldCall
  <2>2. HeldCall(f0)'
    BY <1>3, <1>4 DEF HeldCall, QueuedAt
  <2>3. ASSUME NEW u \in Threads, NEW f \in Calls(u)' PROVE HeldCall(f)'
    <3>1. f = f0 \/ f \in Calls(u)
      BY <1>2, <1>5, <1>7, <2>3 DEF Gone, Running
    <3>2. f \in Calls(u) => f \in Call /\ HeldCall(f)
      BY DEF SInv, Typed, Stacks, HeldOK, Calls, Range
    <3>. QED BY <2>1, <2>2, <3>1, <3>2
  <2>. QED BY <2>3 DEF HeldOK
<1>10. /\ SameGivingUp
       /\ \A p : Answered(p)' <=> Answered(p)
       /\ \A f \in Calls(Main)' : f.fn = "sr_recv_arp" => f \in Calls(Main)
       /\ \A p : \A u \in Threads : u # t => (Sending(u, p)' <=> Sending(u, p))
       /\ \A p : Sending(t, p) <=> p = q
       /\ \A p : ~Sending(t, p)'
  <2>1. Here(t).fn # "sr_send_icmp_to_waiting" /\ Here(t).fn # "sr_recv_arp"
    BY <1>1
  <2>2. \A f \in Range(<<f0>>) : f.fn # "sr_send_icmp_to_waiting" /\ f.fn # "sr_recv_arp"
    BY <1>4, <1>5
  <2>3. \A p : Sending(t, p) <=> p = q
    BY <1>1, <1>5, <1>7, GoneViews DEF q
  <2>4. \A p : ~Sending(t, p)'
    <3>1. \A p : Sending(t, p)' <=>
                \E f \in Range(<<f0>>) :
                  /\ f.fn \in {"sr_attempt_send", "sr_arpcache_queuereq"}
                  /\ f.pkt = p
      BY <1>1, <1>5, <1>7, GoneViews
    <3>. QED BY <1>4, <1>5, <3>1
  <2>. QED BY <1>1, <1>5, <1>7, <2>1, <2>2, <2>3, <2>4, GoneViews
<1>11. PICK old \in Seq(Routable) :
         /\ reqs'[r].packets = <<q>> \o old
         /\ \A p : p \in Range(old) <=> Queued(r, p)
         /\ Once(old)
  BY <1>3 DEF QueuedAt
<1>12. Original(q) => OnePlace(q) /\ FirstHand(q) /\ Sending(Main, q)
  BY <1>2 DEF SInv, PlacesOK
<1>13. /\ Once(reqs'[r].packets)
       /\ \A p : p \in Range(reqs'[r].packets) <=> p = q \/ Queued(r, p)
  <2>1. Original(q) => q \notin Range(old)
    BY <1>11, <1>12 DEF OnePlace, Apart
  <2>. QED BY <1>2, <1>11, <2>1, OnceBefore
<1>14. \A p : \A x \in ReqIds : Queued(x, p)' <=> Queued(x, p) \/ (x = r /\ p = q)
  BY <1>3, <1>13 DEF Queued, QueuedAt
<1>15. /\ Owed' = Owed
       /\ \A p : p \in refused' <=> p \in refused
       /\ \A p : p \in sent' <=> p \in sent
  BY <1>1 DEF Owed
<1>16. ASSUME NEW p \in Routable, Original(p)
       PROVE  OnePlace(p)' /\ FirstHand(p)'
  <2>1. OnePlace(p) /\ FirstHand(p)
    BY <1>16 DEF SInv, PlacesOK
  <2>2. CASE p # q
    <3>1. Stays(p)
      BY <1>10, <1>14, <1>15, <2>2 DEF Stays
    <3>. QED BY <1>10, <2>1, <3>1, StaysKeeps
  <2>3. CASE p = q
    <3>1. t = Main /\ Sending(Main, p) /\ ~Sending(Main, p)'
      BY <1>2, <1>10, <1>16, <2>3
    <3>2. /\ ~Answered(p) /\ p \notin refused /\ \A x \in ReqIds : ~Queued(x, p)
          /\ p \in Owed /\ p \notin sent
      BY <2>1, <3>1 DEF OnePlace, Apart, InPlace
    <3>3. stack[Sweeper] = <<>>
      <4>1. lock = Null
        BY <1>1, <3>1, ArpConstants DEF CanLock, SInv, Typed, Threads
      <4>. QED BY <4>1 DEF SInv, ShapeOK
    <3>4. \A u \in Threads, x \in ReqIds : ~GivingUp(u, x)
      <4>1. \A x \in ReqIds : ~GivingUp(Main, x)
        BY <2>1, <3>1 DEF FirstHand
      <4>2. \A x \in ReqIds : ~GivingUp(Sweeper, x)
        BY <3>3, RangeOf DEF GivingUp, Calls
      <4>. QED BY <4>1, <4>2 DEF Threads
    <3>5. \A x \in ReqIds : Queued(x, p)' <=> x = r
      BY <1>14, <2>3, <3>2
    <3>6. Apart(p)' /\ InPlace(p)' /\ p \in Owed'
      BY <1>3, <1>10, <1>15, <3>1, <3>2, <3>5 DEF Apart, InPlace
    <3>7. ~Sending(Sweeper, p)'
      BY <1>10, <2>1, <3>1, MainSweeper DEF FirstHand
    <3>8. ASSUME NEW u \in Threads, NEW f \in Calls(u)'
          PROVE  f.fn # "sr_send_icmp_to_waiting"
      <4>1. SUFFICES ASSUME f.fn = "sr_send_icmp_to_waiting" PROVE FALSE
        OBVIOUS
      <4>2. f \in Calls(u) /\ f \in Call
        BY <1>10, <3>8, <4>1 DEF SameGivingUp
      <4>3. f.req \in ReqIds
        BY <4>1, <4>2, CallIs
      <4>. QED BY <3>4, <4>1, <4>2, <4>3 DEF GivingUp
    <3>9. \A u \in Threads : \A f \in Calls(u)' : GivenUp(f, p)'
      BY <3>8 DEF GivenUp
    <3>. QED BY <1>15, <3>1, <3>2, <3>6, <3>7, <3>9 DEF OnePlace, FirstHand
  <2>. QED BY <2>2, <2>3
<1>17. OnceEach'
  <2>1. \A x \in Range(queue') : Once(reqs'[x].packets)
    <3>1. \A x \in Range(queue) : x \in ReqIds
      BY InQueue DEF SInv, Typed
    <3>. QED BY <1>3, <1>13, <3>1 DEF SInv, PlacesOK, OnceEach, QueuedAt
  <2>. QED BY <1>10, <2>1 DEF SInv, PlacesOK, OnceEach
<1>. QED BY <1>7, <1>8, <1>9, <1>16, <1>17 DEF PlacesOK

\* The calls that hold packets.
Carries == {"sr_attempt_send", "sr_arpcache_queuereq", "sr_recv_arp",
            "sr_send_icmp_to_waiting"}

\* A step that ends and makes only other calls leaves all packets where they are.
LEMMA QuietPlaces ==
    ASSUME SInv, NEW t \in Threads, stack[t] # <<>>, NEW new \in Seq(Call), Gone(t, new),
           UNCHANGED <<queue, arrived, sent, refused>>,
           \A r \in ReqIds : reqs'[r].packets = reqs[r].packets,
           Here(t).fn \notin Carries, \A f \in Range(new) : f.fn \notin Carries
    PROVE  PlacesOK'
<1>1. /\ SameGivingUp
      /\ \A p : Answered(p)' <=> Answered(p)
      /\ \A f \in Calls(Main)' : f.fn = "sr_recv_arp" => f \in Calls(Main)
  BY GoneViews DEF Carries
<1>2. \A p : \A u \in Threads : Sending(u, p)' <=> Sending(u, p)
  <2>1. \A p : Sending(t, p) <=>
                /\ Here(t).fn \in {"sr_attempt_send", "sr_arpcache_queuereq"}
                /\ Here(t).pkt = p
    BY GoneViews
  <2>2. \A p : Sending(t, p)' <=>
                \E f \in Range(new) :
                  /\ f.fn \in {"sr_attempt_send", "sr_arpcache_queuereq"}
                  /\ f.pkt = p
    BY GoneViews
  <2>3. \A p : \A u \in Threads : u # t => (Sending(u, p)' <=> Sending(u, p))
    BY GoneViews
  <2>4. \A p : ~Sending(t, p) /\ ~Sending(t, p)'
    BY <2>1, <2>2 DEF Carries
  <2>. QED BY <2>3, <2>4
<1>3. \A p : \A r \in ReqIds : Queued(r, p)' <=> Queued(r, p)
  BY DEF Queued
<1>4. \A p : Stays(p)
  BY <1>1, <1>2, <1>3 DEF Stays, Owed
<1>5. \A p \in Routable : Original(p) => OnePlace(p)' /\ FirstHand(p)'
  BY <1>1, <1>4, StaysKeeps DEF SInv, PlacesOK
<1>6. OnceEach'
  <2>1. \A r \in Range(queue) : r \in ReqIds
    BY InQueue DEF SInv, Typed
  <2>. QED BY <1>1, <2>1 DEF SInv, PlacesOK, OnceEach
<1>. QED BY <1>5, <1>6 DEF PlacesOK

\* So do those that change a request's times only.
LEMMA QuietKeeps ==
    ASSUME SInv, NEW t \in Threads, stack[t] # <<>>, NEW new \in Seq(Call),
           Goto(t, new), Fits(t, new),
           UNCHANGED <<entries, queue, lock, slept, arrived, arps, sent, refused, crashed>>,
           reqs' \in [ReqIds -> Queueing \cup {Freed}],
           \A r \in ReqIds : /\ reqs'[r].packets = reqs[r].packets
                             /\ reqs'[r].live = reqs[r].live,
           Here(t).fn \notin Carries,
           \A f \in Range(new) : f.fn \notin Carries /\ HeldCall(f)
    PROVE  Typed' /\ ShapeOK' /\ HeldOK' /\ PlacesOK'
<1>1. Gone(t, new) /\ stack' \in Stacks /\ ShapeOK'
  BY GoneKeeps
<1>2. Typed'
  BY <1>1 DEF SInv, Typed
<1>3. PlacesOK'
  BY <1>1, QuietPlaces
<1>4. HeldOK'
  <2>1. Running(t) /\ HeldOK
    BY RunningIs DEF SInv
  <2>2. ASSUME NEW u \in Threads, NEW f \in Calls(u)' PROVE f \in Call /\ HeldCall(f)
    <3>1. f \in Call
      BY <1>1, <2>2 DEF Stacks, Calls, Range
    <3>. QED BY <1>1, <2>1, <2>2, <3>1 DEF Gone, Running, HeldOK
  <2>3. ASSUME NEW f \in Call, HeldCall(f) PROVE HeldCall(f)'
    <3>1. /\ f.fn \in {"sr_handle_arpreq", "sweep_next", "sr_arpcache_sweepreqs",
                       "ask", "count", "sr_send_icmp_to_waiting"} => f.req \in ReqIds \cup {Null}
          /\ f.fn = "sweep_next" => f.next \in ReqIds \cup {Null}
          /\ f.fn = "sr_recv_arp" => f.req \in ReqIds
      BY CallIs
    <3>2. \A x \in ReqIds : reqs'[x].live = reqs[x].live
      OBVIOUS
    <3>3. queue' = queue
      OBVIOUS
    <3>. QED BY <2>3, <3>1, <3>2, <3>3 DEF HeldCall
  <2>. QED BY <2>2, <2>3 DEF HeldOK
<1>. QED BY <1>1, <1>2, <1>3, <1>4

\* A request that is being used lives, and so is in the queue if not sr_recv_arp's.
LEMMA UsedIs ==
    ASSUME SInv, NEW t \in Threads, NEW fn, Uses(t, fn),
           fn \in {"sr_handle_arpreq", "ask", "count", "sr_send_icmp_to_waiting",
                   "sr_recv_arp"}
    PROVE  /\ stack[t] # <<>> /\ Here(t).fn = fn /\ Running(t) /\ Here(t) \in Call
           /\ Here(t).req \in ReqIds /\ Here(t).req # Null
           /\ reqs[Here(t).req] \in Queueing
           /\ fn # "sr_recv_arp" <=> Here(t).req \in Range(queue)
<1>1. stack[t] # <<>> /\ Here(t).fn = fn /\ reqs[Here(t).req].live
  BY DEF Uses, At, Here
<1>2. Running(t) /\ Here(t) \in Call /\ HeldCall(Here(t))
  BY <1>1, RunningIs DEF Running
<1>3. Here(t).req \in ReqIds
  BY <1>1, <1>2, CallIs
<1>4. Here(t).req # Null
  BY <1>3, ArpConstants
<1>5. reqs[Here(t).req] \in Queueing
  BY <1>1, <1>3 DEF SInv, Typed, Freed
<1>6. fn # "sr_recv_arp" <=> Here(t).req \in Range(queue)
  BY <1>1, <1>2, <1>4 DEF HeldCall
<1>. QED BY <1>1, <1>2, <1>3, <1>4, <1>5, <1>6

\* Asking for an address moves no packet.
LEMMA SendArpReqKeeps ==
    ASSUME SInv, NEW t \in Threads, sr_send_arp_req(t)
    PROVE  Typed' /\ ShapeOK' /\ HeldOK' /\ PlacesOK'
<1> DEFINE h == Here(t)
           r == h.req
           g == [fn |-> "count", req |-> r, times_sent |-> reqs[r].times_sent]
<1>1. Uses(t, "ask")
  BY DEF sr_send_arp_req
<1>2. /\ stack[t] # <<>> /\ h.fn = "ask" /\ h \in Call /\ r \in ReqIds /\ r # Null
      /\ reqs[r] \in Queueing /\ r \in Range(queue)
  BY <1>1, UsedIs
<1>3. h.now \in 0..2 /\ reqs[r].times_sent \in Nat
  BY <1>2, CallIs DEF Queueing
<1>4. g \in Call /\ g.fn = "count" /\ g.req = r
  BY <1>2, <1>3, CallMade
<1>5. /\ Goto(t, <<g>>) /\ reqs' = [reqs EXCEPT ![r].sent_ago = h.now]
      /\ UNCHANGED <<entries, queue, lock, slept, arrived, arps, sent, refused, crashed>>
  BY DEF sr_send_arp_req, input, history
<1>. HIDE DEF g, r, h
<1>6. <<g>> \in Seq(Call) /\ Range(<<g>>) = {g} /\ Fits(t, <<g>>)
  BY <1>4, RangeOf, FitsIf DEF Bottom
<1>7. reqs \in [ReqIds -> Queueing \cup {Freed}]
  BY DEF SInv, Typed
<1>8. [reqs[r] EXCEPT !.sent_ago = h.now] \in Queueing
  BY <1>2, <1>3 DEF Queueing
<1>9. /\ reqs' \in [ReqIds -> Queueing \cup {Freed}]
      /\ \A x \in ReqIds : /\ reqs'[x].packets = reqs[x].packets
                           /\ reqs'[x].live = reqs[x].live
  BY <1>2, <1>5, <1>7, <1>8
<1>10. HeldCall(g)
  BY <1>2, <1>4 DEF HeldCall
<1>. QED BY <1>2, <1>4, <1>5, <1>6, <1>9, <1>10, QuietKeeps DEF Carries, h

\* Counting a request moves no packet.
LEMMA CountArpKeeps ==
    ASSUME SInv, NEW t \in Threads, CountArp(t)
    PROVE  Typed' /\ ShapeOK' /\ HeldOK' /\ PlacesOK'
<1> DEFINE h == Here(t)
           r == h.req
<1>1. Uses(t, "count")
  BY DEF CountArp
<1>2. /\ stack[t] # <<>> /\ h.fn = "count" /\ h \in Call /\ r \in ReqIds
      /\ reqs[r] \in Queueing
  BY <1>1, UsedIs
<1>3. h.times_sent + 1 \in Nat
  BY <1>2, CallIs
<1>4. /\ Goto(t, <<>>) /\ reqs' = [reqs EXCEPT ![r].times_sent = h.times_sent + 1]
      /\ UNCHANGED <<entries, queue, lock, slept, arrived, arps, sent, refused, crashed>>
  BY DEF CountArp, Return, input, history
<1>. HIDE DEF r, h
<1>5. <<>> \in Seq(Call) /\ Range(<<>>) = {} /\ Fits(t, <<>>)
  BY RangeOf, FitsIf
<1>6. reqs \in [ReqIds -> Queueing \cup {Freed}]
  BY DEF SInv, Typed
<1>7. [reqs[r] EXCEPT !.times_sent = h.times_sent + 1] \in Queueing
  BY <1>2, <1>3 DEF Queueing
<1>8. /\ reqs' \in [ReqIds -> Queueing \cup {Freed}]
      /\ \A x \in ReqIds : /\ reqs'[x].packets = reqs[x].packets
                           /\ reqs'[x].live = reqs[x].live
  BY <1>2, <1>4, <1>6, <1>7
<1>. QED BY <1>2, <1>4, <1>5, <1>8, QuietKeeps DEF Carries, h

\* Handling a request: nothing, or it will be asked for, or its packets are the
\* ones to refuse.
LEMMA HandleKeeps ==
    ASSUME SInv, NEW t \in Threads, sr_handle_arpreq(t)
    PROVE  Typed' /\ ShapeOK' /\ HeldOK' /\ PlacesOK'
<1> DEFINE h == Here(t)
           r == h.req
           g == [fn |-> "sr_send_icmp_to_waiting", req |-> r, rest |-> reqs[r].packets]
           a == [fn |-> "ask", req |-> r, now |-> 0]
<1>1. Uses(t, "sr_handle_arpreq")
  BY DEF sr_handle_arpreq
<1>2. /\ stack[t] # <<>> /\ h.fn = "sr_handle_arpreq" /\ h \in Call /\ r \in ReqIds
      /\ reqs[r] \in Queueing /\ r # Null /\ r \in Range(queue) /\ Running(t)
  BY <1>1, UsedIs
<1>3. reqs[r].packets \in Seq(Routable)
  BY <1>2 DEF Queueing
<1>4. /\ a \in Call /\ a.fn = "ask" /\ a.req = r /\ g \in Call /\ g.req = r
      /\ g.fn = "sr_send_icmp_to_waiting" /\ g.rest = reqs[r].packets
  BY <1>2, <1>3, CallMade
<1>5. /\ Goto(t, <<>>) \/ Goto(t, <<a>>) \/ Goto(t, <<g>>)
      /\ UNCHANGED <<entries, reqs, queue, lock, slept, arrived, arps, sent, refused, crashed>>
  BY DEF sr_handle_arpreq, Return, memory, input, history
<1>. HIDE DEF r, h, g, a
<1>6. /\ <<>> \in Seq(Call) /\ Range(<<>>) = {} /\ Fits(t, <<>>)
      /\ <<a>> \in Seq(Call) /\ Range(<<a>>) = {a} /\ Fits(t, <<a>>)
      /\ <<g>> \in Seq(Call) /\ Range(<<g>>) = {g} /\ Fits(t, <<g>>)
  BY <1>4, RangeOf, FitsIf DEF Bottom
<1>7. HeldCall(a) /\ HeldCall(g)
  BY <1>2, <1>4 DEF HeldCall
<1>8. reqs' \in [ReqIds -> Queueing \cup {Freed}]
  BY <1>5 DEF SInv, Typed
<1>9. CASE Goto(t, <<>>)
  BY <1>2, <1>5, <1>6, <1>8, <1>9, QuietKeeps DEF Carries, h
<1>10. CASE Goto(t, <<a>>)
  BY <1>2, <1>4, <1>5, <1>6, <1>7, <1>8, <1>10, QuietKeeps DEF Carries, h
<1>11. CASE Goto(t, <<g>>)
  <2>1. Gone(t, <<g>>) /\ stack' \in Stacks /\ ShapeOK'
    BY <1>2, <1>5, <1>6, <1>11, GoneKeeps
  <2>2. HeldOK'
    BY <1>2, <1>5, <1>6, <1>7, <2>1, GoneHeld
  <2>3. Typed'
    BY <1>5, <2>1 DEF SInv, Typed
  <2>4. h.fn # "sr_recv_arp" /\ \A f \in Range(<<g>>) : f.fn # "sr_recv_arp"
    BY <1>2, <1>4, <1>6
  <2>5. /\ \A p : Answered(p)' <=> Answered(p)
        /\ \A f \in Calls(Main)' : f.fn = "sr_recv_arp" => f \in Calls(Main)
    BY ZenonT(30), <1>2, <1>6, <2>1, <2>4, GoneViews DEF h
  <2>6. \A p : \A u \in Threads : Sending(u, p)' <=> Sending(u, p)
    <3>1. \A p : ~Sending(t, p)
      BY <1>2, <1>6, <2>1, GoneViews DEF h
    <3>2. \A p : ~Sending(t, p)'
      <4>1. \A p : Sending(t, p)' <=>
                \E f \in Range(<<g>>) :
                  /\ f.fn \in {"sr_attempt_send", "sr_arpcache_queuereq"}
                  /\ f.pkt = p
        BY <1>2, <1>6, <2>1, GoneViews
      <4>. QED BY <1>4, <1>6, <4>1
    <3>. QED BY ZenonT(30), <1>2, <1>6, <2>1, <3>1, <3>2, GoneViews
  <2>7. \A p, x : Queued(x, p)' <=> Queued(x, p)
    BY <1>5 DEF Queued
  <2>8. ASSUME NEW u \in Threads
        PROVE  /\ \A f \in Calls(u)' : f = g \/ f \in Calls(u)
               /\ \A f \in Calls(u) : f = h \/ f \in Calls(u)'
    BY <1>2, <1>6, <2>1 DEF Gone, Running, h
  <2>9. \A x, u \in Threads \cup ReqIds :
          u \in Threads /\ x \in ReqIds /\ GivingUp(u, x) => GivingUp(u, x)'
    BY <1>2, <2>8 DEF GivingUp
  <2>10. ASSUME NEW p \in Routable, Original(p)
         PROVE  OnePlace(p)' /\ FirstHand(p)'
    <3>1. OnePlace(p) /\ FirstHand(p)
      BY <2>10 DEF SInv, PlacesOK
    <3>2. Stays(p)
      BY <1>5, <2>5, <2>6, <2>7 DEF Stays, Owed
    <3>3. Apart(p)' /\ (InPlace(p)' <=> p \in Owed')
      BY <3>1, <3>2, MainSweeper DEF Stays, OnePlace, Apart, InPlace
    <3>4. \A x \in ReqIds :
            Queued(x, p)' /\ p \in refused' => \E u \in Threads : GivingUp(u, x)'
      BY <1>5, <2>7, <2>9, <3>1 DEF OnePlace
    <3>5. ASSUME NEW u \in Threads, NEW f \in Calls(u)' PROVE GivenUp(f, p)'
      <4>1. CASE f = g
        <5>1. Queued(g.req, p) <=> p \in Range(g.rest)
          BY <1>2, <1>4 DEF Queued
        <5>. QED BY <2>7, <4>1, <5>1 DEF GivenUp
      <4>2. CASE f \in Calls(u)
        <5>1. GivenUp(f, p)
          BY <3>1, <4>2 DEF OnePlace
        <5>. QED BY <1>5, <2>7, <5>1 DEF GivenUp
      <4>. QED BY <2>8, <3>5, <4>1, <4>2
    <3>6. Sending(Main, p)' => \A x \in ReqIds : ~GivingUp(Main, x)'
      <4>1. SUFFICES ASSUME Sending(Main, p)' PROVE \A x \in ReqIds : ~GivingUp(Main, x)'
        OBVIOUS
      <4>2. Sending(Main, p)
        BY <2>6, <4>1, MainSweeper
      <4>3. t # Main
        <5>1. Sending(t, p) => h.fn \in {"sr_attempt_send", "sr_arpcache_queuereq"}
          BY <1>2, <1>6, <2>1, GoneViews DEF h
        <5>. QED BY <1>2, <4>2, <5>1
      <4>4. Calls(Main)' = Calls(Main)
        BY <2>1, <4>3, MainSweeper DEF Gone
      <4>5. \A x \in ReqIds : ~GivingUp(Main, x)
        BY <3>1, <4>2 DEF FirstHand
      <4>. QED BY <4>4, <4>5 DEF GivingUp
    <3>7. ~Sending(Sweeper, p)'
      BY <2>6, <3>1, MainSweeper DEF FirstHand
    <3>. QED BY <3>3, <3>4, <3>5, <3>6, <3>7 DEF OnePlace, FirstHand
  <2>11. OnceEach'
    BY <1>5, <2>5 DEF SInv, PlacesOK, OnceEach
  <2>. QED BY <2>1, <2>2, <2>3, <2>10, <2>11 DEF PlacesOK
<1>. QED BY <1>5, <1>9, <1>10, <1>11

\* A step that changes no call, no packet's place and no request but its times.
LEMMA StillKeeps ==
    ASSUME SInv, UNCHANGED <<queue, lock, stack, arrived, sent, refused>>,
           entries' \in [Slots -> Entry], slept' \in BOOLEAN, crashed' \in BOOLEAN,
           arps' \in 0..MaxArps, reqs' = reqs
    PROVE  Typed' /\ ShapeOK' /\ HeldOK' /\ PlacesOK'
<1>1. Typed'
  BY DEF SInv, Typed
<1>2. ShapeOK'
  BY DEF SInv, ShapeOK
<1>3. /\ \A t : Calls(t)' = Calls(t)
      /\ \A f : HeldCall(f)' <=> HeldCall(f)
  BY DEF Calls, HeldCall
<1>4. HeldOK'
  BY <1>3 DEF SInv, HeldOK
<1>5. \A p : Stays(p)
  BY <1>3 DEF Stays, Sending, Answered, Queued, Owed
<1>6. SameGivingUp
  <2>1. \A t \in Threads : \A f \in Calls(t) : f \in Call
    BY DEF SInv, Typed, Stacks, Calls, Range
  <2>. QED BY <1>3, <2>1 DEF SameGivingUp
<1>7. \A p \in Routable : Original(p) => OnePlace(p)' /\ FirstHand(p)'
  BY <1>5, <1>6, StaysKeeps DEF SInv, PlacesOK
<1>8. OnceEach'
  BY <1>3 DEF SInv, PlacesOK, OnceEach
<1>. QED BY <1>1, <1>2, <1>4, <1>7, <1>8 DEF PlacesOK

\* As when the process crashes.
LEMMA SameKeepsAll ==
    ASSUME SInv, UNCHANGED <<memory, lock, stack, slept, input, history>>,
           crashed' \in BOOLEAN
    PROVE  Typed' /\ ShapeOK' /\ HeldOK' /\ PlacesOK'
<1>1. UNCHANGED <<entries, reqs, queue, lock, stack, slept, arrived, arps, sent, refused>>
  BY DEF memory, input, history
<1>2. entries' \in [Slots -> Entry] /\ slept' \in BOOLEAN /\ arps' \in 0..MaxArps
  BY <1>1 DEF SInv, Typed
<1>. QED BY <1>1, <1>2, StillKeeps

\* Whoever gives up a request that was freed has nothing left to refuse, and a
\* call that only ends otherwise leaves the packets where they are.
LEMMA UseFreedKeeps ==
    ASSUME SInv, NEW t \in Threads, UseFreed(t)
    PROVE  Typed' /\ ShapeOK' /\ HeldOK' /\ PlacesOK'
<1> DEFINE h == Here(t)
<1>1. CASE Crash
  BY <1>1, SameKeepsAll DEF Crash
<1>2. CASE ~Crash
  <2>1. /\ stack[t] # <<>> /\ Goto(t, <<>>) /\ ~reqs[h.req].live
        /\ h.fn \in {"sr_handle_arpreq", "ask", "count", "sr_send_icmp_to_waiting"}
        /\ UNCHANGED <<entries, reqs, queue, lock, slept, arrived, arps, sent, refused, crashed>>
    BY <1>2 DEF UseFreed, At, Here, Return, memory, input, history
  <2>. HIDE DEF h
  <2>2. <<>> \in Seq(Call) /\ Range(<<>>) = {} /\ Fits(t, <<>>)
    BY RangeOf, FitsIf
  <2>3. reqs' \in [ReqIds -> Queueing \cup {Freed}]
    BY <2>1 DEF SInv, Typed
  <2>4. CASE h.fn # "sr_send_icmp_to_waiting"
    BY <2>1, <2>2, <2>3, <2>4, QuietKeeps DEF Carries, h
  <2>5. CASE h.fn = "sr_send_icmp_to_waiting"
    <3>1. Gone(t, <<>>) /\ stack' \in Stacks /\ ShapeOK'
      BY <2>1, <2>2, GoneKeeps
    <3>2. HeldOK'
      BY <2>1, <2>2, <3>1, GoneHeld
    <3>3. Typed'
      BY <2>1, <3>1 DEF SInv, Typed
    <3>4. /\ \A p : Answered(p)' <=> Answered(p)
          /\ \A f \in Calls(Main)' : f.fn = "sr_recv_arp" => f \in Calls(Main)
      BY <2>1, <2>2, <2>5, <3>1, GoneViews DEF h
    <3>5. Running(t) /\ h.req \in ReqIds
      BY <2>1, <2>5, RunningIs, CallIs DEF Running, h
    <3>6. \A u \in Threads : /\ \A f \in Calls(u)' : f \in Calls(u)
                             /\ \A f \in Calls(u) : f = h \/ f \in Calls(u)'
      BY <2>2, <3>1, <3>5 DEF Gone, Running, h
    <3>7. \A p : \A u \in Threads : Sending(u, p)' <=> Sending(u, p)
      BY <2>5, <3>6 DEF Sending
    <3>8. \A p, x : Queued(x, p)' <=> Queued(x, p)
      BY <2>1 DEF Queued
    <3>9. \A p : ~Queued(h.req, p)
      BY <2>1 DEF SInv, QInv, QueueSound, Queued
    <3>10. ASSUME NEW p \in Routable, Original(p)
           PROVE  OnePlace(p)' /\ FirstHand(p)'
      <4>1. OnePlace(p) /\ FirstHand(p)
        BY <3>10 DEF SInv, PlacesOK
      <4>2. Stays(p)
        BY <2>1, <3>4, <3>7, <3>8 DEF Stays, Owed
      <4>3. Apart(p)' /\ (InPlace(p)' <=> p \in Owed')
        BY <4>1, <4>2, MainSweeper DEF Stays, OnePlace, Apart, InPlace
      <4>4. ASSUME NEW x \in ReqIds, Queued(x, p)', p \in refused'
            PROVE  \E u \in Threads : GivingUp(u, x)'
        <5>1. PICK u \in Threads : GivingUp(u, x)
          BY <2>1, <3>8, <4>1, <4>4 DEF OnePlace
        <5>2. x # h.req
          BY <3>8, <3>9, <4>4
        <5>. QED BY <3>6, <5>1, <5>2 DEF GivingUp
      <4>5. ASSUME NEW u \in Threads, NEW f \in Calls(u)' PROVE GivenUp(f, p)'
        <5>1. GivenUp(f, p)
          BY <3>6, <4>1, <4>5 DEF OnePlace
        <5>. QED BY <2>1, <3>8, <5>1 DEF GivenUp
      <4>6. FirstHand(p)'
        BY <3>6, <3>7, <4>1, MainSweeper DEF FirstHand, GivingUp
      <4>. QED BY <4>3, <4>4, <4>5, <4>6 DEF OnePlace
    <3>11. OnceEach'
      BY <2>1, <3>4 DEF SInv, PlacesOK, OnceEach
    <3>. QED BY <3>1, <3>2, <3>3, <3>10, <3>11 DEF PlacesOK
  <2>. QED BY <2>4, <2>5
<1>. QED BY <1>1, <1>2

\* One call before another.
LEMMA ConcatTwo ==
    ASSUME NEW x, NEW y
    PROVE  <<x>> \o <<y>> = <<x, y>>
<1> DEFINE S == {x, y}
           s == <<x>> \o <<y>>
<1>1. <<x>> \in Seq(S) /\ <<y>> \in Seq(S) /\ Len(<<x>>) = 1 /\ Len(<<y>>) = 1
  OBVIOUS
<1>2. s \in Seq(S) /\ Len(s) = 2
  BY <1>1, ConcatProperties
<1>3. s[1] = <<x>>[1] /\ s[2] = <<y>>[1]
  BY <1>1, <1>2, ConcatProperties
<1>4. s[1] = x /\ s[2] = y
  BY <1>3
<1>5. /\ <<x, y>> \in Seq(S) /\ Len(<<x, y>>) = 2
      /\ <<x, y>>[1] = x /\ <<x, y>>[2] = y
  OBVIOUS
<1>. HIDE DEF s, S
<1>6. \A i \in 1..Len(s) : i = 1 \/ i = 2
  BY <1>2
<1>7. \A i \in 1..Len(s) : s[i] = <<x, y>>[i]
  BY <1>4, <1>5, <1>6
<1>8. s = <<x, y>>
  BY <1>2, <1>5, <1>7, SeqEqual
<1>. QED BY <1>8 DEF s

\* The packets of a list, one after the other.
LEMMA TailRange ==
    ASSUME NEW S, NEW s \in Seq(S), s # <<>>
    PROVE  /\ Head(s) \in S /\ Head(s) \in Range(s) /\ Tail(s) \in Seq(S)
           /\ \A p : p \in Range(s) <=> p = Head(s) \/ p \in Range(Tail(s))
           /\ Once(s) => /\ Once(Tail(s))
                         /\ Original(Head(s)) => Head(s) \notin Range(Tail(s))
<1> DEFINE q == Head(s)
           r == Tail(s)
<1>1. /\ s[1] = q /\ q \in S /\ r \in Seq(S) /\ Len(r) = Len(s) - 1
      /\ \A i \in 1..Len(r) : r[i] = s[i + 1]
  BY HeadTailProperties
<1>2. /\ DOMAIN s = 1..Len(s) /\ Len(s) \in Nat /\ Len(s) # 0
      /\ DOMAIN r = 1..(Len(s) - 1)
  BY <1>1
<1>. HIDE DEF q, r
<1>3. 1 \in DOMAIN s /\ \A i \in DOMAIN r : i \in Int /\ i + 1 \in DOMAIN s /\ i + 1 # 1
  BY <1>2
<1>4. q \in Range(s)
  BY <1>1, <1>3 DEF Range
<1>5. \A p : p \in Range(r) => p \in Range(s)
  BY <1>1, <1>2, <1>3 DEF Range
<1>6. ASSUME NEW i \in DOMAIN s PROVE s[i] = q \/ s[i] \in Range(r)
  <2>1. CASE i = 1
    BY <1>1, <2>1
  <2>2. CASE i # 1
    <3>1. i - 1 \in DOMAIN r /\ (i - 1) + 1 = i
      BY <1>2, <2>2
    <3>2. r[i - 1] = s[i]
      BY <1>1, <1>2, <3>1
    <3>. QED BY <3>1, <3>2 DEF Range
  <2>. QED BY <2>1, <2>2
<1>7. \A p : p \in Range(s) => p = q \/ p \in Range(r)
  BY <1>6 DEF Range
<1>8. ASSUME Once(s) PROVE Once(r)
  <2>1. ASSUME NEW i \in DOMAIN r, NEW j \in DOMAIN r, r[i] = r[j], Original(r[i])
        PROVE  i = j
    <3>1. s[i + 1] = s[j + 1] /\ Original(s[i + 1])
      BY <1>1, <1>2, <2>1
    <3>2. i + 1 = j + 1
      BY <1>3, <1>8, <3>1 DEF Once
    <3>. QED BY <1>3, <3>2
  <2>. QED BY <2>1 DEF Once
<1>9. ASSUME Once(s), Original(q), q \in Range(r) PROVE FALSE
  <2>1. PICK i \in DOMAIN r : r[i] = q
    BY <1>9 DEF Range
  <2>2. s[i + 1] = s[1] /\ Original(s[1])
    BY <1>1, <1>2, <1>9, <2>1
  <2>. QED BY <1>3, <1>9, <2>2 DEF Once
<1>. QED BY <1>1, <1>4, <1>5, <1>7, <1>8, <1>9 DEF q, r

\* A packet of the request is refused; a host unreachable message may be sent.
LEMMA SendIcmpKeeps ==
    ASSUME SInv, NEW t \in Threads, sr_send_icmp_to_waiting(t)
    PROVE  Typed' /\ ShapeOK' /\ HeldOK' /\ PlacesOK'
<1>h. PICK h : h = Here(t)
  OBVIOUS
<1>q. PICK q : q = Head(h.rest)
  OBVIOUS
<1>g. PICK g : g = [h EXCEPT !.rest = Tail(h.rest)]
  OBVIOUS
<1>m. PICK m : m = HostUnreachable(q)
  OBVIOUS
<1>1. Uses(t, "sr_send_icmp_to_waiting")
  BY DEF sr_send_icmp_to_waiting
<1>2. /\ stack[t] # <<>> /\ h.fn = "sr_send_icmp_to_waiting" /\ h \in Call
      /\ h.req \in ReqIds /\ Running(t)
  BY <1>h, <1>1, UsedIs
<1>3. /\ h.rest # <<>> /\ refused' = refused \cup {q}
      /\ Goto(t, Attempts({m}) \o <<g>>)
      /\ UNCHANGED <<entries, reqs, queue, lock, slept, arrived, arps, sent, crashed>>
  BY <1>h, <1>q, <1>g, <1>m DEF sr_send_icmp_to_waiting, memory, input
<1>4. h \in GiveUps /\ h.rest \in Seq(Routable)
  BY <1>2, CallIs
<1>5. /\ q \in Routable /\ q \in Range(h.rest) /\ Tail(h.rest) \in Seq(Routable)
      /\ \A p : p \in Range(h.rest) <=> p = q \/ p \in Range(Tail(h.rest))
  BY <1>q, <1>3, <1>4, TailRange
<1>6. /\ g \in Call /\ g.fn = "sr_send_icmp_to_waiting" /\ g.req = h.req
      /\ g.rest = Tail(h.rest)
  <2>1. g \in GiveUps
    BY <1>g, <1>4, <1>5 DEF GiveUps
  <2>. QED BY <1>g, <1>2, <1>4, <2>1 DEF Call, GiveUps
<1>7. m \in Packet /\ ~Original(m)
  BY <1>m, <1>5, HostUnreachableIs
<1>8. PICK new \in Seq(Call) :
        /\ new = <<g>> \/ (m \in Routable /\ new = <<Attempt(m), g>>)
        /\ Goto(t, new)
  <2>1. \/ Attempts({m}) = <<>>
        \/ HasRoute(m.dst) /\ Attempts({m}) = <<Attempt(m)>>
    <3>1. {m} = {} \/ \E p : {m} = {p}
      OBVIOUS
    <3>2. \A p \in {m} : p = m
      OBVIOUS
    <3>. QED BY <3>1, <3>2, AttemptsIs
  <2>2. CASE Attempts({m}) = <<>>
    <3>1. <<>> \o <<g>> = <<g>>
      OBVIOUS
    <3>. QED BY <1>3, <1>6, <2>2, <3>1, RangeOf
  <2>3. CASE HasRoute(m.dst) /\ Attempts({m}) = <<Attempt(m)>>
    <3>1. m \in Routable
      BY <1>7, <2>3 DEF Routable
    <3>2. <<Attempt(m)>> \o <<g>> = <<Attempt(m), g>>
      BY ConcatTwo
    <3>3. Attempt(m) \in Call
      BY <3>1, CallMade
    <3>. QED BY <1>3, <1>6, <2>3, <3>1, <3>2, <3>3, RangeOf
  <2>. QED BY <2>1, <2>2, <2>3
<1>9. /\ g \in Range(new)
      /\ \A f \in Range(new) : f = g \/ (f = Attempt(m) /\ m \in Routable)
  BY <1>8, RangeOf
<1>10. Attempt(m).fn = "sr_attempt_send" /\ Attempt(m).pkt = m
  BY DEF Attempt
<1>11. Fits(t, new)
  <2>1. Fits(t, <<g>>) /\ Fits(t, <<Attempt(m), g>>)
    BY <1>6, <1>10, FitsIf DEF Bottom
  <2>. QED BY <1>8, <2>1
<1>12. Gone(t, new) /\ stack' \in Stacks /\ ShapeOK'
  BY <1>2, <1>3, <1>8, <1>11, GoneKeeps
<1>13. HeldOK'
  <2>1. HeldCall(h)
    BY <1>h, <1>2 DEF Running
  <2>2. HeldCall(g)
    BY <1>2, <1>6, <2>1 DEF HeldCall
  <2>3. HeldCall(Attempt(m))
    BY <1>10 DEF HeldCall
  <2>. QED BY <1>2, <1>3, <1>9, <1>12, <2>2, <2>3, GoneHeld
<1>14. Typed'
  <2>1. refused' \subseteq Routable
    BY <1>3, <1>5 DEF SInv, Typed
  <2>. QED BY <1>3, <1>12, <2>1 DEF SInv, Typed
<1>15. /\ \A p : Answered(p)' <=> Answered(p)
       /\ \A f \in Calls(Main)' : f.fn = "sr_recv_arp" => f \in Calls(Main)
  <2>1. h.fn # "sr_recv_arp" /\ \A f \in Range(new) : f.fn # "sr_recv_arp"
    BY <1>2, <1>6, <1>9, <1>10
  <2>. QED BY <1>h, <1>2, <1>12, <2>1, GoneViews
<1>16. ASSUME NEW p, Original(p)
       PROVE  \A u \in Threads : Sending(u, p)' <=> Sending(u, p)
  <2>1. ~Sending(t, p)
    <3>1. Sending(t, p) => h.fn \in {"sr_attempt_send", "sr_arpcache_queuereq"}
      BY <1>h, <1>2, <1>12, GoneViews
    <3>. QED BY <1>2, <3>1
  <2>2. ~Sending(t, p)'
    <3>1. Sending(t, p)' <=>
                \E f \in Range(new) :
                  /\ f.fn \in {"sr_attempt_send", "sr_arpcache_queuereq"}
                  /\ f.pkt = p
      BY <1>2, <1>12, GoneViews
    <3>. QED BY <1>6, <1>7, <1>9, <1>10, <1>16, <3>1
  <2>3. \A u \in Threads : u # t => (Sending(u, p)' <=> Sending(u, p))
    BY <1>2, <1>12, GoneViews
  <2>. QED BY <2>1, <2>2, <2>3
<1>17. \A p, x : Queued(x, p)' <=> Queued(x, p)
  BY <1>3 DEF Queued
<1>18. \A u \in Threads :
         /\ \A f \in Calls(u)' : f = g \/ f = Attempt(m) \/ f \in Calls(u)
         /\ \A f \in Calls(u) : f = h \/ f \in Calls(u)'
         /\ h \in Calls(u) => g \in Calls(u)' \/ h \in Calls(u)'
         /\ g \in Calls(u)' => g \in Calls(u) \/ h \in Calls(u)
  BY <1>h, <1>2, <1>9, <1>12 DEF Gone, Running
<1>19. \A x, u : u \in Threads => (GivingUp(u, x)' <=> GivingUp(u, x))
  BY <1>2, <1>6, <1>10, <1>18 DEF GivingUp
<1>20. h \in Calls(t)
  BY <1>h, <1>2 DEF Running
<1>21. ASSUME NEW p \in Routable, Original(p)
       PROVE  OnePlace(p)' /\ FirstHand(p)'
  <2>1. OnePlace(p) /\ FirstHand(p)
    BY <1>21 DEF SInv, PlacesOK
  <2>2. Owed' = Owed /\ sent' = sent
    BY <1>3 DEF Owed
  <2>3. \A u \in Threads : Sending(u, p)' <=> Sending(u, p)
    BY <1>16, <1>21
  <2>4. GivenUp(h, p)
    BY <1>20, <2>1 DEF OnePlace
  <2>5. ASSUME NEW u \in Threads, NEW f \in Calls(u)' PROVE GivenUp(f, p)'
    <3>1. CASE f = g
      <4>1. Queued(g.req, p)' <=> Queued(h.req, p)
        BY <1>6, <1>17
      <4>2. p \in Range(h.rest) => p \in refused' \/ p \in Range(g.rest)
        BY <1>3, <1>5, <1>6
      <4>3. p \in Range(g.rest) => p \in Range(h.rest)
        BY <1>5, <1>6
      <4>4. p \in refused => p \in refused'
        BY <1>3
      <4>. QED BY <1>2, <2>4, <3>1, <4>1, <4>2, <4>3, <4>4 DEF GivenUp
    <3>2. CASE f = Attempt(m)
      BY <1>10, <3>2 DEF GivenUp
    <3>3. CASE f \in Calls(u)
      <4>1. GivenUp(f, p)
        BY <2>1, <3>3 DEF OnePlace
      <4>. QED BY <1>3, <1>17, <4>1 DEF GivenUp
    <3>. QED BY <1>18, <2>5, <3>1, <3>2, <3>3
  <2>6. FirstHand(p)'
    BY <1>19, <2>1, <2>3, MainSweeper DEF FirstHand
  <2>7. CASE p # q \/ p \in refused
    <3>1. p \in refused' <=> p \in refused
      BY <1>3, <2>7
    <3>2. Stays(p)
      BY <1>15, <1>17, <2>2, <2>3, <3>1 DEF Stays
    <3>3. Apart(p)' /\ (InPlace(p)' <=> p \in Owed')
      BY <2>1, <3>2, MainSweeper DEF Stays, OnePlace, Apart, InPlace
    <3>4. \A x \in ReqIds :
            Queued(x, p)' /\ p \in refused' => \E u \in Threads : GivingUp(u, x)'
      BY <1>17, <1>19, <2>1, <3>1 DEF OnePlace
    <3>. QED BY <2>5, <2>6, <3>3, <3>4 DEF OnePlace
  <2>8. CASE p = q /\ p \notin refused
    <3>1. Queued(h.req, p)
      BY <1>2, <1>5, <2>4, <2>8 DEF GivenUp
    <3>2. /\ p \notin sent /\ ~Sending(Main, p) /\ ~Answered(p) /\ p \in Owed
          /\ \A x \in ReqIds : Queued(x, p) => x = h.req
      BY <1>2, <2>1, <3>1 DEF OnePlace, Apart, InPlace
    <3>3. p \in refused'
      BY <1>3, <2>8
    <3>4. Apart(p)' /\ InPlace(p)' /\ p \in Owed'
      BY <1>15, <1>17, <2>2, <2>3, <3>2, <3>3, MainSweeper DEF Apart, InPlace
    <3>5. GivingUp(t, h.req)'
      BY <1>2, <1>19, <1>20 DEF GivingUp
    <3>6. \A x \in ReqIds :
            Queued(x, p)' /\ p \in refused' => \E u \in Threads : GivingUp(u, x)'
      BY <1>17, <3>2, <3>5
    <3>. QED BY <2>5, <2>6, <3>4, <3>6 DEF OnePlace
  <2>. QED BY <2>7, <2>8
<1>22. OnceEach'
  BY <1>3, <1>15 DEF SInv, PlacesOK, OnceEach
<1>. QED BY <1>12, <1>13, <1>14, <1>21, <1>22 DEF PlacesOK

\* The request after one in the queue is another in the queue, or none.
LEMMA NextOfIs ==
    ASSUME QInv, NEW r \in Range(queue)
    PROVE  NextOf(r) = Null \/ (NextOf(r) \in Range(queue) /\ NextOf(r) # r)
<1> DEFINE p == Place(r)
<1>1. /\ queue \in Seq(ReqIds) /\ Len(queue) \in Nat /\ DOMAIN queue = 1..Len(queue)
      /\ \A i \in DOMAIN queue : queue[i] \in Range(queue)
  BY InQueue DEF QInv
<1>2. p \in 1..Len(queue) /\ queue[p] = r
  BY <1>1, InQueue DEF Place
<1>3. NextOf(r) = IF p = Len(queue) THEN Null ELSE queue[p + 1]
  BY DEF NextOf
<1>. HIDE DEF p
<1>4. ASSUME p # Len(queue)
      PROVE  queue[p + 1] \in Range(queue) /\ queue[p + 1] # r
  <2>1. \A n \in Nat : \A k \in 1..n :
          k # n => k + 1 \in 1..n /\ k \in 1..n /\ k + 1 # k
    OBVIOUS
  <2>2. p + 1 \in DOMAIN queue /\ p \in DOMAIN queue /\ p + 1 # p
    BY <1>1, <1>2, <1>4, <2>1
  <2>3. \A i, j \in DOMAIN queue :
          reqs[queue[i]].ip = reqs[queue[j]].ip => i = j
    BY DEF QInv, QueueSound
  <2>. QED BY <1>1, <1>2, <2>2, <2>3
<1>. QED BY <1>3, <1>4

\* Removing a request leaves the others, and the one after it is another.
LEMMA UnlinkLeaves ==
    ASSUME QInv, NEW r, Unlink(r)
    PROVE  /\ \A x \in Range(queue) : x # r => x \in Range(queue')
           /\ r \notin Range(queue) => queue' = queue
           /\ r \in Range(queue) =>
                \/ NextOf(r) = Null
                \/ NextOf(r) \in Range(queue) /\ NextOf(r) # r
<1>1. /\ queue \in Seq(ReqIds) /\ Len(queue) \in Nat /\ DOMAIN queue = 1..Len(queue)
      /\ \A i \in DOMAIN queue : queue[i] \in Range(queue)
  BY InQueue DEF QInv
<1>2. CASE r \notin Range(queue)
  BY <1>2 DEF Unlink
<1>3. CASE r \in Range(queue)
  <2> DEFINE p == Place(r)
             g(k) == IF k < p THEN k ELSE k + 1
  <2>1. p \in 1..Len(queue) /\ queue[p] = r
    BY <1>1, <1>3, InQueue DEF Place
  <2>2. queue' = RemoveAt(queue, p)
    BY <1>3 DEF Unlink
  <2>. HIDE DEF p
  <2>4. /\ DOMAIN queue' = 1..(Len(queue) - 1)
        /\ \A k \in 1..(Len(queue) - 1) : queue'[k] = queue[g(k)]
    BY SMTT(20), <1>1, <2>1, <2>2, RemoveAtIndex
  <2>5. ASSUME NEW i \in DOMAIN queue, i # p
        PROVE  \E k \in DOMAIN queue' : g(k) = i
    <3>1. CASE i < p
      <4>1. i \in DOMAIN queue' /\ g(i) = i
        BY <1>1, <2>1, <2>4, <3>1
      <4>. QED BY <4>1
    <3>2. CASE i > p
      <4>1. i - 1 \in DOMAIN queue' /\ g(i - 1) = i
        BY <1>1, <2>1, <2>4, <3>2
      <4>. QED BY <4>1
    <3>. QED BY <1>1, <2>1, <2>5, <3>1, <3>2
  <2>. HIDE DEF g
  <2>6. ASSUME NEW x \in Range(queue), x # r PROVE x \in Range(queue')
    <3>1. PICK i \in DOMAIN queue : queue[i] = x
      BY <2>6 DEF Range
    <3>2. PICK k \in DOMAIN queue' : g(k) = i
      BY <2>1, <2>5, <2>6, <3>1
    <3>3. queue'[k] = x
      BY <2>4, <3>1, <3>2
    <3>. QED BY <3>3 DEF Range
  <2>. QED BY <1>3, <2>6, NextOfIs
<1>. QED BY <1>2, <1>3

\* The stack when a request has been destroyed: a sweep that waits for it still
\* knows the request that came next.
Left(r, f) == f.fn = "sweep_next" /\ f.req = r /\ f.next = NextOf(r)

Ended(t, r) ==
    /\ stack' \in Stacks
    /\ \A u \in Threads : u # t => stack'[u] = stack[u] /\ Calls(u)' = Calls(u)
    /\ Len(stack'[t]) = Len(stack[t]) - 1 /\ DOMAIN stack'[t] = 1..(Len(stack[t]) - 1)
    /\ \A i \in DOMAIN stack'[t] :
         i + 1 \in DOMAIN stack[t] /\ stack'[t][i].fn = stack[t][i + 1].fn
    /\ \A f \in Calls(t)' :
         Left(r, f) \/ (f \in Waits(t) /\ ~(f.fn = "sweep_next" /\ f.req = r))
    /\ \A f \in Waits(t) : f.fn # "sweep_next" => f \in Calls(t)'

\* Destroying a request ends the call of the thread, frees the request and takes the
\* sweeper, if it was there, on from it.
LEMMA EndedIs ==
    ASSUME SInv, NEW t \in Threads, sr_arpreq_destroy(t),
           NextOf(Here(t).req) \in ReqIds \cup {Null}
    PROVE  Ended(t, Here(t).req)
<1>r. PICK r : r = Here(t).req
  OBVIOUS
<1> DEFINE after(f) == IF f.fn = "sweep_next" /\ f.req = r
                       THEN [f EXCEPT !.next = NextOf(r)] ELSE f
<1>0. stack[t] # <<>>
  BY DEF sr_arpreq_destroy, Uses, At
<1>1. /\ stack \in Stacks /\ Tail(stack[t]) \in Seq(Call) /\ Len(stack[t]) \in Nat
      /\ Len(Tail(stack[t])) = Len(stack[t]) - 1 /\ 1 \in DOMAIN stack[t]
      /\ \A i \in DOMAIN Tail(stack[t]) :
           i + 1 \in DOMAIN stack[t] /\ Tail(stack[t])[i] = stack[t][i + 1]
  BY <1>0, CallsAre DEF SInv, Typed
<1>2. Len(stack[t]) - 1 \in Nat /\ DOMAIN Tail(stack[t]) = 1..(Len(stack[t]) - 1)
  <2>1. Len(Tail(stack[t])) \in Nat
    BY <1>1
  <2>. QED BY <1>1, <2>1
<1>3. stack' = [stack EXCEPT ![t] =
                  [i \in 1..(Len(stack[t]) - 1) |-> after(stack[t][i + 1])]]
  BY <1>r DEF sr_arpreq_destroy
<1>4. ASSUME NEW f \in Call
      PROVE  /\ after(f) \in Call /\ after(f).fn = f.fn
             /\ Left(r, after(f)) \/ (after(f) = f /\ ~(f.fn = "sweep_next" /\ f.req = r))
             /\ f.fn # "sweep_next" => after(f) = f
  <2>1. CASE f.fn = "sweep_next" /\ f.req = r
    <3>1. f \in SweepNexts
      BY <2>1, CallIs
    <3>2. NextOf(r) \in ReqIds \cup {Null}
      BY <1>r
    <3>3. /\ [f EXCEPT !.next = NextOf(r)] \in SweepNexts
          /\ [f EXCEPT !.next = NextOf(r)].next = NextOf(r)
          /\ [f EXCEPT !.next = NextOf(r)].req = f.req
      BY <3>1, <3>2 DEF SweepNexts
    <3>4. after(f) = [f EXCEPT !.next = NextOf(r)]
      BY <2>1
    <3>5. after(f) \in SweepNexts /\ after(f).next = NextOf(r) /\ after(f).req = r
      BY <2>1, <3>3, <3>4
    <3>. HIDE DEF after
    <3>6. after(f).fn = "sweep_next" /\ after(f) \in Call
      BY <3>5 DEF SweepNexts, Call
    <3>. QED BY <2>1, <3>5, <3>6 DEF Left
  <2>2. CASE ~(f.fn = "sweep_next" /\ f.req = r)
    BY <2>2
  <2>. QED BY <2>1, <2>2
<1>. HIDE DEF after
<1>5. /\ DOMAIN stack'[t] = 1..(Len(stack[t]) - 1)
      /\ \A i \in 1..(Len(stack[t]) - 1) :
           /\ i + 1 \in DOMAIN stack[t] /\ stack[t][i + 1] \in Call
           /\ stack[t][i + 1] = Tail(stack[t])[i]
           /\ stack'[t][i] = after(stack[t][i + 1])
      /\ \A u \in Threads : u # t => stack'[u] = stack[u]
  BY <1>1, <1>2, <1>3 DEF Stacks
<1>6. stack' \in Stacks
  <2>1. [i \in 1..(Len(stack[t]) - 1) |-> after(stack[t][i + 1])] \in Seq(Call)
    <3> DEFINE n == Len(stack[t]) - 1
               s == [i \in 1..n |-> after(stack[t][i + 1])]
    <3>1. \A i \in 1..n : after(stack[t][i + 1]) \in Call
      BY <1>4, <1>5
    <3>2. s \in [1..n -> Call]
      BY <3>1
    <3>3. n \in Nat
      BY <1>2
    <3>. HIDE DEF n, s
    <3>4. s \in Seq(Call)
      BY <3>2, <3>3, SeqDef
    <3>. QED BY <3>4 DEF n, s
  <2>. QED BY <1>1, <1>3, <2>1 DEF Stacks
<1>7. Len(stack'[t]) = Len(stack[t]) - 1
  BY <1>2, <1>5, <1>6 DEF Stacks
<1>8. \A u \in Threads : u # t => Calls(u)' = Calls(u)
  BY <1>5 DEF Calls
<1>9. ASSUME NEW f \in Calls(t)'
      PROVE  Left(r, f) \/ (f \in Waits(t) /\ ~(f.fn = "sweep_next" /\ f.req = r))
  <2>1. PICK i \in 1..(Len(stack[t]) - 1) : f = after(stack[t][i + 1])
    BY <1>5 DEF Calls, Range
  <2>2. stack[t][i + 1] \in Waits(t)
    BY <1>2, <1>5 DEF Waits, Range
  <2>. QED BY <1>4, <1>5, <2>1, <2>2
<1>10. ASSUME NEW f \in Waits(t), f.fn # "sweep_next" PROVE f \in Calls(t)'
  <2>1. PICK i \in 1..(Len(stack[t]) - 1) : f = stack[t][i + 1]
    BY <1>2, <1>5 DEF Waits, Range
  <2>2. stack'[t][i] = f
    BY <1>4, <1>5, <1>10, <2>1
  <2>. QED BY <1>5, <2>2 DEF Calls, Range
<1>11. \A i \in DOMAIN stack'[t] :
         i + 1 \in DOMAIN stack[t] /\ stack'[t][i].fn = stack[t][i + 1].fn
  BY <1>4, <1>5
<1>. QED BY <1>r, <1>5, <1>6, <1>7, <1>8, <1>9, <1>10, <1>11 DEF Ended

\* The answered request: the main thread returns from its only call, and the
\* sweeper is in none.
LEMMA AnsweredDestroyKeeps ==
    ASSUME SInv, NEW t \in Threads, sr_arpreq_destroy(t), Uses(t, "sr_recv_arp")
    PROVE  Typed' /\ ShapeOK' /\ HeldOK' /\ PlacesOK'
<1>h. PICK h : h = Here(t)
  OBVIOUS
<1>r. PICK r : r = h.req
  OBVIOUS
<1>1. /\ stack[t] # <<>> /\ h.fn = "sr_recv_arp" /\ Running(t) /\ h \in Call
      /\ r \in ReqIds /\ reqs[r] \in Queueing /\ r \notin Range(queue)
  BY <1>h, <1>r, UsedIs
<1>2. /\ t = Main /\ Waits(t) = {} /\ Tail(stack[t]) = <<>> /\ Calls(t) = {h}
  BY <1>h, <1>1 DEF Running, Bottom
<1>3. /\ CanLock(t) /\ h.rest = <<>> /\ Unlink(r) /\ reqs' = [reqs EXCEPT ![r] = Freed]
      /\ UNCHANGED <<entries, lock, slept, arrived, arps, sent, refused, crashed>>
  BY <1>h, <1>r DEF sr_arpreq_destroy, input, history
<1>4. queue' = queue
  BY <1>1, <1>3, UnlinkLeaves DEF SInv
<1>5. stack[Sweeper] = <<>>
  BY <1>2, <1>3, MainSweeper DEF SInv, Typed, ShapeOK, CanLock
<1>6. Len(stack[t]) = 1
  <2>1. /\ Len(Tail(stack[t])) = Len(stack[t]) - 1 /\ Len(stack[t]) \in Nat
    BY <1>1, CallsAre DEF SInv, Typed
  <2>2. Len(<<>>) = 0
    OBVIOUS
  <2>3. Len(Tail(stack[t])) = 0
    BY <1>2, <2>2, Zenon
  <2>. QED BY <2>1, <2>3
<1>7. stack' = [u \in Threads |-> <<>>]
  <2> DEFINE new == [i \in 1..(Len(stack[t]) - 1) |->
                       IF stack[t][i + 1].fn = "sweep_next" /\ stack[t][i + 1].req = r
                       THEN [stack[t][i + 1] EXCEPT !.next = NextOf(r)]
                       ELSE stack[t][i + 1]]
  <2>1. stack' = [stack EXCEPT ![t] = new]
    BY <1>h, <1>r DEF sr_arpreq_destroy
  <2>2. 1..(Len(stack[t]) - 1) = {}
    BY <1>6
  <2>3. new = <<>>
    BY <2>2
  <2>. HIDE DEF new
  <2>4. stack \in [Threads -> Seq(Call)]
    BY DEF SInv, Typed, Stacks
  <2>. QED BY <1>2, <1>5, <2>1, <2>3, <2>4 DEF Threads
<1>8. /\ stack' \in Stacks /\ \A u \in Threads : stack'[u] = <<>> /\ Calls(u)' = {}
  BY <1>7 DEF Stacks, Calls, Range
<1>9. ShapeOK'
  BY <1>8, MainSweeper DEF ShapeOK
<1>10. HeldOK'
  BY <1>8 DEF HeldOK
<1>11. Typed'
  <2>1. reqs' \in [ReqIds -> Queueing \cup {Freed}]
    BY <1>3 DEF SInv, Typed
  <2>. QED BY <1>3, <1>4, <1>8, <2>1 DEF SInv, Typed
<1>12. \A x \in Range(queue) : x \in ReqIds /\ reqs'[x] = reqs[x]
  <2>1. \A x \in Range(queue) : x \in ReqIds /\ x # r
    BY <1>1, InQueue DEF SInv, Typed
  <2>. QED BY <1>3, <2>1 DEF SInv, Typed
<1>13. Calls(Sweeper) = {}
  BY <1>5 DEF Calls, Range
<1>14. \A u \in Threads : \A f \in Calls(u) : f = h
  BY <1>2, <1>13 DEF Threads
<1>15. ASSUME NEW p \in Routable, Original(p)
       PROVE  OnePlace(p)' /\ FirstHand(p)'
  <2>1. OnePlace(p) /\ FirstHand(p)
    BY <1>15 DEF SInv, PlacesOK
  <2>2. \A u \in Threads : ~Sending(u, p) /\ ~Sending(u, p)'
    BY <1>1, <1>8, <1>14 DEF Sending
  <2>3. ~Answered(p) /\ ~Answered(p)'
    BY <1>3, <1>8, <1>14, MainSweeper, RangeOf DEF Answered
  <2>4. \A x \in ReqIds : Queued(x, p)' <=> Queued(x, p)
    BY <1>4, <1>12 DEF Queued
  <2>5. Stays(p)
    BY <1>3, <2>2, <2>3, <2>4 DEF Stays, Owed
  <2>6. SameGivingUp
    BY <1>1, <1>8, <1>14 DEF SameGivingUp
  <2>. QED BY <2>1, <2>5, <2>6, StaysKeeps
<1>16. OnceEach'
  BY <1>4, <1>8, <1>12, MainSweeper DEF SInv, PlacesOK, OnceEach
<1>. QED BY <1>9, <1>10, <1>11, <1>15, <1>16 DEF PlacesOK

\* The request that was given up: all that is in it has been refused.
LEMMA GivenUpDestroyKeeps ==
    ASSUME SInv, NEW t \in Threads, sr_arpreq_destroy(t),
           Uses(t, "sr_send_icmp_to_waiting")
    PROVE  Typed' /\ ShapeOK' /\ HeldOK' /\ PlacesOK'
<1>h. PICK h : h = Here(t)
  OBVIOUS
<1>r. PICK r : r = h.req
  OBVIOUS
<1>1. /\ stack[t] # <<>> /\ h.fn = "sr_send_icmp_to_waiting" /\ Running(t) /\ h \in Call
      /\ r \in ReqIds /\ reqs[r] \in Queueing /\ r \in Range(queue) /\ h \in Calls(t)
  BY <1>h, <1>r, UsedIs DEF Running
<1>2. /\ CanLock(t) /\ h.rest = <<>> /\ Unlink(r) /\ reqs' = [reqs EXCEPT ![r] = Freed]
      /\ UNCHANGED <<entries, lock, slept, arrived, arps, sent, refused, crashed>>
  BY <1>h, <1>r DEF sr_arpreq_destroy, input, history
<1>3. /\ queue' \in Seq(ReqIds) /\ r \notin Range(queue')
      /\ \A x : x # r => (x \in Range(queue') <=> x \in Range(queue))
      /\ NextOf(r) = Null \/ (NextOf(r) \in Range(queue') /\ NextOf(r) # r)
      /\ \A x \in Range(queue) : x \in ReqIds
  BY <1>1, <1>2, UnlinkEffect, UnlinkLeaves, InQueue DEF SInv, QInv
<1>n. PICK n : n = NextOf(r)
  OBVIOUS
<1>4. Ended(t, r)
  <2>1. NextOf(Here(t).req) \in ReqIds \cup {Null}
    BY <1>h, <1>r, <1>3
  <2>. QED BY <1>h, <1>r, <2>1, EndedIs
<1>5. /\ reqs' \in [ReqIds -> Queueing \cup {Freed}] /\ ~reqs'[r].live
      /\ \A x \in ReqIds : x # r => reqs'[x] = reqs[x]
  BY <1>1, <1>2 DEF SInv, Typed, Freed
<1>6. stack' \in Stacks /\ \A u \in Threads : \A f \in Calls(u) : f \in Call /\ HeldCall(f)
  BY <1>4 DEF Ended, SInv, Typed, Stacks, Calls, Range, HeldOK
<1>7. Typed'
  BY <1>2, <1>3, <1>5, <1>6 DEF SInv, Typed
<1>8. ShapeOK'
  <2>1. \A u \in Threads : \A i \in DOMAIN stack[u] :
           Placed(u, stack[u][i].fn, i, Len(stack[u]))
    BY DEF SInv, ShapeOK
  <2>2. ASSUME NEW i \in DOMAIN stack'[t] PROVE Placed(t, stack'[t][i].fn, i, Len(stack'[t]))
    <3>1. /\ i + 1 \in DOMAIN stack[t] /\ stack'[t][i].fn = stack[t][i + 1].fn
          /\ Len(stack'[t]) = Len(stack[t]) - 1 /\ i \in 1..(Len(stack[t]) - 1)
      BY <1>4 DEF Ended
    <3>2. Placed(t, stack[t][i + 1].fn, i + 1, Len(stack[t]))
      BY <2>1, <3>1
    <3>3. i + 1 > 1 /\ (i + 1 = Len(stack[t]) => i = Len(stack'[t]))
      BY <1>1, <3>1, CallsAre DEF SInv, Typed
    <3>. QED BY <3>1, <3>2, <3>3 DEF Placed
  <2>3. t = Sweeper => lock' # Null
    BY <1>1, <1>2, ArpConstants DEF Running, Threads
  <2>4. \A u \in Threads : u # t => stack'[u] = stack[u]
    BY <1>4 DEF Ended
  <2>5. lock' = Null => stack'[Sweeper] = <<>>
    BY <1>2, <2>3, <2>4, MainSweeper DEF SInv, ShapeOK
  <2>. QED BY <2>1, <2>2, <2>4, <2>5 DEF ShapeOK
<1>9. ASSUME t = Main PROVE Calls(Sweeper) = {}
  <2>1. stack[Sweeper] = <<>>
    BY <1>2, <1>9, MainSweeper DEF SInv, Typed, ShapeOK, CanLock
  <2>. QED BY <2>1 DEF Calls, Range
<1>10. HeldOK'
  <2>1. ASSUME NEW x \in ReqIds \cup {Null},
               x = Null \/ ~reqs[x].live \/ x \in Range(queue)
        PROVE  x = Null \/ ~reqs'[x].live \/ x \in Range(queue')
    BY <1>3, <1>5, <2>1
  <2>2. ASSUME NEW f \in Call, HeldCall(f) PROVE HeldCall(f)'
    <3>1. f.fn \in {"sr_handle_arpreq", "sweep_next", "sr_arpcache_sweepreqs",
                    "ask", "count", "sr_send_icmp_to_waiting"} => f.req \in ReqIds \cup {Null}
      BY CallIs
    <3>2. f.fn = "sweep_next" => f.next \in ReqIds \cup {Null}
      BY CallIs
    <3>3. ASSUME f.fn = "sr_recv_arp" PROVE reqs'[f.req].live /\ f.req \notin Range(queue')
      <4>1. f.req \in ReqIds /\ reqs[f.req].live /\ f.req \notin Range(queue)
        BY <2>2, <3>3, CallIs DEF HeldCall
      <4>2. f.req # r
        BY <1>1, <4>1
      <4>. QED BY <1>3, <1>5, <4>1, <4>2
    <3>. QED BY <2>1, <2>2, <3>1, <3>2, <3>3 DEF HeldCall
  <2>3. ASSUME NEW u \in Threads, NEW f \in Calls(u)' PROVE HeldCall(f)'
    <3>1. CASE f.fn = "sweep_next" /\ f.req = r /\ f.next = n
      <4>1. ~reqs'[f.req].live
        BY <1>5, <3>1
      <4>2. f.next = Null \/ f.next \in Range(queue')
        BY <1>n, <1>3, <3>1
      <4>. QED BY <3>1, <4>1, <4>2 DEF HeldCall
    <3>2. CASE f \in Calls(u)
      BY <1>6, <2>2, <3>2
    <3>3. \A g \in Waits(t) : g \in Calls(t)
      BY <1>1 DEF Running
    <3>. QED BY <1>n, <1>4, <2>3, <3>1, <3>2, <3>3 DEF Ended, Left
  <2>. QED BY <2>3 DEF HeldOK
<1>11. \A u \in Threads :
         /\ \A f \in Calls(u)' : f.fn # "sweep_next" => f \in Calls(u)
         /\ \A f \in Calls(u) : f.fn # "sweep_next" => f = h \/ f \in Calls(u)'
  <2>1. Calls(t) = {h} \cup Waits(t)
    BY <1>h, <1>1 DEF Running
  <2>. QED BY <1>4, <2>1 DEF Ended, Left
<1>12. ASSUME NEW p \in Routable, Original(p)
       PROVE  OnePlace(p)' /\ FirstHand(p)'
  <2>1. OnePlace(p) /\ FirstHand(p)
    BY <1>12 DEF SInv, PlacesOK
  <2>2. \A u \in Threads : Sending(u, p)' <=> Sending(u, p)
    BY <1>1, <1>11 DEF Sending
  <2>3. Answered(p)' <=> Answered(p)
    BY <1>1, <1>11, MainSweeper DEF Answered
  <2>4. \A x \in ReqIds : Queued(x, p)' <=> Queued(x, p) /\ x # r
    BY <1>3, <1>5 DEF Queued
  <2>5. Queued(r, p) => p \in refused
    <3>1. GivenUp(h, p)
      BY <1>1, <2>1 DEF OnePlace
    <3>. QED BY <1>r, <1>1, <1>2, <3>1, RangeOf DEF GivenUp
  <2>6. Owed' = Owed /\ sent' = sent /\ refused' = refused
    BY <1>2 DEF Owed
  <2>7. Apart(p)'
    BY <2>1, <2>2, <2>3, <2>4, <2>6, MainSweeper DEF OnePlace, Apart
  <2>8. InPlace(p)' <=> p \in Owed'
    BY <2>1, <2>2, <2>3, <2>4, <2>5, <2>6, MainSweeper DEF OnePlace, InPlace
  <2>9. ASSUME NEW x \in ReqIds, Queued(x, p)', p \in refused'
        PROVE  \E u \in Threads : GivingUp(u, x)'
    <3>1. x # r /\ Queued(x, p)
      BY <2>4, <2>9
    <3>2. PICK u \in Threads : GivingUp(u, x)
      BY <2>1, <2>6, <2>9, <3>1 DEF OnePlace
    <3>. QED BY <1>r, <1>11, <3>1, <3>2 DEF GivingUp
  <2>10. ASSUME NEW u \in Threads, NEW f \in Calls(u)' PROVE GivenUp(f, p)'
    <3>1. CASE f.fn # "sr_send_icmp_to_waiting"
      BY <3>1 DEF GivenUp
    <3>2. CASE f.fn = "sr_send_icmp_to_waiting"
      <4>1. f \in Calls(u)
        BY <1>11, <2>10, <3>2
      <4>2. GivenUp(f, p) /\ f.req \in ReqIds
        BY <1>6, <2>1, <3>2, <4>1, CallIs DEF OnePlace
      <4>3. Queued(f.req, p)' <=> Queued(f.req, p) /\ f.req # r
        BY <2>4, <4>2
      <4>. QED BY <2>5, <2>6, <3>2, <4>2, <4>3 DEF GivenUp
    <3>. QED BY <3>1, <3>2
  <2>11. FirstHand(p)'
    BY <1>11, <2>1, <2>2, MainSweeper DEF FirstHand, GivingUp
  <2>. QED BY <2>7, <2>8, <2>9, <2>10, <2>11 DEF OnePlace
<1>13. OnceEach'
  <2>1. \A x \in Range(queue') : x \in Range(queue) /\ reqs'[x] = reqs[x]
    BY <1>3, <1>5
  <2>2. \A f \in Calls(Main)' : f.fn = "sr_recv_arp" => f \in Calls(Main)
    BY <1>11, MainSweeper
  <2>. QED BY <2>1, <2>2 DEF SInv, PlacesOK, OnceEach
<1>. QED BY <1>7, <1>8, <1>10, <1>12, <1>13 DEF PlacesOK

\* The main thread is about to send one more of the packets that waited.
LEMMA RecvArpKeeps ==
    ASSUME SInv, NEW t \in Threads, sr_recv_arp(t)
    PROVE  Typed' /\ ShapeOK' /\ HeldOK' /\ PlacesOK'
<1>h. PICK h : h = Here(t)
  OBVIOUS
<1>q. PICK q : q = Head(h.rest)
  OBVIOUS
<1>g. PICK g : g = [h EXCEPT !.rest = Tail(h.rest)]
  OBVIOUS
<1>1. Uses(t, "sr_recv_arp")
  BY DEF sr_recv_arp
<1>2. /\ stack[t] # <<>> /\ h.fn = "sr_recv_arp" /\ h \in Call /\ Running(t)
      /\ t = Main /\ Waits(t) = {} /\ Tail(stack[t]) = <<>> /\ Calls(t) = {h}
  BY <1>h, <1>1, UsedIs DEF Running, Bottom
<1>3. /\ h.rest # <<>> /\ Goto(t, <<Attempt(q), g>>)
      /\ UNCHANGED <<entries, reqs, queue, lock, slept, arrived, arps, sent, refused, crashed>>
  BY <1>h, <1>q, <1>g DEF sr_recv_arp, memory, input, history, Attempt
<1>4. h \in Answers /\ h.rest \in Seq(Routable)
  BY <1>2, CallIs
<1>5. /\ q \in Routable /\ q \in Range(h.rest) /\ Tail(h.rest) \in Seq(Routable)
      /\ \A p : p \in Range(h.rest) <=> p = q \/ p \in Range(Tail(h.rest))
      /\ Once(Tail(h.rest)) /\ (Original(q) => q \notin Range(Tail(h.rest)))
  <2>1. Once(h.rest)
    BY <1>2 DEF SInv, PlacesOK, OnceEach
  <2>. QED BY <1>q, <1>3, <1>4, <2>1, TailRange
<1>6. g \in Call /\ g.fn = "sr_recv_arp" /\ g.req = h.req /\ g.rest = Tail(h.rest)
  <2>1. g \in Answers
    BY <1>g, <1>4, <1>5 DEF Answers
  <2>. QED BY <1>g, <1>2, <1>4, <2>1 DEF Call, Answers
<1>7. /\ Attempt(q) \in Call /\ Attempt(q).fn = "sr_attempt_send" /\ Attempt(q).pkt = q
  BY <1>5, CallMade DEF Attempt
<1>8. PICK new \in Seq(Call) :
        new = <<Attempt(q), g>> /\ Range(new) = {Attempt(q), g} /\ Goto(t, new)
  BY <1>3, <1>6, <1>7, RangeOf
<1>9. Fits(t, new)
  BY <1>2, <1>6, <1>7, <1>8, FitsIf DEF Bottom
<1>10. Gone(t, new) /\ stack' \in Stacks /\ ShapeOK'
  BY <1>2, <1>3, <1>8, <1>9, GoneKeeps
<1>11. HeldOK'
  <2>1. HeldCall(h)
    BY <1>2 DEF Running
  <2>2. HeldCall(g)
    BY <1>2, <1>6, <2>1 DEF HeldCall
  <2>3. HeldCall(Attempt(q))
    BY <1>7 DEF HeldCall
  <2>. QED BY <1>2, <1>3, <1>8, <1>10, <2>2, <2>3, GoneHeld
<1>12. Typed'
  BY <1>3, <1>10 DEF SInv, Typed
<1>13. /\ Calls(Main)' = {Attempt(q), g} /\ Calls(Main) = {h}
       /\ Calls(Sweeper)' = Calls(Sweeper)
  BY <1>2, <1>8, <1>10, MainSweeper DEF Gone
<1>14. SameGivingUp
  <2>1. \A u \in Threads : \A f \in Calls(u)' : f \in Call
    BY <1>10 DEF Stacks, Calls, Range
  <2>. QED BY <1>2, <1>6, <1>7, <1>13, <2>1 DEF SameGivingUp, Threads
<1>15. ASSUME NEW p \in Routable, Original(p)
       PROVE  OnePlace(p)' /\ FirstHand(p)'
  <2>1. OnePlace(p) /\ FirstHand(p)
    BY <1>15 DEF SInv, PlacesOK
  <2>2. /\ ~Sending(Main, p) /\ (Sending(Main, p)' <=> p = q)
        /\ Sending(Sweeper, p)' <=> Sending(Sweeper, p)
        /\ Answered(p) <=> p = q \/ p \in Range(g.rest)
        /\ Answered(p)' <=> p \in Range(g.rest)
    BY <1>2, <1>5, <1>6, <1>7, <1>13 DEF Sending, Answered
  <2>3. \A x \in ReqIds : Queued(x, p)' <=> Queued(x, p)
    BY <1>3 DEF Queued
  <2>4. Owed' = Owed /\ sent' = sent /\ refused' = refused
    BY <1>3 DEF Owed
  <2>5. CASE p # q
    <3>1. Stays(p)
      BY <2>2, <2>3, <2>4, <2>5 DEF Stays, Threads
    <3>. QED BY <1>14, <2>1, <3>1, StaysKeeps
  <2>6. CASE p = q
    <3>1. /\ p \notin sent /\ p \notin refused /\ p \in Owed
          /\ \A x \in ReqIds : ~Queued(x, p)
      BY <2>1, <2>2, <2>6 DEF OnePlace, Apart, InPlace
    <3>2. Sending(Main, p)' /\ ~Answered(p)'
      BY <1>5, <1>6, <1>15, <2>2, <2>6
    <3>3. Apart(p)' /\ InPlace(p)' /\ p \in Owed'
      BY <2>3, <2>4, <3>1, <3>2 DEF Apart, InPlace
    <3>4. ASSUME NEW u \in Threads, NEW f \in Calls(u)' PROVE GivenUp(f, p)'
      <4>1. CASE f.fn # "sr_send_icmp_to_waiting"
        BY <4>1 DEF GivenUp
      <4>2. CASE f.fn = "sr_send_icmp_to_waiting"
        <5>1. f \in Calls(u)
          BY <1>14, <3>4, <4>2 DEF SameGivingUp
        <5>2. GivenUp(f, p)
          BY <2>1, <5>1 DEF OnePlace
        <5>. QED BY <1>3, <5>2 DEF GivenUp, Queued
      <4>. QED BY <4>1, <4>2
    <3>5. \A x \in ReqIds : ~Queued(x, p)'
      BY <2>3, <3>1
    <3>6. FirstHand(p)'
      <4>1. \A x \in ReqIds : ~GivingUp(Main, x)'
        BY <1>6, <1>7, <1>13 DEF GivingUp
      <4>. QED BY <2>1, <2>2, <4>1 DEF FirstHand
    <3>. QED BY <3>3, <3>4, <3>5, <3>6 DEF OnePlace
  <2>. QED BY <2>5, <2>6
<1>16. OnceEach'
  <2>1. \A f \in Calls(Main)' : f.fn = "sr_recv_arp" => Once(f.rest)
    BY <1>5, <1>6, <1>7, <1>13
  <2>. QED BY <1>3, <2>1 DEF SInv, PlacesOK, OnceEach
<1>. QED BY <1>10, <1>11, <1>12, <1>15, <1>16 DEF PlacesOK

-----------------------------------------------------------------------------
\* The steps that begin and end the calls of the two threads, and time

\* A thread that was in no call begins one.
LEMMA Begins ==
    ASSUME SInv, NEW t \in Threads, stack[t] = <<>>, NEW new \in Seq(Call),
           stack' = [stack EXCEPT ![t] = new]
    PROVE  /\ stack' \in Stacks /\ Calls(t) = {} /\ Calls(t)' = Range(new)
           /\ \A u \in Threads : u # t => stack'[u] = stack[u] /\ Calls(u)' = Calls(u)
           /\ \A u \in Threads : \A f \in Calls(u) : f \in Call /\ HeldCall(f)
           /\ \A u \in Threads : \A f \in Calls(u)' : f \in Call
           /\ /\ \A i \in DOMAIN new : Placed(t, new[i].fn, i, Len(new))
              /\ lock' = Null => t # Sweeper /\ lock = Null
              => ShapeOK'
<1>1. stack \in [Threads -> Seq(Call)]
  BY DEF SInv, Typed, Stacks
<1>2. /\ stack' \in [Threads -> Seq(Call)] /\ stack'[t] = new
      /\ \A u \in Threads : u # t => stack'[u] = stack[u]
  BY <1>1
<1>3. /\ \A u \in Threads : u # t => Calls(u)' = Calls(u)
      /\ Calls(t)' = Range(new) /\ Calls(t) = {}
  BY <1>2, RangeOf DEF Calls
<1>4. \A u \in Threads : \A f \in Calls(u) : f \in Call /\ HeldCall(f)
  BY <1>1 DEF SInv, HeldOK, Calls, Range
<1>5. \A u \in Threads : \A f \in Calls(u)' : f \in Call
  BY <1>2 DEF Calls, Range
<1>6. ASSUME \A i \in DOMAIN new : Placed(t, new[i].fn, i, Len(new)),
             lock' = Null => t # Sweeper /\ lock = Null
      PROVE  ShapeOK'
  BY <1>2, <1>6, MainSweeper DEF SInv, ShapeOK
<1>. QED BY <1>2, <1>3, <1>4, <1>5, <1>6 DEF Stacks

\* Calls that are not about a packet begin and end without consequence for any.
LEMMA NoPacketKeeps ==
    ASSUME SInv, UNCHANGED <<queue, arrived, sent, refused>>,
           \A r \in ReqIds : reqs'[r].packets = reqs[r].packets,
           \A u \in Threads : \A f \in Calls(u)' : f \in Call,
           \A u \in Threads : \A f : f.fn \in Carries => (f \in Calls(u)' <=> f \in Calls(u))
    PROVE  PlacesOK'
<1>1. \A p : \A u \in Threads : Sending(u, p)' <=> Sending(u, p)
  BY DEF Sending, Carries
<1>2. \A p : Answered(p)' <=> Answered(p)
  BY MainSweeper DEF Answered, Carries
<1>3. \A p : \A r \in ReqIds : Queued(r, p)' <=> Queued(r, p)
  BY DEF Queued
<1>4. \A p : Stays(p)
  BY <1>1, <1>2, <1>3 DEF Stays, Owed
<1>5. SameGivingUp
  BY DEF SameGivingUp, Carries
<1>6. \A p \in Routable : Original(p) => OnePlace(p)' /\ FirstHand(p)'
  BY <1>4, <1>5, StaysKeeps DEF SInv, PlacesOK
<1>7. OnceEach'
  <2>1. \A r \in Range(queue) : r \in ReqIds
    BY InQueue DEF SInv, Typed
  <2>2. \A f \in Calls(Main)' : f.fn = "sr_recv_arp" => f \in Calls(Main)
    BY MainSweeper DEF Carries
  <2>. QED BY <2>1, <2>2 DEF SInv, PlacesOK, OnceEach
<1>. QED BY <1>6, <1>7 DEF PlacesOK

\* The sweeper wakes up and takes the lock.
LEMMA TimeoutKeeps ==
    ASSUME SInv, sr_arpcache_timeout
    PROVE  Typed' /\ ShapeOK' /\ HeldOK' /\ PlacesOK'
<1>g. PICK g : g = [fn |-> "sr_arpcache_sweepreqs",
                    req |-> IF queue = <<>> THEN Null ELSE Head(queue)]
  OBVIOUS
<1>1. /\ stack[Sweeper] = <<>> /\ lock' = Sweeper /\ slept' = FALSE
      /\ entries' = [s \in Slots |->
                       IF entries[s].age > CacheTimeout
                       THEN [ip |-> Null, age |-> 0] ELSE entries[s]]
      /\ stack' = [stack EXCEPT ![Sweeper] = <<g>>]
      /\ UNCHANGED <<reqs, queue, arrived, arps, sent, refused, crashed>>
  BY <1>g DEF sr_arpcache_timeout, input, history
<1>2. g.req \in ReqIds \cup {Null} /\ (g.req = Null \/ g.req \in Range(queue))
  <2>1. ASSUME queue # <<>> PROVE Head(queue) \in ReqIds /\ Head(queue) \in Range(queue)
    BY <2>1, HeadTailProperties DEF SInv, Typed, Range
  <2>. QED BY <1>g, <2>1
<1>3. g \in Call /\ g.fn = "sr_arpcache_sweepreqs"
  BY <1>g, <1>2, CallMade
<1>4. <<g>> \in Seq(Call) /\ Range(<<g>>) = {g}
  BY <1>3, RangeOf
<1>5. \A i \in DOMAIN <<g>> : Placed(Sweeper, <<g>>[i].fn, i, Len(<<g>>))
  <2>1. DOMAIN <<g>> = {1} /\ <<g>>[1] = g /\ Len(<<g>>) = 1
    OBVIOUS
  <2>. QED BY <1>3, <2>1 DEF Placed
<1>6. lock' # Null
  BY <1>1, ArpConstants DEF Threads
<1>7. /\ stack' \in Stacks /\ ShapeOK'
      /\ Calls(Sweeper)' = {g} /\ Calls(Sweeper) = {} /\ Calls(Main)' = Calls(Main)
      /\ \A u \in Threads : \A f \in Calls(u) : f \in Call /\ HeldCall(f)
      /\ \A u \in Threads : \A f \in Calls(u)' : f \in Call
  BY <1>1, <1>4, <1>5, <1>6, Begins, MainSweeper
<1>8. HeldOK'
  <2>1. HeldCall(g)
    BY <1>2, <1>3 DEF HeldCall
  <2>2. \A f : HeldCall(f)' <=> HeldCall(f)
    BY <1>1 DEF HeldCall
  <2>. QED BY <1>7, <2>1, <2>2 DEF HeldOK, Threads
<1>9. Typed'
  <2>1. entries' \in [Slots -> Entry]
    BY <1>1, ArpConstants DEF SInv, Typed, Entry
  <2>. QED BY <1>1, <1>7, <2>1 DEF SInv, Typed
<1>10. PlacesOK'
  <2>1. \A u \in Threads : \A f : f.fn \in Carries => (f \in Calls(u)' <=> f \in Calls(u))
    BY <1>3, <1>7 DEF Threads, Carries
  <2>2. \A r \in ReqIds : reqs'[r].packets = reqs[r].packets
    BY <1>1
  <2>. QED BY <1>1, <1>7, <2>1, <2>2, NoPacketKeeps
<1>. QED BY <1>7, <1>8, <1>9, <1>10

\* The sweep comes to a request, or ends and releases the lock.
LEMMA SweepReqsKeeps ==
    ASSUME SInv, sr_arpcache_sweepreqs
    PROVE  Typed' /\ ShapeOK' /\ HeldOK' /\ PlacesOK'
<1>h. PICK h : h = Here(Sweeper)
  OBVIOUS
<1>r. PICK r : r = h.req
  OBVIOUS
<1>1. /\ stack[Sweeper] # <<>> /\ h.fn = "sr_arpcache_sweepreqs" /\ Sweeper \in Threads
      /\ UNCHANGED <<entries, reqs, queue, slept, arrived, arps, sent, refused, crashed>>
  BY <1>h, MainSweeper DEF sr_arpcache_sweepreqs, At, Here, memory, input, history
<1>2. /\ Running(Sweeper) /\ h \in Call /\ HeldCall(h) /\ Tail(stack[Sweeper]) = <<>>
      /\ Waits(Sweeper) = {} /\ r \in ReqIds \cup {Null}
      /\ Calls(Sweeper) = {h}
  <2>1. Running(Sweeper)
    BY <1>1, RunningIs
  <2>. QED BY <1>h, <1>r, <1>1, <2>1, CallIs DEF Running, Bottom
<1>3. reqs' \in [ReqIds -> Queueing \cup {Freed}]
  BY <1>1 DEF SInv, Typed
<1>4. CASE r # Null
  <2>f. PICK f : f = [fn |-> "sr_handle_arpreq", req |-> r]
    OBVIOUS
  <2>g. PICK g : g = [fn |-> "sweep_next", req |-> r, next |-> Null]
    OBVIOUS
  <2>1. lock' = lock /\ Goto(Sweeper, <<f, g>>)
    BY <1>h, <1>r, <1>4, <2>f, <2>g DEF sr_arpcache_sweepreqs
  <2>2. /\ f \in Call /\ f.fn = "sr_handle_arpreq" /\ f.req = r
        /\ g \in Call /\ g.fn = "sweep_next" /\ g.req = r /\ g.next = Null
    BY <1>2, <1>4, <2>f, <2>g, CallMade
  <2>3. /\ <<f, g>> \in Seq(Call) /\ Range(<<f, g>>) = {f, g} /\ Fits(Sweeper, <<f, g>>)
    BY <1>2, <2>2, RangeOf, FitsIf DEF Bottom
  <2>4. HeldCall(f) /\ HeldCall(g)
    BY <1>r, <1>1, <1>2, <2>2 DEF HeldCall
  <2>. QED BY <1>h, <1>1, <1>3, <2>1, <2>2, <2>3, <2>4, QuietKeeps DEF Carries
<1>5. CASE r = Null
  <2>1. lock' = Null /\ Goto(Sweeper, <<>>)
    BY <1>h, <1>r, <1>5 DEF sr_arpcache_sweepreqs, Unlock, Return
  <2>2. Gone(Sweeper, <<>>)
    BY <1>1, <2>1, GotoIs, RangeOf DEF SInv, Typed
  <2>3. /\ stack' \in Stacks /\ Calls(Sweeper)' = {} /\ Calls(Main)' = Calls(Main)
        /\ stack'[Main] = stack[Main]
    BY <1>2, <2>2, RangeOf, MainSweeper DEF Gone
  <2>4. stack'[Sweeper] = <<>>
    <3>1. <<>> \o <<>> = <<>>
      OBVIOUS
    <3>2. stack' = [stack EXCEPT ![Sweeper] = <<>>]
      BY <1>2, <2>1, <3>1 DEF Goto
    <3>. QED BY <1>1, <3>2 DEF SInv, Typed, Stacks
  <2>5. Typed'
    BY <1>1, <2>1, <2>3 DEF SInv, Typed
  <2>6. ShapeOK'
    BY <2>3, <2>4 DEF SInv, ShapeOK, Threads
  <2>7. HeldOK'
    <3>1. \A f : HeldCall(f)' <=> HeldCall(f)
      BY <1>1 DEF HeldCall
    <3>. QED BY <2>3, <3>1 DEF SInv, HeldOK, Threads
  <2>8. PlacesOK'
    BY <1>1, <1>h, <2>2, QuietPlaces, RangeOf DEF Carries
  <2>. QED BY <2>5, <2>6, <2>7, <2>8
<1>. QED BY <1>4, <1>5

\* The sweep goes on with what req->next says.
LEMMA SweepNextKeeps ==
    ASSUME SInv, SweepNext
    PROVE  Typed' /\ ShapeOK' /\ HeldOK' /\ PlacesOK'
<1>1. CASE Crash
  BY <1>1, SameKeepsAll DEF Crash
<1>2. CASE ~Crash
  <2>h. PICK h : h = Here(Sweeper)
    OBVIOUS
  <2>1. /\ stack[Sweeper] # <<>> /\ h.fn = "sweep_next" /\ Sweeper \in Threads
    BY <2>h, MainSweeper DEF SweepNext, At, Here
  <2>2. PICK r : /\ Goto(Sweeper, <<[fn |-> "sr_arpcache_sweepreqs", req |-> r]>>)
                 /\ UNCHANGED <<memory, lock, slept, input, history, crashed>>
                 /\ \/ reqs[h.req].live /\ r = NextOf(h.req)
                    \/ ~reqs[h.req].live /\ r = h.next
    BY <1>2, <2>h DEF SweepNext
  <2>3. UNCHANGED <<entries, reqs, queue, lock, slept, arrived, arps, sent, refused, crashed>>
    BY <2>2 DEF memory, input, history
  <2>4. /\ h \in Call /\ HeldCall(h) /\ Tail(stack[Sweeper]) = <<>>
        /\ h.req \in ReqIds /\ h.next \in ReqIds \cup {Null}
    <3>1. Running(Sweeper)
      BY <2>1, RunningIs
    <3>. QED BY <2>h, <2>1, <3>1, CallIs DEF Running, Bottom
  <2>5. /\ r \in ReqIds \cup {Null}
        /\ r = Null \/ ~reqs[r].live \/ r \in Range(queue)
    <3>1. CASE reqs[h.req].live /\ r = NextOf(h.req)
      <4>1. h.req \in Range(queue)
        BY <2>1, <2>4, <3>1, ArpConstants DEF HeldCall
      <4>. QED BY <3>1, <4>1, NextOfIs, InQueue DEF SInv, Typed
    <3>2. CASE ~reqs[h.req].live /\ r = h.next
      BY <2>1, <2>4, <3>2 DEF HeldCall
    <3>. QED BY <2>2, <3>1, <3>2
  <2>g. PICK g : g = [fn |-> "sr_arpcache_sweepreqs", req |-> r]
    OBVIOUS
  <2>6. g \in Call /\ g.fn = "sr_arpcache_sweepreqs" /\ g.req = r /\ Goto(Sweeper, <<g>>)
    BY <2>g, <2>2, <2>5, CallMade
  <2>7. HeldCall(g)
    BY <2>5, <2>6 DEF HeldCall
  <2>8. <<g>> \in Seq(Call) /\ Range(<<g>>) = {g} /\ Fits(Sweeper, <<g>>)
    BY <2>4, <2>6, RangeOf, FitsIf
  <2>9. reqs' \in [ReqIds -> Queueing \cup {Freed}]
    BY <2>3 DEF SInv, Typed
  <2>. QED BY <2>h, <2>1, <2>3, <2>6, <2>7, <2>8, <2>9, QuietKeeps DEF Carries
<1>. QED BY <1>1, <1>2

\* A field that is given the value it has.
LEMMA SameField ==
    ASSUME NEW f, NEW S, f = [x \in S |-> f[x]], NEW a \in S
    PROVE  [f EXCEPT ![a] = f[a]] = f
<1>1. f \in [S -> {f[x] : x \in S}]
  OBVIOUS
<1>. QED BY <1>1

\* Time changes ages, and what a call that asks has read of it.
LEMMA TickKeepsAll ==
    ASSUME SInv, Tick
    PROVE  Typed' /\ ShapeOK' /\ HeldOK' /\ PlacesOK'
<1> DEFINE after(f) == IF f.fn = "ask" THEN [f EXCEPT !.now = Older(@, 2)] ELSE f
<1>1. /\ slept' = TRUE /\ UNCHANGED <<queue, lock, arrived, arps, sent, refused, crashed>>
      /\ entries' = [s \in Slots |->
           IF entries[s].ip = Null THEN entries[s]
           ELSE [entries[s] EXCEPT !.age = Older(@, CacheTimeout + 1)]]
      /\ reqs' = [r \in ReqIds |-> [reqs[r] EXCEPT !.sent_ago = Older(@, 2)]]
      /\ stack' = [t \in Threads |-> [i \in DOMAIN stack[t] |-> after(stack[t][i])]]
  BY DEF Tick, input, history
<1>2. /\ entries \in [Slots -> Entry] /\ reqs \in [ReqIds -> Queueing \cup {Freed}]
      /\ stack \in [Threads -> Seq(Call)] /\ HeldOK /\ ShapeOK
  BY DEF SInv, Typed, Stacks
<1>3. \A n \in 0..2 : Older(n, 2) \in 0..2
  BY DEF Older
<1>4. Older(2, 2) = 2
  BY DEF Older
<1>5. ASSUME NEW f \in Call
      PROVE  /\ after(f) \in Call /\ after(f).fn = f.fn
             /\ f.fn = "ask" => after(f).req = f.req
             /\ f.fn # "ask" => after(f) = f
  <2>1. CASE f.fn = "ask"
    <3>1. f \in Asks /\ f.now \in 0..2
      BY <2>1, CallIs
    <3>2. Older(f.now, 2) \in 0..2
      BY <1>3, <3>1
    <3>3. after(f) = [f EXCEPT !.now = Older(f.now, 2)]
      BY <2>1
    <3>4. /\ [f EXCEPT !.now = Older(f.now, 2)] \in Asks
          /\ [f EXCEPT !.now = Older(f.now, 2)].req = f.req
      BY <3>1, <3>2 DEF Asks
    <3>. HIDE DEF after
    <3>5. after(f) \in Asks /\ after(f).req = f.req
      BY <3>3, <3>4
    <3>6. after(f).fn = "ask" /\ after(f) \in Call
      BY <3>5 DEF Asks, Call
    <3>. QED BY <2>1, <3>5, <3>6
  <2>2. CASE f.fn # "ask"
    BY <2>2
  <2>. QED BY <2>1, <2>2
<1>. HIDE DEF after
<1>6. ASSUME NEW t \in Threads
      PROVE  /\ stack'[t] \in Seq(Call) /\ DOMAIN stack'[t] = DOMAIN stack[t]
             /\ Len(stack'[t]) = Len(stack[t])
             /\ \A i \in DOMAIN stack[t] :
                  stack[t][i] \in Call /\ stack'[t][i] = after(stack[t][i])
  <2>1. stack[t] \in Seq(Call)
    BY <1>2
  <2>2. Len(stack[t]) \in Nat /\ DOMAIN stack[t] = 1..Len(stack[t])
    BY <2>1
  <2>3. \A i \in DOMAIN stack[t] : stack[t][i] \in Call /\ after(stack[t][i]) \in Call
    BY <1>5, <2>1
  <2>4. stack'[t] = [i \in DOMAIN stack[t] |-> after(stack[t][i])]
    BY <1>1
  <2>5. stack'[t] \in [1..Len(stack[t]) -> Call]
    BY <2>2, <2>3, <2>4
  <2>6. stack'[t] \in Seq(Call) /\ Len(stack'[t]) = Len(stack[t])
    <3>1. stack'[t] \in Seq(Call)
      BY <2>2, <2>5, SeqDef
    <3>2. DOMAIN stack'[t] = 1..Len(stack'[t]) /\ Len(stack'[t]) \in Nat
      BY <3>1
    <3>3. 1..Len(stack'[t]) = 1..Len(stack[t])
      BY <2>2, <2>4, <3>2
    <3>. QED BY <2>2, <3>1, <3>2, <3>3
  <2>. QED BY <2>3, <2>4, <2>6
<1>7. stack' \in Stacks
  <2>1. DOMAIN stack' = Threads
    BY <1>1
  <2>. QED BY <1>1, <1>6, <2>1 DEF Stacks
<1>8. ASSUME NEW t \in Threads
      PROVE  /\ \A f \in Calls(t) : f \in Call
             /\ \A f \in Calls(t)' : f \in Call /\ \E e \in Calls(t) : f = after(e)
             /\ \A f \in Calls(t) : f.fn # "ask" => f \in Calls(t)'
  <2>1. \A f \in Calls(t) : f \in Call
    BY <1>6 DEF Calls, Range
  <2>2. \A f \in Calls(t)' : f \in Call /\ \E e \in Calls(t) : f = after(e)
    <3>1. ASSUME NEW f \in Calls(t)' PROVE f \in Call /\ \E e \in Calls(t) : f = after(e)
      <4>1. PICK i \in DOMAIN stack[t] : f = stack'[t][i]
        BY <1>6 DEF Calls, Range
      <4>2. stack[t][i] \in Calls(t) /\ f = after(stack[t][i]) /\ stack[t][i] \in Call
        BY <1>6, <4>1 DEF Calls, Range
      <4>. QED BY <1>5, <4>2
    <3>. QED BY <3>1
  <2>3. ASSUME NEW f \in Calls(t), f.fn # "ask" PROVE f \in Calls(t)'
    <3>1. PICK i \in DOMAIN stack[t] : f = stack[t][i]
      BY DEF Calls, Range
    <3>2. stack'[t][i] = f /\ i \in DOMAIN stack'[t]
      BY <1>5, <1>6, <2>3, <3>1
    <3>. QED BY <3>2 DEF Calls, Range
  <2>. QED BY <2>1, <2>2, <2>3
<1>9. ShapeOK'
  <2>1. ASSUME NEW t \in Threads, NEW i \in DOMAIN stack'[t]
        PROVE  Placed(t, stack'[t][i].fn, i, Len(stack'[t]))
    <3>1. stack'[t][i].fn = stack[t][i].fn /\ i \in DOMAIN stack[t]
          /\ Len(stack'[t]) = Len(stack[t])
      BY <1>5, <1>6, <2>1
    <3>. QED BY <1>2, <3>1 DEF ShapeOK
  <2>2. ASSUME lock' = Null PROVE stack'[Sweeper] = <<>>
    <3>1. stack[Sweeper] = <<>>
      BY <1>1, <1>2, <2>2 DEF ShapeOK
    <3>2. Len(stack'[Sweeper]) = Len(stack[Sweeper]) /\ stack'[Sweeper] \in Seq(Call)
      BY <1>6, MainSweeper
    <3>3. Len(<<>>) = 0
      OBVIOUS
    <3>4. Len(stack'[Sweeper]) = 0
      BY <3>1, <3>2, <3>3, Zenon
    <3>. QED BY <3>2, <3>4, EmptySeq
  <2>. QED BY <2>1, <2>2 DEF ShapeOK
<1>10. /\ reqs' \in [ReqIds -> Queueing \cup {Freed}]
       /\ \A r \in ReqIds : reqs'[r].packets = reqs[r].packets /\ reqs'[r].live = reqs[r].live
  <2>1. ASSUME NEW r \in ReqIds
        PROVE  /\ [reqs[r] EXCEPT !.sent_ago = Older(@, 2)] \in Queueing \cup {Freed}
               /\ [reqs[r] EXCEPT !.sent_ago = Older(@, 2)].packets = reqs[r].packets
               /\ [reqs[r] EXCEPT !.sent_ago = Older(@, 2)].live = reqs[r].live
    <3>1. CASE reqs[r] \in Queueing
      <4>1. Older(reqs[r].sent_ago, 2) \in 0..2
        BY <1>3, <3>1 DEF Queueing
      <4>. QED BY <3>1, <4>1 DEF Queueing
    <3>2. CASE reqs[r] = Freed
      <4>1. [Freed EXCEPT !.sent_ago = 2] = Freed
        <5> DEFINE fields == {"live", "ip", "sent_ago", "times_sent", "packets"}
        <5>1. Freed["sent_ago"] = 2
          BY DEF Freed
        <5>2. Freed = [x \in fields |-> Freed[x]] /\ "sent_ago" \in fields
          BY DEF Freed
        <5>. HIDE DEF fields
        <5>. QED BY <5>1, <5>2, SameField
      <4>2. Older(Freed.sent_ago, 2) = 2
        BY <1>4 DEF Freed
      <4>. QED BY <3>2, <4>1, <4>2
    <3>. QED BY <1>2, <3>1, <3>2
  <2>. QED BY <1>1, <2>1
<1>11. Typed'
  <2>1. entries' \in [Slots -> Entry]
    <3>1. ASSUME NEW s \in Slots, entries[s].ip # Null
          PROVE  [entries[s] EXCEPT !.age = Older(@, CacheTimeout + 1)] \in Entry
      <4>1. entries[s] \in Entry /\ entries[s].age \in 0..(CacheTimeout + 1)
        BY <1>2 DEF Entry
      <4>2. Older(entries[s].age, CacheTimeout + 1) \in 0..(CacheTimeout + 1)
        BY <4>1, ArpConstants DEF Older
      <4>. QED BY <4>1, <4>2 DEF Entry
    <3>. QED BY <1>1, <1>2, <3>1
  <2>. QED BY <1>1, <1>7, <1>10, <2>1 DEF SInv, Typed
<1>12. HeldOK'
  <2>1. ASSUME NEW t \in Threads, NEW f \in Calls(t)' PROVE HeldCall(f)'
    <3>1. PICK e \in Calls(t) : f = after(e)
      BY <1>8, <2>1
    <3>2. e \in Call /\ HeldCall(e)
      BY <1>2, <1>8 DEF HeldOK
    <3>3. HeldCall(f)
      BY <1>5, <3>1, <3>2 DEF HeldCall
    <3>4. /\ f.fn \in {"sr_handle_arpreq", "sweep_next", "sr_arpcache_sweepreqs",
                       "ask", "count", "sr_send_icmp_to_waiting"} => f.req \in ReqIds \cup {Null}
          /\ f.fn = "sweep_next" => f.next \in ReqIds \cup {Null}
          /\ f.fn = "sr_recv_arp" => f.req \in ReqIds
      BY <1>8, <2>1, CallIs
    <3>5. queue' = queue
      BY <1>1
    <3>. QED BY <1>10, <3>3, <3>4, <3>5 DEF HeldCall
  <2>. QED BY <2>1 DEF HeldOK
<1>13. PlacesOK'
  <2>1. \A u \in Threads : \A f : f.fn \in Carries => (f \in Calls(u)' <=> f \in Calls(u))
    <3>1. ASSUME NEW u \in Threads, NEW f, f.fn \in Carries, f \in Calls(u)'
          PROVE  f \in Calls(u)
      <4>1. PICK e \in Calls(u) : f = after(e) /\ e \in Call
        BY <1>8, <3>1
      <4>. QED BY <1>5, <3>1, <4>1 DEF Carries
    <3>2. ASSUME NEW u \in Threads, NEW f, f.fn \in Carries, f \in Calls(u)
          PROVE  f \in Calls(u)'
      BY <1>8, <3>2 DEF Carries
    <3>. QED BY <3>1, <3>2
  <2>. QED BY <1>1, <1>8, <1>10, <2>1, NoPacketKeeps
<1>. QED BY <1>9, <1>11, <1>12, <1>13

\* A received packet: what comes of it is new, so it was in no place.
LEMMA IpPacketKeeps ==
    ASSUME SInv, sr_handlepacket_ip
    PROVE  Typed' /\ ShapeOK' /\ HeldOK' /\ PlacesOK'
<1>0. stack[Main] = <<>> /\ Main \in Threads /\ Main # Sweeper
  BY MainSweeper DEF sr_handlepacket_ip, Idle
<1>1. PICK in \in InPackets :
        /\ \A a \in arrived : a[1].id # in[1].id
        /\ arrived' = arrived \cup {in}
        /\ stack' = [stack EXCEPT ![Main] =
                       Attempts(sr_handle_ip_packet(in[1], in[2]))]
  BY DEF sr_handlepacket_ip
<1>2. UNCHANGED <<entries, reqs, queue, lock, slept, arps, sent, refused, crashed>>
  BY DEF sr_handlepacket_ip, memory, history
<1>p. PICK ps : ps = sr_handle_ip_packet(in[1], in[2])
  OBVIOUS
<1>3. Single(ps, in[1].id)
  BY <1>p, HandledIs
<1>4. \A p \in ps : p \in Packet /\ p.id = in[1].id /\ Original(p)
  BY <1>3 DEF Single
<1>5. \/ Routed(ps) = {} /\ Attempts(ps) = <<>>
      \/ \E p \in ps : /\ Routed(ps) = {p} /\ HasRoute(p.dst)
                       /\ Attempts(ps) = <<Attempt(p)>>
  <2>1. ps = {} \/ \E p : ps = {p}
    BY <1>3 DEF Single
  <2>. QED BY <2>1, AttemptsIs
<1>n. PICK new \in Seq(Call) :
        /\ new = Attempts(ps)
        /\ \A f \in Range(new) : \E p \in Routed(ps) : f = Attempt(p)
        /\ \A p \in Routed(ps) : Attempt(p) \in Range(new)
        /\ \A i \in DOMAIN new : Placed(Main, new[i].fn, i, Len(new))
  <2>1. CASE Routed(ps) = {} /\ Attempts(ps) = <<>>
    <3>1. /\ <<>> \in Seq(Call) /\ Range(<<>>) = {}
          /\ \A i \in DOMAIN <<>> : Placed(Main, <<>>[i].fn, i, Len(<<>>))
      BY RangeOf
    <3>. QED BY <2>1, <3>1
  <2>2. ASSUME NEW p \in ps, Routed(ps) = {p}, HasRoute(p.dst),
               Attempts(ps) = <<Attempt(p)>>
        PROVE  \E new \in Seq(Call) :
                 /\ new = Attempts(ps)
                 /\ \A f \in Range(new) : \E x \in Routed(ps) : f = Attempt(x)
                 /\ \A x \in Routed(ps) : Attempt(x) \in Range(new)
                 /\ \A i \in DOMAIN new : Placed(Main, new[i].fn, i, Len(new))
    <3>g. PICK g : g = Attempt(p)
      OBVIOUS
    <3>1. g \in Call /\ g.fn = "sr_attempt_send"
      BY <1>4, <2>2, <3>g, CallMade DEF Routable, Attempt
    <3>2. /\ <<g>> \in Seq(Call) /\ Range(<<g>>) = {g}
          /\ DOMAIN <<g>> = {1} /\ <<g>>[1] = g /\ Len(<<g>>) = 1
      BY <3>1, RangeOf
    <3>3. \A i \in DOMAIN <<g>> : Placed(Main, <<g>>[i].fn, i, Len(<<g>>))
      BY <3>1, <3>2 DEF Placed, Bottom
    <3>. QED BY <2>2, <3>g, <3>2, <3>3
  <2>. QED BY <1>5, <2>1, <2>2
<1>6. stack' = [stack EXCEPT ![Main] = new]
  BY <1>1, <1>p, <1>n
<1>7. /\ stack' \in Stacks /\ Calls(Main) = {} /\ Calls(Main)' = Range(new)
      /\ Calls(Sweeper)' = Calls(Sweeper)
      /\ \A u \in Threads : \A f \in Calls(u) : f \in Call /\ HeldCall(f)
      /\ \A u \in Threads : \A f \in Calls(u)' : f \in Call
      /\ ShapeOK'
  BY <1>0, <1>2, <1>6, <1>n, Begins, MainSweeper
<1>8. Typed'
  BY <1>1, <1>2, <1>7 DEF SInv, Typed
<1>9. \A p : Attempt(p).fn = "sr_attempt_send" /\ Attempt(p).pkt = p
  BY DEF Attempt
<1>10. HeldOK'
  <2>1. \A f : HeldCall(f)' <=> HeldCall(f)
    BY <1>2 DEF HeldCall
  <2>2. \A f \in Range(new) : HeldCall(f)
    BY <1>9, <1>n DEF HeldCall
  <2>. QED BY <1>7, <2>1, <2>2 DEF HeldOK, Threads
<1>11. SameGivingUp
  BY <1>7, <1>9, <1>n DEF SameGivingUp, Threads
<1>12. Owed' = Owed \cup Routed(ps)
  BY <1>1, <1>p DEF Owed
<1>13. \A p \in Owed : p.id # in[1].id
  <2>1. ASSUME NEW a \in arrived, NEW p \in Routed(sr_handle_ip_packet(a[1], a[2]))
        PROVE  p.id # in[1].id
    <3>1. Single(sr_handle_ip_packet(a[1], a[2]), a[1].id)
      BY HandledIs DEF SInv, Typed
    <3>2. p.id = a[1].id
      BY <3>1 DEF Single, Routed
    <3>. QED BY <1>1, <3>2
  <2>. QED BY <2>1 DEF Owed
<1>14. \A p : /\ ~Sending(Main, p) /\ (Sending(Main, p)' <=> p \in Routed(ps))
              /\ Sending(Sweeper, p)' <=> Sending(Sweeper, p)
              /\ ~Answered(p) /\ ~Answered(p)'
              /\ \A x \in ReqIds : ~GivingUp(Main, x)'
              /\ \A x \in ReqIds : Queued(x, p)' <=> Queued(x, p)
  BY <1>2, <1>7, <1>9, <1>n DEF Sending, Answered, GivingUp, Queued
<1>15. ASSUME NEW p \in Routable, Original(p)
       PROVE  OnePlace(p)' /\ FirstHand(p)'
  <2>1. OnePlace(p) /\ FirstHand(p)
    BY <1>15 DEF SInv, PlacesOK
  <2>2. CASE p \notin Routed(ps)
    <3>1. Stays(p)
      BY <1>2, <1>12, <1>14, <2>2 DEF Stays, Threads
    <3>. QED BY <1>11, <2>1, <3>1, StaysKeeps
  <2>3. CASE p \in Routed(ps)
    <3>1. p \notin Owed
      BY <1>4, <1>13, <2>3 DEF Routed
    <3>2. p \notin sent /\ p \notin refused /\ \A x \in ReqIds : ~Queued(x, p)
      BY <2>1, <3>1 DEF OnePlace, InPlace
    <3>3. Apart(p)' /\ InPlace(p)' /\ p \in Owed'
      BY <1>2, <1>12, <1>14, <2>3, <3>2 DEF Apart, InPlace
    <3>4. ASSUME NEW u \in Threads, NEW f \in Calls(u)' PROVE GivenUp(f, p)'
      <4>1. CASE f.fn # "sr_send_icmp_to_waiting"
        BY <4>1 DEF GivenUp
      <4>2. CASE f.fn = "sr_send_icmp_to_waiting"
        <5>1. f \in Calls(u)
          BY <1>11, <3>4, <4>2 DEF SameGivingUp
        <5>2. GivenUp(f, p)
          BY <2>1, <5>1 DEF OnePlace
        <5>. QED BY <1>2, <5>2 DEF GivenUp, Queued
      <4>. QED BY <4>1, <4>2
    <3>5. \A x \in ReqIds : ~Queued(x, p)'
      BY <1>14, <3>2
    <3>6. FirstHand(p)'
      BY <1>14, <2>1 DEF FirstHand
    <3>. QED BY <3>3, <3>4, <3>5, <3>6 DEF OnePlace
  <2>. QED BY <2>2, <2>3
<1>16. OnceEach'
  <2>1. \A f \in Calls(Main)' : f.fn # "sr_recv_arp"
    BY <1>7, <1>9, <1>n
  <2>. QED BY <1>2, <2>1 DEF SInv, PlacesOK, OnceEach
<1>. QED BY <1>7, <1>8, <1>10, <1>15, <1>16 DEF PlacesOK

\* An answer: what waited in the request is now among the packets to be sent.
LEMMA ArpPacketKeepsAll ==
    ASSUME SInv, sr_handlepacket_arp
    PROVE  Typed' /\ ShapeOK' /\ HeldOK' /\ PlacesOK'
<1>0. stack[Main] = <<>> /\ Main \in Threads /\ Main # Sweeper
  BY MainSweeper DEF sr_handlepacket_arp, Idle
<1>1. PICK ip \in Answering :
        /\ entries' = Insert(ip)
        /\ \/ Asking(ip) = {} /\ UNCHANGED <<queue, stack>>
           \/ \E r \in Asking(ip) :
                /\ Detach(r)
                /\ stack' = [stack EXCEPT ![Main] =
                     <<[fn |-> "sr_recv_arp", req |-> r, rest |-> reqs[r].packets]>>]
  BY DEF sr_handlepacket_arp
<1>2. /\ UNCHANGED <<reqs, lock, slept, arrived, sent, refused, crashed>>
      /\ arps' \in 0..MaxArps /\ CanLock(Main)
  <2>1. arps \in 0..MaxArps /\ MaxArps \in Nat
    BY ArpConstants DEF SInv, Typed
  <2>. QED BY <2>1 DEF sr_handlepacket_arp, history
<1>3. entries' \in [Slots -> Entry]
  <2>1. [ip |-> ip, age |-> 0] \in Entry
    BY ArpConstants DEF Entry
  <2>. QED BY <1>1, <2>1 DEF Insert, SInv, Typed
<1>4. CASE UNCHANGED <<queue, stack>>
  <2>1. slept' \in BOOLEAN /\ crashed' \in BOOLEAN
    BY <1>2 DEF SInv, Typed
  <2>. QED BY <1>2, <1>3, <1>4, <2>1, StillKeeps
<1>5. ASSUME NEW r \in Asking(ip), Detach(r),
             stack' = [stack EXCEPT ![Main] =
                     <<[fn |-> "sr_recv_arp", req |-> r, rest |-> reqs[r].packets]>>]
      PROVE  Typed' /\ ShapeOK' /\ HeldOK' /\ PlacesOK'
  <2>g. PICK g : g = [fn |-> "sr_recv_arp", req |-> r, rest |-> reqs[r].packets]
    OBVIOUS
  <2>1. /\ r \in Range(queue) /\ r \in ReqIds /\ reqs[r].live
        /\ reqs[r].packets \in Seq(Routable) /\ Once(reqs[r].packets)
    <3>1. r \in Range(queue) /\ r \in ReqIds
      BY InQueue DEF Asking, SInv, Typed
    <3>2. reqs[r].live /\ Once(reqs[r].packets)
      BY <3>1 DEF SInv, QInv, QueueSound, PlacesOK, OnceEach
    <3>3. reqs[r] \in Queueing
      BY <3>1, <3>2 DEF SInv, Typed, Freed
    <3>. QED BY <3>1, <3>2, <3>3 DEF Queueing
  <2>2. /\ queue' \in Seq(ReqIds) /\ r \notin Range(queue')
        /\ \A x : x # r => (x \in Range(queue') <=> x \in Range(queue))
    BY <1>5, UnlinkEffect, UnlinkLeaves DEF Detach, SInv
  <2>3. lock = Null /\ stack[Sweeper] = <<>>
    BY <1>0, <1>2 DEF CanLock, SInv, Typed, ShapeOK
  <2>4. g \in Call /\ g.fn = "sr_recv_arp" /\ g.req = r /\ g.rest = reqs[r].packets
    BY <2>g, <2>1, CallMade
  <2>5. /\ <<g>> \in Seq(Call) /\ Range(<<g>>) = {g}
        /\ DOMAIN <<g>> = {1} /\ <<g>>[1] = g /\ Len(<<g>>) = 1
    BY <2>4, RangeOf
  <2>6. \A i \in DOMAIN <<g>> : Placed(Main, <<g>>[i].fn, i, Len(<<g>>))
    BY <2>4, <2>5 DEF Placed, Below
  <2>7. /\ stack' \in Stacks /\ Calls(Main) = {} /\ Calls(Main)' = {g}
        /\ Calls(Sweeper)' = Calls(Sweeper) /\ Calls(Sweeper) = {}
        /\ ShapeOK'
    <3>1. Calls(Sweeper) = {}
      BY <2>3 DEF Calls, Range
    <3>2. stack' = [stack EXCEPT ![Main] = <<g>>]
      BY <1>5, <2>g
    <3>. QED BY <1>0, <1>2, <2>3, <2>5, <2>6, <3>1, <3>2, Begins, MainSweeper
  <2>8. Typed'
    BY <1>2, <1>3, <2>2, <2>7 DEF SInv, Typed
  <2>9. HeldOK'
    <3>1. HeldCall(g)'
      BY <1>2, <2>1, <2>2, <2>4 DEF HeldCall
    <3>. QED BY <2>7, <3>1 DEF HeldOK, Threads
  <2>10. ASSUME NEW p \in Routable, Original(p)
         PROVE  OnePlace(p)' /\ FirstHand(p)'
    <3>1. OnePlace(p) /\ FirstHand(p)
      BY <2>10 DEF SInv, PlacesOK
    <3>2. /\ \A u \in Threads : ~Sending(u, p) /\ ~Sending(u, p)'
          /\ \A u \in Threads, x \in ReqIds : ~GivingUp(u, x) /\ ~GivingUp(u, x)'
          /\ ~Answered(p)
      BY <2>4, <2>7 DEF Sending, Threads, GivingUp, Answered
    <3>3. Answered(p)' <=> Queued(r, p)
      BY <2>1, <2>4, <2>7 DEF Answered, Queued
    <3>4. \A x \in ReqIds : Queued(x, p)' <=> Queued(x, p) /\ x # r
      BY <1>2, <2>2 DEF Queued
    <3>5. Owed' = Owed /\ sent' = sent /\ refused' = refused
      BY <1>2 DEF Owed
    <3>6. \A x \in ReqIds : Queued(x, p) => p \notin refused
      BY <3>1, <3>2 DEF OnePlace
    <3>7. Apart(p)'
      BY <2>1, <3>1, <3>2, <3>3, <3>4, <3>5, <3>6, MainSweeper DEF OnePlace, Apart
    <3>8. InPlace(p)' <=> p \in Owed'
      BY <2>1, <3>1, <3>2, <3>3, <3>4, <3>5, MainSweeper DEF OnePlace, InPlace
    <3>9. \A x \in ReqIds : ~(Queued(x, p)' /\ p \in refused')
      BY <3>4, <3>5, <3>6
    <3>10. \A u \in Threads : \A f \in Calls(u)' : GivenUp(f, p)'
      BY <2>4, <2>7 DEF GivenUp, Threads
    <3>11. FirstHand(p)'
      BY <3>2, MainSweeper DEF FirstHand
    <3>. QED BY <3>7, <3>8, <3>9, <3>10, <3>11 DEF OnePlace
  <2>11. OnceEach'
    <3>1. \A x \in Range(queue') : Once(reqs'[x].packets)
      BY <1>2, <2>2 DEF SInv, PlacesOK, OnceEach
    <3>. QED BY <2>1, <2>4, <2>7, <3>1 DEF OnceEach
  <2>. QED BY <2>7, <2>8, <2>9, <2>10, <2>11 DEF PlacesOK
<1>. QED BY <1>1, <1>4, <1>5

-----------------------------------------------------------------------------
\* The invariant of the specification, and what follows from it

\* Nothing has been received: no packet is anywhere, and none is owed.
LEMMA InitPlaces == Init => SInv
<1>1. SUFFICES ASSUME Init PROVE SInv
  OBVIOUS
<1>2. /\ entries = [s \in Slots |-> [ip |-> Null, age |-> 0]]
      /\ reqs = [r \in ReqIds |-> Freed] /\ queue = <<>> /\ lock = Null
      /\ stack = [t \in Threads |-> <<>>] /\ slept = FALSE /\ crashed = FALSE
      /\ arrived = {} /\ arps = 0 /\ sent = {} /\ refused = {}
  BY <1>1 DEF Init, sr_arpcache_init
<1>3. Typed
  <2>1. [ip |-> Null, age |-> 0] \in Entry /\ arps \in 0..MaxArps
    BY <1>2, ArpConstants DEF Entry
  <2>2. entries \in [Slots -> Entry]
    BY <1>2, <2>1
  <2>3. reqs \in [ReqIds -> Queueing \cup {Freed}]
    BY <1>2
  <2>4. <<>> \in Seq(Call) /\ <<>> \in Seq(ReqIds)
    OBVIOUS
  <2>5. stack \in Stacks
    BY <1>2, <2>4 DEF Stacks
  <2>. QED BY <1>2, <2>1, <2>2, <2>3, <2>4, <2>5 DEF Typed
<1>4. \A t \in Threads : stack[t] = <<>> /\ Calls(t) = {}
  BY <1>2 DEF Calls, Range
<1>5. ShapeOK /\ HeldOK
  BY <1>4, MainSweeper DEF ShapeOK, HeldOK
<1>6. Owed = {} /\ Range(queue) = {}
  BY <1>2 DEF Owed, Range
<1>7. ASSUME NEW p PROVE OnePlace(p) /\ FirstHand(p)
  <2>1. /\ \A t \in Threads : ~Sending(t, p) /\ \A r : ~GivingUp(t, r)
        /\ ~Answered(p) /\ \A r : ~Queued(r, p)
    BY <1>4, <1>6, MainSweeper DEF Sending, GivingUp, Answered, Queued
  <2>. QED BY <1>2, <1>4, <1>6, <2>1, MainSweeper
           DEF OnePlace, FirstHand, Apart, InPlace
<1>8. OnceEach
  BY <1>4, <1>6, MainSweeper DEF OnceEach
<1>. QED BY <1>1, <1>3, <1>5, <1>7, <1>8, InitQueue DEF SInv, PlacesOK

\* Each step of a thread.
LEMMA StepKeepsAll ==
    ASSUME SInv, NEW t \in Threads, Step(t)
    PROVE  Typed' /\ ShapeOK' /\ HeldOK' /\ PlacesOK'
<1>1. CASE sr_arpcache_lookup(t)
  BY <1>1, LookupKeeps
<1>2. CASE sr_arpcache_queuereq(t)
  BY <1>2, QueueReqPlaces
<1>3. CASE sr_handle_arpreq(t)
  BY <1>3, HandleKeeps
<1>4. CASE sr_send_arp_req(t)
  BY <1>4, SendArpReqKeeps
<1>5. CASE CountArp(t)
  BY <1>5, CountArpKeeps
<1>6. CASE sr_send_icmp_to_waiting(t)
  BY <1>6, SendIcmpKeeps
<1>7. CASE StackOverflow(t)
  BY <1>7, SameKeepsAll DEF StackOverflow, Crash
<1>8. CASE sr_arpreq_destroy(t)
  <2>1. Uses(t, "sr_send_icmp_to_waiting") \/ Uses(t, "sr_recv_arp")
    BY <1>8 DEF sr_arpreq_destroy
  <2>. QED BY <1>8, <2>1, GivenUpDestroyKeeps, AnsweredDestroyKeeps
<1>9. CASE UseFreed(t)
  BY <1>9, UseFreedKeeps
<1>10. CASE sr_recv_arp(t)
  BY <1>10, RecvArpKeeps
<1>. QED BY <1>1, <1>2, <1>3, <1>4, <1>5, <1>6, <1>7, <1>8, <1>9, <1>10 DEF Step

\* Every step keeps the invariant.
LEMMA NextPlaces == SInv /\ [Next]_vars => SInv'
<1>1. SUFFICES ASSUME SInv, [Next]_vars PROVE SInv'
  OBVIOUS
<1>2. QInv'
  BY <1>1, NextKeeps DEF SInv
<1>3. Typed' /\ ShapeOK' /\ HeldOK' /\ PlacesOK'
  <2>1. ASSUME NEW t \in Threads, Step(t)
        PROVE  Typed' /\ ShapeOK' /\ HeldOK' /\ PlacesOK'
    BY <1>1, <2>1, StepKeepsAll
  <2>2. CASE Sweep
    BY <1>1, <2>2, TimeoutKeeps, SweepReqsKeeps, SweepNextKeeps DEF Sweep
  <2>3. CASE sr_handlepacket_ip
    BY <1>1, <2>3, IpPacketKeeps
  <2>4. CASE sr_handlepacket_arp
    BY <1>1, <2>4, ArpPacketKeepsAll
  <2>5. CASE Tick
    BY <1>1, <2>5, TickKeepsAll
  <2>6. CASE UNCHANGED vars
    <3>1. crashed \in BOOLEAN /\ crashed' = crashed
      BY <1>1, <2>6 DEF SInv, Typed, vars
    <3>. QED BY <1>1, <2>6, <3>1, SameKeepsAll DEF vars
  <2>. QED BY <1>1, <2>1, <2>2, <2>3, <2>4, <2>5, <2>6 DEF Next
<1>. QED BY <1>2, <1>3 DEF SInv

\* The invariant holds.
LEMMA PlacesInvariant == Spec => []SInv
BY InitPlaces, NextPlaces, PTL DEF Spec

\* The variables have their types: the frames of the stacks hold requests and
\* packets of their kinds, whichever calls are in progress.
THEOREM TypeCorrect == Spec => []TypeOK
<1>1. ASSUME SInv PROVE TypeOK
  <2>1. Routable \subseteq Packet
    BY DEF Routable
  <2>2. Seq(Routable) \subseteq Seq(Packet)
    BY <2>1, SeqMonotonic
  <2>3. Queueing \subseteq Request
    BY <2>2 DEF Queueing, Request
  <2>4. Call \subseteq Frame
    <3>1. ASSUME NEW f \in Call PROVE f \in Frame
      <4>1. CASE f \in Sends
        BY <2>1, <4>1 DEF Sends, Frame
      <4>2. CASE f \in Handles \cup SweepNexts \cup Sweeps \cup Asks \cup Counts
        BY <4>2 DEF Handles, SweepNexts, Sweeps, Asks, Counts, Frame
      <4>3. CASE f \in GiveUps \cup Answers
        BY <2>2, <4>3 DEF GiveUps, Answers, Frame
      <4>. QED BY <4>1, <4>2, <4>3 DEF Call
    <3>. QED BY <3>1
  <2>5. Seq(Call) \subseteq Seq(Frame)
    BY <2>4, SeqMonotonic
  <2>. QED BY <1>1, <2>1, <2>3, <2>5 DEF SInv, Typed, Stacks, TypeOK, Threads
<1>. QED BY <1>1, PlacesInvariant, PTL

\* What is owed is about a received packet and has a route.
LEMMA OwedIs ==
    ASSUME SInv, NEW p \in Owed
    PROVE  p \in Routable /\ Original(p) /\ OnePlace(p)
<1>1. PICK a \in arrived : p \in Routed(sr_handle_ip_packet(a[1], a[2]))
  BY DEF Owed
<1>2. Single(sr_handle_ip_packet(a[1], a[2]), a[1].id)
  BY HandledIs DEF SInv, Typed
<1>3. p \in Routable /\ Original(p)
  BY <1>1, <1>2 DEF Single, Routed, Routable
<1>. QED BY <1>3 DEF SInv, PlacesOK

\* Every packet the router has to send is sent, or was refused, or is held by a
\* request that lives or by a call in progress, however the two threads use
\* requests that the other frees, and whatever that does short of a crash.
THEOREM PacketsAreKept == Spec => []NothingLost
<1>1. ASSUME SInv, NEW p \in Owed
      PROVE  p \in sent \cup refused \/ Waiting(p) \/ InHands(p)
  <2>1. InPlace(p)
    BY <1>1, OwedIs DEF OnePlace
  <2>2. CASE Sending(Main, p) \/ Answered(p)
    BY <2>2, MainSweeper DEF Sending, Answered, Calls, InHands
  <2>3. ASSUME NEW r \in ReqIds, Queued(r, p) PROVE Waiting(p)
    BY <1>1, <2>3 DEF SInv, QInv, QueueSound, Queued, Waiting
  <2>. QED BY <2>1, <2>2, <2>3 DEF InPlace
<1>2. SInv => NothingLost
  BY <1>1 DEF NothingLost
<1>. QED BY <1>2, PlacesInvariant, PTL

\* The router never sends a packet on and also tells its source that it could
\* not be delivered.
THEOREM SentOrRefused == Spec => []NotSentAndRefused
<1>1. ASSUME SInv, NEW p \in Owed PROVE p \notin sent \cap refused
  BY <1>1, OwedIs DEF OnePlace, Apart
<1>2. SInv => NotSentAndRefused
  BY <1>1 DEF NotSentAndRefused
<1>. QED BY <1>2, PlacesInvariant, PTL

-----------------------------------------------------------------------------
\* How often a request is asked for (SrArpAsks). Unless both threads once asked for
\* it at a time, it is counted before it is asked for again: the count, with the one
\* a thread is about to write, is no less than the broadcasts. Memory that calloc
\* returned again, to which a thread may point, was never asked for.

Counting(t, r) == \E f \in Calls(t) : f.fn \in {"ask", "count"} /\ f.req = r

Asked(r) ==
    /\ asks[r] \in 0..ArpTries
    /\ \/ asks[r] <= reqs[r].times_sent
       \/ \E t \in Threads : \E f \in Calls(t) : f.fn = "count" /\ f.req = r
    /\ \A t \in Threads : \A f \in Calls(t) :
         /\ f.fn = "ask" /\ f.req = r => asks[r] < ArpTries
         /\ f.fn = "count" /\ f.req = r => asks[r] <= f.times_sent + 1

AskInv ==
    \A r \in ReqIds : reqs[r].live /\ r \notin raced => Asked(r) /\ ~AskedTwice(r)

\* What a step does to the history of a request that is there after it.
LEMMA TrackIs ==
    ASSUME NEW asked, Track(asked), NEW r \in ReqIds, reqs'[r].live, r \notin raced'
    PROVE  /\ r \notin raced /\ ~AskedTwice(r)'
           /\ ~reqs[r].live => asks'[r] = 0
           /\ reqs[r].live => asks'[r] = asks[r] + (IF r \in asked THEN 1 ELSE 0)
BY DEF Track

\* A request whose count and whose counting calls stay.
LEMMA AskStays ==
    ASSUME NEW r, Asked(r), asks'[r] = asks[r], reqs'[r].times_sent = reqs[r].times_sent,
           \A u \in Threads : \A f \in Calls(u)' :
              /\ f.fn = "count" /\ f.req = r => f \in Calls(u)
              /\ f.fn = "ask" /\ f.req = r =>
                   \E e \in Calls(u) : e.fn = "ask" /\ e.req = r,
           \A u \in Threads : \A f \in Calls(u) :
              f.fn = "count" /\ f.req = r => f \in Calls(u)'
    PROVE  Asked(r)'
BY DEF Asked

\* It is enough to look at the requests that stay, and that no two threads ask for.
LEMMA AskKeeps ==
    ASSUME SInv', AskInv, NEW asked, Track(asked),
           \A r \in ReqIds :
              /\ reqs[r].live /\ reqs'[r].live /\ r \notin raced /\ r \notin raced'
              /\ Asked(r) /\ ~AskedTwice(r)
              => Asked(r)'
    PROVE  AskInv'
<1>1. ASSUME NEW r \in ReqIds, reqs'[r].live, r \notin raced'
      PROVE  Asked(r)' /\ ~AskedTwice(r)'
  <2>1. r \notin raced /\ ~AskedTwice(r)' /\ (~reqs[r].live => asks'[r] = 0)
    BY <1>1, TrackIs
  <2>2. CASE reqs[r].live
    BY <1>1, <2>1, <2>2 DEF AskInv
  <2>3. CASE ~reqs[r].live
    <3>1. reqs'[r].times_sent \in Nat /\ asks'[r] = 0
      <4>1. reqs' \in [ReqIds -> Queueing \cup {Freed}]
        BY DEF SInv, Typed
      <4>2. reqs'[r] \in Queueing
        BY <1>1, <4>1 DEF Freed
      <4>. QED BY <2>1, <2>3, <4>2 DEF Queueing
    <3>2. ASSUME NEW u \in Threads, NEW f \in Calls(u)', f.fn = "count"
          PROVE  f.times_sent \in Nat
      <4>1. stack'[u] \in Seq(Call)
        BY DEF SInv, Typed, Stacks
      <4>2. f \in Call
        BY <4>1 DEF Calls, Range
      <4>. QED BY <3>2, <4>2, CallIs
    <3>3. ArpTries \in Nat /\ ArpTries > 0
      BY ArpConstants
    <3>. QED BY <2>1, <3>1, <3>2, <3>3 DEF Asked
  <2>. QED BY <2>2, <2>3
<1>. QED BY <1>1 DEF AskInv

\* The calls after a Goto, whatever is called.
LEMMA GotoCalls ==
    ASSUME stack \in Stacks, NEW t \in Threads, stack[t] # <<>>,
           NEW S, NEW new \in Seq(S), Goto(t, new)
    PROVE  /\ Calls(t)' = Range(new) \cup Waits(t)
           /\ \A u \in Threads : u # t => Calls(u)' = Calls(u)
<1> DEFINE old == Tail(stack[t])
           all == S \cup Call
<1>1. old \in Seq(Call)
  BY CallsAre
<1>2. stack' = [stack EXCEPT ![t] = new \o old]
  BY DEF Goto
<1>3. new \in Seq(all) /\ old \in Seq(all)
  BY <1>1, SeqMonotonic
<1>. HIDE DEF all, old
<1>4. Range(new \o old) = Range(new) \cup Range(old)
  <2>1. /\ \A i \in DOMAIN new : i \in DOMAIN (new \o old) /\ (new \o old)[i] = new[i]
        /\ \A j \in DOMAIN old :
             Len(new) + j \in DOMAIN (new \o old) /\ (new \o old)[Len(new) + j] = old[j]
        /\ \A i \in DOMAIN (new \o old) :
             \/ i \in DOMAIN new
             \/ i - Len(new) \in DOMAIN old /\ i = Len(new) + (i - Len(new))
    BY <1>3, ConcatIs
  <2> DEFINE s == new \o old
  <2>. HIDE DEF s
  <2>2. \A f \in Range(new) : f \in Range(s)
    BY <2>1 DEF Range, s
  <2>3. \A f \in Range(old) : f \in Range(s)
    BY <2>1 DEF Range, s
  <2>4. ASSUME NEW i \in DOMAIN s PROVE s[i] \in Range(new) \/ s[i] \in Range(old)
    <3>1. CASE i \in DOMAIN new
      <4>1. s[i] = new[i]
        BY <2>1, <3>1 DEF s
      <4>. QED BY <3>1, <4>1 DEF Range
    <3>2. CASE i - Len(new) \in DOMAIN old /\ i = Len(new) + (i - Len(new))
      <4>1. s[i] = old[i - Len(new)]
        BY <2>1, <3>2 DEF s
      <4>. QED BY <3>2, <4>1 DEF Range
    <3>. QED BY <2>1, <2>4, <3>1, <3>2 DEF s
  <2>5. \A f \in Range(s) : f \in Range(new) \/ f \in Range(old)
    BY <2>4 DEF Range
  <2>. QED BY <2>2, <2>3, <2>5 DEF s
<1>5. stack'[t] = new \o old /\ \A u \in Threads : u # t => stack'[u] = stack[u]
  BY <1>2 DEF Stacks
<1>6. Calls(t)' = Range(new) \cup Range(old)
  BY <1>4, <1>5 DEF Calls
<1>7. \A u \in Threads : u # t => Calls(u)' = Calls(u)
  BY <1>5 DEF Calls
<1>. QED BY <1>6, <1>7 DEF Waits, old

\* Who counts is running, and each thread counts one request at most.
LEMMA CounterIs ==
    ASSUME SInv, NEW t \in Threads, stack[t] # <<>>
    PROVE  /\ \A r : Counting(t, r) <=>
                Here(t).fn \in {"ask", "count"} /\ Here(t).req = r
           /\ \A f \in Calls(t) : f.fn = "count" => f = Here(t)
<1>1. Running(t)
  BY RunningIs
<1>2. Calls(t) = {Here(t)} \cup Waits(t) /\ \A f \in Waits(t) : f.fn \notin {"ask", "count"}
  BY <1>1 DEF Running, Below
<1>. QED BY <1>2 DEF Counting

\* As the history says it.
LEMMA AsksForIs ==
    ASSUME SInv, NEW t \in Threads
    PROVE  \A r : AsksFor(t, r) <=> Counting(t, r)
<1>1. CASE stack[t] = <<>>
  <2>1. Calls(t) = {}
    BY <1>1, RangeOf DEF Calls
  <2>. QED BY <1>1, <2>1 DEF AsksFor, Counting
<1>2. CASE stack[t] # <<>>
  BY <1>2, CounterIs DEF AsksFor
<1>. QED BY <1>1, <1>2

LEMMA AsksForAre == SInv => \A u \in Threads : \A x : AsksFor(u, x) <=> Counting(u, x)
BY AsksForIs

\* Of two threads one is not asking.
LEMMA OthersDoNot ==
    ASSUME SInv, NEW r, ~AskedTwice(r), NEW t \in Threads, Counting(t, r)
    PROVE  \A u \in Threads : u # t => ~Counting(u, r)
BY AsksForIs, MainSweeper DEF AskedTwice, Threads

\* A thread that calls something else, or returns, and was not counting.
LEMMA OtherCallKeeps ==
    ASSUME SInv, SInv', AskInv, Track({}), NEW t \in Threads, stack[t] # <<>>,
           NEW S, NEW new \in Seq(S), Goto(t, new),
           \A f \in Range(new) : f.fn \notin {"ask", "count"},
           Here(t).fn = "count" => ~reqs[Here(t).req].live,
           \A r \in ReqIds : reqs[r].live /\ reqs'[r].live =>
              reqs'[r].times_sent = reqs[r].times_sent
    PROVE  AskInv'
<1>1. /\ Calls(t)' = Range(new) \cup Waits(t)
      /\ \A u \in Threads : u # t => Calls(u)' = Calls(u)
  BY GotoCalls DEF SInv, Typed
<1>2. \A f \in Waits(t) : f \in Calls(t)
  BY RunningIs DEF Running
<1>3. \A u \in Threads : \A f \in Calls(u)' :
        f.fn \in {"ask", "count"} => f \in Calls(u)
  BY <1>1, <1>2
<1>4. ASSUME NEW r \in ReqIds, reqs[r].live, reqs'[r].live, r \notin raced', Asked(r)
      PROVE  Asked(r)'
  <2>1. reqs'[r].times_sent = reqs[r].times_sent /\ asks'[r] = asks[r]
    BY <1>4, TrackIs DEF Asked
  <2>2. ASSUME NEW u \in Threads, NEW f \in Calls(u), f.fn = "count", f.req = r
        PROVE  f \in Calls(u)'
    <3>1. u # t
      BY <1>4, <2>2, CounterIs
    <3>. QED BY <1>1, <2>2, <3>1
  <2>. QED BY <1>3, <1>4, <2>1, <2>2, AskStays
<1>. QED BY <1>4, AskKeeps

\* A request is handled: one that will be asked for has tries left, unless the other
\* thread asks for it too.
LEMMA HandleAsks ==
    ASSUME SInv, SInv', AskInv, NEW t \in Threads, sr_handle_arpreq(t), Track({})
    PROVE  AskInv'
<1>r. PICK r : r = Here(t).req
  OBVIOUS
<1>1. Uses(t, "sr_handle_arpreq") /\ reqs' = reqs
  BY DEF sr_handle_arpreq, memory
<1>2. stack[t] # <<>> /\ Here(t).fn = "sr_handle_arpreq" /\ r \in ReqIds /\ reqs[r] \in Queueing
  BY <1>r, <1>1, UsedIs
<1>a. PICK a : a = [fn |-> "ask", req |-> r, now |-> 0]
  OBVIOUS
<1>g. PICK g : g = [fn |-> "sr_send_icmp_to_waiting", req |-> r, rest |-> reqs[r].packets]
  OBVIOUS
<1>3. \/ Goto(t, <<>>)
      \/ Goto(t, <<g>>)
      \/ Goto(t, <<a>>) /\ ~Expired(r)
  BY <1>r, <1>a, <1>g DEF sr_handle_arpreq, Return
<1>4. a.fn = "ask" /\ a.req = r /\ g.fn = "sr_send_icmp_to_waiting"
  BY <1>a, <1>g
<1>5. CASE Goto(t, <<>>)
  <2>1. <<>> \in Seq({}) /\ Range(<<>>) = {}
    BY RangeOf
  <2>. QED BY <1>1, <1>2, <1>5, <2>1, OtherCallKeeps
<1>6. CASE Goto(t, <<g>>)
  <2>1. <<g>> \in Seq({g}) /\ Range(<<g>>) = {g}
    BY RangeOf
  <2>. QED BY <1>1, <1>2, <1>4, <1>6, <2>1, OtherCallKeeps
<1>7. CASE Goto(t, <<a>>) /\ ~Expired(r)
  <2>1. <<a>> \in Seq({a}) /\ Range(<<a>>) = {a}
    BY RangeOf
  <2>2. /\ Calls(t)' = {a} \cup Waits(t)
        /\ \A u \in Threads : u # t => Calls(u)' = Calls(u)
    BY <1>2, <1>7, <2>1, GotoCalls DEF SInv, Typed
  <2>3. \A f \in Waits(t) : f \in Calls(t)
    BY <1>2, RunningIs DEF Running
  <2>4. \A u \in Threads : \A f \in Calls(u)' : f = a \/ f \in Calls(u)
    BY <2>2, <2>3
  <2>5. \A u \in Threads : \A f \in Calls(u) : f.fn = "count" => f \in Calls(u)'
    <3>1. \A f \in Calls(t) : f.fn # "count"
      BY <1>2, CounterIs
    <3>. QED BY <2>2, <3>1
  <2>6. ASSUME NEW x \in ReqIds, x # r, reqs[x].live, x \notin raced', Asked(x)
        PROVE  Asked(x)'
    <3>1. asks'[x] = asks[x]
      BY <1>1, <2>6, TrackIs DEF Asked
    <3>. QED BY <1>1, <1>4, <2>4, <2>5, <2>6, <3>1, AskStays
  <2>7. ASSUME r \notin raced', Asked(r) PROVE Asked(r)'
    <3>1. /\ reqs[r].live /\ reqs[r].times_sent \in Nat /\ reqs[r].times_sent < ArpTries
      <4>1. reqs[r].live /\ reqs[r].times_sent \in Nat /\ ~(reqs[r].times_sent >= ArpTries)
        BY <1>2, <1>7 DEF Queueing, Expired
      <4>. QED BY <4>1, ArpConstants
    <3>2. asks'[r] = asks[r] /\ ~AskedTwice(r)'
      BY <1>1, <1>2, <2>7, <3>1, TrackIs DEF Asked
    <3>3. Counting(t, r)'
      BY <1>4, <2>2 DEF Counting
    <3>4. \A u \in Threads : u # t => ~Counting(u, r)'
      <4>1. (\A u \in Threads : \A x : AsksFor(u, x) <=> Counting(u, x))'
        BY AsksForAre, PTL
      <4>. QED BY <3>2, <3>3, <4>1, MainSweeper DEF AskedTwice, Threads
    <3>5. \A u \in Threads : \A f \in Calls(u) : ~(f.fn = "count" /\ f.req = r)
      <4>1. \A f \in Calls(t) : f.fn # "count"
        BY <1>2, CounterIs
      <4>. QED BY <2>2, <3>4, <4>1 DEF Counting
    <3>6. asks[r] \in Nat /\ asks[r] <= reqs[r].times_sent
      BY <2>7, <3>5 DEF Asked
    <3>7. \A u \in Threads : \A f \in Calls(u)' : ~(f.fn = "count" /\ f.req = r)
      BY <1>4, <2>4, <3>5
    <3>8. asks'[r] \in 0..ArpTries /\ asks'[r] < ArpTries /\ asks'[r] <= reqs'[r].times_sent
      BY <1>1, <3>1, <3>2, <3>6, ArpConstants
    <3>. QED BY <3>7, <3>8 DEF Asked
  <2>. QED BY <1>1, <2>6, <2>7, AskKeeps
<1>. QED BY <1>3, <1>5, <1>6, <1>7

\* The ARP request is sent, once more than it was counted: the thread goes on to
\* count it.
LEMMA SendArpAsks ==
    ASSUME SInv, SInv', AskInv, NEW t \in Threads, sr_send_arp_req(t), Track({Here(t).req})
    PROVE  AskInv'
<1>h. PICK h : h = Here(t)
  OBVIOUS
<1>r. PICK r : r = h.req
  OBVIOUS
<1>1. Uses(t, "ask") /\ reqs' = [reqs EXCEPT ![r].sent_ago = h.now]
  BY <1>h, <1>r DEF sr_send_arp_req
<1>2. /\ stack[t] # <<>> /\ h.fn = "ask" /\ r \in ReqIds /\ reqs[r] \in Queueing
      /\ Running(t)
  BY <1>h, <1>r, <1>1, UsedIs
<1>3. /\ reqs[r].live /\ reqs[r].times_sent \in Nat
      /\ \A x \in ReqIds : /\ reqs'[x].times_sent = reqs[x].times_sent
                           /\ reqs'[x].live = reqs[x].live
  <2>1. reqs[r].live /\ reqs[r].times_sent \in Nat
    BY <1>2 DEF Queueing
  <2>2. /\ [reqs[r] EXCEPT !.sent_ago = h.now].times_sent = reqs[r].times_sent
        /\ [reqs[r] EXCEPT !.sent_ago = h.now].live = reqs[r].live
    BY <1>2 DEF Queueing
  <2>3. reqs \in [ReqIds -> Queueing \cup {Freed}]
    BY DEF SInv, Typed
  <2>. QED BY <1>1, <1>2, <2>1, <2>2, <2>3
<1>g. PICK g : g = [fn |-> "count", req |-> r, times_sent |-> reqs[r].times_sent]
  OBVIOUS
<1>4. g.fn = "count" /\ g.req = r /\ g.times_sent = reqs[r].times_sent
  BY <1>g
<1>5. Goto(t, <<g>>) /\ <<g>> \in Seq({g}) /\ Range(<<g>>) = {g}
  BY <1>h, <1>r, <1>g, RangeOf DEF sr_send_arp_req
<1>6. /\ Calls(t)' = {g} \cup Waits(t)
      /\ \A u \in Threads : u # t => Calls(u)' = Calls(u)
  BY <1>2, <1>5, GotoCalls DEF SInv, Typed
<1>7. \A u \in Threads : \A f \in Calls(u)' : f = g \/ f \in Calls(u)
  BY <1>2, <1>6 DEF Running
<1>8. Counting(t, r)
  BY <1>h, <1>r, <1>2, CounterIs
<1>9. ASSUME NEW x \in ReqIds, x # r, reqs[x].live, x \notin raced', Asked(x)
      PROVE  Asked(x)'
  <2>1. asks'[x] = asks[x]
    <3>1. reqs'[x].live /\ x \notin {Here(t).req}
      BY <1>h, <1>r, <1>3, <1>9
    <3>. QED BY <1>9, <3>1, TrackIs DEF Asked
  <2>2. \A u \in Threads : \A f \in Calls(u) : f.fn = "count" => f \in Calls(u)'
    <3>1. \A f \in Calls(t) : f.fn # "count"
      BY <1>h, <1>2, CounterIs
    <3>. QED BY <1>6, <3>1
  <2>. QED BY <1>3, <1>4, <1>7, <1>9, <2>1, <2>2, AskStays
<1>10. ASSUME r \notin raced', Asked(r), ~AskedTwice(r) PROVE Asked(r)'
  <2>1. asks'[r] = asks[r] + 1
    <3>1. reqs'[r].live /\ r \in {Here(t).req}
      BY <1>h, <1>r, <1>2, <1>3
    <3>. QED BY <1>2, <1>3, <1>10, <3>1, TrackIs
  <2>2. \A u \in Threads : u # t => ~Counting(u, r)
    BY <1>8, <1>10, OthersDoNot
  <2>3. \A f \in Calls(t) : f.fn # "count"
    BY <1>h, <1>2, CounterIs
  <2>4. asks[r] \in Nat /\ asks[r] <= reqs[r].times_sent
    BY <1>10, <2>2, <2>3 DEF Asked, Counting
  <2>5. asks[r] < ArpTries
    <3>1. h \in Calls(t)
      BY <1>h, <1>2 DEF Running
    <3>. QED BY <1>r, <1>2, <1>10, <3>1 DEF Asked
  <2>6. g \in Calls(t)'
    BY <1>6
  <2>7. ASSUME NEW u \in Threads, NEW f \in Calls(u)', f.fn \in {"ask", "count"}, f.req = r
        PROVE  f = g
    <3>1. CASE u = t
      BY <1>2, <1>6, <2>7, <3>1 DEF Running, Below
    <3>2. CASE u # t
      BY <1>6, <2>2, <2>7, <3>2 DEF Counting
    <3>. QED BY <3>1, <3>2
  <2>8. asks'[r] \in 0..ArpTries /\ asks'[r] <= g.times_sent + 1
    BY <1>3, <1>4, <2>1, <2>4, <2>5, ArpConstants
  <2>9. \E u \in Threads : \E f \in Calls(u)' : f.fn = "count" /\ f.req = r
    BY <1>4, <2>6
  <2>10. \A u \in Threads : \A f \in Calls(u)' :
           /\ ~(f.fn = "ask" /\ f.req = r)
           /\ f.fn = "count" /\ f.req = r => asks'[r] <= f.times_sent + 1
    BY <1>4, <2>7, <2>8
  <2>. QED BY <2>8, <2>9, <2>10 DEF Asked
<1>. QED BY <1>9, <1>10, AskKeeps

\* The request is counted: nobody else is counting it.
LEMMA CountAsks ==
    ASSUME SInv, SInv', AskInv, NEW t \in Threads, CountArp(t), Track({})
    PROVE  AskInv'
<1>h. PICK h : h = Here(t)
  OBVIOUS
<1>r. PICK r : r = h.req
  OBVIOUS
<1>1. Uses(t, "count") /\ reqs' = [reqs EXCEPT ![r].times_sent = h.times_sent + 1]
  BY <1>h, <1>r DEF CountArp
<1>2. /\ stack[t] # <<>> /\ h.fn = "count" /\ r \in ReqIds /\ reqs[r] \in Queueing
      /\ Running(t) /\ h \in Call /\ h \in Calls(t)
  BY <1>h, <1>r, <1>1, UsedIs DEF Running
<1>3. h.times_sent \in Nat
  BY <1>2, CallIs
<1>4. /\ reqs[r].live /\ reqs'[r].times_sent = h.times_sent + 1
      /\ \A x \in ReqIds : /\ x # r => reqs'[x].times_sent = reqs[x].times_sent
                           /\ reqs'[x].live = reqs[x].live
  <2>1. reqs[r].live
    BY <1>2 DEF Queueing
  <2>2. /\ [reqs[r] EXCEPT !.times_sent = h.times_sent + 1].times_sent = h.times_sent + 1
        /\ [reqs[r] EXCEPT !.times_sent = h.times_sent + 1].live = reqs[r].live
    BY <1>2 DEF Queueing
  <2>3. reqs \in [ReqIds -> Queueing \cup {Freed}]
    BY DEF SInv, Typed
  <2>. QED BY <1>1, <1>2, <2>1, <2>2, <2>3
<1>5. PICK new \in Seq(Call) : Goto(t, new) /\ Range(new) = {}
  BY RangeOf DEF CountArp, Return
<1>6. /\ Calls(t)' = Waits(t)
      /\ \A u \in Threads : u # t => Calls(u)' = Calls(u)
  <2>1. stack \in Stacks
    BY DEF SInv, Typed
  <2>. QED BY <1>2, <1>5, <2>1, GotoCalls
<1>7. \A u \in Threads : \A f \in Calls(u)' : f \in Calls(u)
  BY <1>2, <1>6 DEF Running
<1>8. Counting(t, r) /\ \A x : ~Counting(t, x)'
  <2>1. Counting(t, r)
    BY <1>h, <1>r, <1>2, CounterIs
  <2>2. \A f \in Waits(t) : f.fn \notin {"ask", "count"}
    BY <1>2 DEF Running, Below
  <2>. QED BY <1>6, <2>1, <2>2 DEF Counting
<1>9. ASSUME NEW x \in ReqIds, x # r, reqs[x].live, x \notin raced', Asked(x)
      PROVE  Asked(x)'
  <2>1. asks'[x] = asks[x]
    BY <1>4, <1>9, TrackIs DEF Asked
  <2>2. ASSUME NEW u \in Threads, NEW f \in Calls(u), f.fn = "count", f.req = x
        PROVE  f \in Calls(u)'
    <3>1. u # t
      BY <1>h, <1>r, <1>2, <1>9, <2>2, CounterIs
    <3>. QED BY <1>6, <2>2, <3>1
  <2>. QED BY <1>4, <1>7, <1>9, <2>1, <2>2, AskStays
<1>10. ASSUME r \notin raced', Asked(r), ~AskedTwice(r) PROVE Asked(r)'
  <2>1. asks'[r] = asks[r] /\ asks[r] \in 0..ArpTries
    BY <1>2, <1>4, <1>10, TrackIs DEF Asked
  <2>2. asks[r] <= h.times_sent + 1
    BY <1>r, <1>2, <1>10 DEF Asked
  <2>3. \A u \in Threads : ~Counting(u, r)'
    <3>1. \A u \in Threads : u # t => ~Counting(u, r)
      BY <1>8, <1>10, OthersDoNot
    <3>. QED BY <1>6, <1>8, <3>1 DEF Counting
  <2>. QED BY <1>4, <2>1, <2>2, <2>3 DEF Asked, Counting
<1>. QED BY <1>4, <1>9, <1>10, AskKeeps

\* Memory that nothing points to.
LEMMA AllocatedIsFresh ==
    ASSUME Reuse = FALSE, NEW r \in Allocatable
    PROVE  ~Held(r)
<1>1. r \in {Min(fresh) : fresh \in {Fresh} \ {{}}}
  BY DEF Allocatable
<1>2. Fresh # {} /\ r = Min(Fresh)
  BY <1>1
<1>3. Fresh \in SUBSET Nat
  BY ArpConstants DEF Fresh, Free
<1>. QED BY <1>2, <1>3, MinIn DEF Fresh

\* A packet waits for a request, which a new one has not been asked for.
LEMMA QueueReqAsks ==
    ASSUME SInv, SInv', AskInv, NEW t \in Threads, sr_arpcache_queuereq(t), Track({})
    PROVE  AskInv'
<1>q. PICK q : q = Here(t).pkt
  OBVIOUS
<1>1. /\ stack[t] # <<>> /\ Here(t).fn = "sr_arpcache_queuereq"
      /\ reqs \in [ReqIds -> Queueing \cup {Freed}]
  BY DEF sr_arpcache_queuereq, At, Here, SInv, Typed
<1>2. PICK r \in ReqIds :
        /\ \/ reqs' = [reqs EXCEPT ![r].packets = AddPacket(@, q)]
           \/ /\ r \in Allocatable
              /\ reqs' = [reqs EXCEPT ![r] =
                   [live |-> TRUE, ip |-> NextHop(q), sent_ago |-> 2,
                    times_sent |-> 0, packets |-> AddPacket(<<>>, q)]]
        /\ Goto(t, <<[fn |-> "sr_handle_arpreq", req |-> r]>>)
  BY <1>q DEF sr_arpcache_queuereq
<1>g. PICK g : g = [fn |-> "sr_handle_arpreq", req |-> r]
  OBVIOUS
<1>3. g.fn = "sr_handle_arpreq" /\ Goto(t, <<g>>) /\ <<g>> \in Seq({g}) /\ Range(<<g>>) = {g}
  BY <1>2, <1>g, RangeOf
<1>4. ASSUME NEW x \in ReqIds, reqs[x].live PROVE reqs'[x].times_sent = reqs[x].times_sent
  <2>1. reqs[x] \in Queueing
    BY <1>1, <1>4 DEF Freed
  <2>2. \A s : [reqs[x] EXCEPT !.packets = s].times_sent = reqs[x].times_sent
    BY <2>1 DEF Queueing
  <2>3. CASE reqs' = [reqs EXCEPT ![r].packets = AddPacket(@, q)]
    BY <1>1, <2>2, <2>3
  <2>4. CASE /\ r \in Allocatable
             /\ reqs' = [reqs EXCEPT ![r] =
                   [live |-> TRUE, ip |-> NextHop(q), sent_ago |-> 2,
                    times_sent |-> 0, packets |-> AddPacket(<<>>, q)]]
    <3>1. x # r
      BY <1>4, <2>4, AllocatableIsFree
    <3>. QED BY <1>1, <2>4, <3>1
  <2>. QED BY <1>2, <2>3, <2>4
<1>. QED BY <1>1, <1>3, <1>4, OtherCallKeeps

\* A request is freed; no thread begins or ends a count.
LEMMA DestroyAsks ==
    ASSUME SInv, SInv', AskInv, NEW t \in Threads, sr_arpreq_destroy(t), Track({})
    PROVE  AskInv'
<1>r. PICK r : r = Here(t).req
  OBVIOUS
<1>n. PICK n : n = NextOf(r)
  OBVIOUS
<1> DEFINE after(f) == IF f.fn = "sweep_next" /\ f.req = r
                       THEN [f EXCEPT !.next = n] ELSE f
<1>1. stack[t] # <<>> /\ stack \in [Threads -> Seq(Call)]
  BY DEF sr_arpreq_destroy, Uses, At, SInv, Typed, Stacks
<1>2. stack' = [stack EXCEPT ![t] =
                  [i \in 1..(Len(stack[t]) - 1) |-> after(stack[t][i + 1])]]
  BY <1>r, <1>n DEF sr_arpreq_destroy
<1>3. ASSUME NEW f \in Call PROVE after(f).fn = f.fn
  <2>1. CASE f.fn = "sweep_next"
    <3>1. [f EXCEPT !.next = n].fn = f.fn
      BY <2>1, CallIs DEF SweepNexts
    <3>. QED BY <3>1
  <2>2. CASE f.fn # "sweep_next"
    BY <2>2
  <2>. QED BY <2>1, <2>2
<1>. HIDE DEF after
<1>4. \A u \in Threads : u # t => Calls(u)' = Calls(u)
  BY <1>1, <1>2 DEF Calls
<1>5. ASSUME NEW f \in Calls(t)' PROVE f.fn \notin {"ask", "count"}
  <2>1. PICK i \in 1..(Len(stack[t]) - 1) : f = after(stack[t][i + 1])
    BY <1>1, <1>2 DEF Calls, Range
  <2>2. /\ Tail(stack[t]) \in Seq(Call) /\ Len(stack[t]) \in Nat
        /\ Len(Tail(stack[t])) = Len(stack[t]) - 1
        /\ \A j \in DOMAIN Tail(stack[t]) : Tail(stack[t])[j] = stack[t][j + 1]
    BY <1>1, CallsAre DEF Stacks
  <2>3. i \in DOMAIN Tail(stack[t])
    BY <2>2
  <2>4. stack[t][i + 1] \in Waits(t) /\ stack[t][i + 1] \in Call
    <3>1. Tail(stack[t])[i] \in Waits(t)
      BY <2>3 DEF Waits, Range
    <3>2. Tail(stack[t])[i] \in Call
      BY <2>2, <2>3
    <3>. QED BY <2>2, <2>3, <3>1, <3>2
  <2>5. stack[t][i + 1].fn \in Below
    BY <1>1, <2>4, RunningIs DEF Running
  <2>. QED BY <1>3, <2>1, <2>4, <2>5 DEF Below
<1>6. \A u \in Threads : \A f \in Calls(u)' : f.fn \in {"ask", "count"} => f \in Calls(u)
  BY <1>4, <1>5
<1>7. \A u \in Threads : \A f \in Calls(u) : f.fn = "count" => f \in Calls(u)'
  <2>1. Here(t).fn # "count"
    BY DEF sr_arpreq_destroy, Uses, At, Here
  <2>2. \A f \in Calls(t) : f.fn # "count"
    BY <1>1, <2>1, CounterIs
  <2>. QED BY <1>4, <2>2
<1>8. ASSUME NEW x \in ReqIds, reqs[x].live, reqs'[x].live, x \notin raced', Asked(x)
      PROVE  Asked(x)'
  <2>1. reqs \in [ReqIds -> Queueing \cup {Freed}] /\ reqs' = [reqs EXCEPT ![r] = Freed]
    BY <1>r DEF sr_arpreq_destroy, SInv, Typed
  <2>2. reqs'[x] = reqs[x]
    BY <1>8, <2>1 DEF Freed
  <2>3. asks'[x] = asks[x]
    BY <1>8, TrackIs DEF Asked
  <2>. QED BY <1>6, <1>7, <1>8, <2>2, <2>3, AskStays
<1>. QED BY <1>8, AskKeeps

\* No call is made or returns.
LEMMA StillAsks ==
    ASSUME SInv, SInv', AskInv, UNCHANGED <<reqs, stack>>, Track({})
    PROVE  AskInv'
<1>1. \A u \in Threads : Calls(u)' = Calls(u)
  BY DEF Calls
<1>2. ASSUME NEW x \in ReqIds, reqs[x].live, x \notin raced', Asked(x)
      PROVE  Asked(x)'
  <2>1. asks'[x] = asks[x]
    BY <1>2, TrackIs DEF Asked
  <2>. QED BY <1>1, <1>2, <2>1, AskStays
<1>. QED BY <1>2, AskKeeps

\* The other steps of a thread.
LEMMA StepAsks ==
    ASSUME SInv, SInv', AskInv, NEW t \in Threads, AskStep(t)
    PROVE  AskInv'
<1>h. PICK h : h = Here(t)
  OBVIOUS
<1>1. ASSUME UNCHANGED <<reqs, stack>>, Track({}) PROVE AskInv'
  BY <1>1, StillAsks
<1>2. ASSUME reqs' = reqs, stack[t] # <<>>, NEW new,
             \/ new = <<>>
             \/ \E f : new = <<f>> /\ f.fn \notin {"ask", "count"}
             \/ \E f, g : new = <<f, g>> /\ {f.fn, g.fn} \cap {"ask", "count"} = {},
             Goto(t, new), Track({}),
             Here(t).fn = "count" => ~reqs[Here(t).req].live
      PROVE  AskInv'
  <2>1. \E S : new \in Seq(S) /\ \A f \in Range(new) : f.fn \notin {"ask", "count"}
    <3>1. CASE new = <<>>
      <4>1. new \in Seq({}) /\ Range(new) = {}
        BY <3>1, RangeOf
      <4>. QED BY <4>1
    <3>2. ASSUME NEW f, new = <<f>>, f.fn \notin {"ask", "count"}
          PROVE  \E S : new \in Seq(S) /\ \A x \in Range(new) : x.fn \notin {"ask", "count"}
      <4>1. new \in Seq({f}) /\ Range(new) = {f}
        BY <3>2, RangeOf
      <4>. QED BY <3>2, <4>1
    <3>3. ASSUME NEW f, NEW g, new = <<f, g>>, {f.fn, g.fn} \cap {"ask", "count"} = {}
          PROVE  \E S : new \in Seq(S) /\ \A x \in Range(new) : x.fn \notin {"ask", "count"}
      <4>1. new \in Seq({f, g}) /\ Range(new) = {f, g}
        BY <3>3, RangeOf
      <4>. QED BY <3>3, <4>1
    <3>. QED BY <1>2, <3>1, <3>2, <3>3
  <2>. QED BY <1>2, <2>1, OtherCallKeeps
<1>3. CASE sr_arpcache_lookup(t) /\ Track({})
  <2>g. PICK g : g = [fn |-> "sr_arpcache_queuereq", pkt |-> h.pkt]
    OBVIOUS
  <2>1. /\ reqs' = reqs /\ stack[t] # <<>> /\ g.fn = "sr_arpcache_queuereq"
        /\ Goto(t, <<>>) \/ Goto(t, <<g>>)
        /\ Here(t).fn = "sr_attempt_send"
    BY <1>h, <1>3, <2>g DEF sr_arpcache_lookup, At, Here, Return, memory
  <2>. QED BY <1>2, <1>3, <2>1
<1>4. CASE sr_send_icmp_to_waiting(t) /\ Track({})
  <2>m. PICK m : m = HostUnreachable(Head(h.rest))
    OBVIOUS
  <2>a. PICK a : a = Attempt(m)
    OBVIOUS
  <2>g. PICK g : g = [h EXCEPT !.rest = Tail(h.rest)]
    OBVIOUS
  <2>1. Uses(t, "sr_send_icmp_to_waiting")
    BY <1>4 DEF sr_send_icmp_to_waiting
  <2>2. stack[t] # <<>> /\ h.fn = "sr_send_icmp_to_waiting" /\ h \in Call
    BY <1>h, <2>1, UsedIs
  <2>3. g.fn = "sr_send_icmp_to_waiting" /\ a.fn = "sr_attempt_send"
    BY <2>2, <2>a, <2>g, CallIs DEF GiveUps, Attempt
  <2>4. reqs' = reqs /\ Goto(t, Attempts({m}) \o <<g>>)
    BY <1>h, <1>4, <2>m, <2>g DEF sr_send_icmp_to_waiting, memory
  <2>5. Attempts({m}) = <<>> \/ Attempts({m}) = <<a>>
    <3>1. {m} = {} \/ \E p : {m} = {p}
      OBVIOUS
    <3>. QED BY <2>a, <3>1, AttemptsIs
  <2>6. <<>> \o <<g>> = <<g>>
    OBVIOUS
  <2>7. Goto(t, <<g>>) \/ Goto(t, <<a, g>>)
    BY <2>4, <2>5, <2>6, ConcatTwo
  <2>8. CASE Goto(t, <<g>>)
    BY <1>2, <1>4, <1>h, <2>2, <2>3, <2>4, <2>8
  <2>9. CASE Goto(t, <<a, g>>)
    <3>1. {a.fn, g.fn} \cap {"ask", "count"} = {}
      BY <2>3
    <3>. QED BY <1>2, <1>4, <1>h, <2>2, <2>4, <2>9, <3>1
  <2>. QED BY <2>7, <2>8, <2>9
<1>5. CASE StackOverflow(t) /\ Track({})
  BY <1>1, <1>5 DEF StackOverflow, Crash, memory
<1>6. CASE UseFreed(t) /\ Track({})
  <2>1. CASE Crash
    BY <1>1, <1>6, <2>1 DEF Crash, memory
  <2>2. CASE ~Crash
    <3>1. /\ reqs' = reqs /\ stack[t] # <<>> /\ Goto(t, <<>>)
          /\ ~reqs[Here(t).req].live
      BY <1>6, <2>2 DEF UseFreed, At, Return, memory
    <3>. QED BY <1>2, <1>6, <3>1
  <2>. QED BY <2>1, <2>2
<1>7. CASE sr_recv_arp(t) /\ Track({})
  <2>a. PICK a : a = Attempt(Head(h.rest))
    OBVIOUS
  <2>g. PICK g : g = [h EXCEPT !.rest = Tail(h.rest)]
    OBVIOUS
  <2>1. Uses(t, "sr_recv_arp")
    BY <1>7 DEF sr_recv_arp
  <2>2. stack[t] # <<>> /\ h.fn = "sr_recv_arp" /\ h \in Call
    BY <1>h, <2>1, UsedIs
  <2>3. g.fn = "sr_recv_arp" /\ a.fn = "sr_attempt_send"
    BY <2>2, <2>a, <2>g, CallIs DEF Answers, Attempt
  <2>4. reqs' = reqs /\ Goto(t, <<a, g>>)
    BY <1>h, <1>7, <2>a, <2>g DEF sr_recv_arp, memory, Attempt
  <2>5. {a.fn, g.fn} \cap {"ask", "count"} = {}
    BY <2>3
  <2>. QED BY <1>2, <1>7, <1>h, <2>2, <2>4, <2>5
<1>. QED BY <1>3, <1>4, <1>5, <1>6, <1>7, QueueReqAsks, HandleAsks, SendArpAsks,
            CountAsks, DestroyAsks DEF AskStep

\* Time only makes the requests older.
LEMMA TickAsks ==
    ASSUME SInv, SInv', AskInv, Tick, Track({})
    PROVE  AskInv'
<1> DEFINE after(f) == IF f.fn = "ask" THEN [f EXCEPT !.now = Older(@, 2)] ELSE f
<1>1. /\ reqs' = [r \in ReqIds |-> [reqs[r] EXCEPT !.sent_ago = Older(@, 2)]]
      /\ stack' = [t \in Threads |-> [i \in DOMAIN stack[t] |-> after(stack[t][i])]]
  BY DEF Tick
<1>2. stack \in [Threads -> Seq(Call)] /\ reqs \in [ReqIds -> Queueing \cup {Freed}]
  BY DEF SInv, Typed, Stacks
<1>3. ASSUME NEW f \in Call
      PROVE  /\ after(f).fn = f.fn
             /\ f.fn = "ask" => after(f).req = f.req
             /\ f.fn # "ask" => after(f) = f
  <2>1. CASE f.fn = "ask"
    <3>1. f \in Asks
      BY <2>1, CallIs
    <3>2. \A n : [f EXCEPT !.now = n].fn = f.fn /\ [f EXCEPT !.now = n].req = f.req
      BY <3>1 DEF Asks
    <3>. QED BY <2>1, <3>2
  <2>2. CASE f.fn # "ask"
    BY <2>2
  <2>. QED BY <2>1, <2>2
<1>. HIDE DEF after
<1>4. ASSUME NEW t \in Threads, NEW f \in Calls(t)'
      PROVE  \E e \in Calls(t) : e \in Call /\ f = after(e)
  <2>1. PICK i \in DOMAIN stack[t] : f = after(stack[t][i])
    BY <1>1, <1>4 DEF Calls, Range
  <2>2. stack[t][i] \in Calls(t) /\ stack[t][i] \in Call
    BY <1>2 DEF Calls, Range
  <2>. QED BY <2>1, <2>2
<1>5. ASSUME NEW u \in Threads, NEW f \in Calls(u)'
      PROVE  /\ f.fn = "count" => f \in Calls(u)
             /\ f.fn = "ask" => \E e \in Calls(u) : e.fn = "ask" /\ e.req = f.req
  <2>1. PICK e \in Calls(u) : e \in Call /\ f = after(e)
    BY <1>4
  <2>. QED BY <1>3, <2>1
<1>6. ASSUME NEW u \in Threads, NEW f \in Calls(u), f.fn = "count" PROVE f \in Calls(u)'
  <2>1. PICK i \in DOMAIN stack[u] : f = stack[u][i]
    BY DEF Calls, Range
  <2>2. f \in Call
    BY <1>2, <2>1
  <2>3. i \in DOMAIN stack'[u] /\ stack'[u][i] = f
    BY <1>1, <1>3, <1>6, <2>1, <2>2
  <2>. QED BY <2>3 DEF Calls, Range
<1>7. ASSUME NEW x \in ReqIds, reqs[x].live, reqs'[x].live, x \notin raced', Asked(x)
      PROVE  Asked(x)'
  <2>1. reqs[x] \in Queueing \cup {Freed}
    BY <1>2
  <2>2. \A n : [reqs[x] EXCEPT !.sent_ago = n].times_sent = reqs[x].times_sent
    BY <2>1 DEF Queueing, Freed
  <2>3. reqs'[x].times_sent = reqs[x].times_sent
    BY <1>1, <2>2
  <2>4. asks'[x] = asks[x]
    BY <1>7, TrackIs DEF Asked
  <2>. QED BY <1>5, <1>6, <1>7, <2>3, <2>4, AskStays
<1>. QED BY <1>7, AskKeeps

\* All steps.
LEMMA NextAsks ==
    ASSUME SInv, SInv', AskInv, AskNext
    PROVE  AskInv'
<1>1. ASSUME reqs' = reqs, NEW t \in Threads, stack[t] = <<>>, Track({}),
             \A u \in Threads : u # t => stack'[u] = stack[u],
             \A f \in Calls(t)' : f.fn \notin {"ask", "count"}
      PROVE  AskInv'
  <2>1. \A u \in Threads : u # t => Calls(u)' = Calls(u)
    BY <1>1 DEF Calls
  <2>2. Calls(t) = {}
    BY <1>1, RangeOf DEF Calls
  <2>3. ASSUME NEW x \in ReqIds, reqs[x].live, x \notin raced', Asked(x)
        PROVE  Asked(x)'
    <3>1. asks'[x] = asks[x]
      BY <1>1, <2>3, TrackIs DEF Asked
    <3>. QED BY <1>1, <2>1, <2>2, <2>3, <3>1, AskStays
  <2>. QED BY <1>1, <2>3, AskKeeps
<1>2. stack \in [Threads -> Seq(Call)]
  BY DEF SInv, Typed, Stacks
<1>3. CASE UNCHANGED <<reqs, stack>> /\ Track({})
  BY <1>3, StillAsks
<1>4. CASE \E t \in Threads : AskStep(t)
  BY <1>4, StepAsks
<1>5. CASE sr_arpcache_timeout /\ Track({})
  <2>g. PICK g : g = [fn |-> "sr_arpcache_sweepreqs",
                      req |-> IF queue = <<>> THEN Null ELSE Head(queue)]
    OBVIOUS
  <2>1. /\ reqs' = reqs /\ stack' = [stack EXCEPT ![Sweeper] = <<g>>]
        /\ g.fn = "sr_arpcache_sweepreqs"
        /\ stack[Sweeper] = <<>>
    BY <1>5, <2>g DEF sr_arpcache_timeout
  <2>2. Calls(Sweeper)' = {g}
    BY <1>2, <2>1, MainSweeper, RangeOf DEF Calls
  <2>. QED BY <1>1, <1>2, <1>5, <2>1, <2>2, MainSweeper
<1>6. CASE sr_arpcache_sweepreqs /\ Track({})
  <2>r. PICK r : r = Here(Sweeper).req
    OBVIOUS
  <2>f. PICK f : f = [fn |-> "sr_handle_arpreq", req |-> r]
    OBVIOUS
  <2>g. PICK g : g = [fn |-> "sweep_next", req |-> r, next |-> Null]
    OBVIOUS
  <2>1. /\ reqs' = reqs /\ stack[Sweeper] # <<>>
        /\ Goto(Sweeper, <<>>) \/ Goto(Sweeper, <<f, g>>)
        /\ f.fn = "sr_handle_arpreq" /\ g.fn = "sweep_next"
        /\ Here(Sweeper).fn = "sr_arpcache_sweepreqs"
    BY <1>6, <2>r, <2>f, <2>g DEF sr_arpcache_sweepreqs, At, Here, Return, memory
  <2>2. PICK new \in Seq({f, g}) :
          Goto(Sweeper, new) /\ \A x \in Range(new) : x \in {f, g}
    <3>1. <<>> \in Seq({f, g}) /\ <<f, g>> \in Seq({f, g})
      OBVIOUS
    <3>. QED BY <2>1, <3>1, RangeOf
  <2>. QED BY <1>6, <2>1, <2>2, MainSweeper, OtherCallKeeps
<1>7. CASE SweepNext /\ Track({})
  <2>1. CASE Crash
    BY <1>3, <1>7, <2>1 DEF Crash, memory
  <2>2. CASE ~Crash
    <3>1. PICK r : /\ Goto(Sweeper, <<[fn |-> "sr_arpcache_sweepreqs", req |-> r]>>)
                   /\ stack[Sweeper] # <<>> /\ reqs' = reqs
                   /\ Here(Sweeper).fn = "sweep_next"
      BY <1>7, <2>2 DEF SweepNext, At, Here, memory
    <3>g. PICK g : g = [fn |-> "sr_arpcache_sweepreqs", req |-> r]
      OBVIOUS
    <3>2. g.fn = "sr_arpcache_sweepreqs" /\ <<g>> \in Seq({g}) /\ Range(<<g>>) = {g}
      BY <3>g, RangeOf
    <3>. QED BY <1>7, <3>1, <3>g, <3>2, MainSweeper, OtherCallKeeps
  <2>. QED BY <2>1, <2>2
<1>8. CASE sr_handlepacket_ip /\ Track({})
  <2>1. PICK in \in InPackets :
          stack' = [stack EXCEPT ![Main] = Attempts(sr_handle_ip_packet(in[1], in[2]))]
    BY <1>8 DEF sr_handlepacket_ip
  <2>p. PICK ps : ps = sr_handle_ip_packet(in[1], in[2])
    OBVIOUS
  <2>2. ps = {} \/ \E p : ps = {p}
    BY <2>p, HandledIs DEF Single
  <2>3. \A f \in Range(Attempts(ps)) : f.fn = "sr_attempt_send"
    <3>1. Attempts(ps) = <<>> \/ \E p : Attempts(ps) = <<Attempt(p)>>
      BY <2>2, AttemptsIs
    <3>2. \A p : Attempt(p).fn = "sr_attempt_send"
      BY DEF Attempt
    <3>. QED BY <3>1, <3>2, RangeOf
  <2>4. Calls(Main)' = Range(Attempts(ps))
    BY <1>2, <2>1, <2>p, MainSweeper DEF Calls
  <2>5. reqs' = reqs /\ stack[Main] = <<>>
    BY <1>8 DEF sr_handlepacket_ip, Idle, memory
  <2>. QED BY <1>1, <1>2, <1>8, <2>1, <2>3, <2>4, <2>5, MainSweeper
<1>9. CASE sr_handlepacket_arp /\ Track({})
  <2>1. CASE UNCHANGED stack
    BY <1>3, <1>9, <2>1 DEF sr_handlepacket_arp
  <2>2. CASE ~UNCHANGED stack
    <3>1. PICK r : stack' = [stack EXCEPT ![Main] =
                      <<[fn |-> "sr_recv_arp", req |-> r, rest |-> reqs[r].packets]>>]
      BY <1>9, <2>2 DEF sr_handlepacket_arp
    <3>g. PICK g : g = [fn |-> "sr_recv_arp", req |-> r, rest |-> reqs[r].packets]
      OBVIOUS
    <3>2. g.fn = "sr_recv_arp" /\ Range(<<g>>) = {g} /\ stack' = [stack EXCEPT ![Main] = <<g>>]
      BY <3>1, <3>g, RangeOf
    <3>3. Calls(Main)' = {g} /\ reqs' = reqs /\ stack[Main] = <<>>
      BY <1>2, <1>9, <3>2, MainSweeper DEF Calls, sr_handlepacket_arp, Idle
    <3>. QED BY <1>1, <1>2, <1>9, <3>2, <3>3, MainSweeper
  <2>. QED BY <2>1, <2>2
<1>10. CASE Tick /\ Track({})
  BY <1>10, TickAsks
<1>. QED BY <1>4, <1>5, <1>6, <1>7, <1>8, <1>9, <1>10 DEF AskNext

\* The history changes nothing of what the router does, and what is proved of Spec
\* holds with it.
LEMMA AskNextIs == [AskNext]_askVars => [Next]_vars
BY DEF AskNext, AskStep, askVars, Next, Step, Sweep

THEOREM HistoryOnly == AskSpec => Spec
<1>1. AskInit => Init
  BY DEF AskInit
<1>. QED BY <1>1, AskNextIs, PTL DEF AskSpec, Spec

\* sr_arpcache.h:51, as the code keeps it. A request is broadcast at most ArpTries
\* times unless both threads were once between the test of its count and the end
\* of its increment, whatever calloc returns and the threads use after it was freed.
THEOREM AsksNeedRace == AskSpec => []MoreAsksNeedRace
<1>1. AskInit => SInv /\ AskInv
  <2>1. AskInit => AskInv
    BY DEF AskInit, Init, sr_arpcache_init, AskInv, Freed
  <2>. QED BY <2>1, InitPlaces DEF AskInit
<1>2. SInv /\ AskInv /\ [AskNext]_askVars => (SInv /\ AskInv)'
  <2>1. SUFFICES ASSUME SInv, AskInv, [AskNext]_askVars PROVE SInv' /\ AskInv'
    OBVIOUS
  <2>2. SInv'
    BY <2>1, AskNextIs, NextPlaces
  <2>n. AskNext \/ UNCHANGED askVars
    BY <2>1
  <2>3. CASE AskNext
    BY <2>1, <2>2, <2>3, NextAsks
  <2>4. CASE UNCHANGED askVars
    <3>1. UNCHANGED <<reqs, stack, asks, raced>>
      BY <2>4 DEF askVars, vars, memory
    <3>2. AskInv'
      BY <2>1, <3>1 DEF AskInv, Asked, AskedTwice, AsksFor, Here, Calls
    <3>. QED BY <2>2, <3>2
  <2>. QED BY <2>2, <2>n, <2>3, <2>4
<1>3. SInv /\ AskInv => MoreAsksNeedRace
  <2>1. ASSUME AskInv, NEW r \in ReqIds, reqs[r].live, r \notin raced
        PROVE  asks[r] <= ArpTries
    BY <2>1, ArpConstants DEF AskInv, Asked
  <2>. QED BY <2>1 DEF MoreAsksNeedRace
<1>. QED BY <1>1, <1>2, <1>3, PTL DEF AskSpec

-----------------------------------------------------------------------------
\* How giving up comes back to a request. A call that gives one up waits for the
\* host unreachable message it sent, so the next hop of the request it came to is
\* the message's. A request may be freed below such a call, which keeps on; hop[r]
\* is the next hop that r is or was a request for.

Forward == {"sr_handle_arpreq", "ask", "count", "sr_send_icmp_to_waiting"}

Knows(hop) ==
    \A r \in ReqIds : reqs[r].live =>
       /\ reqs[r].ip = hop[r]
       /\ \A p \in Range(reqs[r].packets) : NextHop(p) = hop[r]

Rests(hop, f) ==
    f.fn = "sr_send_icmp_to_waiting" =>
       \A p \in Range(f.rest) : NextHop(p) = hop[f.req]

Leads(hop, f, g) ==
    /\ f.fn \in {"sr_attempt_send", "sr_arpcache_queuereq"} => NextHop(f.pkt) = g
    /\ f.fn \in Forward => hop[f.req] = g

CalledBy(ps, hop, f, g) ==
    g.fn = "sr_send_icmp_to_waiting" =>
       \E p \in ps : /\ HasRoute(p.src) /\ NextHop(p) = hop[g.req]
                     /\ Leads(hop, f, NextHop(HostUnreachable(p)))

Linked(hop) ==
    /\ Knows(hop)
    /\ \A t \in Threads : \A f \in Calls(t) : Rests(hop, f)
    /\ \A t \in Threads : \A i \in DOMAIN stack[t] :
          i > 1 => CalledBy(refused, hop, stack[t][i - 1], stack[t][i])

HopOf == [ReqIds -> Gateways \cup {Null}]

LinkedOK == \E hop \in HopOf : Linked(hop)

\* A request has the same next hop for the calls in progress as before.
Agree(hop, new) ==
    \A t \in Threads : \A f \in Calls(t) :
       f.fn \in Forward => new[f.req] = hop[f.req]

\* What was called stays called when no packet is taken back.
LEMMA CalledStays ==
    ASSUME NEW hop, NEW new, NEW t \in Threads, NEW u \in Threads,
           NEW f \in Calls(t), NEW g \in Calls(u),
           Agree(hop, new), refused \subseteq refused', CalledBy(refused, hop, f, g)
    PROVE  CalledBy(refused', new, f, g)
<1>1. f.fn \in Forward => new[f.req] = hop[f.req]
  BY DEF Agree
<1>2. g.fn = "sr_send_icmp_to_waiting" => new[g.req] = hop[g.req]
  BY DEF Agree, Forward
<1>. QED BY <1>1, <1>2 DEF CalledBy, Leads

\* A step that calls `calls' instead of the running call keeps the links, if the
\* last of the new calls leads where the running one did.
LEMMA GotoLinks ==
    ASSUME SInv, NEW t \in Threads, stack[t] # <<>>,
           NEW calls \in Seq(Call), Goto(t, calls),
           NEW hop, NEW new, Linked(hop), Agree(hop, new), Knows(new)',
           refused \subseteq refused',
           \A f \in Range(calls) : Rests(new, f),
           \A i \in DOMAIN calls : i > 1 => CalledBy(refused', new, calls[i - 1], calls[i]),
           \/ calls = <<>>
           \/ \A g : Leads(hop, Here(t), g) => Leads(new, calls[Len(calls)], g)
    PROVE  Linked(new)'
<1> DEFINE n == Len(calls)
           old == Tail(stack[t])
<1>1. Gone(t, calls) /\ Running(t) /\ stack \in Stacks
  BY GotoIs, RunningIs DEF SInv, Typed
<1>2. n \in Nat /\ DOMAIN calls = 1..n
  OBVIOUS
<1>3. /\ Here(t) = stack[t][1] /\ Here(t) \in Calls(t) /\ Len(stack[t]) \in Nat
      /\ Len(old) = Len(stack[t]) - 1 /\ old \in Seq(Call)
      /\ DOMAIN stack[t] = 1..Len(stack[t])
      /\ \A i \in DOMAIN old : i + 1 \in DOMAIN stack[t] /\ old[i] = stack[t][i + 1]
      /\ \A f \in Calls(t) : f \in Call
  BY <1>1, CallsAre DEF Stacks
<1>4. /\ \A u \in Threads : u # t => stack'[u] = stack[u] /\ Calls(u)' = Calls(u)
      /\ Calls(t)' = Range(calls) \cup Waits(t)
      /\ \A i \in DOMAIN calls : i \in DOMAIN stack'[t] /\ stack'[t][i] = calls[i]
      /\ \A i \in DOMAIN stack'[t] :
           i \in DOMAIN calls \/ (i - n \in DOMAIN old /\ stack'[t][i] = old[i - n])
      /\ stack' \in Stacks
  BY <1>1 DEF Gone
<1>5. \A u \in Threads : \A i \in DOMAIN stack[u] : stack[u][i] \in Calls(u)
  BY DEF Calls, Range
<1>6. \A u \in Threads : \A f \in Calls(u) : Rests(new, f)
  BY DEF Linked, Rests, Agree, Forward
<1>7. \A u \in Threads : \A f \in Calls(u)' : Rests(new, f)
  <2>1. \A f \in Waits(t) : f \in Calls(t)
    BY <1>1 DEF Running
  <2>. QED BY <1>4, <1>6, <2>1 DEF Rests
<1>8. ASSUME NEW u \in Threads, u # t, NEW i \in DOMAIN stack'[u], i > 1
      PROVE  CalledBy(refused', new, stack'[u][i - 1], stack'[u][i])
  <2>1. stack'[u] = stack[u] /\ i \in DOMAIN stack[u] /\ DOMAIN stack[u] = 1..Len(stack[u])
    <3>1. stack[u] \in Seq(Call)
      BY <1>1 DEF Stacks
    <3>. QED BY <1>4, <1>8, <3>1
  <2>2. i - 1 \in DOMAIN stack[u]
    BY <1>8, <2>1
  <2>3. CalledBy(refused, hop, stack[u][i - 1], stack[u][i])
    BY <1>8, <2>1 DEF Linked
  <2>. QED BY <1>5, <2>1, <2>2, <2>3, CalledStays
<1>9. ASSUME NEW i \in DOMAIN stack'[t], i > 1
      PROVE  CalledBy(refused', new, stack'[t][i - 1], stack'[t][i])
  <2>0. i \in Nat
    <3>1. stack'[t] \in Seq(Call)
      BY <1>4 DEF Stacks
    <3>. QED BY <3>1
  <2>1. CASE i \in DOMAIN calls
    <3>1. i - 1 \in DOMAIN calls
      BY <1>2, <1>9, <2>1
    <3>. QED BY <1>4, <1>9, <2>1, <3>1
  <2>2. CASE i - n \in DOMAIN old /\ stack'[t][i] = old[i - n]
    <3>1. /\ (i - n) + 1 \in DOMAIN stack[t] /\ stack'[t][i] = stack[t][(i - n) + 1]
          /\ DOMAIN old = 1..Len(old) /\ i - n >= 1
      BY <1>2, <1>3, <2>0, <2>2
    <3>2. CalledBy(refused, hop, stack[t][i - n], stack[t][(i - n) + 1])
      <4>1. (i - n) + 1 > 1 /\ ((i - n) + 1) - 1 = i - n
        BY <1>2, <2>0, <3>1
      <4>. QED BY <3>1, <4>1 DEF Linked
    <3>3. CASE i - n > 1
      <4>1. i - 1 \notin DOMAIN calls /\ (i - 1) - n \in DOMAIN old
            /\ ((i - 1) - n) + 1 = i - n
        BY <1>2, <1>3, <2>0, <2>2, <3>1, <3>3
      <4>2. i - 1 \in DOMAIN stack'[t]
        <5>1. stack'[t] \in Seq(Call)
          BY <1>4 DEF Stacks
        <5>. QED BY <1>9, <2>0, <5>1
      <4>3. stack'[t][i - 1] = stack[t][i - n] /\ i - n \in DOMAIN stack[t]
        BY <1>3, <1>4, <4>1, <4>2
      <4>. QED BY <1>5, <3>1, <3>2, <4>3, CalledStays
    <3>4. CASE i - n = 1
      <4>1. n >= 1 /\ i - 1 = n /\ n \in DOMAIN calls /\ calls # <<>>
        BY <1>2, <1>9, <2>0, <3>4
      <4>2. stack'[t][i - 1] = calls[n]
        BY <1>4, <4>1
      <4>3. CalledBy(refused, hop, Here(t), stack[t][2]) /\ stack[t][2] \in Calls(t)
        BY <1>3, <1>5, <3>1, <3>2, <3>4
      <4>4. CalledBy(refused', new, calls[n], stack[t][2])
        <5>1. stack[t][2].fn = "sr_send_icmp_to_waiting" =>
                new[stack[t][2].req] = hop[stack[t][2].req]
          BY <4>3 DEF Agree, Forward
        <5>2. \A g : Leads(hop, Here(t), g) => Leads(new, calls[n], g)
          BY <4>1
        <5>3. refused \subseteq refused'
          OBVIOUS
        <5>. QED BY <4>3, <5>1, <5>2, <5>3 DEF CalledBy, Leads
      <4>. QED BY <3>1, <3>4, <4>2, <4>4
    <3>. QED BY <1>2, <2>0, <3>1, <3>3, <3>4
  <2>. QED BY <1>4, <1>9, <2>1, <2>2
<1>. QED BY <1>7, <1>8, <1>9 DEF Linked

\* The same, for one new call or none.
LEMMA OneCallLinks ==
    ASSUME SInv, NEW t \in Threads, stack[t] # <<>>, NEW hop, Linked(hop),
           NEW calls \in Seq(Call), Goto(t, calls),
           Knows(hop)', refused' = refused,
           \/ calls = <<>>
           \/ \E f \in Call : /\ calls = <<f>> /\ Rests(hop, f)
                              /\ \A g : Leads(hop, Here(t), g) => Leads(hop, f, g)
    PROVE  Linked(hop)'
<1>1. Agree(hop, hop)
  BY DEF Agree
<1>2. CASE calls = <<>>
  <2>1. Range(calls) = {} /\ DOMAIN calls = {}
    BY <1>2, RangeOf
  <2>. QED BY <1>1, <1>2, <2>1, GotoLinks
<1>3. ASSUME NEW f \in Call, calls = <<f>>, Rests(hop, f),
             \A g : Leads(hop, Here(t), g) => Leads(hop, f, g)
      PROVE  Linked(hop)'
  <2>1. /\ Range(calls) = {f} /\ DOMAIN calls = {1} /\ Len(calls) = 1
        /\ calls[Len(calls)] = f
    BY <1>3, RangeOf
  <2>2. \A i \in DOMAIN calls : i > 1 => CalledBy(refused', hop, calls[i - 1], calls[i])
    BY <2>1
  <2>. QED BY <1>1, <1>3, <2>1, <2>2, GotoLinks
<1>. QED BY <1>2, <1>3

\* The packets waiting for a request, and its address, are the same.
LEMMA KnowsStays ==
    ASSUME NEW hop, Knows(hop),
           \A r \in ReqIds : reqs'[r].live =>
              /\ reqs[r].live /\ reqs'[r].ip = reqs[r].ip
              /\ reqs'[r].packets = reqs[r].packets
    PROVE  Knows(hop)'
BY DEF Knows

\* Looking up the next hop of a packet and queueing the packet.
LEMMA LookupLinks ==
    ASSUME SInv, NEW hop, Linked(hop), NEW t \in Threads, sr_arpcache_lookup(t)
    PROVE  Linked(hop)'
<1>h. PICK h : h = Here(t)
  OBVIOUS
<1>g. PICK g : g = [fn |-> "sr_arpcache_queuereq", pkt |-> h.pkt]
  OBVIOUS
<1>1. /\ stack[t] # <<>> /\ h.fn = "sr_attempt_send" /\ reqs' = reqs /\ refused' = refused
      /\ Goto(t, <<>>) \/ Goto(t, <<g>>)
  BY <1>h, <1>g DEF sr_arpcache_lookup, At, Here, Return, memory
<1>2. h.pkt \in Routable
  BY <1>h, <1>1, SenderIs
<1>3. g \in Call /\ g.fn = "sr_arpcache_queuereq" /\ g.pkt = h.pkt
  BY <1>2, <1>g, CallMade
<1>4. Knows(hop)'
  BY <1>1, KnowsStays DEF Linked
<1>5. PICK calls \in Seq(Call) : Goto(t, calls) /\ (calls = <<>> \/ calls = <<g>>)
  BY <1>1, <1>3, RangeOf
<1>6. Rests(hop, g) /\ \A x : Leads(hop, h, x) => Leads(hop, g, x)
  BY <1>1, <1>3 DEF Rests, Leads, Forward
<1>. QED BY <1>h, <1>1, <1>3, <1>4, <1>5, <1>6, OneCallLinks

\* A packet has the next hop of the request it waits for. Memory that no call
\* points to may be a request for any next hop.
LEMMA QueueReqLinks ==
    ASSUME SInv, Reuse = FALSE, NEW hop \in HopOf, Linked(hop),
           NEW t \in Threads, sr_arpcache_queuereq(t)
    PROVE  \E new \in HopOf : Linked(new)'
<1>h. PICK h : h = Here(t)
  OBVIOUS
<1>q. PICK q : q = h.pkt
  OBVIOUS
<1>1. /\ stack[t] # <<>> /\ h.fn = "sr_arpcache_queuereq" /\ refused' = refused
      /\ reqs \in [ReqIds -> Queueing \cup {Freed}]
  BY <1>h DEF sr_arpcache_queuereq, At, Here, history, SInv, Typed
<1>2. PICK r \in ReqIds :
        /\ \/ /\ r \in Asking(NextHop(q))
              /\ reqs' = [reqs EXCEPT ![r].packets = AddPacket(@, q)]
           \/ /\ r \in Allocatable
              /\ reqs' = [reqs EXCEPT ![r] =
                   [live |-> TRUE, ip |-> NextHop(q), sent_ago |-> 2,
                    times_sent |-> 0, packets |-> AddPacket(<<>>, q)]]
        /\ Goto(t, <<[fn |-> "sr_handle_arpreq", req |-> r]>>)
  BY <1>h, <1>q DEF sr_arpcache_queuereq
<1>3. q \in Routable /\ NextHop(q) \in Gateways
  BY <1>h, <1>q, <1>1, SenderIs, HostUnreachableIs
<1>g. PICK g : g = [fn |-> "sr_handle_arpreq", req |-> r]
  OBVIOUS
<1>4. /\ g \in Call /\ g.fn = "sr_handle_arpreq" /\ g.req = r
      /\ <<g>> \in Seq(Call) /\ Goto(t, <<g>>) /\ Range(<<g>>) = {g}
      /\ DOMAIN <<g>> = {1} /\ <<g>>[Len(<<g>>)] = g
  BY <1>2, <1>g, CallMade, RangeOf
<1>5. ASSUME NEW old \in Seq(Routable), NEW p \in Range(AddPacket(old, q))
      PROVE  p = q \/ p \in Range(old)
  <2>1. <<q>> \in Seq(Routable) /\ DOMAIN <<q>> = {1} /\ <<q>>[1] = q
    BY <1>3
  <2>2. PICK i \in DOMAIN (<<q>> \o old) : p = (<<q>> \o old)[i]
    BY <1>5 DEF AddPacket, Range
  <2>3. CASE i \in DOMAIN <<q>>
    BY <2>1, <2>2, <2>3, ConcatIs
  <2>4. CASE i - Len(<<q>>) \in DOMAIN old /\ i = Len(<<q>>) + (i - Len(<<q>>))
    <3>1. p = old[i - Len(<<q>>)]
      BY <2>1, <2>2, <2>4, ConcatIs
    <3>. QED BY <2>4, <3>1 DEF Range
  <2>. QED BY <2>1, <2>2, <2>3, <2>4, ConcatIs
<1>6. ASSUME NEW new \in HopOf, new[r] = NextHop(q), Agree(hop, new), Knows(new)'
      PROVE  Linked(new)'
  <2>1. Rests(new, g) /\ \A x : Leads(hop, h, x) => Leads(new, g, x)
    BY <1>q, <1>1, <1>4, <1>6 DEF Rests, Leads, Forward
  <2>2. \A i \in DOMAIN <<g>> : i > 1 => CalledBy(refused', new, <<g>>[i - 1], <<g>>[i])
    BY <1>4
  <2>. QED BY <1>h, <1>1, <1>4, <1>6, <2>1, <2>2, GotoLinks
<1>7. CASE /\ r \in Asking(NextHop(q))
           /\ reqs' = [reqs EXCEPT ![r].packets = AddPacket(@, q)]
  <2>1. reqs[r].live /\ reqs[r].ip = NextHop(q)
    BY <1>7, InQueue DEF Asking, SInv, QInv, QueueSound
  <2>2. reqs[r] \in Queueing /\ hop[r] = NextHop(q)
    BY <1>1, <2>1 DEF Freed, Linked, Knows
  <2>3. \A s : /\ [reqs[r] EXCEPT !.packets = s].ip = reqs[r].ip
               /\ [reqs[r] EXCEPT !.packets = s].packets = s
    BY <2>2 DEF Queueing
  <2>4. /\ reqs'[r].ip = reqs[r].ip /\ reqs'[r].packets = AddPacket(reqs[r].packets, q)
        /\ \A x \in ReqIds : x # r => reqs'[x] = reqs[x]
    BY <1>1, <1>7, <2>3
  <2>5. \A p \in Range(reqs'[r].packets) : p = q \/ p \in Range(reqs[r].packets)
    <3>1. reqs[r].packets \in Seq(Routable)
      BY <2>2 DEF Queueing
    <3>. QED BY <1>5, <2>4, <3>1
  <2>6. Knows(hop)'
    BY <2>1, <2>2, <2>4, <2>5 DEF Linked, Knows
  <2>. QED BY <1>6, <2>2, <2>6 DEF Agree
<1>8. CASE /\ r \in Allocatable
           /\ reqs' = [reqs EXCEPT ![r] =
                   [live |-> TRUE, ip |-> NextHop(q), sent_ago |-> 2,
                    times_sent |-> 0, packets |-> AddPacket(<<>>, q)]]
  <2> DEFINE new == [hop EXCEPT ![r] = NextHop(q)]
  <2>1. new \in HopOf /\ new[r] = NextHop(q) /\ \A x \in ReqIds : x # r => new[x] = hop[x]
    BY <1>3 DEF HopOf
  <2>. HIDE DEF new
  <2>2. ~Held(r)
    BY <1>8, AllocatedIsFresh
  <2>3. ASSUME NEW u \in Threads, NEW f \in Calls(u), f.fn \in Forward
        PROVE  f.req \in ReqIds /\ f.req # r
    <3>1. f \in Call
      BY DEF SInv, Typed, Stacks, Calls, Range
    <3>2. f \in Handles \cup Asks \cup Counts \cup GiveUps /\ f.req \in ReqIds
      BY <2>3, <3>1, CallIs DEF Forward
    <3>3. "req" \in DOMAIN f
      BY <3>2 DEF Handles, Asks, Counts, GiveUps
    <3>. QED BY <2>2, <3>2, <3>3 DEF Held, Calls
  <2>4. Agree(hop, new)
    BY <2>1, <2>3 DEF Agree
  <2>5. /\ reqs'[r].ip = NextHop(q) /\ reqs'[r].packets = AddPacket(<<>>, q)
        /\ \A x \in ReqIds : x # r => reqs'[x] = reqs[x]
    BY <1>1, <1>8
  <2>6. \A p \in Range(reqs'[r].packets) : p = q
    <3>1. <<>> \in Seq(Routable) /\ Range(<<>>) = {}
      BY RangeOf
    <3>. QED BY <1>5, <2>5, <3>1
  <2>7. Knows(new)'
    BY <2>1, <2>5, <2>6 DEF Linked, Knows
  <2>. QED BY <1>6, <2>1, <2>4, <2>7
<1>. QED BY <1>2, <1>7, <1>8

\* Handling a request calls something for the same request, and the packets to
\* refuse are the request's.
LEMMA HandleLinks ==
    ASSUME SInv, NEW hop, Linked(hop), NEW t \in Threads, sr_handle_arpreq(t)
    PROVE  Linked(hop)'
<1>h. PICK h : h = Here(t)
  OBVIOUS
<1>r. PICK r : r = h.req
  OBVIOUS
<1>1. Uses(t, "sr_handle_arpreq") /\ reqs' = reqs /\ refused' = refused
  BY DEF sr_handle_arpreq, memory, history
<1>2. /\ stack[t] # <<>> /\ h.fn = "sr_handle_arpreq" /\ r \in ReqIds
      /\ reqs[r] \in Queueing
  BY <1>h, <1>r, <1>1, UsedIs
<1>3. reqs[r].live /\ reqs[r].packets \in Seq(Routable)
  BY <1>2 DEF Queueing
<1>a. PICK a : a = [fn |-> "ask", req |-> r, now |-> 0]
  OBVIOUS
<1>g. PICK g : g = [fn |-> "sr_send_icmp_to_waiting", req |-> r, rest |-> reqs[r].packets]
  OBVIOUS
<1>4. Goto(t, <<>>) \/ Goto(t, <<g>>) \/ Goto(t, <<a>>)
  BY <1>h, <1>r, <1>a, <1>g DEF sr_handle_arpreq, Return
<1>5. /\ a \in Call /\ a.fn = "ask" /\ a.req = r
      /\ g \in Call /\ g.fn = "sr_send_icmp_to_waiting" /\ g.req = r
      /\ g.rest = reqs[r].packets
  BY <1>2, <1>3, <1>a, <1>g, CallMade
<1>6. Knows(hop)'
  BY <1>1, KnowsStays DEF Linked
<1>7. PICK calls \in Seq(Call) :
        Goto(t, calls) /\ (calls = <<>> \/ \E f \in {a, g} : calls = <<f>>)
  BY <1>4, <1>5, RangeOf
<1>8. ASSUME NEW f \in {a, g}
      PROVE  /\ f \in Call /\ Rests(hop, f)
             /\ \A x : Leads(hop, h, x) => Leads(hop, f, x)
  <2>1. Rests(hop, f)
    BY <1>3, <1>5, <1>2 DEF Rests, Linked, Knows
  <2>. QED BY <1>r, <1>2, <1>5, <2>1 DEF Leads, Forward
<1>. QED BY <1>h, <1>1, <1>2, <1>6, <1>7, <1>8, OneCallLinks

\* Asking for a request and counting it are for the same request too.
LEMMA CountLinks ==
    ASSUME SInv, NEW hop, Linked(hop), NEW t \in Threads,
           sr_send_arp_req(t) \/ CountArp(t)
    PROVE  Linked(hop)'
<1>h. PICK h : h = Here(t)
  OBVIOUS
<1>r. PICK r : r = h.req
  OBVIOUS
<1>1. /\ Uses(t, "ask") \/ Uses(t, "count")
      /\ refused' = refused
      /\ \/ reqs' = [reqs EXCEPT ![r].sent_ago = h.now]
         \/ reqs' = [reqs EXCEPT ![r].times_sent = h.times_sent + 1]
  BY <1>h, <1>r DEF sr_send_arp_req, CountArp, history
<1>2. /\ stack[t] # <<>> /\ h.fn \in {"ask", "count"} /\ r \in ReqIds
      /\ reqs[r] \in Queueing
  BY <1>h, <1>r, <1>1, UsedIs
<1>3. reqs[r].times_sent \in Nat /\ reqs \in [ReqIds -> Queueing \cup {Freed}]
  BY <1>2 DEF Queueing, SInv, Typed
<1>4. Knows(hop)'
  <2>1. \A n : /\ [reqs[r] EXCEPT !.sent_ago = n].live = reqs[r].live
               /\ [reqs[r] EXCEPT !.sent_ago = n].ip = reqs[r].ip
               /\ [reqs[r] EXCEPT !.sent_ago = n].packets = reqs[r].packets
               /\ [reqs[r] EXCEPT !.times_sent = n].live = reqs[r].live
               /\ [reqs[r] EXCEPT !.times_sent = n].ip = reqs[r].ip
               /\ [reqs[r] EXCEPT !.times_sent = n].packets = reqs[r].packets
    BY <1>2 DEF Queueing
  <2>2. \A x \in ReqIds : /\ reqs'[x].live = reqs[x].live /\ reqs'[x].ip = reqs[x].ip
                          /\ reqs'[x].packets = reqs[x].packets
    <3>1. CASE reqs' = [reqs EXCEPT ![r].sent_ago = h.now]
      BY <1>2, <1>3, <2>1, <3>1
    <3>2. CASE reqs' = [reqs EXCEPT ![r].times_sent = h.times_sent + 1]
      BY <1>2, <1>3, <2>1, <3>2
    <3>. QED BY <1>1, <3>1, <3>2
  <2>. QED BY <2>2, KnowsStays DEF Linked
<1>g. PICK g : g = [fn |-> "count", req |-> r, times_sent |-> reqs[r].times_sent]
  OBVIOUS
<1>5. Goto(t, <<>>) \/ Goto(t, <<g>>)
  BY <1>h, <1>r, <1>g DEF sr_send_arp_req, CountArp, Return
<1>6. g \in Call /\ g.fn = "count" /\ g.req = r
  BY <1>2, <1>3, <1>g, CallMade
<1>7. PICK calls \in Seq(Call) : Goto(t, calls) /\ (calls = <<>> \/ calls = <<g>>)
  BY <1>5, <1>6, RangeOf
<1>8. Rests(hop, g) /\ \A x : Leads(hop, h, x) => Leads(hop, g, x)
  BY <1>r, <1>2, <1>6 DEF Rests, Leads, Forward
<1>. QED BY <1>h, <1>1, <1>2, <1>4, <1>6, <1>7, <1>8, OneCallLinks

\* Nothing leads to sr_recv_arp or the sweep, which are called first.
LEMMA TwoCallsLinks ==
    ASSUME SInv, NEW t \in Threads, stack[t] # <<>>, NEW hop, Linked(hop),
           NEW f \in Call, NEW g \in Call, Goto(t, <<f, g>>),
           reqs' = reqs, refused' = refused,
           g.fn \in {"sr_recv_arp", "sweep_next"},
           f.fn # "sr_send_icmp_to_waiting"
    PROVE  Linked(hop)'
<1>1. /\ <<f, g>> \in Seq(Call) /\ Range(<<f, g>>) = {f, g} /\ DOMAIN <<f, g>> = {1, 2}
      /\ Len(<<f, g>>) = 2 /\ <<f, g>>[1] = f /\ <<f, g>>[2] = g
  BY RangeOf
<1>2. Agree(hop, hop) /\ Knows(hop)'
  BY KnowsStays DEF Agree, Linked
<1>3. Rests(hop, f) /\ Rests(hop, g) /\ \A x : Leads(hop, g, x)
  BY DEF Rests, Leads, Forward
<1>4. CalledBy(refused', hop, f, g)
  BY DEF CalledBy
<1>5. \A i \in DOMAIN <<f, g>> :
        i > 1 => CalledBy(refused', hop, <<f, g>>[i - 1], <<f, g>>[i])
  BY <1>1, <1>4
<1>6. \A x \in Range(<<f, g>>) : Rests(hop, x)
  BY <1>1, <1>3
<1>7. \A x : Leads(hop, Here(t), x) => Leads(hop, <<f, g>>[Len(<<f, g>>)], x)
  BY <1>1, <1>3
<1>8. refused \subseteq refused'
  OBVIOUS
<1>. QED BY <1>1, <1>2, <1>5, <1>6, <1>7, <1>8, GotoLinks

\* The answer is passed on to the next packet that waited for it.
LEMMA RecvArpLinks ==
    ASSUME SInv, NEW hop, Linked(hop), NEW t \in Threads, sr_recv_arp(t)
    PROVE  Linked(hop)'
<1>h. PICK h : h = Here(t)
  OBVIOUS
<1>a. PICK a : a = Attempt(Head(h.rest))
  OBVIOUS
<1>g. PICK g : g = [h EXCEPT !.rest = Tail(h.rest)]
  OBVIOUS
<1>1. /\ Uses(t, "sr_recv_arp") /\ h.rest # <<>> /\ Goto(t, <<a, g>>)
      /\ reqs' = reqs /\ refused' = refused
  BY <1>h, <1>a, <1>g DEF sr_recv_arp, memory, history, Attempt
<1>2. stack[t] # <<>> /\ h.fn = "sr_recv_arp" /\ h \in Call
  BY <1>h, <1>1, UsedIs
<1>3. h \in Answers /\ h.rest \in Seq(Routable)
  BY <1>2, CallIs
<1>4. Head(h.rest) \in Routable /\ Tail(h.rest) \in Seq(Routable)
  BY <1>1, <1>3, TailRange
<1>5. a \in Call /\ a.fn = "sr_attempt_send"
  BY <1>4, <1>a, CallMade DEF Attempt
<1>6. g \in Call /\ g.fn = "sr_recv_arp"
  <2>1. g \in Answers
    BY <1>g, <1>3, <1>4 DEF Answers
  <2>. QED BY <2>1 DEF Call, Answers
<1>. QED BY <1>1, <1>2, <1>5, <1>6, TwoCallsLinks

\* The call that refuses a packet of its request waits for the message it sends.
LEMMA SendIcmpLinks ==
    ASSUME SInv, NEW hop, Linked(hop), NEW t \in Threads, sr_send_icmp_to_waiting(t)
    PROVE  Linked(hop)'
<1>h. PICK h : h = Here(t)
  OBVIOUS
<1>q. PICK q : q = Head(h.rest)
  OBVIOUS
<1>g. PICK g : g = [h EXCEPT !.rest = Tail(h.rest)]
  OBVIOUS
<1>m. PICK m : m = HostUnreachable(q)
  OBVIOUS
<1>a. PICK a : a = Attempt(m)
  OBVIOUS
<1>1. Uses(t, "sr_send_icmp_to_waiting")
  BY DEF sr_send_icmp_to_waiting
<1>2. /\ stack[t] # <<>> /\ h.fn = "sr_send_icmp_to_waiting" /\ h \in Call
      /\ h \in Calls(t)
  BY <1>h, <1>1, UsedIs DEF Running
<1>3. /\ h.rest # <<>> /\ refused' = refused \cup {q} /\ reqs' = reqs
      /\ Goto(t, Attempts({m}) \o <<g>>)
  BY <1>h, <1>q, <1>g, <1>m DEF sr_send_icmp_to_waiting, memory
<1>4. h \in GiveUps /\ h.rest \in Seq(Routable)
  BY <1>2, CallIs
<1>5. /\ q \in Routable /\ q \in Range(h.rest) /\ Tail(h.rest) \in Seq(Routable)
      /\ \A p : p \in Range(h.rest) <=> p = q \/ p \in Range(Tail(h.rest))
  BY <1>q, <1>3, <1>4, TailRange
<1>6. /\ g \in Call /\ g.fn = "sr_send_icmp_to_waiting" /\ g.req = h.req
      /\ g.rest = Tail(h.rest)
  <2>1. g \in GiveUps
    BY <1>g, <1>4, <1>5 DEF GiveUps
  <2>. QED BY <1>g, <1>2, <1>4, <2>1 DEF Call, GiveUps
<1>7. NextHop(q) = hop[h.req] /\ Rests(hop, g)
  <2>1. Rests(hop, h)
    BY <1>2 DEF Linked
  <2>. QED BY <1>2, <1>5, <1>6, <2>1 DEF Rests
<1>8. \A x : Leads(hop, h, x) => Leads(hop, g, x)
  BY <1>2, <1>6 DEF Leads, Forward
<1>9. Agree(hop, hop) /\ Knows(hop)' /\ refused \subseteq refused'
  BY <1>3, KnowsStays DEF Agree, Linked
<1>10. \/ Goto(t, <<g>>)
       \/ HasRoute(m.dst) /\ Goto(t, <<a, g>>)
  <2>1. Attempts({m}) = <<>> \/ (HasRoute(m.dst) /\ Attempts({m}) = <<a>>)
    <3>1. {m} = {} \/ \E p : {m} = {p}
      OBVIOUS
    <3>. QED BY <1>a, <3>1, AttemptsIs
  <2>2. <<>> \o <<g>> = <<g>>
    OBVIOUS
  <2>. QED BY <1>3, <2>1, <2>2, ConcatTwo
<1>11. CASE Goto(t, <<g>>)
  <2>1. /\ <<g>> \in Seq(Call) /\ Range(<<g>>) = {g} /\ DOMAIN <<g>> = {1}
        /\ <<g>>[Len(<<g>>)] = g
    BY <1>6, RangeOf
  <2>2. \A i \in DOMAIN <<g>> : i > 1 => CalledBy(refused', hop, <<g>>[i - 1], <<g>>[i])
    BY <2>1
  <2>. QED BY <1>h, <1>2, <1>7, <1>8, <1>9, <1>11, <2>1, <2>2, GotoLinks
<1>12. CASE HasRoute(m.dst) /\ Goto(t, <<a, g>>)
  <2>1. m \in Routable /\ m.dst = q.src
    BY <1>m, <1>5, <1>12, HostUnreachableIs DEF Routable
  <2>2. a \in Call /\ a.fn = "sr_attempt_send" /\ a.pkt = m
    BY <1>a, <2>1, CallMade DEF Attempt
  <2>3. /\ <<a, g>> \in Seq(Call) /\ Range(<<a, g>>) = {a, g} /\ DOMAIN <<a, g>> = {1, 2}
        /\ Len(<<a, g>>) = 2 /\ <<a, g>>[1] = a /\ <<a, g>>[2] = g
    BY <1>6, <2>2, RangeOf
  <2>4. Rests(hop, a)
    BY <2>2 DEF Rests
  <2>5. CalledBy(refused', hop, a, g)
    <3>1. q \in refused' /\ HasRoute(q.src) /\ NextHop(q) = hop[g.req]
      BY <1>3, <1>6, <1>7, <1>12, <2>1
    <3>2. Leads(hop, a, NextHop(HostUnreachable(q)))
      BY <1>m, <2>2 DEF Leads, Forward
    <3>. QED BY <3>1, <3>2 DEF CalledBy
  <2>6. \A i \in DOMAIN <<a, g>> :
          i > 1 => CalledBy(refused', hop, <<a, g>>[i - 1], <<a, g>>[i])
    BY <2>3, <2>5
  <2>. QED BY <1>h, <1>2, <1>7, <1>8, <1>9, <1>12, <2>3, <2>4, <2>6, GotoLinks
<1>. QED BY <1>10, <1>11, <1>12

\* A request is freed; who waits for another is as before, or is the sweep.
LEMMA DestroyLinks ==
    ASSUME SInv, NEW hop, Linked(hop), NEW t \in Threads, sr_arpreq_destroy(t)
    PROVE  Linked(hop)'
<1>r. PICK r : r = Here(t).req
  OBVIOUS
<1>n. PICK n : n = NextOf(r)
  OBVIOUS
<1> DEFINE after(f) == IF f.fn = "sweep_next" /\ f.req = r
                       THEN [f EXCEPT !.next = n] ELSE f
<1>1. stack[t] # <<>> /\ stack \in [Threads -> Seq(Call)] /\ refused' = refused
  BY DEF sr_arpreq_destroy, Uses, At, history, SInv, Typed, Stacks
<1>2. stack' = [stack EXCEPT ![t] =
                  [i \in 1..(Len(stack[t]) - 1) |-> after(stack[t][i + 1])]]
  BY <1>r, <1>n DEF sr_arpreq_destroy
<1>3. ASSUME NEW f \in Call
      PROVE  after(f).fn = f.fn /\ (f.fn # "sweep_next" => after(f) = f)
  <2>1. CASE f.fn = "sweep_next"
    <3>1. [f EXCEPT !.next = n].fn = f.fn
      BY <2>1, CallIs DEF SweepNexts
    <3>. QED BY <2>1, <3>1
  <2>2. CASE f.fn # "sweep_next"
    BY <2>2
  <2>. QED BY <2>1, <2>2
<1>. HIDE DEF after
<1>4. /\ \A u \in Threads : u # t => stack'[u] = stack[u] /\ Calls(u)' = Calls(u)
      /\ stack'[t] = [i \in 1..(Len(stack[t]) - 1) |-> after(stack[t][i + 1])]
  BY <1>1, <1>2 DEF Calls
<1>5. /\ stack[t] \in Seq(Call) /\ Len(stack[t]) \in Nat
      /\ DOMAIN stack[t] = 1..Len(stack[t])
  BY <1>1
<1>6. ASSUME NEW i \in DOMAIN stack'[t]
      PROVE  /\ i + 1 \in DOMAIN stack[t] /\ i \in DOMAIN stack[t]
             /\ stack[t][i + 1] \in Call /\ stack[t][i + 1] \in Calls(t)
             /\ stack'[t][i] = after(stack[t][i + 1]) /\ i \in Nat /\ i >= 1
  <2>1. i \in 1..(Len(stack[t]) - 1)
    BY <1>4
  <2>2. i + 1 \in DOMAIN stack[t] /\ i \in DOMAIN stack[t] /\ i \in Nat /\ i >= 1
    BY <1>5, <2>1
  <2>. QED BY <1>4, <1>5, <2>1, <2>2 DEF Calls, Range
<1>7. Knows(hop)'
  <2>1. reqs \in [ReqIds -> Queueing \cup {Freed}] /\ reqs' = [reqs EXCEPT ![r] = Freed]
    BY <1>r DEF sr_arpreq_destroy, SInv, Typed
  <2>2. \A x \in ReqIds : reqs'[x].live => reqs'[x] = reqs[x]
    BY <2>1 DEF Freed
  <2>. QED BY <2>2, KnowsStays DEF Linked
<1>8. ASSUME NEW u \in Threads, NEW f \in Calls(u)' PROVE Rests(hop, f)
  <2>1. CASE u # t
    BY <1>4, <1>8, <2>1 DEF Linked
  <2>2. CASE u = t
    <3>1. PICK i \in DOMAIN stack'[t] : f = stack'[t][i]
      BY <1>8, <2>2 DEF Calls, Range
    <3>2. Rests(hop, stack[t][i + 1])
      BY <1>6 DEF Linked
    <3>. QED BY <1>3, <1>6, <3>1, <3>2 DEF Rests
  <2>. QED BY <2>1, <2>2
<1>9. ASSUME NEW u \in Threads, NEW i \in DOMAIN stack'[u], i > 1
      PROVE  CalledBy(refused', hop, stack'[u][i - 1], stack'[u][i])
  <2>1. CASE u # t
    BY <1>1, <1>4, <1>9, <2>1 DEF Linked
  <2>2. CASE u = t
    <3>1. i - 1 \in DOMAIN stack'[t]
      BY <1>4, <1>5, <1>9, <2>2
    <3>2. (i - 1) + 1 = i /\ i + 1 > 1 /\ (i + 1) - 1 = i
      BY <1>6, <1>9, <2>2
    <3>3. /\ stack'[t][i] = after(stack[t][i + 1]) /\ stack[t][i + 1] \in Call
          /\ stack'[t][i - 1] = after(stack[t][i]) /\ stack[t][i] \in Call
      BY <1>6, <1>9, <2>2, <3>1, <3>2
    <3>4. CalledBy(refused, hop, stack[t][i], stack[t][i + 1])
      BY <1>6, <1>9, <2>2, <3>2 DEF Linked
    <3>5. /\ after(stack[t][i + 1]).fn = "sr_send_icmp_to_waiting" =>
               after(stack[t][i + 1]) = stack[t][i + 1]
          /\ \A x : Leads(hop, stack[t][i], x) => Leads(hop, after(stack[t][i]), x)
      <4>1. after(stack[t][i + 1]).fn = "sr_send_icmp_to_waiting" =>
              after(stack[t][i + 1]) = stack[t][i + 1]
        BY <1>3, <3>3
      <4>2. CASE stack[t][i].fn = "sweep_next"
        <5>1. after(stack[t][i]).fn = "sweep_next"
          BY <1>3, <3>3, <4>2
        <5>. QED BY <4>1, <5>1 DEF Leads, Forward
      <4>3. CASE stack[t][i].fn # "sweep_next"
        <5>1. after(stack[t][i]) = stack[t][i]
          BY <1>3, <3>3, <4>3
        <5>. QED BY <4>1, <5>1
      <4>. QED BY <4>2, <4>3
    <3>. QED BY <1>1, <2>2, <3>3, <3>4, <3>5 DEF CalledBy
  <2>. QED BY <2>1, <2>2
<1>. QED BY <1>7, <1>8, <1>9 DEF Linked

\* A step that moves nothing.
LEMMA SameLinks ==
    ASSUME NEW hop, Linked(hop), UNCHANGED <<reqs, stack, refused>>
    PROVE  Linked(hop)'
BY DEF Linked, Knows, Calls

\* A thread whose calls are one or none is linked to nothing.
LEMMA AloneLinks ==
    ASSUME NEW hop, Linked(hop), NEW t \in Threads, NEW calls,
           stack \in Stacks, stack' = [stack EXCEPT ![t] = calls],
           \/ calls = <<>>
           \/ \E f : calls = <<f>> /\ Rests(hop, f),
           reqs' = reqs, refused' = refused
    PROVE  Linked(hop)'
<1>1. /\ stack'[t] = calls
      /\ \A u \in Threads : u # t => stack'[u] = stack[u] /\ Calls(u)' = Calls(u)
  BY DEF Stacks, Calls
<1>2. /\ \A f \in Range(calls) : Rests(hop, f)
      /\ \A i \in DOMAIN calls : i = 1
  <2>1. CASE calls = <<>>
    BY <2>1, RangeOf
  <2>2. ASSUME NEW f, calls = <<f>>, Rests(hop, f)
        PROVE  /\ \A x \in Range(calls) : Rests(hop, x)
               /\ \A i \in DOMAIN calls : i = 1
    BY <2>2, RangeOf
  <2>. QED BY <2>1, <2>2
<1>3. \A u \in Threads : \A f \in Calls(u)' : Rests(hop, f)
  BY <1>1, <1>2 DEF Linked, Calls
<1>4. ASSUME NEW u \in Threads, NEW i \in DOMAIN stack'[u], i > 1
      PROVE  CalledBy(refused', hop, stack'[u][i - 1], stack'[u][i])
  <2>1. u # t
    <3>1. ~(1 > 1)
      OBVIOUS
    <3>. QED BY <1>1, <1>2, <1>4, <3>1
  <2>. QED BY <1>1, <1>4, <2>1 DEF Linked
<1>5. Knows(hop)'
  BY KnowsStays DEF Linked
<1>. QED BY <1>3, <1>4, <1>5 DEF Linked

\* Time only makes the requests older.
LEMMA TickLinks ==
    ASSUME SInv, NEW hop, Linked(hop), Tick
    PROVE  Linked(hop)'
<1> DEFINE after(f) == IF f.fn = "ask" THEN [f EXCEPT !.now = Older(@, 2)] ELSE f
<1>1. /\ reqs' = [r \in ReqIds |-> [reqs[r] EXCEPT !.sent_ago = Older(@, 2)]]
      /\ stack' = [t \in Threads |-> [i \in DOMAIN stack[t] |-> after(stack[t][i])]]
      /\ refused' = refused
  BY DEF Tick, history
<1>2. stack \in [Threads -> Seq(Call)] /\ reqs \in [ReqIds -> Queueing \cup {Freed}]
  BY DEF SInv, Typed, Stacks
<1>3. ASSUME NEW f \in Call
      PROVE  /\ after(f).fn = f.fn
             /\ f.fn = "ask" => after(f).req = f.req
             /\ f.fn # "ask" => after(f) = f
  <2>1. CASE f.fn = "ask"
    <3>1. f \in Asks
      BY <2>1, CallIs
    <3>2. \A n : [f EXCEPT !.now = n].fn = f.fn /\ [f EXCEPT !.now = n].req = f.req
      BY <3>1 DEF Asks
    <3>. QED BY <2>1, <3>2
  <2>2. CASE f.fn # "ask"
    BY <2>2
  <2>. QED BY <2>1, <2>2
<1>. HIDE DEF after
<1>4. ASSUME NEW t \in Threads, NEW i \in DOMAIN stack'[t]
      PROVE  /\ i \in DOMAIN stack[t] /\ stack'[t][i] = after(stack[t][i])
             /\ stack[t][i] \in Call /\ stack[t][i] \in Calls(t)
  BY <1>1, <1>2, <1>4 DEF Calls, Range
<1>5. Knows(hop)'
  <2>1. ASSUME NEW r \in ReqIds
        PROVE  /\ reqs'[r].live = reqs[r].live /\ reqs'[r].ip = reqs[r].ip
               /\ reqs'[r].packets = reqs[r].packets
    <3>1. reqs[r] \in Queueing \cup {Freed}
      BY <1>2
    <3>2. \A n : /\ [reqs[r] EXCEPT !.sent_ago = n].live = reqs[r].live
                 /\ [reqs[r] EXCEPT !.sent_ago = n].ip = reqs[r].ip
                 /\ [reqs[r] EXCEPT !.sent_ago = n].packets = reqs[r].packets
      BY <3>1 DEF Queueing, Freed
    <3>. QED BY <1>1, <3>2
  <2>. QED BY <2>1, KnowsStays DEF Linked
<1>6. ASSUME NEW t \in Threads, NEW f \in Calls(t)' PROVE Rests(hop, f)
  <2>1. PICK i \in DOMAIN stack'[t] : f = stack'[t][i]
    BY <1>6 DEF Calls, Range
  <2>2. Rests(hop, stack[t][i])
    BY <1>4 DEF Linked
  <2>. QED BY <1>3, <1>4, <2>1, <2>2 DEF Rests
<1>7. ASSUME NEW t \in Threads, NEW i \in DOMAIN stack'[t], i > 1
      PROVE  CalledBy(refused', hop, stack'[t][i - 1], stack'[t][i])
  <2>1. i - 1 \in DOMAIN stack'[t]
    <3>1. DOMAIN stack'[t] = DOMAIN stack[t] /\ stack[t] \in Seq(Call)
      BY <1>1, <1>2
    <3>2. DOMAIN stack[t] = 1..Len(stack[t]) /\ Len(stack[t]) \in Nat
      BY <3>1
    <3>. QED BY <1>7, <3>1, <3>2
  <2>2. CalledBy(refused, hop, stack[t][i - 1], stack[t][i])
    BY <1>4, <1>7 DEF Linked
  <2>3. /\ stack'[t][i] = after(stack[t][i]) /\ stack[t][i] \in Call
        /\ stack'[t][i - 1] = after(stack[t][i - 1]) /\ stack[t][i - 1] \in Call
    BY <1>4, <1>7, <2>1
  <2>4. after(stack[t][i]).fn = "sr_send_icmp_to_waiting" =>
          after(stack[t][i]) = stack[t][i]
    BY <1>3, <2>3
  <2>5. \A x : Leads(hop, stack[t][i - 1], x) => Leads(hop, after(stack[t][i - 1]), x)
    BY <1>3, <2>3 DEF Leads, Forward
  <2>. QED BY <1>1, <2>2, <2>3, <2>4, <2>5 DEF CalledBy
<1>. QED BY <1>5, <1>6, <1>7 DEF Linked

\* The steps of a thread.
LEMMA StepLinks ==
    ASSUME SInv, Reuse = FALSE, NEW hop \in HopOf, Linked(hop), NEW t \in Threads, Step(t)
    PROVE  \E new \in HopOf : Linked(new)'
<1>1. CASE StackOverflow(t)
  BY <1>1, SameLinks DEF StackOverflow, Crash, memory, history
<1>2. CASE UseFreed(t)
  <2>1. CASE Crash
    BY <2>1, SameLinks DEF Crash, memory, history
  <2>2. CASE ~Crash
    <3>1. /\ reqs' = reqs /\ refused' = refused /\ stack[t] # <<>>
          /\ Goto(t, <<>>) /\ <<>> \in Seq(Call)
      BY <1>2, <2>2, RangeOf DEF UseFreed, At, Return, memory, history
    <3>2. Knows(hop)'
      BY <3>1, KnowsStays DEF Linked
    <3>. QED BY <3>1, <3>2, OneCallLinks
  <2>. QED BY <2>1, <2>2
<1>. QED BY <1>1, <1>2, LookupLinks, QueueReqLinks, HandleLinks, CountLinks,
            SendIcmpLinks, DestroyLinks, RecvArpLinks DEF Step

\* All steps.
LEMMA NextLinks ==
    ASSUME Reuse = FALSE, SInv, LinkedOK, [Next]_vars
    PROVE  LinkedOK'
<1>1. PICK hop \in HopOf : Linked(hop)
  BY DEF LinkedOK
<1>2. stack \in Stacks
  BY DEF SInv, Typed
<1>3. CASE UNCHANGED <<reqs, stack, refused>>
  BY <1>1, <1>3, SameLinks DEF LinkedOK
<1>4. CASE \E t \in Threads : Step(t)
  BY <1>1, <1>4, StepLinks DEF LinkedOK
<1>5. CASE sr_arpcache_timeout
  <2>g. PICK g : g = [fn |-> "sr_arpcache_sweepreqs",
                      req |-> IF queue = <<>> THEN Null ELSE Head(queue)]
    OBVIOUS
  <2>1. /\ reqs' = reqs /\ refused' = refused /\ stack' = [stack EXCEPT ![Sweeper] = <<g>>]
        /\ g.fn = "sr_arpcache_sweepreqs"
    BY <1>5, <2>g DEF sr_arpcache_timeout, history
  <2>2. Rests(hop, g)
    BY <2>1 DEF Rests
  <2>. QED BY <1>1, <1>2, <2>1, <2>2, MainSweeper, AloneLinks DEF LinkedOK
<1>6. CASE sr_arpcache_sweepreqs
  <2>r. PICK r : r = Here(Sweeper).req
    OBVIOUS
  <2>f. PICK f : f = [fn |-> "sr_handle_arpreq", req |-> r]
    OBVIOUS
  <2>g. PICK g : g = [fn |-> "sweep_next", req |-> r, next |-> Null]
    OBVIOUS
  <2>1. /\ reqs' = reqs /\ refused' = refused /\ stack[Sweeper] # <<>>
        /\ Here(Sweeper).fn = "sr_arpcache_sweepreqs"
        /\ Goto(Sweeper, <<>>) \/ (r # Null /\ Goto(Sweeper, <<f, g>>))
    BY <1>6, <2>r, <2>f, <2>g
    DEF sr_arpcache_sweepreqs, At, Here, Return, memory, history
  <2>2. CASE Goto(Sweeper, <<>>)
    <3>1. Knows(hop)' /\ <<>> \in Seq(Call)
      BY <1>1, <2>1, KnowsStays, RangeOf DEF Linked
    <3>. QED BY <1>1, <2>1, <2>2, <3>1, MainSweeper, OneCallLinks DEF LinkedOK
  <2>3. CASE r # Null /\ Goto(Sweeper, <<f, g>>)
    <3>1. r \in ReqIds
      BY <2>1, <2>3, <2>r, RunningIs, MainSweeper, CallIs DEF Running
    <3>2. f \in Call /\ g \in Call /\ f.fn = "sr_handle_arpreq" /\ g.fn = "sweep_next"
      BY <2>f, <2>g, <3>1, CallMade
    <3>. QED BY <1>1, <2>1, <2>3, <3>2, MainSweeper, TwoCallsLinks DEF LinkedOK
  <2>. QED BY <2>1, <2>2, <2>3
<1>7. CASE SweepNext
  <2>1. CASE Crash
    BY <1>3, <2>1 DEF Crash, memory, history
  <2>2. CASE ~Crash
    <3>1. PICK r : /\ Goto(Sweeper, <<[fn |-> "sr_arpcache_sweepreqs", req |-> r]>>)
                   /\ stack[Sweeper] # <<>> /\ Here(Sweeper).fn = "sweep_next"
                   /\ reqs' = reqs /\ refused' = refused
      BY <1>7, <2>2 DEF SweepNext, At, Here, memory, history
    <3>g. PICK g : g = [fn |-> "sr_arpcache_sweepreqs", req |-> r]
      OBVIOUS
    <3>2. Tail(stack[Sweeper]) = <<>>
      BY <3>1, MainSweeper, RunningIs DEF Running, Bottom
    <3>3. <<g>> \o <<>> = <<g>>
      OBVIOUS
    <3>4. stack' = [stack EXCEPT ![Sweeper] = <<g>>]
      BY <3>1, <3>g, <3>2, <3>3 DEF Goto
    <3>5. Rests(hop, g)
      BY <3>g DEF Rests
    <3>. QED BY <1>1, <1>2, <3>1, <3>4, <3>5, MainSweeper, AloneLinks DEF LinkedOK
  <2>. QED BY <2>1, <2>2
<1>8. CASE sr_handlepacket_ip
  <2>1. PICK in \in InPackets :
          stack' = [stack EXCEPT ![Main] = Attempts(sr_handle_ip_packet(in[1], in[2]))]
    BY <1>8 DEF sr_handlepacket_ip
  <2>p. PICK ps : ps = sr_handle_ip_packet(in[1], in[2])
    OBVIOUS
  <2>2. ps = {} \/ \E p : ps = {p}
    BY <2>p, HandledIs DEF Single
  <2>3. Attempts(ps) = <<>> \/ \E p : Attempts(ps) = <<Attempt(p)>>
    BY <2>2, AttemptsIs
  <2>4. \A p : Rests(hop, Attempt(p))
    BY DEF Rests, Attempt
  <2>5. reqs' = reqs /\ refused' = refused /\ stack' = [stack EXCEPT ![Main] = Attempts(ps)]
    BY <1>8, <2>1, <2>p DEF sr_handlepacket_ip, memory, history
  <2>. QED BY <1>1, <1>2, <2>3, <2>4, <2>5, MainSweeper, AloneLinks DEF LinkedOK
<1>9. CASE sr_handlepacket_arp
  <2>0. reqs' = reqs /\ refused' = refused
    BY <1>9 DEF sr_handlepacket_arp, history
  <2>1. CASE UNCHANGED stack
    BY <1>3, <2>0, <2>1
  <2>2. CASE ~UNCHANGED stack
    <3>1. PICK r : stack' = [stack EXCEPT ![Main] =
                      <<[fn |-> "sr_recv_arp", req |-> r, rest |-> reqs[r].packets]>>]
      BY <1>9, <2>2 DEF sr_handlepacket_arp
    <3>g. PICK g : g = [fn |-> "sr_recv_arp", req |-> r, rest |-> reqs[r].packets]
      OBVIOUS
    <3>2. Rests(hop, g) /\ stack' = [stack EXCEPT ![Main] = <<g>>]
      BY <3>1, <3>g DEF Rests
    <3>. QED BY <1>1, <1>2, <2>0, <3>2, MainSweeper, AloneLinks DEF LinkedOK
  <2>. QED BY <2>1, <2>2
<1>10. CASE Tick
  BY <1>1, <1>10, TickLinks DEF LinkedOK
<1>11. UNCHANGED vars => UNCHANGED <<reqs, stack, refused>>
  BY DEF vars, memory, history
<1>. QED BY <1>3, <1>4, <1>5, <1>6, <1>7, <1>8, <1>9, <1>10, <1>11 DEF Next, Sweep

\* Between two calls that give up the same request all calls give up requests, each
\* because of a message that the one below it sent: the next hops go round.
LEMMA GoesRound ==
    ASSUME SInv, NEW hop, Linked(hop), NEW t \in Threads,
           NEW i \in DOMAIN stack[t], NEW j \in DOMAIN stack[t], i < j,
           stack[t][i].fn = "sr_send_icmp_to_waiting",
           stack[t][j].fn = "sr_send_icmp_to_waiting",
           stack[t][i].req = stack[t][j].req
    PROVE  Crossing
<1> DEFINE at(k) == hop[stack[t][k].req]
           hops == {at(k) : k \in i..j}
<1>1. /\ stack[t] \in Seq(Call) /\ Len(stack[t]) \in Nat
      /\ DOMAIN stack[t] = 1..Len(stack[t])
  BY DEF SInv, Typed, Stacks
<1>2. /\ i \in Nat /\ j \in Nat /\ i >= 1 /\ j <= Len(stack[t]) /\ i \in i..j /\ j \in i..j
      /\ \A k \in i..j : k \in DOMAIN stack[t] /\ k \in Nat
  BY <1>1
<1>3. ASSUME NEW k \in i..j PROVE stack[t][k].fn = "sr_send_icmp_to_waiting"
  <2>1. CASE k = i \/ k = j
    BY <2>1
  <2>2. CASE k # i /\ k # j
    <3>1. k > 1 /\ k # Len(stack[t]) /\ k \in DOMAIN stack[t]
      BY <1>1, <1>2, <2>2
    <3>2. stack[t][k].fn \in Below /\ stack[t][k].fn \notin Bottom
      BY <3>1 DEF SInv, ShapeOK, Placed
    <3>. QED BY <3>2 DEF Below, Bottom
  <2>. QED BY <2>1, <2>2
<1>4. ASSUME NEW k \in i..j, k # i
      PROVE  \E p \in refused : /\ HasRoute(p.src) /\ NextHop(p) = at(k)
                                /\ NextHop(HostUnreachable(p)) \in hops
  <2>1. k > 1 /\ k - 1 \in i..j /\ k \in DOMAIN stack[t]
    BY <1>2, <1>4
  <2>2. CalledBy(refused, hop, stack[t][k - 1], stack[t][k])
    BY <2>1 DEF Linked
  <2>3. PICK p \in refused : /\ HasRoute(p.src) /\ NextHop(p) = at(k)
                             /\ Leads(hop, stack[t][k - 1], NextHop(HostUnreachable(p)))
    BY <1>3, <2>2 DEF CalledBy
  <2>4. NextHop(HostUnreachable(p)) = at(k - 1)
    BY <1>3, <2>1, <2>3 DEF Leads, Forward
  <2>. QED BY <2>1, <2>3, <2>4
<1>5. at(i) = at(j) /\ j # i
  BY <1>2
<1>6. ASSUME NEW g \in hops
      PROVE  \E p \in refused : /\ NextHop(p) = g /\ HasRoute(p.src)
                                /\ NextHop(HostUnreachable(p)) \in hops
  <2>1. PICK k \in i..j : g = at(k) /\ k # i
    BY <1>2, <1>5
  <2>. QED BY <1>4, <2>1
<1>7. hops \in (SUBSET Gateways) \ {{}}
  <2>1. refused \subseteq Routable
    BY DEF SInv, Typed
  <2>2. \A g \in hops : g \in Gateways
    BY <1>6, <2>1, HostUnreachableIs
  <2>3. at(i) \in hops
    BY <1>2
  <2>. QED BY <2>2, <2>3
<1>. HIDE DEF hops
<1>. QED BY <1>6, <1>7 DEF Crossing

\* Giving up a request comes back to the same request, in a recursion that does not
\* end, only when hosts that are gone had packets for each other: as long as calloc
\* returns no request that a call still points to.
THEOREM ReentryOnlyByCrossing ==
    ASSUME Reuse = FALSE
    PROVE  Spec => []ReentryNeedsCrossing
<1>1. ASSUME Init PROVE LinkedOK
  <2>1. [r \in ReqIds |-> Null] \in HopOf
    BY DEF HopOf
  <2>2. /\ \A r \in ReqIds : ~reqs[r].live
        /\ \A t \in Threads : stack[t] = <<>> /\ Calls(t) = {} /\ DOMAIN stack[t] = {}
    BY <1>1, RangeOf DEF Init, sr_arpcache_init, Freed, Calls
  <2>. QED BY <2>1, <2>2 DEF LinkedOK, Linked, Knows
<1>2. ASSUME SInv, LinkedOK PROVE ReentryNeedsCrossing
  <2>1. PICK hop \in HopOf : Linked(hop)
    BY <1>2 DEF LinkedOK
  <2>2. ASSUME NEW t \in Threads, NEW i \in DOMAIN stack[t], NEW j \in DOMAIN stack[t],
               stack[t][i].fn = "sr_send_icmp_to_waiting",
               stack[t][j].fn = "sr_send_icmp_to_waiting",
               stack[t][i].req = stack[t][j].req
        PROVE  i = j \/ Crossing
    <3>1. i \in Int /\ j \in Int
      <4>1. stack[t] \in Seq(Call)
        BY <1>2 DEF SInv, Typed, Stacks
      <4>. QED BY <4>1
    <3>2. i < j \/ j < i \/ i = j
      BY <3>1
    <3>. QED BY <1>2, <2>1, <2>2, <3>2, GoesRound
  <2>. QED BY <2>2 DEF ReentryNeedsCrossing
<1>3. SInv /\ LinkedOK /\ [Next]_vars => (SInv /\ LinkedOK)'
  BY NextPlaces, NextLinks
<1>4. Init => SInv /\ LinkedOK
  BY <1>1, InitPlaces
<1>5. SInv /\ LinkedOK => ReentryNeedsCrossing
  BY <1>2
<1>. QED BY <1>3, <1>4, <1>5, PTL DEF Spec
=============================================================================
