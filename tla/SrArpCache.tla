---------------------------- MODULE SrArpCache ----------------------------
(***************************************************************************)
(* The two threads of lab1's router: the main thread, which handles one    *)
(* received packet after the other, and the sweeper (sr_arpcache_timeout), *)
(* which expires cache entries and ARP requests about once a second. They  *)
(* share the ARP cache and its request queue. The cache functions of       *)
(* sr_arpcache.c take its recursive lock, the sweeper holds it during a    *)
(* sweep, and sr_handle_arpreq and what it calls use a request without it. *)
(*                                                                         *)
(* The calls of a thread that have not returned are its stack of frames,   *)
(* the running one first, since giving up a request sends packets, which   *)
(* can start another request. A frame is [fn, ...]: where the thread is.   *)
(* A request is memory, reqs[r], that may be freed while a pointer r to it *)
(* is still held: what using it does is in StaleUse.                       *)
(*                                                                         *)
(* time() counts seconds: an age is how many times it has changed since,   *)
(* and stops growing when the code can no longer tell the difference.      *)
(***************************************************************************)
EXTENDS SrRouting, SequencesExt

CONSTANTS
    Main, Sweeper,
    Slots,        \* the cache's entries, 1..SR_ARPCACHE_SZ
    CacheTimeout, \* SR_ARPCACHE_TO, in seconds
    ArpTries,     \* how often an address is asked for before giving up
    ReqIds,       \* the addresses calloc returns for requests, numbered
    Reuse,        \* calloc may return a request a thread still points to
    Null,         \* no address, no request, no thread
    InPackets,    \* the IP packets that may be received, with their interface
    Answering,    \* the next hops that are there
    MaxArps,      \* how many ARP packets are received
    StaleUse,     \* what using a freed request may do
    StackLimit    \* the calls that a thread's stack has room for

Threads == {Main, Sweeper}

ASSUME ArpConstants ==
    /\ Main # Sweeper
    /\ Null \notin Threads \cup ReqIds \cup Gateways
    /\ Slots \in SUBSET Nat /\ IsFiniteSet(Slots)
    /\ CacheTimeout \in Nat /\ ArpTries \in Nat \ {0} /\ MaxArps \in Nat
    /\ InPackets \subseteq Packet \X Interfaces
    /\ \A in \in InPackets : in[1].kind \in Received
    /\ Answering \subseteq Gateways /\ StackLimit \in Nat
    /\ ReqIds \in SUBSET Nat /\ IsFiniteSet(ReqIds) /\ Reuse \in BOOLEAN
    /\ StaleUse \subseteq {"ignored", "crash"} /\ StaleUse # {}

VARIABLES
    entries,  \* entries[s]: the address cached in slot s, or Null, and its age
    reqs,     \* reqs[r]: the request at r
    queue,    \* cache->requests
    lock,     \* the thread that holds cache->lock, or Null
    stack,    \* stack[t]: the calls thread t is in, innermost first
    slept,    \* the sweeper's second of sleep is over
    arrived,  \* the IP packets received, and the interfaces they came by
    arps,     \* how many ARP packets were received
    sent,     \* the packets handed to sr_send_packet
    refused,  \* the packets a host unreachable message was made for
    crashed

memory == <<entries, reqs, queue>>
history == <<sent, refused>>
input == <<arrived, arps>>
vars == <<memory, lock, stack, slept, input, history, crashed>>

-----------------------------------------------------------------------------
Entry == [ip : Gateways \cup {Null}, age : 0..(CacheTimeout + 1)]

\* sent_ago: 2 when it is more than a second since the request was sent, or it
\* never was.
Request == [live : {TRUE}, ip : Gateways, sent_ago : 0..2, times_sent : Nat,
            packets : Seq(Packet) \ {<<>>}]

\* The next of a sweep_next frame is what req->next still says when req is freed.
Frame ==
    [fn : {"sr_attempt_send", "sr_arpcache_queuereq"}, pkt : Packet] \cup
    [fn : {"sr_handle_arpreq"}, req : ReqIds] \cup
    [fn : {"sweep_next"}, req : ReqIds, next : ReqIds \cup {Null}] \cup
    [fn : {"sr_arpcache_sweepreqs"}, req : ReqIds \cup {Null}] \cup
    [fn : {"ask"}, req : ReqIds, now : 0..2] \cup
    [fn : {"count"}, req : ReqIds, times_sent : Nat] \cup
    [fn : {"sr_send_icmp_to_waiting", "sr_recv_arp"}, req : ReqIds,
     rest : Seq(Packet)]

Freed == [live |-> FALSE, ip |-> Null, sent_ago |-> 2, times_sent |-> 0,
          packets |-> <<>>]

TypeOK ==
    /\ entries \in [Slots -> Entry]
    /\ reqs \in [ReqIds -> Request \cup {Freed}]
    /\ queue \in Seq(ReqIds)
    /\ lock \in Threads \cup {Null}
    /\ stack \in [Threads -> Seq(Frame)]
    /\ slept \in BOOLEAN /\ crashed \in BOOLEAN
    /\ arrived \subseteq InPackets /\ arps \in 0..MaxArps
    /\ sent \subseteq Packet /\ refused \subseteq Packet

sr_arpcache_init ==
    /\ entries = [s \in Slots |-> [ip |-> Null, age |-> 0]]
    /\ reqs = [r \in ReqIds |-> Freed]
    /\ queue = <<>>
    /\ lock = Null

Init ==
    /\ sr_arpcache_init
    /\ stack = [t \in Threads |-> <<>>]
    /\ slept = FALSE /\ crashed = FALSE
    /\ arrived = {} /\ arps = 0
    /\ sent = {} /\ refused = {}

-----------------------------------------------------------------------------
\* Thread t is at the start of a step of function `fn'.
At(t, fn) == ~crashed /\ stack[t] # <<>> /\ Head(stack[t]).fn = fn
Here(t) == Head(stack[t])

Goto(t, frames) == stack' = [stack EXCEPT ![t] = frames \o Tail(@)]
Return(t) == Goto(t, <<>>)

Attempts(ps) ==
    SetToSeq({[fn |-> "sr_attempt_send", pkt |-> p] : p \in Routed(ps)})

\* The lock is recursive.
CanLock(t) == lock \in {t, Null}

Cached(ip) == \E s \in Slots : entries[s].ip = ip

\* Mutant: only the first request is compared.
Asking_First(ip) == {r \in Range(queue) : r = Head(queue) /\ reqs[r].ip = ip}

\* Mutant: the addresses are not compared.
Asking_Any(ip) == Range(queue)

Asking(ip) == {r \in Range(queue) : reqs[r].ip = ip}

Place(r) == CHOOSE i \in DOMAIN queue : queue[i] = r

NextOf(r) == IF Place(r) = Len(queue) THEN Null ELSE queue[Place(r) + 1]

\* What calloc may return: one of the free addresses nothing points to, which
\* are all alike, or a freed request the other thread has still to use.
Held(r) == \E t \in Threads : \E f \in Range(stack[t]) : "req" \in DOMAIN f /\ f.req = r
Free == {r \in ReqIds : ~reqs[r].live}
Fresh == {r \in Free : ~Held(r)}
Allocatable ==
    {Min(fresh) : fresh \in {Fresh} \ {{}}} \cup {r \in Free : Reuse /\ Held(r)}

\* r leaves the queue; its own next field is not touched.
Unlink(r) ==
    queue' = IF r \in Range(queue) THEN RemoveAt(queue, Place(r)) ELSE queue

Crash == crashed' = TRUE /\ UNCHANGED <<memory, lock, stack, slept, input, history>>

-----------------------------------------------------------------------------
\* Sending a packet

\* The cache is looked up. A hit is sent, a miss goes on to the queue.
sr_arpcache_lookup(t) ==
    /\ At(t, "sr_attempt_send") /\ CanLock(t)
    /\ LET p == Here(t).pkt
       IN  \/ /\ Cached(NextHop(p))
              /\ sent' = sent \cup {p}
              /\ Return(t)
           \/ /\ ~Cached(NextHop(p))
              /\ Goto(t, <<[fn |-> "sr_arpcache_queuereq", pkt |-> p]>>)
              /\ UNCHANGED sent
    /\ UNCHANGED <<memory, lock, slept, input, refused, crashed>>

\* Mutant: the packets already waiting are forgotten.
AddPacket_Only(packets, p) == <<p>>

AddPacket(packets, p) == <<p>> \o packets

\* The packet waits at the front of its next hop's request, a new one if there
\* is none; then, without the lock, the request is handled.
sr_arpcache_queuereq(t) ==
    /\ At(t, "sr_arpcache_queuereq") /\ CanLock(t)
    /\ LET p == Here(t).pkt
       IN  \E r \in ReqIds :
             /\ \/ /\ r \in Asking(NextHop(p))
                   /\ reqs' = [reqs EXCEPT ![r].packets = AddPacket(@, p)]
                   /\ UNCHANGED queue
                \/ /\ Asking(NextHop(p)) = {} /\ r \in Allocatable
                   /\ reqs' = [reqs EXCEPT ![r] =
                        [live |-> TRUE, ip |-> NextHop(p), sent_ago |-> 2,
                         times_sent |-> 0, packets |-> AddPacket(<<>>, p)]]
                   /\ queue' = <<r>> \o queue
             /\ Goto(t, <<[fn |-> "sr_handle_arpreq", req |-> r]>>)
    /\ UNCHANGED <<entries, lock, slept, input, history, crashed>>

-----------------------------------------------------------------------------
\* Handling a request: no lock is taken until it is destroyed.

Uses(t, fn) == At(t, fn) /\ reqs[Here(t).req].live

Due(r) == reqs[r].sent_ago > 1

\* Mutant: one try too many.
Expired_OffByOne(r) == reqs[r].times_sent > ArpTries

Expired(r) == reqs[r].times_sent >= ArpTries

\* Due more than a second after it was last sent. Given up after ArpTries.
sr_handle_arpreq(t) ==
    /\ Uses(t, "sr_handle_arpreq")
    /\ LET r == Here(t).req
       IN  \/ ~Due(r) /\ Return(t)
           \/ /\ Due(r) /\ Expired(r)
              /\ Goto(t, <<[fn |-> "sr_send_icmp_to_waiting", req |-> r,
                            rest |-> reqs[r].packets]>>)
           \/ /\ Due(r) /\ ~Expired(r)
              /\ Goto(t, <<[fn |-> "ask", req |-> r, now |-> 0]>>)
    /\ UNCHANGED <<memory, lock, slept, input, history, crashed>>

\* An ARP request is broadcast. req->times_sent++ is not atomic.
sr_send_arp_req(t) ==
    /\ Uses(t, "ask")
    /\ LET f == Here(t)
       IN  /\ reqs' = [reqs EXCEPT ![f.req].sent_ago = f.now]
           /\ Goto(t, <<[fn |-> "count", req |-> f.req,
                         times_sent |-> reqs[f.req].times_sent]>>)
    /\ UNCHANGED <<entries, queue, lock, slept, input, history, crashed>>

\* Mutant: the tries are not counted.
CountArp_Not(t) ==
    /\ Uses(t, "count")
    /\ Return(t)
    /\ UNCHANGED <<memory, lock, slept, input, history, crashed>>

CountArp(t) ==
    /\ Uses(t, "count")
    /\ LET f == Here(t)
       IN reqs' = [reqs EXCEPT ![f.req].times_sent = f.times_sent + 1]
    /\ Return(t)
    /\ UNCHANGED <<entries, queue, lock, slept, input, history, crashed>>

\* A host unreachable message goes to the source of every waiting packet.
sr_send_icmp_to_waiting(t) ==
    /\ Uses(t, "sr_send_icmp_to_waiting")
    /\ LET f == Here(t)
       IN  /\ f.rest # <<>>
           /\ Len(stack[t]) < StackLimit
           /\ refused' = refused \cup {Head(f.rest)}
           /\ Goto(t, Attempts({HostUnreachable(Head(f.rest))}) \o
                      <<[f EXCEPT !.rest = Tail(@)]>>)
    /\ UNCHANGED <<memory, lock, slept, input, sent, crashed>>

\* Giving up has come back to itself until the stack was full.
StackOverflow(t) ==
    /\ Uses(t, "sr_send_icmp_to_waiting")
    /\ Here(t).rest # <<>> /\ Len(stack[t]) >= StackLimit
    /\ Crash

\* The end of giving up, and of sr_recv_arp.
sr_arpreq_destroy(t) ==
    /\ Uses(t, "sr_send_icmp_to_waiting") \/ Uses(t, "sr_recv_arp")
    /\ CanLock(t)
    /\ Here(t).rest = <<>>
    /\ LET r == Here(t).req
           Left(f) == IF f.fn = "sweep_next" /\ f.req = r
                      THEN [f EXCEPT !.next = NextOf(r)] ELSE f
       IN  /\ Unlink(r)
           /\ reqs' = [reqs EXCEPT ![r] = Freed]
           /\ stack' = [stack EXCEPT ![t] =
                          [i \in 1..(Len(@) - 1) |-> Left(@[i + 1])]]
    /\ UNCHANGED <<entries, lock, slept, input, history, crashed>>

\* The other thread freed the request t is handling.
UseFreed(t) ==
    /\ \E fn \in {"sr_handle_arpreq", "ask", "count", "sr_send_icmp_to_waiting"} :
         At(t, fn) /\ ~reqs[Here(t).req].live
    /\ \/ /\ "ignored" \in StaleUse
          /\ Return(t)
          /\ UNCHANGED <<memory, lock, slept, input, history, crashed>>
       \/ "crash" \in StaleUse /\ Crash

-----------------------------------------------------------------------------
\* The main thread

Idle == ~crashed /\ stack[Main] = <<>>

sr_handlepacket_ip ==
    /\ Idle
    /\ \E in \in InPackets :
         /\ \A a \in arrived : a[1].id # in[1].id
         /\ arrived' = arrived \cup {in}
         /\ stack' = [stack EXCEPT ![Main] =
                        Attempts(sr_handle_ip_packet(in[1], in[2]))]
    /\ UNCHANGED <<memory, lock, slept, arps, history, crashed>>

\* Mutant: the request stays in the queue.
Detach_Stays(r) == UNCHANGED queue

Detach(r) == Unlink(r)

\* The entries with ip in the first free slot, if there is one. ip may be in
\* another already.
Insert(ip) ==
    LET free == {s \in Slots : entries[s].ip = Null}
    IN  IF free = {} THEN entries
        ELSE [entries EXCEPT ![Min(free)] = [ip |-> ip, age |-> 0]]

\* An ARP packet for the router, from ip: sr_arpcache_insert caches ip and takes
\* the request for it out of the queue.
sr_handlepacket_arp ==
    /\ Idle /\ CanLock(Main)
    /\ arps < MaxArps /\ arps' = arps + 1
    /\ \E ip \in Answering :
         /\ entries' = Insert(ip)
         /\ \/ Asking(ip) = {} /\ UNCHANGED <<queue, stack>>
            \/ \E r \in Asking(ip) :
                 /\ Detach(r)
                 /\ stack' = [stack EXCEPT ![Main] =
                      <<[fn |-> "sr_recv_arp", req |-> r,
                         rest |-> reqs[r].packets]>>]
    /\ UNCHANGED <<reqs, lock, slept, arrived, history, crashed>>

\* The packets that waited for the answer are sent.
sr_recv_arp(t) ==
    /\ Uses(t, "sr_recv_arp")
    /\ LET f == Here(t)
       IN  /\ f.rest # <<>>
           /\ Goto(t, <<[fn |-> "sr_attempt_send", pkt |-> Head(f.rest)],
                        [f EXCEPT !.rest = Tail(@)]>>)
    /\ UNCHANGED <<memory, lock, slept, input, history, crashed>>

-----------------------------------------------------------------------------
\* The sweeper

\* It wakes up, takes the lock and expires entries.
sr_arpcache_timeout ==
    /\ ~crashed /\ slept /\ stack[Sweeper] = <<>> /\ lock = Null
    /\ lock' = Sweeper /\ slept' = FALSE
    /\ entries' = [s \in Slots |->
                     IF entries[s].age > CacheTimeout
                     THEN [ip |-> Null, age |-> 0] ELSE entries[s]]
    /\ stack' = [stack EXCEPT ![Sweeper] =
                   <<[fn |-> "sr_arpcache_sweepreqs",
                      req |-> IF queue = <<>> THEN Null ELSE Head(queue)]>>]
    /\ UNCHANGED <<reqs, queue, input, history, crashed>>

\* Mutant: the lock is not released.
Unlock_Not == UNCHANGED lock

Unlock == lock' = Null

sr_arpcache_sweepreqs ==
    /\ At(Sweeper, "sr_arpcache_sweepreqs")
    /\ LET r == Here(Sweeper).req
       IN  \/ /\ r # Null
              /\ Goto(Sweeper, <<[fn |-> "sr_handle_arpreq", req |-> r],
                                 [fn |-> "sweep_next", req |-> r, next |-> Null]>>)
              /\ UNCHANGED lock
           \/ r = Null /\ Unlock /\ Return(Sweeper)
    /\ UNCHANGED <<memory, slept, input, history, crashed>>

\* req = req->next, read after req may have been destroyed.
SweepNext ==
    /\ At(Sweeper, "sweep_next")
    /\ LET f == Here(Sweeper)
           Continue(r) ==
               /\ Goto(Sweeper, <<[fn |-> "sr_arpcache_sweepreqs", req |-> r]>>)
               /\ UNCHANGED <<memory, lock, slept, input, history, crashed>>
       IN  \/ reqs[f.req].live /\ Continue(NextOf(f.req))
           \/ ~reqs[f.req].live /\ "ignored" \in StaleUse /\ Continue(f.next)
           \/ ~reqs[f.req].live /\ "crash" \in StaleUse /\ Crash

-----------------------------------------------------------------------------
\* time(NULL) becomes a second more.
Older(age, most) == IF age < most THEN age + 1 ELSE age

Tick ==
    /\ ~crashed
    /\ slept' = TRUE
    /\ entries' = [s \in Slots |->
         IF entries[s].ip = Null THEN entries[s]
         ELSE [entries[s] EXCEPT !.age = Older(@, CacheTimeout + 1)]]
    /\ reqs' = [r \in ReqIds |-> [reqs[r] EXCEPT !.sent_ago = Older(@, 2)]]
    /\ stack' = [t \in Threads |-> [i \in DOMAIN stack[t] |->
         IF stack[t][i].fn = "ask" THEN [stack[t][i] EXCEPT !.now = Older(@, 2)]
         ELSE stack[t][i]]]
    /\ UNCHANGED <<queue, lock, input, history, crashed>>

Step(t) ==
    \/ sr_arpcache_lookup(t) \/ sr_arpcache_queuereq(t)
    \/ sr_handle_arpreq(t) \/ sr_send_arp_req(t) \/ CountArp(t)
    \/ sr_send_icmp_to_waiting(t) \/ StackOverflow(t)
    \/ sr_arpreq_destroy(t) \/ UseFreed(t) \/ sr_recv_arp(t)

Sweep == sr_arpcache_timeout \/ sr_arpcache_sweepreqs \/ SweepNext

Next ==
    \/ \E t \in Threads : Step(t)
    \/ Sweep
    \/ sr_handlepacket_ip \/ sr_handlepacket_arp
    \/ Tick

Spec == Init /\ [][Next]_vars

\* Both threads run, and time passes. The sweeper sleeps a second with the
\* lock free, so the main thread gets it in the end.
FairSpec ==
    /\ Spec
    /\ SF_vars(Step(Main)) /\ WF_vars(Step(Sweeper) \/ Sweep) /\ WF_vars(Tick)
-----------------------------------------------------------------------------
\* Safety

\* Every packet the router has to send, because of one it received.
Owed == UNION {Routed(sr_handle_ip_packet(a[1], a[2])) : a \in arrived}

Waiting(p) == \E r \in ReqIds : reqs[r].live /\ p \in Range(reqs[r].packets)

InHands(p) ==
    \E t \in Threads : \E f \in Range(stack[t]) :
        \/ f.fn \in {"sr_attempt_send", "sr_arpcache_queuereq"} /\ f.pkt = p
        \/ f.fn = "sr_recv_arp" /\ p \in Range(f.rest)

\* The queue (sr_arpcache_queuereq, sr_arpcache_insert, sr_arpreq_destroy) has
\* one request per address, none of them freed, whichever thread ends which.
QueueSound ==
    /\ \A r \in Range(queue) : reqs[r].live
    /\ \A i, j \in DOMAIN queue :
         reqs[queue[i]].ip = reqs[queue[j]].ip => i = j

\* assignment.md:235: a packet is dropped only when its next hop cannot be
\* determined. Until it is sent or answered by a host unreachable message, a
\* request that is not freed, or a call in progress, holds it.
NothingLost ==
    \A p \in Owed : p \in sent \cup refused \/ Waiting(p) \/ InHands(p)

\* No packet is both sent on and reported as undeliverable, though the answer
\* (main thread) and the last timeout (sweeper) may come at once.
NotSentAndRefused == \A p \in Owed : p \notin sent \cap refused

\* Host unreachable messages lead from next hops to next hops among these.
Crossing ==
    \E hops \in (SUBSET Gateways) \ {{}} : \A g \in hops : \E p \in refused :
        /\ NextHop(p) = g /\ HasRoute(p.src)
        /\ NextHop(HostUnreachable(p)) \in hops

\* Giving up a request sends packets, which may mean giving up another one.
\* The recursion of sr_handle_arpreq comes back to the same request, and then
\* does not end, only when refused packets cross.
ReentryNeedsCrossing ==
    \A t \in Threads : \A i, j \in DOMAIN stack[t] :
        /\ stack[t][i].fn = "sr_send_icmp_to_waiting"
        /\ stack[t][j].fn = "sr_send_icmp_to_waiting"
        /\ stack[t][i].req = stack[t][j].req
        => i = j \/ Crossing

\* sr_arpcache.h:61: the sweep goes on from a request that still exists.
\* (False: sr_arpcache_sweepreqs does not save the next pointer.)
SweepUsesLiveRequest ==
    At(Sweeper, "sweep_next") => reqs[Here(Sweeper).req].live

\* Liveness: no packet waits forever, it is sent or given up in the end, and no
\* sweep keeps the lock forever, unless the process crashed.
WaitingEnds ==
    \A p \in UNION {Routed(sr_handle_ip_packet(in[1], in[2])) :
                      in \in InPackets} :
        []<>(~Waiting(p) \/ crashed)

SweepEnds == []<>(lock = Null \/ crashed)
=============================================================================
