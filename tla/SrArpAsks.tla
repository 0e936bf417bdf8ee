----------------------------- MODULE SrArpAsks -----------------------------
(***************************************************************************)
(* SrArpCache with a history: how often each request was broadcast. The    *)
(* code counts in req->times_sent, which both threads increment without    *)
(* the lock (sr_arpcache.c:86-88), so the counter may say less.            *)
(***************************************************************************)
EXTENDS SrArpCache

VARIABLES
    asks,  \* asks[r]: the broadcasts made for the request at r, until a race
    raced  \* the requests that both threads were asking for at one time

askVars == <<vars, asks, raced>>

\* Thread t found the request r due and under the limit, and has not counted.
AsksFor(t, r) ==
    stack[t] # <<>> /\ Here(t).fn \in {"ask", "count"} /\ Here(t).req = r

AskedTwice(r) == \A t \in Threads : AsksFor(t, r)

AskInit ==
    /\ Init
    /\ asks = [r \in ReqIds |-> 0]
    /\ raced = {}

\* What calloc returns was never asked for; freeing a request ends its race.
\* After a race nothing is claimed, and the count stops.
Track(asked) ==
    /\ raced' = {r \in ReqIds : reqs'[r].live /\ (r \in raced \/ AskedTwice(r)')}
    /\ asks' = [r \in ReqIds |->
                  IF ~reqs[r].live \/ ~reqs'[r].live \/ r \in raced' THEN 0
                  ELSE asks[r] + (IF r \in asked THEN 1 ELSE 0)]

AskStep(t) ==
    \/ sr_send_arp_req(t) /\ Track({Here(t).req})
    \/ sr_arpcache_lookup(t) /\ Track({})
    \/ sr_arpcache_queuereq(t) /\ Track({})
    \/ sr_handle_arpreq(t) /\ Track({})
    \/ CountArp(t) /\ Track({})
    \/ sr_send_icmp_to_waiting(t) /\ Track({})
    \/ StackOverflow(t) /\ Track({})
    \/ sr_arpreq_destroy(t) /\ Track({})
    \/ UseFreed(t) /\ Track({})
    \/ sr_recv_arp(t) /\ Track({})

AskNext ==
    \/ \E t \in Threads : AskStep(t)
    \/ sr_arpcache_timeout /\ Track({})
    \/ sr_arpcache_sweepreqs /\ Track({})
    \/ SweepNext /\ Track({})
    \/ sr_handlepacket_ip /\ Track({})
    \/ sr_handlepacket_arp /\ Track({})
    \/ Tick /\ Track({})

AskSpec == AskInit /\ [][AskNext]_askVars

AskFairSpec ==
    /\ AskSpec
    /\ SF_vars(Step(Main)) /\ WF_vars(Step(Sweeper) \/ Sweep) /\ WF_vars(Tick)
-----------------------------------------------------------------------------
\* sr_arpcache.h:51: "ARP requests are sent every second until we send 5 ARP
\* requests". A request is broadcast more often only if the two threads were
\* once asking for it at the same time: both found it due, and one of the two
\* broadcasts may go uncounted.
MoreAsksNeedRace ==
    \A r \in ReqIds : reqs[r].live /\ r \notin raced => asks[r] <= ArpTries
=============================================================================
