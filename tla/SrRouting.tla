----------------------------- MODULE SrRouting -----------------------------
(***************************************************************************)
(* What the router of lab1 does with an IP packet, before the ARP cache:   *)
(* the pure part of sr_router.c and the lookup of sr_rt.c. Addresses are   *)
(* model values, a prefix is the set of addresses it covers, and a packet  *)
(* keeps its kind, its two addresses and its TTL. `id' is the arriving     *)
(* packet that a packet is, or is about.                                   *)
(***************************************************************************)
EXTENDS Integers, Sequences, FiniteSetsExt

CONSTANTS
    Addresses,  \* the IP addresses packets come from and go to
    Gateways,   \* those that are next hops in the routing table
    IfAddress,  \* IfAddress[i]: the address of the router's interface i
    Table,      \* routing_table: [prefix, length (of the mask), gw, iface]
    PacketIds

Interfaces == DOMAIN IfAddress
Own == {IfAddress[i] : i \in Interfaces}
Route == [prefix : SUBSET Addresses, length : 0..32, gw : Gateways,
          iface : Interfaces]

ASSUME RoutingConstants ==
    /\ Gateways \subseteq Addresses
    /\ Own \subseteq Addresses
    /\ Table \in Seq(Route)

\* The kinds of received packets, and the ICMP messages the router makes.
Received == {"echo", "icmp", "tcp_udp"}
Made == {"echo_reply", "port_unreach", "net_unreach", "host_unreach", "ttl_exceeded"}
Kinds == Received \cup Made

Packet == [id : PacketIds, kind : Kinds, src : Addresses, dst : Addresses,
           ttl : 0..255]

\* largest_mask when lpm is the i-th route, or NULL, which is 0.
LargestMask(i) == IF i = 0 THEN 0 ELSE Table[i].length

\* A later route with a mask as long replaces lpm.
Replaces(n, i, dst) ==
    dst \in Table[n].prefix /\ Table[n].length >= LargestMask(i)

\* The loop over the table, by how many routes it has seen.
Lpm(dst) ==
    LET lpm[n \in 0..Len(Table)] ==
          IF n = 0 THEN 0
          ELSE IF Replaces(n, lpm[n - 1], dst) THEN n ELSE lpm[n - 1]
    IN  lpm

HasRoute(dst) == Lpm(dst)[Len(Table)] # 0

longest_prefix_match(dst) == Table[Lpm(dst)[Len(Table)]]

NextHop(p) == longest_prefix_match(p.dst).gw

\* sr_send_icmp, sr_send_icmp3 and the header sr_send_ip writes.
Icmp(kind, about, src, dst) ==
    [id |-> about.id, kind |-> kind, src |-> src, dst |-> dst, ttl |-> 64]

\* For one of the router's addresses: echo requests are answered, other ICMP
\* is ignored and anything else is refused.
sr_handle_my_ip_packet(p) ==
    CASE p.kind = "echo"    -> {Icmp("echo_reply", p, p.dst, p.src)}
      [] p.kind = "tcp_udp" -> {Icmp("port_unreach", p, p.dst, p.src)}
      [] OTHER              -> {}

\* The TTL is a uint8_t: 0 wraps to 255.
DecrementTTL(p) == [p EXCEPT !.ttl = (@ - 1) % 256]

\* The packet a received packet makes the router send, if any.
sr_handle_ip_packet(p, iface) ==
    CASE p.dst \in Own -> sr_handle_my_ip_packet(p)
      [] p.dst \notin Own /\ DecrementTTL(p).ttl = 0 ->
           {Icmp("ttl_exceeded", p, IfAddress[iface], p.src)}
      [] p.dst \notin Own /\ DecrementTTL(p).ttl # 0 /\ ~HasRoute(p.dst) ->
           {Icmp("net_unreach", p, IfAddress[iface], p.src)}
      [] OTHER -> {DecrementTTL(p)}

\* sr_send_icmp_to_waiting: it is sent from the address of the interface the
\* waiting packet was to leave by.
HostUnreachable(p) ==
    Icmp("host_unreach", p, IfAddress[longest_prefix_match(p.dst).iface], p.src)

\* sr_send_ip drops a packet that no route matches.
Routed(ps) == {p \in ps : HasRoute(p.dst)}
=============================================================================
