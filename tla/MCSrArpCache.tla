---------------------------- MODULE MCSrArpCache ----------------------------
(***************************************************************************)
(* Instances of SrArpCache for TLC. The router has a client A behind its   *)
(* interface e1 and a host B behind e2, each its own next hop, as in the   *)
(* rtable of lab1; N is a host elsewhere.                                  *)
(***************************************************************************)
EXTENDS SrArpAsks, TLC

CONSTANTS A, B, N, R1, R2, e1, e2

MCAddresses == {A, B, N, R1, R2}
MCGateways == {A, B}
MCIfAddress == e1 :> R1 @@ e2 :> R2

ToHost(h, iface) == [prefix |-> {h}, length |-> 32, gw |-> h, iface |-> iface]

\* Host routes only.
HostRoutes == <<ToHost(A, e1), ToHost(B, e2)>>

In(id, kind, src, dst, iface) ==
    <<[id |-> id, kind |-> kind, src |-> src, dst |-> dst, ttl |-> 2], iface>>

\* The hosts send to each other.
Crossed == {In(1, "tcp_udp", A, B, e1), In(2, "tcp_udp", B, A, e2)}

\* One is there.
MCAnswering == {A}

OnePacket == {In(1, "tcp_udp", A, B, e1)}
=============================================================================
