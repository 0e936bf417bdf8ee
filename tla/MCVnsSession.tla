---------------------------- MODULE MCVnsSession ----------------------------
\* Two interfaces, a third port of the switch that is not the router's, and the
\* ways of starting the router that differ.
EXTENDS VnsSession

CONSTANTS eth1, eth2, eth3, ip1, ip2, mac1, mac2

MCPort == (eth1 :> 1) @@ (eth2 :> 2)
MCIp == (eth1 :> ip1) @@ (eth2 :> ip2)
MCMac == (eth1 :> mac1) @@ (eth2 :> mac2)

MCBody == [AUTH_REQUEST |-> 1, AUTH_STATUS |-> 2, HWINFO |-> 2]

\* A packet for the router, an ARP request for one of its addresses, and a packet
\* that is too long for it.
MCFrames == {[request |-> FALSE, tip |-> ip1, units |-> 1],
             [request |-> TRUE, tip |-> ip1, units |-> 1],
             [request |-> FALSE, tip |-> ip1, units |-> 3]}

Good == [template |-> FALSE, auth_key |-> TRUE, rtable |-> <<eth1, eth2, eth1>>]

MCSetups == {Good, [Good EXCEPT !.template = TRUE], [Good EXCEPT !.auth_key = FALSE],
             [Good EXCEPT !.rtable = Unset], [Good EXCEPT !.rtable = <<eth1, Bad>>],
             [Good EXCEPT !.rtable = <<>>], [Good EXCEPT !.rtable = <<eth1, eth3>>]}
=============================================================================
