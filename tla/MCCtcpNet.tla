----------------------------- MODULE MCCtcpNet -----------------------------
(***************************************************************************)
(* Instances of CtcpNet for TLC: how much each side has to say, and the    *)
(* windows of the two sides.                                               *)
(***************************************************************************)
EXTENDS CtcpNet, TLC

OneWay2 == Client :> 2 @@ Server :> 0
OneWay3 == Client :> 3 @@ Server :> 0
TwoAndOne == Client :> 2 @@ Server :> 1
Window2 == Client :> 2 @@ Server :> 2
=============================================================================
