----------------------------- MODULE MCCtcpLink -----------------------------
(***************************************************************************)
(* Instances of CtcpLink for TLC: how much each side has to say, and the   *)
(* windows of the two sides.                                               *)
(***************************************************************************)
EXTENDS CtcpLink, TLC

OneWay1 == Client :> 1 @@ Server :> 0
OneWay4 == Client :> 4 @@ Server :> 0
BothWays1 == Client :> 1 @@ Server :> 1
Window2 == Client :> 2 @@ Server :> 2
=============================================================================
