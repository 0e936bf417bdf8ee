---------------------------- MODULE MCCtcpServer ----------------------------
(***************************************************************************)
(* Instances of CtcpServer for TLC: clients that only connect and close.   *)
(***************************************************************************)
EXTENDS CtcpServer

Silent == [c \in Clients |-> 0]
=============================================================================
