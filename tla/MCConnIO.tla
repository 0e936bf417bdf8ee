------------------------------ MODULE MCConnIO ------------------------------
(***************************************************************************)
(* Instance of ConnIO for TLC: two connections. The first one sends enough *)
(* to fill both pipes of its program and one write more.                   *)
(***************************************************************************)
EXTENDS ConnIO

MCMaxBytes ==
    [m \in Modes |-> CASE m = "terminal" -> <<4, 0>>
                       [] m = "pipe"     -> <<3, 2>>
                       [] m = "program"  -> <<7, 1>>]

\* The first one's program may write a byte of its own.
MCMaxUnprompted == <<1, 0>>
=============================================================================
