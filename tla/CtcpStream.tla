----------------------------- MODULE CtcpStream -----------------------------
(***************************************************************************)
(* What a cTCP connection promises to the two programs that use it: each   *)
(* side's output is a prefix of the other side's input, in order, and ends *)
(* only after all of it. How much arrives, and when, is not promised: a    *)
(* side may give up. A byte is its position in the input it comes from.    *)
(***************************************************************************)
EXTENDS Integers, Sequences

CONSTANTS Hosts, Peer(_)

VARIABLES
    sent,     \* sent[h]: how many bytes of h's input were read
    closed,   \* closed[h]: the end of h's input was read
    received, \* received[h]: the bytes output at h
    ended     \* ended[h]: the end of file was output at h

vars == <<sent, closed, received, ended>>

Init ==
    /\ sent = [h \in Hosts |-> 0]
    /\ closed = [h \in Hosts |-> FALSE]
    /\ received = [h \in Hosts |-> <<>>]
    /\ ended = [h \in Hosts |-> FALSE]

Write(h) ==
    /\ ~closed[h]
    /\ sent'[h] \in Nat /\ sent'[h] > sent[h]
    /\ sent' = [sent EXCEPT ![h] = sent'[h]]
    /\ UNCHANGED <<closed, received, ended>>

Close(h) ==
    /\ closed' = [closed EXCEPT ![h] = TRUE]
    /\ UNCHANGED <<sent, received, ended>>

\* The next bytes of the peer's input are output.
Deliver(h) ==
    /\ ~ended[h]
    /\ \E upto \in (Len(received[h]) + 1)..sent[Peer(h)] :
         received' = [received EXCEPT ![h] =
                        @ \o [i \in 1..(upto - Len(@)) |-> Len(@) + i]]
    /\ UNCHANGED <<sent, closed, ended>>

End(h) ==
    /\ closed[Peer(h)]
    /\ Len(received[h]) = sent[Peer(h)]
    /\ ended' = [ended EXCEPT ![h] = TRUE]
    /\ UNCHANGED <<sent, closed, received>>

Next == \E h \in Hosts : Write(h) \/ Close(h) \/ Deliver(h) \/ End(h)

Spec == Init /\ [][Next]_vars
=============================================================================
