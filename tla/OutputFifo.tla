----------------------------- MODULE OutputFifo -----------------------------
(***************************************************************************)
(* What conn_output promises the handlers (lab4/ctcp/ctcp_sys.h:84-110):   *)
(* the output of a connection is a queue of bytes with room for            *)
(* MaxBufSpace of them, written out in order, none twice and none between  *)
(* two others left out, until an end of file is recorded. A byte is its    *)
(* position in the peer's stream.                                          *)
(***************************************************************************)
EXTENDS Integers, Sequences

CONSTANTS Conns, MaxBufSpace

VARIABLES
    accepted,  \* accepted[c]: how many bytes of c were taken for output
    written,   \* written[c]: the bytes that were written out
    ended      \* ended[c]: the end of file was recorded

vars == <<accepted, written, ended>>

FirstBytes(n) == [i \in 1..n |-> i]

Init ==
    /\ accepted = [c \in Conns |-> 0]
    /\ written = [c \in Conns |-> <<>>]
    /\ ended = [c \in Conns |-> FALSE]

\* Some of what is accepted may be written at once.
Accept(c) ==
    /\ ~ended[c]
    /\ accepted' = [accepted EXCEPT ![c] = accepted'[c]]
    /\ accepted'[c] > accepted[c]
    /\ accepted'[c] - Len(written[c]) <= MaxBufSpace
    /\ Len(written'[c]) \in Len(written[c])..accepted'[c]
    /\ written' = [written EXCEPT ![c] = FirstBytes(Len(written'[c]))]
    /\ UNCHANGED ended

\* Nothing is accepted after the end, but what is queued may still go out.
Write(c) ==
    /\ Len(written'[c]) \in (Len(written[c]) + 1)..accepted[c]
    /\ written' = [written EXCEPT ![c] = FirstBytes(Len(written'[c]))]
    /\ UNCHANGED <<accepted, ended>>

End(c) ==
    /\ ended' = [ended EXCEPT ![c] = TRUE]
    /\ UNCHANGED <<accepted, written>>

Next == \E c \in Conns : Accept(c) \/ Write(c) \/ End(c)

Spec == Init /\ [][Next]_vars
=============================================================================
