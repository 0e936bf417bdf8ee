----------------------------- MODULE CtcpServer -----------------------------
(***************************************************************************)
(* A cTCP server and several clients: the part of do_loop that serves a    *)
(* list of connections. The library keeps config->connections and the      *)
(* handlers keep state_list, both with the newest first, and they do not   *)
(* agree on which connections they serve: recv_filter looks for a client   *)
(* in connections, ctcp_timer serves the front of state_list alone, and    *)
(* freeing the front of connections empties it.                            *)
(*                                                                         *)
(* Every client has an orderly link to the server and one back, as in      *)
(* CtcpLink; conn_send may drop a segment, up to MaxDrops of them. Program *)
(* or standard output take all they are given. The log file, fp, is one    *)
(* for the whole server: ctcp_init opens it and the first FIN closes it.   *)
(***************************************************************************)
EXTENDS Ctcp, SequencesExt

CONSTANTS
    Clients,      \* numbered in the order they are started
    ClientInput,  \* how many bytes each client's standard input holds
    ServerInput,  \* how many the server's holds
    RecvWindow,   \* the receive window of everyone (-w)
    ClosesLast,   \* the server's input ends after the newest client's did
    MaxNumClients,
    MaxDrops,     \* how many segments conn_send drops
    Undefined     \* what undefined behaviour may do to the server

ASSUME ServerConstants ==
    /\ Clients \in SUBSET (Nat \ {0}) /\ IsFiniteSet(Clients)
    /\ ClientInput \in [Clients -> Nat]
    /\ ServerInput \in Nat /\ RecvWindow \in Nat
    /\ MaxNumClients \in Nat /\ MaxDrops \in Nat
    /\ ClosesLast \in BOOLEAN
    /\ Undefined \subseteq {"ignored", "crash"} /\ Undefined # {}

Nobody == 0

VARIABLES
    phase,          \* phase[c]: how far client c is with connecting
    client,         \* client[c]: c's end of its connection
    server,         \* server[c]: the server's end of it
    connections,    \* config->connections, the newest client first
    state_list,     \* the connection states, the newest first
    num_connected,
    new_connection, \* the client whose handshake ACK is awaited, or Nobody
    log_open,       \* fp is open
    toServer,       \* toServer[c], toClient[c]: what is on its way
    toClient,
    drops,
    crashed         \* the server died

lists == <<connections, state_list, num_connected, new_connection>>
vars == <<phase, client, server, lists, log_open, toServer, toClient, drops,
          crashed>>

\* The segments of the handshake, which do not go through conn_send.
Syn == [seqno |-> 0, ackno |-> 0, flags |-> {"SYN"}, window |-> RecvWindow,
        data |-> <<>>]
SynAck == [Syn EXCEPT !.flags = {"SYN", "ACK"}, !.ackno = 1]
HandshakeAck == [seqno |-> 1, ackno |-> 1, flags |-> {"ACK"},
                 window |-> RecvWindow, data |-> <<>>]

TypeOK ==
    /\ phase \in [Clients -> {"new", "handshake", "connected", "refused"}]
    /\ client \in [Clients -> HostState] /\ server \in [Clients -> HostState]
    /\ connections \in Seq(Clients) /\ state_list \in Seq(Clients)
    /\ num_connected \in 0..MaxNumClients
    /\ new_connection \in Clients \cup {Nobody}
    /\ log_open \in BOOLEAN /\ crashed \in BOOLEAN
    /\ toServer \in [Clients -> Seq(Segment \cup {Syn})]
    /\ toClient \in [Clients -> Seq(Segment \cup {SynAck})]
    /\ drops \in 0..MaxDrops

Init ==
    /\ phase = [c \in Clients |-> "new"]
    /\ client = [c \in Clients |-> ctcp_init(RecvWindow, RecvWindow)]
    /\ server = client
    /\ connections = <<>> /\ state_list = <<>>
    /\ num_connected = 0 /\ new_connection = Nobody
    /\ log_open = FALSE /\ crashed = FALSE
    /\ toServer = [c \in Clients |-> <<>>]
    /\ toClient = toServer
    /\ drops = 0

-----------------------------------------------------------------------------
\* Connecting

\* The client sends its SYN and waits.
Connect(c) ==
    /\ phase[c] = "new"
    /\ \A d \in Clients : d < c => phase[d] # "new"
    /\ phase' = [phase EXCEPT ![c] = "handshake"]
    /\ toServer' = [toServer EXCEPT ![c] = Append(@, Syn)]
    /\ UNCHANGED <<client, server, lists, log_open, toClient, drops, crashed>>

\* Mutant: the new state goes to the end of state_list.
AddState_Last(c) == state_list' = Append(state_list, c)

\* ctcp_init puts the new state at the front of state_list.
AddState(c) == state_list' = <<c>> \o state_list

Refused == num_connected >= MaxNumClients

\* A SYN reached the server, with whom the client has no connection yet.
\* new_connection is set even when the client was refused.
tcp_new_connection(c) ==
    /\ ~crashed
    /\ toServer[c] # <<>> /\ Head(toServer[c]) = Syn
    /\ toServer' = [toServer EXCEPT ![c] = Tail(@)]
    /\ new_connection' = c
    /\ \/ /\ Refused
          /\ UNCHANGED <<server, connections, state_list, num_connected,
                         log_open, toClient>>
       \/ /\ ~Refused
          /\ num_connected' = num_connected + 1
          /\ connections' = <<c>> \o connections
          /\ AddState(c)
          /\ server' = [server EXCEPT ![c] = ctcp_init(RecvWindow, Syn.window)]
          /\ log_open' = TRUE
          /\ toClient' = [toClient EXCEPT ![c] = Append(@, SynAck)]
    /\ UNCHANGED <<phase, client, drops, crashed>>

\* The rest of tcp_handshake: the client is connected when the SYN-ACK is here.
tcp_handshake(c) ==
    /\ phase[c] = "handshake"
    /\ toClient[c] # <<>>
    /\ toClient' = [toClient EXCEPT ![c] = Tail(@)]
    /\ client' = [client EXCEPT ![c] =
                    ctcp_init(RecvWindow, Head(toClient[c]).window)]
    /\ toServer' = [toServer EXCEPT ![c] = Append(@, HandshakeAck)]
    /\ phase' = [phase EXCEPT ![c] = "connected"]
    /\ UNCHANGED <<server, lists, log_open, drops, crashed>>

\* It waits CONN_TIMEOUT seconds, longer than an answer takes.
HandshakeTimeout(c) ==
    /\ phase[c] = "handshake"
    /\ toServer[c] = <<>> /\ toClient[c] = <<>>
    /\ phase' = [phase EXCEPT ![c] = "refused"]
    /\ UNCHANGED <<client, server, lists, log_open, toServer, toClient, drops,
                   crashed>>

-----------------------------------------------------------------------------
\* The handlers of a client

\* What conn_send lets through of what a handler sends.
Passed(wire, dropped) ==
    IF dropped \in DOMAIN wire THEN RemoveAt(wire, dropped) ELSE wire

Drop(wire, dropped) ==
    \/ dropped = 0 /\ UNCHANGED drops
    \/ /\ dropped \in DOMAIN wire
       /\ drops < MaxDrops /\ drops' = drops + 1

ClientOpen(c) == phase[c] = "connected" /\ client[c].status = "open"

\* The handler of c ended in state `s', with `rest' still on its way to c.
ClientHandled(c, s, rest) ==
    /\ \E dropped \in 0..Len(s.wire) :
         /\ Drop(s.wire, dropped)
         /\ toServer' = [toServer EXCEPT ![c] = @ \o Passed(s.wire, dropped)]
    /\ client' = [client EXCEPT ![c] = [s EXCEPT !.wire = <<>>]]
    /\ toClient' = [toClient EXCEPT ![c] = rest]
    /\ UNCHANGED <<phase, server, lists, log_open, crashed>>

ClientRead(c) ==
    /\ ClientOpen(c) /\ CanRead(client[c])
    /\ \/ \E count \in 1..MaxSegDataSize, throttled \in BOOLEAN :
            /\ client[c].inputted + count <= ClientInput[c]
            /\ ClientHandled(c, ctcp_read(client[c], count, throttled),
                             toClient[c])
       \/ /\ client[c].inputted = ClientInput[c]
          /\ ClientHandled(c, ctcp_read_eof(client[c]), toClient[c])

\* A segment for a client that has ended goes nowhere.
ClientReceive(c) ==
    /\ phase[c] = "connected" /\ toClient[c] # <<>>
    /\ LET seg == Head(toClient[c])
       IN  ClientHandled(c, IF ClientOpen(c)
                            THEN ctcp_receive(client[c], seg, Len(seg.data))
                            ELSE client[c], Tail(toClient[c]))

\* A round trip is shorter than rt_timeout, but the first expiry may come at
\* any tick, as in CtcpLink.
MayExpire(c, s) ==
    s.retrans_count = 0 \/ (toServer[c] = <<>> /\ toClient[c] = <<>>)

ClientTimer(c) ==
    /\ ClientOpen(c)
    /\ \E expired \in BOOLEAN :
         /\ expired => MayExpire(c, client[c])
         /\ ClientHandled(c, ctcp_timer(client[c], expired, "ignored"),
                          toClient[c])

-----------------------------------------------------------------------------
\* The handlers of the server

\* The server's handler for c ended in `s': it may have died by itself, or have
\* used memory or the log after they were released, which is undefined. `rest'
\* is still on its way from c.
ServerHandled(c, s, rest, stale) ==
    /\ \E dropped \in 0..Len(s.wire) :
         /\ Drop(s.wire, dropped)
         /\ toClient' = [toClient EXCEPT ![c] = @ \o Passed(s.wire, dropped)]
    /\ server' = [server EXCEPT ![c] = [s EXCEPT !.wire = <<>>]]
    /\ toServer' = [toServer EXCEPT ![c] = rest]
    /\ \E effect \in (IF stale THEN Undefined ELSE {"ignored"}) :
         crashed' = (effect = "crash" \/ s.status = "crashed")
    /\ UNCHANGED <<phase, client>>

\* do_loop reads standard input for the newest client only.
IsNewest(c) == connections # <<>> /\ Head(connections) = c

InputLeft ==
    ServerInput - FoldSet(LAMBDA c, n : n + server[c].inputted, 0, Clients)

ServerRead(c) ==
    /\ ~crashed /\ IsNewest(c) /\ CanRead(server[c])
    /\ \/ \E count \in 1..MaxSegDataSize, throttled \in BOOLEAN :
            /\ count <= InputLeft
            /\ ServerHandled(c, ctcp_read(server[c], count, throttled),
                             toServer[c], ~throttled /\ ~log_open)
       \/ /\ InputLeft = 0
          /\ ClosesLast => server[c].wrote_eof
          /\ ServerHandled(c, ctcp_read_eof(server[c]), toServer[c], FALSE)
    /\ UNCHANGED <<lists, log_open>>

\* The first segment that looks like the ACK of the newest client's handshake
\* is thrown away.
IsHandshakeAck(c, seg) ==
    c = new_connection /\ "ACK" \in seg.flags /\ seg.seqno = 1 /\ seg.ackno = 1

\* Mutant: the awaited client is not forgotten.
Awaited_Kept == UNCHANGED new_connection

Awaited == new_connection' = Nobody

\* recv_filter drops the segment of a client that is not in connections.
ServerReceive(c) ==
    /\ toServer[c] # <<>>
    /\ Head(toServer[c]) = Syn => crashed
    /\ LET seg == Head(toServer[c])
           rest == Tail(toServer[c])
       IN  \/ /\ crashed \/ c \notin Range(connections)
              /\ toServer' = [toServer EXCEPT ![c] = rest]
              /\ UNCHANGED <<phase, client, server, lists, toClient, drops,
                             crashed>>
           \/ /\ ~crashed /\ c \in Range(connections) /\ IsHandshakeAck(c, seg)
              /\ Awaited
              /\ toServer' = [toServer EXCEPT ![c] = rest]
              /\ UNCHANGED <<phase, client, server, connections, state_list,
                             num_connected, toClient, drops, crashed>>
           \/ /\ ~crashed /\ c \in Range(connections) /\ ~IsHandshakeAck(c, seg)
              /\ ServerHandled(c, ctcp_receive(server[c], seg, Len(seg.data)),
                               rest, FALSE)
              /\ UNCHANGED lists
    /\ UNCHANGED log_open

\* Mutant: the oldest connection's state is served.
Served_Oldest == Last(state_list)

\* ctcp_timer looks at the newest state only.
Served == Head(state_list)

\* A node of a list is made to skip c.
Unlink(list, c) ==
    IF c \in Range(list)
    THEN RemoveAt(list, CHOOSE i \in DOMAIN list : list[i] = c)
    ELSE list

\* conn_free, called for the connection that ctcp_destroy has marked. The list
\* is emptied when it is the first: the older clients are no longer in it.
conn_free(c) ==
    connections' = IF IsNewest(c) THEN <<>> ELSE Unlink(connections, c)

\* ctcp_timer, and delete_all_connections after it. Closing the log a second
\* time, or writing to it when it is closed, is a use of a closed file; and the
\* prev of the first connection is the address of a local variable of conn_add,
\* which has returned, but conn_free stores through it.
ServerTimer ==
    /\ ~crashed /\ state_list # <<>>
    /\ \E expired \in BOOLEAN :
         LET c == Served
             s == server[c]
             t == ctcp_timer(s, expired, "ignored")
             closes == t.FIN_sent /\ ~s.FIN_sent
             writes == t.retrans_count > s.retrans_count
         IN  /\ expired => MayExpire(c, s)
             /\ ServerHandled(c, t, toServer[c],
                  \/ ~log_open /\ (closes \/ writes)
                  \/ closes /\ writes
                  \/ t.status # "open" /\ IsNewest(c))
             /\ log_open' = (log_open /\ ~closes)
             /\ \/ t.status = "open" /\ UNCHANGED <<connections, state_list>>
                \/ /\ t.status # "open"
                   /\ state_list' = Unlink(state_list, c)
                   /\ conn_free(c)
    /\ UNCHANGED <<num_connected, new_connection>>

-----------------------------------------------------------------------------
Client(c) ==
    \/ tcp_handshake(c) \/ HandshakeTimeout(c)
    \/ ClientRead(c) \/ ClientReceive(c) \/ ClientTimer(c)

Server ==
    \/ \E c \in Clients : tcp_new_connection(c) \/ ServerRead(c) \/ ServerReceive(c)
    \/ ServerTimer

Next == (\E c \in Clients : Connect(c) \/ Client(c)) \/ Server

Spec == Init /\ [][Next]_vars

\* Every process runs: its do_loop does something when there is something to
\* do. A client may never be started.
FairSpec == Spec /\ (\A c \in Clients : WF_vars(Client(c))) /\ WF_vars(Server)

-----------------------------------------------------------------------------
\* Every connection that do_loop serves still has its state: the two lists are
\* changed by different files, and conn->state is not reset when ctcp_destroy
\* frees it, yet no handler is called with a freed state.
ServedHaveState == IsPrefix(connections, state_list)

\* Whoever reads input, and may then log the segment it sends (ctcp_send_data),
\* finds the log open, though another connection's FIN closes it.
LogIsOpenToRead == \A c \in Clients : IsNewest(c) /\ CanRead(server[c]) => log_open

\* The segment do_loop throws away as an ACK of the handshake, which it looks for
\* once recv_filter has found the connection, carries no data and no FIN, though
\* any segment with these numbers is taken for one and another client may
\* connect in between.
OnlyHandshakeIsSwallowed ==
    \A c \in Range(connections) :
        LET q == toServer[c]
        IN  ~crashed /\ q # <<>> /\ IsHandshakeAck(c, Head(q)) => Head(q) = HandshakeAck

\* However the clients' lives overlap, the newest one is served to its end:
\* while nothing is lost nobody stays in connections for ever.
NewestIsServed == [](drops = 0) => <>[](connections = <<>> \/ crashed)
=============================================================================
