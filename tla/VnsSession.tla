---------------------------- MODULE VnsSession ----------------------------
(***************************************************************************)
(* The session between lab1's router (sr_main.c, sr_vns_comm.c, sr_if.c,   *)
(* sr_rt.c) and its controller, the POX modules srhandler.py and           *)
(* ofhandler.py: negotiation, hardware information, then frames both ways. *)
(*                                                                         *)
(* Three threads matter. POX's core thread hears the switch: it learns the *)
(* interfaces (RouterInfo) and broadcasts the frames that come in. The     *)
(* reactor thread answers the router's messages. The router reads commands *)
(* from its socket in whatever pieces recv returns. What the router does   *)
(* with a frame is SrArpCache's subject: here it owes at most one frame    *)
(* for each frame it handled, sent by its main or its sweeper thread.      *)
(*                                                                         *)
(* A command to the router is `Size' units on the wire, of which the first *)
(* HeaderUnits carry its length. A frame comes in any size.                *)
(***************************************************************************)
EXTENDS Integers, SequencesExt

CONSTANTS
    Interfaces,   \* the names of the switch's ports that are in ROUTER_IP
    Foreign,      \* other names a routing table may hold
    Port,         \* Port[i]: the OpenFlow port of interface i
    Ip, Mac,      \* Ip[i], Mac[i]: its addresses
    OtherPort,    \* a port of the switch that is not in ROUTER_IP
    Frames,       \* what may come in: whether it is an ARP request, its target,
                  \* and its units in a command
    Unset,        \* no value, or no file
    Bad,          \* a line of the rtable file inet_aton does not take
    Setups,       \* how the router may be started, see Setup
    HeaderUnits,  \* units of the length field,
    BodyUnits,    \* and of the bodies that are no frame's
    MaxLength,    \* units of the longest command the router reads (10000 bytes)
    MaxStarts,    \* times the router is started
    MaxConnects,  \* times the switch connects to the controller
    MaxFrames,    \* frames that come in
    MayStop       \* whether the controller may be stopped

\* -T given, ./auth_key readable, and the rtable file's lines (the interface
\* of each) or Unset when the file is not there.
Setup == [template : BOOLEAN, auth_key : BOOLEAN,
          rtable : Seq(Interfaces \cup Foreign \cup {Bad}) \cup {Unset}]

Interface == [name : Interfaces,
              ip : {Ip[i] : i \in Interfaces} \cup {Unset},
              addr : {Mac[i] : i \in Interfaces} \cup {Unset}]

ASSUME SessionConstants ==
    /\ HeaderUnits \in Nat \ {0}
    /\ BodyUnits \in [{"AUTH_REQUEST", "AUTH_STATUS", "HWINFO"} -> Nat \ {0}]
    /\ MaxLength \in Nat /\ \A t \in DOMAIN BodyUnits : HeaderUnits + BodyUnits[t] <= MaxLength
    /\ \A frame \in Frames : frame.units \in Nat \ {0}
    /\ \A s \in Setups : s \in Setup
    /\ \A i, j \in Interfaces : Port[i] = Port[j] => i = j
    /\ OtherPort \notin {Port[i] : i \in Interfaces}

VARIABLES
    setup,        \* how the router is started
    pc,           \* where the router is
    conn,         \* the router's connection, numbered by its starts
    if_list, routing_table,
    buf,          \* the units of the command being read
    pos,          \* units of the connection the router has read
    handled,      \* how many commands of this connection it has dispatched
    owed,         \* frames it may still send
    up,           \* [conn, msg]: what the controller has not read yet
    sent,         \* the commands sent on this connection, in order
    alive,        \* the controller runs
    open,         \* its end of the router's connection is open
    connects,     \* times the switch connected
    informing,    \* interfaces _handle_RouterInfo has still to enter
    collected,    \* those it has entered, with interfaces in the making
    intfname_to_port, port_to_intfname, interfaces,
    accepting,    \* connections the reactor has not accepted
    greeting,     \* the connection _handle_new_client is about to greet, or 0
    srclients,
    frames,       \* frames that came in
    out           \* frames sent to the switch: [intf, port]

router == <<pc, if_list, routing_table, buf, pos, handled, owed>>
core == <<connects, informing, collected, intfname_to_port, port_to_intfname,
          interfaces, frames>>
reactor == <<accepting, greeting, srclients, out>>
vars == <<setup, conn, router, up, sent, alive, open, core, reactor>>

Negotiating == {"auth_request", "auth_status", "rtable"}
Running == Negotiating \cup {"main"}
Ended == {"exited", "aborted", "killed"}

(***************************************************************************)
(* Commands, as VNSProtocol.py packs them and vnscommand.h unpacks them    *)
(***************************************************************************)

Command(type) == [type |-> type]
VNSPacket(intf, frame) == [type |-> "PACKET", intf |-> intf, frame |-> frame]

\* VNSInterface.pack: the entries of one interface, in their order.
Entries(i) ==
    <<[key |-> "HWINTERFACE", value |-> i], [key |-> "HWSPEED", value |-> 0],
      [key |-> "HWETHER", value |-> Mac[i]], [key |-> "HWETHIP", value |-> Ip[i]],
      [key |-> "HWSUBNET", value |-> 0], [key |-> "HWMASK", value |-> 0]>>

VNSHardwareInfo(is) ==
    [type |-> "HWINFO", entries |-> FlattenSeq([n \in DOMAIN is |-> Entries(is[n])])]

Size(cmd) == HeaderUnits + IF cmd.type = "PACKET" THEN cmd.frame.units ELSE BodyUnits[cmd.type]

\* The bytes of the connection: unit u of the n-th command is <<n, u>>.
Stream == FlattenSeq([n \in DOMAIN sent |-> [u \in 1..Size(sent[n]) |-> <<n, u>>]])

\* conn.send: nothing arrives once the router has closed the connection.
SendTo(c, cmd) ==
    sent' = IF c = conn /\ pc \in Running /\ open THEN Append(sent, cmd) ELSE sent

(***************************************************************************)
(* The router: files, interfaces, routes                                   *)
(***************************************************************************)

\* sr_load_rt: the first good line clears the old table; a bad one ends it.
Loads(file) == file # Unset /\ ~Contains(file, Bad)

sr_load_rt(table, file) == IF file = <<>> THEN table ELSE file

sr_get_interface(list, name) == SelectInSeq(list, LAMBDA i : i.name = name)

\* sr_handle_hwinfo and the setters of sr_if.c: an address goes to the last
\* interface of the list, and there must be one. (Mutant: to the first.)
SetLast_First(list, field, value) == [list EXCEPT ![1][field] = value]
SetLast(list, field, value) == [list EXCEPT ![Len(list)][field] = value]

HandleEntry(list, entry) ==
    CASE entry.key = "HWINTERFACE" ->
             Append(list, [name |-> entry.value, ip |-> Unset, addr |-> Unset])
      [] entry.key = "HWETHER" -> SetLast(list, "addr", entry.value)
      [] entry.key = "HWETHIP" -> SetLast(list, "ip", entry.value)
      [] OTHER -> list

sr_handle_hwinfo(list, cmd) ==
    LET after[n \in 0..Len(cmd.entries)] ==
            IF n = 0 THEN list ELSE HandleEntry(after[n - 1], cmd.entries[n])
    IN  after[Len(cmd.entries)]

sr_verify_routing_table(list, table) ==
    /\ list # <<>> /\ table # <<>>
    /\ \A n \in DOMAIN table : sr_get_interface(list, table[n]) # 0

sr_arp_req_not_for_us(list, cmd) ==
    /\ cmd.frame.request
    /\ cmd.frame.tip # list[sr_get_interface(list, cmd.intf)].ip

(***************************************************************************)
(* The router: reading commands                                            *)
(***************************************************************************)

\* ntohl(len), from the first units: only a header in one piece gives a length.
Header(n) == [u \in 1..HeaderUnits |-> <<n, u>>]
Length(b) == IF SubSeq(b, 1, HeaderUnits) = Header(b[1][1])
             THEN Size(sent[b[1][1]]) ELSE HeaderUnits

\* Mutant: the length is taken for the body's alone.
Wanted_BodyOnly(b) ==
    IF Len(b) < HeaderUnits THEN HeaderUnits - Len(b)
    ELSE Length(b) + HeaderUnits - Len(b)

\* What the next recv or read asks for: it never reads past its command.
Wanted(b) == IF Len(b) < HeaderUnits THEN HeaderUnits - Len(b) ELSE Length(b) - Len(b)

Complete(b) == Len(b) >= HeaderUnits /\ Wanted(b) = 0

\* Of a length the controller sends, only the upper limit can be exceeded.
TooLong(b) == Len(b) >= HeaderUnits /\ Length(b) > MaxLength

\* The command in the buffer: any other mixture of bytes is of no known type.
Received(b) == IF b = [u \in 1..Size(sent[b[1][1]]) |-> <<b[1][1], u>>]
               THEN sent[b[1][1]] ELSE Command("garbled")

\* One recv or read of sr_read_from_server_expect. At the end of the stream it
\* returns 0 and the loops go round for ever, with nothing changed.
Recv ==
    /\ pc \in Running
    /\ ~Complete(buf) /\ ~TooLong(buf)
    /\ \E n \in 1..Wanted(buf) :
          /\ pos + n <= Len(Stream)
          /\ buf' = buf \o SubSeq(Stream, pos + 1, pos + n)
          /\ pos' = pos + n
    /\ UNCHANGED <<setup, conn, pc, if_list, routing_table, handled, owed, up,
                   sent, alive, open, core, reactor>>

\* recv returns -1: the controller went away with messages unread.
RecvFails ==
    /\ pc \in Running /\ ~Complete(buf) /\ ~TooLong(buf)
    /\ ~open /\ \E n \in DOMAIN up : up[n].conn = conn
    /\ pc' = "exited"
    /\ UNCHANGED <<setup, conn, if_list, routing_table, buf, pos, handled, owed,
                   up, sent, alive, open, core, reactor>>

\* The length that was read is too large: the router closes its socket and ends.
LengthRefused ==
    /\ pc \in Running /\ TooLong(buf)
    /\ pc' = "exited"
    /\ UNCHANGED <<setup, conn, if_list, routing_table, buf, pos, handled, owed,
                   up, sent, alive, open, core, reactor>>

Send(msg) == up' = IF open THEN Append(up, [conn |-> conn, msg |-> msg]) ELSE up

Exit == pc' = "exited" /\ UNCHANGED <<if_list, routing_table, owed, up>>

\* sr_connect_to_server up to the first read that fails its expectation:
\* any other command than the one expected ends the program, VNSCLOSE too.
Unexpected(cmd) ==
    /\ pc \in Negotiating
    /\ cmd.type # CASE pc = "auth_request" -> "AUTH_REQUEST"
                    [] pc = "auth_status"  -> "AUTH_STATUS"
                    [] pc = "rtable"       -> "RTABLE"
    /\ Exit

\* sr_handle_auth_request: the answer needs ./auth_key.
HandleAuthRequest(cmd) ==
    /\ pc = "auth_request" /\ cmd.type = "AUTH_REQUEST"
    /\ IF setup.auth_key
       THEN /\ Send(Command("AUTH_REPLY"))
            /\ pc' = "auth_status"
            /\ UNCHANGED <<if_list, routing_table, owed>>
       ELSE Exit

\* Authenticated: OPEN, then main loads the table again and starts the router;
\* or OPEN_TEMPLATE, and the table is to come.
HandleAuthStatus(cmd) ==
    /\ pc = "auth_status" /\ cmd.type = "AUTH_STATUS"
    /\ Send(Command(IF setup.template THEN "OPEN_TEMPLATE" ELSE "OPEN"))
    /\ pc' = IF setup.template THEN "rtable" ELSE "main"
    /\ routing_table' = IF setup.template THEN routing_table
                        ELSE sr_load_rt(routing_table, setup.rtable)
    /\ UNCHANGED <<if_list, owed>>

HandleHwInfo(cmd) ==
    /\ pc = "main" /\ cmd.type = "HWINFO"
    /\ if_list' = sr_handle_hwinfo(if_list, cmd)
    /\ pc' = IF sr_verify_routing_table(if_list', routing_table) THEN "main" ELSE "exited"
    /\ UNCHANGED <<routing_table, owed, up>>

\* assert(iface): a frame on an interface the router does not know.
HandlePacket(cmd) ==
    /\ pc = "main" /\ cmd.type = "PACKET"
    /\ IF sr_get_interface(if_list, cmd.intf) = 0
       THEN pc' = "aborted" /\ UNCHANGED owed
       ELSE /\ owed' = IF sr_arp_req_not_for_us(if_list, cmd) THEN owed ELSE owed + 1
            /\ UNCHANGED pc
    /\ UNCHANGED <<if_list, routing_table, up>>

\* The switch of sr_read_from_server_expect. What the controller never sends
\* (VNSBANNER, VNSCLOSE, VNS_RTABLE) has no action here.
Dispatch ==
    /\ pc \in Running
    /\ Complete(buf)
    /\ LET cmd == Received(buf) IN
          \/ Unexpected(cmd) \/ HandleAuthRequest(cmd) \/ HandleAuthStatus(cmd)
          \/ HandleHwInfo(cmd) \/ HandlePacket(cmd)
    /\ handled' = handled + 1
    /\ buf' = <<>>
    /\ UNCHANGED <<setup, conn, pos, sent, alive, open, core, reactor>>

(***************************************************************************)
(* The router: starting, sending, ending                                   *)
(***************************************************************************)

\* main up to the first read: sr_init_instance, the routing table unless it is
\* to come with a template, and connect.
Start ==
    /\ pc \notin Running /\ conn < MaxStarts
    /\ conn' = conn + 1
    /\ LET loaded == setup.template \/ Loads(setup.rtable) IN
          /\ pc' = IF loaded /\ alive THEN "auth_request" ELSE "exited"
          /\ open' = (loaded /\ alive)
          /\ accepting' = IF loaded /\ alive THEN accepting \cup {conn'} ELSE accepting
          /\ routing_table' = IF setup.template \/ ~loaded THEN <<>>
                              ELSE sr_load_rt(<<>>, setup.rtable)
    /\ if_list' = <<>> /\ buf' = <<>> /\ pos' = 0
    /\ handled' = 0 /\ owed' = 0 /\ sent' = <<>>
    /\ UNCHANGED <<setup, up, alive, core, greeting, srclients, out>>

\* sr_send_packet, with the source address sr_ether_addrs_match_interface
\* asks for. To a controller that is gone the write is lost, or kills.
sr_send_packet(name) ==
    /\ pc = "main" /\ owed > 0
    /\ sr_get_interface(if_list, name) # 0
    /\ owed' = owed - 1
    /\ Send([type |-> "PACKET", intf |-> name])
    /\ pc' \in IF open THEN {pc} ELSE {pc, "killed"}
    /\ UNCHANGED <<setup, conn, if_list, routing_table, buf, pos, handled, sent,
                   alive, open, core, reactor>>

(***************************************************************************)
(* The controller's core thread                                            *)
(***************************************************************************)

\* Mutant: a switch that connects again starts from empty maps.
ConnectionUp_Clears ==
    /\ alive /\ informing = {} /\ collected = <<>>
    /\ connects < MaxConnects
    /\ connects' = connects + 1
    /\ informing' = Interfaces
    /\ intfname_to_port' = [i \in Interfaces |-> Unset]
    /\ interfaces' = Unset
    /\ UNCHANGED <<setup, conn, router, up, sent, alive, open, collected,
                   port_to_intfname, frames, reactor>>

\* _handle_ConnectionUp: OFHandler finds the router's ports among the switch's
\* and raises RouterInfo.
ConnectionUp ==
    /\ alive /\ informing = {} /\ collected = <<>>
    /\ connects < MaxConnects
    /\ connects' = connects + 1
    /\ informing' = Interfaces
    /\ UNCHANGED <<setup, conn, router, up, sent, alive, open, collected,
                   intfname_to_port, port_to_intfname, interfaces, frames, reactor>>

\* One turn of _handle_RouterInfo's loop, in the order of the keys of a dict.
RouterInfoEntry(i) ==
    /\ alive /\ i \in informing
    /\ informing' = informing \ {i}
    /\ collected' = Append(collected, i)
    /\ intfname_to_port' = [intfname_to_port EXCEPT ![i] = Port[i]]
    /\ port_to_intfname' = [port_to_intfname EXCEPT ![Port[i]] = i]
    /\ UNCHANGED <<setup, conn, router, up, sent, alive, open, connects,
                   interfaces, frames, reactor>>

RouterInfoStored ==
    /\ alive /\ informing = {} /\ collected # <<>>
    /\ interfaces' = collected
    /\ collected' = <<>>
    /\ UNCHANGED <<setup, conn, router, up, sent, alive, open, connects, informing,
                   intfname_to_port, port_to_intfname, frames, reactor>>

\* _handle_PacketIn and _handle_SRPacketIn: a frame of a known port goes to
\* every client, however far its negotiation is.
PacketIn(port, frame) ==
    /\ alive /\ connects > 0 /\ informing = {} /\ collected = <<>>
    /\ frames < MaxFrames
    /\ frames' = frames + 1
    /\ IF port_to_intfname[port] # Unset /\ conn \in srclients
       THEN SendTo(conn, VNSPacket(port_to_intfname[port], frame))
       ELSE UNCHANGED sent
    /\ UNCHANGED <<setup, conn, router, up, alive, open, connects, informing,
                   collected, intfname_to_port, port_to_intfname, interfaces, reactor>>

(***************************************************************************)
(* The controller's reactor thread                                         *)
(***************************************************************************)

\* _handle_new_client enters the client, then sends what the router waits for.
NewClient(c) ==
    /\ alive /\ greeting = 0 /\ c \in accepting
    /\ accepting' = accepting \ {c}
    /\ srclients' = srclients \cup {c}
    /\ greeting' = c
    /\ UNCHANGED <<setup, conn, router, up, sent, alive, open, core, out>>

GreetClient ==
    /\ alive /\ greeting # 0
    /\ SendTo(greeting, Command("AUTH_REQUEST"))
    /\ greeting' = 0
    /\ UNCHANGED <<setup, conn, router, up, alive, open, core, accepting, srclients, out>>

\* Mutant: an OPEN is answered whatever is known.
Answer_Always(c, msg) ==
    CASE msg.type = "AUTH_REPLY" -> SendTo(c, Command("AUTH_STATUS"))
      [] msg.type = "OPEN" ->
             SendTo(c, VNSHardwareInfo(IF interfaces = Unset THEN <<>> ELSE interfaces))
      [] OTHER -> UNCHANGED sent

\* _handle_open_msg: an attribute that is not there yet raises, and the
\* exception is swallowed.
Answer(c, msg) ==
    CASE msg.type = "AUTH_REPLY" -> SendTo(c, Command("AUTH_STATUS"))
      [] msg.type = "OPEN" /\ interfaces # Unset -> SendTo(c, VNSHardwareInfo(interfaces))
      [] OTHER -> UNCHANGED sent

\* _handle_recv_msg. There is no _handle_open_template_msg: the exception ends
\* the connection. A frame leaves on its interface's port (SRPacketOut).
RecvMsg ==
    /\ alive /\ greeting = 0 /\ up # <<>>
    /\ LET c == Head(up).conn  msg == Head(up).msg IN
          /\ Answer(c, msg)
          /\ open' = (open /\ ~(msg.type = "OPEN_TEMPLATE" /\ c = conn))
          /\ out' = IF msg.type = "PACKET"
                    THEN Append(out, [intf |-> msg.intf, port |-> intfname_to_port[msg.intf]])
                    ELSE out
    /\ up' = Tail(up)
    /\ UNCHANGED <<setup, conn, router, alive, core, accepting, greeting, srclients>>

\* The operator stops POX.
ControllerStops ==
    /\ MayStop /\ alive
    /\ alive' = FALSE /\ open' = FALSE
    /\ UNCHANGED <<setup, conn, router, up, sent, core, reactor>>

(***************************************************************************)
(* The specification                                                       *)
(***************************************************************************)

Init ==
    /\ setup \in Setups
    /\ pc = "off" /\ conn = 0
    /\ if_list = <<>> /\ routing_table = <<>>
    /\ buf = <<>> /\ pos = 0 /\ handled = 0 /\ owed = 0
    /\ up = <<>> /\ sent = <<>>
    /\ alive = TRUE /\ open = FALSE
    /\ connects = 0 /\ informing = {} /\ collected = <<>>
    /\ intfname_to_port = [i \in Interfaces |-> Unset]
    /\ port_to_intfname = [p \in {Port[i] : i \in Interfaces} \cup {OtherPort} |-> Unset]
    /\ interfaces = Unset /\ frames = 0
    /\ accepting = {} /\ greeting = 0 /\ srclients = {} /\ out = <<>>

RouterReads == Recv \/ RecvFails \/ LengthRefused \/ Dispatch

CoreInforms == ConnectionUp \/ (\E i \in Interfaces : RouterInfoEntry(i)) \/ RouterInfoStored

Reactor == (\E c \in accepting : NewClient(c)) \/ GreetClient \/ RecvMsg

Next ==
    \/ Recv \/ RecvFails \/ LengthRefused \/ Dispatch \/ Start
    \/ \E name \in Interfaces : sr_send_packet(name)
    \/ ConnectionUp \/ RouterInfoStored
    \/ \E i \in Interfaces : RouterInfoEntry(i)
    \/ \E port \in DOMAIN port_to_intfname, frame \in Frames : PacketIn(port, frame)
    \/ \E c \in accepting : NewClient(c)
    \/ GreetClient \/ RecvMsg \/ ControllerStops

Spec == Init /\ [][Next]_vars

\* The router's loop and POX's two threads run while they have something to do.
\* Nothing makes frames come in or an operator start or stop anything.
FairSpec == Spec /\ WF_vars(RouterReads) /\ WF_vars(CoreInforms) /\ WF_vars(Reactor)

(***************************************************************************)
(* Properties                                                              *)
(***************************************************************************)

Ready == pc = "main" /\ if_list # <<>>

\* However recv cuts the stream, and whichever of POX's threads wrote first, what
\* the router is reading is always the next command that was sent, from its
\* first unit on (sr_read_from_server_expect's two loops).
WholeCommands ==
    pc \in Running => buf = [u \in 1..Len(buf) |-> <<handled + 1, u>>]

\* A router that says "Ready to process packets" has the switch's interfaces,
\* each with its own two addresses, and a routing table that uses no others.
ReadyIsConfigured ==
    Ready => /\ ToSet(if_list) = {[name |-> i, ip |-> Ip[i], addr |-> Mac[i]] : i \in Interfaces}
             /\ Len(if_list) = Cardinality(Interfaces)
             /\ ToSet(routing_table) \subseteq Interfaces /\ routing_table # <<>>

\* A frame reached this connection before the hardware information did.
EarlyFrame ==
    \E n \in DOMAIN sent :
        /\ sent[n].type = "PACKET"
        /\ \A m \in 1..n : sent[m].type # "HWINFO"

\* A frame for this connection was longer than the router reads: ofhandler.py:69
\* has the switch send up to 20000 bytes of one.
LongFrame ==
    \E n \in DOMAIN sent : sent[n].type = "PACKET" /\ Size(sent[n]) > MaxLength

WellSetUp ==
    /\ setup.auth_key
    /\ \/ setup.template
       \/ /\ Loads(setup.rtable) /\ setup.rtable # <<>>
          /\ ToSet(setup.rtable) \subseteq Interfaces

\* The router ends only for a reason: its files, a controller that stopped, a
\* frame that overtook the negotiation (expected_cmd, assert(iface)), or one that
\* is longer than it reads (sr_vns_comm.c:372).
EndsForAReason ==
    pc \in Ended => ~WellSetUp \/ ~alive \/ EarlyFrame \/ LongFrame

\* A router that connects to a controller that knows the switch becomes ready,
\* unless a frame overtakes the negotiation or somebody stops something.
InformedStartBecomesReady ==
    (pc = "auth_request" /\ interfaces # Unset)
        ~> (Ready \/ EarlyFrame \/ ~alive \/ ~WellSetUp \/ setup.template)
=============================================================================
