# CSCI551 Labs in TLA+

A formal model of the two programs of this repository that have logic of their
own: **cTCP** (`src/lab4/ctcp`), a small transport protocol over a simulated
lossy network, and the **simple router** (`src/lab1/router/router`), an IPv4
router with a routing table and an ARP cache, with the controller it talks to
(`src/lab1/router/pox_module`). Labs 0, 2 and 3 are topologies,
configurations of third-party routers and scripts; they contain no program logic.

Line numbers below are those of the repository's files.

## 1. The system

### cTCP

| part | state | operations | talks to |
|---|---|---|---|
| endpoint `ctcp.c` | `ctcp_state_t`: retransmission queue `segments`, `seqno`, `next_seqno`, `ackno`, windows, the flags of the teardown, `retrans_count` | `ctcp_init`, `ctcp_read`, `ctcp_receive`, `ctcp_output`, `ctcp_timer`, `ctcp_destroy` | called back by the library; calls `conn_input`, `conn_send`, `conn_output`, `conn_bufspace`, `bbr_send` |
| connection I/O `ctcp_sys_internal.c` | `conn_t`: `out_queue` of chunks, `read_eof`, `wrote_eof`, `wrote_err` | `conn_input`, `conn_send` (with simulated drop, duplicate, delay, corrupt), `conn_output`, `conn_drain`, `conn_bufspace` | standard input and output, raw or Unix socket |
| event loop `do_loop` | poll events, `config->connections`, `new_connection`, time of the last timer, the pipes of a program for each client | polls, reads, drains, receives, calls `ctcp_timer` every 40 ms, deletes connections, starts programs | every handler above |
| handshake | initial windows, `num_connected` | `tcp_handshake`, `tcp_new_connection` | once for each client, before any other step of it |
| list of states `ctcp.c` | `state_list`, the log `fp` | `ctcp_init`, `ctcp_timer`, `ctcp_destroy` | one for the whole server |
| BBR `ctcp_bbr.c` | mode, gains, two filters, `inflight`, `nextSendTime` | `bbr_send`, `bbr_onAck`, filters | called by `ctcp_read` and `ctcp_receive`, calls `ctcp_send_data`; `ctcp_timer` changes `inflight` too |
| linked list | nodes | `ll_add`, `ll_front`, `ll_remove`, `ll_length` | holds `segments` |

What makes it hard: an acknowledgement may be old, duplicated or reordered;
either side closes when it likes; a partial `write` leaves output to be drained
between two segments; the receiver acknowledges bytes before they are written;
the timer may fire while an acknowledgement is on its way; all connections of a
server share one standard output, one POLLOUT event and one log; a write to a
program sleeps. What makes it
correct: each side's output is a prefix of the other side's input (assignment.md:81),
nothing is released from the retransmission queue before it is accepted, the FIN
ends the stream, a side that finished has everything, a transfer ends, what is
queued is written, and BBR's books agree with the retransmission queue.

### Simple router

| part | state | operations | talks to |
|---|---|---|---|
| packet handling `sr_router.c` | none of its own | `sr_handlepacket`, `sr_handle_ip_packet`, `sr_handle_my_ip_packet`, `sr_send_icmp`, `sr_send_icmp3`, `sr_send_ip` | routing table, ARP cache, VNS client |
| routing table `sr_rt.c` | the list of routes | `longest_prefix_match`; loading once | packet handling |
| interfaces `sr_if.c` | the list of interfaces | look-ups; filled once by the VNS server | packet handling |
| ARP cache `sr_arpcache.c` | `entries[100]`, the list of requests with the packets that wait for them, a recursive lock | `sr_attempt_send`, `sr_arpcache_lookup`, `_queuereq`, `_insert`, `sr_arpreq_destroy`, `sr_handle_arpreq`, `sr_recv_arp`, `sr_arpcache_sweepreqs`, `sr_arpcache_timeout` | **two threads**: the main one, which handles packets, and the sweeper, about once a second |
| VNS client `sr_vns_comm.c`, `sr_main.c` | a TCP socket to the controller, the command being read, how far the negotiation is | connect, authenticate, read a command, send a packet | POX |
| POX modules `pox_module/cs144` | the interface table, the maps of ports, the clients | `srhandler.py`, `ofhandler.py`: translate between OpenFlow and VNS messages, in **two threads**: POX's core and the reactor | Mininet, the router |
| NAT `sr_nat.c` | | a stub nobody calls | |

What makes it hard: `sr_handle_arpreq` and what it calls use a request without
the lock that protects it, from two threads; giving a request up sends ICMP
packets, which may queue on another request, or on the same one; requests are
freed while pointers to them are held; the cache may be full; `recv` returns any
part of a command; frames are broadcast to a router that is still negotiating; the
switch may connect before, after or twice. What makes it
correct: a packet is dropped only when its next hop cannot be determined
(assignment.md:235), each is sent or answered by a host unreachable message and
not both, an address is asked for five times
(or more, but only after both threads asked at once), every wait and every sweep ends;
commands stay whole, a router that says it is ready is configured, and it ends only
for a reason.

## 2. Modules

```
Ctcp            the handlers of one endpoint, as operators on its record
 +- CtcpHandlers     lemmas: what each handler does to a record
 +- CtcpNet     two endpoints, a network that loses, repeats, reorders, corrupts
 |   +- CtcpStream   the abstract service: two byte streams (INSTANCE in CtcpNet)
 |   +- MCCtcpNet    values for TLC
 |   +- CtcpLink     the same over an orderly network with a bounded loss; liveness
 |       +- CtcpProof    theorems about CtcpNet and CtcpLink: queue, FIN, window, output;
 |       |               the refinements
 |       +- MCCtcpLink
 +- CtcpBbr     a one-way transfer with a clock, paced by BBR
     +- CtcpBbrProof     theorems about inflight, the filters and the window
     +- MCCtcpBbr
 +- CtcpServer  a server and several clients, handshake and connection lists
     +- CtcpServerProof       theorems about the lists, the log and the handshake
     +- MCCtcpServer
Bbr             struct ctcp_bbr, operators on its record (EXTENDed by CtcpBbr)
ConnIO          the library below the handlers: chunks, events, pipes, programs
 +- OutputFifo  what its output promises: a queue of bytes (INSTANCE in ConnIO)
 +- ConnIOProof     theorems about it; the refinement of OutputFifo
 +- MCConnIO
SrRouting       packet handling and longest prefix match, pure operators
 +- SrArpCache  the two threads and the ARP cache they share
     +- SrArpAsks    the same with a history: how often each address was asked for
         +- SrArpCacheProof       theorems about the queue, the packets, the recursion
         |                        and the broadcasts
         +- MCSrArpCache
VnsSession      the router's session with the controller
 +- VnsSessionProof  theorems about the framing, the configuration and the end
 +- MCVnsSession
SequenceLemmas  minima, induction over numbers, concatenation, removal (for the proofs)
```

`PROJECT.json` maps each definition to the lines it stands for.

### Ctcp

A host is a record: the fields of `ctcp_state_t` and of `conn_t` that a handler
changes. A handler is an operator from the record to the next record, so that
`ctcp_receive` is built of `ReceiveData`, `ReceiveAck` and `ReceiveFin` in the
order of the code, with its early return (`Ignored`). `wire` collects what the
handler passes to `conn_send`; the composing module moves it to the network.

* A byte is its position in the sender's input, a payload a sequence of them, 0 a
  corrupted byte. Sequence numbers are naturals: lab4/assignment.md:96 excludes
  wrap-around.
* `taken` is what `conn_output` accepted, `queued` how much of it is still in
  `out_queue`. `write` takes any part of what it is given. Chunks, write errors
  and poll events are `ConnIO`'s.
* `state->output` is not a field: `ctcp_receive` sets it only to call
  `ctcp_output` at once, having asked `conn_bufspace`. Between handlers it is
  `NULL`, which is what `conn_drain`'s call of `ctcp_output` sees.
* BBR is one free choice here: a segment is sent, or only queued for
  retransmission. `CtcpBbr` makes the choice as the code does.
* `fclose(fp)` at the first FIN makes later `fprintf`s undefined behaviour:
  `StaleLog` says what they may do.
* The received checksum is not looked at (`ctcp.c:131` is commented out), so there
  is none in the model.
* The function that a null pointer ends is `FinAcked`: `status = "crashed"`.
* The FIN waits in the retransmission queue as a segment without data, so the number at
  which `ctcp_receive` takes it off is that of the last byte (`ExactAck`).
* The limit is compared as the code does (`retrans_count <= RETRANSMIT_LIMIT`, from 0):
  a segment is sent `RetransmitLimit` + 2 times.

### CtcpNet, CtcpStream, CtcpLink

`CtcpNet`'s network is the set of all segments ever sent to a host: one may be
received at any time, any number of times or never, in any order. This covers
`--drop`, `--duplicate` and `--delay` of any length at once, and a timer that
expires at any time. It also covers the event loop: any order of handlers.
`Init` is the outcome of the handshake. `CtcpStream` is what the two programs see:
bytes are written, delivered in order, and the end follows all of them; it does not
promise that anything arrives. `CtcpNet` implements it by `Stream`.

`CtcpLink` is a refinement of `CtcpNet`: of all that was sent (`net`, kept only to show
that) it receives what is in the queues on the way, in order. It loses at most `MaxDrops`
segments, throws away what comes for a connection that is gone, and lets a
retransmission happen only when nothing is travelling, or as the first one:
`state->current_time` is not set when a segment is first sent, so the first expiry
may come at once; afterwards a round trip is shorter than the 200 ms of
`rt_timeout`. Liveness is asked of this module, since with an adversarial network
nothing can be promised.

### CtcpServer

`CtcpServer` has one record for each end of each client's connection, two lists,
`connections` (the library's) and `state_list` (the handlers'), and an orderly link
each way. Clients are numbered in the order they start. `do_loop` reads standard
input for the first of `connections`, receives for any client in it, and
`ctcp_timer` serves the first of `state_list`. `conn_free` of the first connection
leaves `connections` empty: the older clients' segments are dropped from then on,
while their states stay in `state_list` and are served when they come to its front.
`ServedHaveState` says how the two lists fit all the same.

* The three segments of the handshake do not go through `conn_send`, so they are
  not dropped. `tcp_handshake` and `ctcp_init` of the client are one action, since
  nothing else of the client runs between them.
* `Undefined` says what a use of the closed log does, and the store through the
  `prev` pointer of the first connection: it points to a local variable of
  `conn_add`, which has returned. Nothing, or the server crashes.
* `ClosesLast` TRUE restricts the environment, not the code: the server's standard
  input ends only after the newest client has closed.
* Programs run for a client (`execute_program`) are `ConnIO`'s.
* Not modelled: a client that continues an earlier connection because its SYN is
  answered by an ACK.

### Bbr, CtcpBbr

`Bbr` translates `ctcp_bbr.c` function by function. What is kept of the
numbers is what decides something:

* A rate is an exact quotient `[n, d]`; a double's rounding is left out. `d = 0` is
  the infinity of a segment that was acknowledged within the millisecond
  (`ctcp_bbr.c:101`), and it compares as an infinity does.
* The gains are ints: `2885/1000` is 2, `1000/2885` and `3/4` are 0, `5/4` is 1. A gain
  of 0 means no pacing at all.
* The filters hold longs: `Truncated` cuts a rate to whole bytes per
  millisecond. Casting an infinite or undefined double to `long` is undefined in C; the
  model has what x86-64 does, `LONG_MIN`.
* The window is `cwnd_gain * Bdp`, with `Bdp` a long. `cwnd_gain` is 0 until the first
  acknowledgement, so that the window then holds nothing.
* `PROBE_RTT` is declared and never entered.

`CtcpBbr` has two ends of `Ctcp`, BBR's record at the sender, the mark
(`delivered`, `delivered_time`) of each queued segment, a clock in milliseconds and
a link on which a segment is travelling between `MinDelay` and `MaxDelay`. `Read` is
`ctcp_read` with `bbr_send` (which never drops what it read: the clock is not
earlier the second time). `ReceiveAcknowledgement` is `ctcp_receive` at the sender
with what it does to BBR for an exact, a larger and a smaller `ackno`. `Timer` adds the
segment with its header to `inflight`. Three history variables, `rtts`,
`resent` and `held`, count samples, retransmitted bytes and bytes held back. The
sender's input does not end during the run, so there is no FIN. A host that gave up has
no state and reads no more.

### ConnIO, OutputFifo

`ConnIO` is what the other cTCP modules reduce to a count of bytes. A turn of
`do_loop` polls, which fixes the list `jobs` of calls it will make, in the code's
order: standard input, `conn_drain` for each connection, the programs' outputs, one
packet, the timer. Each call is one action, or several where something else can be
seen in between: each `write` of `conn_drain` is one (`DrainWrites`), the end of
it another (`Drained`, which calls `ctcp_output` with nothing to output, which
records an end of file). Everything else may happen between them: the reader
reads or leaves, programs answer or exit.

* Standard output is a terminal, which takes part of a write, or a pipe, which takes a
  small write whole or not at all; it is non-blocking. With `--run_program` each
  connection has a program with two pipes. `async()` is called only for the program's
  output, so `write()` to a program sleeps: `blocked` is the call the server sleeps in.
* `POLLOUT` is one bit for all connections (`polled`).
* The end of a program is reported as `POLLHUP`, which `do_loop` does not look at.
  `Readable` says when a program is read.
* `conn_output` with no bytes records the end of file and no more: nothing is written
  and no pipe is closed.
* `conn_free` frees the chunks that are still queued.
* A connection refuses to read (window, pacing) or gives up when the handlers
  say so: here both are chance.
* A program is any of those that lab4/assignment.md:110-117 lists. For each byte it reads
  it writes one (`ProgramAnswers`: `cat`) or none (`ProgramReads`: `grep`, `sh`), and it
  writes without having read (`ProgramWrites`: `date`, or the output of a command that
  `sh` runs), which `unprompted` counts. It exits when it likes.
* Data that `conn_output` refuses because of an error is acknowledged all the same, as
  `ctcp_receive` does.
* Left out: a program inherits the pipes of the programs before it, so that a pipe may
  stay open longer than the model says; in program mode nothing is queued, as `write`
  sleeps until it took everything.

`OutputFifo` is the promise of `conn_output` in `ctcp_sys.h`: bytes accepted are
written in order, none twice, none left out between two others, and none is accepted
after the end of file.

### SrRouting, SrArpCache

`SrRouting` is what a received IP packet makes the router send, before the ARP
cache: a set of at most one packet. A packet is its kind, its addresses and its
TTL (a `uint8_t`, 0 wraps to 255), and the identity of the received packet it is,
or is about. Frame lengths and checksums are left out: they only decide early
returns. `longest_prefix_match` is the code's loop over the table: `Lpm` is the route it
holds after each entry, `Replaces` its test. That it finds the last of the longest masks is
a theorem.

`SrArpCache` has one stack of frames for each thread, since the functions call
each other: giving up a request sends packets, which look up the cache, queue
requests, and handle these. One action is one stretch of code between two points
where the other thread can be seen: a locked section, or one access to a request
outside the lock (the read of `times_sent` and its increment are two). The lock
is recursive (`CanLock`), and the sweeper holds it during a whole sweep.

* `ReqIds` are the addresses that `calloc` returns. A freed request stays where
  it is; a thread that uses it does what `StaleUse` says: nothing, or it crashes.
  `Reuse` says whether `calloc` may return an address that the other thread
  still holds. The runs have it FALSE: with TRUE a thread may take another
  request for its own, and `ReentryNeedsCrossing` fails; what does not depend on it
  is in section 4.
* `Answering` are the next hops that answer ARP. `StackLimit` is the room for a
  thread's calls: `StackOverflow` is the crash when giving up needs more.
* Ages are in seconds and stop at the value after which the code cannot tell.
* One MAC for each address, so an entry is its address and its age, and which of two
  entries of an address is found makes no difference.
* The router's answers to ARP requests leave no trace in its state.
* `Owed`, what `NothingLost` and `WaitingEnds` are about, are the packets to be forwarded
  and the answers to what was received; the host unreachable messages of giving up are not in it.

`SrArpAsks` adds two history variables and takes no step of its own. `asks` counts the
broadcasts for a request, which `times_sent` need not: the two threads read and write it
without the lock. `raced` are the requests for which both threads were at one time
between the test of `times_sent` and the end of its increment; from then on a request
is not claimed to keep the limit.

### VnsSession

Three threads. The **router** connects (`Start`), and then only reads: a `Recv` takes
any number of units of the stream that are there, never past the command it is
reading, and `Dispatch` handles a whole command according to the negotiation
(`expected_cmd`). A command on the wire is a few units of length and body; what is in the
buffer is what the units are, so that a wrong length gives a garbled command. A length
above `MaxLength` (10000 bytes, `sr_vns_comm.c:372`) ends the router before it reads the
body (`LengthRefused`). The router ends by `exit`, by `assert(iface)`, or by the signal of a write to a
controller that is gone. **POX's core thread** hears the switch: `ConnectionUp` finds the
router's ports, `RouterInfoEntry` enters them one by one, in any order,
`RouterInfoStored` sets `interfaces`, and `PacketIn` broadcasts a frame to every
client. The **reactor thread** accepts (`NewClient`), greets, and answers messages. The
two threads of Python switch anywhere, so each of these is an action of its own.

* `Setups` are the ways to start: with or without `-T`, `auth_key`, a table file that is
  missing, empty, has a line that `inet_aton` refuses, or names an interface there is not.
* A frame has a size of its own, which `LengthRefused` may find too large: `ofhandler.py:69`
  has the switch send up to 20000 bytes of one. The other commands are a few hundred bytes at
  most. No length the controller sends is negative, so only the upper limit of the test is met.
* Each interface keeps its addresses for the whole run: the interfaces of before, learnt from
  an earlier connection of the switch, are told from the new ones by their number only.
* `-T` sends `OPEN_TEMPLATE`, for which the controller has no handler: the exception
  ends the connection.
* The router loads the table twice, before connecting and after; the second replaces the
  first.
* `sr_send_packet` is the answer of the router to a frame, from either of its threads. What
  the answer is, is `SrArpCache`'s subject: here each frame handled allows one.
* A router whose controller has closed the connection reads 0 bytes for ever: it has
  no step left. `srclients` never loses a client.
* A write to the other side is whole. Not modelled: `VNSBANNER`, `VNSCLOSE` and
  `VNS_RTABLE`, which this controller never sends; frames shorter than an Ethernet and
  an ARP header, which skip `assert(iface)`; a second switch; other ports than `Port`.

## 3. Runs

All runs of this section are in `PROJECT.json`; sizes are distinct states.

| run | asks | result |
|---|---|---|
| `CtcpNetTwoWay` (60k) | with loss, duplication and reordering, both sides talking: acknowledgements, output and teardown agree; refinement of `CtcpStream` | holds |
| `CtcpNetHostile` (2.0M) | one side talking, with corruption, a slow output, the library's extra ACK flags and a closed log: types, queue, FIN, buffer, the places of the bytes that are output | holds |
| `CtcpLinkLossy` (12k) | up to two losses, fair scheduling: every transfer ends, without loss with both sides finished; no acknowledgement finds the queue empty; the window is overrun by less than a segment | holds |
| `CtcpBbr` (2.7M) | a varying delay and up to two losses: are `inflight`, the two filters and the window what the code means them to be? | holds, with the drift and the closed window that the properties spell out |
| `ConnIO` (1.4M) | two connections, three kinds of output, programs that answer, swallow or talk: refinement of `OutputFifo`; lost events, early ends and deadlocks only in the circumstances named | holds |
| `CtcpServer` (397k) | three clients, two places: the lists of connections agree, the shared log is open for the reader, only a handshake's ACK is thrown away, the newest is served to its end | holds |
| `SrArpCacheThreads` (554k) | two hosts that send to each other, one of which answers, at any moment; both threads: no packet lost or treated twice, more broadcasts than the limit only after a race, giving up comes back to a request only when refused packets cross, all waits and sweeps end or the router crashes | holds |
| `VnsSession` (664k) | seven setups, two starts, a switch that connects twice, three frames of which one is too long, a controller that may stop: commands whole, ready means configured, every end has a reason, an informed start becomes ready | holds |
| `CtcpNetSlowStdout` | is every acknowledged byte output? | **no** |
| `CtcpLinkLostAck` | does one lost acknowledgement leave the connection alive? | **no** |
| `CtcpLinkFinLost` | has the peer of a side that finished its FIN? | **no** |
| `SrArpCacheSweepFreed` | does the sweep use requests that exist? | **no** |

### What the violations say

1. `conn_drain` ends with `ctcp_output` (`ctcp_sys_internal.c:671`), which finds
   nothing to output and passes it on; `conn_output` reads that as the end of
   file. Everything after it is acknowledged and never output.
2. `ctcp_receive` ignores a segment it has already accepted
   (`ctcp.c:141`) instead of acknowledging it again. If the acknowledgement was
   lost, the sender retransmits until it gives up.
3. The FIN is queued as a segment of no bytes, so the ACK that `ctcp_receive` expects for
   it is the one that came before it (`ctcp.c:191-192`). Any segment with that number
   takes the FIN off the queue: in the run a data segment of the peer. The FIN had been lost,
   nobody sends it again, and the side that sent it ends as finished, which ctcp.h:146 and
   lab4/assignment.md:91 forbid. Without loss (`MaxDrops = 0`) the property holds.
4. `sr_arpcache_sweepreqs` evaluates `req->next` of a request that
   `sr_handle_arpreq` has freed (`sr_arpcache.c:25`).

### Behaviour the passing runs describe

Some properties hold with a condition, and the condition is the interesting part:

* `CrashNeedsRepeatedAck`: the null dereference of `ctcp.c:180` needs a segment that
  repeats an acknowledgement when the FIN is out: data that the peer had left when the host
  closed, or any segment with the library's ACK flag. Losses and retransmissions alone never
  do it. Two sides that both send and both close get there without any loss, although
  lab4/assignment.md:51 lets each direction be closed independently.
* `WindowOverrunBounded`: lab4/assignment.md:128 has the data outstanding within the window;
  the code keeps it below the window and a segment. The run has one byte and then two
  outstanding with a window of two.
* The retransmission limit: lab4/assignment.md:88 and ctcp.h:149-151 say five
  retransmissions, `ctcp.c:290` makes six. The violation run `CtcpLinkLostAck` uses the
  code's limit, and its trace has six.
* `FinishedIsComplete` is about data: who finished has output all, and its peer has accepted
  all it sent. It says nothing of the FIN, which is the violation 3.
* `LostEventNeedsDrain`, `EarlyEndNeedsDrain`: both defects of `conn_drain` (the event
  it does not ask for again, the end of file it records) need it to have written
  something; output that `write()` takes at once never meets them.
* `DeadlockNeedsRefusalOrTalk`: a server and a filter sleep in each other's full pipes only
  when the filter's output was last refused by the window or by the pacing. A program that
  writes more than it reads (`sh`) needs no refusal: it fills its output while the
  server's write to it sleeps.
* `MoreAsksNeedRace`: sr_arpcache.h:51 says five requests. The two threads may both find a
  request due and both send it, and their increments may count once (`sr_arpcache.c:74-88`), so
  there may be more; the run has these states, and shows that only they exceed the limit.
* `PipesCloseByGivingUp`: no connection with a program is ever torn down by the exchange
  of FINs; it ends by retransmitting in vain.
* `InflightIsAccounted`: `inflight` is the outstanding data, plus all retransmitted
  bytes for ever, less all bytes held back.
* `BandwidthNeverFalls`, `InfiniteBandwidthHoldsAll`: the estimate only rises, and once
  it is infinite, everything read is held back until `ctcp_timer` retransmits it.
* `EndsForAReason`: a frame that is broadcast before the hardware information
  (`EarlyFrame`) is one of the reasons a well-configured router may exit, and a frame that
  is longer than 10000 bytes (`LongFrame`) ends one that is ready.
* `ReentryNeedsCrossing`: giving up a request sends a host unreachable message, whose
  next hop may be due and expired as well, and so on. When two hosts that do not
  answer have packets for each other waiting, giving up the one comes back to the
  other and to itself, each time for the same packets, since they are freed only after the
  messages are sent: the recursion ends with the stack (`StackOverflow`). It takes
  packets that cross; with the default route of lab1's `rtable`, a packet whose source has
  the same next hop as its destination is enough.
* Outside the properties: an ARP answer that finds the cache full is used but not kept, so
  the address is asked for again.

### Bounds, and why they are enough

* cTCP: two to four bytes of input, segments of one or two bytes, windows of two,
  a retransmission limit of one or two (five in the code). Two segments on the way
  are enough for every order of two acknowledgements and for a FIN between them;
  the comparisons in the handlers are of sequence numbers, not of sizes, and the
  limit appears in one comparison. The proofs below have no bound. Hostile has
  segments of up to two bytes and a buffer of two, which one slow segment fills; its input
  of three is more than the window of two. Lossy has four bytes of input, so that a segment
  may go past the window and another would go past the bound. `TwoWay` has `SlowStdout = {}`: what a full output queue does is asked in
  Hostile and in `ConnIO`.
* BBR: eight milliseconds, seven bytes in segments of one, filters of two samples (10 in
  the code), a delay of 0 or 1 ms, so that the infinite rate, the change to `DRAIN` and
  to `PROBE_BW`, larger and smaller acknowledgements and a retransmission all occur. The
  header is one byte; `LONG_MIN` is -99, below any number of bytes in the run.
* ConnIO: two connections, segments of two bytes, a buffer of three, a standard output of
  two. The first connection of a program sends enough to fill both pipes (two and three
  bytes) and one write more, and may write one byte unasked
  (`MaxUnprompted`), which is what the condition of the deadlock tells apart; two connections are what it takes for one to clear the
  other's event.
* Server: three clients of which two are taken (`MAX_NUM_CLIENTS` is 10) give an
  oldest, a newest and a refused one. The clients only connect and close: what data does
  is `CtcpNet`'s question, the lists change at connecting and closing. `ClosesLast` TRUE
  keeps it small.
* Router: two hosts, an interface for each, two packets that cross, one ARP
  packet, one cache slot (100), a timeout of 0 s (15), one try
  (5) in the large run and five in the violation, room for four calls. Two packets
  give two requests, each of which may give up the other,
  and, with the ICMP messages of giving up, a request that is created during a
  sweep; three `ReqIds` are enough because a freed one can be used again when no
  thread holds it. The one answer that comes (`MaxArps`) always finds the one slot free: a full
  cache at the time of an insertion is in the model (`Insert`) and in the theorems, which have
  no bound, and not in the run.
* VNS: two interfaces and a port that is not the router's, commands of three or four
  units with a length of two, one frame of five where four are the limit, so that `recv` can cut a length, a body and the boundary
  between commands. Two starts overlap in the controller (the old connection's
  messages are still unread), two connections of the switch give the second collection.

### Fairness

* `CtcpLink`: weak fairness of reading, receiving and the timer. `do_loop` polls
  its descriptors for ever and calls the timer every 40 ms. An input that is
  ready is read when pacing lets it.
  Weak fairness of `LinkTimer` forces an expiry only when no other state change of the
  timer is left: a timer that never expires would leave the state as it is.
* `CtcpServer`: weak fairness of each client process and of the server process,
  which do something when they can; not of each handler. A client may never be
  started. It includes that an input, once empty, ends.
* `ConnIO`: weak fairness of the server process as a whole, and of the reader of
  standard output, who reads while he has not left. Programs may sleep for ever. Not
  every call need happen: which of the jobs exist is decided by `poll`.
* `SrArpCache`, `SrArpAsks`: weak fairness of the sweeper thread, whatever step it is at, and of time. Strong fairness of the
  main thread's steps, which need a lock that the sweeper takes again and again:
  the sweeper sleeps a second between two sweeps with the lock free. No packet
  has to arrive.
  `WaitingEnds` and `SweepEnds` are stated as what must be so again and again (`[]<>`): no
  packet waits, and no sweep keeps the lock, from some point on for ever.
* `VnsSession`: weak fairness of the router's reading, of POX's core thread while it is
  being informed, and of the reactor. Frames, restarts and the operator owe nothing.
* `CtcpBbr` and `CtcpNet` state only safety and need none.
* The liveness properties of the router except the end of the process: a crash on
  freed memory ends every wait.

`CHECK_DEADLOCK FALSE` is in every run, because each of these systems may really stop:
both cTCP hosts may have ended, the router's process may have crashed or ended with no
start left, the bounded input or the bounded clock may have run out, and a
server that sleeps in a write to a program that sleeps too has no step.

### What the properties would catch

Each property of a passing run comes with a mutant, an operator named
`X_What` before the operator `X` it changes, which makes TLC report it. For
example: the FIN sent while data is outstanding (`SendFinIfDone_Early`), packets
forgotten when a second one joins the request (`AddPacket_Only`), the event left to
`conn_drain` (`Event_Not`), a larger acknowledgement that does not take its data off
`inflight` (`Acknowledged_ExactOnly`), a length taken for the body's alone
(`Wanted_BodyOnly`), a switch that connects again and finds empty maps
(`ConnectionUp_Clears`).

## 4. Proofs

Every theorem is about all values of the constants that satisfy the modules'
named assumptions (the types of the constants), and whatever further assumption the
table gives.

| theorem | says | assumes |
|---|---|---|
| `CtcpProof!Inductive` | `IInv` is an invariant of `CtcpNet` | |
| `TypeCorrect` | `TypeOK` | |
| `ReleasedOnlyAccepted` | a sender releases only what its peer accepted | |
| `QueueTiles` | the retransmission queue holds exactly `seqno..next_seqno` | |
| `AckedOnlySent` | a receiver acknowledges only what was sent | |
| `FinEndsStream` | the FIN ends the stream | |
| `QueueWithinBuffer` | `out_queue` stays within `MAX_BUF_SPACE` | |
| `OverrunBounded` | what is outstanding passes the window by less than a segment | |
| `OutputInductive` | `OInv` is an invariant of `CtcpNet` | `SlowStdout = {}` |
| `AckedIsOutputted` | what is acknowledged is what is output | `SlowStdout = {}` |
| `FinishedHasAll` | who finished has all of the peer's data, and the peer all of its own | `SlowStdout = {}` |
| `BytesInductive` | every byte is where the sender's input has it | and `~CanCorrupt` |
| `StreamImplemented` | `CtcpNet` implements `CtcpStream` | and `~CanCorrupt` |
| `OutputInPlace` | what is output is in its place in the peer's input | |
| `LinkImplementsNet` | `CtcpLink` implements `CtcpNet` | |
| `CrashesOnlyOnRepeat` | an empty queue's front is used only after a repeated ACK | |
| `CtcpBbrProof!BbrInductive` | `IInv` is an invariant of `CtcpBbr` | sizes, below |
| `InflightAccounted` | what `inflight` counts | |
| `MinRttOfTheWindow` | `min_rtt_us` is the least of the last samples | |
| `BandwidthOnlyGrows` | the bandwidth estimate never falls | |
| `InfiniteBandwidthHolds` | an infinite estimate holds everything back | |
| `CtcpServerProof!ServerInductive` | `SInv` is an invariant of `CtcpServer` | |
| `ServerTypeCorrect` | its `TypeOK` | |
| `ServedKeepTheirState` | a connection that is served has its state | |
| `ReadersFindTheLog` | who reads input finds the log open | |
| `OnlyTheHandshakeAck` | only an ACK of a handshake is taken for one | |
| `ConnIOProof!TypeCorrect` | `TypeOK`: no empty chunk, pipes and queues within their sizes | |
| `EarlyEndOnlyAfterDrain` | an end of file nobody sent is `conn_drain`'s | |
| `LostEventOnlyAfterDrain` | so is output that waits for no event | |
| `PipesClosedByGivingUp` | a program's pipes are closed only by giving up | |
| `DeadlockNeedsMoreThanAFilter` | server and program wait for each other only after a refused read or an unprompted write | sizes, below |
| `OutputIsFifo` | `ConnIO` implements `OutputFifo` for each connection | |
| `VnsSessionProof!ReadsWholeCommands` | the router reads whole commands, none twice | |
| `ConfiguredWhenReady` | a ready router has the switch's interfaces and routes through no others | |
| `EndedForAReason` | the router ends only for its files, a stop, an early or a long frame | |
| `SrArpCacheProof!LongestPrefix` | the loop of `longest_prefix_match` finds a route if one matches, and the last of the best | |
| `RequestQueueSound` | the router has one request per address, none freed | |
| `TypeCorrect` | `TypeOK`, the frames of both stacks included | |
| `PacketsAreKept` | a packet is sent, refused or held: `NothingLost` | |
| `SentOrRefused` | no packet is both | |
| `HistoryOnly` | `SrArpAsks` implements `SrArpCache` | |
| `AsksNeedRace` | a request is broadcast `ArpTries` times at most, unless both threads once asked at a time | |
| `ReentryOnlyByCrossing` | giving up comes back to a request only when refused packets cross | `Reuse = FALSE` |

The assumptions are conditions of the code. `SlowStdout = {}`: `write()` takes all
it is given, so that nothing has to be drained. Without it `AckedIsOutput` is false,
as `CtcpNetSlowStdout` shows. `~CanCorrupt`: the received checksum is not looked at,
so a corrupted payload is output. `OutputInPlace` says what holds without either.
`Reuse = FALSE`: `calloc` returns no request that a call still points to. Nothing in the
code ensures it: it is what the allocator happens to do, and `ReentryOnlyByCrossing` says what
depends on it.

**`IInv`.** None of the properties is inductive. An acknowledgement in the network that
was sent long ago may still arrive, so the invariant says of every segment that
exists, in a queue or in the network, that it is `Sendable`: its `ackno` is at most
what the host has acknowledged, its data ends at or before `next_seqno`, and a
FIN is at the end of a finished stream. With it:

* `LocalInv`, about one host: the queue tiles `seqno..next_seqno` while the
  connection is open, a host that has sent its FIN has read all its input, and
  `seqno = next_seqno`.
* About the pair: `seqno <= peer.ackno <= Limit`, where `Limit` is one more than
  `next_seqno` once the FIN is out.
* `Windows`: the window of every segment and the two of a host are `RecvWindow` of one of
  the hosts: `ctcp_init` takes them from the handshake, a data segment carries its
  sender's `send_window`, an ACK its `recv_window`. So whatever window an acknowledgement
  brings, `CanRead` bounds what is outstanding before the read, and no other handler
  raises it (`OverrunBounded`).
* An ACK is at most the peer's `ackno` because it is `Sendable`; popping the front
  of a queue that tiles moves `seqno` to the end of that front, which the exact or
  larger acknowledgement covers. Accepting data at `ackno` moves `ackno` to its end,
  which `Sendable` bounds by the sender's `next_seqno`.

The proof is by handler: for each operator of `Ctcp` a lemma that it keeps
`LocalInv` and only grows the stream (`HandlerKeeps`); then `HandledKeeps` lifts
it to the pair, and `Inductive` has one step for each action of `CtcpNet`.

**`OInv`, `CInv` and the refinement.** `CtcpHandlers` says what each handler does to the
output half and to the input half of a record. `OInv` adds to `IInv` what the
numbers owe to the output: `taken` is as long as `ackno` says, one less when the
FIN is in, and then the peer's FIN was the next byte. `CInv` adds the contents:
every segment, in a queue or in the network, carries the bytes that its `seqno` says,
and the output is the first bytes of the peer's input. A handler that accepts
data found `seqno = ackno`, so by `OInv` the data follows what was output, and by
`IInv` its sender has read it from its input. `Progress` puts the three together, for
each handler: it outputs nothing, or the next bytes, or the end; these are the steps
of `CtcpStream`.

**`PInv`.** `OutputInPlace` does without the two assumptions. What is left when `conn_drain`
has recorded a false end of file is that nothing is output any more, so `PInv` asks that the output
is as long as `ackno` says only until then; its length is at most what the peer has read, and
every byte in the network or in the output is in its place or was corrupted. Data is accepted at
`ackno`, which is therefore the next place.

**`WayInv`, `LInv`.** What is on its way in `CtcpLink` was sent (`WayInv`), so what
`LinkReceive` takes is a segment that `Receive` of `CtcpNet` may take, and `IInv` is at hand for
the rest. `CrashNeedsRepeatedAck` needs more, about a host that gets no data after its FIN,
because its peer has none or closed first (`Calm`):

* `HoldInv`: who has sent its FIN, or has no input, holds no data to send again.
* `WayTo`: after the peer's FIN was taken there is no data on its way, nor is there ever data
  behind a FIN. So what reaches such a host are plain ACKs, and FINs, which
  `ctcp_timer` sends without the ACK flag.
* `NoRepeat`: an ACK of all that the host sent comes once. While its queue holds something
  at most one is on its way (`NoneBefore`, which says it of a queue in order), and
  then nothing is; once the FIN is out, nothing on its way carries the number
  before the FIN's. The peer answers a segment only at its own `ackno`, and the answer raises
  it (`Timely`); so a retransmission that arrives late is answered by nothing.

Its induction is by handler too. `CtcpHandlers` lists what each of them sends
(`ReceiveSends`, `ReadSends`, `TimerSends`, `SendFinSends`), which is where the library's ACK
flag must be off; `WayKeeps` and `RepeatKeeps` say what sending it does to the two queues.

**`CtcpBbr`.** Its `IInv` is about another system than `CtcpNet`'s, and another side of it.
Two more assumptions on sizes than the types: a run is shorter than the
`0x7fffffff` ms that `RTpropFilter` starts with (24 days), and `LONG_MIN` is below minus the
length of the input.

* `HostsOK`, `LinkOK`: only the sender has a queue, no FIN is sent, and what travels
  back are acknowledgements without data. So what a handler does to the queue is what
  `Acknowledged` says it does to `inflight`: the front is taken off for an exact and a larger
  `ackno`, and for no other.
* `InflightIsAccounted` is inductive with these: the bytes of a queue are a sum that
  appending and taking the front change by one segment (`BytesAppend`, `BytesTail`).
* `FilterOK`: the filter is the last `FilterSize` samples, and before there are so many, the
  value it started with in front of them. No sample is longer than the run, so the
  least of the filter is the least of the samples.
* `MarksOK`: a segment's mark is not later than now, so a sample is not negative and a
  rate is one of naturals. A rate enters the filter only if it is larger than the
  estimate, and what replaces the estimate is that rate or an entry of the filter that is
  larger still (`SampleEffect`); an infinite one is replaced by none.
* What `bbr_send` holds back was read, so `inflight` is not below minus the length of the
  input, and a window of `cwnd_gain * LONG_MIN` is (`WindowClosed`).

**`SInv`.** `connections` is a prefix of `state_list`. `ctcp_timer` frees the front of
`state_list`, which is the front of `connections` as well if there is one, and
`conn_free` then empties `connections`; a new client goes to the front of both. So
the log can only have been closed by the newest connection's FIN
(`ClosedByNewest`), after which that connection reads no more (`FinAfterInput`), and
a newer one opens it again.

**`HInv`.** Whatever has the numbers 1, 1 is taken for the ACK of the handshake that
is awaited. `Asking`: until it is connected, a client has sent nothing but its SYN, and while the
SYN is on its way the server has nothing of that client (`Untouched`): no state, no connection,
nothing sent. So the SYN-ACK that connects it comes when its link is empty, and its ACK, which
does not go through `conn_send` and cannot be dropped, is the first thing on it. `Acking`: it
stays first while it is awaited, since whatever is sent goes behind it and who takes it
stops waiting. If another client connects before that, the ACK of the first is handed to
`ctcp_receive` instead, and nothing is thrown away.

**`QInv`.** Of a request only that it lives and its address matter, and these never change
between `calloc` and `free`. A request leaves the queue in the step that frees it or
before, and joins it only when nobody in the queue asks for its address. The stacks
of the threads, and so the lock, play no part.

**The places of a packet.** `NothingLost` and `NotSentAndRefused` are about packets, and a packet
is in the hands of whichever function runs. The invariant of `SrArpCacheProof` (its `SInv`) adds
to `QInv`:

* `ShapeOK`, `HeldOK`: of the calls in progress only three kinds wait for another, `sr_recv_arp`
  and the sweep are called first, and the sweeper has no call without the lock. A request that
  a call points to has been freed or is in the queue, except that of `sr_recv_arp`, which took it
  out.
* `PlacesOK`: each packet about which something must be sent is in exactly one place. It is being
  sent by the main thread, or in the `rest` of its `sr_recv_arp`, or in one request, or
  sent, or refused. Being in a request is compatible with having been refused only while a call
  gives up that request; when both threads give it up, each refuses the same packets.
  A packet is in a list once, which is what makes the tail of `rest` be what is still to do.

A request that a thread uses after the other has freed it is the case that needs the most. The
packets in its `rest` were refused before that, since a request is freed only when a call
with an empty `rest` ends, so nothing is lost when the call ends early. It holds with `Reuse`
too.

**`AskInv`.** `req->times_sent++` reads in one step and writes in another, and the broadcast
comes before both. The invariant is about a request that is there and has not raced: at most
one thread is between the test of its count and the end of the increment; the broadcasts are
no more than `times_sent`, or that thread is about to write a count that is no less;
and who is about to broadcast found fewer than the limit. When the other thread comes in
between, the request has raced. Memory that `calloc` returns again was never asked for: a
thread that still points to it and asks is then the only one that counts it, or it has raced. So
nothing is assumed of `Reuse`.

**`LongestPrefix`.** By induction over the entries the loop has seen: it holds none if none
of them matches, and otherwise a matching one whose mask no matching entry before it exceeds
and no matching one after it reaches.

**`LinkedOK`.** A frame of `sr_send_icmp_to_waiting` that waits has refused a packet and sent
a host unreachable message, so the call on top of it leads where the message goes (`CalledBy`).
That is a chain of next hops down the stack, and a request that is there twice closes it
(`GoesRound`). A request below may have been freed by the other thread and its address
cleared, so the invariant is that there is an assignment `hop` of next hops to requests, alive or
not, which fits the chain; `calloc` changes it for a request that no call points to.

**`ConnIO`.** One more assumption on sizes than the types: standard output and the pipes
of a program hold at least a segment. A pipe holds 64 KB, a terminal 4 KB, a segment at
most `MAX_SEG_DATA_SIZE` = 1440 bytes. Nothing is assumed of the programs.
The invariant has a part for each property, and all of them rest on what is left of the
turn of `do_loop`:

* `TurnOK`: the calls that are left come in the code's order, a program is read at most
  once a turn, and the second half of `conn_drain` is the next call or none.
* `ListOK`, `ChunksOK`: a connection that never came has no chunks, nor has one with a
  program, whose `write` takes all; no chunk is longer than a segment.
* `OutputtedOK`: the flag `outputted` is set only during the `conn_drain` that wrote. So
  the end of file that `Drained` records belongs to a connection in `drained`.
* `EventOK`: as long as `conn_drain` has written nothing, whoever waits for standard output
  has its `conn_drain` still to come, or `POLLOUT` is asked for. Each of the two ways in which
  the event is lost has a write of `conn_drain` before it.
* `ProgramReadsOK`: a program is read only when its output has bytes. So `read_eof`
  stays FALSE, and a connection with a program cannot finish.
* `BlockedOK`, `RoomOK`: at the call that receives a packet there is room for a segment in
  the two pipes of each program together, unless its read was refused or it has written
  unprompted; an answer moves a byte from the one pipe to the other, and a read in the turn
  makes room. A server that sleeps in `write` found less room than a segment in the one
  pipe, so the other one is not full.
* `FifoOK`: the chunks of a connection are, one after the other, the bytes that follow
  those written. The refinement maps `out_queue` to their number: each `write`, of
  `conn_output` or of `conn_drain`, is a step of `OutputFifo`, and every other call none.

**`VnsSession`.** The only assumptions are that a length field, the three bodies that
the controller sends and each frame take up units, that only a frame may be longer than
`MaxLength`, that the setups are ones, and that ports are different.

* `BufOK`, `PosOK`: an offset for each command sent, the sum of the sizes before it. What
  was read of the connection is the offset of the command being read and the length of the
  buffer, and the buffer is what the stream has there. `Wanted` asks for no more than the
  rest of the header, or of the command once the header says its length, so a
  `Recv` never crosses the next offset.
* `CoreOK`: `_handle_RouterInfo` enters each interface once, in some order
  (`Enumeration`). `HwInfoIs`: the entries of such an order, handled one after the
  other from an empty list, give a list of that order with each interface's own
  addresses.
* `UpOK`, `ToldOK`, `HeardOK`: the messages on their way up, the commands told and the
  commands heard fit the router's place. Each question is asked once and each answer
  told once, so the hardware information is handled once, from an empty list. And the
  next command, if it is not what the router waits for, can only be a frame.
* `OpenOK`: while the router runs, its connection is closed only by a controller that stops
  or by the exception of `OPEN_TEMPLATE`, after which nothing of the router is
  left unread. So `recv` never fails for another reason. A
  length that is refused is that of the next command, which then is a frame (`LongFrame`).

Induction over data is done over sets of numbers: `SequenceLemmas!Induction` says that a set
of naturals with 0 and the successor of each member has all of them, and a
recursive function is shown to have its equation by it (`Recursive`). The numbers of jobs in a
turn, the concatenation of the chunks, the stream of commands and the entries of the
hardware information are treated so.

The type invariants of `SrArpCache` and `CtcpServer` are proved and not listed in the runs.

Model-checked only: liveness (`LosslessFinishes`, `ReadIsOutputOrGivenUp`,
`NewestIsServed`, `RestIsWritten`, `WaitingEnds`, `SweepEnds`,
`InformedStartBecomesReady`), which is out of the prover's reach.

## 5. Not modelled

* Checksums, printing, `current_time`: no state (`ctcp_utils.c`, `sr_utils.c`).
* The nodes and pointers of the linked list: a queue is a sequence.
* The handshake of a client that continues an earlier connection; the simulated faults of
  `conn_send` other than loss where the network is orderly (`CtcpLink`, `CtcpBbr`,
  `CtcpServer`; `CtcpNet` has all of them).
* `VNSBANNER`, `VNSCLOSE`, `VNS_RTABLE`; partial writes on the router's socket.
* NAT (a stub nobody calls), `sr_dumper.c`, `sha1.c`, tests and drivers.
* Labs 0, 2 and 3: no program logic.

## 6. Plan

Done: 1. `Ctcp`, `CtcpStream`, `CtcpNet` 2. `CtcpProof` 3. `CtcpLink`
4. `SrRouting`, `SrArpCache` 5. `CtcpServer` 6. `ConnIO`, `OutputFifo`
7. `VnsSession` 8. `Bbr`, `CtcpBbr` 9. `CtcpHandlers`, the output in `CtcpProof`
10. `CtcpServerProof` 11. `SrArpCacheProof` 12. `SequenceLemmas`, `ConnIOProof`
13. the places of a packet and the recursion in `SrArpCacheProof`
14. the handshake in `CtcpServerProof` 15. `VnsSessionProof` 16. `CtcpBbrProof`
17. the send window in `CtcpProof` 18. `CtcpLink` as a refinement of `CtcpNet`, and its
theorems in `CtcpProof` 19. the places of the bytes in `CtcpProof` 20. `SrArpAsks` and its
theorem, the loop of `longest_prefix_match`, programs that talk in `ConnIO`, frames that are
too long in `VnsSession`

Next: the pointers of the linked lists.
