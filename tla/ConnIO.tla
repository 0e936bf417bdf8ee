------------------------------- MODULE ConnIO -------------------------------
(***************************************************************************)
(* The connection I/O of a cTCP server, the part of ctcp_sys_internal.c    *)
(* below the handlers: conn_input, conn_output with its queue of chunks,   *)
(* conn_drain, the POLLOUT event that asks for it, the programs that       *)
(* execute_program starts, and the turn of do_loop that ties them.         *)
(*                                                                         *)
(* Connections share a standard output that takes part of a write (a       *)
(* terminal) or all or none of it (a pipe), or each has a program. async() *)
(* makes standard output and a program's output non-blocking, but not a    *)
(* program's input: the server sleeps in that write() until there is room. *)
(*                                                                         *)
(* Of ctcp.c the model has what its handlers ask of this layer. Whether    *)
(* ctcp_read refuses to read (window, pacing) and when a connection gives  *)
(* up are left to chance. A client is a server with one connection.        *)
(***************************************************************************)
EXTENDS Integers, SequencesExt, FiniteSetsExt

CONSTANTS
    Conns,           \* 1, 2, ... in the order they connect
    MaxSegDataSize,  \* MAX_SEG_DATA_SIZE
    MaxBufSpace,     \* MAX_BUF_SPACE
    Modes,           \* of "terminal", "pipe" and "program"
    MaxBytes,        \* how many bytes the peer of a connection sends, per mode
    MaxUnprompted,   \* and its program writes other than to answer one,
    StdoutSize,      \* what standard output holds until it is read,
    InSize, OutSize  \* and the pipes to and from a program

ASSUME ConnIOConstants ==
    /\ Conns = 1..Cardinality(Conns) /\ IsFiniteSet(Conns)
    /\ MaxSegDataSize \in Nat \ {0}
    /\ MaxBufSpace \in Nat
    /\ Modes \subseteq {"terminal", "pipe", "program"}
    /\ MaxBytes \in [Modes -> [Conns -> Nat]] /\ MaxUnprompted \in [Conns -> Nat]
    /\ \A size \in {StdoutSize, InSize, OutSize} : size \in Nat /\ size >= MaxSegDataSize

Nobody == 0

VARIABLES
    mode,
    connections,    \* config->connections, the newest first
    state_list,     \* the handlers' states, the newest first
    num_connected,
    conn,           \* conn[c]: its conn_t
    freed,          \* conn_free was called for these
    polled,         \* POLLOUT is asked for on standard output
    jobs,           \* the library calls left in this turn of do_loop
    outputted,      \* conn_drain's
    blocked,        \* the write() to a program the server sleeps in
    stdout, reader, \* bytes in standard output; somebody reads it
    program,        \* program[c]: what became of c's program,
    in, out,        \* and the bytes in the pipes to and from it
    received,       \* received[c]: bytes of c's peer that were acknowledged
    accepted, written,  \* see OutputFifo
    drained,        \* the connections for which conn_drain wrote something
    refused,        \* and those whose last ctcp_read, of a program, read nothing
    unprompted      \* unprompted[c]: the bytes c's program wrote that answer none

lists == <<connections, state_list, num_connected, freed>>
pipes == <<program, in, out>>
bytes == <<received, accepted, written>>
past == <<drained, refused, unprompted>>
vars == <<mode, lists, conn, polled, jobs, outputted, blocked, stdout, reader,
          pipes, bytes, past>>

Chunk == Seq(Nat) \ {<<>>}

TypeOK ==
    /\ mode \in Modes
    /\ connections \in Seq(Conns) /\ state_list \in Seq(Conns)
    /\ num_connected \in 0..Cardinality(Conns)
    /\ conn \in [Conns -> [out_queue : Seq(Chunk), sent : BOOLEAN, fin : BOOLEAN,
                           read_eof : BOOLEAN, wrote_eof : BOOLEAN,
                           wrote_err : BOOLEAN]]
    /\ freed \in SUBSET Conns
    /\ polled \in BOOLEAN /\ outputted \in BOOLEAN /\ reader \in BOOLEAN
    /\ jobs \in Seq({"conn_drain", "drained", "ctcp_read", "receive", "timer"}
                    \X (Conns \cup {Nobody}))
    /\ blocked \in [conn : Conns \cup {Nobody}, data : Seq(Nat)]
    /\ stdout \in 0..StdoutSize
    /\ program \in [Conns -> {"none", "running", "exited"}]
    /\ in \in [Conns -> 0..InSize] /\ out \in [Conns -> 0..OutSize]
    /\ received \in [Conns -> Nat] /\ accepted \in [Conns -> Nat]
    /\ written \in [Conns -> Seq(Nat)]
    /\ drained \in SUBSET Conns /\ refused \in SUBSET Conns
    /\ unprompted \in [Conns -> Nat]

None == [conn |-> Nobody, data |-> <<>>]

\* setup_poll asks for POLLOUT before there is any connection.
Init ==
    /\ mode \in Modes
    /\ connections = <<>> /\ state_list = <<>> /\ num_connected = 0
    /\ conn = [c \in Conns |->
                 [out_queue |-> <<>>, sent |-> FALSE, fin |-> FALSE,
                  read_eof |-> FALSE, wrote_eof |-> FALSE, wrote_err |-> FALSE]]
    /\ freed = {} /\ polled = TRUE /\ jobs = <<>> /\ outputted = FALSE
    /\ blocked = None /\ stdout = 0 /\ reader = TRUE
    /\ program = [c \in Conns |-> "none"]
    /\ in = [c \in Conns |-> 0] /\ out = in
    /\ received = [c \in Conns |-> 0] /\ accepted = received
    /\ written = [c \in Conns |-> <<>>]
    /\ drained = {} /\ refused = {} /\ unprompted = received

run_program == mode = "program"

-----------------------------------------------------------------------------
\* poll: what do_loop will do in this turn

\* poll() reports room on a pipe when any segment would fit.
HasRoom == IF mode = "pipe" THEN stdout + MaxSegDataSize <= StdoutSize
                            ELSE stdout < StdoutSize

\* A reader that left is reported whether or not POLLOUT is asked for.
DrainCalls ==
    IF ~reader \/ (polled /\ HasRoom)
    THEN [i \in DOMAIN connections |-> <<"conn_drain", connections[i]>>] ELSE <<>>

\* Mutant: the end of a program's output is seen as well.
Readable_HangUp(c) == out[c] > 0 \/ program[c] = "exited"

\* A program that ended is reported as POLLHUP, which do_loop does not look
\* for, so it is read only while it left something to read.
Readable(c) == out[c] > 0

\* Mutant: only the newest connection's program is read.
ReadCalls_Newest(typed) ==
    IF connections # <<>> /\ (run_program => Readable(Head(connections)))
    THEN <<<<"ctcp_read", Head(connections)>>>> ELSE <<>>

\* The calls for the first connections of the list, by how many they are.
ProgramCalls ==
    LET calls[n \in 0..Len(connections)] ==
          IF n = 0 THEN <<>>
          ELSE IF Readable(connections[n])
               THEN Append(calls[n - 1], <<"ctcp_read", connections[n]>>)
               ELSE calls[n - 1]
    IN  calls

\* Standard input, if some was typed, goes to the newest connection.
ReadCalls(typed) ==
    IF run_program THEN ProgramCalls[Len(connections)]
    ELSE IF typed /\ connections # <<>> /\ ~conn[Head(connections)].read_eof
         THEN <<<<"ctcp_read", Head(connections)>>>> ELSE <<>>

When(condition, job) == IF condition THEN <<<<job, Nobody>>>> ELSE <<>>

\* Standard input is read before conn_drain, the programs after it.
do_loop ==
    /\ jobs = <<>>
    /\ \E typed, arrived, tick \in BOOLEAN :
         jobs' = (IF run_program THEN DrainCalls \o ReadCalls(typed)
                                 ELSE ReadCalls(typed) \o DrainCalls)
                 \o When(arrived, "receive") \o When(tick, "timer")
    /\ jobs' # <<>>
    /\ UNCHANGED <<mode, lists, conn, polled, outputted, blocked, stdout, reader,
                   pipes, bytes, past>>

\* The call that do_loop is in, and its return.
Doing(job, c) == jobs # <<>> /\ Head(jobs) = <<job, c>> /\ blocked = None
Done == jobs' = Tail(jobs)

-----------------------------------------------------------------------------
\* conn_drain

\* What a write() to standard output of n bytes may take; 0 stands for EAGAIN.
Taken(n) ==
    CASE stdout = StdoutSize -> {0}
      [] stdout < StdoutSize /\ mode = "terminal" -> 1..Min({n, StdoutSize - stdout})
      [] stdout < StdoutSize /\ mode # "terminal" ->
           {IF stdout + n <= StdoutSize THEN n ELSE 0}

Wrote(c, data) ==
    /\ written' = [written EXCEPT ![c] = @ \o data]
    /\ stdout' = stdout + Len(data)

\* Mutant: the rest of a chunk is not waited for.
AskAgain_Not == FALSE

\* A chunk that was not taken whole asks for POLLOUT again.
AskAgain == TRUE

\* Mutant: a chunk that was written whole stays, empty.
Rest_Stays(queue, w) ==
    <<SubSeq(Head(queue), w + 1, Len(Head(queue)))>> \o Tail(queue)

Rest(queue, w) ==
    IF w = Len(Head(queue)) THEN Tail(queue)
    ELSE <<SubSeq(Head(queue), w + 1, Len(Head(queue)))>> \o Tail(queue)

\* A turn of the loop of conn_drain in which write() took something.
DrainWrites(c) ==
    LET queue == conn[c].out_queue IN
    /\ Doing("conn_drain", c)
    /\ ~conn[c].wrote_err /\ queue # <<>> /\ reader
    /\ \E w \in Taken(Len(Head(queue))) \ {0} :
         /\ Wrote(c, SubSeq(Head(queue), 1, w))
         /\ conn' = [conn EXCEPT ![c].out_queue = Rest(queue, w)]
         /\ \/ w = Len(Head(queue)) /\ polled' = FALSE /\ UNCHANGED jobs
            \/ /\ w < Len(Head(queue)) /\ polled' = AskAgain
               /\ jobs' = <<<<"drained", c>>>> \o Tail(jobs)
    /\ outputted' = TRUE
    /\ drained' = drained \cup {c}
    /\ UNCHANGED <<mode, lists, blocked, reader, pipes, received, accepted,
                   refused, unprompted>>

\* The loop ends, with POLLOUT cleared: nothing is left, or write() failed.
DrainStops(c) ==
    /\ Doing("conn_drain", c)
    /\ \/ conn[c].wrote_err /\ Done /\ UNCHANGED conn
       \/ /\ ~conn[c].wrote_err
          /\ \/ conn[c].out_queue = <<>> /\ UNCHANGED conn
             \/ /\ conn[c].out_queue # <<>> /\ ~reader
                /\ conn' = [conn EXCEPT ![c].wrote_err = TRUE]
             \/ /\ conn[c].out_queue # <<>> /\ reader
                /\ 0 \in Taken(Len(Head(conn[c].out_queue)))
                /\ UNCHANGED conn
          /\ jobs' = <<<<"drained", c>>>> \o Tail(jobs)
    /\ polled' = FALSE
    /\ UNCHANGED <<mode, lists, outputted, blocked, stdout, reader, pipes, bytes, past>>

\* Mutant: what was written for one connection counts for the next.
Reset_Not == UNCHANGED outputted

Reset == outputted' = FALSE

\* The rest of conn_drain. The handler's ctcp_output, which has nothing to
\* output, calls conn_output with no bytes: that records the end of file.
Drained(c) ==
    /\ Doing("drained", c)
    /\ conn' = [conn EXCEPT
         ![c].wrote_err = @ \/ (conn[c].wrote_eof /\ conn[c].out_queue = <<>>),
         ![c].wrote_eof = @ \/ outputted]
    /\ Reset
    /\ Done
    /\ UNCHANGED <<mode, lists, polled, blocked, stdout, reader, pipes, bytes, past>>

-----------------------------------------------------------------------------
\* ctcp_read and conn_input

\* The handler returns before it asks for input.
ReadRefused(c) ==
    /\ Doing("ctcp_read", c)
    /\ refused' = IF run_program THEN refused \cup {c} ELSE refused
    /\ Done
    /\ UNCHANGED <<mode, lists, conn, polled, outputted, blocked, stdout, reader,
                   pipes, bytes, drained, unprompted>>

\* Something is read, or the end of it, and a segment or a FIN will be sent.
conn_input(c) ==
    /\ Doing("ctcp_read", c)
    /\ ~conn[c].read_eof
    /\ LET taken == Min({MaxSegDataSize, out[c]})
       IN  \E eof \in (IF run_program THEN {taken = 0} ELSE BOOLEAN) :
             /\ conn' = [conn EXCEPT ![c].read_eof = eof, ![c].sent = TRUE]
             /\ out' = [out EXCEPT ![c] = @ - taken]
    /\ refused' = refused \ {c}
    /\ Done
    /\ UNCHANGED <<mode, lists, polled, outputted, blocked, stdout, reader, program,
                   in, bytes, drained, unprompted>>

-----------------------------------------------------------------------------
\* The packet that arrived: tcp_new_connection and execute_program

\* Its pipes are empty.
execute_program(c) == program' = [program EXCEPT ![c] = "running"]

tcp_new_connection(c) ==
    /\ Doing("receive", Nobody)
    /\ c = num_connected + 1
    /\ num_connected' = c
    /\ connections' = <<c>> \o connections
    /\ state_list' = <<c>> \o state_list
    /\ IF run_program THEN execute_program(c) ELSE UNCHANGED program
    /\ Done
    /\ UNCHANGED <<mode, freed, conn, polled, outputted, blocked, stdout, reader,
                   in, out, bytes, past>>

-----------------------------------------------------------------------------
\* The packet that arrived: the handler outputs its data

\* The bytes in the first chunks, by how many they are.
ChunkBytes(queue) ==
    LET total[n \in 0..Len(queue)] ==
          IF n = 0 THEN 0 ELSE total[n - 1] + Len(queue[n])
    IN  total

Queued(c) == ChunkBytes(conn[c].out_queue)[Len(conn[c].out_queue)]

conn_bufspace(c) == MaxBufSpace - Queued(c)

\* The n bytes that follow those acknowledged. The handler acknowledges them
\* whatever conn_output returns.
Data(c, n) == [i \in 1..n |-> received[c] + i]

Acknowledged(c, n) == received' = [received EXCEPT ![c] = @ + n]

Accepted(c, n) == accepted' = [accepted EXCEPT ![c] = @ + n]

\* ctcp_receive has the next n bytes of c, and room for them.
Arrives(c, n) ==
    /\ Doing("receive", Nobody)
    /\ c \in Range(connections) /\ ~conn[c].fin
    /\ received[c] + n <= MaxBytes[mode][c]
    /\ conn_bufspace(c) >= n

\* Mutant: write() is tried whether or not something is queued.
WritesNow_Always(c) == TRUE

WritesNow(c) == conn[c].out_queue = <<>>

Fails(c) == IF run_program THEN program[c] = "exited" ELSE ~reader

\* Nothing is output after the end of file or an error, or on a new error.
conn_output_nothing(c, n) ==
    /\ Arrives(c, n)
    /\ \/ (conn[c].wrote_eof \/ conn[c].wrote_err) /\ UNCHANGED conn
       \/ /\ ~conn[c].wrote_eof /\ WritesNow(c) /\ Fails(c)
          /\ conn' = [conn EXCEPT ![c].wrote_err = TRUE]
    /\ Acknowledged(c, n) /\ Done
    /\ UNCHANGED <<mode, lists, polled, outputted, blocked, stdout, reader, pipes,
                   accepted, written, past>>

\* Mutant: the event is left to conn_drain.
Event_Not == UNCHANGED polled

\* If there is stuff in the queue, create an event.
Event == polled' = TRUE

\* Standard output: what write() does not take is queued.
conn_output(c, n) ==
    /\ Arrives(c, n)
    /\ ~run_program /\ ~conn[c].wrote_eof /\ ~conn[c].wrote_err
    /\ WritesNow(c) => ~Fails(c)
    /\ \E w \in (IF WritesNow(c) THEN Taken(n) ELSE {0}) :
         /\ Wrote(c, SubSeq(Data(c, n), 1, w))
         /\ conn' = [conn EXCEPT ![c].out_queue =
                       IF w = n THEN @ ELSE Append(@, SubSeq(Data(c, n), w + 1, n))]
    /\ IF conn'[c].out_queue # <<>> THEN Event ELSE UNCHANGED polled
    /\ Acknowledged(c, n) /\ Accepted(c, n) /\ Done
    /\ UNCHANGED <<mode, lists, outputted, blocked, reader, pipes, past>>

\* A program: write() returns when it took everything, or the program ended.
conn_output_program(c, n) ==
    /\ Arrives(c, n)
    /\ run_program /\ ~conn[c].wrote_eof /\ ~conn[c].wrote_err /\ ~Fails(c)
    /\ blocked' = [conn |-> c, data |-> Data(c, n)]
    /\ UNCHANGED <<mode, lists, conn, polled, jobs, outputted, stdout, reader,
                   pipes, bytes, past>>

WriteReturns ==
    LET c == blocked.conn
        n == Len(blocked.data) IN
    /\ c # Nobody
    /\ \/ /\ program[c] = "running" /\ in[c] + n <= InSize
          /\ in' = [in EXCEPT ![c] = @ + n]
          /\ written' = [written EXCEPT ![c] = @ \o blocked.data]
          /\ Accepted(c, n)
          /\ UNCHANGED conn
       \/ /\ program[c] = "exited"
          /\ conn' = [conn EXCEPT ![c].wrote_err = TRUE]
          /\ UNCHANGED <<in, accepted, written>>
    /\ blocked' = None
    /\ Acknowledged(c, n) /\ Done
    /\ UNCHANGED <<mode, lists, polled, outputted, stdout, reader, program, out,
                   past>>

\* The peer's FIN, with everything before it here. The end of file is only
\* recorded: a program's input stays open.
conn_output_eof(c) ==
    /\ Doing("receive", Nobody)
    /\ c \in Range(connections) /\ ~conn[c].fin
    /\ conn' = [conn EXCEPT ![c].fin = TRUE, ![c].wrote_eof = TRUE]
    /\ Done
    /\ UNCHANGED <<mode, lists, polled, outputted, blocked, stdout, reader, pipes,
                   bytes, past>>

\* Any other packet.
NothingToOutput ==
    /\ Doing("receive", Nobody)
    /\ Done
    /\ UNCHANGED <<mode, lists, conn, polled, outputted, blocked, stdout, reader,
                   pipes, bytes, past>>

-----------------------------------------------------------------------------
\* ctcp_timer and delete_all_connections

\* The front of state_list is torn down, or has been sending in vain.
Ends(c) == conn[c].fin /\ conn[c].read_eof
GivesUp(c) == conn[c].sent

\* The chunks are freed as they are. The list is emptied when c is its front,
\* and a connection that is no longer in it is not freed.
conn_free(c) ==
    \/ /\ \E i \in DOMAIN connections :
            /\ connections[i] = c
            /\ connections' = IF i = 1 THEN <<>> ELSE RemoveAt(connections, i)
       /\ freed' = freed \cup {c}
       /\ conn' = [conn EXCEPT ![c].out_queue = <<>>]
    \/ /\ c \notin Range(connections)
       /\ UNCHANGED <<connections, freed, conn>>

ctcp_timer ==
    /\ Doing("timer", Nobody)
    /\ \/ UNCHANGED <<conn, connections, state_list, freed>>
       \/ /\ state_list # <<>>
          /\ LET c == Head(state_list) IN
               /\ Ends(c) \/ GivesUp(c)
               /\ state_list' = Tail(state_list)
               /\ conn_free(c)
    /\ Done
    /\ UNCHANGED <<mode, num_connected, polled, outputted, blocked, stdout, reader,
                   pipes, bytes, past>>

-----------------------------------------------------------------------------
\* What runs beside the server

ReaderReads ==
    /\ stdout > 0
    /\ stdout' = stdout - 1
    /\ UNCHANGED <<mode, lists, conn, polled, jobs, outputted, blocked, reader,
                   pipes, bytes, past>>

ReaderLeaves ==
    /\ reader /\ ~run_program
    /\ reader' = FALSE /\ stdout' = 0
    /\ UNCHANGED <<mode, lists, conn, polled, jobs, outputted, blocked, pipes,
                   bytes, past>>

\* A filter answers each byte it reads with a byte, and sleeps when it cannot.
ProgramAnswers(c) ==
    /\ program[c] = "running"
    /\ in[c] > 0 /\ out[c] < OutSize
    /\ in' = [in EXCEPT ![c] = @ - 1] /\ out' = [out EXCEPT ![c] = @ + 1]
    /\ UNCHANGED <<mode, lists, conn, polled, jobs, outputted, blocked, stdout,
                   reader, program, bytes, past>>

\* Others (grep, sh) have no answer to a byte.
ProgramReads(c) ==
    /\ program[c] = "running"
    /\ in[c] > 0
    /\ in' = [in EXCEPT ![c] = @ - 1]
    /\ UNCHANGED <<mode, lists, conn, polled, jobs, outputted, blocked, stdout,
                   reader, program, out, bytes, past>>

\* Or write at any time: later than they read (sort), more (sh), or without
\* reading at all (date).
ProgramWrites(c) ==
    /\ program[c] = "running"
    /\ out[c] < OutSize /\ unprompted[c] < MaxUnprompted[c]
    /\ out' = [out EXCEPT ![c] = @ + 1]
    /\ unprompted' = [unprompted EXCEPT ![c] = @ + 1]
    /\ UNCHANGED <<mode, lists, conn, polled, jobs, outputted, blocked, stdout,
                   reader, program, in, bytes, drained, refused>>

\* It may end by itself.
ProgramExits(c) ==
    /\ program[c] = "running"
    /\ program' = [program EXCEPT ![c] = "exited"]
    /\ in' = [in EXCEPT ![c] = 0]
    /\ UNCHANGED <<mode, lists, conn, polled, jobs, outputted, blocked, stdout,
                   reader, out, bytes, past>>

ProgramSteps(c) ==
    ProgramAnswers(c) \/ ProgramReads(c) \/ ProgramWrites(c) \/ ProgramExits(c)

-----------------------------------------------------------------------------
Handler(c) ==
    \/ DrainWrites(c) \/ DrainStops(c) \/ Drained(c)
    \/ ReadRefused(c) \/ conn_input(c)
    \/ tcp_new_connection(c) \/ conn_output_eof(c)
    \/ \E n \in 1..MaxSegDataSize :
         conn_output_nothing(c, n) \/ conn_output(c, n) \/ conn_output_program(c, n)

Server ==
    \/ do_loop
    \/ \E c \in Conns : Handler(c)
    \/ WriteReturns \/ NothingToOutput \/ ctcp_timer

Next ==
    \/ Server
    \/ ReaderReads \/ ReaderLeaves
    \/ \E c \in Conns : ProgramSteps(c)

Spec == Init /\ [][Next]_vars

\* do_loop runs, and somebody reads standard output while he has not left.
FairSpec == Spec /\ WF_vars(Server) /\ WF_vars(ReaderReads)

-----------------------------------------------------------------------------
\* The output of a connection is a queue of bytes (OutputFifo), though part of
\* a byte sequence is in the chunks of out_queue, part may have been taken by
\* write(), and two functions write.
Fifo == INSTANCE OutputFifo WITH
    ended <- [c \in Conns |-> conn[c].wrote_eof]

ImplementsFifo == Fifo!Spec

\* Output waits for an event that nobody asked for only after conn_drain wrote
\* something: it clears POLLOUT for all connections at once, and does not ask
\* again when write() then refuses the next chunk or the next connection's.
LostEventNeedsDrain ==
    \A c \in Conns :
        /\ conn[c].out_queue # <<>> /\ ~conn[c].wrote_err
        /\ ~polled /\ c \in Range(connections)
        /\ \A i \in DOMAIN jobs : jobs[i] # <<"conn_drain", c>>
        => drained # {}

\* The end of file is recorded without a FIN only for a connection conn_drain
\* wrote for: what is acknowledged and then thrown away follows a queue.
EarlyEndNeedsDrain ==
    \A c \in Conns : conn[c].wrote_eof /\ ~conn[c].fin => c \in drained

\* Server and program wait for each other, both pipes being full, only if
\* ctcp_read last refused to read, or the program once wrote unprompted. With a
\* filter, and as long as the window and the pacing let its answers out, one read a
\* turn makes room for one write a turn; lab4/assignment.md:110 runs sh and date.
DeadlockNeedsRefusalOrTalk ==
    \A c \in Conns :
        /\ blocked.conn = c /\ program[c] = "running"
        /\ in[c] + Len(blocked.data) > InSize /\ out[c] = OutSize
        => c \in refused \/ unprompted[c] > 0

\* The pipes of a program are closed only when its connection gave up: the end
\* of its output goes unseen, so its connection cannot be torn down, and the
\* end of the peer's stream is not passed on, so a filter has no end.
PipesCloseByGivingUp == run_program => \A c \in freed : ~Ends(c)

\* The rest of a chunk that was written in part follows in the end. With one
\* connection and one chunk at a time no event is lost.
RestIsWritten ==
    \A c \in Conns :
        [](num_connected <= 1 /\ Len(conn[c].out_queue) <= 1)
          => (conn[c].out_queue # <<>> ~> (conn[c].out_queue = <<>> \/ ~reader))
=============================================================================
