-------------------------- MODULE VnsSessionProof --------------------------
(***************************************************************************)
(* For any interfaces, files, sizes of commands and ways in which recv     *)
(* cuts the stream: the router reads whole commands, a ready router is     *)
(* configured, and it ends only for a reason.                              *)
(*                                                                         *)
(* Two arguments, one on top of the other. The framing: the stream is the  *)
(* concatenation of the commands that were sent, so that each command has  *)
(* an offset in it, and what was read is the offset of the command being   *)
(* read and what is in the buffer (BufOK, PosOK). The negotiation: what    *)
(* each side has said tells where the other one is (UpOK, ToldOK, HeardOK) *)
(* and with it what the next command can be.                               *)
(***************************************************************************)
EXTENDS VnsSession, SequenceLemmas, FiniteSetTheorems

-----------------------------------------------------------------------------
\* Concatenation

\* The concatenation of a sequence of sequences, piece by piece.
Pieces(S, seqs, f) ==
    /\ f \in [0..Len(seqs) -> Seq(S)]
    /\ f[0] = <<>> /\ f[Len(seqs)] = FlattenSeq(seqs)
    /\ \A i \in 1..Len(seqs) : f[i] = f[i - 1] \o seqs[i]

\* Which FlattenSeq is the last of.
LEMMA FlattenIs ==
    ASSUME NEW S, NEW seqs \in Seq(Seq(S))
    PROVE  \E f : Pieces(S, seqs, f)
<1> DEFINE m == Len(seqs)
           V == Seq(S)
           step == [i \in 1..m |-> [t \in V |-> t \o seqs[i]]]
           base == <<>>
           Is(g) == g = [i \in 1..m |-> IF i = 1 THEN seqs[i] ELSE g[i - 1] \o seqs[i]]
<1>1. m \in Nat /\ base \in V /\ \A i \in 1..m : seqs[i] \in V
  OBVIOUS
<1>2. ASSUME NEW i \in 1..m, NEW t \in V PROVE t \o seqs[i] \in V
  BY <1>1, ConcatProperties
<1>. HIDE DEF m
<1>3. step \in [1..m -> [V -> V]] /\ \A i \in 1..m, t \in V : step[i][t] = t \o seqs[i]
  BY <1>2
<1>. HIDE DEF step
<1>4. PICK f \in [0..m -> V] : f[0] = base /\ \A i \in 1..m : f[i] = step[i][f[i - 1]]
  <2>. HIDE DEF base, V
  <2>1. Recursive(V, m, base, step)
    BY <1>1, <1>3, Recursion
  <2>. QED BY <2>1 DEF Recursive
<1>5. ASSUME NEW i \in 1..m PROVE f[i] = f[i - 1] \o seqs[i]
  <2>1. i - 1 \in 0..m
    BY <1>1
  <2>. QED BY <1>3, <1>4, <2>1
<1>6. CASE m = 0
  <2>1. FlattenSeq(seqs) = <<>>
    BY <1>6 DEF FlattenSeq, m
  <2>. QED BY <1>4, <1>5, <1>6, <2>1 DEF Pieces, m
<1>7. CASE m # 0
  <2> DEFINE h == [i \in 1..m |-> f[i]]
             g == CHOOSE x : Is(x)
  <2>1. ASSUME NEW i \in 1..m
        PROVE  h[i] = IF i = 1 THEN seqs[i] ELSE h[i - 1] \o seqs[i]
    <3>1. CASE i = 1
      <4>1. f[i] = f[0] \o seqs[i]
        <5>1. i - 1 = 0
          BY <3>1
        <5>. QED BY <1>5, <5>1
      <4>2. seqs[i] \in Seq(S)
        BY <1>1
      <4>3. <<>> \o seqs[i] = seqs[i]
        BY <4>2, ConcatEmptySeq
      <4>. QED BY <1>4, <3>1, <4>1, <4>3
    <3>2. CASE i # 1
      <4>1. i - 1 \in 1..m
        BY <1>1, <3>2
      <4>. QED BY <1>5, <3>2, <4>1
    <3>. QED BY <3>1, <3>2
  <2>2. Is(h)
    BY <2>1
  <2>3. Is(g)
    BY <2>2
  <2>4. FlattenSeq(seqs) = g[m]
    BY <1>7 DEF FlattenSeq, m
  <2>. HIDE DEF g
  <2>5. \A i \in 1..m : g[i] = IF i = 1 THEN seqs[i] ELSE g[i - 1] \o seqs[i]
    BY <2>3
  <2>. HIDE DEF h, Is
  <2> DEFINE T == {n \in Nat : n \in 1..m => g[n] = h[n]}
  <2>6. 0 \in T
    OBVIOUS
  <2>7. ASSUME NEW n \in T PROVE n + 1 \in T
    <3>1. SUFFICES ASSUME n + 1 \in 1..m PROVE g[n + 1] = h[n + 1]
      OBVIOUS
    <3>2. CASE n = 0
      BY <2>1, <2>5, <3>1, <3>2
    <3>3. CASE n # 0
      <4>1. n \in 1..m /\ (n + 1) - 1 = n /\ n + 1 # 1
        BY <1>1, <3>1, <3>3
      <4>. QED BY <2>1, <2>5, <3>1, <4>1
    <3>. QED BY <3>2, <3>3
  <2>8. T = Nat
    <3>. HIDE DEF T
    <3>1. T \in SUBSET Nat
      BY DEF T
    <3>. QED BY <2>6, <2>7, <3>1, Induction
  <2>9. m \in 1..m
    BY <1>1, <1>7
  <2>10. g[m] = f[m]
    BY <1>1, <2>8, <2>9 DEF h
  <2>. QED BY <1>4, <1>5, <2>4, <2>10 DEF Pieces, m
<1>. QED BY <1>6, <1>7

\* Each piece is a prefix of the whole.
LEMMA PieceIn ==
    ASSUME NEW S, NEW seqs \in Seq(Seq(S)), NEW f, Pieces(S, seqs, f)
    PROVE  \A i \in 0..Len(seqs) :
             /\ Len(f[i]) \in Nat /\ Len(f[i]) <= Len(FlattenSeq(seqs))
             /\ \A k \in 1..Len(f[i]) : FlattenSeq(seqs)[k] = f[i][k]
<1> DEFINE m == Len(seqs)
           In(s, t) == Len(s) <= Len(t) /\ \A k \in 1..Len(s) : t[k] = s[k]
           T == {n \in Nat : n <= m => In(f[m - n], f[m])}
<1>1. /\ m \in Nat /\ \A i \in 0..m : f[i] \in Seq(S)
      /\ \A i \in 1..m : seqs[i] \in Seq(S) /\ f[i] = f[i - 1] \o seqs[i]
      /\ f[m] = FlattenSeq(seqs)
  BY DEF Pieces
<1>. HIDE DEF m
<1>2. \A i \in 0..m : Len(f[i]) \in Nat
  BY <1>1
<1>3. 0 \in T
  BY <1>1
<1>4. ASSUME NEW n \in T PROVE n + 1 \in T
  <2>1. SUFFICES ASSUME n + 1 <= m PROVE In(f[m - (n + 1)], f[m])
    OBVIOUS
  <2> DEFINE i == m - n
             s == f[i - 1]
             t == seqs[i]
             w == f[m]
  <2>2. n \in Nat /\ i \in 1..m /\ i - 1 \in 0..m /\ i \in 0..m /\ i - 1 = m - (n + 1) /\ m \in 0..m
    BY <1>1, <2>1
  <2>3. In(f[i], w)
    BY <1>1, <2>1
  <2>4. f[i] = s \o t /\ s \in Seq(S) /\ t \in Seq(S) /\ w \in Seq(S)
    BY <1>1, <2>2
  <2>. HIDE DEF s, t, w
  <2>5. Len(s \o t) = Len(s) + Len(t) /\ \A k \in 1..Len(s) : (s \o t)[k] = s[k]
    BY <2>4, ConcatProperties
  <2>6. Len(s) \in Nat /\ Len(t) \in Nat /\ Len(w) \in Nat
    BY <2>4
  <2>7. In(s, w)
    <3>1. Len(s) + Len(t) <= Len(w) /\ \A k \in 1..(Len(s) + Len(t)) : w[k] = (s \o t)[k]
      BY <2>3, <2>4, <2>5 DEF w
    <3>2. Len(s) <= Len(w) /\ \A k \in 1..Len(s) : k \in 1..(Len(s) + Len(t))
      BY <2>6, <3>1
    <3>. QED BY <2>5, <3>1, <3>2
  <2>. QED BY <2>2, <2>7 DEF s, w
<1>5. T = Nat
  <2>. HIDE DEF T
  <2>1. T \in SUBSET Nat
    BY DEF T
  <2>. QED BY <1>3, <1>4, <2>1, Induction
<1>6. ASSUME NEW i \in 0..m PROVE In(f[i], f[m])
  <2>1. m - i \in Nat /\ m - i <= m /\ m - (m - i) = i
    BY <1>1
  <2>. QED BY <1>5, <2>1
<1>. QED BY <1>1, <1>2, <1>6 DEF m

-----------------------------------------------------------------------------
\* Types

Commands == {"AUTH_REQUEST", "AUTH_STATUS", "HWINFO", "PACKET"}

\* The switch's interfaces in some order, each once.
Enumeration ==
    {is \in Seq(Interfaces) \ {<<>>} :
        /\ \A i \in Interfaces : \E n \in DOMAIN is : is[n] = i
        /\ \A m, n \in DOMAIN is : is[m] = is[n] => m = n}

\* What the controller sends, and what the router does.
Downward ==
    {Command("AUTH_REQUEST"), Command("AUTH_STATUS")}
    \cup [type : {"PACKET"}, intf : Interfaces, frame : Frames]
    \cup {VNSHardwareInfo(is) : is \in Enumeration}

Negotiation == {"AUTH_REPLY", "OPEN", "OPEN_TEMPLATE"}

Upward == [type : Negotiation] \cup [type : {"PACKET"}, intf : Interfaces]

TypeOK ==
    /\ setup \in Setups
    /\ pc \in Running \cup Ended \cup {"off"}
    /\ conn \in Nat /\ greeting \in 0..conn /\ accepting \in SUBSET (1..conn)
    /\ alive \in BOOLEAN /\ open \in BOOLEAN
    /\ sent \in Seq(Downward)
    /\ up \in Seq([conn : Nat, msg : Upward])

\* _handle_RouterInfo collects every interface once.
CoreOK ==
    /\ informing \in SUBSET Interfaces
    /\ port_to_intfname \in [{Port[i] : i \in Interfaces} \cup {OtherPort} ->
                               Interfaces \cup {Unset}]
    /\ interfaces \in Enumeration \cup {Unset}
    /\ collected \in Seq(Interfaces)
    /\ \A n \in DOMAIN collected : collected[n] \notin informing
    /\ \A m, n \in DOMAIN collected : collected[m] = collected[n] => m = n
    /\ collected # <<>> =>
         \A i \in Interfaces \ informing : \E n \in DOMAIN collected : collected[n] = i
    /\ collected = <<>> => informing \in {{}, Interfaces}

\* Messages of this connection that the controller has not read.
Live(n) == n \in DOMAIN up /\ up[n].conn = conn

Told(type) == \E n \in DOMAIN sent : sent[n].type = type

\* The router has dispatched a command of this type.
Heard(type) == \E n \in 1..handled : sent[n].type = type

\* What is on its way to the controller is the answer, or the question, that
\* the router's place in the negotiation calls for, and no answer to it was sent.
UpOK ==
    /\ \A n \in DOMAIN up : up[n].conn <= conn
    /\ \A m, n \in DOMAIN up :
         Live(m) /\ Live(n) /\ up[m].msg.type # "PACKET" /\ up[n].msg.type # "PACKET" => m = n
    /\ pc \in Running => \A n \in DOMAIN up : Live(n) =>
         \/ up[n].msg.type = "AUTH_REPLY" /\ pc = "auth_status" /\ ~Told("AUTH_STATUS")
         \/ up[n].msg.type = "OPEN" /\ pc = "main" /\ ~Told("HWINFO")
         \/ up[n].msg.type = "OPEN_TEMPLATE" /\ pc = "rtable"
         \/ up[n].msg.type = "PACKET" /\ pc = "main"

\* Each step of the negotiation is told once, and not before its time.
ToldOK ==
    /\ \A m, n \in DOMAIN sent :
         sent[m].type = sent[n].type /\ sent[m].type # "PACKET" => m = n
    /\ Told("AUTH_REQUEST") => conn \notin accepting /\ greeting # conn
    /\ greeting = conn => conn \notin accepting
    /\ pc \in Running =>
         /\ Told("AUTH_STATUS") => pc # "auth_request"
         /\ Told("HWINFO") => pc = "main"

\* The router is where the commands it has dispatched bring it.
HeardOK ==
    pc \in Running =>
        /\ pc # "auth_request" => Heard("AUTH_REQUEST")
        /\ pc \in {"rtable", "main"} => Heard("AUTH_STATUS")
        /\ Heard("HWINFO") <=> if_list # <<>>

\* The interfaces as the hardware information lists them.
Configured(list, is) ==
    list = [n \in DOMAIN is |-> [name |-> is[n], ip |-> Ip[is[n]], addr |-> Mac[is[n]]]]

\* The list and the table that main works with.
TablesOK ==
    /\ pc \in Running => /\ pc = "rtable" => setup.template
                         /\ pc = "main" => ~setup.template
                         /\ ~setup.template => Loads(setup.rtable)
                         /\ ~setup.template /\ setup.rtable # <<>> =>
                              routing_table = setup.rtable
    /\ pc = "main" /\ if_list # <<>> =>
         /\ \E is \in Enumeration : Configured(if_list, is)
         /\ sr_verify_routing_table(if_list, routing_table)

\* Nobody closes the connection of a router in the negotiation but a stopping
\* controller, or the exception that an OPEN_TEMPLATE raises, which was the last
\* message.
OpenOK == pc \in Running /\ ~open => ~alive \/ (pc = "rtable" /\ \A n \in DOMAIN up : ~Live(n))

\* The type of a command.
LEMMA TypeIs ==
    ASSUME NEW cmd \in Downward
    PROVE  /\ cmd.type \in Commands
           /\ cmd.type = "PACKET" => cmd.intf \in Interfaces /\ cmd.frame \in Frames
<1>1. CASE cmd \in {Command("AUTH_REQUEST"), Command("AUTH_STATUS")}
  BY <1>1 DEF Command, Commands
<1>2. CASE cmd \in [type : {"PACKET"}, intf : Interfaces, frame : Frames]
  BY <1>2 DEF Commands
<1>3. CASE cmd \in {VNSHardwareInfo(is) : is \in Enumeration}
  <2>1. PICK is \in Enumeration : cmd = VNSHardwareInfo(is)
    BY <1>3
  <2>2. cmd.type = "HWINFO"
    BY <2>1 DEF VNSHardwareInfo
  <2>. QED BY <2>2 DEF Commands
<1>. QED BY <1>1, <1>2, <1>3 DEF Downward

\* Every command has a header and a body, and only a frame's can be too long.
LEMMA SizeIs ==
    ASSUME NEW cmd \in Downward
    PROVE  /\ Size(cmd) \in Nat /\ HeaderUnits < Size(cmd) /\ HeaderUnits \in Nat \ {0}
           /\ Size(cmd) > MaxLength => cmd.type = "PACKET"
<1>1. HeaderUnits \in Nat \ {0} /\ MaxLength \in Nat
  BY SessionConstants
<1>2. CASE cmd.type = "PACKET"
  <2>1. cmd.frame.units \in Nat \ {0}
    BY <1>2, TypeIs, SessionConstants
  <2>. QED BY <1>1, <1>2, <2>1 DEF Size
<1>3. CASE cmd.type # "PACKET"
  <2>1. cmd.type \in {"AUTH_REQUEST", "AUTH_STATUS", "HWINFO"}
    BY <1>3, TypeIs DEF Commands
  <2>2. BodyUnits[cmd.type] \in Nat \ {0} /\ HeaderUnits + BodyUnits[cmd.type] <= MaxLength
    BY <2>1, SessionConstants
  <2>. QED BY <1>1, <1>3, <2>2 DEF Size
<1>. QED BY <1>2, <1>3

-----------------------------------------------------------------------------
\* Whole commands

Units == Nat \X Nat

\* The first k units of the n-th command.
LEMMA UnitsAre ==
    ASSUME NEW n \in Nat, NEW k \in Nat
    PROVE  LET p == [u \in 1..k |-> <<n, u>>]
           IN  p \in Seq(Units) /\ Len(p) = k /\ \A u \in 1..k : p[u] = <<n, u>>
<1> DEFINE p == [u \in 1..k |-> <<n, u>>]
<1>1. \A u \in 1..k : <<n, u>> \in Units
  BY DEF Units
<1>2. p \in [1..k -> Units] /\ \A u \in 1..k : p[u] = <<n, u>>
  BY <1>1
<1>. HIDE DEF p
<1>3. p \in Seq(Units) /\ Len(p) = k
  BY <1>2
<1>. QED BY <1>2, <1>3 DEF p

\* off[n] units of the stream belong to the first n commands.
Offsets(off) ==
    /\ off \in [0..Len(sent) -> Nat]
    /\ off[0] = 0 /\ \A n \in 1..Len(sent) : off[n] = off[n - 1] + Size(sent[n])

\* The stream has the units of each command from its offset on.
LEMMA StreamIs ==
    ASSUME sent \in Seq(Downward), NEW off, Offsets(off)
    PROVE  /\ Stream \in Seq(Units) /\ Len(Stream) = off[Len(sent)]
           /\ \A n \in 1..Len(sent) : \A u \in 1..Size(sent[n]) :
                /\ off[n - 1] + u \in 1..Len(Stream)
                /\ Stream[off[n - 1] + u] = <<n, u>>
<1> DEFINE m == Len(sent)
           piece(n) == [u \in 1..Size(sent[n]) |-> <<n, u>>]
           seqs == [n \in DOMAIN sent |-> piece(n)]
<1>1. m \in Nat /\ DOMAIN sent = 1..m
  OBVIOUS
<1>2. ASSUME NEW n \in 1..m
      PROVE  /\ Size(sent[n]) \in Nat /\ piece(n) \in Seq(Units)
             /\ Len(piece(n)) = Size(sent[n])
             /\ \A u \in 1..Size(sent[n]) : piece(n)[u] = <<n, u>>
  <2>1. Size(sent[n]) \in Nat
    BY SizeIs
  <2>2. n \in Nat
    OBVIOUS
  <2>. QED BY <2>1, <2>2, UnitsAre
<1>3. seqs \in Seq(Seq(Units)) /\ Len(seqs) = m /\ \A n \in 1..m : seqs[n] = piece(n)
  BY <1>1, <1>2
<1>4. Stream = FlattenSeq(seqs)
  BY DEF Stream
<1>. HIDE DEF seqs, piece, m
<1>5. PICK f : Pieces(Units, seqs, f)
  BY <1>3, FlattenIs
<1>6. /\ f \in [0..m -> Seq(Units)] /\ f[0] = <<>> /\ f[m] = Stream
      /\ \A i \in 1..m : f[i] = f[i - 1] \o piece(i)
  BY <1>3, <1>4, <1>5 DEF Pieces
<1>7. ASSUME NEW n \in 1..m
      PROVE  /\ n - 1 \in 0..m /\ Len(f[n - 1]) \in Nat
             /\ Len(f[n]) = Len(f[n - 1]) + Size(sent[n])
             /\ \A u \in 1..Size(sent[n]) :
                  /\ Len(f[n - 1]) + u \in 1..Len(f[n])
                  /\ f[n][Len(f[n - 1]) + u] = <<n, u>>
  <2> DEFINE s == f[n - 1]
             t == piece(n)
  <2>1. n - 1 \in 0..m
    BY <1>1
  <2>2. s \in Seq(Units) /\ t \in Seq(Units) /\ f[n] = s \o t
    BY <1>2, <1>6, <2>1
  <2>3. /\ Len(t) = Size(sent[n]) /\ Size(sent[n]) \in Nat
        /\ \A u \in 1..Size(sent[n]) : t[u] = <<n, u>>
    BY <1>2
  <2>. HIDE DEF s, t
  <2>4. /\ Len(s) \in Nat /\ Len(s \o t) = Len(s) + Len(t)
        /\ \A i \in 1..(Len(s) + Len(t)) :
             (s \o t)[i] = IF i <= Len(s) THEN s[i] ELSE t[i - Len(s)]
    BY <2>2, ConcatProperties
  <2>5. ASSUME NEW u \in 1..Size(sent[n])
        PROVE  Len(s) + u \in 1..Len(s \o t) /\ (s \o t)[Len(s) + u] = <<n, u>>
    <3>1. Len(s) + u \in 1..(Len(s) + Len(t)) /\ ~(Len(s) + u <= Len(s))
          /\ (Len(s) + u) - Len(s) = u
      BY <2>3, <2>4
    <3>. QED BY <2>3, <2>4, <3>1
  <2>. QED BY <2>1, <2>2, <2>3, <2>4, <2>5 DEF s
<1> DEFINE T == {n \in Nat : n <= m => Len(f[n]) = off[n]}
<1>8. 0 \in T
  BY <1>6 DEF Offsets
<1>9. ASSUME NEW n \in T PROVE n + 1 \in T
  <2>1. SUFFICES ASSUME n + 1 <= m PROVE Len(f[n + 1]) = off[n + 1]
    OBVIOUS
  <2>2. n \in Nat /\ n + 1 \in 1..m /\ (n + 1) - 1 = n /\ n <= m
    BY <1>1, <2>1
  <2>3. Len(f[n]) = off[n]
    BY <2>2
  <2>4. off[n + 1] = off[n] + Size(sent[n + 1])
    BY <2>2 DEF Offsets, m
  <2>. QED BY <1>7, <2>2, <2>3, <2>4
<1>10. \A n \in 0..m : Len(f[n]) = off[n]
  <2>1. T = Nat
    <3>. HIDE DEF T
    <3>1. T \in SUBSET Nat
      BY DEF T
    <3>. QED BY <1>8, <1>9, <3>1, Induction
  <2>. QED BY <1>1, <2>1
<1>11. Stream \in Seq(Units) /\ Len(Stream) = off[m]
  BY <1>1, <1>6, <1>10
<1>12. ASSUME NEW n \in 1..m, NEW u \in 1..Size(sent[n])
       PROVE  /\ off[n - 1] + u \in 1..Len(Stream)
              /\ Stream[off[n - 1] + u] = <<n, u>>
  <2>1. n \in 0..m /\ off[n - 1] = Len(f[n - 1])
    BY <1>1, <1>7, <1>10
  <2>2. /\ Len(f[n]) \in Nat /\ Len(f[n]) <= Len(Stream)
        /\ \A k \in 1..Len(f[n]) : Stream[k] = f[n][k]
    BY <1>3, <1>4, <1>5, <2>1, PieceIn
  <2>3. Len(f[n - 1]) + u \in 1..Len(f[n]) /\ f[n][Len(f[n - 1]) + u] = <<n, u>>
    BY <1>7
  <2>4. Len(Stream) \in Nat
    BY <1>11
  <2>. QED BY <2>1, <2>2, <2>3, <2>4
<1>. QED BY <1>11, <1>12 DEF m

\* The buffer has the first units of the command after the ones dispatched,
\* and the router has read the ones dispatched and what is in the buffer.
BufOK ==
    /\ handled \in 0..Len(sent) /\ buf \in Seq(Units)
    /\ \A u \in 1..Len(buf) : buf[u] = <<handled + 1, u>>
    /\ buf # <<>> => handled < Len(sent) /\ Len(buf) <= Size(sent[handled + 1])

PosOK == \E off : Offsets(off) /\ pos = off[handled] + Len(buf)

\* Of the command in the buffer the header tells its size.
LEMMA WantedIs ==
    ASSUME sent \in Seq(Downward), BufOK
    PROVE  /\ buf # <<>> /\ HeaderUnits <= Len(buf) =>
                Wanted(buf) = Size(sent[handled + 1]) - Len(buf)
           /\ Len(buf) < HeaderUnits => Wanted(buf) = HeaderUnits - Len(buf)
           /\ Complete(buf) => /\ handled < Len(sent)
                               /\ Len(buf) = Size(sent[handled + 1])
                               /\ Received(buf) = sent[handled + 1]
           /\ HeaderUnits <= Len(buf) => /\ handled < Len(sent)
                                         /\ Length(buf) = Size(sent[handled + 1])
<1>1. HeaderUnits \in Nat \ {0} /\ Len(buf) \in Nat
  BY SessionConstants DEF BufOK
<1>2. ASSUME HeaderUnits <= Len(buf)
      PROVE  /\ Wanted(buf) = Size(sent[handled + 1]) - Len(buf)
             /\ handled < Len(sent) /\ Len(buf) <= Size(sent[handled + 1])
             /\ buf[1][1] = handled + 1 /\ Length(buf) = Size(sent[handled + 1])
  <2>1. buf # <<>> /\ 1 \in 1..Len(buf)
    BY <1>1, <1>2, EmptySeq DEF BufOK
  <2>2. buf[1] = <<handled + 1, 1>>
    BY <2>1 DEF BufOK
  <2>3. buf[1][1] = handled + 1
    BY <2>2
  <2> DEFINE h == SubSeq(buf, 1, HeaderUnits)
             k == Header(handled + 1)
  <2>4. /\ h \in Seq(Units) /\ Len(h) = HeaderUnits
        /\ \A u \in 1..HeaderUnits : h[u] = buf[u]
    <3>1. \A u \in 1..HeaderUnits : buf[u] \in Units
      BY <1>1, <1>2 DEF BufOK
    <3>2. HeaderUnits - 1 + 1 = HeaderUnits /\ 1 <= HeaderUnits /\ \A u \in Int : 1 + u - 1 = u
      BY <1>1
    <3>. QED BY <1>1, <3>1, <3>2, SubSeqProperties
  <2>5. /\ k \in Seq(Units) /\ Len(k) = HeaderUnits
        /\ \A u \in 1..HeaderUnits : k[u] = <<handled + 1, u>>
    <3>1. handled + 1 \in Nat /\ HeaderUnits \in Nat
      BY <1>1 DEF BufOK
    <3>. QED BY <3>1, UnitsAre DEF Header
  <2>. HIDE DEF h, k
  <2>6. \A u \in 1..HeaderUnits : h[u] = k[u]
    <3>1. \A u \in 1..HeaderUnits : u \in 1..Len(buf)
      BY <1>1, <1>2
    <3>. QED BY <2>4, <2>5, <3>1 DEF BufOK
  <2>7. h = k
    BY <2>4, <2>5, <2>6, SeqEqual
  <2>8. Length(buf) = Size(sent[handled + 1])
    BY <2>3, <2>7 DEF Length, h, k
  <2>9. ~(Len(buf) < HeaderUnits)
    BY <1>1, <1>2
  <2>. QED BY <2>1, <2>3, <2>8, <2>9 DEF Wanted, BufOK
<1>3. Len(buf) < HeaderUnits => Wanted(buf) = HeaderUnits - Len(buf)
  BY DEF Wanted
<1>4. ASSUME Complete(buf)
      PROVE  /\ handled < Len(sent) /\ Len(buf) = Size(sent[handled + 1])
             /\ Received(buf) = sent[handled + 1]
  <2>1. HeaderUnits <= Len(buf) /\ Wanted(buf) = 0
    BY <1>1, <1>4 DEF Complete
  <2>2. handled + 1 \in 1..Len(sent)
    BY <1>2, <2>1 DEF BufOK
  <2>3. Size(sent[handled + 1]) \in Nat
    BY <2>2, SizeIs
  <2>4. Len(buf) = Size(sent[handled + 1])
    BY <1>1, <1>2, <2>1, <2>3
  <2> DEFINE w == [u \in 1..Size(sent[handled + 1]) |-> <<handled + 1, u>>]
  <2>5. w \in Seq(Units) /\ Len(w) = Len(buf) /\ \A u \in 1..Len(buf) : w[u] = <<handled + 1, u>>
    <3>1. handled + 1 \in Nat
      BY DEF BufOK
    <3>. QED BY <2>3, <2>4, <3>1, UnitsAre
  <2>. HIDE DEF w
  <2>6. buf = w
    BY <2>5, SeqEqual DEF BufOK
  <2>7. Received(buf) = sent[handled + 1]
    BY <1>2, <2>1, <2>6 DEF Received, w
  <2>. QED BY <1>2, <2>1, <2>4, <2>7
<1>. QED BY <1>1, <1>2, <1>3, <1>4

-----------------------------------------------------------------------------
\* Types and the controller's tables

\* conn.send appends to the stream, or nothing happens.
LEMMA SendToIs ==
    ASSUME TypeOK, NEW c, NEW cmd \in Downward, SendTo(c, cmd)
    PROVE  /\ sent' \in Seq(Downward)
           /\ \/ sent' = sent
              \/ c = conn /\ pc \in Running /\ open /\ sent' = Append(sent, cmd)
  BY DEF SendTo, TypeOK

\* So does what is sent to the controller.
LEMMA SendIs ==
    ASSUME TypeOK, NEW msg \in Upward, Send(msg)
    PROVE  /\ up' \in Seq([conn : Nat, msg : Upward])
           /\ \/ up' = up
              \/ up' = Append(up, [conn |-> conn, msg |-> msg])
<1>1. [conn |-> conn, msg |-> msg] \in [conn : Nat, msg : Upward]
  BY DEF TypeOK
<1> DEFINE letter == [conn |-> conn, msg |-> msg]
           L == [conn : Nat, msg : Upward]
<1>2. up' = Append(up, letter) \/ up' = up
  BY DEF Send
<1>3. letter \in L /\ up \in Seq(L)
  BY <1>1 DEF TypeOK
<1>. HIDE DEF letter, L
<1>4. up' \in Seq(L)
  BY <1>2, <1>3
<1>. QED BY <1>2, <1>4 DEF letter, L

\* The commands that the controller's threads send.
LEMMA DownwardIs ==
    /\ Command("AUTH_REQUEST") \in Downward /\ Command("AUTH_STATUS") \in Downward
    /\ \A i \in Interfaces, frame \in Frames :
         VNSPacket(i, frame) \in Downward /\ VNSPacket(i, frame).type = "PACKET"
    /\ \A is \in Enumeration :
         VNSHardwareInfo(is) \in Downward /\ VNSHardwareInfo(is).type = "HWINFO"
    /\ Command("AUTH_REQUEST").type = "AUTH_REQUEST"
    /\ Command("AUTH_STATUS").type = "AUTH_STATUS"
<1>1. \A i \in Interfaces, frame \in Frames :
        /\ VNSPacket(i, frame) \in [type : {"PACKET"}, intf : Interfaces, frame : Frames]
        /\ VNSPacket(i, frame).type = "PACKET"
  BY DEF VNSPacket
<1>2. \A is \in Enumeration : VNSHardwareInfo(is).type = "HWINFO"
  BY DEF VNSHardwareInfo
<1>. QED BY <1>1, <1>2 DEF Downward, Command

\* Those that the router sends.
LEMMA UpwardIs ==
    /\ \A t \in Negotiation : Command(t) \in Upward /\ Command(t).type = t
    /\ \A i \in Interfaces : [type |-> "PACKET", intf |-> i] \in Upward
  BY DEF Command, Upward

\* What a reading step of the router leaves alone.
LEMMA DispatchFrame ==
    ASSUME Dispatch
    PROVE  /\ Complete(buf) /\ pc \in Running
           /\ UNCHANGED <<setup, conn, pos, sent, alive, open, core, reactor>>
           /\ handled' = handled + 1 /\ buf' = <<>>
           /\ LET cmd == Received(buf) IN
                 \/ Unexpected(cmd) \/ HandleAuthRequest(cmd) \/ HandleAuthStatus(cmd)
                 \/ HandleHwInfo(cmd) \/ HandlePacket(cmd)
  BY DEF Dispatch

\* A command that is dispatched moves the router on and sends at most one
\* message of the negotiation.
LEMMA DispatchTypes ==
    ASSUME TypeOK, Dispatch
    PROVE  /\ pc' \in Running \cup Ended
           /\ up' \in Seq([conn : Nat, msg : Upward])
<1> DEFINE cmd == Received(buf)
<1>1. \/ Unexpected(cmd) \/ HandleAuthRequest(cmd) \/ HandleAuthStatus(cmd)
      \/ HandleHwInfo(cmd) \/ HandlePacket(cmd)
  BY DispatchFrame
<1>. HIDE DEF cmd
<1>2. "exited" \in Ended /\ "aborted" \in Ended /\ up \in Seq([conn : Nat, msg : Upward])
  BY DEF Ended, TypeOK
<1>3. CASE Unexpected(cmd)
  BY <1>2, <1>3 DEF Unexpected, Exit
<1>4. CASE HandleAuthRequest(cmd)
  <2>1. CASE setup.auth_key
    <3>1. Send(Command("AUTH_REPLY")) /\ pc' = "auth_status"
      BY <1>4, <2>1 DEF HandleAuthRequest
    <3>2. Command("AUTH_REPLY") \in Upward
      BY UpwardIs DEF Negotiation
    <3>3. up' \in Seq([conn : Nat, msg : Upward])
      BY <3>1, <3>2, SendIs
    <3>. QED BY <3>1, <3>3 DEF Running, Negotiating
  <2>2. CASE ~setup.auth_key
    BY <1>2, <1>4, <2>2 DEF HandleAuthRequest, Exit
  <2>. QED BY <2>1, <2>2
<1>5. CASE HandleAuthStatus(cmd)
  <2>1. Send(Command(IF setup.template THEN "OPEN_TEMPLATE" ELSE "OPEN"))
        /\ pc' \in {"rtable", "main"}
    BY <1>5 DEF HandleAuthStatus
  <2>2. Command(IF setup.template THEN "OPEN_TEMPLATE" ELSE "OPEN") \in Upward
    BY UpwardIs DEF Negotiation
  <2>3. up' \in Seq([conn : Nat, msg : Upward])
    BY <2>1, <2>2, SendIs
  <2>. QED BY <2>1, <2>3 DEF Running, Negotiating
<1>6. CASE HandleHwInfo(cmd)
  BY <1>2, <1>6 DEF HandleHwInfo, Running, Negotiating
<1>7. CASE HandlePacket(cmd)
  BY <1>2, <1>7 DEF HandlePacket, Running, Negotiating
<1>. QED BY <1>1, <1>3, <1>4, <1>5, <1>6, <1>7

\* Every step keeps the types.
LEMMA TypeStep ==
    ASSUME TypeOK, CoreOK, [Next]_vars
    PROVE  TypeOK'
<1>1. CASE Recv
  BY <1>1 DEF Recv, TypeOK, core, reactor
<1>2. CASE RecvFails \/ LengthRefused
  BY <1>2 DEF RecvFails, LengthRefused, TypeOK, core, reactor, Ended
<1>3. CASE Dispatch
  <2>1. pc' \in Running \cup Ended /\ up' \in Seq([conn : Nat, msg : Upward])
    BY <1>3, DispatchTypes
  <2>2. UNCHANGED <<setup, conn, sent, alive, open, greeting, accepting>>
    BY <1>3 DEF Dispatch, reactor
  <2>. QED BY <2>1, <2>2 DEF TypeOK
<1>4. CASE Start
  <2>1. /\ conn' = conn + 1 /\ conn' \in Nat /\ greeting' = greeting /\ sent' = <<>>
        /\ UNCHANGED <<setup, up, alive>>
        /\ pc' \in {"auth_request", "exited"} /\ open' \in BOOLEAN
        /\ accepting' \in {accepting, accepting \cup {conn'}}
    BY <1>4 DEF Start, TypeOK
  <2>2. greeting' \in 0..conn' /\ accepting' \in SUBSET (1..conn')
    BY <2>1 DEF TypeOK
  <2>3. pc' \in Running \cup Ended
    BY <2>1 DEF Running, Negotiating, Ended
  <2>4. sent' \in Seq(Downward)
    BY <2>1
  <2>. QED BY <2>1, <2>2, <2>3, <2>4 DEF TypeOK
<1>5. ASSUME NEW name \in Interfaces, sr_send_packet(name)
      PROVE  TypeOK'
  <2>1. [type |-> "PACKET", intf |-> name] \in Upward
    BY UpwardIs
  <2>2. up' \in Seq([conn : Nat, msg : Upward])
    BY <1>5, <2>1, SendIs DEF sr_send_packet
  <2>3. pc' \in Running \cup Ended
    BY <1>5 DEF sr_send_packet, Running, Ended
  <2>. QED BY <1>5, <2>2, <2>3 DEF sr_send_packet, TypeOK, reactor
<1>6. CASE ConnectionUp
  BY <1>6 DEF ConnectionUp, TypeOK, router, reactor
<1>7. CASE RouterInfoStored
  BY <1>7 DEF RouterInfoStored, TypeOK, router, reactor
<1>8. ASSUME NEW i \in Interfaces, RouterInfoEntry(i)
      PROVE  TypeOK'
  BY <1>8 DEF RouterInfoEntry, TypeOK, router, reactor
<1>9. ASSUME NEW port \in DOMAIN port_to_intfname, NEW frame \in Frames, PacketIn(port, frame)
      PROVE  TypeOK'
  <2>1. port_to_intfname[port] \in Interfaces \cup {Unset}
    BY DEF CoreOK
  <2>2. sent' \in Seq(Downward)
    <3>1. CASE port_to_intfname[port] # Unset /\ conn \in srclients
      <4>1. VNSPacket(port_to_intfname[port], frame) \in Downward
        BY <2>1, <3>1, DownwardIs
      <4>. QED BY <1>9, <3>1, <4>1, SendToIs DEF PacketIn
    <3>2. CASE ~(port_to_intfname[port] # Unset /\ conn \in srclients)
      BY <1>9, <3>2 DEF PacketIn, TypeOK
    <3>. QED BY <3>1, <3>2
  <2>. QED BY <1>9, <2>2 DEF PacketIn, TypeOK, router, reactor
<1>10. ASSUME NEW c \in accepting, NewClient(c)
       PROVE  TypeOK'
  <2>1. greeting' \in 0..conn' /\ accepting' \in SUBSET (1..conn')
    BY <1>10 DEF NewClient, TypeOK
  <2>. QED BY <1>10, <2>1 DEF NewClient, TypeOK, router, core
<1>11. CASE GreetClient
  <2>1. sent' \in Seq(Downward)
    BY <1>11, DownwardIs, SendToIs DEF GreetClient
  <2>2. greeting' \in 0..conn'
    BY <1>11 DEF GreetClient, TypeOK
  <2>. QED BY <1>11, <2>1, <2>2 DEF GreetClient, TypeOK, router, core
<1>12. CASE RecvMsg
  <2> DEFINE c == Head(up).conn
             msg == Head(up).msg
  <2>1. Answer(c, msg)
    BY <1>12 DEF RecvMsg
  <2>2. sent' \in Seq(Downward)
    <3>1. CASE SendTo(c, Command("AUTH_STATUS"))
      BY <3>1, DownwardIs, SendToIs
    <3>2. CASE interfaces # Unset /\ SendTo(c, VNSHardwareInfo(interfaces))
      <4>1. VNSHardwareInfo(interfaces) \in Downward
        BY <3>2, DownwardIs DEF CoreOK
      <4>. QED BY <3>2, <4>1, SendToIs
    <3>3. CASE sent' = sent
      BY <3>3 DEF TypeOK
    <3>. QED BY <2>1, <3>1, <3>2, <3>3 DEF Answer
  <2>3. up' \in Seq([conn : Nat, msg : Upward])
    BY <1>12, HeadTailProperties DEF RecvMsg, TypeOK
  <2>4. open' \in BOOLEAN
    BY <1>12 DEF RecvMsg, TypeOK
  <2>. QED BY <1>12, <2>2, <2>3, <2>4 DEF RecvMsg, TypeOK, router, core
<1>13. CASE ControllerStops
  BY <1>13 DEF ControllerStops, TypeOK, router, core, reactor
<1>14. CASE UNCHANGED vars
  BY <1>14 DEF vars, TypeOK, router, core, reactor
<1>. QED BY <1>1, <1>2, <1>3, <1>4, <1>5, <1>6, <1>7, <1>8, <1>9, <1>10, <1>11, <1>12,
            <1>13, <1>14 DEF Next

\* Only POX's core thread enters interfaces, each once.
LEMMA CoreStep ==
    ASSUME TypeOK, CoreOK, [Next]_vars
    PROVE  CoreOK'
<1>1. ASSUME UNCHANGED <<informing, port_to_intfname, interfaces, collected>>
      PROVE  CoreOK'
  BY <1>1 DEF CoreOK
<1>2. CASE ConnectionUp
  BY <1>2 DEF ConnectionUp, CoreOK
<1>3. CASE RouterInfoStored
  <2>1. /\ collected # <<>> /\ informing = {} /\ interfaces' = collected /\ collected' = <<>>
        /\ informing' = informing /\ port_to_intfname' = port_to_intfname
    BY <1>3 DEF RouterInfoStored
  <2>2. collected \in Enumeration
    BY <2>1 DEF CoreOK, Enumeration
  <2>3. collected' \in Seq(Interfaces) /\ DOMAIN collected' = {}
    BY <2>1
  <2>. QED BY <2>1, <2>2, <2>3 DEF CoreOK
<1>4. ASSUME NEW i \in Interfaces, RouterInfoEntry(i)
      PROVE  CoreOK'
  <2>1. /\ i \in informing /\ informing' = informing \ {i}
        /\ collected' = Append(collected, i)
        /\ port_to_intfname' = [port_to_intfname EXCEPT ![Port[i]] = i]
        /\ interfaces' = interfaces
    BY <1>4 DEF RouterInfoEntry
  <2>2. /\ collected' \in Seq(Interfaces) /\ Len(collected) \in Nat
        /\ DOMAIN collected = 1..Len(collected) /\ DOMAIN collected' = 1..(Len(collected) + 1)
        /\ \A n \in 1..Len(collected) : collected'[n] = collected[n]
        /\ collected'[Len(collected) + 1] = i /\ collected' # <<>>
    BY <2>1, AppendProperties DEF CoreOK
  <2>3. \A n \in 1..(Len(collected) + 1) : n = Len(collected) + 1 \/ n \in 1..Len(collected)
    BY <2>2
  <2>4. \A n \in DOMAIN collected' : collected'[n] \notin informing'
    BY <2>1, <2>2, <2>3 DEF CoreOK
  <2>5. \A m, n \in DOMAIN collected' : collected'[m] = collected'[n] => m = n
    BY <2>1, <2>2, <2>3 DEF CoreOK
  <2>6. ASSUME NEW j \in Interfaces \ informing'
        PROVE  \E n \in DOMAIN collected' : collected'[n] = j
    <3>1. Len(collected) + 1 \in DOMAIN collected'
      BY <2>2
    <3>2. CASE j = i
      BY <2>2, <3>1, <3>2
    <3>3. CASE j # i
      <4>1. j \in Interfaces \ informing
        BY <2>1, <3>3
      <4>2. collected # <<>>
        BY <2>1, <4>1 DEF CoreOK
      <4>3. PICK n \in DOMAIN collected : collected[n] = j
        BY <4>1, <4>2 DEF CoreOK
      <4>4. n \in DOMAIN collected' /\ collected'[n] = j
        BY <2>2, <4>3
      <4>. QED BY <4>4
    <3>. QED BY <3>2, <3>3
  <2>7. port_to_intfname' \in [{Port[k] : k \in Interfaces} \cup {OtherPort} ->
                                 Interfaces \cup {Unset}]
    BY <2>1 DEF CoreOK
  <2>8. informing' \in SUBSET Interfaces /\ interfaces' \in Enumeration \cup {Unset}
    BY <2>1 DEF CoreOK
  <2>. QED BY <2>2, <2>4, <2>5, <2>6, <2>7, <2>8 DEF CoreOK
<1>5. \/ UNCHANGED <<informing, port_to_intfname, interfaces, collected>>
      \/ ConnectionUp \/ RouterInfoStored \/ \E i \in Interfaces : RouterInfoEntry(i)
  BY DEF Next, vars, core, Recv, RecvFails, LengthRefused, Dispatch, Start,
         sr_send_packet, PacketIn, NewClient, GreetClient, RecvMsg, ControllerStops
<1>. QED BY <1>1, <1>2, <1>3, <1>4, <1>5

-----------------------------------------------------------------------------
\* The steps of the framing

\* A command that the controller adds changes nothing before it.
LEMMA AppendFraming ==
    ASSUME TypeOK, BufOK, PosOK, NEW cmd \in Downward, sent' = Append(sent, cmd),
           UNCHANGED <<buf, pos, handled>>
    PROVE  (BufOK /\ PosOK)'
<1> DEFINE m == Len(sent)
<1>1. /\ sent \in Seq(Downward) /\ m \in Nat /\ sent' \in Seq(Downward) /\ Len(sent') = m + 1
      /\ \A n \in 1..m : sent'[n] = sent[n]
      /\ sent'[m + 1] = cmd
  BY AppendProperties DEF TypeOK
<1>. HIDE DEF m
<1>2. BufOK'
  <2>1. handled \in 0..m /\ handled \in 0..(m + 1)
    BY <1>1 DEF BufOK, m
  <2>2. buf # <<>> => handled + 1 \in 1..m
    BY <1>1, <2>1 DEF BufOK, m
  <2>. QED BY <1>1, <2>1, <2>2 DEF BufOK, Size, m
<1>3. PICK off : Offsets(off) /\ pos = off[handled] + Len(buf)
  BY DEF PosOK
<1> DEFINE next == [n \in 0..(m + 1) |-> IF n = m + 1 THEN off[m] + Size(cmd) ELSE off[n]]
<1>4. \A n \in 0..m : off[n] \in Nat
  BY <1>3 DEF Offsets, m
<1>5. Size(cmd) \in Nat
  BY SizeIs
<1>6. PICK g : /\ g \in [0..(m + 1) -> Nat] /\ g[m + 1] = off[m] + Size(cmd)
               /\ \A n \in 0..m : g[n] = off[n]
  <2>1. /\ next \in [0..(m + 1) -> Nat] /\ next[m + 1] = off[m] + Size(cmd)
        /\ \A n \in 0..m : next[n] = off[n]
    BY <1>1, <1>4, <1>5
  <2>. HIDE DEF next
  <2>. QED BY <2>1
<1>7. ASSUME NEW n \in 1..(m + 1) PROVE g[n] = g[n - 1] + Size(sent'[n])
  <2>1. CASE n = m + 1
    <3>1. n - 1 = m /\ m \in 0..m
      BY <1>1, <2>1
    <3>. QED BY <1>1, <1>6, <2>1, <3>1
  <2>2. CASE n # m + 1
    <3>1. n \in 1..m /\ n \in 0..m /\ n - 1 \in 0..m
      BY <1>1, <2>2
    <3>2. off[n] = off[n - 1] + Size(sent[n])
      BY <1>3, <3>1 DEF Offsets, m
    <3>. QED BY <1>1, <1>6, <3>1, <3>2
  <2>. QED BY <2>1, <2>2
<1>8. g[0] = 0 /\ g[handled] = off[handled]
  BY <1>1, <1>3, <1>6 DEF Offsets, BufOK, m
<1>9. Offsets(g)'
  BY <1>1, <1>6, <1>7, <1>8 DEF Offsets, Size
<1>. QED BY <1>2, <1>3, <1>8, <1>9 DEF PosOK

\* recv takes the next units of the stream, all of the command being read.
LEMMA RecvFraming ==
    ASSUME TypeOK, BufOK, PosOK, Recv
    PROVE  (BufOK /\ PosOK)'
<1>1. PICK n \in 1..Wanted(buf) :
        /\ pos + n <= Len(Stream) /\ pos' = pos + n
        /\ buf' = buf \o SubSeq(Stream, pos + 1, pos + n)
  BY DEF Recv
<1>2. /\ ~Complete(buf) /\ handled' = handled /\ sent' = sent
  BY DEF Recv
<1>3. PICK off : Offsets(off) /\ pos = off[handled] + Len(buf)
  BY DEF PosOK
<1> DEFINE b == Len(buf)
           more == SubSeq(Stream, pos + 1, pos + n)
<1>4. /\ sent \in Seq(Downward) /\ Len(sent) \in Nat /\ handled \in 0..Len(sent)
      /\ b \in Nat /\ buf \in Seq(Units) /\ HeaderUnits \in Nat \ {0}
      /\ \A u \in 1..b : buf[u] = <<handled + 1, u>>
  BY SessionConstants DEF TypeOK, BufOK
<1>5. /\ Stream \in Seq(Units) /\ Len(Stream) = off[Len(sent)]
      /\ \A k \in 1..Len(sent) : \A u \in 1..Size(sent[k]) :
           off[k - 1] + u \in 1..Len(Stream) /\ Stream[off[k - 1] + u] = <<k, u>>
  BY <1>3, <1>4, StreamIs
<1>6. off[handled] \in Nat /\ Len(Stream) \in Nat
  <2>1. Len(Stream) \in Nat
    BY <1>5, LenProperties
  <2>. QED BY <1>3, <1>4, <2>1 DEF Offsets
<1>7. n \in Int /\ 1 <= n /\ n <= Wanted(buf)
  OBVIOUS
<1>. HIDE DEF b
<1>8. handled < Len(sent)
  <2>1. SUFFICES ASSUME handled = Len(sent) PROVE FALSE
    BY <1>4
  <2>2. pos >= Len(Stream)
    BY <1>3, <1>4, <1>5, <1>6, <2>1 DEF b
  <2>. QED BY <1>1, <1>3, <1>4, <1>6, <1>7, <2>2 DEF b
<1> DEFINE k == handled + 1
<1>9. k \in 1..Len(sent) /\ k - 1 = handled
  BY <1>4, <1>8
<1>10. Size(sent[k]) \in Nat /\ HeaderUnits < Size(sent[k])
  BY <1>4, <1>9, SizeIs
<1>11. n \in Nat /\ b + n <= Size(sent[k])
  <2>1. CASE b < HeaderUnits
    <3>1. Wanted(buf) = HeaderUnits - b
      BY <1>4, <2>1, WantedIs DEF b
    <3>. QED BY <1>4, <1>7, <1>10, <3>1
  <2>2. CASE HeaderUnits <= b
    <3>1. buf # <<>>
      BY <1>4, <2>2 DEF b
    <3>2. Wanted(buf) = Size(sent[k]) - b
      BY <1>4, <2>2, <3>1, WantedIs DEF b
    <3>. QED BY <1>4, <1>7, <1>10, <3>2
  <2>. QED BY <1>4, <2>1, <2>2
<1>. HIDE DEF k
<1>12. ASSUME NEW u \in 1..n
       PROVE  pos + u \in 1..Len(Stream) /\ Stream[pos + u] = <<k, b + u>>
  <2>1. b + u \in 1..Size(sent[k]) /\ pos + u = off[handled] + (b + u)
    BY SMTT(20), <1>3, <1>4, <1>6, <1>10, <1>11 DEF b
  <2>. QED BY <1>5, <1>9, <2>1
<1>13. /\ more \in Seq(Units) /\ Len(more) = n
       /\ \A u \in 1..n : more[u] = <<k, b + u>>
  <2>1. pos \in Nat
    BY <1>3, <1>4, <1>6 DEF b
  <2>2. \A u \in (pos + 1)..(pos + n) : Stream[u] \in Units
    BY <1>1, <1>5, <1>6, <1>11, <2>1
  <2>3. /\ more \in Seq(Units)
        /\ Len(more) = (IF pos + 1 <= pos + n THEN (pos + n) - (pos + 1) + 1 ELSE 0)
        /\ \A u \in 1..((pos + n) - (pos + 1) + 1) : more[u] = Stream[(pos + 1) + u - 1]
    BY <1>11, <2>1, <2>2, SubSeqProperties
  <2>4. (pos + n) - (pos + 1) + 1 = n /\ pos + 1 <= pos + n
        /\ \A u \in 1..n : (pos + 1) + u - 1 = pos + u
    BY <1>7, <1>11, <2>1
  <2>. QED BY <1>12, <2>3, <2>4
<1>. HIDE DEF more
<1>14. /\ buf' \in Seq(Units) /\ Len(buf') = b + n
       /\ \A u \in 1..(b + n) : buf'[u] = IF u <= b THEN buf[u] ELSE more[u - b]
  <2>1. buf' = buf \o more
    BY <1>1 DEF more
  <2>2. /\ buf \o more \in Seq(Units) /\ Len(buf \o more) = Len(buf) + Len(more)
        /\ \A u \in 1..(Len(buf) + Len(more)) :
             (buf \o more)[u] = IF u <= Len(buf) THEN buf[u] ELSE more[u - Len(buf)]
    BY <1>4, <1>13, ConcatProperties
  <2>3. Len(buf) = b /\ Len(more) = n
    BY <1>13 DEF b
  <2>. QED BY <2>1, <2>2, <2>3
<1>15. ASSUME NEW u \in 1..(b + n) PROVE buf'[u] = <<k, u>>
  <2>1. CASE u <= b
    <3>1. u \in 1..b
      BY <1>4, <2>1
    <3>. QED BY <1>4, <1>14, <2>1, <3>1 DEF k
  <2>2. CASE ~(u <= b)
    <3>1. u - b \in 1..n /\ b + (u - b) = u
      BY <1>4, <1>11, <2>2
    <3>. QED BY <1>13, <1>14, <2>2, <3>1
  <2>. QED BY <2>1, <2>2
<1>16. BufOK'
  BY <1>2, <1>4, <1>8, <1>11, <1>14, <1>15 DEF BufOK, Size, k
<1>17. pos' = off[handled'] + Len(buf')
  <2>1. /\ off[handled] \in Nat /\ b \in Nat /\ n \in Nat
        /\ pos = off[handled] + b
    BY <1>3, <1>4, <1>6, <1>11 DEF b
  <2>2. pos' = pos + n /\ Len(buf') = b + n /\ off[handled'] = off[handled]
    BY <1>1, <1>2, <1>14
  <2>. HIDE DEF b
  <2>. QED BY <2>1, <2>2
<1>18. Offsets(off)'
  BY <1>2, <1>3 DEF Offsets, Size
<1>. QED BY <1>16, <1>17, <1>18 DEF PosOK

\* A command that is dispatched has been read whole, and no unit of the next.
LEMMA DispatchFraming ==
    ASSUME TypeOK, BufOK, PosOK, Dispatch
    PROVE  /\ (BufOK /\ PosOK)'
           /\ handled + 1 \in 1..Len(sent) /\ Received(buf) = sent[handled + 1]
<1>1. Complete(buf) /\ handled' = handled + 1 /\ buf' = <<>> /\ pos' = pos /\ sent' = sent
  BY DEF Dispatch
<1>2. /\ sent \in Seq(Downward) /\ Len(sent) \in Nat /\ handled \in 0..Len(sent)
  BY DEF TypeOK, BufOK
<1>3. /\ handled < Len(sent) /\ Len(buf) = Size(sent[handled + 1])
      /\ Received(buf) = sent[handled + 1]
  BY <1>1, <1>2, WantedIs
<1>4. handled + 1 \in 1..Len(sent) /\ (handled + 1) - 1 = handled
  BY <1>2, <1>3
<1>5. buf' \in Seq(Units) /\ Len(buf') = 0
  BY <1>1
<1>6. BufOK'
  BY <1>1, <1>4, <1>5 DEF BufOK
<1>7. PICK off : Offsets(off) /\ pos = off[handled] + Len(buf)
  BY DEF PosOK
<1>8. off[handled + 1] = off[handled] + Size(sent[handled + 1]) /\ off[handled + 1] \in Nat
  BY <1>4, <1>7 DEF Offsets
<1>9. pos' = off[handled'] + Len(buf') /\ Offsets(off)'
  BY <1>1, <1>3, <1>5, <1>7, <1>8 DEF Offsets, Size
<1>. QED BY <1>3, <1>4, <1>6, <1>9 DEF PosOK

\* A new connection has an empty stream.
LEMMA StartFraming ==
    ASSUME Start
    PROVE  (BufOK /\ PosOK)'
<1>1. sent' = <<>> /\ buf' = <<>> /\ pos' = 0 /\ handled' = 0
  BY DEF Start
<1>2. Len(sent') = 0 /\ Len(buf') = 0 /\ buf' \in Seq(Units)
  BY <1>1
<1>3. BufOK'
  BY <1>1, <1>2 DEF BufOK
<1>4. PICK off : off = [n \in 0..0 |-> 0]
  OBVIOUS
<1>5. Offsets(off)' /\ pos' = off[handled'] + Len(buf')
  BY <1>1, <1>2, <1>4 DEF Offsets
<1>. QED BY <1>3, <1>5 DEF PosOK

\* So has a router that was not started.
LEMMA InitFraming ==
    ASSUME Init
    PROVE  BufOK /\ PosOK
<1>1. sent = <<>> /\ buf = <<>> /\ pos = 0 /\ handled = 0
  BY DEF Init
<1>2. Len(sent) = 0 /\ Len(buf) = 0 /\ buf \in Seq(Units)
  BY <1>1
<1>3. BufOK
  BY <1>1, <1>2 DEF BufOK
<1>4. PICK off : off = [n \in 0..0 |-> 0]
  OBVIOUS
<1>5. Offsets(off) /\ pos = off[handled] + Len(buf)
  BY <1>1, <1>2, <1>4 DEF Offsets
<1>. QED BY <1>3, <1>5 DEF PosOK

\* The controller sends a command of this type on the connection.
Tells(type) ==
    pc \in Running /\ \E cmd \in Downward : cmd.type = type /\ sent' = Append(sent, cmd)

\* Who sends what: the core thread frames, the reactor thread what the router
\* waits for or has asked for.
LEMMA TellsIs ==
    ASSUME TypeOK, CoreOK, [Next]_vars
    PROVE  \/ Start \/ sent' = sent
           \/ Tells("PACKET")
              /\ \E port \in DOMAIN port_to_intfname, frame \in Frames : PacketIn(port, frame)
           \/ Tells("AUTH_REQUEST") /\ GreetClient /\ greeting = conn
           \/ /\ RecvMsg /\ Head(up).conn = conn
              /\ \/ Tells("AUTH_STATUS") /\ Head(up).msg.type = "AUTH_REPLY"
                 \/ Tells("HWINFO") /\ Head(up).msg.type = "OPEN"
<1>1. ASSUME NEW port \in DOMAIN port_to_intfname, NEW frame \in Frames, PacketIn(port, frame)
      PROVE  sent' = sent \/ Tells("PACKET")
  <2>1. CASE port_to_intfname[port] # Unset /\ conn \in srclients
    <3>1. SendTo(conn, VNSPacket(port_to_intfname[port], frame))
      BY <1>1, <2>1 DEF PacketIn
    <3>2. port_to_intfname[port] \in Interfaces
      BY <2>1 DEF CoreOK
    <3>3. /\ VNSPacket(port_to_intfname[port], frame) \in Downward
          /\ VNSPacket(port_to_intfname[port], frame).type = "PACKET"
      BY <3>2, DownwardIs
    <3>. QED BY <3>1, <3>3, SendToIs DEF Tells
  <2>2. CASE ~(port_to_intfname[port] # Unset /\ conn \in srclients)
    BY <1>1, <2>2 DEF PacketIn
  <2>. QED BY <2>1, <2>2
<1>2. CASE GreetClient
  <2>1. SendTo(greeting, Command("AUTH_REQUEST"))
    BY <1>2 DEF GreetClient
  <2>. QED BY <1>2, <2>1, DownwardIs, SendToIs DEF Tells
<1>3. CASE RecvMsg
  <2> DEFINE c == Head(up).conn
             msg == Head(up).msg
  <2>1. Answer(c, msg)
    BY <1>3 DEF RecvMsg
  <2>2. \/ msg.type = "AUTH_REPLY" /\ SendTo(c, Command("AUTH_STATUS"))
        \/ /\ msg.type = "OPEN" /\ interfaces # Unset
           /\ SendTo(c, VNSHardwareInfo(interfaces))
        \/ sent' = sent
    BY <2>1 DEF Answer
  <2>3. CASE msg.type = "AUTH_REPLY" /\ SendTo(c, Command("AUTH_STATUS"))
    BY <1>3, <2>3, DownwardIs, SendToIs DEF Tells
  <2>4. CASE /\ msg.type = "OPEN" /\ interfaces # Unset
             /\ SendTo(c, VNSHardwareInfo(interfaces))
    <3>1. interfaces \in Enumeration
      BY <2>4 DEF CoreOK
    <3> DEFINE cmd == VNSHardwareInfo(interfaces)
    <3>2. cmd \in Downward /\ cmd.type = "HWINFO"
      BY <3>1, DownwardIs
    <3>3. SendTo(c, cmd)
      BY <2>4
    <3>. HIDE DEF cmd
    <3>4. sent' = sent \/ (c = conn /\ pc \in Running /\ sent' = Append(sent, cmd))
      BY <3>2, <3>3, SendToIs
    <3>5. sent' = sent \/ (c = conn /\ Tells("HWINFO"))
      BY <3>2, <3>4 DEF Tells
    <3>. QED BY <1>3, <2>4, <3>5
  <2>. QED BY <2>2, <2>3, <2>4
<1>4. \/ Start \/ sent' = sent \/ GreetClient \/ RecvMsg
      \/ \E port \in DOMAIN port_to_intfname, frame \in Frames : PacketIn(port, frame)
  BY DEF Next, vars, core, Recv, RecvFails, LengthRefused, Dispatch, sr_send_packet,
         NewClient, ControllerStops, ConnectionUp, RouterInfoStored, RouterInfoEntry
<1>. QED BY <1>1, <1>2, <1>3, <1>4

\* Every step keeps what is in the buffer the beginning of the next command.
LEMMA FramingStep ==
    ASSUME TypeOK, CoreOK, BufOK, PosOK, [Next]_vars
    PROVE  (BufOK /\ PosOK)'
<1>1. CASE Recv
  BY <1>1, RecvFraming
<1>2. CASE Dispatch
  BY <1>2, DispatchFraming
<1>3. CASE Start
  BY <1>3, StartFraming
<1>4. ASSUME ~Start, UNCHANGED <<buf, pos, handled>>
      PROVE  (BufOK /\ PosOK)'
  <2>1. CASE sent' = sent
    <3>1. BufOK'
      BY <1>4, <2>1 DEF BufOK, Size
    <3>2. PICK off : Offsets(off) /\ pos = off[handled] + Len(buf)
      BY DEF PosOK
    <3>3. Offsets(off)' /\ pos' = off[handled'] + Len(buf')
      BY <1>4, <2>1, <3>2 DEF Offsets, Size
    <3>. QED BY <3>1, <3>3 DEF PosOK
  <2>2. CASE sent' # sent
    <3>1. PICK cmd \in Downward : sent' = Append(sent, cmd)
      BY <1>4, <2>2, TellsIs DEF Tells
    <3>. QED BY <1>4, <3>1, AppendFraming
  <2>. QED BY <2>1, <2>2
<1>5. Recv \/ Dispatch \/ Start \/ UNCHANGED <<buf, pos, handled>>
  BY DEF Next, vars, router, RecvFails, LengthRefused, sr_send_packet,
         NewClient, ControllerStops,
         ConnectionUp, RouterInfoStored, RouterInfoEntry, PacketIn, GreetClient, RecvMsg
<1>. QED BY <1>1, <1>2, <1>3, <1>4, <1>5

-----------------------------------------------------------------------------
\* The negotiation: what the router has sent

\* What has been told once a command of type cmd.type is added.
LEMMA ToldAppend ==
    ASSUME TypeOK, NEW cmd \in Downward, sent' = Append(sent, cmd), NEW type
    PROVE  Told(type)' <=> Told(type) \/ cmd.type = type
<1>1. /\ Len(sent) \in Nat /\ DOMAIN sent = 1..Len(sent) /\ DOMAIN sent' = 1..(Len(sent) + 1)
      /\ \A n \in 1..Len(sent) : sent'[n] = sent[n]
      /\ sent'[Len(sent) + 1] = cmd
  BY AppendProperties DEF TypeOK
<1>2. \A n \in 1..(Len(sent) + 1) : n = Len(sent) + 1 \/ n \in 1..Len(sent)
  BY <1>1
<1>3. \A n \in 1..Len(sent) : n \in 1..(Len(sent) + 1)
  BY <1>1
<1>. QED BY <1>1, <1>2, <1>3 DEF Told

\* A message that is sent is behind the others, and alone if it belongs to the
\* negotiation.
LEMMA UpAdd ==
    ASSUME TypeOK, UpOK, NEW msg \in Upward, Send(msg), conn' = conn,
           msg.type # "PACKET" => \A n \in DOMAIN up : ~Live(n)
    PROVE  /\ \A n \in DOMAIN up' : up'[n].conn <= conn'
           /\ \A m, n \in DOMAIN up' :
                (Live(m) /\ Live(n) /\ up[m].msg.type # "PACKET" /\ up[n].msg.type # "PACKET")'
                  => m = n
           /\ \A n \in DOMAIN up' : Live(n)' =>
                (n \in DOMAIN up /\ Live(n) /\ up'[n] = up[n]) \/ up'[n].msg = msg
<1>1. up' = up \/ up' = Append(up, [conn |-> conn, msg |-> msg])
  BY SendIs
<1>2. CASE up' = up
  BY <1>2 DEF UpOK, Live
<1>3. CASE up' = Append(up, [conn |-> conn, msg |-> msg])
  <2> DEFINE letter == [conn |-> conn, msg |-> msg]
             k == Len(up) + 1
  <2>1. letter \in [conn : Nat, msg : Upward] /\ letter.conn = conn /\ letter.msg = msg
    BY DEF TypeOK
  <2>. HIDE DEF letter
  <2>2. /\ Len(up) \in Nat /\ DOMAIN up = 1..Len(up) /\ DOMAIN up' = 1..k
        /\ \A n \in 1..Len(up) : up'[n] = up[n]
        /\ up'[k] = letter
    BY <1>3, <2>1, AppendProperties DEF TypeOK, letter
  <2>3. \A n \in 1..k : n = k \/ n \in 1..Len(up)
    BY <2>2
  <2>4. conn \in Nat /\ conn <= conn
    BY DEF TypeOK
  <2>. HIDE DEF k
  <2>5. \A n \in DOMAIN up' : up'[n].conn <= conn'
    BY <2>1, <2>2, <2>3, <2>4 DEF UpOK
  <2>6. \A n \in DOMAIN up' : n # k => (Live(n)' <=> Live(n)) /\ n \in DOMAIN up /\ up'[n] = up[n]
    BY <2>2, <2>3 DEF Live
  <2>7. ASSUME NEW m \in DOMAIN up', NEW n \in DOMAIN up', Live(m)', Live(n)',
               up'[m].msg.type # "PACKET", up'[n].msg.type # "PACKET"
        PROVE  m = n
    <3>1. CASE m # k /\ n # k
      <4>1. /\ m \in DOMAIN up /\ n \in DOMAIN up /\ Live(m) /\ Live(n)
            /\ up[m].msg.type # "PACKET" /\ up[n].msg.type # "PACKET"
        BY <2>6, <2>7, <3>1
      <4>. QED BY <4>1 DEF UpOK
    <3>2. CASE m = k /\ n # k
      BY <2>1, <2>2, <2>6, <2>7, <3>2
    <3>3. CASE m # k /\ n = k
      BY <2>1, <2>2, <2>6, <2>7, <3>3
    <3>. QED BY <3>1, <3>2, <3>3
  <2>8. \A n \in DOMAIN up' : Live(n)' =>
          (n \in DOMAIN up /\ Live(n) /\ up'[n] = up[n]) \/ up'[n].msg = msg
    BY <2>1, <2>2, <2>6
  <2>. QED BY <2>5, <2>7, <2>8
<1>. QED BY <1>1, <1>2, <1>3

\* A step that sends nothing to the controller and at most ends the router.
LEMMA UpSame ==
    ASSUME UpOK, up' = up, conn' = conn, pc' = pc \/ pc' \notin Running,
           Told("AUTH_STATUS")' => Told("AUTH_STATUS"), Told("HWINFO")' => Told("HWINFO")
    PROVE  UpOK'
<1>1. \A n : Live(n)' <=> Live(n)
  BY DEF Live
<1>2. CASE pc' = pc
  BY <1>1, <1>2 DEF UpOK
<1>3. CASE pc' \notin Running
  BY <1>1, <1>3 DEF UpOK
<1>. QED BY <1>2, <1>3

\* The first message is taken off; nothing asked for before is still asked for
\* when it was answered.
LEMMA UpRecv ==
    ASSUME TypeOK, UpOK, up # <<>>, up' = Tail(up), conn' = conn, pc' = pc,
           Told("AUTH_STATUS")' =>
             \/ Told("AUTH_STATUS")
             \/ Head(up).conn = conn /\ Head(up).msg.type = "AUTH_REPLY",
           Told("HWINFO")' =>
             \/ Told("HWINFO")
             \/ Head(up).conn = conn /\ Head(up).msg.type = "OPEN"
    PROVE  UpOK' /\ \A n \in DOMAIN up' : Live(n)' => n + 1 \in DOMAIN up /\ Live(n + 1)
                                                     /\ up'[n] = up[n + 1]
<1>1. /\ Len(up) \in Nat \ {0} /\ DOMAIN up = 1..Len(up) /\ Head(up) = up[1]
      /\ Len(up') = Len(up) - 1 /\ DOMAIN up' = 1..(Len(up) - 1)
      /\ \A n \in 1..(Len(up) - 1) : up'[n] = up[n + 1]
  BY EmptySeq, HeadTailProperties DEF TypeOK
<1>2. ASSUME NEW n \in DOMAIN up'
      PROVE  /\ n + 1 \in DOMAIN up /\ n + 1 # 1 /\ up'[n] = up[n + 1]
             /\ Live(n)' <=> Live(n + 1)
    <2>1. n + 1 \in 1..Len(up) /\ n + 1 # 1 /\ n \in 1..(Len(up) - 1)
      BY <1>1
    <2>. QED BY <1>1, <2>1 DEF Live
<1>3. \A n \in DOMAIN up' : up'[n].conn <= conn'
  BY <1>2 DEF UpOK
<1>4. ASSUME NEW m \in DOMAIN up', NEW n \in DOMAIN up', Live(m)', Live(n)',
             up'[m].msg.type # "PACKET", up'[n].msg.type # "PACKET"
      PROVE  m = n
  <2>1. m + 1 = n + 1
    BY <1>2, <1>4 DEF UpOK
  <2>2. m \in Int /\ n \in Int
    BY <1>1
  <2>. QED BY <2>1, <2>2
<1>5. 1 \in DOMAIN up
  BY <1>1
<1>6. ASSUME pc' \in Running, NEW n \in DOMAIN up', Live(n)'
      PROVE  \/ up'[n].msg.type = "AUTH_REPLY" /\ pc' = "auth_status" /\ ~Told("AUTH_STATUS")'
             \/ up'[n].msg.type = "OPEN" /\ pc' = "main" /\ ~Told("HWINFO")'
             \/ up'[n].msg.type = "OPEN_TEMPLATE" /\ pc' = "rtable"
             \/ up'[n].msg.type = "PACKET" /\ pc' = "main"
  <2>1. n + 1 \in DOMAIN up /\ n + 1 # 1 /\ Live(n + 1) /\ up'[n] = up[n + 1]
    BY <1>2, <1>6
  <2>2. CASE up[n + 1].msg.type = "AUTH_REPLY"
    <3>1. pc = "auth_status" /\ ~Told("AUTH_STATUS")
      BY <1>6, <2>1, <2>2 DEF UpOK
    <3>2. ~(Head(up).conn = conn /\ Head(up).msg.type = "AUTH_REPLY")
      BY <1>1, <1>5, <2>1, <2>2 DEF UpOK, Live
    <3>. QED BY <2>1, <2>2, <3>1, <3>2
  <2>3. CASE up[n + 1].msg.type = "OPEN"
    <3>1. pc = "main" /\ ~Told("HWINFO")
      BY <1>6, <2>1, <2>3 DEF UpOK
    <3>2. ~(Head(up).conn = conn /\ Head(up).msg.type = "OPEN")
      BY <1>1, <1>5, <2>1, <2>3 DEF UpOK, Live
    <3>. QED BY <2>1, <2>3, <3>1, <3>2
  <2>4. \/ up[n + 1].msg.type = "AUTH_REPLY" \/ up[n + 1].msg.type = "OPEN"
        \/ up[n + 1].msg.type = "OPEN_TEMPLATE" /\ pc = "rtable"
        \/ up[n + 1].msg.type = "PACKET" /\ pc = "main"
    BY <1>6, <2>1 DEF UpOK
  <2>. QED BY <2>1, <2>2, <2>3, <2>4
<1>. QED BY <1>2, <1>3, <1>4, <1>6 DEF UpOK

-----------------------------------------------------------------------------
\* The negotiation: what the router reads

\* The command that is dispatched is the next one that was sent.
LEMMA DispatchIs ==
    ASSUME TypeOK, BufOK, PosOK, Dispatch
    PROVE  LET cmd == sent[handled + 1]
           IN  /\ handled + 1 \in DOMAIN sent /\ cmd \in Downward /\ Told(cmd.type)
               /\ pc \in Running /\ handled' = handled + 1
               /\ UNCHANGED <<setup, conn, sent, alive, open, accepting, greeting>>
               /\ \/ Unexpected(cmd) \/ HandleAuthRequest(cmd) \/ HandleAuthStatus(cmd)
                  \/ HandleHwInfo(cmd) \/ HandlePacket(cmd)
<1>1. handled + 1 \in 1..Len(sent) /\ Received(buf) = sent[handled + 1]
  BY DispatchFraming
<1>2. handled + 1 \in DOMAIN sent /\ sent[handled + 1] \in Downward
  BY <1>1 DEF TypeOK
<1>3. /\ pc \in Running /\ handled' = handled + 1
      /\ UNCHANGED <<setup, conn, sent, alive, open, accepting, greeting>>
  BY DEF Dispatch, reactor
<1>. QED BY <1>1, <1>2, <1>3, DispatchFrame DEF Told

\* The places of the router are different.
LEMMA Places ==
    /\ "auth_request" \in Running /\ "auth_status" \in Running /\ "rtable" \in Running
    /\ "main" \in Running /\ "main" \notin Negotiating /\ "rtable" \in Negotiating
    /\ "exited" \notin Running /\ "aborted" \notin Running /\ "killed" \notin Running
    /\ "off" \notin Running
    /\ \A p \in Running : p \in {"auth_request", "auth_status", "rtable", "main"}
  BY DEF Running, Negotiating

\* Every message asks for what the router's place calls for, and every answer
\* takes its question off.
LEMMA UpStep ==
    ASSUME TypeOK, CoreOK, BufOK, PosOK, UpOK, ToldOK, [Next]_vars
    PROVE  UpOK'
<1>1. CASE Start
  <2>1. conn' = conn + 1 /\ up' = up /\ pc' \in {"auth_request", "exited"} /\ conn \in Nat
    BY <1>1 DEF Start, TypeOK
  <2>2. \A n \in DOMAIN up : up[n].conn \in Nat /\ up[n].conn <= conn
    <3> DEFINE L == [conn : Nat, msg : Upward]
    <3>1. \A x \in L : x.conn \in Nat
      OBVIOUS
    <3>2. up \in Seq(L)
      BY DEF TypeOK
    <3>. HIDE DEF L
    <3>3. \A n \in DOMAIN up : up[n] \in L
      BY <3>2
    <3>. QED BY <3>1, <3>3 DEF UpOK
  <2>3. \A n \in DOMAIN up' : up'[n].conn <= conn' /\ up'[n].conn # conn'
    BY <2>1, <2>2
  <2>. QED BY <2>3 DEF UpOK, Live
<1>2. CASE Dispatch
  <2> DEFINE cmd == sent[handled + 1]
  <2>1. /\ Told(cmd.type) /\ pc \in Running /\ conn' = conn /\ sent' = sent
        /\ \/ Unexpected(cmd) \/ HandleAuthRequest(cmd) \/ HandleAuthStatus(cmd)
           \/ HandleHwInfo(cmd) \/ HandlePacket(cmd)
    BY <1>2, DispatchIs
  <2>. HIDE DEF cmd
  <2>2. \A type : Told(type)' <=> Told(type)
    BY <2>1 DEF Told
  <2>3. CASE up' = up /\ (pc' = pc \/ pc' \notin Running)
    BY <2>1, <2>2, <2>3, UpSame
  <2>4. ASSUME NEW type \in Negotiation, Send(Command(type)), \A n \in DOMAIN up : ~Live(n),
               pc' \in Running,
               \/ type = "AUTH_REPLY" /\ pc' = "auth_status" /\ ~Told("AUTH_STATUS")
               \/ type = "OPEN" /\ pc' = "main" /\ ~Told("HWINFO")
               \/ type = "OPEN_TEMPLATE" /\ pc' = "rtable"
        PROVE  UpOK'
    <3> DEFINE msg == Command(type)
    <3>1. msg \in Upward /\ msg.type = type
      BY UpwardIs
    <3>. HIDE DEF msg
    <3>2. Send(msg)
      BY <2>4 DEF msg
    <3>3. /\ \A n \in DOMAIN up' : up'[n].conn <= conn'
          /\ \A m, n \in DOMAIN up' :
               (Live(m) /\ Live(n) /\ up[m].msg.type # "PACKET" /\ up[n].msg.type # "PACKET")'
                 => m = n
          /\ \A n \in DOMAIN up' : Live(n)' => up'[n].msg = msg
      BY <2>1, <2>4, <3>1, <3>2, UpAdd
    <3>. QED BY <2>2, <2>4, <3>1, <3>3 DEF UpOK
  <2>5. CASE Unexpected(cmd)
    BY <2>3, <2>5, Places DEF Unexpected, Exit
  <2>6. CASE HandleAuthRequest(cmd)
    <3>1. CASE setup.auth_key
      <4>1. pc = "auth_request" /\ pc' = "auth_status" /\ Send(Command("AUTH_REPLY"))
        BY <2>6, <3>1 DEF HandleAuthRequest
      <4>2. \A n \in DOMAIN up : ~Live(n)
        BY <2>1, <4>1 DEF UpOK
      <4>3. ~Told("AUTH_STATUS")
        BY <2>1, <4>1 DEF ToldOK
      <4>. QED BY <2>4, <4>1, <4>2, <4>3, Places DEF Negotiation
    <3>2. CASE ~setup.auth_key
      BY <2>3, <2>6, <3>2, Places DEF HandleAuthRequest, Exit
    <3>. QED BY <3>1, <3>2
  <2>7. CASE HandleAuthStatus(cmd)
    <3>1. /\ pc = "auth_status" /\ cmd.type = "AUTH_STATUS"
          /\ Send(Command(IF setup.template THEN "OPEN_TEMPLATE" ELSE "OPEN"))
          /\ pc' = IF setup.template THEN "rtable" ELSE "main"
      BY <2>7 DEF HandleAuthStatus
    <3>2. \A n \in DOMAIN up : ~Live(n)
      BY <2>1, <3>1 DEF UpOK
    <3>3. ~Told("HWINFO")
      BY <2>1, <3>1 DEF ToldOK
    <3>4. CASE setup.template
      BY <2>4, <3>1, <3>2, <3>4, Places DEF Negotiation
    <3>5. CASE ~setup.template
      BY <2>4, <3>1, <3>2, <3>3, <3>5, Places DEF Negotiation
    <3>. QED BY <3>4, <3>5
  <2>8. CASE HandleHwInfo(cmd)
    BY <2>3, <2>8, Places DEF HandleHwInfo
  <2>9. CASE HandlePacket(cmd)
    BY <2>3, <2>9, Places DEF HandlePacket
  <2>. QED BY <2>1, <2>5, <2>6, <2>7, <2>8, <2>9
<1>3. ASSUME NEW name \in Interfaces, sr_send_packet(name)
      PROVE  UpOK'
  <2> DEFINE msg == [type |-> "PACKET", intf |-> name]
  <2>1. /\ pc = "main" /\ Send(msg) /\ conn' = conn /\ sent' = sent
        /\ pc' = pc \/ pc' = "killed"
    BY <1>3 DEF sr_send_packet
  <2>2. msg \in Upward /\ msg.type = "PACKET"
    BY UpwardIs
  <2>. HIDE DEF msg
  <2>3. /\ \A n \in DOMAIN up' : up'[n].conn <= conn'
        /\ \A m, n \in DOMAIN up' :
             (Live(m) /\ Live(n) /\ up[m].msg.type # "PACKET" /\ up[n].msg.type # "PACKET")'
               => m = n
        /\ \A n \in DOMAIN up' : Live(n)' =>
             (n \in DOMAIN up /\ Live(n) /\ up'[n] = up[n]) \/ up'[n].msg = msg
    BY <2>1, <2>2, UpAdd
  <2>4. \A type : Told(type)' <=> Told(type)
    BY <2>1 DEF Told
  <2>5. ASSUME pc' \in Running, NEW n \in DOMAIN up', Live(n)'
        PROVE  \/ up'[n].msg.type = "OPEN" /\ pc' = "main" /\ ~Told("HWINFO")'
               \/ up'[n].msg.type = "PACKET" /\ pc' = "main"
    <3>1. pc' = "main" /\ pc \in Running
      BY <2>1, <2>5, Places
    <3>2. CASE n \in DOMAIN up /\ Live(n) /\ up'[n] = up[n]
      BY <2>1, <2>4, <3>1, <3>2 DEF UpOK
    <3>3. CASE up'[n].msg = msg
      BY <2>2, <3>1, <3>3
    <3>. QED BY <2>3, <2>5, <3>2, <3>3
  <2>. QED BY <2>3, <2>5 DEF UpOK
<1>4. CASE RecvMsg
  <2>1. up # <<>> /\ up' = Tail(up) /\ conn' = conn /\ pc' = pc /\ ~Start
    BY <1>4 DEF RecvMsg, router, Start, Running
  <2>2. \/ sent' = sent
        \/ /\ Head(up).conn = conn
           /\ \/ Tells("AUTH_STATUS") /\ Head(up).msg.type = "AUTH_REPLY"
              \/ Tells("HWINFO") /\ Head(up).msg.type = "OPEN"
        \/ Tells("PACKET") \/ Tells("AUTH_REQUEST")
    BY <2>1, TellsIs
  <2>3. ASSUME NEW t, Tells(t) PROVE \A type : Told(type)' <=> Told(type) \/ t = type
    BY <2>3, ToldAppend DEF Tells
  <2>4. sent' = sent => \A type : Told(type)' <=> Told(type)
    BY DEF Told
  <2>5. Told("AUTH_STATUS")' => \/ Told("AUTH_STATUS")
                                \/ Head(up).conn = conn /\ Head(up).msg.type = "AUTH_REPLY"
    BY <2>2, <2>3, <2>4
  <2>6. Told("HWINFO")' => \/ Told("HWINFO")
                           \/ Head(up).conn = conn /\ Head(up).msg.type = "OPEN"
    BY <2>2, <2>3, <2>4
  <2>. QED BY <2>1, <2>5, <2>6, UpRecv
<1>5. ASSUME ~Start, ~RecvMsg, up' = up, conn' = conn, pc' = pc \/ pc' \notin Running
      PROVE  UpOK'
  <2>1. sent' = sent \/ Tells("PACKET") \/ Tells("AUTH_REQUEST")
    BY <1>5, TellsIs
  <2>2. ASSUME NEW t, Tells(t) PROVE \A type : Told(type)' <=> Told(type) \/ t = type
    BY <2>2, ToldAppend DEF Tells
  <2>3. sent' = sent => \A type : Told(type)' <=> Told(type)
    BY DEF Told
  <2>4. /\ Told("AUTH_STATUS")' => Told("AUTH_STATUS")
        /\ Told("HWINFO")' => Told("HWINFO")
    BY <2>1, <2>2, <2>3
  <2>. QED BY <1>5, <2>4, UpSame
<1>6. \/ Start \/ Dispatch \/ RecvMsg \/ \E name \in Interfaces : sr_send_packet(name)
      \/ up' = up /\ conn' = conn /\ (pc' = pc \/ pc' \notin Running)
  BY Places DEF Next, vars, router, Recv, RecvFails, LengthRefused,
         NewClient, ControllerStops,
         ConnectionUp, RouterInfoStored, RouterInfoEntry, PacketIn, GreetClient
<1>. QED BY <1>1, <1>2, <1>3, <1>4, <1>5, <1>6

\* Where a running router may go, but for a new start.
LEMMA PcMoves ==
    ASSUME TypeOK, BufOK, PosOK, [Next]_vars, ~Start, pc' \in Running
    PROVE  /\ pc \in Running
           /\ \/ pc' = pc
              \/ pc = "auth_request" /\ pc' = "auth_status"
              \/ pc = "auth_status" /\ pc' \in {"rtable", "main"}
<1>1. CASE Dispatch
  <2> DEFINE cmd == sent[handled + 1]
  <2>1. /\ pc \in Running
        /\ \/ Unexpected(cmd) \/ HandleAuthRequest(cmd) \/ HandleAuthStatus(cmd)
           \/ HandleHwInfo(cmd) \/ HandlePacket(cmd)
    BY <1>1, DispatchIs
  <2>. HIDE DEF cmd
  <2>2. CASE Unexpected(cmd)
    BY <2>2, Places DEF Unexpected, Exit
  <2>3. CASE HandleAuthRequest(cmd)
    BY <2>1, <2>3, Places DEF HandleAuthRequest, Exit
  <2>4. CASE HandleAuthStatus(cmd)
    BY <2>1, <2>4 DEF HandleAuthStatus
  <2>5. CASE HandleHwInfo(cmd)
    BY <2>1, <2>5, Places DEF HandleHwInfo
  <2>6. CASE HandlePacket(cmd)
    BY <2>1, <2>6, Places DEF HandlePacket
  <2>. QED BY <2>1, <2>2, <2>3, <2>4, <2>5, <2>6
<1>2. CASE ~Dispatch
  <2>1. pc' = pc \/ pc' \notin Running
    BY <1>2, Places DEF Next, vars, router, Recv, RecvFails, LengthRefused,
         NewClient, ControllerStops,
         ConnectionUp, RouterInfoStored, RouterInfoEntry, PacketIn, GreetClient, RecvMsg,
         sr_send_packet
  <2>. QED BY <2>1
<1>. QED BY <1>1, <1>2

\* A command of the negotiation that was not told before is told once.
LEMMA ToldOnce ==
    ASSUME TypeOK, ToldOK, NEW cmd \in Downward, sent' = Append(sent, cmd),
           cmd.type # "PACKET" => ~Told(cmd.type)
    PROVE  \A m, n \in DOMAIN sent' :
             sent'[m].type = sent'[n].type /\ sent'[m].type # "PACKET" => m = n
<1> DEFINE k == Len(sent) + 1
<1>1. /\ Len(sent) \in Nat /\ DOMAIN sent = 1..Len(sent) /\ DOMAIN sent' = 1..k
      /\ \A n \in 1..Len(sent) : sent'[n] = sent[n]
      /\ sent'[k] = cmd
  BY AppendProperties DEF TypeOK
<1>2. \A n \in 1..k : n = k \/ n \in 1..Len(sent)
  BY <1>1
<1>. HIDE DEF k
<1>3. \A n \in 1..Len(sent) : sent[n].type = cmd.type => cmd.type = "PACKET"
  BY <1>1 DEF Told
<1>4. \A m, n \in 1..Len(sent) : sent[m].type = sent[n].type /\ sent[m].type # "PACKET" => m = n
  BY <1>1 DEF ToldOK
<1>. QED BY <1>1, <1>2, <1>3, <1>4

\* The controller greets each connection once, and answers each question once.
LEMMA ToldStep ==
    ASSUME TypeOK, CoreOK, BufOK, PosOK, UpOK, ToldOK, [Next]_vars
    PROVE  ToldOK'
<1>1. CASE Start
  <2>1. /\ sent' = <<>> /\ DOMAIN sent' = {} /\ conn' = conn + 1 /\ greeting' = greeting
        /\ conn \in Nat /\ greeting \in 0..conn
    BY <1>1 DEF Start, TypeOK
  <2>2. greeting' # conn'
    BY <2>1
  <2>. QED BY <2>1, <2>2 DEF ToldOK, Told
<1>2. ASSUME ~Start PROVE conn' = conn
  BY <1>2 DEF Next, vars, Recv, RecvFails, LengthRefused, Dispatch, NewClient, ControllerStops,
         ConnectionUp, RouterInfoStored, RouterInfoEntry, PacketIn, GreetClient, RecvMsg,
         sr_send_packet
<1>3. ASSUME ~Start PROVE /\ \/ accepting' = accepting
                             \/ \E c \in accepting : greeting' = c /\ accepting' = accepting \ {c}
                          /\ greeting' # greeting =>
                               \/ greeting' \in accepting \ accepting'
                               \/ GreetClient /\ greeting' = 0 /\ conn # 0 /\ accepting' = accepting
  <2>1. CASE GreetClient
    <3>1. conn # 0
      BY <2>1 DEF GreetClient, TypeOK
    <3>. QED BY <2>1, <3>1 DEF GreetClient
  <2>2. ASSUME NEW c \in accepting, NewClient(c)
        PROVE  greeting' = c /\ accepting' = accepting \ {c}
    BY <2>2 DEF NewClient
  <2>3. \/ GreetClient \/ (accepting' = accepting /\ greeting' = greeting)
        \/ \E c \in accepting : NewClient(c)
    BY <1>3 DEF Next, vars, reactor, Recv, RecvFails, LengthRefused, Dispatch, ControllerStops,
         ConnectionUp, RouterInfoStored, RouterInfoEntry, PacketIn, RecvMsg, sr_send_packet
  <2>. QED BY <2>1, <2>2, <2>3
<1>4. ASSUME ~Start PROVE (greeting = conn => conn \notin accepting)'
  BY <1>2, <1>3, <1>4 DEF ToldOK
<1>5. CASE ~Start /\ sent' = sent
  <2>1. \A type : Told(type)' <=> Told(type)
    BY <1>5 DEF Told
  <2>2. (Told("AUTH_REQUEST") => conn \notin accepting /\ greeting # conn)'
    BY <1>2, <1>3, <1>5, <2>1 DEF ToldOK
  <2>3. ASSUME pc' \in Running
        PROVE  (Told("AUTH_STATUS") => pc # "auth_request")' /\ (Told("HWINFO") => pc = "main")'
    BY <1>5, <2>1, <2>3, PcMoves DEF ToldOK
  <2>4. (\A m, n \in DOMAIN sent :
          sent[m].type = sent[n].type /\ sent[m].type # "PACKET" => m = n)'
    BY <1>5 DEF ToldOK
  <2>. QED BY <1>4, <1>5, <2>2, <2>3, <2>4 DEF ToldOK
<1>6. ASSUME ~Start, NEW cmd \in Downward, sent' = Append(sent, cmd), pc \in Running,
             \/ cmd.type = "PACKET"
             \/ cmd.type = "AUTH_REQUEST" /\ GreetClient /\ greeting = conn
             \/ /\ RecvMsg /\ Head(up).conn = conn
                /\ \/ cmd.type = "AUTH_STATUS" /\ Head(up).msg.type = "AUTH_REPLY"
                   \/ cmd.type = "HWINFO" /\ Head(up).msg.type = "OPEN"
      PROVE  ToldOK'
  <2>1. \A type : Told(type)' <=> Told(type) \/ cmd.type = type
    BY <1>6, ToldAppend
  <2>2. ASSUME RecvMsg, Head(up).conn = conn
        PROVE  /\ Head(up).msg.type = "AUTH_REPLY" => ~Told("AUTH_STATUS") /\ pc = "auth_status"
               /\ Head(up).msg.type = "OPEN" => ~Told("HWINFO") /\ pc = "main"
               /\ pc' = pc
    <3>1. up # <<>> /\ pc' = pc
      BY <2>2 DEF RecvMsg, router
    <3>2. 1 \in DOMAIN up /\ Head(up) = up[1]
      BY <3>1, EmptySeq DEF TypeOK
    <3>3. Live(1)
      BY <2>2, <3>2 DEF Live
    <3>. QED BY <1>6, <3>1, <3>2, <3>3 DEF UpOK
  <2>3. cmd.type # "PACKET" => ~Told(cmd.type)
    BY <1>6, <2>2 DEF ToldOK
  <2>4. \A m, n \in DOMAIN sent' :
          sent'[m].type = sent'[n].type /\ sent'[m].type # "PACKET" => m = n
    BY <1>6, <2>3, ToldOnce
  <2>5. (Told("AUTH_REQUEST") => conn \notin accepting /\ greeting # conn)'
    <3>1. CASE cmd.type = "AUTH_REQUEST"
      <4>1. GreetClient /\ greeting = conn
        BY <1>6, <3>1
      <4>2. greeting' = 0 /\ conn # 0 /\ accepting' = accepting
        BY <4>1 DEF GreetClient
      <4>. QED BY <1>2, <1>6, <4>1, <4>2 DEF ToldOK
    <3>2. CASE cmd.type # "AUTH_REQUEST"
      BY <1>2, <1>3, <1>6, <2>1, <3>2 DEF ToldOK
    <3>. QED BY <3>1, <3>2
  <2>6. ASSUME pc' \in Running
        PROVE  (Told("AUTH_STATUS") => pc # "auth_request")' /\ (Told("HWINFO") => pc = "main")'
    <3>1. /\ \/ pc' = pc
             \/ pc = "auth_request" /\ pc' = "auth_status"
             \/ pc = "auth_status" /\ pc' \in {"rtable", "main"}
      BY <1>6, <2>6, PcMoves
    <3>2. Told("AUTH_STATUS")' => Told("AUTH_STATUS") \/ (pc = "auth_status" /\ pc' = pc)
      BY <1>6, <2>1, <2>2
    <3>3. Told("HWINFO")' => Told("HWINFO") \/ (pc = "main" /\ pc' = pc)
      BY <1>6, <2>1, <2>2
    <3>. QED BY <1>6, <3>1, <3>2, <3>3 DEF ToldOK
  <2>. QED BY <1>4, <1>6, <2>4, <2>5, <2>6 DEF ToldOK
<1>7. \/ Start \/ sent' = sent
      \/ \E cmd \in Downward :
           /\ sent' = Append(sent, cmd) /\ pc \in Running
           /\ \/ cmd.type = "PACKET"
              \/ cmd.type = "AUTH_REQUEST" /\ GreetClient /\ greeting = conn
              \/ /\ RecvMsg /\ Head(up).conn = conn
                 /\ \/ cmd.type = "AUTH_STATUS" /\ Head(up).msg.type = "AUTH_REPLY"
                    \/ cmd.type = "HWINFO" /\ Head(up).msg.type = "OPEN"
  BY TellsIs DEF Tells
<1>. QED BY <1>1, <1>5, <1>6, <1>7

-----------------------------------------------------------------------------
\* The hardware information

Item == {Entries(i)[k] : i \in Interfaces, k \in 1..6}

\* What the hardware information says of one interface.
OfInterface(i) == [name |-> i, ip |-> Ip[i], addr |-> Mac[i]]

\* Six entries for each interface, in the order of the interfaces.
LEMMA EntriesAre ==
    ASSUME NEW is \in Enumeration
    PROVE  LET E == VNSHardwareInfo(is).entries
           IN  /\ E \in Seq(Item) /\ Len(is) \in Nat /\ Len(E) = 6 * Len(is)
               /\ \A i \in 1..Len(is) : \A k \in 1..6 : E[6 * (i - 1) + k] = Entries(is[i])[k]
<1> DEFINE m == Len(is)
           E == VNSHardwareInfo(is).entries
           seqs == [n \in DOMAIN is |-> Entries(is[n])]
<1>1. m \in Nat /\ DOMAIN is = 1..m /\ \A n \in 1..m : is[n] \in Interfaces
  BY DEF Enumeration
<1>2. ASSUME NEW i \in Interfaces
      PROVE  Entries(i) \in Seq(Item) /\ Len(Entries(i)) = 6
  <2>1. \A k \in 1..6 : Entries(i)[k] \in Item
    BY DEF Item
  <2>2. Len(Entries(i)) = 6 /\ DOMAIN Entries(i) = 1..6
    BY DEF Entries
  <2>3. Entries(i) = [k \in 1..6 |-> Entries(i)[k]]
    BY <2>2 DEF Entries
  <2> DEFINE e == Entries(i)
  <2>. HIDE DEF e
  <2>4. e \in [1..6 -> Item]
    BY <2>1, <2>3 DEF e
  <2>5. e \in Seq(Item)
    <3>1. PICK n \in Nat : n = 6
      OBVIOUS
    <3>2. e \in [1..n -> Item]
      BY <2>4, <3>1
    <3>. QED BY <3>2
  <2>. QED BY <2>2, <2>5 DEF e
<1>3. E = FlattenSeq(seqs)
  BY DEF VNSHardwareInfo
<1>. HIDE DEF m
<1>4. seqs \in Seq(Seq(Item)) /\ Len(seqs) = m /\ \A n \in 1..m : seqs[n] = Entries(is[n])
  BY <1>1, <1>2
<1>. HIDE DEF seqs, E
<1>5. PICK f : Pieces(Item, seqs, f)
  BY <1>4, FlattenIs
<1>6. /\ f \in [0..m -> Seq(Item)] /\ f[0] = <<>> /\ f[m] = E
      /\ \A i \in 1..m : f[i] = f[i - 1] \o Entries(is[i])
  BY <1>3, <1>4, <1>5 DEF Pieces
<1>7. ASSUME NEW i \in 1..m
      PROVE  /\ i - 1 \in 0..m /\ Len(f[i - 1]) \in Nat /\ Len(f[i]) = Len(f[i - 1]) + 6
             /\ \A k \in 1..6 : f[i][Len(f[i - 1]) + k] = Entries(is[i])[k]
  <2> DEFINE s == f[i - 1]
             t == Entries(is[i])
  <2>1. i - 1 \in 0..m
    BY <1>1
  <2>2. s \in Seq(Item) /\ t \in Seq(Item) /\ Len(t) = 6 /\ f[i] = s \o t
    BY <1>1, <1>2, <1>6, <2>1
  <2>. HIDE DEF s, t
  <2>3. /\ Len(s) \in Nat /\ Len(s \o t) = Len(s) + 6
        /\ \A k \in 1..(Len(s) + 6) : (s \o t)[k] = IF k <= Len(s) THEN s[k] ELSE t[k - Len(s)]
    <3>1. /\ Len(s) \in Nat /\ Len(s \o t) = Len(s) + Len(t)
          /\ \A k \in 1..(Len(s) + Len(t)) :
               (s \o t)[k] = IF k <= Len(s) THEN s[k] ELSE t[k - Len(s)]
      <4>1. s \in Seq(Item) /\ t \in Seq(Item)
        BY <2>2
      <4>. QED BY <4>1, ConcatProperties
    <3>2. Len(t) = 6
      BY <2>2
    <3>. QED BY <3>1, <3>2
  <2>4. ASSUME NEW k \in 1..6 PROVE (s \o t)[Len(s) + k] = t[k]
    <3>1. Len(s) + k \in 1..(Len(s) + 6) /\ ~(Len(s) + k <= Len(s)) /\ (Len(s) + k) - Len(s) = k
      BY <2>3
    <3>. QED BY <2>3, <3>1
  <2>. QED BY <2>1, <2>2, <2>3, <2>4 DEF s, t
<1> DEFINE T == {n \in Nat : n <= m => Len(f[n]) = 6 * n}
<1>8. 0 \in T
  BY <1>6
<1>9. ASSUME NEW n \in T PROVE n + 1 \in T
  <2>1. SUFFICES ASSUME n + 1 <= m PROVE Len(f[n + 1]) = 6 * (n + 1)
    OBVIOUS
  <2>2. n \in Nat /\ n + 1 \in 1..m /\ (n + 1) - 1 = n /\ n <= m
    BY <1>1, <2>1
  <2>. QED BY <1>7, <2>2
<1>10. \A n \in 0..m : Len(f[n]) = 6 * n
  <2>1. T = Nat
    <3>. HIDE DEF T
    <3>1. T \in SUBSET Nat
      BY DEF T
    <3>. QED BY <1>8, <1>9, <3>1, Induction
  <2>. QED BY <1>1, <2>1
<1>11. m \in 0..m /\ E \in Seq(Item) /\ Len(E) = 6 * m
  BY <1>1, <1>6, <1>10
<1>12. ASSUME NEW i \in 1..m, NEW k \in 1..6
       PROVE  E[6 * (i - 1) + k] = Entries(is[i])[k]
  <2>1. i \in 0..m /\ i - 1 \in 0..m /\ Len(f[i - 1]) = 6 * (i - 1) /\ Len(f[i]) = 6 * i
    BY <1>1, <1>10
  <2>2. \A j \in 1..Len(f[i]) : E[j] = f[i][j]
    <3>1. \A n \in 0..Len(seqs) : \A j \in 1..Len(f[n]) : FlattenSeq(seqs)[j] = f[n][j]
      BY <1>4, <1>5, PieceIn
    <3>2. i \in 0..Len(seqs)
      BY <1>4, <2>1
    <3>. QED BY <1>3, <3>1, <3>2
  <2>3. 6 * (i - 1) + k \in 1..(6 * i)
    BY <1>1
  <2>. QED BY ZenonT(30), <1>7, <2>1, <2>2, <2>3
<1>. QED BY <1>1, <1>11, <1>12 DEF m, E

\* An entry leaves a list of interfaces.
LEMMA HandleKeeps ==
    ASSUME NEW list \in Seq(Interface), NEW entry \in Item
    PROVE  HandleEntry(list, entry) \in Seq(Interface)
<1>1. PICK i \in Interfaces, k \in 1..6 : entry = Entries(i)[k]
  BY DEF Item
<1>2. Len(list) \in Nat /\ DOMAIN list = 1..Len(list)
  OBVIOUS
<1>3. Mac[i] \in {Mac[j] : j \in Interfaces} /\ Ip[i] \in {Ip[j] : j \in Interfaces}
  OBVIOUS
<1>4. ASSUME NEW a \in {Mac[j] : j \in Interfaces}
      PROVE  SetLast(list, "addr", a) \in Seq(Interface)
  <2>1. \A r \in Interface : [r EXCEPT !["addr"] = a] \in Interface
    BY DEF Interface
  <2>2. SetLast(list, "addr", a) = [list EXCEPT ![Len(list)] = [@ EXCEPT !["addr"] = a]]
    BY DEF SetLast
  <2>3. \A n \in DOMAIN list : list[n] \in Interface
    OBVIOUS
  <2>. QED BY <1>2, <2>1, <2>2, <2>3
<1>5. ASSUME NEW a \in {Ip[j] : j \in Interfaces}
      PROVE  SetLast(list, "ip", a) \in Seq(Interface)
  <2>1. \A r \in Interface : [r EXCEPT !["ip"] = a] \in Interface
    BY DEF Interface
  <2>2. SetLast(list, "ip", a) = [list EXCEPT ![Len(list)] = [@ EXCEPT !["ip"] = a]]
    BY DEF SetLast
  <2>3. \A n \in DOMAIN list : list[n] \in Interface
    OBVIOUS
  <2>. QED BY <1>2, <2>1, <2>2, <2>3
<1>6. Append(list, [name |-> i, ip |-> Unset, addr |-> Unset]) \in Seq(Interface)
  <2>1. [name |-> i, ip |-> Unset, addr |-> Unset] \in Interface
    BY DEF Interface
  <2>. QED BY <2>1
<1>7. CASE k = 1
  BY <1>1, <1>6, <1>7 DEF Entries, HandleEntry
<1>8. CASE k = 3
  BY <1>1, <1>3, <1>4, <1>8 DEF Entries, HandleEntry
<1>9. CASE k = 4
  BY <1>1, <1>3, <1>5, <1>9 DEF Entries, HandleEntry
<1>10. CASE k \in {2, 5, 6}
  BY <1>1, <1>10 DEF Entries, HandleEntry
<1>. QED BY <1>7, <1>8, <1>9, <1>10

\* The six entries of an interface add it to the list, with its own addresses.
LEMMA HandleIs ==
    ASSUME NEW i \in Interfaces, NEW l0 \in Seq(Interface), NEW l1, NEW l2, NEW l3, NEW l4,
           NEW l5, NEW l6,
           l1 = HandleEntry(l0, Entries(i)[1]), l2 = HandleEntry(l1, Entries(i)[2]),
           l3 = HandleEntry(l2, Entries(i)[3]), l4 = HandleEntry(l3, Entries(i)[4]),
           l5 = HandleEntry(l4, Entries(i)[5]), l6 = HandleEntry(l5, Entries(i)[6])
    PROVE  l6 = Append(l0, OfInterface(i))
<1> DEFINE k == Len(l0) + 1
           r1 == [name |-> i, ip |-> Unset, addr |-> Unset]
           r3 == [name |-> i, ip |-> Unset, addr |-> Mac[i]]
<1>1. Len(l0) \in Nat
  OBVIOUS
<1>2. l1 = Append(l0, r1)
  BY DEF Entries, HandleEntry
<1>3. l2 = l1
  BY DEF Entries, HandleEntry
<1>4. l3 = SetLast(l2, "addr", Mac[i])
  BY DEF Entries, HandleEntry
<1>5. l4 = SetLast(l3, "ip", Ip[i])
  BY DEF Entries, HandleEntry
<1>6. l5 = l4 /\ l6 = l5
  BY DEF Entries, HandleEntry
<1>7. [r1 EXCEPT !["addr"] = Mac[i]] = r3
  OBVIOUS
<1>8. [r3 EXCEPT !["ip"] = Ip[i]] = OfInterface(i)
  BY DEF OfInterface
<1>9. ASSUME NEW r, NEW s, NEW x, x = Append(l0, r)
      PROVE  Len(x) = k /\ x[k] = r /\ [x EXCEPT ![k] = s] = Append(l0, s)
  <2> DEFINE S == Interface \cup {r, s}
             y == [x EXCEPT ![k] = s]
             z == Append(l0, s)
  <2>1. l0 \in Seq(S) /\ r \in S /\ s \in S
    OBVIOUS
  <2>. HIDE DEF S, k
  <2>2. /\ x \in Seq(S) /\ Len(x) = k /\ x[k] = r /\ \A n \in 1..Len(l0) : x[n] = l0[n]
        /\ z \in Seq(S) /\ Len(z) = k /\ z[k] = s /\ \A n \in 1..Len(l0) : z[n] = l0[n]
    BY <1>9, <2>1, AppendProperties DEF k
  <2>3. k \in Nat /\ k \in 1..k /\ \A n \in 1..k : n = k \/ n \in 1..Len(l0)
    BY <1>1 DEF k
  <2>. HIDE DEF z
  <2>4. y \in Seq(S) /\ Len(y) = k
    BY <2>1, <2>2, <2>3
  <2>5. \A n \in 1..k : y[n] = z[n]
    <3>1. DOMAIN x = 1..k /\ \A n \in 1..Len(l0) : n # k
      BY <1>1, <2>2, <2>3 DEF k
    <3>. QED BY <2>2, <2>3, <3>1
  <2>. HIDE DEF y
  <2>6. y = z
    BY <2>2, <2>4, <2>5, SeqEqual
  <2>. QED BY <2>2, <2>6 DEF y, z
<1>. HIDE DEF r1, r3, k
<1>10. l3 = Append(l0, r3)
  <2>1. Len(l1) = k /\ l1[k] = r1 /\ [l1 EXCEPT ![k] = r3] = Append(l0, r3)
    BY <1>2, <1>9
  <2>2. SetLast(l1, "addr", Mac[i]) = [l1 EXCEPT ![k] = [l1[k] EXCEPT !["addr"] = Mac[i]]]
    BY <2>1 DEF SetLast
  <2>. QED BY <1>3, <1>4, <1>7, <2>1, <2>2
<1>11. l4 = Append(l0, OfInterface(i))
  <2> DEFINE r6 == OfInterface(i)
  <2>. HIDE DEF r6
  <2>1. Len(l3) = k /\ l3[k] = r3 /\ [l3 EXCEPT ![k] = r6] = Append(l0, r6)
    BY <1>9, <1>10
  <2>2. SetLast(l3, "ip", Ip[i]) = [l3 EXCEPT ![k] = [l3[k] EXCEPT !["ip"] = Ip[i]]]
    BY <2>1 DEF SetLast
  <2>. QED BY <1>5, <1>8, <2>1, <2>2 DEF r6
<1>. QED BY <1>6, <1>11

\* The hardware information gives a router with no interfaces those of the
\* switch, each with its own addresses.
LEMMA HwInfoIs ==
    ASSUME NEW is \in Enumeration
    PROVE  LET list == sr_handle_hwinfo(<<>>, VNSHardwareInfo(is))
           IN  Configured(list, is) /\ list # <<>>
<1> DEFINE m == Len(is)
           E == VNSHardwareInfo(is).entries
           M == Len(E)
           V == Seq(Interface)
           base == <<>>
           step == [n \in 1..M |-> [t \in V |-> HandleEntry(t, E[n])]]
           Is(x) == x = [n \in 0..M |-> IF n = 0 THEN <<>> ELSE HandleEntry(x[n - 1], E[n])]
           g == CHOOSE x : Is(x)
           upto(i) == [n \in 1..i |-> OfInterface(is[n])]
<1>1. /\ E \in Seq(Item) /\ m \in Nat /\ M = 6 * m /\ M \in Nat
      /\ \A i \in 1..m : \A k \in 1..6 : E[6 * (i - 1) + k] = Entries(is[i])[k]
  <2>1. /\ E \in Seq(Item) /\ m \in Nat /\ M = 6 * m
        /\ \A i \in 1..m : \A k \in 1..6 : E[6 * (i - 1) + k] = Entries(is[i])[k]
    BY EntriesAre
  <2>. HIDE DEF E
  <2>. QED BY <2>1
<1>2. sr_handle_hwinfo(<<>>, VNSHardwareInfo(is)) = g[M]
  BY DEF sr_handle_hwinfo
<1>3. m # 0 /\ DOMAIN is = 1..m /\ \A n \in 1..m : is[n] \in Interfaces
  BY EmptySeq DEF Enumeration
<1>. HIDE DEF E, M, m
<1>4. \A n \in 1..M : E[n] \in Item
  <2>1. DOMAIN E = 1..M
    BY <1>1 DEF M
  <2>. QED BY <1>1, <2>1
<1>5. ASSUME NEW n \in 1..M, NEW t \in V PROVE HandleEntry(t, E[n]) \in V
  BY <1>4, HandleKeeps
<1>6. step \in [1..M -> [V -> V]] /\ \A n \in 1..M, t \in V : step[n][t] = HandleEntry(t, E[n])
  BY <1>5
<1>. HIDE DEF step
<1>7. PICK f \in [0..M -> V] : f[0] = base /\ \A i \in 1..M : f[i] = step[i][f[i - 1]]
  <2>1. base \in V
    OBVIOUS
  <2>. HIDE DEF base, V
  <2>2. Recursive(V, M, base, step)
    BY <1>1, <1>6, <2>1, Recursion
  <2>. QED BY <2>2 DEF Recursive
<1>8. Is(f)
  <2>1. ASSUME NEW n \in 1..M PROVE n - 1 \in 0..M /\ n # 0 /\ f[n] = HandleEntry(f[n - 1], E[n])
    <3>1. n - 1 \in 0..M /\ n # 0
      BY <1>1
    <3>. QED BY <1>6, <1>7, <3>1
  <2>2. \A n \in 0..M : n = 0 \/ n \in 1..M
    BY <1>1
  <2>3. \A n \in 0..M : f[n] = IF n = 0 THEN <<>> ELSE HandleEntry(f[n - 1], E[n])
    BY <1>7, <2>1, <2>2
  <2>. QED BY <1>7, <2>3
<1>9. Is(g)
  BY <1>8
<1>. HIDE DEF g, V
<1>10. g[0] = <<>> /\ \A n \in 1..M : g[n] = HandleEntry(g[n - 1], E[n])
  <2>1. 0 \in 0..M /\ \A n \in 1..M : n \in 0..M /\ n # 0
    BY <1>1
  <2>2. \A n \in 0..M : g[n] = IF n = 0 THEN <<>> ELSE HandleEntry(g[n - 1], E[n])
    BY <1>9
  <2>. QED BY <2>1, <2>2
<1>. HIDE DEF Is
<1>11. ASSUME NEW i \in Nat, i <= m PROVE upto(i) \in Seq(Interface) /\ Len(upto(i)) = i
  <2>1. \A n \in 1..i : n \in 1..m
    BY <1>1, <1>11
  <2>2. \A n \in 1..i : OfInterface(is[n]) \in Interface
    BY <1>3, <2>1 DEF OfInterface, Interface
  <2>. QED BY <2>2
<1> DEFINE T == {i \in Nat : i <= m => g[6 * i] = upto(i)}
<1>12. 0 \in T
  <2>1. upto(0) = <<>>
    OBVIOUS
  <2>. QED BY <1>10, <2>1
<1>13. ASSUME NEW i \in T PROVE i + 1 \in T
  <2>1. SUFFICES ASSUME i + 1 <= m PROVE g[6 * (i + 1)] = upto(i + 1)
    OBVIOUS
  <2>2. i \in Nat /\ i + 1 \in 1..m /\ (i + 1) - 1 = i /\ i <= m /\ i + 1 \in Nat
    BY <1>1, <2>1
  <2>3. g[6 * i] = upto(i)
    BY <2>2
  <2> DEFINE j == is[i + 1]
  <2>4. j \in Interfaces
    BY <1>3, <2>2
  <2>5. ASSUME NEW k \in 1..6
        PROVE  g[6 * i + k] = HandleEntry(g[6 * i + k - 1], Entries(j)[k])
    <3>1. 6 * i + k \in 1..M
      <4>1. M = 6 * m /\ m \in Nat /\ i + 1 <= m
        BY <1>1, <2>1
      <4>2. \A a, b \in Nat : a + 1 <= b => \A c \in 1..6 : 6 * a + c \in 1..(6 * b)
        OBVIOUS
      <4>. QED BY <2>2, <4>1, <4>2
    <3>2. E[6 * i + k] = Entries(j)[k]
      BY <1>1, <2>2
    <3>. QED BY SMTT(20), <1>10, <3>1, <3>2
  <2>6. /\ g[6 * i + 1] = HandleEntry(g[6 * i], Entries(j)[1])
        /\ g[6 * i + 2] = HandleEntry(g[6 * i + 1], Entries(j)[2])
        /\ g[6 * i + 3] = HandleEntry(g[6 * i + 2], Entries(j)[3])
        /\ g[6 * i + 4] = HandleEntry(g[6 * i + 3], Entries(j)[4])
        /\ g[6 * i + 5] = HandleEntry(g[6 * i + 4], Entries(j)[5])
        /\ g[6 * i + 6] = HandleEntry(g[6 * i + 5], Entries(j)[6])
    <3>1. /\ 6 * i + 1 - 1 = 6 * i /\ 6 * i + 2 - 1 = 6 * i + 1 /\ 6 * i + 3 - 1 = 6 * i + 2
          /\ 6 * i + 4 - 1 = 6 * i + 3 /\ 6 * i + 5 - 1 = 6 * i + 4 /\ 6 * i + 6 - 1 = 6 * i + 5
          /\ 1 \in 1..6 /\ 2 \in 1..6 /\ 3 \in 1..6 /\ 4 \in 1..6 /\ 5 \in 1..6 /\ 6 \in 1..6
      BY <2>2
    <3>. HIDE DEF j
    <3>. QED BY <2>5, <3>1
  <2>7. upto(i) \in Seq(Interface) /\ Len(upto(i)) = i
    BY <1>11, <2>2
  <2>8. g[6 * i + 6] = Append(upto(i), OfInterface(j))
    <3>. HIDE DEF j, upto
    <3>. QED BY <2>3, <2>4, <2>6, <2>7, HandleIs
  <2>9. upto(i + 1) = Append(upto(i), OfInterface(j))
    <3> DEFINE x == upto(i)
               y == upto(i + 1)
               z == Append(x, OfInterface(j))
    <3>1. y \in Seq(Interface) /\ Len(y) = i + 1
      BY <1>11, <2>1, <2>2
    <3>2. OfInterface(j) \in Interface
      BY <2>4 DEF OfInterface, Interface
    <3>3. x \in Seq(Interface) /\ Len(x) = i
      BY <2>7
    <3>4. /\ \A n \in 1..i : x[n] = OfInterface(is[n])
          /\ \A n \in 1..(i + 1) : y[n] = OfInterface(is[n])
      OBVIOUS
    <3>. HIDE DEF x, y
    <3>5. /\ z \in Seq(Interface) /\ Len(z) = i + 1
          /\ \A n \in 1..i : z[n] = x[n]
          /\ z[i + 1] = OfInterface(j)
      BY <3>2, <3>3, AppendProperties
    <3>6. \A n \in 1..(i + 1) : y[n] = z[n]
      <4>1. \A n \in 1..(i + 1) : n = i + 1 \/ n \in 1..i
        BY <2>2
      <4>. HIDE DEF z
      <4>. QED BY <3>4, <3>5, <4>1
    <3>. HIDE DEF z
    <3>7. y = z
      BY <3>1, <3>5, <3>6, SeqEqual
    <3>. QED BY <3>7 DEF x, y, z
  <2>10. 6 * (i + 1) = 6 * i + 6
    BY <2>2
  <2>. QED BY <2>8, <2>9, <2>10
<1>14. g[M] = upto(m)
  <2>1. T = Nat
    <3>. HIDE DEF T
    <3>1. T \in SUBSET Nat
      BY DEF T
    <3>. QED BY <1>12, <1>13, <3>1, Induction
  <2>2. m \in T
    <3>. HIDE DEF T
    <3>. QED BY <1>1, <2>1
  <2>3. g[6 * m] = upto(m)
    <3>1. m <= m
      BY <1>1
    <3>. QED BY <2>2, <3>1
  <2>. QED BY <1>1, <2>3
<1>15. Configured(g[M], is)
  BY <1>3, <1>14 DEF Configured, OfInterface
<1>16. g[M] # <<>>
  <2>1. Len(upto(m)) = m
    BY <1>1, <1>11
  <2>2. Len(<<>>) = 0
    OBVIOUS
  <2>. HIDE DEF upto
  <2>. QED BY <1>3, <1>14, <2>1, <2>2
<1>. QED BY <1>2, <1>15, <1>16

-----------------------------------------------------------------------------
\* The negotiation: where the router is

\* Only a start and a dispatched command change the router's place, list and
\* table, but for its end.
LEMMA OtherSteps ==
    ASSUME [Next]_vars, ~Start, ~Dispatch
    PROVE  /\ UNCHANGED <<setup, conn, if_list, routing_table, handled>>
           /\ pc' = pc \/ pc' \notin Running
  BY Places DEF Next, vars, router, Recv, RecvFails, LengthRefused,
         NewClient, ControllerStops,
         ConnectionUp, RouterInfoStored, RouterInfoEntry, PacketIn, GreetClient, RecvMsg,
         sr_send_packet

\* The router has heard what it had and the command that it dispatches.
LEMMA HeardIs ==
    ASSUME TypeOK, CoreOK, BufOK, PosOK, [Next]_vars, ~Start, NEW type
    PROVE  /\ ~Dispatch => (Heard(type)' <=> Heard(type))
           /\ Dispatch => (Heard(type)' <=> Heard(type) \/ sent[handled + 1].type = type)
<1>1. Len(sent) \in Nat /\ handled \in 0..Len(sent) /\ DOMAIN sent = 1..Len(sent)
  BY DEF TypeOK, BufOK
<1>2. CASE Dispatch
  <2>1. sent' = sent /\ handled' = handled + 1
    BY <1>2, DispatchIs
  <2>2. \A n \in 1..(handled + 1) : n = handled + 1 \/ n \in 1..handled
    BY <1>1
  <2>3. handled + 1 \in 1..(handled + 1) /\ \A n \in 1..handled : n \in 1..(handled + 1)
    BY <1>1
  <2>. QED BY <1>2, <2>1, <2>2, <2>3 DEF Heard
<1>3. CASE ~Dispatch
  <2>1. handled' = handled
    BY <1>3, OtherSteps
  <2>2. \A n \in 1..handled : sent'[n] = sent[n]
    <3>1. \A n \in 1..handled : n \in 1..Len(sent)
      BY <1>1
    <3>2. sent' = sent \/ \E cmd \in Downward : sent' = Append(sent, cmd)
      BY TellsIs DEF Tells
    <3>3. ASSUME NEW cmd \in Downward, sent' = Append(sent, cmd)
          PROVE  \A n \in 1..Len(sent) : sent'[n] = sent[n]
      BY <3>3, AppendProperties DEF TypeOK
    <3>. QED BY <3>1, <3>2, <3>3
  <2>. QED BY <1>3, <2>1, <2>2 DEF Heard
<1>. QED BY <1>2, <1>3

\* A router that dispatches the hardware information had none before, and has
\* the switch's interfaces after.
LEMMA HwInfoDispatch ==
    ASSUME TypeOK, BufOK, PosOK, ToldOK, HeardOK, Dispatch,
           HandleHwInfo(sent[handled + 1])
    PROVE  /\ if_list' # <<>> /\ pc = "main"
           /\ \E is \in Enumeration : Configured(if_list', is)
<1> DEFINE k == handled + 1
<1>1. k \in DOMAIN sent /\ sent[k] \in Downward /\ pc \in Running /\ handled \in Nat
  BY DispatchIs DEF BufOK
<1>2. pc = "main" /\ sent[k].type = "HWINFO" /\ if_list' = sr_handle_hwinfo(if_list, sent[k])
  BY DEF HandleHwInfo
<1>3. if_list = <<>>
  <2>1. SUFFICES ASSUME Heard("HWINFO") PROVE FALSE
    BY <1>1 DEF HeardOK
  <2>2. PICK n \in 1..handled : sent[n].type = "HWINFO"
    BY <2>1 DEF Heard
  <2>3. n \in DOMAIN sent /\ n # k
    BY <1>1 DEF TypeOK, BufOK
  <2>. QED BY <1>1, <1>2, <2>2, <2>3 DEF ToldOK
<1>. HIDE DEF k
<1>4. PICK is \in Enumeration : sent[k] = VNSHardwareInfo(is)
  <2>1. sent[k].type # "AUTH_REQUEST" /\ sent[k].type # "AUTH_STATUS" /\ sent[k].type # "PACKET"
    BY <1>2
  <2>. HIDE DEF VNSHardwareInfo
  <2>. QED BY <1>1, <2>1 DEF Downward, Command
<1>5. Configured(if_list', is) /\ if_list' # <<>>
  BY <1>2, <1>3, <1>4, HwInfoIs
<1>. QED BY <1>2, <1>5

\* The router is where what it has heard brings it.
LEMMA HeardStep ==
    ASSUME TypeOK, CoreOK, BufOK, PosOK, ToldOK, HeardOK, [Next]_vars
    PROVE  HeardOK'
<1>1. CASE Start
  <2>1. /\ sent' = <<>> /\ handled' = 0 /\ if_list' = <<>>
        /\ pc' = "auth_request" \/ pc' = "exited"
    BY <1>1 DEF Start
  <2>2. \A type : ~Heard(type)'
    BY <2>1 DEF Heard
  <2>. QED BY <2>1, <2>2, Places DEF HeardOK
<1>2. CASE ~Start /\ ~Dispatch
  <2>1. if_list' = if_list /\ (pc' = pc \/ pc' \notin Running)
    BY <1>2, OtherSteps
  <2>2. \A type : Heard(type)' <=> Heard(type)
    BY <1>2, HeardIs
  <2>. QED BY <2>1, <2>2 DEF HeardOK
<1>3. CASE ~Start /\ Dispatch
  <2> DEFINE cmd == sent[handled + 1]
  <2>1. /\ pc \in Running
        /\ \/ Unexpected(cmd) \/ HandleAuthRequest(cmd) \/ HandleAuthStatus(cmd)
           \/ HandleHwInfo(cmd) \/ HandlePacket(cmd)
    BY <1>3, DispatchIs
  <2>2. \A type : Heard(type)' <=> Heard(type) \/ cmd.type = type
    BY <1>3, HeardIs
  <2>3. CASE HandleHwInfo(cmd)
    <3>1. if_list' # <<>> /\ pc = "main"
      BY <1>3, <2>3, HwInfoDispatch
    <3>2. Heard("HWINFO")'
      BY <2>2, <2>3 DEF HandleHwInfo
    <3>. QED BY <2>1, <2>2, <3>1, <3>2 DEF HeardOK
  <2>. HIDE DEF cmd
  <2>4. CASE Unexpected(cmd)
    BY <2>4, Places DEF Unexpected, Exit, HeardOK
  <2>5. CASE HandleAuthRequest(cmd)
    BY <2>1, <2>2, <2>5, Places DEF HandleAuthRequest, Exit, HeardOK
  <2>6. CASE HandleAuthStatus(cmd)
    BY <2>1, <2>2, <2>6 DEF HandleAuthStatus, HeardOK
  <2>7. CASE HandlePacket(cmd)
    BY <2>1, <2>2, <2>7, Places DEF HandlePacket, HeardOK
  <2>. QED BY <2>1, <2>3, <2>4, <2>5, <2>6, <2>7
<1>. QED BY <1>1, <1>2, <1>3

\* The list and the table are what main loads, and what the hardware
\* information passes sr_verify_routing_table with.
LEMMA TablesStep ==
    ASSUME TypeOK, CoreOK, BufOK, PosOK, ToldOK, HeardOK, TablesOK, [Next]_vars
    PROVE  TablesOK'
<1>1. CASE Start
  <2>1. /\ if_list' = <<>> /\ setup' = setup /\ pc' \in {"auth_request", "exited"}
        /\ LET loaded == setup.template \/ Loads(setup.rtable) IN
             /\ pc' = IF loaded /\ alive THEN "auth_request" ELSE "exited"
             /\ routing_table' = IF setup.template \/ ~loaded THEN <<>>
                                 ELSE sr_load_rt(<<>>, setup.rtable)
    BY <1>1 DEF Start
  <2>. QED BY <2>1, Places DEF TablesOK, sr_load_rt
<1>2. CASE ~Start /\ ~Dispatch
  <2>1. /\ if_list' = if_list /\ routing_table' = routing_table /\ setup' = setup
        /\ pc' = pc \/ pc' \notin Running
    BY <1>2, OtherSteps
  <2>. QED BY <2>1, Places DEF TablesOK, Configured
<1>3. CASE ~Start /\ Dispatch
  <2> DEFINE cmd == sent[handled + 1]
  <2>1. /\ pc \in Running /\ setup' = setup
        /\ \/ Unexpected(cmd) \/ HandleAuthRequest(cmd) \/ HandleAuthStatus(cmd)
           \/ HandleHwInfo(cmd) \/ HandlePacket(cmd)
    BY <1>3, DispatchIs
  <2>2. CASE HandleHwInfo(cmd)
    <3>1. pc = "main" /\ \E is \in Enumeration : Configured(if_list', is)
      BY <1>3, <2>2, HwInfoDispatch
    <3>2. /\ pc' = IF sr_verify_routing_table(if_list', routing_table) THEN "main" ELSE "exited"
          /\ routing_table' = routing_table
      BY <2>2 DEF HandleHwInfo
    <3>. QED BY <2>1, <3>1, <3>2, Places DEF TablesOK, Configured
  <2>. HIDE DEF cmd
  <2>3. CASE Unexpected(cmd)
    BY <2>3, Places DEF Unexpected, Exit, TablesOK
  <2>4. CASE HandleAuthRequest(cmd)
    BY <2>1, <2>4, Places DEF HandleAuthRequest, Exit, TablesOK
  <2>5. CASE HandleAuthStatus(cmd)
    <3>1. if_list = <<>>
      <4>1. SUFFICES ASSUME Heard("HWINFO") PROVE FALSE
        BY <2>1 DEF HeardOK
      <4>2. Told("HWINFO")
        BY <4>1 DEF Heard, Told, BufOK, TypeOK
      <4>. QED BY <2>1, <2>5, <4>2 DEF ToldOK, HandleAuthStatus
    <3>. QED BY <2>1, <2>5, <3>1, Places DEF HandleAuthStatus, TablesOK, sr_load_rt
  <2>6. CASE HandlePacket(cmd)
    BY <2>1, <2>6, Places DEF HandlePacket, TablesOK, Configured
  <2>. QED BY <2>1, <2>2, <2>3, <2>4, <2>5, <2>6
<1>. QED BY <1>1, <1>2, <1>3

\* The controller closes the connection when it stops, or on an OPEN_TEMPLATE.
LEMMA OpenStep ==
    ASSUME TypeOK, CoreOK, BufOK, PosOK, UpOK, ToldOK, OpenOK, [Next]_vars
    PROVE  OpenOK'
<1>1. CASE Start
  <2>1. /\ pc' = "exited" \/ open' = TRUE
    BY <1>1 DEF Start
  <2>. QED BY <2>1, Places DEF OpenOK
<1>2. CASE ControllerStops
  BY <1>2 DEF ControllerStops, OpenOK
<1>3. CASE Dispatch
  <2> DEFINE cmd == sent[handled + 1]
  <2>1. /\ pc \in Running /\ open' = open /\ alive' = alive
        /\ \/ Unexpected(cmd) \/ HandleAuthRequest(cmd) \/ HandleAuthStatus(cmd)
           \/ HandleHwInfo(cmd) \/ HandlePacket(cmd)
    BY <1>3, DispatchIs
  <2>. HIDE DEF cmd
  <2>2. pc = "rtable" => pc' = "exited"
    BY <2>1 DEF Unexpected, Exit, HandleAuthRequest, HandleAuthStatus, HandleHwInfo, HandlePacket
  <2>. QED BY <2>1, <2>2, Places DEF OpenOK
<1>4. CASE RecvMsg
  <2> DEFINE c == Head(up).conn
             msg == Head(up).msg
  <2>1. /\ up # <<>> /\ up' = Tail(up) /\ conn' = conn /\ pc' = pc /\ alive' = alive /\ alive
        /\ open' = (open /\ ~(msg.type = "OPEN_TEMPLATE" /\ c = conn))
    BY <1>4 DEF RecvMsg, router
  <2>2. /\ Len(up) \in Nat \ {0} /\ DOMAIN up = 1..Len(up) /\ Head(up) = up[1]
        /\ DOMAIN up' = 1..(Len(up) - 1)
        /\ \A n \in 1..(Len(up) - 1) : up'[n] = up[n + 1]
    BY <2>1, EmptySeq, HeadTailProperties DEF TypeOK
  <2>3. ASSUME NEW n \in DOMAIN up', Live(n)'
        PROVE  n + 1 \in DOMAIN up /\ n + 1 # 1 /\ Live(n + 1)
    <3>1. n + 1 \in 1..Len(up) /\ n + 1 # 1 /\ n \in 1..(Len(up) - 1)
      BY <2>2
    <3>. QED BY <2>1, <2>2, <2>3, <3>1 DEF Live
  <2>4. ASSUME pc \in Running, ~open', NEW n \in DOMAIN up', Live(n)'
        PROVE  FALSE
    <3>1. n + 1 \in DOMAIN up /\ n + 1 # 1 /\ Live(n + 1)
      BY <2>3, <2>4
    <3>2. CASE ~open
      BY <2>1, <2>4, <3>1, <3>2 DEF OpenOK
    <3>3. CASE msg.type = "OPEN_TEMPLATE" /\ c = conn
      <4>1. 1 \in DOMAIN up /\ Live(1) /\ up[1].msg.type = "OPEN_TEMPLATE"
        BY <2>2, <3>3 DEF Live
      <4>2. pc = "rtable"
        BY <2>4, <4>1 DEF UpOK
      <4>3. up[n + 1].msg.type = "OPEN_TEMPLATE"
        BY <2>4, <3>1, <4>2 DEF UpOK
      <4>. QED BY <3>1, <4>1, <4>3 DEF UpOK
    <3>. QED BY <2>1, <2>4, <3>2, <3>3 DEF TypeOK
  <2>5. ASSUME pc \in Running, ~open' PROVE pc = "rtable"
    <3>1. CASE ~open
      BY <2>1, <2>5, <3>1 DEF OpenOK
    <3>2. CASE msg.type = "OPEN_TEMPLATE" /\ c = conn
      <4>1. 1 \in DOMAIN up /\ Live(1) /\ up[1].msg.type = "OPEN_TEMPLATE"
        BY <2>2, <3>2 DEF Live
      <4>. QED BY <2>5, <4>1 DEF UpOK
    <3>. QED BY <2>1, <2>5, <3>1, <3>2 DEF TypeOK
  <2>6. \A n \in DOMAIN up' : ~Live(n)' \/ pc \notin Running \/ open'
    BY <2>4
  <2>. QED BY <2>1, <2>5, <2>6 DEF OpenOK
<1>5. ASSUME NEW name \in Interfaces, sr_send_packet(name)
      PROVE  OpenOK'
  BY <1>5, Places DEF sr_send_packet, OpenOK
<1>6. \/ Start \/ ControllerStops \/ Dispatch \/ RecvMsg
      \/ \E name \in Interfaces : sr_send_packet(name)
      \/ UNCHANGED <<up, conn, open, alive>> /\ (pc' = pc \/ pc' \notin Running)
  BY Places DEF Next, vars, router, Recv, RecvFails, LengthRefused, NewClient,
         ConnectionUp, RouterInfoStored, RouterInfoEntry, PacketIn, GreetClient
<1>7. ASSUME UNCHANGED <<up, conn, open, alive>>, pc' = pc \/ pc' \notin Running
      PROVE  OpenOK'
  BY <1>7 DEF OpenOK, Live
<1>. QED BY <1>1, <1>2, <1>3, <1>4, <1>5, <1>6, <1>7

-----------------------------------------------------------------------------
\* Where the router ends

\* A configured list has the switch's interfaces and finds no other name.
LEMMA ConfiguredIs ==
    ASSUME NEW is \in Enumeration, NEW list, Configured(list, is)
    PROVE  /\ list # <<>> /\ Len(list) = Len(is)
           /\ ToSet(list) = {OfInterface(i) : i \in Interfaces}
           /\ \A i \in Interfaces : sr_get_interface(list, i) # 0
           /\ \A name : sr_get_interface(list, name) # 0 => name \in Interfaces
<1> DEFINE m == Len(is)
<1>1. /\ m \in Nat /\ m # 0 /\ DOMAIN is = 1..m /\ \A n \in 1..m : is[n] \in Interfaces
      /\ \A i \in Interfaces : \E n \in 1..m : is[n] = i
  BY EmptySeq DEF Enumeration
<1>2. list = [n \in 1..m |-> OfInterface(is[n])]
  BY <1>1 DEF Configured, OfInterface
<1>3. DOMAIN list = 1..m /\ Len(list) = m /\ \A n \in 1..m : list[n] = OfInterface(is[n])
  BY <1>1, <1>2
<1>. HIDE DEF m
<1>4. list # <<>>
  BY <1>1, <1>3
<1>5. ToSet(list) = {OfInterface(i) : i \in Interfaces}
  BY <1>1, <1>3 DEF ToSet
<1>6. \A n \in 1..m : list[n].name = is[n]
  BY <1>3 DEF OfInterface
<1>7. ASSUME NEW name
      PROVE  sr_get_interface(list, name) # 0 <=> name \in Interfaces
  <2> DEFINE I == {n \in 1..Len(list) : list[n].name = name}
  <2>1. sr_get_interface(list, name) = IF I # {} THEN Min(I) ELSE 0
    BY DEF sr_get_interface, SelectInSeq
  <2>2. I \in SUBSET Nat /\ 0 \notin I
    BY <1>1, <1>3
  <2>3. I # {} <=> name \in Interfaces
    BY <1>1, <1>3, <1>6
  <2>. HIDE DEF I
  <2>. QED BY <2>1, <2>2, <2>3, MinIn
<1>. QED BY <1>3, <1>4, <1>5, <1>7 DEF m

\* A frame before the hardware information is early.
LEMMA EarlyIs ==
    ASSUME TypeOK, BufOK, handled + 1 \in DOMAIN sent, sent[handled + 1].type = "PACKET",
           ~Heard("HWINFO")
    PROVE  EarlyFrame
<1> DEFINE k == handled + 1
<1>1. handled \in Nat /\ \A m \in 1..k : m = k \/ m \in 1..handled
  BY DEF BufOK
<1>2. \A m \in 1..k : sent[m].type # "HWINFO"
  BY <1>1 DEF Heard
<1>. HIDE DEF k
<1>3. k \in DOMAIN sent /\ sent[k].type = "PACKET"
  BY DEF k
<1>. QED BY <1>2, <1>3 DEF EarlyFrame

\* A command that ends a running router is early, or its files are not right.
LEMMA DispatchEnds ==
    ASSUME TypeOK, BufOK, PosOK, ToldOK, HeardOK, TablesOK, Dispatch, pc' \in Ended
    PROVE  ~WellSetUp \/ EarlyFrame
<1> DEFINE k == handled + 1
           cmd == sent[k]
<1>1. /\ k \in DOMAIN sent /\ cmd \in Downward /\ Told(cmd.type) /\ pc \in Running
      /\ \/ Unexpected(cmd) \/ HandleAuthRequest(cmd) \/ HandleAuthStatus(cmd)
         \/ HandleHwInfo(cmd) \/ HandlePacket(cmd)
  BY DispatchIs
<1>2. /\ cmd.type \in {"AUTH_REQUEST", "AUTH_STATUS", "HWINFO", "PACKET"}
      /\ cmd.type = "PACKET" => cmd.intf \in Interfaces
  BY <1>1, TypeIs DEF Commands
<1>3. ASSUME NEW type, type # "PACKET", Heard(type) PROVE cmd.type # type
  <2>1. PICK n \in 1..handled : sent[n].type = type
    BY <1>3 DEF Heard
  <2>2. n \in DOMAIN sent /\ n # k
    BY DEF BufOK, TypeOK
  <2>. QED BY <1>1, <1>3, <2>1, <2>2 DEF ToldOK
<1>4. ASSUME cmd.type = "PACKET", ~Heard("HWINFO") PROVE EarlyFrame
  BY <1>1, <1>4, EarlyIs
<1>5. Heard("HWINFO") => pc = "main" /\ if_list # <<>>
  <2>1. Heard("HWINFO") => Told("HWINFO")
    BY DEF Heard, Told, BufOK, TypeOK
  <2>. QED BY <1>1, <2>1 DEF ToldOK, HeardOK
<1>. HIDE DEF k, cmd
<1>6. "main" \notin Ended /\ "rtable" \notin Ended /\ "auth_status" \notin Ended
  BY DEF Ended
<1>7. CASE Unexpected(cmd)
  <2>1. pc \in {"auth_request", "auth_status", "rtable"}
    BY <1>7 DEF Unexpected, Negotiating
  <2>2. cmd.type # "HWINFO"
    BY <1>1, <2>1 DEF ToldOK
  <2>3. pc = "auth_request" => cmd.type # "AUTH_REQUEST" /\ cmd.type # "AUTH_STATUS"
    BY <1>1, <1>7 DEF Unexpected, ToldOK
  <2>4. pc = "auth_status" => cmd.type # "AUTH_REQUEST" /\ cmd.type # "AUTH_STATUS"
    BY <1>1, <1>3, <1>7 DEF Unexpected, HeardOK
  <2>5. pc = "rtable" => cmd.type # "AUTH_REQUEST" /\ cmd.type # "AUTH_STATUS"
    BY <1>1, <1>3 DEF HeardOK
  <2>6. cmd.type = "PACKET"
    BY <1>2, <2>1, <2>2, <2>3, <2>4, <2>5
  <2>. QED BY <1>4, <1>5, <2>1, <2>6
<1>8. CASE HandleAuthRequest(cmd)
  BY <1>6, <1>8 DEF HandleAuthRequest, WellSetUp
<1>9. CASE HandleAuthStatus(cmd)
  BY <1>6, <1>9 DEF HandleAuthStatus
<1>10. CASE HandleHwInfo(cmd)
  <2>1. SUFFICES ASSUME WellSetUp PROVE FALSE
    OBVIOUS
  <2>2. PICK is \in Enumeration : Configured(if_list', is)
    BY <1>10, HwInfoDispatch DEF cmd, k
  <2>3. pc = "main" /\ ~sr_verify_routing_table(if_list', routing_table)
    BY <1>6, <1>10 DEF HandleHwInfo
  <2>4. /\ routing_table = setup.rtable /\ setup.rtable # <<>>
        /\ ToSet(setup.rtable) \subseteq Interfaces
    BY <1>1, <2>1, <2>3 DEF TablesOK, WellSetUp
  <2>5. if_list' # <<>> /\ \A i \in Interfaces : sr_get_interface(if_list', i) # 0
    BY <2>2, ConfiguredIs
  <2>6. \A n \in DOMAIN routing_table : routing_table[n] \in Interfaces
    BY <2>4 DEF ToSet
  <2>. QED BY <2>3, <2>4, <2>5, <2>6 DEF sr_verify_routing_table
<1>11. CASE HandlePacket(cmd)
  <2>1. pc = "main" /\ cmd.type = "PACKET" /\ sr_get_interface(if_list, cmd.intf) = 0
    BY <1>6, <1>11 DEF HandlePacket
  <2>2. if_list = <<>>
    <3>1. SUFFICES ASSUME if_list # <<>> PROVE FALSE
      OBVIOUS
    <3>2. PICK is \in Enumeration : Configured(if_list, is)
      BY <2>1, <3>1 DEF TablesOK
    <3>. QED BY <1>2, <2>1, <3>2, ConfiguredIs
  <2>. QED BY <1>4, <1>5, <2>1, <2>2
<1>. QED BY <1>1, <1>7, <1>8, <1>9, <1>10, <1>11

\* Every step that ends the router has one of the reasons, and a router that has
\* ended keeps it.
LEMMA EndsStep ==
    ASSUME TypeOK, CoreOK, BufOK, PosOK, UpOK, ToldOK, HeardOK, TablesOK, OpenOK,
           EndsForAReason, [Next]_vars
    PROVE  EndsForAReason'
<1>1. CASE Start
  <2>1. /\ setup' = setup /\ alive' = alive
        /\ LET loaded == setup.template \/ Loads(setup.rtable) IN
             pc' = IF loaded /\ alive THEN "auth_request" ELSE "exited"
    BY <1>1 DEF Start
  <2>2. "auth_request" \notin Ended
    BY DEF Ended
  <2>. QED BY <2>1, <2>2 DEF EndsForAReason, WellSetUp
<1>2. CASE ~Start /\ pc \notin Running
  <2>1. sent' = sent
    <3>1. \A type : ~Tells(type)
      BY <1>2 DEF Tells
    <3>. QED BY <1>2, <3>1, TellsIs
  <2>2. setup' = setup /\ pc' = pc /\ (alive' = alive \/ ~alive')
    BY <1>2, Places DEF Next, vars, router, Recv, RecvFails, LengthRefused, Dispatch, NewClient,
         ControllerStops, ConnectionUp, RouterInfoStored, RouterInfoEntry, PacketIn,
         GreetClient, RecvMsg, sr_send_packet
  <2>. QED BY <2>1, <2>2 DEF EndsForAReason, WellSetUp, EarlyFrame, LongFrame, Size
<1>3. CASE RecvFails
  <2>1. /\ pc \in Running /\ ~open /\ \E n \in DOMAIN up : Live(n)
        /\ alive' = alive
    BY <1>3 DEF RecvFails, Live
  <2>. QED BY <2>1 DEF OpenOK, EndsForAReason
<1>4. CASE LengthRefused
  <2>1. TooLong(buf) /\ sent' = sent
    BY <1>4 DEF LengthRefused
  <2>2. handled + 1 \in DOMAIN sent /\ Size(sent[handled + 1]) > MaxLength
    BY <2>1, WantedIs DEF TooLong, BufOK, TypeOK
  <2>3. sent[handled + 1].type = "PACKET"
    BY <2>2, SizeIs DEF TypeOK
  <2>4. LongFrame'
    BY <2>1, <2>2, <2>3 DEF LongFrame, Size
  <2>. QED BY <2>4 DEF EndsForAReason
<1>5. CASE Dispatch
  <2>1. setup' = setup /\ sent' = sent
    BY <1>5, DispatchIs
  <2>2. pc' \in Ended => ~WellSetUp \/ EarlyFrame
    BY <1>5, DispatchEnds
  <2>. QED BY <2>1, <2>2 DEF EndsForAReason, WellSetUp, EarlyFrame, LongFrame, Size
<1>6. ASSUME NEW name \in Interfaces, sr_send_packet(name)
      PROVE  EndsForAReason'
  <2>1. pc = "main" /\ alive' = alive /\ (pc' = pc \/ ~open)
    BY <1>6 DEF sr_send_packet
  <2>2. "main" \notin Ended
    BY DEF Ended
  <2>. QED BY <2>1, <2>2, Places DEF OpenOK, EndsForAReason
<1>7. CASE pc \in Running /\ pc' = pc
  <2>1. pc \notin Ended
    BY <1>7 DEF Running, Negotiating, Ended
  <2>. QED BY <1>7, <2>1 DEF EndsForAReason
<1>8. \/ Start \/ RecvFails \/ LengthRefused \/ Dispatch
      \/ pc' = pc \/ \E name \in Interfaces : sr_send_packet(name)
  BY DEF Next, vars, router, Recv, NewClient, ControllerStops,
         ConnectionUp, RouterInfoStored, RouterInfoEntry, PacketIn, GreetClient, RecvMsg
<1>. QED BY <1>1, <1>2, <1>3, <1>4, <1>5, <1>6, <1>7, <1>8

-----------------------------------------------------------------------------
\* The theorems

\* The inductive invariant.
Inv ==
    /\ TypeOK /\ CoreOK /\ BufOK /\ PosOK
    /\ UpOK /\ ToldOK /\ HeardOK /\ TablesOK /\ OpenOK /\ EndsForAReason

\* It holds before anybody has done anything.
LEMMA InvInit == Init => Inv
<1>. SUFFICES ASSUME Init PROVE Inv
  OBVIOUS
<1>1. /\ setup \in Setups /\ pc = "off" /\ conn = 0 /\ if_list = <<>> /\ handled = 0
      /\ up = <<>> /\ sent = <<>> /\ alive = TRUE /\ open = FALSE
      /\ informing = {} /\ collected = <<>> /\ interfaces = Unset
      /\ port_to_intfname = [p \in {Port[i] : i \in Interfaces} \cup {OtherPort} |-> Unset]
      /\ accepting = {} /\ greeting = 0
  BY DEF Init
<1>2. "off" \notin Running /\ "off" \notin Ended /\ "off" # "main"
  BY Places DEF Ended
<1>3. /\ DOMAIN up = {} /\ DOMAIN sent = {} /\ DOMAIN collected = {}
      /\ up \in Seq([conn : Nat, msg : Upward]) /\ sent \in Seq(Downward)
      /\ collected \in Seq(Interfaces)
  BY <1>1
<1>4. TypeOK
  <2>1. conn \in Nat /\ greeting \in 0..conn /\ accepting \in SUBSET (1..conn)
    BY <1>1
  <2>2. alive \in BOOLEAN /\ open \in BOOLEAN
    BY <1>1
  <2>. QED BY <1>1, <1>3, <2>1, <2>2 DEF TypeOK
<1>5. CoreOK
  BY <1>1, <1>3 DEF CoreOK
<1>6. BufOK /\ PosOK
  BY InitFraming
<1>7. UpOK /\ HeardOK /\ TablesOK /\ OpenOK /\ EndsForAReason
  BY <1>1, <1>2, <1>3 DEF UpOK, HeardOK, TablesOK, OpenOK, EndsForAReason
<1>8. ToldOK
  BY <1>1, <1>2, <1>3 DEF ToldOK, Told
<1>. QED BY <1>4, <1>5, <1>6, <1>7, <1>8 DEF Inv

\* Every step keeps it.
LEMMA InvStep == Inv /\ [Next]_vars => Inv'
  BY TypeStep, CoreStep, FramingStep, UpStep, ToldStep, HeardStep, TablesStep, OpenStep,
     EndsStep DEF Inv

\* The two together.
LEMMA Invariance == Spec => []Inv
  BY InvInit, InvStep, PTL DEF Spec

\* However recv cuts the stream and whoever wrote to it, what the router is
\* reading is the next command that was sent, from its first unit on
\* (sr_read_from_server_expect, conn.send).
THEOREM ReadsWholeCommands == Spec => []WholeCommands
<1>1. Inv => WholeCommands
  <2>. SUFFICES ASSUME Inv PROVE WholeCommands
    OBVIOUS
  <2> DEFINE w == [u \in 1..Len(buf) |-> <<handled + 1, u>>]
  <2>1. /\ handled + 1 \in Nat /\ Len(buf) \in Nat /\ buf \in Seq(Units)
        /\ \A u \in 1..Len(buf) : buf[u] = <<handled + 1, u>>
    BY DEF Inv, BufOK
  <2>2. w \in Seq(Units) /\ Len(w) = Len(buf) /\ \A u \in 1..Len(buf) : w[u] = <<handled + 1, u>>
    BY <2>1, UnitsAre
  <2>. HIDE DEF w
  <2>3. buf = w
    BY <2>1, <2>2, SeqEqual
  <2>. QED BY <2>3 DEF WholeCommands, w
<1>. QED BY <1>1, Invariance, PTL

\* A router that is ready has all the switch's interfaces, each once and with its
\* own addresses, and routes through no others (sr_handle_hwinfo,
\* sr_verify_routing_table, _handle_RouterInfo).
THEOREM ConfiguredWhenReady == Spec => []ReadyIsConfigured
<1>1. Inv => ReadyIsConfigured
  <2>. SUFFICES ASSUME Inv, Ready PROVE
                 /\ ToSet(if_list) = {[name |-> i, ip |-> Ip[i], addr |-> Mac[i]] : i \in Interfaces}
                 /\ Len(if_list) = Cardinality(Interfaces)
                 /\ ToSet(routing_table) \subseteq Interfaces /\ routing_table # <<>>
    BY DEF ReadyIsConfigured
  <2>1. /\ \E is \in Enumeration : Configured(if_list, is)
        /\ sr_verify_routing_table(if_list, routing_table)
    BY DEF Inv, TablesOK, Ready
  <2>2. PICK is \in Enumeration : Configured(if_list, is)
    BY <2>1
  <2>3. /\ Len(if_list) = Len(is) /\ ToSet(if_list) = {OfInterface(i) : i \in Interfaces}
        /\ \A name : sr_get_interface(if_list, name) # 0 => name \in Interfaces
    BY <2>2, ConfiguredIs
  <2>4. ToSet(routing_table) \subseteq Interfaces /\ routing_table # <<>>
    BY <2>1, <2>3 DEF sr_verify_routing_table, ToSet
  <2>5. Cardinality(Interfaces) = Len(is)
    <3>1. Len(is) \in Nat /\ is \in [1..Len(is) -> Interfaces]
      BY DEF Enumeration
    <3>2. is \in Bijection(1..Len(is), Interfaces)
      BY <3>1 DEF Enumeration, Bijection, Injection, Surjection, IsInjective
    <3>3. ExistsBijection(1..Len(is), Interfaces)
      BY <3>2 DEF ExistsBijection
    <3>. QED BY <3>1, <3>3, FS_CountingElements
  <2>. QED BY <2>3, <2>4, <2>5 DEF OfInterface
<1>. QED BY <1>1, Invariance, PTL

\* A router ends for its files, a controller that stopped, a frame before the
\* hardware information or one too long for it, and for nothing else
\* (sr_read_from_server_expect, sr_handle_auth_request, sr_verify_routing_table,
\* assert(iface)).
THEOREM EndedForAReason == Spec => []EndsForAReason
<1>1. Inv => EndsForAReason
  BY DEF Inv
<1>. QED BY <1>1, Invariance, PTL
=============================================================================
