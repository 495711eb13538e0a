---------------------------- MODULE Tunnel_proofs -----------------------------
(***************************************************************************)
(* Proofs about module Tunnel, for streams, receives, sockets and timeouts  *)
(* of every size: nothing is lost, doubled or reordered while the tunnel is *)
(* up, and a side's last words arrive.                                      *)
(***************************************************************************)
EXTENDS Tunnel, TLAPS

\* A select that reported a side still has something to say about it when its turn
\* comes, and a send has something to send.
Turn ==
    /\ pc \in {"send_server", "send_browser"} => buff # <<>>
    /\ pc = "recv_server" => Readable("server")
    /\ pc = "recv_browser" => Readable("browser")
    /\ (pc \in {"recv_server", "send_browser"} /\ "browser" \in ready) =>
          Readable("browser")

\* Before the connection is made only the browser may have spoken.
Begun ==
    pc = "connect" =>
       /\ conn["server"] = "open" /\ said["server"] = 0
       /\ \A s \in Sides : heard[s] = <<>> /\ outbox[s] = <<>> /\ inbox[s] = Stream(s)

\* The end of a side is the end of the tunnel, and nothing follows it.
Ends ==
    /\ ended # {} => pc \in {"break", "closed"}
    /\ \A s \in ended : conn[s] # "open"
    /\ LastWordsArrive

IInv == TypeOK /\ Turn /\ Begun /\ RelaysInOrder /\ Ends

-----------------------------------------------------------------------------
(* Sequences.                                                               *)

\* Reading moves the first unit of the socket.
LEMMA HeadMoves ==
    ASSUME NEW S, NEW a \in Seq(S), NEW b \in Seq(S), b # <<>>
    PROVE  /\ Head(b) \in S /\ Tail(b) \in Seq(S)
           /\ Append(a, Head(b)) \in Seq(S)
           /\ Append(a, Head(b)) \o Tail(b) = a \o b
  OBVIOUS

\* A recv divides what it finds.
LEMMA Divides ==
    ASSUME NEW S, NEW a \in Seq(S), NEW n \in 1..Len(a)
    PROVE  /\ SubSeq(a, 1, n) \in Seq(S) /\ SubSeq(a, n + 1, Len(a)) \in Seq(S)
           /\ SubSeq(a, 1, n) # <<>>
           /\ SubSeq(a, 1, n) \o SubSeq(a, n + 1, Len(a)) = a
  OBVIOUS

LEMMA ConcatAssoc ==
    ASSUME NEW S, NEW a \in Seq(S), NEW b \in Seq(S), NEW c \in Seq(S)
    PROVE  (a \o b) \o c = a \o (b \o c)
  OBVIOUS

LEMMA ConcatAppend ==
    ASSUME NEW S, NEW a \in Seq(S), NEW b \in Seq(S), NEW x \in S
    PROVE  a \o Append(b, x) = Append(a \o b, x)
  OBVIOUS

LEMMA ConcatEmpty ==
    ASSUME NEW S, NEW a \in Seq(S)
    PROVE  a \o <<>> = a /\ <<>> \o a = a
  OBVIOUS

LEMMA ConcatTwoEmpty ==
    ASSUME NEW S, NEW a \in Seq(S), NEW b \in Seq(S)
    PROVE  <<>> \o a \o <<>> \o b = a \o b
  BY ConcatEmpty

\* What recv divides and what send moves stays in its place in the stream.
LEMMA RecvConcat ==
    ASSUME NEW S, NEW a \in Seq(S), NEW b \in Seq(S), NEW n \in 1..Len(b)
    PROVE  a \o SubSeq(b, 1, n) \o SubSeq(b, n + 1, Len(b)) = a \o <<>> \o b
  <1>1. PICK d \in Seq(S), e \in Seq(S) :
           d = SubSeq(b, 1, n) /\ e = SubSeq(b, n + 1, Len(b))
    BY Divides
  <1>2. SubSeq(b, 1, n) \o SubSeq(b, n + 1, Len(b)) = b
    BY Divides
  <1>3. (a \o d) \o e = a \o (d \o e)
    OBVIOUS
  <1>4. a \o <<>> = a
    BY ConcatEmpty
  <1>5. QED
    BY <1>1, <1>2, <1>3, <1>4

LEMMA SendConcat ==
    ASSUME NEW a \in Seq(Unit), NEW b \in Seq(Unit), NEW c \in Seq(Unit), c # <<>>
    PROVE  (a \o Append(b, Head(c))) \o Tail(c) = (a \o b) \o c
  <1> DEFINE d == a \o b
             x == Head(c)
  <1>1. d \in Seq(Unit)
    OBVIOUS
  <1>2. x \in Unit
    BY HeadMoves
  <1>3. a \o Append(b, x) = Append(d, x)
    BY <1>2, ConcatAppend
  <1> HIDE DEF d
  <1>4. Append(d, x) \o Tail(c) = d \o c
    BY <1>1, HeadMoves
  <1>5. QED
    BY <1>3, <1>4 DEF d

\* What is said grows at its end, and a prefix stays one.
LEMMA PrefixGrows ==
    ASSUME NEW S, NEW a \in Seq(S), NEW b \in Seq(S), NEW x \in S, IsPrefix(a, b)
    PROVE  IsPrefix(a, Append(b, x))
  BY DEF IsPrefix

LEMMA PrefixOfConcat ==
    ASSUME NEW S, NEW a \in Seq(S), NEW b \in Seq(S)
    PROVE  IsPrefix(a, a \o b)
  BY DEF IsPrefix

LEMMA SidesFacts ==
    /\ Sides = {"server", "browser"}
    /\ \A s \in Sides : Other(s) \in Sides /\ Other(s) # s /\ Other(Other(s)) = s
    /\ SendLine["server"] = "send_server" /\ SendLine["browser"] = "send_browser"
    /\ RecvLine["server"] = "recv_server" /\ RecvLine["browser"] = "recv_browser"
  BY DEF Sides, Other, SendLine, RecvLine

LEMMA StreamGrows ==
    ASSUME NEW s, NEW n \in Nat
    PROVE  [i \in 1..(n + 1) |-> <<s, i>>] = Append([i \in 1..n |-> <<s, i>>], <<s, n + 1>>)
  OBVIOUS

LEMMA SaidUnit ==
    ASSUME TypeOK, NEW s \in Sides, Say(s)
    PROVE  /\ said[s] \in Nat /\ said[s] + 1 \in 1..MaxSaid
           /\ <<s, said[s] + 1>> \in Unit
           /\ Append(inbox[s], <<s, said[s] + 1>>) \in Seq(Unit)
           /\ Append(inbox[s], <<s, said[s] + 1>>) # <<>>
  <1>1. said[s] \in Nat /\ said[s] + 1 \in 1..MaxSaid
    BY TunnelAssumption DEF TypeOK, Say
  <1>2. <<s, said[s] + 1>> \in Unit
    BY <1>1 DEF Unit
  <1>3. inbox[s] \in Seq(Unit)
    BY DEF TypeOK
  <1>4. QED
    BY <1>1, <1>2, <1>3

LEMMA InitIInv == Init => IInv
  <1> SUFFICES ASSUME Init PROVE IInv
    OBVIOUS
  <1> USE TunnelAssumption
  <1>1. TypeOK
    BY DEF Init, TypeOK, Conn, Sides
  <1>2. Turn /\ Ends
    BY DEF Init, Turn, Ends, LastWordsArrive
  <1>3. Begun
    BY DEF Init, Begun, Stream, Sides
  <1>4. RelaysInOrder
    BY DEF Init, RelaysInOrder, IsPrefix, Looping, MeantFor, Stream, Sides, Other
  <1>5. QED
    BY <1>1, <1>2, <1>3, <1>4 DEF IInv

-----------------------------------------------------------------------------
(* Types.                                                                   *)

LEMMA StepType ==
    ASSUME TypeOK, Turn, [Next]_vars
    PROVE  TypeOK'
  <1> USE TunnelAssumption DEF TypeOK, peers
  <1>s. Sides = {"server", "browser"} /\ \A s \in Sides : Other(s) \in Sides
    BY SidesFacts
  <1>1. ASSUME NEW s \in Sides, Say(s)
        PROVE  TypeOK'
    <2>1. said[s] + 1 \in 1..MaxSaid /\ Append(inbox[s], <<s, said[s] + 1>>) \in Seq(Unit)
      BY <1>1, SaidUnit
    <2>2. QED
      BY <1>1, <2>1 DEF Say
  <1>2. ASSUME NEW s \in Sides, Read(s)
        PROVE  TypeOK'
    <2>1. Append(heard[s], Head(outbox[s])) \in Seq(Unit) /\ Tail(outbox[s]) \in Seq(Unit)
      BY <1>2, HeadMoves DEF Read
    <2>2. QED
      BY <1>2, <2>1 DEF Read
  <1>3. ASSUME NEW s \in Sides, Finish(s) \/ Leave(s)
        PROVE  TypeOK'
    BY <1>3 DEF Finish, Leave, Conn
  <1>4. CASE ConnectFails \/ Select \/ Timeout \/ SelectFails \/ Close
    BY <1>4, <1>s DEF ConnectFails, Select, Timeout, SelectFails, Close, Goto
  <1>5. CASE Connect
    <2>1. Append(outbox["browser"], <<"ack">>) \in Seq(Unit)
      BY <1>s DEF Unit
    <2>2. CASE conn["browser"] \in {"open", "finished"}
      <3>1. /\ outbox' = [outbox EXCEPT !["browser"] = Append(@, <<"ack">>)]
            /\ Goto("select") /\ UNCHANGED conn
        BY <1>5, <2>2 DEF Connect
      <3>2. QED
        BY <1>5, <2>1, <3>1 DEF Connect, Goto
    <2>3. CASE conn["browser"] = "left"
      <3>1. /\ \E c \in {"left", "broken"} : conn' = [conn EXCEPT !["browser"] = c]
            /\ Goto("select") /\ UNCHANGED outbox
        BY <1>5, <2>3 DEF Connect
      <3>2. QED
        BY <1>5, <3>1 DEF Connect, Goto, Conn
    <2>4. CASE conn["browser"] \in {"reset", "broken"}
      <3>1. Goto("died") /\ UNCHANGED <<conn, outbox>>
        BY <1>5, <2>4 DEF Connect
      <3>2. QED
        BY <1>5, <3>1 DEF Connect, Goto
    <2>5. QED
      BY <1>s, <2>2, <2>3, <2>4 DEF Conn
  <1>6. CASE Wait
    <2>1. tv - 1 \in -1..MaxWait
      BY <1>6 DEF Wait
    <2>2. QED
      BY <1>6, <2>1 DEF Wait
  <1>7. ASSUME NEW s \in Sides, Recv(s)
        PROVE  TypeOK'
    <2>1. SendLine[Other(s)] \in {"send_server", "send_browser"}
      BY <1>s, SidesFacts
    <2>2. CASE inbox[s] = <<>>
      BY <1>7, <2>2 DEF Recv, Goto
    <2>3. CASE inbox[s] # <<>>
      <3>1. PICK n \in 1..Len(inbox[s]) :
               /\ buff' = SubSeq(inbox[s], 1, n)
               /\ inbox' = [inbox EXCEPT ![s] = SubSeq(@, n + 1, Len(@))]
               /\ Goto(SendLine[Other(s)])
               /\ UNCHANGED ended
        BY <1>7, <2>3 DEF Recv
      <3>2. buff' \in Seq(Unit) /\ SubSeq(inbox[s], n + 1, Len(inbox[s])) \in Seq(Unit)
        BY <3>1, Divides
      <3>3. QED
        BY <1>7, <2>1, <3>1, <3>2 DEF Recv, Goto
    <2>4. QED
      BY <2>2, <2>3
  <1>8. ASSUME NEW s \in Sides, Send(s)
        PROVE  TypeOK'
    <2>1. buff # <<>>
      BY <1>8, <1>s, SidesFacts DEF Send, Turn
    <2>2. Append(outbox[s], Head(buff)) \in Seq(Unit) /\ Tail(buff) \in Seq(Unit)
      BY <2>1, HeadMoves
    <2>3. QED
      BY <1>8, <2>2 DEF Send, AfterSend, Goto
  <1>9. ASSUME NEW s \in Sides, SendInVain(s) \/ SendFails(s)
        PROVE  TypeOK'
    <2>1. CASE SendInVain(s)
      BY <2>1 DEF SendInVain, AfterSend, Goto, Conn
    <2>2. CASE SendFails(s)
      BY <2>2 DEF SendFails, Goto
    <2>3. QED
      BY <1>9, <2>1, <2>2
  <1>10. CASE UNCHANGED vars
    BY <1>10 DEF vars
  <1>11. QED
    BY <1>1, <1>2, <1>3, <1>4, <1>5, <1>6, <1>7, <1>8, <1>9, <1>10 DEF Next, Thread, Peer

-----------------------------------------------------------------------------
(* Control and time.                                                        *)

\* A peer's step takes nothing away from what the thread may receive.
LEMMA PeerTurn ==
    ASSUME TypeOK, Turn, NEW s \in Sides, Peer(s)
    PROVE  Turn'
  <1>1. UNCHANGED <<pc, ready, buff>>
    BY DEF Peer, Say, Read, Finish, Leave
  <1>2. \A u \in Sides : Readable(u) => Readable(u)'
    <2>1. CASE Say(s)
      <3>1. Append(inbox[s], <<s, said[s] + 1>>) # <<>>
        BY <2>1, SaidUnit
      <3>2. QED
        BY <2>1, <3>1 DEF Say, Readable, TypeOK
    <2>2. CASE Read(s)
      BY <2>2 DEF Read, Readable
    <2>3. CASE Finish(s) \/ Leave(s)
      BY <2>3 DEF Finish, Leave, Readable, TypeOK
    <2>4. QED
      BY <2>1, <2>2, <2>3 DEF Peer
  <1>3. QED
    BY <1>1, <1>2, SidesFacts DEF Turn

LEMMA StepTurn ==
    ASSUME TypeOK, Turn, [Next]_vars
    PROVE  Turn'
  <1>s. Sides = {"server", "browser"}
    BY SidesFacts
  <1>1. CASE ConnectFails \/ Connect \/ Timeout \/ SelectFails \/ Close \/ Wait
    <2>1. pc' \in {"died", "refused", "select", "break", "closed"}
      <3>1. CASE Connect
        BY <3>1 DEF Connect, Goto
      <3>2. CASE ConnectFails \/ Timeout \/ SelectFails \/ Close \/ Wait
        BY <3>2 DEF ConnectFails, Timeout, SelectFails, Close, Wait, Goto
      <3>3. QED
        BY <1>1, <3>1, <3>2
    <2>2. QED
      BY <2>1 DEF Turn
  <1>2. CASE Select
    BY <1>2, <1>s DEF Select, Goto, Turn, Readable, peers
  <1>3. ASSUME NEW s \in Sides, Recv(s)
        PROVE  Turn'
    <2>1. CASE inbox[s] = <<>>
      BY <1>3, <2>1 DEF Recv, Goto, Turn
    <2>2. CASE inbox[s] # <<>>
      <3>1. PICK n \in 1..Len(inbox[s]) :
               /\ buff' = SubSeq(inbox[s], 1, n)
               /\ inbox' = [inbox EXCEPT ![s] = SubSeq(@, n + 1, Len(@))]
               /\ Goto(SendLine[Other(s)])
               /\ UNCHANGED <<conn, ready>>
        BY <1>3, <2>2 DEF Recv
      <3>2. buff' # <<>>
        BY <3>1, Divides DEF TypeOK
      <3>3. CASE s = "server"
        <4>1. Readable("browser")' = Readable("browser")
          BY <1>s, <3>1, <3>3 DEF Readable, TypeOK
        <4>2. pc = "recv_server" /\ pc' = "send_browser"
          BY <1>3, <3>1, <3>3, SidesFacts DEF Recv, Goto, Other
        <4>3. QED
          BY <3>1, <3>2, <4>1, <4>2 DEF Turn
      <3>4. CASE s = "browser"
        <4>1. pc' = "send_server"
          BY <3>1, <3>4, SidesFacts DEF Goto, Other
        <4>2. QED
          BY <3>2, <4>1 DEF Turn
      <3>5. QED
        BY <1>s, <3>3, <3>4
    <2>3. QED
      BY <2>1, <2>2
  <1>4. ASSUME NEW s \in Sides, Send(s) \/ SendInVain(s) \/ SendFails(s)
        PROVE  Turn'
    <2>1. pc = SendLine[s] /\ inbox' = inbox /\ ready' = ready
      BY <1>4 DEF Send, SendInVain, SendFails, peers
    <2>2. \A u \in Sides : Readable(u) => Readable(u)'
      BY <1>4 DEF Send, SendInVain, SendFails, peers, Readable, TypeOK
    <2>3. \/ pc' = pc /\ buff' # <<>>
          \/ pc' = IF s = "browser" /\ "browser" \in ready THEN "recv_browser" ELSE "select"
          \/ pc' \in {"break", "died"}
      BY <1>4 DEF Send, SendInVain, SendFails, AfterSend, Goto
    <2>4. QED
      BY <1>s, <2>1, <2>2, <2>3, SidesFacts DEF Turn
  <1>5. CASE UNCHANGED vars
    BY <1>5 DEF vars, peers, Turn, Readable
  <1>6. QED
    BY <1>1, <1>2, <1>3, <1>4, <1>5, PeerTurn DEF Next, Thread

LEMMA StepBegun ==
    ASSUME TypeOK, Begun, [Next]_vars
    PROVE  Begun'
  <1>s. Sides = {"server", "browser"}
    BY SidesFacts
  <1>1. pc # "connect" => pc' # "connect"
    BY <1>s, SidesFacts DEF Next, Thread, ConnectFails, Connect, Select, Wait, Timeout, SelectFails,
       Close, Recv, Send, SendInVain, SendFails, AfterSend, Peer, Say, Read, Finish, Leave, Goto, vars
  <1>2. CASE Thread
    BY <1>2, <1>s, SidesFacts DEF Thread, ConnectFails, Connect, Select, Wait, Timeout, SelectFails,
       Close, Recv, Send, SendInVain, SendFails, AfterSend, Goto, Begun
  <1>3. ASSUME pc = "connect", NEW s \in Sides, Peer(s)
        PROVE  Begun'
    <2>1. /\ conn["server"] = "open" /\ said["server"] = 0
          /\ \A u \in Sides : heard[u] = <<>> /\ outbox[u] = <<>> /\ inbox[u] = Stream(u)
      BY <1>3 DEF Begun
    <2>2. CASE Say(s)
      <3>1. s = "browser"
        BY <1>3, <1>s, <2>2 DEF Say
      <3>2. [i \in 1..(said[s] + 1) |-> <<s, i>>] = Append(inbox[s], <<s, said[s] + 1>>)
        <4>1. said[s] \in Nat /\ inbox[s] = [i \in 1..said[s] |-> <<s, i>>]
          BY <2>1, <2>2, SaidUnit DEF Stream
        <4>2. QED
          BY <4>1, StreamGrows
      <3>3. inbox'[s] = Stream(s)'
        BY <2>2, <3>2 DEF Say, Stream, TypeOK
      <3>4. inbox'["server"] = Stream("server")'
        BY <1>s, <2>1, <2>2, <3>1 DEF Say, Stream, TypeOK
      <3>5. QED
        BY <1>s, <2>1, <2>2, <3>1, <3>3, <3>4 DEF Say, Begun, TypeOK
    <2>3. CASE Read(s)
      BY <2>1, <2>3 DEF Read
    <2>4. CASE Finish(s) \/ Leave(s)
      <3>1. /\ UNCHANGED <<said, inbox, heard, outbox>>
            /\ s = "browser"
        BY <1>3, <1>s, <2>4 DEF Finish, Leave
      <3>2. conn'["server"] = conn["server"]
        BY <1>s, <2>4, <3>1 DEF Finish, Leave, TypeOK
      <3>3. QED
        BY <2>1, <3>1, <3>2 DEF Begun, Stream
    <2>5. QED
      BY <1>3, <2>2, <2>3, <2>4 DEF Peer
  <1>4. CASE UNCHANGED vars
    BY <1>4 DEF vars, peers, Begun, Stream
  <1>5. QED
    BY <1>1, <1>2, <1>3, <1>4 DEF Next, Begun

-----------------------------------------------------------------------------
(* The streams.                                                             *)

Whole(s) == heard[s] \o outbox[s] \o InHand(s) \o inbox[Other(s)] = MeantFor(s)

Up(s) == Looping /\ conn[s] \in {"open", "finished"}

\* RelaysInOrder for one side.
Relays(s) ==
    /\ IsPrefix(heard[s] \o outbox[s], MeantFor(s))
    /\ Up(s) => Whole(s)

LEMMA RelaysEquiv == RelaysInOrder <=> \A s \in Sides : Relays(s)
  BY DEF RelaysInOrder, Relays, Up, Whole

LEMMA StreamTypes ==
    ASSUME TypeOK, NEW s \in Sides
    PROVE  /\ heard[s] \in Seq(Unit) /\ outbox[s] \in Seq(Unit)
           /\ InHand(s) \in Seq(Unit) /\ inbox[s] \in Seq(Unit)
           /\ Stream(s) \in Seq(Unit) /\ MeantFor(s) \in Seq(Unit)
  <1>1. \A u \in Sides : Stream(u) \in Seq(Unit)
    <2> TAKE u \in Sides
    <2>1. said[u] \in Nat /\ said[u] <= MaxSaid
      BY TunnelAssumption DEF TypeOK
    <2>2. \A i \in 1..said[u] : <<u, i>> \in Unit
      BY <2>1, TunnelAssumption DEF Unit
    <2>3. QED
      BY <2>1, <2>2 DEF Stream
  <1>2. <<<<"ack">>>> \in Seq(Unit) /\ <<>> \in Seq(Unit)
    BY DEF Unit
  <1>3. MeantFor(s) \in Seq(Unit)
    BY <1>1, <1>2, SidesFacts DEF MeantFor
  <1>4. QED
    BY <1>1, <1>2, <1>3 DEF TypeOK, InHand

LEMMA PrefixOfThree ==
    ASSUME NEW S, NEW a \in Seq(S), NEW b \in Seq(S), NEW c \in Seq(S)
    PROVE  IsPrefix(a, a \o b \o c)
  <1>1. (a \o b) \o c = a \o (b \o c)
    BY ConcatAssoc
  <1>2. b \o c \in Seq(S)
    OBVIOUS
  <1>3. IsPrefix(a, a \o (b \o c))
    BY <1>2, PrefixOfConcat
  <1>4. QED
    BY <1>1, <1>3

\* What is on its way is a continuation of what has been delivered.
LEMMA WholePrefix ==
    ASSUME TypeOK, NEW s \in Sides, Whole(s)
    PROVE  IsPrefix(heard[s] \o outbox[s], MeantFor(s))
  <1>1. /\ heard[s] \o outbox[s] \in Seq(Unit)
        /\ InHand(s) \in Seq(Unit) /\ inbox[Other(s)] \in Seq(Unit)
    BY StreamTypes, SidesFacts
  <1>2. QED
    BY <1>1, PrefixOfThree DEF Whole

\* The same for the next state.
LEMMA WholePrefixNext ==
    ASSUME TypeOK', NEW s \in Sides, Whole(s)'
    PROVE  IsPrefix(heard[s] \o outbox[s], MeantFor(s))'
  <1>1. /\ heard'[s] \o outbox'[s] \in Seq(Unit)
        /\ InHand(s)' \in Seq(Unit) /\ inbox'[Other(s)] \in Seq(Unit)
    BY SidesFacts DEF TypeOK, InHand
  <1>2. QED
    BY <1>1, PrefixOfThree DEF Whole

\* A side of which nothing changes.
LEMMA RelaysUntouched ==
    ASSUME NEW s \in Sides, Relays(s),
           UNCHANGED <<heard[s], outbox[s], said[Other(s)]>>,
           Up(s)' => Up(s) /\ UNCHANGED <<inbox[Other(s)], InHand(s)>>
    PROVE  Relays(s)'
  <1>1. MeantFor(s)' = MeantFor(s)
    BY DEF MeantFor, Stream
  <1>2. QED
    BY <1>1 DEF Relays, Whole

LEMMA SayRelays ==
    ASSUME TypeOK, TypeOK', NEW u \in Sides, Say(u), NEW s \in Sides, Relays(s)
    PROVE  Relays(s)'
  <1>1. /\ UNCHANGED <<heard[s], outbox[s], InHand(s)>>
        /\ Up(s)' => Up(s)
        /\ said' = [said EXCEPT ![u] = @ + 1]
        /\ inbox' = [inbox EXCEPT ![u] = Append(@, <<u, said[u] + 1>>)]
    BY DEF Say, Up, Looping, Over, InHand
  <1>2. CASE s = u
    BY <1>1, <1>2, SidesFacts, RelaysUntouched DEF TypeOK
  <1>3. CASE s # u
    <2> DEFINE x == <<u, said[u] + 1>>
    <2>1. Other(s) = u
      BY <1>3 DEF Sides, Other
    <2>2. said[u] \in Nat /\ x \in Unit
      BY SaidUnit
    <2>3. Stream(u)' = Append(Stream(u), x)
      <3>1. [i \in 1..(said[u] + 1) |-> <<u, i>>] = Append([i \in 1..said[u] |-> <<u, i>>], x)
        BY <2>2, StreamGrows
      <3>2. said'[u] = said[u] + 1
        BY <1>1 DEF TypeOK
      <3>3. QED
        BY <3>1, <3>2 DEF Stream
    <2>4. inbox'[u] = Append(inbox[u], x)
      BY <1>1 DEF TypeOK
    <2> HIDE DEF x
    <2>5. MeantFor(s)' = Append(MeantFor(s), x)
      <3> DEFINE g == IF s = "browser" THEN <<<<"ack">>>> ELSE <<>>
      <3>1. g \in Seq(Unit) /\ Stream(u) \in Seq(Unit)
        <4>1. <<<<"ack">>>> \in Seq(Unit) /\ <<>> \in Seq(Unit)
          BY DEF Unit
        <4>2. QED
          BY <4>1, StreamTypes
      <3>2. MeantFor(s) = g \o Stream(u) /\ MeantFor(s)' = g \o Stream(u)'
        BY <2>1 DEF MeantFor
      <3> HIDE DEF g
      <3>3. QED
        BY <2>2, <2>3, <3>1, <3>2, ConcatAppend
    <2>6. IsPrefix(heard[s] \o outbox[s], MeantFor(s))'
      <3>1. heard[s] \o outbox[s] \in Seq(Unit) /\ MeantFor(s) \in Seq(Unit)
        BY StreamTypes
      <3>2. QED
        BY <1>1, <2>2, <2>5, <3>1, PrefixGrows DEF Relays
    <2>7. Up(s)' => Whole(s)'
      <3> HAVE Up(s)'
      <3> DEFINE a == heard[s] \o outbox[s] \o InHand(s)
      <3>1. a \in Seq(Unit) /\ inbox[u] \in Seq(Unit)
        BY StreamTypes
      <3>2. a \o inbox[u] = MeantFor(s)
        BY <1>1, <2>1 DEF Relays, Whole
      <3>3. a' = a
        BY <1>1
      <3>4. Whole(s)' <=> a \o inbox'[u] = MeantFor(s)'
        BY <2>1, <3>3 DEF Whole
      <3> HIDE DEF a
      <3>5. a \o Append(inbox[u], x) = Append(a \o inbox[u], x)
        BY <2>2, <3>1, ConcatAppend
      <3>6. QED
        BY <2>4, <2>5, <3>2, <3>4, <3>5
    <2>8. QED
      BY <2>6, <2>7 DEF Relays
  <1>4. QED
    BY <1>2, <1>3

LEMMA ReadKeeps ==
    ASSUME TypeOK, NEW u \in Sides, Read(u), NEW s \in Sides
    PROVE  heard'[s] \o outbox'[s] = heard[s] \o outbox[s]
  <1>1. /\ outbox[u] # <<>>
        /\ heard' = [heard EXCEPT ![u] = Append(@, Head(outbox[u]))]
        /\ outbox' = [outbox EXCEPT ![u] = Tail(@)]
    BY DEF Read
  <1>2. CASE s = u
    <2>1. heard'[s] = Append(heard[s], Head(outbox[s])) /\ outbox'[s] = Tail(outbox[s])
      BY <1>1, <1>2 DEF TypeOK
    <2>2. heard[s] \in Seq(Unit) /\ outbox[s] \in Seq(Unit) /\ outbox[s] # <<>>
      BY <1>1, <1>2, StreamTypes
    <2>3. Append(heard[s], Head(outbox[s])) \o Tail(outbox[s]) = heard[s] \o outbox[s]
      BY <2>2, HeadMoves
    <2>4. QED
      BY <2>1, <2>3
  <1>3. CASE s # u
    BY <1>1, <1>3 DEF TypeOK
  <1>4. QED
    BY <1>2, <1>3

LEMMA ReadRelays ==
    ASSUME TypeOK, NEW u \in Sides, Read(u), NEW s \in Sides, Relays(s)
    PROVE  Relays(s)'
  <1>1. /\ UNCHANGED <<said, inbox, InHand(s), MeantFor(s)>>
        /\ Up(s)' => Up(s)
    BY DEF Read, Up, Looping, Over, InHand, MeantFor, Stream
  <1>2. heard'[s] \o outbox'[s] = heard[s] \o outbox[s]
    BY ReadKeeps
  <1>3. QED
    BY <1>1, <1>2 DEF Relays, Whole

LEMMA ConnectRelays ==
    ASSUME TypeOK, TypeOK', Begun, Connect, NEW s \in Sides, Relays(s)
    PROVE  Relays(s)'
  <1>1. /\ said["server"] = 0 /\ conn["server"] = "open"
        /\ \A u \in Sides : heard[u] = <<>> /\ outbox[u] = <<>> /\ inbox[u] = Stream(u)
        /\ UNCHANGED <<said, inbox, heard>> /\ pc = "connect"
    BY DEF Connect, Begun
  <1>2. MeantFor(s)' = MeantFor(s) /\ \A u \in Sides : Stream(u) \in Seq(Unit)
    BY <1>1, StreamTypes DEF MeantFor, Stream
  <1>3. CASE conn["browser"] \in {"reset", "broken"}
    <2>1. pc' = "died" /\ outbox' = outbox
      BY <1>3 DEF Connect, Goto
    <2>2. ~Up(s)'
      BY <2>1 DEF Up, Looping, Over
    <2>3. QED
      BY <1>1, <2>1, <2>2, RelaysUntouched, SidesFacts
  <1>4. CASE s = "server" /\ conn["browser"] \notin {"reset", "broken"}
    <2>1. pc' = "select" /\ outbox'[s] = <<>>
      <3>1. CASE conn["browser"] \in {"open", "finished"}
        BY <1>1, <1>4, <3>1 DEF Connect, Goto, TypeOK
      <3>2. CASE conn["browser"] = "left"
        BY <1>1, <1>4, <3>2 DEF Connect, Goto
      <3>3. QED
        BY <1>4, <3>1, <3>2, SidesFacts DEF TypeOK, Conn
    <2>2. InHand(s)' = <<>> /\ Other(s) = "browser" /\ "browser" \in Sides
      BY <1>4, <2>1, SidesFacts DEF InHand, Other
    <2>3. MeantFor(s) = Stream("browser") /\ Stream("browser") \in Seq(Unit)
      BY <1>2, <1>4, <2>2, ConcatEmpty DEF MeantFor
    <2>4. Whole(s)'
      <3>1. heard'[s] = <<>> /\ inbox'[Other(s)] = Stream("browser")
        BY <1>1, <2>2
      <3>2. <<>> \o <<>> \o <<>> \o Stream("browser") = Stream("browser")
        BY <2>3, ConcatEmpty
      <3>3. QED
        BY <1>2, <2>1, <2>2, <2>3, <3>1, <3>2 DEF Whole
    <2>5. QED
      BY <1>1, <1>2, <2>1, <2>4 DEF Relays
  <1>5. CASE s = "browser" /\ conn["browser"] = "left"
    <2>1. conn'["browser"] \in {"left", "broken"} /\ outbox' = outbox
      BY <1>5 DEF Connect, TypeOK
    <2>2. ~Up(s)'
      BY <1>5, <2>1 DEF Up
    <2>3. QED
      BY <1>1, <2>1, <2>2, RelaysUntouched
  <1>6. CASE s = "browser" /\ conn["browser"] \in {"open", "finished"}
    <2>1. pc' = "select" /\ outbox'[s] = <<<<"ack">>>>
      <3>1. /\ outbox' = [outbox EXCEPT !["browser"] = Append(@, <<"ack">>)]
            /\ Goto("select")
        BY <1>6 DEF Connect
      <3>2. outbox'[s] = Append(<<>>, <<"ack">>)
        BY <1>1, <1>6, <3>1 DEF TypeOK
      <3>3. QED
        BY <3>1, <3>2 DEF Goto
    <2>2. InHand(s)' = <<>> /\ Other(s) = "server" /\ "server" \in Sides
      BY <1>6, <2>1, SidesFacts DEF InHand, Other
    <2>3. MeantFor(s) = <<<<"ack">>>> \o inbox["server"] /\ inbox["server"] \in Seq(Unit)
      BY <1>1, <1>2, <1>6, <2>2 DEF MeantFor
    <2>4. Whole(s)'
      <3>1. <<<<"ack">>>> \in Seq(Unit)
        BY DEF Unit
      <3>2. <<>> \o <<<<"ack">>>> \o <<>> \o inbox["server"]
              = <<<<"ack">>>> \o inbox["server"]
        BY <2>3, <3>1, ConcatTwoEmpty
      <3>3. heard'[s] = <<>> /\ inbox'[Other(s)] = inbox["server"]
        BY <1>1, <2>2
      <3>4. QED
        BY <1>2, <2>1, <2>2, <2>3, <3>2, <3>3 DEF Whole
    <2>5. IsPrefix(heard[s] \o outbox[s], MeantFor(s))'
      BY <2>4, WholePrefixNext
    <2>6. QED
      BY <2>4, <2>5 DEF Relays
  <1>7. QED
    BY <1>3, <1>4, <1>5, <1>6, SidesFacts DEF TypeOK, Conn

LEMMA RecvRelays ==
    ASSUME TypeOK, NEW u \in Sides, Recv(u), NEW s \in Sides, Relays(s)
    PROVE  Relays(s)'
  <1>1. /\ pc = RecvLine[u]
        /\ UNCHANGED <<conn, said, heard, outbox>>
        /\ Looping /\ InHand(s) = <<>>
    BY SidesFacts DEF Recv, Looping, Over, InHand
  <1>2. CASE inbox[u] = <<>>
    <2>1. pc' = "break"
      BY <1>2 DEF Recv, Goto
    <2>2. ~Up(s)'
      BY <2>1 DEF Up, Looping
    <2>3. QED
      BY <1>1, <2>2, RelaysUntouched, SidesFacts
  <1>3. CASE inbox[u] # <<>>
    <2>1. PICK n \in 1..Len(inbox[u]) :
             /\ buff' = SubSeq(inbox[u], 1, n)
             /\ inbox' = [inbox EXCEPT ![u] = SubSeq(@, n + 1, Len(@))]
             /\ pc' = SendLine[Other(u)]
      BY <1>3 DEF Recv, Goto
    <2>2. Up(s)' => Up(s)
      BY <1>1 DEF Up
    <2>3. CASE s = u
      <3>1. InHand(s)' = <<>>
        BY <2>1, <2>3, SidesFacts DEF InHand
      <3>2. inbox'[Other(s)] = inbox[Other(s)]
        BY <2>1, <2>3, SidesFacts DEF TypeOK
      <3>3. QED
        BY <1>1, <2>2, <3>1, <3>2, RelaysUntouched, SidesFacts
    <2>4. CASE s # u
      <3>1. s = Other(u) /\ Other(s) = u
        BY <2>4 DEF Sides, Other
      <3>2. InHand(s)' = buff' /\ inbox'[u] = SubSeq(inbox[u], n + 1, Len(inbox[u]))
        BY <2>1, <3>1 DEF InHand, TypeOK
      <3>3. /\ heard[s] \o outbox[s] \in Seq(Unit) /\ inbox[u] \in Seq(Unit)
            /\ n \in 1..Len(inbox[u])
        BY <2>1, StreamTypes
      <3>4. heard[s] \o outbox[s] \o SubSeq(inbox[u], 1, n)
                 \o SubSeq(inbox[u], n + 1, Len(inbox[u]))
              = heard[s] \o outbox[s] \o <<>> \o inbox[u]
        BY <3>3, RecvConcat
      <3>5. /\ Whole(s) <=> heard[s] \o outbox[s] \o <<>> \o inbox[u] = MeantFor(s)
            /\ Whole(s)' <=> heard[s] \o outbox[s] \o SubSeq(inbox[u], 1, n)
                                \o SubSeq(inbox[u], n + 1, Len(inbox[u])) = MeantFor(s)'
            /\ MeantFor(s)' = MeantFor(s)
        BY <1>1, <2>1, <3>1, <3>2 DEF Whole, MeantFor, Stream
      <3>6. Whole(s) => Whole(s)'
        BY <3>4, <3>5
      <3>7. IsPrefix(heard[s] \o outbox[s], MeantFor(s))'
        BY <1>1, <3>5 DEF Relays
      <3>8. QED
        BY <2>2, <3>6, <3>7 DEF Relays
    <2>5. QED
      BY <2>3, <2>4
  <1>4. QED
    BY <1>2, <1>3

LEMMA SendRelays ==
    ASSUME TypeOK, TypeOK', Turn, NEW u \in Sides, Send(u), NEW s \in Sides, Relays(s)
    PROVE  Relays(s)'
  <1>1. /\ pc = SendLine[u]
        /\ UNCHANGED <<conn, said, inbox, heard>>
        /\ outbox' = [outbox EXCEPT ![u] = Append(@, Head(buff))]
        /\ buff' = Tail(buff)
        /\ IF buff' = <<>> THEN AfterSend(u) ELSE UNCHANGED pc
    BY DEF Send, peers
  <1>2. buff # <<>> /\ buff \in Seq(Unit)
    BY <1>1, SidesFacts DEF Turn, TypeOK
  <1>3. pc' \in {SendLine[u], "recv_browser", "select"} /\ (pc' # SendLine[u] => buff' = <<>>)
    BY <1>1 DEF AfterSend, Goto
  <1>4. Looping /\ Looping'
    BY <1>1, <1>3, SidesFacts DEF Looping, Over
  <1>5. CASE s # u
    <2>1. InHand(s) = <<>> /\ InHand(s)' = <<>>
      BY <1>1, <1>3, <1>5, SidesFacts DEF InHand
    <2>2. outbox'[s] = outbox[s]
      BY <1>1, <1>5 DEF TypeOK
    <2>3. Up(s)' => Up(s)
      BY <1>1, <1>4 DEF Up
    <2>4. QED
      BY <1>1, <2>1, <2>2, <2>3, RelaysUntouched
  <1>6. CASE s = u
    <2>1. conn[s] \in {"open", "finished"}
      BY <1>6 DEF Send
    <2>2. Whole(s)
      BY <1>4, <2>1 DEF Relays, Up
    <2>3. InHand(s) = buff /\ InHand(s)' = Tail(buff)
      BY <1>1, <1>3, <1>6, SidesFacts DEF InHand
    <2>4. outbox'[s] = Append(outbox[s], Head(buff))
      BY <1>1, <1>6 DEF TypeOK
    <2>5. /\ heard[s] \in Seq(Unit) /\ outbox[s] \in Seq(Unit)
          /\ buff \in Seq(Unit) /\ buff # <<>>
      BY <1>2, StreamTypes
    <2>6. heard[s] \o Append(outbox[s], Head(buff)) \o Tail(buff) = heard[s] \o outbox[s] \o buff
      BY <2>5, SendConcat
    <2>7. /\ Whole(s) <=> heard[s] \o outbox[s] \o buff \o inbox[Other(s)] = MeantFor(s)
          /\ Whole(s)' <=> heard[s] \o Append(outbox[s], Head(buff)) \o Tail(buff)
                              \o inbox[Other(s)] = MeantFor(s)'
          /\ MeantFor(s)' = MeantFor(s)
      BY <1>1, <2>3, <2>4 DEF Whole, MeantFor, Stream
    <2>8. Whole(s)'
      BY <2>2, <2>6, <2>7
    <2>9. QED
      BY <2>8, WholePrefixNext DEF Relays
  <1>7. QED
    BY <1>5, <1>6

LEMMA StepRelays ==
    ASSUME TypeOK, TypeOK', Turn, Begun, RelaysInOrder, [Next]_vars
    PROVE  RelaysInOrder'
  <1> SUFFICES ASSUME NEW s \in Sides PROVE Relays(s)'
    BY DEF RelaysInOrder, Relays, Up, Whole
  <1>0. Relays(s) /\ Other(s) \in Sides
    BY RelaysEquiv, SidesFacts
  <1>1. ASSUME NEW u \in Sides, Finish(u) \/ Leave(u)
        PROVE  Relays(s)'
    <2>1. /\ UNCHANGED <<heard, outbox, said, inbox, InHand(s)>>
          /\ Up(s)' => Up(s)
      BY <1>1 DEF Finish, Leave, InHand, Up, Looping, Over, TypeOK
    <2>2. QED
      BY <1>0, <2>1, RelaysUntouched
  <1>2. CASE ConnectFails \/ Timeout \/ SelectFails \/ Close
    <2>1. UNCHANGED <<heard, outbox, said>> /\ ~Up(s)'
      BY <1>2 DEF ConnectFails, Timeout, SelectFails, Close, Goto, peers, Up, Looping, Over
    <2>2. QED
      BY <1>0, <2>1, RelaysUntouched
  <1>3. CASE Select \/ Wait \/ UNCHANGED vars
    <2>1. /\ UNCHANGED <<heard, outbox, said, inbox, conn, InHand(s)>>
          /\ Up(s)' => Up(s)
      BY <1>3, SidesFacts DEF Select, Wait, vars, peers, Goto, InHand, Up, Looping, Over
    <2>2. QED
      BY <1>0, <2>1, RelaysUntouched
  <1>4. ASSUME NEW u \in Sides, SendInVain(u)
        PROVE  Relays(s)'
    <2>1. UNCHANGED <<heard, outbox, said, inbox>> /\ pc = SendLine[u]
          /\ pc' \in {"recv_browser", "select"} /\ conn'[u] \in {"left", "broken"}
      BY <1>4 DEF SendInVain, AfterSend, Goto, TypeOK
    <2>2. CASE s = u
      <3>1. ~Up(s)'
        BY <2>1, <2>2 DEF Up
      <3>2. QED
        BY <1>0, <2>1, <3>1, RelaysUntouched
    <2>3. CASE s # u
      <3>1. InHand(s) = <<>> /\ InHand(s)' = <<>> /\ Looping
        BY <2>1, <2>3, SidesFacts DEF InHand, Looping, Over
      <3>2. conn'[s] = conn[s]
        BY <1>4, <2>3 DEF SendInVain
      <3>3. Up(s)' => Up(s)
        BY <3>1, <3>2 DEF Up
      <3>4. QED
        BY <1>0, <2>1, <3>1, <3>3, RelaysUntouched
    <2>4. QED
      BY <2>2, <2>3
  <1>5. ASSUME NEW u \in Sides, SendFails(u)
        PROVE  Relays(s)'
    <2>1. UNCHANGED <<heard, outbox, said>> /\ ~Up(s)'
      BY <1>5 DEF SendFails, Goto, peers, Up, Looping, Over
    <2>2. QED
      BY <1>0, <2>1, RelaysUntouched
  <1>6. QED
    BY <1>0, <1>1, <1>2, <1>3, <1>4, <1>5, SayRelays, ReadRelays, ConnectRelays, RecvRelays,
       SendRelays DEF Next, Thread, Peer

-----------------------------------------------------------------------------
(* The end.                                                                 *)

LEMMA StepEnds ==
    ASSUME TypeOK, Turn, RelaysInOrder, Ends, [Next]_vars
    PROVE  Ends'
  <1>1. ASSUME ended = {}, ended' = {}
        PROVE  Ends'
    BY <1>1 DEF Ends, LastWordsArrive
  <1>2. ASSUME NEW s \in Sides, Recv(s), inbox[s] = <<>>
        PROVE  Ends'
    <2>1. /\ pc = RecvLine[s] /\ pc' = "break" /\ ended' = {s}
          /\ UNCHANGED <<conn, said, inbox, heard, outbox>>
      BY <1>2 DEF Recv, Goto
    <2>2. conn[s] # "open"
      BY <1>2, <2>1, SidesFacts DEF Turn, Readable
    <2> DEFINE o == Other(s)
    <2>3. o \in Sides /\ Other(o) = s
      BY SidesFacts
    <2>4. ASSUME conn[o] \in {"open", "finished"}
          PROVE  (heard[o] \o outbox[o] = MeantFor(o))'
      <3>1. Looping /\ InHand(o) = <<>>
        BY <2>1, SidesFacts DEF Looping, Over, InHand
      <3>2. heard[o] \o outbox[o] \o <<>> \o <<>> = MeantFor(o)
        BY <1>2, <2>3, <2>4, <3>1 DEF RelaysInOrder
      <3>3. heard[o] \o outbox[o] \in Seq(Unit)
        BY <2>3, StreamTypes
      <3>4. heard[o] \o outbox[o] = MeantFor(o)
        BY <3>2, <3>3, ConcatEmpty
      <3>5. MeantFor(o)' = MeantFor(o)
        BY <2>1 DEF MeantFor, Stream
      <3>6. QED
        BY <2>1, <3>4, <3>5
    <2>5. QED
      BY <1>2, <2>1, <2>2, <2>4 DEF Ends, LastWordsArrive
  <1>3. ASSUME ended # {}, UNCHANGED ended, pc' = pc \/ (pc = "break" /\ pc' = "closed"),
               \A s \in ended : /\ conn[s]' # "open" /\ UNCHANGED <<inbox[s], said[s]>>
                                /\ conn'[Other(s)] \in {"open", "finished"} =>
                                      conn[Other(s)] \in {"open", "finished"}
                                /\ (heard[Other(s)] \o outbox[Other(s)])'
                                      = heard[Other(s)] \o outbox[Other(s)]
        PROVE  Ends'
    <2>1. \A s \in ended : MeantFor(Other(s))' = MeantFor(Other(s))
      <3> TAKE s \in ended
      <3>1. Other(Other(s)) = s /\ UNCHANGED said[s]
        BY <1>3, SidesFacts DEF TypeOK
      <3>2. Stream(s)' = Stream(s)
        BY <3>1 DEF Stream
      <3>3. QED
        BY <3>1, <3>2 DEF MeantFor
    <2>2. QED
      BY <1>3, <2>1 DEF Ends, LastWordsArrive
  <1>4. CASE ended = {}
    <2>1. CASE \E s \in Sides : Recv(s) /\ inbox[s] = <<>>
      BY <1>2, <2>1
    <2>2. CASE ~\E s \in Sides : Recv(s) /\ inbox[s] = <<>>
      <3>1. UNCHANGED ended
        BY <2>2 DEF Next, Thread, ConnectFails, Connect, Select, Wait, Timeout, SelectFails,
           Close, Recv, Send, SendInVain, SendFails, Peer, Say, Read, Finish, Leave, vars
      <3>2. QED
        BY <1>1, <1>4, <3>1
    <2>3. QED
      BY <2>1, <2>2
  <1>5. CASE ended # {}
    <2>1. pc \in {"break", "closed"} /\ ended \subseteq Sides /\ \A s \in ended : conn[s] # "open"
      BY <1>5 DEF Ends, TypeOK
    <2>2. CASE Thread
      <3>1. Close
        BY <2>1, <2>2, SidesFacts DEF Thread, ConnectFails, Connect, Select, Wait, Timeout,
           SelectFails, Recv, Send, SendInVain, SendFails
      <3>2. UNCHANGED <<conn, said, inbox, heard, outbox, ended>> /\ pc = "break" /\ pc' = "closed"
        BY <3>1 DEF Close, Goto, peers
      <3>3. QED
        BY <1>3, <1>5, <2>1, <3>2
    <2>3. ASSUME NEW u \in Sides, Say(u)
          PROVE  Ends'
      <3>1. u \notin ended
        BY <2>1, <2>3 DEF Say
      <3>2. UNCHANGED <<conn, heard, outbox, ended, pc>>
        BY <2>3 DEF Say
      <3>3. \A s \in ended : UNCHANGED <<inbox[s], said[s]>>
        BY <2>1, <2>3, <3>1 DEF Say, TypeOK
      <3>4. QED
        BY <1>3, <1>5, <2>1, <3>2, <3>3
    <2>4. ASSUME NEW u \in Sides, Read(u)
          PROVE  Ends'
      <3>1. UNCHANGED <<conn, said, inbox, ended, pc>>
        BY <2>4 DEF Read
      <3>2. \A s \in Sides : (heard[s] \o outbox[s])' = heard[s] \o outbox[s]
        BY <2>4, ReadKeeps
      <3>3. QED
        BY <1>3, <1>5, <2>1, <3>1, <3>2, SidesFacts
    <2>5. ASSUME NEW u \in Sides, Finish(u) \/ Leave(u)
          PROVE  Ends'
      <3>1. UNCHANGED <<heard, outbox, said, inbox, ended, pc>>
        BY <2>5 DEF Finish, Leave
      <3>2. \A s \in Sides : /\ conn'[s] \in {"open", "finished"} => conn[s] \in {"open", "finished"}
                             /\ conn[s] # "open" => conn'[s] # "open"
        BY <2>5 DEF Finish, Leave, TypeOK
      <3>3. QED
        BY <1>3, <1>5, <2>1, <3>1, <3>2, SidesFacts
    <2>6. CASE UNCHANGED vars
      <3>1. UNCHANGED <<conn, said, inbox, heard, outbox, ended, pc>>
        BY <2>6 DEF vars, peers
      <3>2. QED
        BY <1>3, <1>5, <2>1, <3>1
    <2>7. QED
      BY <2>2, <2>3, <2>4, <2>5, <2>6 DEF Next, Peer
  <1>6. QED
    BY <1>4, <1>5

-----------------------------------------------------------------------------
\* In every state a side that select has named has something for recv, the
\* streams are whole, and the end of a side is the end of the tunnel.
THEOREM IInvAlways == Spec => []IInv
  <1>1. IInv /\ [Next]_vars => IInv'
    <2> SUFFICES ASSUME IInv, [Next]_vars PROVE IInv'
      OBVIOUS
    <2>0. TypeOK /\ Turn /\ Begun /\ RelaysInOrder /\ Ends
      BY DEF IInv
    <2>1. TypeOK'
      BY <2>0, StepType
    <2>2. Turn' /\ Begun' /\ Ends'
      BY <2>0, StepTurn, StepBegun, StepEnds
    <2>3. RelaysInOrder'
      BY <2>0, <2>1, StepRelays
    <2>4. QED
      BY <2>1, <2>2, <2>3 DEF IInv
  <1>2. QED
    BY <1>1, InitIInv, PTL DEF Spec

\* The variables of handleCONNECT keep their types: among others Wait
\* never takes time off a timeval that has none, and buff is never sent from
\* when it is empty.
THEOREM TypeCorrect == Spec => []TypeOK
  <1>1. IInv => TypeOK
    BY DEF IInv
  <1>2. QED
    BY <1>1, IInvAlways, PTL

\* Whatever one recv returns and the sockets hold, handleCONNECT's one buffer
\* carries both streams in order, each unit once.
THEOREM StreamsInOrder == Spec => []RelaysInOrder
  <1>1. IInv => RelaysInOrder
    BY DEF IInv
  <1>2. QED
    BY <1>1, IInvAlways, PTL

\* A side that ends its part after its last words has them delivered before
\* handleCONNECT closes the tunnel, if the other is there.
THEOREM LastWords == Spec => []LastWordsArrive
  <1>1. IInv => LastWordsArrive
    BY DEF IInv, Ends
  <1>2. QED
    BY <1>1, IInvAlways, PTL

=============================================================================
