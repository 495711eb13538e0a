------------------------------- MODULE Tunnel --------------------------------
(***************************************************************************)
(* handleCONNECT (Proxy.cpp): one thread that moves bytes between a browser *)
(* and a web server with select and blocking recv and send.                 *)
(*                                                                          *)
(* The two peers and the sockets are external.  A peer sends and reads when *)
(* it likes; it may finish (it sends no more and still reads) or leave.     *)
(* What is sent to a peer that has left is refused by a reset, and a send   *)
(* after that raises SIGPIPE, which the flags of these two calls do not     *)
(* suppress and for which the program has no handler.                       *)
(***************************************************************************)
EXTENDS Integers, Sequences, SequencesExt

CONSTANTS
    MaxSaid,    \* bound: units a peer sends
    MaxRecv,    \* units one recv returns at most (MAX_TCP_PACKET_SIZE)
    Room,       \* units the sockets towards a peer hold
    MaxWait     \* bound: time select may be given

ASSUME TunnelAssumption ==
    /\ MaxSaid \in Nat \ {0} /\ MaxRecv \in Nat \ {0}
    /\ Room \in Nat \ {0} /\ MaxWait \in Nat \ {0}

Sides == {"server", "browser"}

Other(s) == IF s = "server" THEN "browser" ELSE "server"

\* The units a peer says are numbered; "ack" is the proxy's own 200 OK.
Unit == (Sides \X (1..MaxSaid)) \union {<<"ack">>}

VARIABLES
    conn,       \* external: the connection with each side
    said,       \* external: units each side has sent
    inbox,      \* what it has sent and the proxy has not received
    outbox,     \* what the proxy has sent to it and it has not read
    heard,      \* external: what it has read
    pc,         \* where the thread is
    ready,      \* readfds after select
    buff,       \* the bytes of the last recv that are still to be sent
    tv,         \* the timeval, which Linux's select counts down
    ended       \* history: the sides whose end recv has reported

peers == <<conn, said, inbox, heard>>
vars == <<peers, outbox, pc, ready, buff, tv, ended>>

\* A peer that has finished or left: recv returns 0 ("finished", "left") or -1
\* ("reset": it left with data unread; "broken": it has refused what was sent).
Conn == {"open", "finished", "left", "reset", "broken"}

\* recv has something to return.
Readable(s) == inbox[s] # <<>> \/ conn[s] # "open"

Goto(line) == pc' = line

RecvLine == [server |-> "recv_server", browser |-> "recv_browser"]
SendLine == [server |-> "send_server", browser |-> "send_browser"]

Over == pc \in {"refused", "closed", "died"}

Init ==
    /\ conn = [s \in Sides |-> "open"]
    /\ said = [s \in Sides |-> 0]
    /\ inbox = [s \in Sides |-> <<>>]
    /\ outbox = [s \in Sides |-> <<>>]
    /\ heard = [s \in Sides |-> <<>>]
    /\ pc = "connect"
    /\ ready = {}
    /\ buff = <<>>
    \* tv_sec is 1 and tv_usec is not initialized: any time, or no valid one.
    /\ tv \in {-1} \union 1..MaxWait
    /\ ended = {}

-----------------------------------------------------------------------------
(* The peers.                                                               *)

Say(s) ==
    /\ conn[s] = "open" /\ said[s] < MaxSaid
    /\ s = "server" => pc # "connect"
    /\ said' = [said EXCEPT ![s] = @ + 1]
    /\ inbox' = [inbox EXCEPT ![s] = Append(@, <<s, said[s] + 1>>)]
    /\ UNCHANGED <<conn, heard, outbox, pc, ready, buff, tv, ended>>

Read(s) ==
    /\ conn[s] \in {"open", "finished"} /\ outbox[s] # <<>>
    /\ heard' = [heard EXCEPT ![s] = Append(@, Head(outbox[s]))]
    /\ outbox' = [outbox EXCEPT ![s] = Tail(@)]
    /\ UNCHANGED <<conn, said, inbox, pc, ready, buff, tv, ended>>

Finish(s) ==
    /\ conn[s] = "open"
    /\ s = "server" => pc # "connect"
    /\ conn' = [conn EXCEPT ![s] = "finished"]
    /\ UNCHANGED <<said, inbox, heard, outbox, pc, ready, buff, tv, ended>>

\* With data unread or under way the end of the connection is a reset, alone
\* or after the peer's own end of data.
Leave(s) ==
    /\ conn[s] \in {"open", "finished"}
    /\ s = "server" => pc # "connect"
    /\ \E c \in Conn :
          /\ c \in (IF outbox[s] = <<>> THEN {"left"} ELSE {"reset", "broken"})
          /\ conn' = [conn EXCEPT ![s] = c]
    /\ UNCHANGED <<said, inbox, heard, outbox, pc, ready, buff, tv, ended>>

-----------------------------------------------------------------------------
(* The thread.                                                              *)

\* No connection to the web server: a 400 and no close.  The browser may be
\* gone; then sendMsgFromProxy throws and nothing catches it.
ConnectFails ==
    /\ pc = "connect"
    /\ Goto(IF conn["browser"] \in {"reset", "broken"} THEN "died" ELSE "refused")
    /\ UNCHANGED <<peers, outbox, ready, buff, tv, ended>>

\* The connection is made and 200 OK sent, which may throw as well, or go to a
\* browser that has left.
Connect ==
    /\ pc = "connect"
    /\ CASE conn["browser"] \in {"open", "finished"} ->
              /\ outbox' = [outbox EXCEPT !["browser"] = Append(@, <<"ack">>)]
              /\ Goto("select") /\ UNCHANGED conn
         [] conn["browser"] = "left" ->
              /\ \E c \in {"left", "broken"} : conn' = [conn EXCEPT !["browser"] = c]
              /\ Goto("select") /\ UNCHANGED outbox
         [] OTHER -> Goto("died") /\ UNCHANGED <<conn, outbox>>
    /\ UNCHANGED <<said, inbox, heard, ready, buff, tv, ended>>

\* select returns the sides there is something to receive from, if only an
\* end or an error; also when no time is left.
Select ==
    /\ pc = "select" /\ tv >= 0
    /\ \E s \in Sides : Readable(s)
    /\ ready' = {s \in Sides : Readable(s)}
    /\ Goto(IF "server" \in ready' THEN "recv_server" ELSE "recv_browser")
    /\ UNCHANGED <<peers, outbox, buff, tv, ended>>

\* Mutant: time is taken off when there is none left.
WaitBelowZero ==
    /\ pc = "select"
    /\ \A s \in Sides : ~Readable(s)
    /\ tv' = tv - 1
    /\ UNCHANGED <<peers, outbox, pc, ready, buff, ended>>

\* Time passes in select, which takes it off tv for good.
Wait ==
    /\ pc = "select" /\ tv > 0
    /\ \A s \in Sides : ~Readable(s)
    /\ tv' = tv - 1
    /\ UNCHANGED <<peers, outbox, pc, ready, buff, ended>>

\* "Timeout occurred!"
Timeout ==
    /\ pc = "select" /\ tv = 0
    /\ \A s \in Sides : ~Readable(s)
    /\ Goto("break")
    /\ UNCHANGED <<peers, outbox, ready, buff, tv, ended>>

\* The timeval is not a valid one.
SelectFails ==
    /\ pc = "select" /\ tv < 0
    /\ Goto("break")
    /\ UNCHANGED <<peers, outbox, ready, buff, tv, ended>>

\* Mutant: the end of one direction is not the end of the tunnel.
RecvUntilBothEnd(s) ==
    /\ pc = RecvLine[s]
    /\ IF inbox[s] = <<>>
       THEN /\ Goto(IF conn[Other(s)] = "open" THEN "select" ELSE "break")
            /\ ended' = ended \union {s}
            /\ UNCHANGED <<inbox, buff>>
       ELSE \E n \in 1..Len(inbox[s]) :
              /\ n <= MaxRecv
              /\ buff' = SubSeq(inbox[s], 1, n)
              /\ inbox' = [inbox EXCEPT ![s] = SubSeq(@, n + 1, Len(@))]
              /\ Goto(SendLine[Other(s)])
              /\ UNCHANGED ended
    /\ UNCHANGED <<conn, said, heard, outbox, ready, tv>>

\* Mutant: a side that has ended is not read to its end.
RecvStopsAtEnd(s) ==
    /\ pc = RecvLine[s]
    /\ IF conn[s] # "open"
       THEN Goto("break") /\ ended' = {s} /\ UNCHANGED <<inbox, buff>>
       ELSE \E n \in 1..Len(inbox[s]) :
              /\ n <= MaxRecv
              /\ buff' = SubSeq(inbox[s], 1, n)
              /\ inbox' = [inbox EXCEPT ![s] = SubSeq(@, n + 1, Len(@))]
              /\ Goto(SendLine[Other(s)])
              /\ UNCHANGED ended
    /\ UNCHANGED <<conn, said, heard, outbox, ready, tv>>

\* recv from one side.  Its end or an error is the end of the tunnel, whatever
\* the other side has still to get.
Recv(s) ==
    /\ pc = RecvLine[s]
    /\ IF inbox[s] = <<>>
       THEN Goto("break") /\ ended' = {s} /\ UNCHANGED <<inbox, buff>>
       ELSE \E n \in 1..Len(inbox[s]) :
              /\ n <= MaxRecv
              /\ buff' = SubSeq(inbox[s], 1, n)
              /\ inbox' = [inbox EXCEPT ![s] = SubSeq(@, n + 1, Len(@))]
              /\ Goto(SendLine[Other(s)])
              /\ UNCHANGED ended
    /\ UNCHANGED <<conn, said, heard, outbox, ready, tv>>

\* The second half of the turn is for the browser, if select named it.
AfterSend(s) ==
    Goto(IF s = "browser" /\ "browser" \in ready THEN "recv_browser" ELSE "select")

\* Mutant: send returns when there is no more room.
SendWhatFits(s) ==
    /\ pc = SendLine[s] /\ conn[s] \in {"open", "finished"}
    /\ IF Len(outbox[s]) < Room
       THEN /\ outbox' = [outbox EXCEPT ![s] = Append(@, Head(buff))]
            /\ buff' = Tail(buff)
            /\ IF buff' = <<>> THEN AfterSend(s) ELSE UNCHANGED pc
       ELSE AfterSend(s) /\ buff' = <<>> /\ UNCHANGED outbox
    /\ UNCHANGED <<peers, ready, tv, ended>>

\* send puts units into the socket while there is room, waits for more (and the
\* whole tunnel with it) and returns when all are in.
Send(s) ==
    /\ pc = SendLine[s] /\ conn[s] \in {"open", "finished"}
    /\ Len(outbox[s]) < Room
    /\ outbox' = [outbox EXCEPT ![s] = Append(@, Head(buff))]
    /\ buff' = Tail(buff)
    /\ IF buff' = <<>> THEN AfterSend(s) ELSE UNCHANGED pc
    /\ UNCHANGED <<peers, ready, tv, ended>>

\* The peer has left and the socket does not know it: the data is taken, and
\* refused by a reset that arrives before the next use of the socket or later.
SendInVain(s) ==
    /\ pc = SendLine[s] /\ conn[s] = "left"
    /\ \E c \in {"left", "broken"} : conn' = [conn EXCEPT ![s] = c]
    /\ buff' = <<>>
    /\ AfterSend(s)
    /\ UNCHANGED <<said, inbox, heard, outbox, ready, tv, ended>>

\* An error is returned after a reset; SIGPIPE ends the process when the
\* peer's end of data came before it.
SendFails(s) ==
    /\ pc = SendLine[s] /\ conn[s] \in {"reset", "broken"}
    /\ Goto(IF conn[s] = "reset" THEN "break" ELSE "died")
    /\ UNCHANGED <<peers, outbox, ready, buff, tv, ended>>

\* After the loop the browser's descriptor is closed, and the destructor of
\* Client closes the other.
Close ==
    /\ pc = "break"
    /\ Goto("closed")
    /\ UNCHANGED <<peers, outbox, ready, buff, tv, ended>>

Thread ==
    \/ ConnectFails \/ Connect \/ Select \/ Wait \/ Timeout \/ SelectFails \/ Close
    \/ \E s \in Sides : Recv(s) \/ Send(s) \/ SendInVain(s) \/ SendFails(s)

Peer(s) == Say(s) \/ Read(s) \/ Finish(s) \/ Leave(s)

Next == Thread \/ \E s \in Sides : Peer(s)

Spec == Init /\ [][Next]_vars

\* The operating system runs the thread and time passes.  Nothing is asked of
\* the peers: one may say nothing, or read nothing of what it is sent.
FairSpec == Spec /\ WF_vars(Thread)

-----------------------------------------------------------------------------
(* Properties.                                                              *)

\* Every variable has its type.
TypeOK ==
    /\ conn \in [Sides -> Conn]
    /\ said \in [Sides -> 0..MaxSaid]
    /\ inbox \in [Sides -> Seq(Unit)]
    /\ outbox \in [Sides -> Seq(Unit)]
    /\ heard \in [Sides -> Seq(Unit)]
    /\ pc \in {"connect", "select", "recv_server", "recv_browser", "send_server",
               "send_browser", "break", "closed", "refused", "died"}
    /\ ready \subseteq Sides
    /\ buff \in Seq(Unit)
    /\ tv \in -1..MaxWait
    /\ ended \subseteq Sides

\* What a side has said, and what is meant for it.
Stream(s) == [i \in 1..said[s] |-> <<s, i>>]

MeantFor(s) == (IF s = "browser" THEN <<<<"ack">>>> ELSE <<>>) \o Stream(Other(s))

InHand(s) == IF pc = SendLine[s] THEN buff ELSE <<>>

Looping == pc \notin {"connect", "break"} /\ ~Over

\* What a side reads is what the other said, in order, each unit once, with one
\* buffer for both directions and sends that wait.  While the tunnel is
\* up nothing is missing: what has not been read is on the way.
RelaysInOrder ==
    \A s \in Sides :
       /\ IsPrefix(heard[s] \o outbox[s], MeantFor(s))
       /\ (Looping /\ conn[s] \in {"open", "finished"}) =>
             heard[s] \o outbox[s] \o InHand(s) \o inbox[Other(s)] = MeantFor(s)

\* What a side says before it ends its part gets to the other, if that one is
\* there, before the tunnel is closed.  (What the other has said by then does
\* not: the end of one direction is the end of both.)
LastWordsArrive ==
    \A s \in ended :
       /\ inbox[s] = <<>>
       /\ (pc = "break" /\ conn[Other(s)] \in {"open", "finished"}) =>
             heard[Other(s)] \o outbox[Other(s)] = MeantFor(Other(s))

\* send waits for room, and the whole tunnel with it, for a peer that is there
\* and has not read what it was sent.
Stalled(s) ==
    /\ pc = SendLine[s]
    /\ conn[s] \in {"open", "finished"}
    /\ Len(outbox[s]) >= Room

\* Every tunnel comes to its end (a side ends, a call fails, or the peers have
\* no more to say and the time runs out), whether or not the peers read, but
\* for one that waits for ever in send, which has no time limit.
TunnelEnds == <>Over \/ \E s \in Sides : <>[]Stalled(s)

=============================================================================
