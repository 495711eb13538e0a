------------------------------ MODULE Lifecycle ------------------------------
(***************************************************************************)
(* The life of connections, descriptors and threads (proxy_daemon.cpp:      *)
(* main; Proxy.cpp: startRun, handle and the ends of its handlers;          *)
(* Server.cpp; Request.hpp; Client::Client and ~Client).                    *)
(*                                                                          *)
(* The main loop accepts a connection, reads the request itself and starts  *)
(* a thread.  Descriptors are numbers: accept and socket take the lowest    *)
(* free one, send and close act on whatever the number stands for by then.  *)
(* Clients and web servers are external.  What a handler and a web server   *)
(* say to each other is in modules GetHandler, Upstream and Tunnel.         *)
(***************************************************************************)
EXTENDS Integers

CONSTANTS
    MaxClients,     \* bound: the connections that are made
    MaxFd,          \* descriptors of the process, after the standard ones
    MaxThreads      \* threads the process can make: none is joined or detached

ASSUME LifecycleAssumption ==
    MaxClients \in Nat \ {0} /\ MaxFd \in Nat \ {0} /\ MaxThreads \in Nat

VARIABLES
    alive,      \* the process has not ended
    came,       \* external: the number of connections made so far
    accepted,   \* how many of them have been accepted
    said,       \* external: the request each client has sent, if any
    gone,       \* external: the clients that have left
    file,       \* the descriptor table
    main,       \* the accept loop: where it is, client_connection_fd, msg
    fd,         \* Request::client_connection_fd
    kind,       \* what handle makes of the request
    pc,         \* where the thread of a request is
    sockfd,     \* Client::sockfd of the thread
    answers,    \* history: the requests whose answers a client got
    strayed     \* history: a Client has closed a descriptor that is not its own

clients == <<came, said, gone>>
loop    == <<accepted, main>>
request == <<fd, kind>>
vars == <<alive, clients, loop, file, request, pc, sockfd, answers, strayed>>

\* Connections wait in a queue and each one makes a Request, so connection,
\* request and thread have the same number.
Clients == 1..MaxClients

Kinds == {"GET", "POST", "CONNECT", "malformed", "empty"}

Fds == 0..MaxFd

NoFd == -1

\* An int that nothing was assigned to.
Unset == -2

\* What a descriptor stands for: nothing, the listening socket, the connection
\* of a client, or that of a thread's Client to its web server.
Free   == <<"free", 0>>
Listen == <<"listen", 0>>
File == {Free, Listen} \union ({"client", "up"} \X Clients)

\* The lowest free descriptor.
Lowest(f) == /\ f \in Fds /\ file[f] = Free
             /\ \A g \in Fds : file[g] = Free => f <= g

\* The process runs.  Once an uninitialized sockfd has turned out to be an open
\* descriptor and been closed, nothing further is claimed.
Running == alive /\ ~strayed

\* Bind and listen have succeeded.  When bind fails listen takes another port:
\* nobody finds the proxy, and getErrorSign() == -1 does not tell, as hasError
\* is 1.  That is the behaviour in which no client ever comes.
Init ==
    /\ alive = TRUE /\ strayed = FALSE
    /\ came = 0 /\ accepted = 0
    /\ said = [c \in Clients |-> "nothing"]
    /\ gone = {}
    /\ file = [f \in Fds |-> IF f = 0 THEN Listen ELSE Free]
    /\ main = [at |-> "accept", fd |-> NoFd, msg |-> "empty"]
    /\ fd = [r \in Clients |-> NoFd]
    /\ kind = [r \in Clients |-> "empty"]
    /\ pc = [r \in Clients |-> "none"]
    /\ sockfd = [r \in Clients |-> NoFd]
    /\ answers = [c \in Clients |-> {}]

-----------------------------------------------------------------------------
(* The clients.                                                             *)

Connect ==
    /\ Running /\ came < MaxClients
    /\ came' = came + 1
    /\ UNCHANGED <<alive, said, gone, loop, file, request, pc, sockfd, answers, strayed>>

\* The connection is there, accepted or not.
Connected(c) ==
    c <= came /\ (c > accepted \/ \E f \in Fds : file[f] = <<"client", c>>)

Speak(c) ==
    /\ Running /\ Connected(c) /\ c \notin gone /\ said[c] = "nothing"
    /\ \E k \in Kinds : said' = [said EXCEPT ![c] = k]
    /\ UNCHANGED <<alive, came, gone, loop, file, request, pc, sockfd, answers, strayed>>

\* The client closes the connection, having said something or not.
Leave(c) ==
    /\ Running /\ Connected(c) /\ c \notin gone
    /\ gone' = gone \union {c}
    /\ UNCHANGED <<alive, came, said, loop, file, request, pc, sockfd, answers, strayed>>

-----------------------------------------------------------------------------
(* The accept loop.                                                         *)

\* An exception that nothing catches ends the process, and so does one that
\* main catches.
Terminate ==
    /\ alive' = FALSE
    /\ UNCHANGED <<clients, loop, file, request, pc, sockfd, answers, strayed>>

\* Mutant: accept does not wait, and what it returns is not looked at.
AcceptAnyway ==
    /\ Running /\ main.at = "accept" /\ accepted < MaxClients
    /\ accepted' = accepted + 1
    /\ \E f \in Fds :
          /\ Lowest(f)
          /\ file' = [file EXCEPT ![f] = <<"client", accepted'>>]
          /\ main' = [main EXCEPT !.at = "recv", !.fd = f]
    /\ UNCHANGED <<alive, clients, request, pc, sockfd, answers, strayed>>

\* tryAccept.  Without a free descriptor it fails and the loop goes round.
Accept ==
    /\ Running /\ main.at = "accept" /\ accepted < came
    /\ accepted' = accepted + 1
    /\ \E f \in Fds :
          /\ Lowest(f)
          /\ file' = [file EXCEPT ![f] = <<"client", accepted'>>]
          /\ main' = [main EXCEPT !.at = "recv", !.fd = f]
    /\ UNCHANGED <<alive, clients, request, pc, sockfd, answers, strayed>>

\* What recv may return for the descriptor: "fails" is -1, and there is nothing
\* at all while the client keeps silent.
Received ==
    IF file[main.fd][1] # "client" THEN {"fails"}
    ELSE LET c == file[main.fd][2] IN
         ({said[c]} \ {"nothing"})
         \union {msg \in {"empty", "fails"} : said[c] = "nothing" /\ c \in gone}

\* Mutant: recv is called again until there is a request.
RecvDataInsists ==
    /\ Running /\ main.at = "recv"
    /\ \E msg \in Received \ {"empty", "fails"} :
          main' = [main EXCEPT !.at = "create", !.msg = msg]
    /\ UNCHANGED <<alive, clients, accepted, file, request, pc, sockfd, answers, strayed>>

\* recvData.
RecvData ==
    /\ Running /\ main.at = "recv"
    /\ \E msg \in Received \ {"fails"} :
          main' = [main EXCEPT !.at = "create", !.msg = msg]
    /\ UNCHANGED <<alive, clients, accepted, file, request, pc, sockfd, answers, strayed>>

\* A std::string is made of a null pointer, the exception leaves startRun,
\* and main returns.
RecvFails ==
    /\ Running /\ main.at = "recv"
    /\ "fails" \in Received
    /\ Terminate

\* new Request and pthread_create, whose failure is not noticed.
Create ==
    /\ Running /\ main.at = "create"
    /\ fd' = [fd EXCEPT ![accepted] = main.fd]
    /\ kind' = [kind EXCEPT ![accepted] = main.msg]
    /\ pc' = [pc EXCEPT ![accepted] = IF accepted > MaxThreads THEN "lost" ELSE "handle"]
    /\ main' = [main EXCEPT !.at = "accept"]
    /\ UNCHANGED <<alive, clients, accepted, file, sockfd, answers, strayed>>

-----------------------------------------------------------------------------
(* A thread.                                                                *)

At(r, line) == Running /\ pc[r] = line

Goto(r, line) == pc' = [pc EXCEPT ![r] = line]

Closed(f) == IF f \in Fds THEN [file EXCEPT ![f] = Free] ELSE file

\* Mutant: the handler of GET closes nothing when it has caught something.
ThrowUnclosed(r) ==
    IF kind[r] = "GET"
    THEN /\ Goto(r, "left")
         /\ UNCHANGED <<alive, clients, loop, file, request, sockfd, answers, strayed>>
    ELSE Terminate

\* An exception: only handleGET has a try block, and it closes after it.
Throw(r) ==
    IF kind[r] = "GET"
    THEN /\ Goto(r, "close")
         /\ UNCHANGED <<alive, clients, loop, file, request, sockfd, answers, strayed>>
    ELSE Terminate

\* handle, up to where the handlers part.  A GET may be answered from the cache;
\* "answer" is then still to read it there.
Handle(r) ==
    /\ At(r, "handle")
    /\ \/ kind[r] = "empty" /\ Goto(r, "left")
       \/ kind[r] \in {"malformed", "GET"} /\ Goto(r, "answer")
       \/ kind[r] \in {"GET", "POST", "CONNECT"} /\ Goto(r, "client")
    /\ UNCHANGED <<alive, clients, loop, file, request, sockfd, answers, strayed>>

\* cacheMap[key]->, before the request is sent on or after its answer is stored,
\* for a key another GET has evicted (module GetHandler): the signal that comes
\* of a NULL is no exception, and handleGET does not catch it.
FollowsNull(r) ==
    /\ At(r, "handle") \/ At(r, "answer")
    /\ kind[r] = "GET"
    /\ \E u \in Clients \ {r} : kind[u] = "GET" /\ pc[u] # "lost"
    /\ Terminate

\* std::stoul of a port that is no number.
PortThrows(r) == At(r, "client") /\ Throw(r)

\* Client::Client fails in getaddrinfo and sockfd is never set.
NoAddress(r) ==
    /\ At(r, "client")
    /\ sockfd' = [sockfd EXCEPT ![r] = Unset]
    /\ Goto(r, IF kind[r] = "CONNECT" THEN "refuse" ELSE "failed")
    /\ UNCHANGED <<alive, clients, loop, file, request, answers, strayed>>

\* socket finds no free descriptor.
NoSocket(r) ==
    /\ At(r, "client")
    /\ \A f \in Fds : file[f] # Free
    /\ sockfd' = [sockfd EXCEPT ![r] = NoFd]
    /\ Goto(r, IF kind[r] = "CONNECT" THEN "refuse" ELSE "failed")
    /\ UNCHANGED <<alive, clients, loop, file, request, answers, strayed>>

\* A socket is made, and connect succeeds or fails.
Socket(r) ==
    /\ At(r, "client")
    /\ \E f \in Fds :
          /\ Lowest(f)
          /\ file' = [file EXCEPT ![f] = <<"up", r>>]
          /\ sockfd' = [sockfd EXCEPT ![r] = f]
    /\ IF kind[r] = "CONNECT"
       THEN Goto(r, "refuse") \/ Goto(r, "ack")
       ELSE Goto(r, "failed") \/ Goto(r, "exchange")
    /\ UNCHANGED <<alive, clients, loop, request, answers, strayed>>

\* Client::~Client closes sockfd, or whatever number is in its place.
CloseClient(r) ==
    /\ \E f \in (IF sockfd[r] = Unset THEN Fds \union {NoFd} ELSE {sockfd[r]}) :
          /\ file' = Closed(f)
          /\ strayed' = (f # NoFd /\ file[f] \notin {Free, <<"up", r>>})
    /\ sockfd' = [sockfd EXCEPT ![r] = NoFd]

\* sendMsgToWebserver returns, if ever (Waits), and its Client is destroyed.
\* After a failure, of the connection or of sendRequest, the answer is a 400,
\* after which handlePOST closes nothing.
Exchange(r) ==
    /\ \/ At(r, "exchange") /\ Goto(r, "answer")
       \/ /\ At(r, "exchange") \/ At(r, "failed")
          /\ Goto(r, IF kind[r] = "POST" THEN "answer400" ELSE "answer")
    /\ CloseClient(r)
    /\ UNCHANGED <<alive, clients, loop, request, answers>>

\* recvResponse or recvAllData throws: the Client is destroyed on the way.
ExchangeThrows(r) ==
    /\ At(r, "exchange")
    /\ IF kind[r] = "GET"
       THEN /\ CloseClient(r)
            /\ Goto(r, "close")
            /\ UNCHANGED <<alive, clients, loop, request, answers>>
       ELSE Terminate

Then == [answer |-> "close", answer400 |-> "left", refuse |-> "leave", ack |-> "tunnel"]

\* sendMsgFromProxy to the number the request came in on.  What is sent to a
\* client that has left gets lost or fails.
Answer(r) ==
    /\ Running /\ pc[r] \in DOMAIN Then
    /\ file[fd[r]] \notin {Free, Listen}
    /\ Goto(r, Then[pc[r]])
    /\ answers' = IF file[fd[r]][1] = "client" /\ file[fd[r]][2] \notin gone
                  THEN [answers EXCEPT ![file[fd[r]][2]] = @ \union {r}]
                  ELSE answers
    /\ UNCHANGED <<alive, clients, loop, file, request, sockfd, strayed>>

AnswerFails(r) ==
    /\ Running /\ pc[r] \in DOMAIN Then
    /\ \/ file[fd[r]] \in {Free, Listen}
       \/ file[fd[r]][1] = "client" /\ file[fd[r]][2] \in gone
    /\ Throw(r)

\* The tunnel ends (module Tunnel); with SIGPIPE when a side has left.
EndTunnel(r) ==
    /\ At(r, "tunnel")
    /\ Goto(r, "close")
    /\ UNCHANGED <<alive, clients, loop, file, request, sockfd, answers, strayed>>

BrokenPipe(r) == At(r, "tunnel") /\ Terminate

\* Mutant: the descriptor is closed by the handler and again by its caller.
CloseTwice(r) ==
    /\ At(r, "close")
    /\ file' = Closed(fd[r])
    /\ Goto(r, CASE file[fd[r]] = <<"client", r>> -> "close"
                 [] kind[r] = "CONNECT" -> "destroy" [] OTHER -> "done")
    /\ UNCHANGED <<alive, clients, loop, request, sockfd, answers, strayed>>

\* close(getClientFd()).
Close(r) ==
    /\ At(r, "close")
    /\ file' = Closed(fd[r])
    /\ Goto(r, IF kind[r] = "CONNECT" THEN "destroy" ELSE "done")
    /\ UNCHANGED <<alive, clients, loop, request, sockfd, answers, strayed>>

\* handleCONNECT returns and its Client is destroyed.
Destroy(r) ==
    /\ \/ At(r, "destroy") /\ Goto(r, "done")
       \/ At(r, "leave") /\ Goto(r, "left")
    /\ CloseClient(r)
    /\ UNCHANGED <<alive, clients, loop, request, answers>>

Thread(r) ==
    \/ Handle(r) \/ NoSocket(r) \/ Socket(r) \/ Exchange(r) \/ Answer(r)
    \/ EndTunnel(r) \/ Close(r) \/ Destroy(r)

Fails(r) ==
    \/ FollowsNull(r) \/ PortThrows(r) \/ NoAddress(r) \/ ExchangeThrows(r)
    \/ AnswerFails(r) \/ BrokenPipe(r)

Main == Accept \/ RecvData \/ Create

Next ==
    \/ Connect \/ Main \/ RecvFails
    \/ \E r \in Clients : Speak(r) \/ Leave(r) \/ Thread(r) \/ Fails(r)

Spec == Init /\ [][Next]_vars

\* Where a thread may stay for ever: the web server keeps silent, or the chunk
\* loop spins at its end (module Upstream); the client does not read a long
\* answer; a side of the tunnel does not read (module Tunnel).
Waits(r) == pc[r] \in {"exchange", "answer", "tunnel"}

\* The operating system runs every thread that has something to do.  Nothing is
\* assumed of clients and web servers.
FairSpec ==
    /\ Spec
    /\ WF_vars(Main \/ RecvFails)
    /\ \A r \in Clients : WF_vars(~Waits(r) /\ (Thread(r) \/ AnswerFails(r)))

-----------------------------------------------------------------------------
(* Properties.                                                              *)

\* Every variable has its type.
TypeOK ==
    /\ alive \in BOOLEAN /\ strayed \in BOOLEAN
    /\ came \in 0..MaxClients /\ accepted \in 0..came
    /\ said \in [Clients -> Kinds \union {"nothing"}]
    /\ gone \subseteq Clients
    /\ file \in [Fds -> File]
    /\ main \in [at : {"accept", "recv", "create"}, fd : Fds \union {NoFd}, msg : Kinds]
    /\ fd \in [Clients -> Fds \union {NoFd}]
    /\ kind \in [Clients -> Kinds]
    /\ pc \in [Clients -> {"none", "lost", "handle", "client", "failed", "exchange",
                            "answer", "answer400", "refuse", "ack", "tunnel", "close",
                            "leave", "destroy", "left", "done"}]
    /\ sockfd \in [Clients -> Fds \union {NoFd, Unset}]
    /\ answers \in [Clients -> SUBSET Clients]

\* The connection of the request is still to be used, or left open.
Holds(r) == pc[r] \notin {"none", "done", "destroy"}

\* So is that of its Client, when it was made.
HoldsUp(r) == pc[r] \in {"exchange", "ack", "tunnel"}

\* The paths that never close: nothing was said, pthread_create failed, a POST
\* was answered with 400, a CONNECT was refused.
Leaks(r) ==
    \/ pc[r] = "lost"
    \/ pc[r] = "left" /\ kind[r] \in {"empty", "POST", "CONNECT"}

\* Each connection of a client is in the hands of one party: the accept loop,
\* a thread that has it to close, or a path that is known to leak; none is
\* forgotten, and the number of none is in other hands as well.
Accounted ==
    Running =>
       /\ \A r \in Clients : Holds(r) => file[fd[r]] = <<"client", r>>
       /\ \A r \in Clients : HoldsUp(r) => file[sockfd[r]] = <<"up", r>>
       /\ \A r \in Clients : pc[r] = "left" => Leaks(r)
       /\ \A f \in Fds : file[f][1] = "client" =>
             \/ main.at # "accept" /\ main.fd = f
             \/ \E r \in Clients : Holds(r) /\ fd[r] = f

\* No client gets an answer to another's request, though numbers are used
\* again as soon as they are free.
NoForeignAnswer == \A c \in Clients : answers[c] \subseteq {c}

\* The accept loop waits for a client that keeps silent, or there is no free
\* descriptor and nobody who holds one will close it without another's help.
Starved ==
    \/ main.at = "recv" /\ Received = {}
    \/ /\ main.at = "accept"
       /\ \A f \in Fds : file[f] # Free
       /\ \A r \in Clients : Holds(r) => Leaks(r) \/ Waits(r)

\* Every connection is accepted in the end, in its turn, unless the process
\* ends, or the proxy starves for ever.
Served ==
    \/ <>~Running
    \/ <>[]Starved
    \/ \A c \in Clients : came >= c ~> accepted >= c

-----------------------------------------------------------------------------
(* What documents of the repository say.                                    *)

\* dangerlog.txt:5-7 - of "the proxy failed sending message(broken pipe)": "I
\* solved these failures by using Try catch block. If the try block throw an
\* exception, the program will catch the exception and run as normally".  No
\* failing send to a client or into a tunnel ends the process.
SendFailureCaught ==
    [][\A r \in Clients : AnswerFails(r) \/ BrokenPipe(r) => alive']_vars

=============================================================================
