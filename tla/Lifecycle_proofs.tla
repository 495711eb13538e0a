--------------------------- MODULE Lifecycle_proofs ---------------------------
(***************************************************************************)
(* Proofs about module Lifecycle, for every number of clients, descriptors  *)
(* and threads: whose hands a connection is in, and that a number that is   *)
(* used again never takes an answer to another client.                      *)
(***************************************************************************)
EXTENDS Lifecycle, TLAPS

\* Which requests can be where in their threads.
Stages ==
    \A r \in Clients :
       /\ pc[r] \in {"ack", "refuse", "leave", "tunnel", "destroy"} => kind[r] = "CONNECT"
       /\ pc[r] = "answer400" => kind[r] = "POST"
       /\ pc[r] = "left" => Leaks(r)
       /\ pc[r] \in {"client", "failed", "exchange", "answer"} => kind[r] # "empty"

\* The accept loop has one connection in its hands, which has no thread yet.
Loop ==
    /\ \A r \in Clients : r > accepted => pc[r] = "none"
    /\ main.at # "accept" =>
          /\ accepted \in Clients /\ pc[accepted] = "none"
          /\ main.fd \in Fds /\ file[main.fd] = <<"client", accepted>>

\* A number that a thread has to close stands for its own connection.
Owners ==
    /\ \A r \in Clients : Holds(r) => fd[r] \in Fds /\ file[fd[r]] = <<"client", r>>
    /\ \A r \in Clients : sockfd[r] \in Fds => file[sockfd[r]] = <<"up", r>>
    /\ \A r \in Clients : HoldsUp(r) => sockfd[r] \in Fds
    /\ \A f \in Fds : file[f][1] = "client" =>
          \/ main.at # "accept" /\ main.fd = f
          \/ \E r \in Clients : Holds(r) /\ fd[r] = f

Hands == Stages /\ Loop /\ Owners

IInv == TypeOK /\ NoForeignAnswer /\ (Running => Hands)

-----------------------------------------------------------------------------
LEMMA InitIInv == Init => IInv
  <1> SUFFICES ASSUME Init PROVE IInv
    OBVIOUS
  <1> USE LifecycleAssumption
  <1>1. TypeOK
    <2>1. file \in [Fds -> File]
      BY DEF Init, File
    <2>2. alive \in BOOLEAN /\ strayed \in BOOLEAN
      BY Zenon DEF Init
    <2>3. came \in 0..MaxClients /\ accepted \in 0..came
      BY DEF Init
    <2>4. main \in [at : {"accept", "recv", "create"}, fd : Fds \union {NoFd}, msg : Kinds]
      BY DEF Init, Kinds
    <2>5. QED
      BY <2>1, <2>2, <2>3, <2>4 DEF Init, TypeOK, Kinds
  <1>2. NoForeignAnswer
    BY DEF Init, NoForeignAnswer
  <1>3. Hands
    BY DEF Init, Hands, Stages, Loop, Owners, Holds, HoldsUp, Fds, Free, Listen, NoFd
  <1>4. QED
    BY <1>1, <1>2, <1>3 DEF IInv

LEMMA ReceivedType ==
    ASSUME TypeOK, Hands, main.at = "recv"
    PROVE  /\ Received \subseteq Kinds \union {"fails"}
           /\ "fails" \in Received => gone # {}
  <1>1. accepted \in Clients /\ file[main.fd] = <<"client", accepted>>
    BY DEF Hands, Loop
  <1>2. Received = ({said[accepted]} \ {"nothing"})
                   \union {msg \in {"empty", "fails"} :
                              said[accepted] = "nothing" /\ accepted \in gone}
    BY <1>1 DEF Received
  <1>3. said[accepted] \in Kinds \union {"nothing"}
    BY <1>1 DEF TypeOK
  <1>4. QED
    BY <1>2, <1>3 DEF Kinds

\* The destructor closes a number or nothing.
LEMMA CloseClientFacts ==
    ASSUME TypeOK, NEW r \in Clients, CloseClient(r)
    PROVE  \E f \in Fds \union {NoFd} :
              /\ sockfd[r] = Unset \/ f = sockfd[r]
              /\ file' = IF f = NoFd THEN file ELSE [file EXCEPT ![f] = Free]
              /\ strayed' = (f # NoFd /\ file[f] \notin {Free, <<"up", r>>})
              /\ sockfd' = [sockfd EXCEPT ![r] = NoFd]
  <1>1. NoFd \notin Fds /\ sockfd[r] \in Fds \union {NoFd, Unset}
    BY DEF NoFd, Fds, TypeOK
  <1>2. QED
    BY <1>1 DEF CloseClient, Closed

-----------------------------------------------------------------------------
(* Types.                                                                   *)

LEMMA StepType ==
    ASSUME TypeOK, Running => Hands, [Next]_vars
    PROVE  TypeOK'
  <1> USE LifecycleAssumption DEF TypeOK
  <1>0. Free \in File /\ \A c \in Clients : <<"client", c>> \in File /\ <<"up", c>> \in File
    BY DEF File
  <1>1. CASE Connect \/ \E r \in Clients : Speak(r) \/ Leave(r)
    BY <1>1 DEF Connect, Speak, Leave, loop, request
  <1>2. CASE Accept
    <2>1. accepted + 1 \in Clients /\ accepted' = accepted + 1 /\ accepted' \in 0..came
      BY <1>2 DEF Accept, Clients
    <2>2. <<"client", accepted'>> \in File
      BY <1>0, <2>1
    <2>3. PICK f \in Fds :
             /\ file' = [file EXCEPT ![f] = <<"client", accepted'>>]
             /\ main' = [main EXCEPT !.at = "recv", !.fd = f]
      BY <1>2 DEF Accept
    <2>4. QED
      BY <1>2, <2>1, <2>2, <2>3 DEF Accept, clients, request
  <1>3. CASE RecvData
    <2>1. PICK msg \in Kinds : main' = [main EXCEPT !.at = "create", !.msg = msg]
      BY <1>3, ReceivedType DEF RecvData, Running
    <2>2. QED
      BY <1>3, <2>1 DEF RecvData, clients, request
  <1>4. CASE Create
    BY <1>4 DEF Create, clients, Hands, Loop, Running
  <1>5. CASE Terminate
    BY <1>5 DEF Terminate, clients, loop, request
  <1>6. ASSUME NEW r \in Clients, Throw(r)
        PROVE  TypeOK'
    BY <1>5, <1>6 DEF Throw, Goto, clients, loop, request
  <1>7. ASSUME NEW r \in Clients, Handle(r) \/ EndTunnel(r)
        PROVE  TypeOK'
    BY <1>7 DEF Handle, EndTunnel, Goto, clients, loop, request
  <1>8. ASSUME NEW r \in Clients, NoAddress(r) \/ NoSocket(r)
        PROVE  TypeOK'
    BY <1>8 DEF NoAddress, NoSocket, Goto, clients, loop, request
  <1>9. ASSUME NEW r \in Clients, Socket(r)
        PROVE  TypeOK'
    <2>1. PICK f \in Fds :
             /\ file' = [file EXCEPT ![f] = <<"up", r>>]
             /\ sockfd' = [sockfd EXCEPT ![r] = f]
      BY <1>9 DEF Socket
    <2>2. \E l \in {"refuse", "ack", "failed", "exchange"} : pc' = [pc EXCEPT ![r] = l]
      <3>1. \/ Goto(r, "refuse") \/ Goto(r, "ack")
            \/ Goto(r, "failed") \/ Goto(r, "exchange")
        BY <1>9 DEF Socket
      <3>2. QED
        BY <3>1 DEF Goto
    <2>3. UNCHANGED <<alive, clients, loop, request, answers, strayed>>
      BY <1>9 DEF Socket
    <2>4. <<"up", r>> \in File
      BY <1>0
    <2>5. QED
      BY <2>1, <2>2, <2>3, <2>4 DEF clients, loop, request
  <1>10. ASSUME NEW r \in Clients, CloseClient(r)
         PROVE  /\ strayed' \in BOOLEAN /\ file' \in [Fds -> File]
                /\ sockfd' \in [Clients -> Fds \union {NoFd, Unset}]
    <2>1. PICK f \in Fds \union {NoFd} :
             /\ file' = IF f = NoFd THEN file ELSE [file EXCEPT ![f] = Free]
             /\ strayed' = (f # NoFd /\ file[f] \notin {Free, <<"up", r>>})
             /\ sockfd' = [sockfd EXCEPT ![r] = NoFd]
      BY <1>10, CloseClientFacts
    <2>2. file' \in [Fds -> File]
      BY <1>0, <2>1
    <2>3. strayed' \in BOOLEAN
      BY <2>1
    <2>4. QED
      BY <2>1, <2>2, <2>3
  <1>11. ASSUME NEW r \in Clients, Exchange(r) \/ Destroy(r)
         PROVE  TypeOK'
    <2>1. CloseClient(r)
      BY <1>11 DEF Exchange, Destroy
    <2>2. \E l \in {"answer", "answer400", "done", "left"} : pc' = [pc EXCEPT ![r] = l]
      BY <1>11 DEF Exchange, Destroy, Goto
    <2>3. UNCHANGED <<alive, clients, loop, request, answers>>
      BY <1>11 DEF Exchange, Destroy
    <2>4. QED
      BY <1>10, <2>1, <2>2, <2>3 DEF clients, loop, request
  <1>12. ASSUME NEW r \in Clients, ExchangeThrows(r)
         PROVE  TypeOK'
    <2>1. CASE kind[r] = "GET"
      <3>1. CloseClient(r) /\ pc' = [pc EXCEPT ![r] = "close"]
            /\ UNCHANGED <<alive, clients, loop, request, answers>>
        BY <1>12, <2>1 DEF ExchangeThrows, Goto
      <3>2. QED
        BY <1>10, <3>1 DEF clients, loop, request
    <2>2. CASE kind[r] # "GET"
      BY <1>5, <1>12, <2>2 DEF ExchangeThrows
    <2>3. QED
      BY <2>1, <2>2
  <1>13. ASSUME NEW r \in Clients, Answer(r)
         PROVE  TypeOK'
    <2>1. pc[r] \in {"answer", "answer400", "refuse", "ack"} /\ Running
      BY <1>13 DEF Answer, Then
    <2>2. file[fd[r]] = <<"client", r>>
      BY <2>1 DEF Hands, Owners, Holds
    <2>3. answers' \in [Clients -> SUBSET Clients]
      BY <1>13, <2>2 DEF Answer
    <2>4. Then[pc[r]] \in {"close", "left", "leave", "tunnel"}
      BY <2>1 DEF Then
    <2>5. QED
      BY <1>13, <2>3, <2>4 DEF Answer, Goto, clients, loop, request
  <1>14. ASSUME NEW r \in Clients, Close(r)
         PROVE  TypeOK'
    <2>1. file' \in [Fds -> File]
      BY <1>0, <1>14 DEF Close, Closed
    <2>2. QED
      BY <1>14, <2>1 DEF Close, Goto, clients, loop, request
  <1>15. CASE UNCHANGED vars
    BY <1>15 DEF vars, clients, loop, request
  <1>16. ASSUME NEW r \in Clients, Thread(r)
         PROVE  TypeOK'
    BY <1>7, <1>8, <1>9, <1>11, <1>13, <1>14, <1>16 DEF Thread
  <1>17. ASSUME NEW r \in Clients, Fails(r)
         PROVE  TypeOK'
    BY <1>5, <1>6, <1>8, <1>12, <1>17 DEF Fails, FollowsNull, PortThrows, AnswerFails, BrokenPipe
  <1>18. CASE RecvFails
    BY <1>5, <1>18 DEF RecvFails
  <1>19. QED
    BY <1>1, <1>2, <1>3, <1>4, <1>15, <1>16, <1>17, <1>18 DEF Next, Main

-----------------------------------------------------------------------------
(* Hands.                                                                   *)

\* Steps that leave the descriptors alone and move one thread on.
LEMMA MoveHands ==
    ASSUME TypeOK, Hands, NEW r \in Clients, NEW l,
           pc' = [pc EXCEPT ![r] = l], pc[r] # "none", Holds(r) /\ Holds(r)',
           UNCHANGED <<accepted, main, file, fd, kind>>,
           \A u \in Clients \ {r} : sockfd'[u] = sockfd[u],
           sockfd'[r] \in Fds => sockfd'[r] = sockfd[r],
           HoldsUp(r)' => HoldsUp(r) /\ sockfd'[r] = sockfd[r],
           l \in {"ack", "refuse", "leave", "tunnel", "destroy"} => kind[r] = "CONNECT",
           l = "answer400" => kind[r] = "POST",
           l = "left" => kind[r] \in {"empty", "POST", "CONNECT"},
           l \in {"client", "failed", "exchange", "answer"} => kind[r] # "empty"
    PROVE  Hands'
  <1>1. pc'[r] = l /\ \A u \in Clients \ {r} : pc'[u] = pc[u]
    BY DEF TypeOK
  <1>2. \A u \in Clients \ {r} : /\ Holds(u)' <=> Holds(u)
                                 /\ HoldsUp(u)' <=> HoldsUp(u)
                                 /\ Leaks(u)' <=> Leaks(u)
    BY <1>1 DEF Holds, HoldsUp, Leaks
  <1>3. Stages'
    BY <1>1, <1>2 DEF Hands, Stages, Leaks
  <1>4. Loop'
    BY <1>1 DEF Hands, Loop
  <1>5. Owners'
    <2>1. \A u \in Clients : Holds(u)' <=> Holds(u)
      BY <1>2
    <2>2. \A u \in Clients : sockfd'[u] \in Fds => file[sockfd'[u]] = <<"up", u>>
      BY DEF Hands, Owners
    <2>3. \A u \in Clients : HoldsUp(u)' => sockfd'[u] \in Fds
      BY <1>2 DEF Hands, Owners
    <2>4. QED
      BY <2>1, <2>2, <2>3 DEF Hands, Owners
  <1>6. QED
    BY <1>3, <1>4, <1>5 DEF Hands

\* The steps of the clients.
LEMMA ClientHands ==
    ASSUME TypeOK, Hands, Connect \/ \E c \in Clients : Speak(c) \/ Leave(c)
    PROVE  Hands'
  <1>1. UNCHANGED <<accepted, main, file, fd, kind, pc, sockfd>>
    BY DEF Connect, Speak, Leave, loop, request
  <1>2. QED
    BY <1>1 DEF Hands, Stages, Loop, Owners, Holds, HoldsUp, Leaks

LEMMA AcceptHands ==
    ASSUME TypeOK, TypeOK', Hands, Accept
    PROVE  Hands'
  <1> USE LifecycleAssumption
  <1>1. PICK f \in Fds :
           /\ Lowest(f)
           /\ file' = [file EXCEPT ![f] = <<"client", accepted'>>]
           /\ main' = [main EXCEPT !.at = "recv", !.fd = f]
    BY DEF Accept
  <1>2. /\ main.at = "accept" /\ accepted' = accepted + 1 /\ accepted' \in Clients
        /\ accepted < accepted'
        /\ UNCHANGED <<pc, fd, kind, sockfd>>
    BY DEF Accept, request, TypeOK, Clients
  <1>3. file[f] = Free /\ file'[f] = <<"client", accepted'>>
        /\ main'.at = "recv" /\ main'.fd = f
    BY <1>1 DEF Lowest, TypeOK
  <1>4. \A g \in Fds : g # f => file'[g] = file[g]
    BY <1>1 DEF TypeOK
  <1>5. Stages'
    BY <1>2 DEF Hands, Stages, Leaks
  <1>6. Loop'
    <2>1. accepted \in Nat
      BY DEF TypeOK
    <2>2. \A r \in Clients : r > accepted' => pc'[r] = "none"
      BY <1>2, <2>1 DEF Hands, Loop, Clients
    <2>3. pc'[accepted'] = "none"
      BY <1>2, <2>1 DEF Hands, Loop, Clients
    <2>4. QED
      BY <1>2, <1>3, <2>2, <2>3 DEF Loop
  <1>7. Owners'
    <2>1. \A r \in Clients : Holds(r) => fd[r] \in Fds /\ fd[r] # f
      BY <1>3 DEF Hands, Owners, Free
    <2>2. \A r \in Clients : sockfd[r] \in Fds => sockfd[r] # f
      BY <1>3 DEF Hands, Owners, Free
    <2>3. \A g \in Fds : file'[g][1] = "client" =>
             \/ main'.at # "accept" /\ main'.fd = g
             \/ \E r \in Clients : Holds(r) /\ fd[r] = g
      BY <1>2, <1>3, <1>4 DEF Hands, Owners
    <2>4. \A r \in Clients : Holds(r) => fd[r] \in Fds /\ file'[fd[r]] = <<"client", r>>
      BY <1>4, <2>1 DEF Hands, Owners
    <2>5. \A r \in Clients : sockfd[r] \in Fds => file'[sockfd[r]] = <<"up", r>>
      BY <1>4, <2>2 DEF Hands, Owners
    <2>6. \A r \in Clients : Holds(r)' = Holds(r) /\ HoldsUp(r)' = HoldsUp(r)
      BY <1>2 DEF Holds, HoldsUp
    <2>7. QED
      BY <1>2, <2>3, <2>4, <2>5, <2>6 DEF Hands, Owners
  <1>8. QED
    BY <1>5, <1>6, <1>7 DEF Hands

LEMMA RecvHands ==
    ASSUME TypeOK, Hands, RecvData
    PROVE  Hands'
  <1>1. /\ main.at = "recv" /\ main'.at = "create" /\ main'.fd = main.fd
        /\ UNCHANGED <<accepted, file, fd, kind, pc, sockfd>>
    BY DEF RecvData, request, TypeOK
  <1>2. QED
    BY <1>1 DEF Hands, Stages, Loop, Owners, Holds, HoldsUp, Leaks

LEMMA CreateHands ==
    ASSUME TypeOK, Hands, Create
    PROVE  Hands'
  <1>0. PICK a \in Clients : a = accepted
    BY DEF Create, Hands, Loop
  <1> DEFINE l == IF accepted > MaxThreads THEN "lost" ELSE "handle"
  <1>1. /\ pc[a] = "none"
        /\ main.fd \in Fds /\ file[main.fd] = <<"client", a>>
        /\ main.at # "accept"
    BY <1>0 DEF Create, Hands, Loop
  <1>2. /\ fd' = [fd EXCEPT ![a] = main.fd]
        /\ kind' = [kind EXCEPT ![a] = main.msg]
        /\ pc' = [pc EXCEPT ![a] = l]
        /\ main'.at = "accept"
        /\ UNCHANGED <<accepted, file, sockfd>>
    BY <1>0 DEF Create, TypeOK
  <1>3. l \in {"lost", "handle"}
    OBVIOUS
  <1> HIDE DEF l
  <1>4. /\ pc'[a] = l /\ fd'[a] = main.fd
        /\ \A u \in Clients \ {a} : pc'[u] = pc[u] /\ fd'[u] = fd[u] /\ kind'[u] = kind[u]
    BY <1>1, <1>2 DEF TypeOK
  <1>5. \A u \in Clients \ {a} : /\ Holds(u)' <=> Holds(u)
                                 /\ HoldsUp(u)' <=> HoldsUp(u)
                                 /\ Leaks(u)' <=> Leaks(u)
    BY <1>4 DEF Holds, HoldsUp, Leaks
  <1>6. Holds(a)' /\ ~HoldsUp(a)'
    BY <1>3, <1>4 DEF Holds, HoldsUp
  <1>7. Stages'
    BY <1>3, <1>4, <1>5 DEF Hands, Stages
  <1>8. Loop'
    BY <1>0, <1>2, <1>4 DEF Hands, Loop, TypeOK
  <1>9. Owners'
    <2>1. \A f \in Fds : file[f][1] = "client" => \E r \in Clients : Holds(r)' /\ fd'[r] = f
      <3> TAKE f \in Fds
      <3> HAVE file[f][1] = "client"
      <3>1. CASE main.fd = f
        BY <1>1, <1>4, <1>6, <3>1
      <3>2. CASE main.fd # f
        <4>1. PICK r \in Clients : Holds(r) /\ fd[r] = f
          BY <3>2 DEF Hands, Owners
        <4>2. r # a
          BY <1>1, <4>1 DEF Holds
        <4>3. QED
          BY <1>4, <1>5, <4>1, <4>2
      <3>3. QED
        BY <3>1, <3>2
    <2>2. \A r \in Clients : Holds(r)' => fd'[r] \in Fds /\ file[fd'[r]] = <<"client", r>>
      BY <1>1, <1>4, <1>5 DEF Hands, Owners
    <2>3. \A r \in Clients : HoldsUp(r)' => sockfd[r] \in Fds
      BY <1>5, <1>6 DEF Hands, Owners
    <2>4. QED
      BY <1>2, <2>1, <2>2, <2>3 DEF Hands, Owners
  <1>10. QED
    BY <1>7, <1>8, <1>9 DEF Hands

\* The steps of a thread that leave the descriptors alone.
LEMMA ThreadHands ==
    ASSUME TypeOK, Hands, NEW r \in Clients,
           Handle(r) \/ NoAddress(r) \/ NoSocket(r) \/ Answer(r) \/ EndTunnel(r)
    PROVE  Hands'
  <1>0. NoFd \notin Fds /\ Unset \notin Fds
    BY DEF NoFd, Unset, Fds
  <1>1. UNCHANGED <<accepted, main, file, fd, kind>>
    BY DEF Handle, NoAddress, NoSocket, Answer, EndTunnel, loop, request
  <1>2. CASE Handle(r)
    <2>1. PICK l \in {"left", "answer", "client"} :
             /\ pc' = [pc EXCEPT ![r] = l]
             /\ l = "left" => kind[r] = "empty"
             /\ l # "left" => kind[r] # "empty"
      BY <1>2 DEF Handle, Goto
    <2>2. pc[r] = "handle" /\ sockfd' = sockfd /\ pc'[r] = l
      BY <1>2, <2>1 DEF Handle, At, TypeOK
    <2>3. Holds(r) /\ Holds(r)' /\ ~HoldsUp(r)'
      BY <2>2 DEF Holds, HoldsUp
    <2>4. QED
      BY <1>1, <2>1, <2>2, <2>3, MoveHands
  <1>3. CASE NoAddress(r) \/ NoSocket(r)
    <2>1. PICK l \in {"refuse", "failed"} :
             /\ pc' = [pc EXCEPT ![r] = l]
             /\ l = "refuse" => kind[r] = "CONNECT"
      BY <1>3 DEF NoAddress, NoSocket, Goto
    <2>2. pc[r] = "client" /\ pc'[r] = l
      BY <1>3, <2>1 DEF NoAddress, NoSocket, At, TypeOK
    <2>3. /\ sockfd'[r] \notin Fds
          /\ \A u \in Clients \ {r} : sockfd'[u] = sockfd[u]
      BY <1>0, <1>3 DEF NoAddress, NoSocket, TypeOK
    <2>4. Holds(r) /\ Holds(r)' /\ ~HoldsUp(r)'
      BY <2>2 DEF Holds, HoldsUp
    <2>5. kind[r] # "empty"
      BY <2>2 DEF Hands, Stages
    <2>6. QED
      BY <1>1, <2>1, <2>2, <2>3, <2>4, <2>5, MoveHands
  <1>4. CASE Answer(r)
    <2> DEFINE l == Then[pc[r]]
    <2>1. pc[r] \in {"answer", "answer400", "refuse", "ack"}
      BY <1>4 DEF Answer, Then
    <2>2. /\ pc[r] = "answer" => l = "close"
          /\ pc[r] = "answer400" => l = "left"
          /\ pc[r] = "refuse" => l = "leave"
          /\ pc[r] = "ack" => l = "tunnel"
      BY <2>1 DEF Then
    <2>3. pc' = [pc EXCEPT ![r] = l] /\ sockfd' = sockfd
      BY <1>4 DEF Answer, Goto
    <2> HIDE DEF l
    <2>4. pc'[r] = l
      BY <2>3 DEF TypeOK
    <2>5. /\ Holds(r) /\ Holds(r)'
          /\ HoldsUp(r)' => HoldsUp(r)
      BY <2>1, <2>2, <2>4 DEF Holds, HoldsUp
    <2>6. /\ pc[r] \in {"refuse", "ack"} => kind[r] = "CONNECT"
          /\ pc[r] = "answer400" => kind[r] = "POST"
      BY DEF Hands, Stages
    <2>7. QED
      BY <1>1, <2>1, <2>2, <2>3, <2>5, <2>6, MoveHands
  <1>5. CASE EndTunnel(r)
    <2>1. pc[r] = "tunnel" /\ pc' = [pc EXCEPT ![r] = "close"] /\ sockfd' = sockfd
      BY <1>5 DEF EndTunnel, At, Goto
    <2>2. pc'[r] = "close"
      BY <2>1 DEF TypeOK
    <2>3. Holds(r) /\ Holds(r)' /\ ~HoldsUp(r)'
      BY <2>1, <2>2 DEF Holds, HoldsUp
    <2>4. QED
      BY <1>1, <2>1, <2>3, MoveHands
  <1>6. QED
    BY <1>2, <1>3, <1>4, <1>5

\* What the try block of handleGET catches.
LEMMA CaughtHands ==
    ASSUME TypeOK, Hands, NEW r \in Clients, Throw(r), kind[r] = "GET",
           pc[r] \in {"client", "answer", "answer400", "refuse", "ack"}
    PROVE  Hands'
  <1>1. /\ pc' = [pc EXCEPT ![r] = "close"]
        /\ UNCHANGED <<accepted, main, file, fd, kind, sockfd>>
    BY DEF Throw, Goto, loop, request
  <1>2. pc'[r] = "close"
    BY <1>1 DEF TypeOK
  <1>3. Holds(r) /\ Holds(r)' /\ ~HoldsUp(r)' /\ pc[r] # "none"
    BY <1>2 DEF Holds, HoldsUp
  <1>4. QED
    BY <1>1, <1>3, MoveHands

LEMMA SocketHands ==
    ASSUME TypeOK, Hands, NEW r \in Clients, Socket(r)
    PROVE  Hands'
  <1>1. PICK f \in Fds :
           /\ Lowest(f)
           /\ file' = [file EXCEPT ![f] = <<"up", r>>]
           /\ sockfd' = [sockfd EXCEPT ![r] = f]
    BY DEF Socket
  <1>2. PICK l \in {"refuse", "ack", "failed", "exchange"} :
           /\ pc' = [pc EXCEPT ![r] = l]
           /\ l \in {"refuse", "ack"} => kind[r] = "CONNECT"
    <2>1. CASE kind[r] = "CONNECT"
      <3>1. Goto(r, "refuse") \/ Goto(r, "ack")
        BY <2>1 DEF Socket
      <3>2. QED
        BY <2>1, <3>1 DEF Goto
    <2>2. CASE kind[r] # "CONNECT"
      <3>1. Goto(r, "failed") \/ Goto(r, "exchange")
        BY <2>2 DEF Socket
      <3>2. QED
        BY <3>1 DEF Goto
    <2>3. QED
      BY <2>1, <2>2
  <1>3. pc[r] = "client" /\ UNCHANGED <<accepted, main, fd, kind>>
    BY DEF Socket, At, loop, request
  <1>4. /\ file[f] = Free /\ file'[f] = <<"up", r>> /\ sockfd'[r] = f /\ pc'[r] = l
        /\ \A g \in Fds : g # f => file'[g] = file[g]
        /\ \A u \in Clients \ {r} : sockfd'[u] = sockfd[u] /\ pc'[u] = pc[u]
    BY <1>1, <1>2 DEF Lowest, TypeOK
  <1>5. \A u \in Clients \ {r} : HoldsUp(u)' <=> HoldsUp(u)
    BY <1>4 DEF HoldsUp
  <1>6. \A u \in Clients : Holds(u)' <=> Holds(u)
    BY <1>3, <1>4 DEF Holds
  <1>7. Stages'
    <2>1. kind[r] # "empty"
      BY <1>3 DEF Hands, Stages
    <2>2. \A u \in Clients \ {r} : Leaks(u)' <=> Leaks(u)
      BY <1>3, <1>4 DEF Leaks
    <2>3. QED
      BY <1>2, <1>3, <1>4, <2>1, <2>2 DEF Hands, Stages
  <1>8. Loop'
    <2>1. \A u \in Clients : pc[u] = "none" => pc'[u] = "none"
      BY <1>3, <1>4
    <2>2. main.at # "accept" => main.fd # f
      BY <1>4 DEF Hands, Loop, Free
    <2>3. QED
      BY <1>3, <1>4, <2>1, <2>2 DEF Hands, Loop
  <1>9. Owners'
    <2>1. \A u \in Clients : Holds(u) => fd[u] \in Fds /\ fd[u] # f
      BY <1>4 DEF Hands, Owners, Free
    <2>2. \A u \in Clients : sockfd[u] \in Fds => sockfd[u] # f
      BY <1>4 DEF Hands, Owners, Free
    <2>3. \A u \in Clients : Holds(u) => fd[u] \in Fds /\ file'[fd[u]] = <<"client", u>>
      BY <1>4, <2>1 DEF Hands, Owners
    <2>4. \A u \in Clients : sockfd'[u] \in Fds => file'[sockfd'[u]] = <<"up", u>>
      BY <1>4, <2>2 DEF Hands, Owners
    <2>5. \A u \in Clients : HoldsUp(u)' => sockfd'[u] \in Fds
      BY <1>4, <1>5 DEF Hands, Owners
    <2>6. \A g \in Fds : file'[g][1] = "client" => g # f /\ file[g][1] = "client"
      BY <1>4
    <2>7. \A g \in Fds : file'[g][1] = "client" =>
             \/ main.at # "accept" /\ main.fd = g
             \/ \E u \in Clients : Holds(u) /\ fd[u] = g
      BY <2>6 DEF Hands, Owners
    <2>8. QED
      BY <1>3, <1>6, <2>3, <2>4, <2>5, <2>7 DEF Owners
  <1>10. QED
    BY <1>7, <1>8, <1>9 DEF Hands

\* The destructor of Client, in a thread that goes on or ends.
LEMMA DestructorHands ==
    ASSUME TypeOK, Hands, NEW r \in Clients, CloseClient(r), ~strayed',
           UNCHANGED <<accepted, main, fd, kind>>,
           NEW l \in {"answer", "answer400", "close", "done", "left"},
           pc' = [pc EXCEPT ![r] = l],
           pc[r] # "none", Holds(r) <=> l # "done",
           l = "answer400" => kind[r] = "POST",
           l = "left" => kind[r] = "CONNECT",
           l = "answer" => kind[r] # "empty"
    PROVE  Hands'
  <1>0. NoFd \notin Fds
    BY DEF NoFd, Fds
  <1>1. PICK f \in Fds \union {NoFd} :
           /\ sockfd[r] = Unset \/ f = sockfd[r]
           /\ file' = IF f = NoFd THEN file ELSE [file EXCEPT ![f] = Free]
           /\ strayed' = (f # NoFd /\ file[f] \notin {Free, <<"up", r>>})
           /\ sockfd' = [sockfd EXCEPT ![r] = NoFd]
    BY CloseClientFacts
  <1>2. f # NoFd => file[f] \in {Free, <<"up", r>>}
    BY <1>1
  <1>3. /\ sockfd'[r] = NoFd /\ pc'[r] = l
        /\ \A u \in Clients \ {r} : sockfd'[u] = sockfd[u] /\ pc'[u] = pc[u]
    BY <1>1 DEF TypeOK
  <1>4. \A g \in Fds : /\ g # f => file'[g] = file[g]
                       /\ g = f => file'[g] = Free
    BY <1>0, <1>1 DEF TypeOK
  <1>5. \A u \in Clients \ {r} : /\ HoldsUp(u)' <=> HoldsUp(u)
                                 /\ Leaks(u)' <=> Leaks(u)
    BY <1>3 DEF HoldsUp, Leaks
  <1>6. \A u \in Clients : Holds(u)' <=> Holds(u)
    BY <1>3 DEF Holds
  <1>7. Stages'
    BY <1>3, <1>5 DEF Hands, Stages, Leaks
  <1>8. Loop'
    <2>1. \A u \in Clients : pc[u] = "none" => pc'[u] = "none"
      BY <1>3
    <2>2. main.at # "accept" => main.fd # f
      BY <1>2, <1>0 DEF Hands, Loop, Free
    <2>3. QED
      BY <1>4, <2>1, <2>2 DEF Hands, Loop
  <1>9. Owners'
    <2>1. \A u \in Clients : Holds(u) => fd[u] \in Fds /\ fd[u] # f
      BY <1>0, <1>2 DEF Hands, Owners, Free
    <2>2. \A u \in Clients \ {r} : sockfd[u] \in Fds => sockfd[u] # f
      BY <1>0, <1>2 DEF Hands, Owners, Free
    <2>3. \A u \in Clients : Holds(u) => fd[u] \in Fds /\ file'[fd[u]] = <<"client", u>>
      BY <1>4, <2>1 DEF Hands, Owners
    <2>4. \A u \in Clients : sockfd'[u] \in Fds => file'[sockfd'[u]] = <<"up", u>>
      BY <1>0, <1>3, <1>4, <2>2 DEF Hands, Owners
    <2>5. \A u \in Clients : HoldsUp(u)' => sockfd'[u] \in Fds
      <3>1. ~HoldsUp(r)'
        BY <1>3 DEF HoldsUp
      <3>2. QED
        BY <1>3, <1>5, <3>1 DEF Hands, Owners
    <2>6. \A g \in Fds : file'[g][1] = "client" => file[g][1] = "client"
      BY <1>4 DEF Free
    <2>7. \A g \in Fds : file'[g][1] = "client" =>
             \/ main.at # "accept" /\ main.fd = g
             \/ \E u \in Clients : Holds(u) /\ fd[u] = g
      BY <2>6 DEF Hands, Owners
    <2>8. QED
      BY <1>6, <2>3, <2>4, <2>5, <2>7 DEF Owners
  <1>10. QED
    BY <1>7, <1>8, <1>9 DEF Hands

LEMMA CloseHands ==
    ASSUME TypeOK, Hands, NEW r \in Clients, Close(r)
    PROVE  Hands'
  <1> DEFINE f == fd[r]
  <1>1. PICK l \in {"destroy", "done"} :
           /\ pc' = [pc EXCEPT ![r] = l]
           /\ l = "destroy" => kind[r] = "CONNECT"
    BY DEF Close, Goto
  <1>2. pc[r] = "close" /\ UNCHANGED <<accepted, main, fd, kind, sockfd>>
    BY DEF Close, At, loop, request
  <1>3. Holds(r)
    BY <1>2 DEF Holds
  <1>4. f \in Fds /\ file[f] = <<"client", r>>
    BY <1>3 DEF Hands, Owners
  <1>5. file' = [file EXCEPT ![f] = Free]
    BY <1>4 DEF Close, Closed
  <1>6. /\ \A g \in Fds : /\ g # f => file'[g] = file[g]
                          /\ g = f => file'[g] = Free
        /\ pc'[r] = l /\ \A u \in Clients \ {r} : pc'[u] = pc[u]
    BY <1>1, <1>4, <1>5 DEF TypeOK
  <1>7. ~Holds(r)' /\ ~HoldsUp(r)'
    BY <1>6 DEF Holds, HoldsUp
  <1>8. \A u \in Clients \ {r} : /\ Holds(u)' <=> Holds(u)
                                 /\ HoldsUp(u)' <=> HoldsUp(u)
                                 /\ Leaks(u)' <=> Leaks(u)
    BY <1>2, <1>6 DEF Holds, HoldsUp, Leaks
  <1>9. Stages'
    BY <1>1, <1>2, <1>6, <1>8 DEF Hands, Stages
  <1>10. Loop'
    <2>1. \A u \in Clients : pc[u] = "none" => pc'[u] = "none"
      BY <1>2, <1>6
    <2>2. main.at # "accept" => main.fd # f
      <3> HAVE main.at # "accept"
      <3>1. pc[accepted] = "none" /\ file[main.fd] = <<"client", accepted>>
        BY DEF Hands, Loop
      <3>2. accepted # r
        BY <1>2, <3>1
      <3>3. QED
        BY <1>4, <3>1, <3>2
    <2>3. QED
      BY <1>2, <1>6, <2>1, <2>2 DEF Hands, Loop
  <1>11. Owners'
    <2>1. \A u \in Clients \ {r} : Holds(u) => fd[u] \in Fds /\ fd[u] # f
      BY <1>4 DEF Hands, Owners
    <2>2. \A u \in Clients : sockfd[u] \in Fds => sockfd[u] # f
      BY <1>4 DEF Hands, Owners
    <2>3. \A u \in Clients : Holds(u)' => fd[u] \in Fds /\ file'[fd[u]] = <<"client", u>>
      BY <1>6, <1>7, <1>8, <2>1 DEF Hands, Owners
    <2>4. \A u \in Clients : sockfd[u] \in Fds => file'[sockfd[u]] = <<"up", u>>
      BY <1>6, <2>2 DEF Hands, Owners
    <2>5. \A u \in Clients : HoldsUp(u)' => sockfd[u] \in Fds
      BY <1>7, <1>8 DEF Hands, Owners
    <2>6. \A g \in Fds : file'[g][1] = "client" => g # f /\ file[g][1] = "client"
      BY <1>6 DEF Free
    <2>7. \A g \in Fds : file'[g][1] = "client" =>
             \/ main.at # "accept" /\ main.fd = g
             \/ \E u \in Clients \ {r} : Holds(u) /\ fd[u] = g
      BY <2>6 DEF Hands, Owners
    <2>8. QED
      BY <1>2, <1>8, <2>3, <2>4, <2>5, <2>7 DEF Owners
  <1>12. QED
    BY <1>9, <1>10, <1>11 DEF Hands

LEMMA StepHands ==
    ASSUME TypeOK, TypeOK', Running => Hands, [Next]_vars, Running'
    PROVE  Hands'
  <1>1. CASE UNCHANGED vars
    <2>1. UNCHANGED <<accepted, main, file, fd, kind, pc, sockfd, alive, strayed>>
      BY <1>1 DEF vars, loop, request
    <2>2. Running
      BY <2>1 DEF Running
    <2>3. QED
      BY <2>1, <2>2 DEF Hands, Stages, Loop, Owners, Holds, HoldsUp, Leaks
  <1>2. ~Terminate
    BY DEF Terminate, Running
  <1>3. CASE Connect \/ \E c \in Clients : Speak(c) \/ Leave(c)
    BY <1>3, ClientHands DEF Connect, Speak, Leave
  <1>4. CASE Main \/ RecvFails
    BY <1>2, <1>4, AcceptHands, RecvHands, CreateHands
       DEF Main, RecvFails, Accept, RecvData, Create
  <1>5. ASSUME NEW r \in Clients,
               Handle(r) \/ NoAddress(r) \/ NoSocket(r) \/ Answer(r) \/ EndTunnel(r)
        PROVE  Hands'
    <2>1. Running
      BY <1>5 DEF Handle, NoAddress, NoSocket, Answer, EndTunnel, At
    <2>2. QED
      BY <1>5, <2>1, ThreadHands
  <1>6. ASSUME NEW r \in Clients, Socket(r) \/ Close(r)
        PROVE  Hands'
    <2>1. Running
      BY <1>6 DEF Socket, Close, At
    <2>2. QED
      BY <1>6, <2>1, SocketHands, CloseHands
  <1>7. ASSUME NEW r \in Clients, PortThrows(r) \/ AnswerFails(r)
        PROVE  Hands'
    <2>1. /\ Running /\ Throw(r)
          /\ pc[r] \in {"client", "answer", "answer400", "refuse", "ack"}
      BY <1>7 DEF PortThrows, AnswerFails, At, Then
    <2>2. kind[r] = "GET"
      BY <1>2, <2>1 DEF Throw
    <2>3. QED
      BY <2>1, <2>2, CaughtHands
  <1>8. ASSUME NEW r \in Clients, Exchange(r)
        PROVE  Hands'
    <2>1. /\ Running /\ CloseClient(r) /\ pc[r] \in {"exchange", "failed"}
          /\ UNCHANGED <<accepted, main, fd, kind>>
      BY <1>8 DEF Exchange, At, loop, request
    <2>2. PICK l \in {"answer", "answer400"} :
             /\ pc' = [pc EXCEPT ![r] = l]
             /\ l = "answer400" => kind[r] = "POST"
      BY <1>8 DEF Exchange, Goto
    <2>3. kind[r] # "empty" /\ Holds(r) /\ ~strayed'
      BY <2>1 DEF Hands, Stages, Holds, Running
    <2>4. QED
      BY <2>1, <2>2, <2>3, DestructorHands
  <1>9. ASSUME NEW r \in Clients, ExchangeThrows(r)
        PROVE  Hands'
    <2>1. kind[r] = "GET"
      BY <1>2, <1>9 DEF ExchangeThrows
    <2>2. /\ Running /\ CloseClient(r) /\ pc[r] = "exchange"
          /\ UNCHANGED <<accepted, main, fd, kind>>
          /\ pc' = [pc EXCEPT ![r] = "close"]
      BY <1>9, <2>1 DEF ExchangeThrows, At, Goto, loop, request
    <2>3. Holds(r) /\ ~strayed'
      BY <2>2 DEF Holds, Running
    <2>4. QED
      BY <2>2, <2>3, DestructorHands
  <1>10. ASSUME NEW r \in Clients, Destroy(r)
         PROVE  Hands'
    <2>1. /\ Running /\ CloseClient(r)
          /\ UNCHANGED <<accepted, main, fd, kind>> /\ ~strayed'
      BY <1>10 DEF Destroy, At, loop, request, Running
    <2>2. CASE pc[r] = "destroy" /\ pc' = [pc EXCEPT ![r] = "done"]
      <3>1. ~Holds(r)
        BY <2>2 DEF Holds
      <3>2. QED
        BY <2>1, <2>2, <3>1, DestructorHands
    <2>3. CASE pc[r] = "leave" /\ pc' = [pc EXCEPT ![r] = "left"]
      <3>1. Holds(r) /\ kind[r] = "CONNECT"
        BY <2>1, <2>3 DEF Holds, Hands, Stages
      <3>2. QED
        BY <2>1, <2>3, <3>1, DestructorHands
    <2>4. QED
      BY <1>10, <2>2, <2>3 DEF Destroy, At, Goto
  <1>11. QED
    BY <1>1, <1>2, <1>3, <1>4, <1>5, <1>6, <1>7, <1>8, <1>9, <1>10
       DEF Next, Thread, Fails, FollowsNull, BrokenPipe

-----------------------------------------------------------------------------
(* What is promised.                                                        *)

LEMMA StepAnswers ==
    ASSUME TypeOK, NoForeignAnswer, Running => Hands, [Next]_vars
    PROVE  NoForeignAnswer'
  <1>1. CASE UNCHANGED answers
    BY <1>1 DEF NoForeignAnswer
  <1>2. ASSUME NEW r \in Clients, Answer(r)
        PROVE  NoForeignAnswer'
    <2>1. Running /\ pc[r] \in {"answer", "answer400", "refuse", "ack"}
      BY <1>2 DEF Answer, Then
    <2>2. file[fd[r]] = <<"client", r>>
      BY <2>1 DEF Hands, Owners, Holds
    <2>3. answers' = answers \/ answers' = [answers EXCEPT ![r] = @ \union {r}]
      BY <1>2, <2>2 DEF Answer
    <2>4. QED
      BY <2>3 DEF NoForeignAnswer, TypeOK
  <1>3. CASE ~\E r \in Clients : Answer(r)
    <2>1. UNCHANGED answers
      BY <1>3 DEF Next, Main, Thread, Fails, Connect, Speak, Leave, Accept, RecvData, RecvFails,
         Create, Handle, NoSocket, Socket, Exchange, EndTunnel, Close, Destroy, PortThrows,
         FollowsNull, NoAddress, ExchangeThrows, AnswerFails, BrokenPipe, Throw, Terminate, vars
    <2>2. QED
      BY <1>1, <2>1
  <1>4. QED
    BY <1>2, <1>3

-----------------------------------------------------------------------------
\* In every state until the process ends or a Client closes a stranger's number,
\* every connection is in the hands of the accept loop, of the one thread that has
\* to close it, or of a path that is known to leak.
THEOREM IInvAlways == Spec => []IInv
  <1>1. IInv /\ [Next]_vars => IInv'
    <2> SUFFICES ASSUME IInv, [Next]_vars PROVE IInv'
      OBVIOUS
    <2>0. TypeOK /\ NoForeignAnswer /\ (Running => Hands)
      BY DEF IInv
    <2>1. TypeOK'
      BY <2>0, StepType
    <2>2. NoForeignAnswer'
      BY <2>0, StepAnswers
    <2>3. Running' => Hands'
      BY <2>0, <2>1, StepHands
    <2>4. QED
      BY <2>1, <2>2, <2>3 DEF IInv
  <1>2. QED
    BY <1>1, InitIInv, PTL DEF Spec

\* The variables of the accept loop and of its threads keep their types.
THEOREM TypeCorrect == Spec => []TypeOK
  <1>1. IInv => TypeOK
    BY DEF IInv
  <1>2. QED
    BY <1>1, IInvAlways, PTL

\* The number in client_connection_fd stands for its own client as long as handle
\* and its handlers use it, the one in sockfd for its own web server, and no open
\* connection of a client is forgotten except on the paths that never close.
THEOREM EveryConnectionAccounted == Spec => []Accounted
  <1>1. IInv => Accounted
    <2> SUFFICES ASSUME TypeOK, Hands PROVE Accounted
      BY DEF IInv, Accounted
    <2>1. \A r \in Clients : Holds(r) => file[fd[r]] = <<"client", r>>
      BY DEF Hands, Owners
    <2>2. \A r \in Clients : HoldsUp(r) => file[sockfd[r]] = <<"up", r>>
      BY DEF Hands, Owners
    <2>3. \A r \in Clients : pc[r] = "left" => Leaks(r)
      BY DEF Hands, Stages
    <2>4. \A f \in Fds : file[f][1] = "client" =>
             \/ main.at # "accept" /\ main.fd = f
             \/ \E r \in Clients : Holds(r) /\ fd[r] = f
      BY DEF Hands, Owners
    <2>5. QED
      BY <2>1, <2>2, <2>3, <2>4 DEF Accounted
  <1>2. QED
    BY <1>1, IInvAlways, PTL

\* With any number of clients, and numbers used again as soon as close frees them,
\* sendMsgFromProxy never sends a client the answer to another's request.
THEOREM NoAnswerGoesAstray == Spec => []NoForeignAnswer
  <1>1. IInv => NoForeignAnswer
    BY DEF IInv
  <1>2. QED
    BY <1>1, IInvAlways, PTL

=============================================================================
