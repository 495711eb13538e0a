------------------------------ MODULE Upstream -------------------------------
(***************************************************************************)
(* One exchange with the web server (Proxy.cpp: sendMsgToWebserver,         *)
(* recvAllData, sendMsgFromProxy; client.cpp) piece by piece, and the two   *)
(* handlers that only pass its result on: handlePOST and, for GET, the end  *)
(* of nonConditionalReq for a request that forbids caching.  The other      *)
(* paths of GET are in module GetHandler, which takes a response as whole:  *)
(* WholeWhenHeaderWhole says when it may.                                   *)
(*                                                                          *)
(* The web server is external: it sends a part of its response (all of it,  *)
(* as a rule), in pieces of any size, and closes the connection at last.    *)
(***************************************************************************)
EXTENDS ResponseText

CONSTANTS
    Replies,        \* the responses there may be
    RequestSize,    \* units of the request's text
    MaxRecv,        \* units one recv returns at most
    MaxShort        \* bound: sends that return early in an exchange

ASSUME ReplyAssumption == Replies \subseteq Reply

ASSUME SizeAssumption ==
    RequestSize \in Nat \ {0} /\ MaxRecv \in Nat \ {0} /\ MaxShort \in Nat

\* A response has a Content-Length or is chunked, and nothing follows its body.
ASSUME FramingAssumption ==
    \A d \in Replies :
       Has(d, "length") => ~Has(d, "chunked") /\ d.length >= d.data

VARIABLES
    handler,    \* which of the two handlers runs
    reply,      \* external: the response of the web server
    limit,      \* external: how much of it the web server sends
    closed,     \* external: the web server has closed the connection
    pc,         \* where the thread is
    received,   \* units of the response recv has returned so far
    got,        \* the HttpResponse in hand
    msgCurSize, \* recvAllData's local
    sending,    \* the arguments of sendMsgFromProxy or sendRequest
    out,        \* what has been sent to the browser, in order
    first,      \* history: units the first recv returned
    short       \* history: sends that returned early

server  == <<reply, limit, closed>>
history == <<first, short>>
vars == <<handler, server, pc, received, got, msgCurSize, sending, out, history>>

\* A piece of a text: the response's own, a formed one's or the request's.
Piece == [text : {"reply", "400", "502", "request"}, from : Nat, upto : Nat]

NoPiece == [text |-> "request", from |-> 1, upto |-> 0]

SizeOf(p) == p.upto + 1 - p.from

\* Local computation goes on at `line`.
Goto(line) == pc' = line

\* send(p) is called and the thread continues at `line` when it returns.  The
\* loop of sendMsgFromProxy is not entered for an empty text.
SendThen(p, line) ==
    /\ sending' = [piece |-> p, done |-> 0, then |-> line]
    /\ Goto(IF SizeOf(p) = 0 THEN line ELSE "send")

Init ==
    /\ handler \in {"GET", "POST"}
    /\ reply \in Replies
    \* A POST whose body was not in the one piece Server::recvData read goes
    \* out without it, and the web server waits for it in vain: limit is 0.
    /\ limit \in 0..TextSize(reply)
    /\ closed = FALSE
    /\ pc = "connect"
    /\ received = 0
    /\ got = Formed("400")
    /\ msgCurSize = 0
    /\ sending = [piece |-> NoPiece, done |-> 0, then |-> "connect"]
    /\ out = <<>>
    /\ first = 0 /\ short = 0

\* An exception: handleGET catches it, nobody does for handlePOST and
\* std::terminate ends the process.
Throw == Goto(IF handler = "GET" THEN "close" ELSE "died")

-----------------------------------------------------------------------------
(* The request.                                                             *)

\* Client::Client: no address, no socket or no connection.
ConnectFails ==
    /\ pc = "connect"
    /\ got' = Formed("400")
    /\ Goto("reply")
    /\ UNCHANGED <<handler, server, received, msgCurSize, sending, out, history>>

Connect ==
    /\ pc = "connect"
    /\ SendThen([text |-> "request", from |-> 1, upto |-> RequestSize], "first")
    /\ UNCHANGED <<handler, server, received, got, msgCurSize, out, history>>

-----------------------------------------------------------------------------
(* The loop that sends, the same in sendMsgFromProxy and sendRequest.       *)

\* send returns after some of the text.  The loop goes on until as many
\* units have been sent as the text has, each time from its first unit on.
Send ==
    /\ pc = "send"
    /\ LET p == sending.piece IN
       \E n \in 1..SizeOf(p) :
          /\ n < SizeOf(p) => short < MaxShort
          /\ short' = IF n < SizeOf(p) THEN short + 1 ELSE short
          /\ out' = IF p.text = "request" THEN out
                    ELSE Append(out, [p EXCEPT !.upto = p.from + n - 1])
          /\ sending' = [sending EXCEPT !.done = @ + n]
          /\ Goto(IF sending.done + n >= SizeOf(p) THEN sending.then ELSE "send")
    /\ UNCHANGED <<handler, server, received, got, msgCurSize, first>>

\* The other side is gone.  Of the two calls only the one that sends the
\* request is in a try block.
SendFails ==
    /\ pc = "send"
    /\ IF sending.piece.text = "request"
       THEN got' = Formed("400") /\ Goto("reply")
       ELSE UNCHANGED got /\ Throw
    /\ UNCHANGED <<handler, server, received, msgCurSize, sending, out, history>>

-----------------------------------------------------------------------------
(* The response.                                                            *)

\* What recv may return: some of what is on the way, 0 after the end.
Received ==
    IF received < limit
    THEN {n \in 1..MaxRecv : received + n <= limit}
    ELSE {n \in {0} : closed}

FromReply(from, upto) == [text |-> "reply", from |-> from, upto |-> upto]

\* Mutant: the body that came with the header is not counted.
RecvFirstUncounted ==
    /\ pc = "first"
    /\ \E n \in Received :
          LET r == HttpResponse(reply, n) IN
          /\ received' = n
          /\ first' = n
          /\ got' = r
          /\ msgCurSize' = 0
          /\ IF r.isChunked
             THEN SendThen(FromReply(1, n), "chunks")
             ELSE /\ Goto(IF r.msgBodySize < r.msgContentLength THEN "rest" ELSE "reply")
                  /\ UNCHANGED sending
    /\ UNCHANGED <<handler, server, out, short>>

\* The first piece is parsed and decides what is done next.
RecvFirst ==
    /\ pc = "first"
    /\ \E n \in Received :
          LET r == HttpResponse(reply, n) IN
          /\ received' = n
          /\ first' = n
          /\ got' = r
          /\ msgCurSize' = r.msgBodySize
          /\ IF r.isChunked
             THEN SendThen(FromReply(1, n), "chunks")
             ELSE /\ Goto(IF r.msgBodySize < r.msgContentLength THEN "rest" ELSE "reply")
                  /\ UNCHANGED sending
    /\ UNCHANGED <<handler, server, out, short>>

\* The loop over the other pieces of a chunked response.  It does not look at
\* the first one, and an empty piece goes round for ever.
RecvChunk ==
    /\ pc = "chunks"
    /\ \E n \in Received :
          /\ received' = received + n
          /\ SendThen(FromReply(received + 1, received + n),
                      IF FindsLastChunk(reply, received + 1, received + n)
                      THEN "reply" ELSE "chunks")
    /\ UNCHANGED <<handler, server, got, msgCurSize, out, history>>

\* recvAllData goes on until the body is as long as announced, or ends early.
\* Mutants: the text is taken as it is; recv is called again.
RecvRestTakesAny ==
    /\ pc = "rest"
    /\ \E n \in Received :
          /\ received' = received + n
          /\ msgCurSize' = msgCurSize + n
          /\ IF n > 0 /\ msgCurSize' < got.msgContentLength
             THEN UNCHANGED got /\ UNCHANGED pc
             ELSE got' = HttpResponse(reply, received') /\ Goto("reply")
    /\ UNCHANGED <<handler, server, sending, out, history>>

RecvRestInsists ==
    /\ pc = "rest"
    /\ \E n \in Received :
          /\ received' = received + n
          /\ msgCurSize' = msgCurSize + n
          /\ IF msgCurSize' < got.msgContentLength
             THEN UNCHANGED got /\ UNCHANGED pc
             ELSE got' = HttpResponse(reply, received') /\ Goto("reply")
    /\ UNCHANGED <<handler, server, sending, out, history>>

RecvRest ==
    /\ pc = "rest"
    /\ \E n \in Received :
          /\ received' = received + n
          /\ msgCurSize' = msgCurSize + n
          /\ CASE n = 0 -> got' = Formed("502") /\ Goto("reply")
               [] n > 0 /\ msgCurSize' < got.msgContentLength ->
                     UNCHANGED got /\ UNCHANGED pc
               [] n > 0 /\ msgCurSize' >= got.msgContentLength ->
                     got' = HttpResponse(reply, received') /\ Goto("reply")
    /\ UNCHANGED <<handler, server, sending, out, history>>

\* recv fails.  recvAllData keeps the -1 in a size_t, which is not <= 0, and
\* the string it then asks for is longer than any: an exception all the same.
RecvFails ==
    /\ pc \in {"first", "chunks", "rest"}
    /\ Throw
    /\ UNCHANGED <<handler, server, received, got, msgCurSize, sending, out, history>>

-----------------------------------------------------------------------------
(* What the handlers do with it.                                            *)

RawText == [text |-> got.text, from |-> 1, upto |-> got.size]

\* Mutant of PassOn: a chunked response is not looked for.
PassOnAgain ==
    /\ pc = "reply" /\ handler = "GET"
    /\ SendThen(RawText, "close")
    /\ UNCHANGED <<handler, server, received, got, msgCurSize, out, history>>

\* nonConditionalReq with a request that is private or no-store.
PassOn ==
    /\ pc = "reply" /\ handler = "GET"
    /\ IF got.isChunked
       THEN Goto("close") /\ UNCHANGED sending
       ELSE SendThen(RawText, "close")
    /\ UNCHANGED <<handler, server, received, got, msgCurSize, out, history>>

\* handlePOST: the text is sent, chunked or not, and after a 400 the
\* browser's connection stays open.
Post ==
    /\ pc = "reply" /\ handler = "POST"
    /\ SendThen(RawText, IF got.statusCode = "400" THEN "left" ELSE "close")
    /\ UNCHANGED <<handler, server, received, got, msgCurSize, out, history>>

Close ==
    /\ pc = "close"
    /\ Goto("done")
    /\ UNCHANGED <<handler, server, received, got, msgCurSize, sending, out, history>>

Closes ==
    /\ ~closed
    /\ closed' = TRUE
    /\ UNCHANGED <<handler, reply, limit, pc, received, got, msgCurSize, sending,
                   out, history>>

Runs ==
    \/ Connect \/ Send \/ RecvFirst \/ RecvChunk \/ RecvRest
    \/ PassOn \/ Post \/ Close

Fails == ConnectFails \/ SendFails \/ RecvFails

Next == Runs \/ Fails \/ Closes

Spec == Init /\ [][Next]_vars

\* The operating system runs the thread, and no failure has to happen; a web
\* server that has no more to say closes the connection in the end, as recv
\* waits without a limit.
FairSpec == Spec /\ WF_vars(Runs) /\ WF_vars(Closes)

-----------------------------------------------------------------------------
(* Properties.                                                              *)

\* Every variable has its type.
TypeOK ==
    /\ handler \in {"GET", "POST"}
    /\ reply \in Replies
    /\ limit \in 0..TextSize(reply)
    /\ closed \in BOOLEAN
    /\ pc \in {"connect", "send", "first", "chunks", "rest", "reply", "close",
               "done", "left", "died"}
    /\ received \in 0..limit /\ first \in 0..limit
    /\ got \in ParsedResponse
    /\ msgCurSize \in Nat
    /\ sending \in [piece : Piece, done : Nat,
                    then : {"connect", "first", "chunks", "reply", "close", "left"}]
    /\ out \in Seq(Piece)
    /\ short \in 0..MaxShort

\* The thread has the result of sendMsgToWebserver.
Returned == pc \in {"reply", "close", "done", "left"}

HeaderInFirst == first >= HeaderSize(reply)

\* When the whole header was in the first piece, a response with a
\* Content-Length is returned whole, to the last unit, or not at all, however
\* the rest is cut into pieces; and its fields are the ones that were sent.  (A
\* header that is cut is the code's weak point: the response may then be
\* short, and a private not seen.)
WholeWhenHeaderWhole ==
    (pc = "reply" /\ got.text = "reply" /\ HeaderInFirst) =>
       /\ got.private <=> Has(reply, "private")
       /\ Has(reply, "length") => got.size = TextSize(reply)

\* A chunked response is passed on to its end before the loop is left, unless
\* its data looks like a last chunk.
ChunkedToTheEnd ==
    (pc = "reply" /\ got.isChunked) =>
       received = TextSize(reply) \/ reply.likeLast

\* 502 is for a response that broke off.  The one exception is a 304 with a
\* Content-Length, whose body recvAllData waits for until the connection ends.
BadGatewayMeansCut ==
    (Returned /\ got.text = "502") =>
       limit < TextSize(reply) \/ reply.length > reply.data

\* Each piece begins where the one before it ended.
Contiguous ==
    \A i \in 1..Len(out) :
       out[i].from = IF i = 1 THEN 1 ELSE out[i - 1].upto + 1

\* What the browser gets is the beginning of one text, nothing missing, twice
\* or out of order, over both ways the code has to send it.  Not so when a
\* send returned early, and for a chunked response to a POST, whose first
\* piece is sent once more at the end.
BrowserGetsPrefix ==
    (short = 0 /\ ~(handler = "POST" /\ got.isChunked)) =>
       /\ Contiguous
       /\ \A i \in 1..Len(out) : out[i].text = got.text

Spinning == pc = "chunks" /\ closed /\ received = limit

\* The last chunk never was in one piece other than the first.
LastChunkMissed ==
    \/ limit < TextSize(reply)
    \/ first >= TextSize(reply) - 1
    \/ \E i \in 1..Len(out) : out[i].upto = TextSize(reply) - 1

\* An exchange is over in the end, whatever the web server leaves out.  Only
\* the chunk loop may go on for ever, and only when the last chunk was cut
\* off, cut in two or in the first piece.
ExchangeEnds ==
    <>(pc \in {"done", "left", "died"} \/ (Spinning /\ LastChunkMissed))

=============================================================================
