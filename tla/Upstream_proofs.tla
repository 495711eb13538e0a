--------------------------- MODULE Upstream_proofs ----------------------------
(***************************************************************************)
(* Proofs about module Upstream, for every set of responses, every cut of a *)
(* response into pieces and every place it may break off at: a response      *)
(* whose header came in one piece is whole, a 502 means a cut, and what the *)
(* browser gets is the beginning of one text.                               *)
(***************************************************************************)
EXTENDS Upstream, TLAPS

\* The response has not begun.
Before ==
    pc \in {"connect", "first"} \/ (pc = "send" /\ sending.then = "first")

\* Which result is in hand at which line.
Stage ==
    /\ Before => got = Formed("400")
    /\ pc = "send" => /\ sending.then # "connect"
                      /\ sending.then = "first" <=> sending.piece.text = "request"
    /\ (pc = "chunks" \/ (pc = "send" /\ sending.then \in {"chunks", "reply"})) =>
          got.isChunked
    /\ got.isChunked => got.text = "reply" /\ Has(reply, "chunked")

\* What recvAllData has counted: the body that was taken to be in the first
\* piece and everything after it.
Rest ==
    pc = "rest" =>
       /\ Has(reply, "length") /\ ~got.isChunked
       /\ first <= received
       /\ got.msgContentLength = ContentLength(reply, first)
       /\ msgCurSize = MsgBodySize(reply, first) + (received - first)
       /\ msgCurSize < got.msgContentLength

\* WholeWhenHeaderWhole, from the first piece on.
Whole ==
    (got.text = "reply" /\ HeaderInFirst) =>
       /\ got.private <=> Has(reply, "private")
       /\ (pc = "reply" /\ Has(reply, "length")) => got.size = TextSize(reply)

Cut == got.text = "502" => limit < TextSize(reply) \/ reply.length > reply.data

LastChunk ==
    (got.isChunked /\ (pc = "reply" \/ (pc = "send" /\ sending.then = "reply"))) =>
       received = TextSize(reply) \/ reply.likeLast

\* How far the browser has got.
Reached == IF out = <<>> THEN 0 ELSE out[Len(out)].upto

\* BrowserGetsPrefix, and that the next piece begins where the browser is.
Sent ==
    (short = 0 /\ ~(handler = "POST" /\ got.isChunked)) =>
       /\ Contiguous
       /\ \A i \in 1..Len(out) : out[i].text = got.text
       /\ (Before \/ pc = "rest" \/ (pc = "reply" /\ ~got.isChunked)) => out = <<>>
       /\ pc = "chunks" => Reached = received
       /\ pc = "send" =>
             /\ sending.done = 0
             /\ sending.piece.text # "request" =>
                   sending.piece.text = got.text /\ sending.piece.from = Reached + 1
             /\ sending.then = "chunks" => sending.piece.upto = received

IInv == TypeOK /\ Stage /\ Rest /\ Whole /\ Cut /\ LastChunk /\ Sent

-----------------------------------------------------------------------------
(* The parser.                                                              *)

LEMMA Sizes ==
    ASSUME NEW d \in Reply
    PROVE  /\ HeaderSize(d) \in Nat /\ TextSize(d) \in Nat
           /\ HeaderSize(d) >= 3
           /\ TextSize(d) >= HeaderSize(d) + d.data
           /\ ~Has(d, "chunked") => TextSize(d) = HeaderSize(d) + d.data
  BY DEF Reply, HeaderSize, TextSize

\* A part of a number's digits is no larger a number.
LEMMA Half ==
    ASSUME NEW k \in Nat
    PROVE  k \div 2 \in 0..k
  OBVIOUS

\* What is taken for the length and for the body, wherever the text is cut.
LEMMA Lengths ==
    ASSUME NEW d \in Reply, NEW n \in Nat
    PROVE  /\ ContentLength(d, n) \in Nat
           /\ ContentLength(d, n) <= d.length
           /\ ContentLength(d, n) > 0 => Has(d, "length")
           /\ MsgBodySize(d, n) \in Nat
  <1>1. d.length \in Nat /\ d.length \div 2 \in 0..d.length
    BY Half DEF Reply
  <1>2. "length" \in HeaderMap(d, n) => Has(d, "length")
    BY DEF HeaderMap, Has
  <1>3. /\ ContentLength(d, n) \in 0..d.length
        /\ ContentLength(d, n) > 0 => Has(d, "length")
    BY <1>1, <1>2 DEF ContentLength, Has
  <1>4. ~Throws(d, n) => n >= 2
    BY DEF Throws
  <1>5. MsgBodySize(d, n) \in Nat
    BY <1>4, Sizes DEF MsgBodySize
  <1> QED BY <1>1, <1>3, <1>5

LEMMA Parsed ==
    ASSUME NEW d \in Reply, NEW n \in Nat
    PROVE  HttpResponse(d, n) \in ParsedResponse
  <1>1. d.status \in Statuses
    BY DEF Reply
  <1>2. ContentLength(d, n) \in Nat /\ MsgBodySize(d, n) \in Nat
    BY Lengths
  <1> QED BY <1>1, <1>2 DEF HttpResponse, ParsedResponse

LEMMA FormedParsed ==
    ASSUME NEW status \in {"400", "502"}
    PROVE  Formed(status) \in ParsedResponse
  BY DEF Formed, ParsedResponse, Statuses

\* A field is only found if it was sent.
LEMMA FoundWasSent ==
    ASSUME NEW d, NEW n, NEW f \in HeaderMap(d, n)
    PROVE  Has(d, f)
  BY DEF HeaderMap, Has

\* With the whole header the parser is right.
LEMMA HeaderWhole ==
    ASSUME NEW d \in Reply, NEW n \in Nat, n >= HeaderSize(d)
    PROVE  /\ \A f \in Fields : f \in HeaderMap(d, n) <=> Has(d, f)
           /\ MsgBodySize(d, n) = n - HeaderSize(d)
           /\ ContentLength(d, n) = IF Has(d, "length") THEN d.length ELSE 0
  <1>1. n >= 2 + 3 * Len(d.fields) + 1 /\ Len(d.fields) \in Nat
    BY DEF HeaderSize, Reply
  <1>2. \A i \in 1..Len(d.fields) : 2 + 3 * i <= n
    BY <1>1
  <1>3. \A f \in Fields : f \in HeaderMap(d, n) <=> Has(d, f)
    BY <1>2 DEF HeaderMap, Has
  <1>4. \A i, place : place \in {1, 2} => ~BreaksIn(d, n, i, place)
    BY <1>1 DEF BreaksIn
  <1>5. ~Throws(d, n)
    BY <1>1, <1>4 DEF Throws
  <1>6. MsgBodySize(d, n) = n - HeaderSize(d)
    BY <1>5, Sizes DEF MsgBodySize
  <1>7. ContentLength(d, n) = IF Has(d, "length") THEN d.length ELSE 0
    BY <1>3, <1>4 DEF ContentLength, Fields
  <1> QED BY <1>3, <1>6, <1>7

-----------------------------------------------------------------------------
(* What the actions are made of.                                            *)

Thens == {"connect", "first", "chunks", "reply", "close", "left"}

LEMMA SendThenType ==
    ASSUME NEW p \in Piece, NEW line \in Thens, SendThen(p, line)
    PROVE  /\ sending' \in [piece : Piece, done : Nat, then : Thens]
           /\ pc' \in {line, "send"}
           /\ sending'.piece = p /\ sending'.done = 0 /\ sending'.then = line
  BY DEF SendThen, Goto

LEMMA ReceivedType ==
    ASSUME TypeOK, NEW n \in Received
    PROVE  /\ n \in Nat /\ received \in Nat /\ limit \in Nat
           /\ received + n <= limit
           /\ n = 0 => received = limit
  <1>1. reply \in Reply
    BY ReplyAssumption DEF TypeOK
  <1>2. limit \in Nat /\ received \in 0..limit /\ MaxRecv \in Nat
    BY <1>1, Sizes, SizeAssumption DEF TypeOK
  <1> QED BY <1>2 DEF Received

LEMMA InitIInv == Init => IInv
  <1> SUFFICES ASSUME Init PROVE IInv
    OBVIOUS
  <1>1. reply \in Reply
    BY ReplyAssumption DEF Init
  <1>2. TextSize(reply) \in Nat /\ limit \in Nat
    BY <1>1, Sizes DEF Init
  <1>3. TypeOK
    <2>1. got \in ParsedResponse
      BY FormedParsed DEF Init
    <2>2. sending \in [piece : Piece, done : Nat,
                        then : {"connect", "first", "chunks", "reply", "close", "left"}]
      BY DEF Init, NoPiece, Piece
    <2>3. closed \in BOOLEAN
      BY Zenon DEF Init
    <2>4. out \in Seq(Piece) /\ short \in 0..MaxShort
      BY SizeAssumption DEF Init
    <2> QED BY <1>2, <2>1, <2>2, <2>3, <2>4 DEF Init, TypeOK
  <1>4. Stage /\ Rest /\ Whole /\ Cut /\ LastChunk
    BY DEF Init, Formed, Before, Stage, Rest, Whole, Cut, LastChunk
  <1>5. Sent
    BY DEF Init, Before, Sent, Contiguous
  <1> QED BY <1>3, <1>4, <1>5 DEF IInv

\* What every step has to hand.
LEMMA Bounds ==
    ASSUME TypeOK
    PROVE  /\ reply \in Reply /\ reply \in Replies
           /\ HeaderSize(reply) \in Nat /\ TextSize(reply) \in Nat
           /\ limit \in Nat /\ limit <= TextSize(reply)
           /\ received \in Nat /\ received <= limit
           /\ first \in Nat /\ first <= limit
  <1>1. reply \in Reply /\ reply \in Replies
    BY ReplyAssumption DEF TypeOK
  <1>2. HeaderSize(reply) \in Nat /\ TextSize(reply) \in Nat
    BY <1>1, Sizes
  <1> QED BY <1>1, <1>2 DEF TypeOK

\* Steps that send nothing and leave the result as it is, apart from the place.
LEMMA GotoSteps ==
    ASSUME IInv,
           UNCHANGED <<handler, reply, limit, received, got, msgCurSize, sending, out,
                       first, short>>,
           closed' \in BOOLEAN,
           pc' \in {"close", "done", "died"} \/ pc' = pc
    PROVE  IInv'
  <1>1. TypeOK'
    BY DEF IInv, TypeOK
  <1>2. Stage' /\ Rest' /\ Cut' /\ LastChunk'
    BY DEF IInv, Stage, Before, Rest, Cut, LastChunk
  <1>3. Whole'
    BY DEF IInv, Whole, HeaderInFirst
  <1>4. Sent'
    BY DEF IInv, Sent, Contiguous, Before, Reached
  <1> QED BY <1>1, <1>2, <1>3, <1>4 DEF IInv

\* A connection that was not made, and a request that was not sent.
LEMMA RefusedSteps ==
    ASSUME IInv, Before, got' = Formed("400"), pc' = "reply",
           UNCHANGED <<handler, server, received, msgCurSize, sending, out, history>>
    PROVE  IInv'
  <1> USE DEF server, history
  <1>1. got' \in ParsedResponse
    BY FormedParsed
  <1>2. TypeOK'
    BY <1>1 DEF IInv, TypeOK
  <1>3. Stage' /\ Rest' /\ Whole' /\ Cut' /\ LastChunk'
    BY DEF IInv, Stage, Before, Rest, Whole, Cut, LastChunk, Formed
  <1>4. Sent'
    BY DEF IInv, Stage, Sent, Contiguous, Before, Formed
  <1> QED BY <1>2, <1>3, <1>4 DEF IInv

LEMMA ConnectStep ==
    ASSUME IInv, Connect
    PROVE  IInv'
  <1> DEFINE p == [text |-> "request", from |-> 1, upto |-> RequestSize]
  <1> USE DEF server, history
  <1>1. p \in Piece /\ SendThen(p, "first") /\ pc = "connect"
    BY SizeAssumption DEF Connect, Piece
  <1>2. /\ sending' \in [piece : Piece, done : Nat, then : Thens]
        /\ pc' \in {"first", "send"}
        /\ sending'.piece = p /\ sending'.done = 0 /\ sending'.then = "first"
    <2> HIDE DEF p
    <2> QED BY <1>1, SendThenType DEF Thens
  <1>3. UNCHANGED <<handler, server, received, got, msgCurSize, out, history>>
    BY DEF Connect
  <1>4. TypeOK'
    BY <1>2, <1>3 DEF IInv, TypeOK, Thens
  <1>5. Stage' /\ Rest' /\ Whole' /\ Cut' /\ LastChunk'
    BY <1>1, <1>2, <1>3 DEF IInv, Stage, Before, Rest, Whole, Cut, LastChunk, HeaderInFirst, Formed
  <1>6. Sent'
    BY <1>1, <1>2, <1>3 DEF IInv, Sent, Stage, Contiguous, Before, Formed
  <1> QED BY <1>4, <1>5, <1>6 DEF IInv

\* A piece that follows what has been sent.
LEMMA Follows ==
    ASSUME out \in Seq(Piece), NEW q \in Piece, out' = Append(out, q), Contiguous,
           q.from = Reached + 1
    PROVE  Contiguous' /\ Reached' = q.upto
  <1>1. /\ Len(out') = Len(out) + 1 /\ Len(out) \in Nat
        /\ \A i \in 1..Len(out) : out'[i] = out[i]
        /\ out'[Len(out) + 1] = q /\ out' # <<>>
        /\ out = <<>> <=> Len(out) = 0
    OBVIOUS
  <1>2. ASSUME NEW i \in 1..Len(out')
        PROVE  out'[i].from = IF i = 1 THEN 1 ELSE out'[i - 1].upto + 1
    <2>1. CASE i \in 1..Len(out)
      BY <1>1, <2>1 DEF Contiguous
    <2>2. CASE i = Len(out) + 1
      BY <1>1, <2>2 DEF Reached
    <2> QED BY <1>1, <2>1, <2>2
  <1> QED BY <1>1, <1>2 DEF Contiguous, Reached

LEMMA SendStep ==
    ASSUME IInv, Send
    PROVE  IInv'
  <1> DEFINE p == sending.piece
  <1> USE DEF server, history
  <1>1. PICK n \in 1..SizeOf(p) :
           /\ n < SizeOf(p) => short < MaxShort
           /\ short' = IF n < SizeOf(p) THEN short + 1 ELSE short
           /\ out' = IF p.text = "request" THEN out
                     ELSE Append(out, [p EXCEPT !.upto = p.from + n - 1])
           /\ sending' = [sending EXCEPT !.done = @ + n]
           /\ Goto(IF sending.done + n >= SizeOf(p) THEN sending.then ELSE "send")
    BY DEF Send
  <1>2. /\ p \in Piece /\ sending.done \in Nat
        /\ p.from \in Nat /\ p.upto \in Nat /\ SizeOf(p) \in Int /\ n \in Nat
        /\ sending.then \in Thens
    <2>1. p \in Piece /\ sending.done \in Nat /\ sending.then \in Thens
      BY DEF IInv, TypeOK, Thens
    <2>2. p.from \in Nat /\ p.upto \in Nat
      BY <2>1 DEF Piece
    <2>3. SizeOf(p) \in Int
      BY <2>2 DEF SizeOf
    <2>4. n \in Nat
      BY <2>3
    <2> QED BY <2>1, <2>2, <2>3, <2>4
  <1>3. /\ sending' \in [piece : Piece, done : Nat, then : Thens]
        /\ sending'.piece = sending.piece /\ sending'.then = sending.then
        /\ sending'.done = sending.done + n
    <2>1. sending \in [piece : Piece, done : Nat, then : Thens]
      BY DEF IInv, TypeOK, Thens
    <2>2. sending' = [sending EXCEPT !.done = sending.done + n]
      BY <1>1
    <2>3. sending.done + n \in Nat
      BY <1>2
    <2> HIDE DEF p
    <2> QED BY <2>1, <2>2, <2>3
  <1>4. /\ pc = "send" /\ pc' \in {"send", sending.then}
        /\ UNCHANGED <<handler, server, received, got, msgCurSize, first>>
    BY <1>1 DEF Send, Goto
  <1>5. short' \in 0..MaxShort /\ (short' = 0 => short = 0 /\ n = SizeOf(p))
    <2>1. short \in 0..MaxShort /\ MaxShort \in Nat
      BY SizeAssumption DEF IInv, TypeOK
    <2> HIDE DEF p
    <2> QED BY <1>1, <1>2, <2>1
  <1>6. /\ [p EXCEPT !.upto = p.from + n - 1] \in Piece
        /\ n = SizeOf(p) => [p EXCEPT !.upto = p.from + n - 1] = p
    BY <1>2 DEF Piece, SizeOf
  <1>7. out' \in Seq(Piece)
    BY <1>1, <1>6 DEF IInv, TypeOK
  <1>8. TypeOK'
    <2>1. pc' \in {"send", "first", "chunks", "reply", "close", "left", "connect"}
      BY <1>2, <1>4 DEF Thens
    <2> HIDE DEF p
    <2> QED BY <1>3, <1>4, <1>5, <1>7, <2>1 DEF IInv, TypeOK, Thens
  <1>9. Stage' /\ Rest' /\ Whole' /\ Cut' /\ LastChunk'
    <2> HIDE DEF p
    <2>1. sending.then \in Thens /\ sending.then # "connect"
      <3>1. sending.then # "connect"
        BY <1>4 DEF IInv, Stage
      <3> QED BY <1>2, <3>1
    <2>2. pc' # "rest" /\ pc' # "connect"
      BY <1>4, <2>1 DEF Thens
    <2>3. Stage'
      BY <1>3, <1>4, <2>1 DEF IInv, Stage, Before, Thens
    <2>4. Rest' /\ Cut' /\ LastChunk'
      BY <1>3, <1>4, <2>1, <2>2 DEF IInv, Stage, Rest, Cut, LastChunk, Thens
    <2>5. Whole'
      <3>1. reply \in Replies
        BY DEF IInv, TypeOK
      <3>2. pc' = "reply" => Has(reply, "chunked")
        BY <1>4, <2>1 DEF IInv, Stage
      <3> QED BY <1>4, <3>1, <3>2, FramingAssumption DEF IInv, Whole, HeaderInFirst
    <2> QED BY <2>3, <2>4, <2>5
  <1>10. Sent'
    <2> SUFFICES ASSUME short' = 0, ~(handler = "POST" /\ got.isChunked)
                 PROVE  Sent'
      BY <1>4 DEF Sent
    <2>1. short = 0 /\ n = SizeOf(p) /\ sending.done = 0
      <3> HIDE DEF p
      <3> QED BY <1>4, <1>5 DEF IInv, Sent
    <2>2. pc' = sending.then
      BY <1>1, <1>2, <2>1 DEF Goto
    <2>3. CASE p.text = "request"
      BY <1>1, <1>2, <1>4, <2>1, <2>2, <2>3
         DEF IInv, Sent, Stage, Before, Contiguous, Thens
    <2>4. CASE p.text # "request"
      <3>1. /\ out' = Append(out, p) /\ p.text = got.text /\ p.from = Reached + 1
            /\ out \in Seq(Piece) /\ Contiguous
            /\ \A i \in 1..Len(out) : out[i].text = got.text
            /\ sending.then = "chunks" => p.upto = received
            /\ sending.then \notin {"connect", "first"}
            /\ sending.then = "reply" => got.isChunked
        <4>1. out' = Append(out, p)
          BY <1>1, <1>6, <2>1, <2>4
        <4>2. /\ p.text = got.text /\ p.from = Reached + 1 /\ Contiguous
              /\ \A i \in 1..Len(out) : out[i].text = got.text
              /\ sending.then = "chunks" => p.upto = received
          BY <1>4, <2>1, <2>4 DEF IInv, Sent
        <4>3. sending.then \notin {"connect", "first"}
          BY <1>4, <2>4 DEF IInv, Stage
        <4>4. sending.then = "reply" => got.isChunked
          BY <1>4 DEF IInv, Stage
        <4>5. out \in Seq(Piece)
          BY DEF IInv, TypeOK
        <4> HIDE DEF p
        <4> QED BY <4>1, <4>2, <4>3, <4>4, <4>5
      <3>2. Contiguous' /\ Reached' = p.upto
        <4> HIDE DEF p
        <4> QED BY <1>2, <3>1, Follows
      <3>3. \A i \in 1..Len(out') : out'[i].text = got'.text
        BY <1>4, <3>1
      <3>4. ~Before' /\ pc' # "rest" /\ pc' # "send"
        BY <1>2, <2>2, <3>1 DEF Before, Thens
      <3> QED BY <1>4, <2>2, <3>1, <3>2, <3>3, <3>4 DEF Sent
    <2> QED BY <2>3, <2>4
  <1> QED BY <1>8, <1>9, <1>10 DEF IInv

LEMMA SendFailsStep ==
    ASSUME IInv, SendFails
    PROVE  IInv'
  <1>1. CASE sending.piece.text = "request"
    <2>1. Before
      BY <1>1 DEF IInv, Stage, Before, SendFails
    <2> QED BY <1>1, <2>1, RefusedSteps DEF SendFails, Goto
  <1>2. CASE sending.piece.text # "request"
    <2>1. closed' \in BOOLEAN
      BY DEF SendFails, server, IInv, TypeOK
    <2> QED BY <1>2, <2>1, GotoSteps DEF SendFails, Throw, Goto, server, history
  <1> QED BY <1>1, <1>2

\* The fields of what the parser makes of n units.
LEMMA ResponseFields ==
    ASSUME NEW d, NEW n
    PROVE  /\ HttpResponse(d, n).text = "reply"
           /\ HttpResponse(d, n).size = n
           /\ HttpResponse(d, n).isChunked = ("chunked" \in HeaderMap(d, n))
           /\ HttpResponse(d, n).private = ("private" \in HeaderMap(d, n))
           /\ HttpResponse(d, n).msgContentLength = ContentLength(d, n)
           /\ HttpResponse(d, n).msgBodySize = MsgBodySize(d, n)
  BY Zenon DEF HttpResponse

LEMMA RecvFirstStep ==
    ASSUME IInv, RecvFirst
    PROVE  IInv'
  <1> USE DEF server, history
  <1>1. PICK n \in Received :
           LET r == HttpResponse(reply, n) IN
           /\ received' = n
           /\ first' = n
           /\ got' = r
           /\ msgCurSize' = r.msgBodySize
           /\ IF r.isChunked
              THEN SendThen(FromReply(1, n), "chunks")
              ELSE /\ Goto(IF r.msgBodySize < r.msgContentLength THEN "rest" ELSE "reply")
                   /\ UNCHANGED sending
    BY DEF RecvFirst
  <1>2. /\ pc = "first" /\ UNCHANGED <<handler, reply, limit, closed, out, short>>
        /\ got = Formed("400") /\ TypeOK
    BY DEF RecvFirst, IInv, Stage, Before
  <1>3. /\ reply \in Reply /\ reply \in Replies /\ n \in Nat /\ n <= limit
        /\ limit \in Nat /\ limit <= TextSize(reply) /\ TextSize(reply) \in Nat
        /\ HeaderSize(reply) \in Nat
    BY <1>2, Bounds, ReceivedType
  <1>4. /\ got' \in ParsedResponse /\ got'.text = "reply" /\ got'.size = n
        /\ got'.isChunked = ("chunked" \in HeaderMap(reply, n))
        /\ got'.private = ("private" \in HeaderMap(reply, n))
        /\ got'.msgContentLength = ContentLength(reply, n)
        /\ got'.msgBodySize = MsgBodySize(reply, n)
        /\ msgCurSize' = MsgBodySize(reply, n)
    BY <1>1, <1>3, Parsed, ResponseFields
  <1>5. /\ ContentLength(reply, n) \in Nat /\ MsgBodySize(reply, n) \in Nat
        /\ ContentLength(reply, n) > 0 => Has(reply, "length")
    BY <1>3, Lengths
  <1>6. got'.isChunked => Has(reply, "chunked")
    BY <1>4, FoundWasSent
  <1>7. n >= HeaderSize(reply) => (got'.private <=> Has(reply, "private"))
    BY <1>3, <1>4, HeaderWhole DEF Fields
  <1>8. received' \in 0..limit' /\ first' \in 0..limit' /\ msgCurSize' \in Nat
    BY <1>1, <1>2, <1>3, <1>4, <1>5
  <1>9. short = 0 => out = <<>> /\ Contiguous
    BY <1>2 DEF IInv, Sent, Before, Formed
  <1>10. CASE got'.isChunked
    <2>1. FromReply(1, n) \in Piece /\ SendThen(FromReply(1, n), "chunks")
      BY <1>1, <1>3, <1>10 DEF FromReply, Piece
    <2>2. /\ sending' \in [piece : Piece, done : Nat, then : Thens]
          /\ pc' \in {"chunks", "send"}
          /\ sending'.piece = FromReply(1, n) /\ sending'.done = 0
          /\ sending'.then = "chunks"
      BY <2>1, SendThenType DEF Thens
    <2>3. TypeOK'
      BY <1>2, <1>4, <1>8, <2>2 DEF TypeOK, Thens
    <2>4. Stage' /\ Rest' /\ Whole' /\ Cut' /\ LastChunk'
      BY <1>1, <1>2, <1>4, <1>6, <1>7, <1>10, <2>2
         DEF Stage, Before, Rest, Whole, Cut, LastChunk, HeaderInFirst, FromReply
    <2>5. /\ sending'.piece.from = 1 /\ sending'.piece.upto = n
          /\ sending'.piece.text = "reply"
      BY <2>2 DEF FromReply
    <2>6. short = 0 => Contiguous' /\ Reached' = 0 /\ out' = <<>>
      BY <1>2, <1>9 DEF Contiguous, Reached
    <2>7. pc' = "chunks" => n = 0
      BY <1>3, <2>1 DEF SendThen, Goto, SizeOf, FromReply
    <2>8. Sent'
      BY <1>1, <1>2, <1>3, <1>4, <2>2, <2>5, <2>6, <2>7 DEF Sent, Before
    <2> QED BY <2>3, <2>4, <2>8 DEF IInv
  <1>11. CASE ~got'.isChunked
    <2>1. /\ pc' = IF MsgBodySize(reply, n) < ContentLength(reply, n) THEN "rest" ELSE "reply"
          /\ UNCHANGED sending
      BY <1>1, <1>4, <1>11 DEF Goto
    <2>2. TypeOK'
      BY <1>2, <1>4, <1>8, <2>1 DEF TypeOK
    <2>3. Stage' /\ Cut' /\ LastChunk'
      BY <1>2, <1>4, <1>11, <2>1 DEF Stage, Before, Cut, LastChunk
    <2>4. Rest'
      BY <1>1, <1>2, <1>3, <1>4, <1>5, <1>11, <2>1 DEF Rest
    <2>5. Whole'
      <3>1. ASSUME n >= HeaderSize(reply), pc' = "reply", Has(reply, "length")
            PROVE  n = TextSize(reply)
        <4>1. /\ MsgBodySize(reply, n) = n - HeaderSize(reply)
              /\ ContentLength(reply, n) = reply.length
          BY <1>3, <3>1, HeaderWhole
        <4>2. /\ reply.length \in Nat /\ reply.data \in Nat /\ reply.length >= reply.data
              /\ TextSize(reply) = HeaderSize(reply) + reply.data
          BY <1>3, <3>1, FramingAssumption, Sizes DEF Reply
        <4> QED BY <1>3, <2>1, <3>1, <4>1, <4>2
      <3> QED BY <1>1, <1>2, <1>4, <1>7, <3>1 DEF Whole, HeaderInFirst
    <2>6. Sent'
      BY <1>2, <1>9, <2>1 DEF Sent, Before, Contiguous
    <2> QED BY <2>2, <2>3, <2>4, <2>5, <2>6 DEF IInv
  <1> QED BY <1>10, <1>11

LEMMA RecvChunkStep ==
    ASSUME IInv, RecvChunk
    PROVE  IInv'
  <1> USE DEF server, history
  <1>1. PICK n \in Received :
           /\ received' = received + n
           /\ SendThen(FromReply(received + 1, received + n),
                       IF FindsLastChunk(reply, received + 1, received + n)
                       THEN "reply" ELSE "chunks")
    BY DEF RecvChunk
  <1> DEFINE p == FromReply(received + 1, received + n)
             line == IF FindsLastChunk(reply, received + 1, received + n)
                     THEN "reply" ELSE "chunks"
  <1>2. /\ pc = "chunks" /\ TypeOK /\ got.isChunked
        /\ UNCHANGED <<handler, reply, limit, closed, got, msgCurSize, out, first, short>>
    BY DEF RecvChunk, IInv, Stage
  <1>3. got.text = "reply" /\ Has(reply, "chunked") /\ ~Has(reply, "length")
    BY <1>2, FramingAssumption DEF IInv, Stage, TypeOK
  <1>4. /\ n \in Nat /\ received \in Nat /\ limit \in Nat /\ TextSize(reply) \in Nat
        /\ received + n <= limit /\ limit <= TextSize(reply)
    BY <1>2, Bounds, ReceivedType
  <1>5. /\ p \in Piece /\ p.text = "reply" /\ p.from = received + 1
        /\ p.upto = received + n /\ line \in {"chunks", "reply"}
        /\ SendThen(p, line)
    BY <1>1, <1>4 DEF FromReply, Piece
  <1>6. /\ sending' \in [piece : Piece, done : Nat, then : Thens]
        /\ pc' \in {line, "send"}
        /\ sending'.piece = p /\ sending'.done = 0 /\ sending'.then = line
    <2> HIDE DEF p, line
    <2> QED BY <1>5, SendThenType DEF Thens
  <1>7. line = "reply" => received' = TextSize(reply) \/ reply.likeLast
    BY <1>1, <1>4 DEF FindsLastChunk
  <1> HIDE DEF p, line
  <1>8. received' \in 0..limit'
    BY <1>1, <1>2, <1>4
  <1>9. TypeOK'
    BY <1>2, <1>5, <1>6, <1>8 DEF TypeOK, Thens
  <1>10. Stage' /\ Rest' /\ Whole' /\ Cut' /\ LastChunk'
    BY <1>2, <1>3, <1>5, <1>6, <1>7
       DEF IInv, Stage, Before, Rest, Whole, Cut, LastChunk, HeaderInFirst
  <1>11. Sent'
    <2>1. pc' = "chunks" => n = 0
      BY <1>4, <1>5 DEF SendThen, Goto, SizeOf
    <2>2. Reached' = Reached /\ (Contiguous => Contiguous')
      BY <1>2 DEF Reached, Contiguous
    <2> QED BY <1>1, <1>2, <1>3, <1>4, <1>5, <1>6, <2>1, <2>2 DEF IInv, Sent, Before
  <1> QED BY <1>9, <1>10, <1>11 DEF IInv

\* A response that ends before its announced length did so because the web
\* server broke off, unless a length was announced for no body.
LEMMA EarlyEnd ==
    ASSUME TypeOK, Rest, pc = "rest", received = limit
    PROVE  limit < TextSize(reply) \/ reply.length > reply.data
  <1> SUFFICES ASSUME limit = TextSize(reply), reply.length <= reply.data
               PROVE  FALSE
    BY Bounds DEF TypeOK, Reply
  <1>1. /\ reply \in Reply /\ reply \in Replies /\ first \in Nat
        /\ reply.length \in Nat /\ reply.data \in Nat
        /\ HeaderSize(reply) \in Nat
    BY Bounds DEF Reply
  <1>2. /\ Has(reply, "length") /\ received >= first
        /\ MsgBodySize(reply, first) + (received - first) < ContentLength(reply, first)
    BY DEF Rest
  <1>3. TextSize(reply) = HeaderSize(reply) + reply.data
    BY <1>1, <1>2, FramingAssumption, Sizes
  <1>4. /\ ContentLength(reply, first) \in Nat /\ MsgBodySize(reply, first) \in Nat
        /\ ContentLength(reply, first) <= reply.length
    BY <1>1, Lengths
  <1>5. CASE first >= HeaderSize(reply)
    <2>1. MsgBodySize(reply, first) = first - HeaderSize(reply)
      BY <1>1, <1>5, HeaderWhole
    <2> QED BY <1>1, <1>2, <1>3, <1>4, <2>1
  <1>6. CASE first < HeaderSize(reply)
    BY <1>1, <1>2, <1>3, <1>4, <1>6
  <1> QED BY <1>1, <1>5, <1>6

LEMMA RecvRestStep ==
    ASSUME IInv, RecvRest
    PROVE  IInv'
  <1> USE DEF server, history
  <1>1. PICK n \in Received :
           /\ received' = received + n
           /\ msgCurSize' = msgCurSize + n
           /\ CASE n = 0 -> got' = Formed("502") /\ Goto("reply")
                [] n > 0 /\ msgCurSize' < got.msgContentLength ->
                      UNCHANGED got /\ UNCHANGED pc
                [] n > 0 /\ msgCurSize' >= got.msgContentLength ->
                      got' = HttpResponse(reply, received') /\ Goto("reply")
    BY DEF RecvRest
  <1>2. /\ pc = "rest" /\ TypeOK /\ Rest
        /\ UNCHANGED <<handler, reply, limit, closed, sending, out, first, short>>
    BY DEF RecvRest, IInv
  <1>3. /\ n \in Nat /\ received \in Nat /\ limit \in Nat /\ TextSize(reply) \in Nat
        /\ received + n <= limit /\ limit <= TextSize(reply)
        /\ n = 0 => received = limit
        /\ reply \in Reply /\ reply \in Replies
        /\ first \in Nat /\ HeaderSize(reply) \in Nat /\ msgCurSize \in Nat
    BY <1>2, Bounds, ReceivedType DEF TypeOK
  <1>4. /\ Has(reply, "length") /\ ~Has(reply, "chunked") /\ ~got.isChunked
        /\ first <= received /\ got.msgContentLength = ContentLength(reply, first)
        /\ msgCurSize = MsgBodySize(reply, first) + (received - first)
        /\ ContentLength(reply, first) \in Nat /\ MsgBodySize(reply, first) \in Nat
    BY <1>2, <1>3, FramingAssumption, Lengths DEF Rest
  <1>5. received' \in 0..limit' /\ msgCurSize' \in Nat /\ first' \in 0..limit'
    BY <1>1, <1>2, <1>3 DEF TypeOK
  <1>6. short = 0 => out = <<>> /\ Contiguous
    BY <1>2, <1>4 DEF IInv, Sent
  <1>7. CASE n = 0
    <2>1. got' = Formed("502") /\ pc' = "reply"
      BY <1>1, <1>3, <1>7 DEF Goto
    <2>2. got' \in ParsedResponse
      BY <2>1, FormedParsed
    <2>3. TypeOK'
      BY <1>2, <1>5, <2>1, <2>2 DEF TypeOK
    <2>4. limit < TextSize(reply) \/ reply.length > reply.data
      BY <1>2, <1>3, <1>7, EarlyEnd
    <2>5. Stage' /\ Rest' /\ Whole' /\ Cut' /\ LastChunk'
      BY <1>2, <2>1, <2>4 DEF Stage, Before, Rest, Whole, Cut, LastChunk, Formed
    <2>6. Sent'
      BY <1>2, <1>6, <2>1 DEF Sent, Contiguous
    <2> QED BY <2>3, <2>5, <2>6 DEF IInv
  <1>8. CASE n > 0 /\ msgCurSize' < got.msgContentLength
    <2>1. UNCHANGED <<got, pc>>
      <3>1. n # 0 /\ ~(n > 0 /\ msgCurSize' >= got.msgContentLength)
        BY <1>3, <1>4, <1>5, <1>8
      <3>2. UNCHANGED got /\ UNCHANGED pc
        BY <1>1, <1>8, <3>1
      <3> QED BY <3>2
    <2>2. TypeOK'
      BY <1>2, <1>5, <2>1 DEF TypeOK
    <2>3. Stage' /\ Whole' /\ Cut' /\ LastChunk'
      BY <1>2, <2>1 DEF IInv, Stage, Before, Whole, Cut, LastChunk, HeaderInFirst
    <2>4. Rest'
      BY <1>1, <1>2, <1>3, <1>4, <1>8, <2>1 DEF Rest
    <2>5. Sent'
      BY <1>2, <1>6, <2>1 DEF Sent, Contiguous
    <2> QED BY <2>2, <2>3, <2>4, <2>5 DEF IInv
  <1>9. CASE n > 0 /\ msgCurSize' >= got.msgContentLength
    <2>1. got' = HttpResponse(reply, received') /\ pc' = "reply" /\ received' \in Nat
      BY <1>1, <1>3, <1>9 DEF Goto
    <2>2. /\ got' \in ParsedResponse /\ got'.text = "reply" /\ got'.size = received'
          /\ got'.isChunked = ("chunked" \in HeaderMap(reply, received'))
          /\ got'.private = ("private" \in HeaderMap(reply, received'))
      BY <1>3, <2>1, Parsed, ResponseFields
    <2>3. ~got'.isChunked
      BY <1>4, <2>2, FoundWasSent
    <2>4. TypeOK'
      BY <1>2, <1>5, <2>1, <2>2 DEF TypeOK
    <2>5. Stage' /\ Rest' /\ Cut' /\ LastChunk'
      BY <1>2, <2>1, <2>2, <2>3 DEF Stage, Before, Rest, Cut, LastChunk
    <2>6. Whole'
      <3> SUFFICES ASSUME first >= HeaderSize(reply)
                   PROVE  /\ got'.private <=> Has(reply, "private")
                          /\ received' = TextSize(reply)
        BY <1>2, <2>2 DEF Whole, HeaderInFirst
      <3>1. received' >= HeaderSize(reply)
        BY <1>1, <1>3, <1>4
      <3>2. got'.private <=> Has(reply, "private")
        BY <1>3, <2>1, <2>2, <3>1, HeaderWhole DEF Fields
      <3>3. /\ MsgBodySize(reply, first) = first - HeaderSize(reply)
            /\ ContentLength(reply, first) = reply.length
        BY <1>3, <1>4, HeaderWhole
      <3>4. /\ reply.length \in Nat /\ reply.data \in Nat /\ reply.length >= reply.data
            /\ TextSize(reply) = HeaderSize(reply) + reply.data
        BY <1>3, <1>4, FramingAssumption, Sizes DEF Reply
      <3>5. received' = TextSize(reply)
        BY <1>1, <1>3, <1>4, <1>9, <3>3, <3>4
      <3> QED BY <3>2, <3>5
    <2>7. Sent'
      BY <1>2, <1>6, <2>1 DEF Sent, Contiguous, Before
    <2> QED BY <2>4, <2>5, <2>6, <2>7 DEF IInv
  <1> QED BY <1>3, <1>4, <1>5, <1>7, <1>8, <1>9

\* The text of a result is sent.
LEMMA ReplySteps ==
    ASSUME IInv, NEW line \in {"close", "left"}, pc = "reply",
           handler = "GET" => ~got.isChunked,
           SendThen(RawText, line),
           UNCHANGED <<handler, server, received, got, msgCurSize, out, history>>
    PROVE  IInv'
  <1> USE DEF server, history
  <1>1. /\ RawText \in Piece /\ RawText.text = got.text /\ RawText.from = 1
        /\ got.text # "request"
    BY DEF IInv, TypeOK, ParsedResponse, RawText, Piece
  <1>2. /\ sending' \in [piece : Piece, done : Nat, then : Thens]
        /\ pc' \in {line, "send"}
        /\ sending'.piece = RawText /\ sending'.done = 0 /\ sending'.then = line
    BY <1>1, SendThenType DEF Thens
  <1>3. TypeOK'
    BY <1>2 DEF IInv, TypeOK, Thens
  <1>4. Stage' /\ Rest' /\ Whole' /\ Cut' /\ LastChunk'
    BY <1>1, <1>2 DEF IInv, Stage, Before, Rest, Whole, Cut, LastChunk, HeaderInFirst
  <1>5. Sent'
    <2> SUFFICES ASSUME short = 0, ~(handler = "POST" /\ got.isChunked)
                 PROVE  Sent'
      BY DEF Sent
    <2>1. ~got.isChunked
      BY DEF IInv, TypeOK
    <2>2. out = <<>> /\ Contiguous
      BY <2>1 DEF IInv, Sent
    <2>3. Contiguous' /\ Reached' = 0 /\ Len(out') = 0
      BY <2>2 DEF Contiguous, Reached
    <2> QED BY <1>1, <1>2, <2>2, <2>3 DEF Sent
  <1> QED BY <1>3, <1>4, <1>5 DEF IInv

LEMMA StepIInv == IInv /\ [Next]_vars => IInv'
  <1> SUFFICES ASSUME IInv, [Next]_vars
               PROVE  IInv'
    OBVIOUS
  <1>1. closed \in BOOLEAN
    BY DEF IInv, TypeOK
  <1>2. CASE ConnectFails
    BY <1>2, RefusedSteps DEF ConnectFails, Before, Goto
  <1>3. CASE Connect
    BY <1>3, ConnectStep
  <1>4. CASE Send
    BY <1>4, SendStep
  <1>5. CASE SendFails
    BY <1>5, SendFailsStep
  <1>6. CASE RecvFirst
    BY <1>6, RecvFirstStep
  <1>7. CASE RecvChunk
    BY <1>7, RecvChunkStep
  <1>8. CASE RecvRest
    BY <1>8, RecvRestStep
  <1>9. CASE RecvFails
    BY <1>1, <1>9, GotoSteps DEF RecvFails, Throw, Goto, server, history
  <1>10. CASE PassOn
    <2>1. CASE got.isChunked
      BY <1>1, <1>10, <2>1, GotoSteps DEF PassOn, Goto, server, history
    <2>2. CASE ~got.isChunked
      BY <1>10, <2>2, ReplySteps DEF PassOn
    <2> QED BY <2>1, <2>2
  <1>11. CASE Post
    BY <1>11, ReplySteps DEF Post
  <1>12. CASE Close
    BY <1>1, <1>12, GotoSteps DEF Close, Goto, server, history
  <1>13. CASE Closes
    BY <1>13, GotoSteps DEF Closes, history
  <1>14. CASE UNCHANGED vars
    BY <1>1, <1>14, GotoSteps DEF vars, server, history
  <1> QED BY <1>2, <1>3, <1>4, <1>5, <1>6, <1>7, <1>8, <1>9, <1>10, <1>11, <1>12,
             <1>13, <1>14 DEF Next, Runs, Fails

\* The inductive invariant.
THEOREM IInvAlways == Spec => []IInv
  <1>1. Init => IInv
    BY InitIInv
  <1>2. IInv /\ [Next]_vars => IInv'
    BY StepIInv
  <1> QED BY <1>1, <1>2, PTL DEF Spec

-----------------------------------------------------------------------------
(* The theorems.                                                            *)

\* Every variable of the exchange keeps its type, cut headers and failed calls
\* included.
THEOREM TypeCorrect == Spec => []TypeOK
  <1>1. IInv => TypeOK
    BY DEF IInv
  <1> QED BY <1>1, IInvAlways, PTL

\* recvAllData returns a response with a Content-Length whole or not at all,
\* whatever its fields and however it is cut after its header, and the parser
\* then has seen every field.
THEOREM WholeResponse == Spec => []WholeWhenHeaderWhole
  <1>1. IInv => WholeWhenHeaderWhole
    BY DEF IInv, Whole, WholeWhenHeaderWhole
  <1> QED BY <1>1, IInvAlways, PTL

\* The chunk loop of sendMsgToWebserver is left at the end of the response or
\* at data that looks like it.
THEOREM ChunksToTheEnd == Spec => []ChunkedToTheEnd
  <1>1. IInv => ChunkedToTheEnd
    BY DEF IInv, LastChunk, ChunkedToTheEnd
  <1> QED BY <1>1, IInvAlways, PTL

\* A browser is told 502 only of a response that broke off, or of a 304 that
\* names the length of a body it does not have.
THEOREM BadGatewayOnlyWhenCut == Spec => []BadGatewayMeansCut
  <1>1. IInv => BadGatewayMeansCut
    BY DEF IInv, Cut, BadGatewayMeansCut
  <1> QED BY <1>1, IInvAlways, PTL

\* Without partial sends the pieces a browser gets join up from the first unit
\* of one text on, over both ways of sending.
THEOREM PrefixSent == Spec => []BrowserGetsPrefix
  <1>1. IInv => BrowserGetsPrefix
    BY DEF IInv, Sent, BrowserGetsPrefix
  <1> QED BY <1>1, IInvAlways, PTL

=============================================================================
