---------------------------- MODULE ResponseText -----------------------------
(***************************************************************************)
(* What HttpResponse makes of the first n units of a web server's response. *)
(* recv may cut the text anywhere and the constructor parses what there is, *)
(* swallowing the exceptions of its three parts.  A unit is a few bytes; a  *)
(* text is made of                                                          *)
(*                                                                          *)
(*   2 units     the status line, the code being in the second              *)
(*   3 units     each header field: its name and colon, the first part of   *)
(*               its value, the rest of it                                  *)
(*   1 unit      the empty line                                             *)
(*   the body    and, when it is chunked, 2 units for "0\r\n\r\n"           *)
(*                                                                          *)
(* so that every place where a cut makes a difference to the parser lies    *)
(* between two units.                                                       *)
(***************************************************************************)
EXTENDS Integers, Sequences

Fields == {"length", "chunked", "private"}

Statuses == {"200", "304", "400"}

\* A response: its fields in the order sent, the value of Content-Length (a
\* 304 has one and no body), the units of data in the body, and whether the
\* first of them has the bytes of a last chunk in it.
Reply ==
    [status : Statuses, fields : Seq(Fields), length : Nat, data : Nat,
     likeLast : BOOLEAN]

Has(d, field) == \E i \in 1..Len(d.fields) : d.fields[i] = field

HeaderSize(d) == 2 + 3 * Len(d.fields) + 1

TextSize(d) == HeaderSize(d) + d.data + (IF Has(d, "chunked") THEN 2 ELSE 0)

-----------------------------------------------------------------------------
(* The parser.  n is the number of units it is given.                       *)

\* parseHeaderFields: the fields whose value is complete.
HeaderMap(d, n) == {d.fields[i] : i \in {j \in 1..Len(d.fields) : 2 + 3 * j <= n}}

\* The field the text breaks off in: after its colon (place 1), where substr
\* or stoul throws, or inside its value (place 2).
BreaksIn(d, n, i, place) == i \in 1..Len(d.fields) /\ n = 2 + 3 * (i - 1) + place

Throws(d, n) == n < 2 \/ \E i \in 1..Len(d.fields) : BreaksIn(d, n, i, 1)

\* Mutant: the position of the empty line is used although there is none.
MsgBodySizeWraps(d, n) == IF Throws(d, n) THEN 0 ELSE n - HeaderSize(d)

\* parseMsgBody: find gives npos when the empty line is not there, and
\* npos + 4 is 3, so that all but the first unit passes for the body.
MsgBodySize(d, n) ==
    IF Throws(d, n) THEN 0
    ELSE IF n < HeaderSize(d) THEN n - 1 ELSE n - HeaderSize(d)

\* The first digits of a Content-Length are a smaller number.
ContentLength(d, n) ==
    IF "length" \in HeaderMap(d, n) THEN d.length
    ELSE IF \E i \in 1..Len(d.fields) : d.fields[i] = "length" /\ BreaksIn(d, n, i, 2)
    THEN d.length \div 2
    ELSE 0

HttpResponse(d, n) ==
    [text |-> "reply", size |-> n,
     statusCode |-> IF n < 2 THEN "none" ELSE d.status,
     isChunked |-> "chunked" \in HeaderMap(d, n),
     private |-> "private" \in HeaderMap(d, n),
     msgContentLength |-> ContentLength(d, n),
     msgBodySize |-> MsgBodySize(d, n)]

\* getFormedHttpResponse.
Formed(status) ==
    [text |-> status, size |-> 2, statusCode |-> status, isChunked |-> FALSE,
     private |-> FALSE, msgContentLength |-> 1, msgBodySize |-> 1]

ParsedResponse ==
    [text : {"reply", "400", "502"}, size : Nat,
     statusCode : Statuses \union {"none", "502"}, isChunked : BOOLEAN,
     private : BOOLEAN, msgContentLength : Nat, msgBodySize : Nat]

-----------------------------------------------------------------------------
(* The end of a chunked body.                                               *)

\* Mutant: "0\r\n" will do.
FindsZeroOnly(d, from, upto) ==
    \/ from <= TextSize(d) - 1 /\ TextSize(d) - 1 <= upto
    \/ d.likeLast /\ from <= HeaderSize(d) + 1 /\ HeaderSize(d) + 1 <= upto

\* temp.find("0\r\n\r\n") in the piece from..upto: the last chunk is in it, or
\* data that has the same bytes.
FindsLastChunk(d, from, upto) ==
    \/ from <= TextSize(d) - 1 /\ TextSize(d) <= upto
    \/ d.likeLast /\ from <= HeaderSize(d) + 1 /\ HeaderSize(d) + 1 <= upto

=============================================================================
