----------------------------- MODULE MCUpstream ------------------------------
(* Each framing there is, the private field before and after the length, a   *)
(* 304 with a length, a 400 that is chunked, and data like a last chunk.     *)
EXTENDS Upstream

Ok(fields, length, data) ==
    [status |-> "200", fields |-> fields, length |-> length, data |-> data,
     likeLast |-> FALSE]

MCReplies ==
    {Ok(<<"length">>, 3, 3), Ok(<<"length", "private">>, 3, 3),
     Ok(<<"private", "length">>, 6, 6), Ok(<<>>, 0, 2),
     Ok(<<"chunked">>, 0, 2), [Ok(<<"chunked">>, 0, 2) EXCEPT !.likeLast = TRUE],
     [Ok(<<"length">>, 2, 0) EXCEPT !.status = "304"],
     [Ok(<<"private", "chunked">>, 0, 1) EXCEPT !.status = "400"]}

=============================================================================
