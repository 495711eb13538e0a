------------------------------ MODULE MCCache -------------------------------
(* Instances of Cache with one key more than the capacity and as many       *)
(* addresses as keys, so that a put into a full cache evicts and may reuse  *)
(* the freed address or take another.                                       *)
EXTENDS Cache, TLC

CONSTANTS k1, k2, k3, k4, n1, n2, n3, n4

MCKeys3 == {k1, k2, k3}
MCKeys4 == {k1, k2, k3, k4}
MCNodes3 == {n1, n2, n3}
MCNodes4 == {n1, n2, n3, n4}

Sym3 == Permutations(MCKeys3) \union Permutations(MCNodes3)
Sym4 == Permutations(MCKeys4) \union Permutations(MCNodes4)

\* A full response with both validators, and a 304 that repeats one of them.
MCResponses ==
    {[status |-> "200", ETag |-> 1, LastModified |-> 1, head |-> 1, body |-> 1],
     [status |-> "304", ETag |-> 2, LastModified |-> 0, head |-> 2, body |-> 0]}

=============================================================================
