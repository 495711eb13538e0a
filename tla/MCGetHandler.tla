---------------------------- MODULE MCGetHandler -----------------------------
(* One key more than the capacity, so that a target evicts another.  As many *)
(* addresses as nodes: put frees the evicted node before it allocates.       *)
EXTENDS GetHandler, TLC

CONSTANTS k1, k2, n1, t1, t2

MCKeys == {k1, k2}
MCNodes == {n1}
MCThreads1 == {t1}
MCThreads2 == {t1, t2}
MCBodies == AllBodies

\* Keys are alike too: the only one the model fixes is NoRequest.key, in locals
\* and in memory nobody has written yet, and no step reads it there.
SymThreadsKeys == Permutations(MCThreads2) \union Permutations(MCKeys)

Plain == [inm |-> FALSE, ims |-> FALSE, forbid |-> FALSE, revalid |-> FALSE]

\* Requests that are not conditional: plain, private or no-store, revalidate.
Unconditional ==
    {Plain, [Plain EXCEPT !.forbid = TRUE], [Plain EXCEPT !.revalid = TRUE]}

\* A browser that has nothing and one that revalidates.
PlainOrByETag == {Plain, [Plain EXCEPT !.inm = TRUE]}

=============================================================================
