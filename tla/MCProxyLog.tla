----------------------------- MODULE MCProxyLog ------------------------------
(* Two threads that overlap in every way, in a zone that is not Greenwich's,  *)
(* and the lines of both.                                                    *)
EXTENDS ProxyLog

CONSTANTS t1, t2

MCThreads == {t1, t2}

=============================================================================
