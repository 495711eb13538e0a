----------------------------- MODULE MCLifecycle -----------------------------
(* Two descriptors besides the listening socket, so that they are used again *)
(* and run out, and one thread less than there are connections.              *)
EXTENDS Lifecycle

=============================================================================
