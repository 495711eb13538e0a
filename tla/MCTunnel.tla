------------------------------ MODULE MCTunnel -------------------------------
(* Room for less than one recv may return, so that sends wait half way.      *)
EXTENDS Tunnel

=============================================================================
