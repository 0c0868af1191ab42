---------------------------- MODULE MCEdtBridge ----------------------------
(* An instance of EDT that is restarted on its port, and another with a port of its own. *)
EXTENDS EdtBridge, TLC

CONSTANTS s1, s2, s3

MCPort == (s1 :> 17831) @@ (s2 :> 17831) @@ (s3 :> 17832)
=============================================================================
