------------------------- MODULE MCSessionWriteLock -------------------------
(* Instances of SessionWriteLock for TLC. *)
EXTENDS SessionWriteLock, TLC

CONSTANTS gateway, cli, past, c1, c2, c3

\* Two callers in the gateway, one in a command line run of the agent.
MCHome == (c1 :> gateway) @@ (c2 :> gateway) @@ (c3 :> cli)
=============================================================================
