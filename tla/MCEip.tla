-------------------------------- MODULE MCEip --------------------------------
(* Eip with a gateway whose profile is broken among those that may or may  *)
(* not connect.                                                            *)
EXTENDS Eip

OneBroken == {1}

(* The failover's properties say nothing of a start that is over, and with *)
(* one command no other follows.                                           *)
NotOver == wanted = "on" \/ commands = 0
=============================================================================
