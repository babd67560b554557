---------------------------- MODULE MCSupervisor ----------------------------
(* Supervisor on a small instance: bursts of two, no limit or one of two.  *)
EXTENDS Supervisor

MCLimits == {0, 2}
=============================================================================
