------------------------------ MODULE DaemonLife ------------------------------
(***************************************************************************)
(* What daemon(1) promises of the client it was started for, whatever the  *)
(* signals and the timing: there is never more than one client; a client   *)
(* that died is reaped before the next is started; none is started once    *)
(* the daemon has taken notice of SIGTERM; and the daemon does not end     *)
(* before its client has been reaped.  Supervisor implements this.         *)
(***************************************************************************)
VARIABLES
  client,   \* none, up, or dead and not reaped yet
  told,     \* the daemon knows that it is to terminate
  over      \* the daemon has ended

vars == <<client, told, over>>

Init == client = "none" /\ told = FALSE /\ over = FALSE

Start == ~over /\ ~told /\ client = "none" /\ client' = "up" /\ UNCHANGED <<told, over>>
Die   == client = "up" /\ client' = "dead" /\ UNCHANGED <<told, over>>
Reap  == ~over /\ client = "dead" /\ client' = "none" /\ UNCHANGED <<told, over>>
Learn == ~over /\ told' = TRUE /\ UNCHANGED <<client, over>>
End   == ~over /\ client = "none" /\ over' = TRUE /\ UNCHANGED <<client, told>>

(* The reaping of the last client and the end of the daemon may be seen as *)
(* one step.                                                               *)
ReapAndEnd ==
  ~over /\ client = "dead" /\ client' = "none" /\ over' = TRUE /\ UNCHANGED told

(* A daemon that gives up learns of a SIGTERM and ends in one step.        *)
LearnAndEnd ==
  ~over /\ client = "none" /\ told' = TRUE /\ over' = TRUE /\ UNCHANGED client

Next == Start \/ Die \/ Reap \/ Learn \/ End \/ ReapAndEnd \/ LearnAndEnd

Spec == Init /\ [][Next]_vars
===============================================================================
