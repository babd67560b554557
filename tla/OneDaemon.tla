------------------------------- MODULE OneDaemon -------------------------------
(***************************************************************************)
(* What a name is for: at most one daemon(1) process owns it, and only the *)
(* owner says so in the pidfile and in the client pidfile.  An owner that  *)
(* is killed leaves both as they are; the pidfile it leaves may be removed *)
(* while nobody owns the name.  All of this ends if the files are taken    *)
(* away from an owner.  NamedDaemons implements this.                      *)
(***************************************************************************)
CONSTANTS Proc, None

VARIABLES
  owners,   \* the daemons that own the name
  pid,      \* the pid in the pidfile
  client,   \* whose client is in the client pidfile
  broken    \* somebody took the pidfile away from an owner

vars == <<owners, pid, client, broken>>

Init == owners = {} /\ pid = None /\ client = None /\ broken = FALSE

Take(p) ==
  owners = {} /\ owners' = {p} /\ UNCHANGED <<pid, client, broken>>

Announce(p) ==
  owners = {p} /\ pid' = p /\ UNCHANGED <<owners, client, broken>>

Record(p) ==
  owners = {p} /\ client' = p /\ UNCHANGED <<owners, pid, broken>>

Forget(p) ==
  owners = {p} /\ client' = None /\ UNCHANGED <<owners, pid, broken>>

Leave(p) ==
  owners = {p} /\ owners' = {} /\ pid' \in {pid, None} /\ UNCHANGED <<client, broken>>

CleanUp ==
  owners = {} /\ pid' = None /\ UNCHANGED <<owners, client, broken>>

(* From then on nothing is promised. *)
Break == broken' = TRUE

Next ==
  \/ \E p \in Proc : Take(p) \/ Announce(p) \/ Record(p) \/ Forget(p) \/ Leave(p)
  \/ CleanUp \/ Break

Spec == Init /\ [][Next]_vars
===============================================================================
