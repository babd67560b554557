------------------------------ MODULE VpnStatus ------------------------------
(***************************************************************************)
(* The status hub of the app: de.blinkt.openvpn.core.VpnStatus keeps one   *)
(* static (mLaststate, mLastLevel) pair.  Every thread of the process that *)
(* learns something about the VPN publishes it through updateStateString,  *)
(* and the hub passes what it accepts on to its StateListeners.            *)
(*                                                                         *)
(* updateStateString with an explicit level is synchronized.  The two      *)
(* argument form, used for the >STATE lines of OpenVPN, computes the level *)
(* from mLaststate BEFORE it takes the lock, and reads mLaststate up to    *)
(* twice while it does.  A call is therefore a record that its thread      *)
(* carries through several steps.                                          *)
(***************************************************************************)
CONSTANTS
  Threads,    \* the publishing threads of an instance, some of DOMAIN Explicit
  Published   \* the state names an instance publishes

(* The names >STATE lines carry, by the arrays of getLevel. *)
NoReplyYet == {"CONNECTING", "WAIT", "RECONNECTING", "RESOLVE", "TCP_CONNECT"}
Reply == {"AUTH", "GET_CONFIG", "ASSIGN_IP", "ADD_ROUTES", "AUTH_PENDING"}
Connected == {"CONNECTED"}
NotConnected == {"DISCONNECTED", "EXITING"}
OpenVpnStates == NoReplyYet \cup Reply \cup Connected \cup NotConnected

ConnectionStatus ==
  { "CONNECTED", "VPNPAUSED", "CONNECTING_SERVER_REPLIED",
    "CONNECTING_NO_SERVER_REPLY_YET", "NONETWORK", "NOTCONNECTED", "START",
    "AUTH_FAILED", "WAITING_FOR_USER_INPUT", "BLOCKING", "STOPPING", "UNKNOWN" }

(* Every name a call carries: OpenVPN's and the app's own. *)
StateName ==
  OpenVpnStates \cup
  { "CONNECTRETRY", "AUTH_FAILED", "NEED", "NONETWORK", "SCREENOFF", "USERPAUSE",
    "VPN_GENERATE_CONFIG", "USER_VPN_PERMISSION", "USER_VPN_PERMISSION_CANCELLED",
    "ESTABLISHVOIDVPN", "STOPPING", "NOPROCESS" }

At(state, level) == [state |-> state, level |-> level]

(* The calls with an explicit level, by the thread that makes them: the    *)
(* management thread, the main thread (receivers, service commands, the    *)
(* void VPN service), the EIP worker, a startOpenVPN thread and the thread *)
(* that waits for the OpenVPN process.                                     *)
Explicit ==
  [ mgmt  |-> { At("CONNECTRETRY", "CONNECTING_NO_SERVER_REPLY_YET"),
                At("AUTH_FAILED", "AUTH_FAILED"),
                At("NEED", "WAITING_FOR_USER_INPUT"),
                At("NONETWORK", "NONETWORK"), At("SCREENOFF", "VPNPAUSED"),
                At("USERPAUSE", "VPNPAUSED") },
    main  |-> { At("NONETWORK", "NONETWORK"), At("SCREENOFF", "VPNPAUSED"),
                At("USERPAUSE", "VPNPAUSED"), At("VPN_GENERATE_CONFIG", "START"),
                At("USER_VPN_PERMISSION", "WAITING_FOR_USER_INPUT"),
                At("USER_VPN_PERMISSION_CANCELLED", "NOTCONNECTED"),
                At("ESTABLISHVOIDVPN", "BLOCKING"),
                At("NOPROCESS", "NOTCONNECTED") },
    eip   |-> { At("STOPPING", "STOPPING"), At("NOPROCESS", "NOTCONNECTED") },
    start |-> { At("VPN_GENERATE_CONFIG", "START") },
    proc  |-> { At("NOPROCESS", "NOTCONNECTED") } ]

ASSUME ThreadsAssumption == Threads \subseteq DOMAIN Explicit

VARIABLES
  mLaststate,   \* VpnStatus.mLaststate
  mLastLevel,   \* VpnStatus.mLastLevel
  calls,        \* per thread: the update it is inside, or Idle
  holder        \* the thread inside the synchronized updateStateString

hubVars == <<mLaststate, mLastLevel, calls, holder>>

Idle == At("none", "none")
Reread == "reread"   \* getLevel found STOPPING once and will look again

ClassLevel(state) ==
  CASE state \in NoReplyYet -> "CONNECTING_NO_SERVER_REPLY_YET"
    [] state \in Reply      -> "CONNECTING_SERVER_REPLIED"
    [] state \in Connected  -> "CONNECTED"

(* The first read of mLaststate in getLevel: the && of each loop reads it  *)
(* once, for the one array that holds the state.                           *)
FirstLook(state, last) ==
  CASE state \in NotConnected -> "NOTCONNECTED"
    [] state \notin NotConnected /\ last # "STOPPING" -> ClassLevel(state)
    [] OTHER -> Reread

(* The second read, at the end of getLevel. *)
SecondLook(last) == IF last = "STOPPING" THEN "STOPPING" ELSE "UNKNOWN"

Terminal == NotConnected \cup {"NOPROCESS"}

(* Mutant: only the first of the early returns. *)
IgnoredWhenConnected(state) == mLastLevel = "CONNECTED" /\ state \in {"WAIT", "AUTH"}

(* The two early returns of updateStateString. *)
Ignored(state) ==
  \/ mLastLevel = "CONNECTED" /\ state \in {"WAIT", "AUTH"}
  \/ mLaststate = "STOPPING" /\ state \notin Terminal

HubInit ==
  /\ mLaststate = "NOPROCESS"
  /\ mLastLevel = "NOTCONNECTED"
  /\ calls = [t \in Threads |-> Idle]
  /\ holder = "none"

(* A call that names its level. *)
CallWithLevel(t, c) ==
  /\ calls[t] = Idle
  /\ c \in Explicit[t] /\ c.state \in Published
  /\ calls' = [calls EXCEPT ![t] = c]
  /\ UNCHANGED <<mLaststate, mLastLevel, holder>>

(* processState: the management thread got a >STATE line.                  *)
CallWithoutLevel(t, s) ==
  /\ t = "mgmt" /\ calls[t] = Idle
  /\ s \in OpenVpnStates \cap Published
  /\ calls' = [calls EXCEPT ![t] = At(s, FirstLook(s, mLaststate))]
  /\ UNCHANGED <<mLaststate, mLastLevel, holder>>

LookAgain(t) ==
  /\ calls[t].level = Reread
  /\ calls' = [calls EXCEPT ![t].level = SecondLook(mLaststate)]
  /\ UNCHANGED <<mLaststate, mLastLevel, holder>>

Ready(t) == holder = "none" /\ calls[t].level \in ConnectionStatus

UpdateIgnored(t) ==
  /\ Ready(t) /\ Ignored(calls[t].state)
  /\ calls' = [calls EXCEPT ![t] = Idle]
  /\ UNCHANGED <<mLaststate, mLastLevel, holder>>

(* The update is accepted; the lock is held until the listeners are told.  *)
UpdateAccepted(t) ==
  /\ Ready(t) /\ ~Ignored(calls[t].state)
  /\ mLaststate' = calls[t].state
  /\ mLastLevel' = calls[t].level
  /\ holder' = t
  /\ UNCHANGED calls

UpdateReturns(t) ==
  /\ holder = t
  /\ holder' = "none"
  /\ calls' = [calls EXCEPT ![t] = Idle]
  /\ UNCHANGED <<mLaststate, mLastLevel>>
=============================================================================
