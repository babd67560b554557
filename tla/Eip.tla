--------------------------------- MODULE Eip ---------------------------------
(***************************************************************************)
(* The commands of the app and their failover: EIP runs the jobs of        *)
(* EipCommand one at a time on its worker thread, EipSetupObserver watches *)
(* the connection attempt and asks for the next gateway or for the         *)
(* blocking VPN, VoidVpnService blocks the traffic.                        *)
(*                                                                         *)
(* The worker never waits for the main thread: broadcasts and service      *)
(* intents are posted to it and handled in order.  The observer hears of   *)
(* every accepted status on the thread that publishes it.  The hub's lock  *)
(* is held meanwhile, so publishing is one step here (VpnStatus has the    *)
(* finer one).  Levels that nobody here tells apart are one: START and     *)
(* VPNPAUSED are CONNECTING (the profiles persist the tun).  While a level *)
(* is debounced, the app shows it or the one before (EipStatus).           *)
(*                                                                         *)
(* The OpenVPN process: "launched" (its management socket is not connected *)
(* yet), "held" (until the timer of handleHold or a resume releases it;    *)
(* DeviceState says when), "managed" (it tries to connect), "tunnel" (its  *)
(* interface is up, it is not CONNECTED), "connected", "told" to stop.     *)
(* The VPN permission is granted.                                          *)
(***************************************************************************)
EXTENDS Naturals, Sequences

CONSTANTS
  Gateways,    \* number of gateways that support the transport
  Broken,      \* those whose profile checkProfile refuses
  MaxCommands, \* bound: commands of the user
  MaxQueued,   \* bound: jobs and messages waiting, for anything that adds one
  MaxStarting  \* bound: startOpenVPN threads at once

ASSUME EipAssumption ==
  /\ Gateways \in Nat /\ Broken \subseteq 0..(Gateways - 1)
  /\ MaxCommands \in Nat /\ MaxQueued \in Nat /\ MaxStarting \in Nat

VARIABLES
  commands, wanted,   \* commands given; history: "on", the last one is a start,
                      \* since when OpenVPN did not connect, nor end by itself,
                      \* nor fail to start; "off", a stop (the observer's own
                      \* as well); "open": neither
  jobs, worker,       \* EIP's job queue, and the rest of the job at work
  posted,             \* broadcasts and intents for the main thread
  main,               \* "establishing": main published BLOCKING, establish() is
                      \* next; "closing": stop() closed, NOPROCESS is next
  level,              \* mLastLevel; mLaststate is STOPPING when this is
  setup, setupN,      \* setupVpnProfile (by gateway), setupNClosestGateway
  observed,           \* observedProfileFromVpnStatus
  download,           \* DOWNLOAD_SERVICE_JSON is under way
  starting, replacing, \* startOpenVPN threads, before and after they publish
  proc,               \* the OpenVPN process
  opened,             \* it holds a tunnel (persist-tun)
  attached,           \* mProcessThread is its thread
  stale,              \* a management thread opens a tunnel nobody waits for
  tun,                \* the interface the traffic of the device goes to
  disturbed           \* history: the void VPN failed, was revoked, or was
                      \* replaced by a tunnel that is gone

userVars == <<commands, wanted>>
observerVars == <<setup, setupN, observed, download>>
startVars == <<starting, replacing>>
procVars == <<proc, opened, attached, stale>>
tunVars == <<tun, disturbed>>
vars == <<userVars, jobs, worker, posted, main, level, observerVars,
          startVars, procVars, tunVars>>

Gateway == 0..(Gateways - 1)
NoGateway == Gateways
Level == {"CONNECTING", "CONNECTED", "BLOCKING", "NONETWORK", "STOPPING", "NOTCONNECTED"}

Start(n, early) == [op |-> "start", n |-> n, early |-> early]
Stop == [op |-> "stop"]
Block == [op |-> "block"]

(* The steps of a job, in the order of the code. *)
Steps(job) ==
  CASE job.op = "start" -> (IF job.early THEN <<"earlyRoutes">> ELSE <<>>) \o <<"launch">>
    [] job.op = "stop"  -> <<"publish", "stopBlocking", "disconnect">>
    [] job.op = "block" -> <<"disconnect", "establish">>

Idle == [job |-> Stop, steps |-> <<>>]

Init ==
  /\ commands = 0 /\ wanted = "off"
  /\ jobs = <<>> /\ worker = Idle
  /\ posted = <<>> /\ main = "idle"
  /\ level = "NOTCONNECTED"
  /\ setup = NoGateway /\ setupN = 0 /\ observed = NoGateway /\ download = FALSE
  /\ starting = 0 /\ replacing = 0
  /\ proc = "none" /\ opened = FALSE /\ attached = FALSE /\ stale = FALSE
  /\ tun = "none" /\ disturbed = FALSE

-----------------------------------------------------------------------------
(* finishGatewaySetup; without a setup the observer is no listener. *)
FinishGatewaySetup == setup' = NoGateway /\ setupN' = 0 /\ observed' = NoGateway

(* EipSetupObserver.updateState, on the publishing thread. *)
ObserverUpdate(state, lvl) ==
  LET watching == observed # NoGateway /\ observed = setup
      finishing == watching /\ (lvl = "STOPPING" \/ state = "CONNECTED")
      retrying == watching /\ state = "CONNECTRETRY"
  IN
  /\ IF finishing THEN FinishGatewaySetup ELSE UNCHANGED <<setup, setupN, observed>>
  /\ \/ UNCHANGED download
     \/ finishing /\ state = "CONNECTED" /\ download' = TRUE
  /\ finishing /\ state = "CONNECTED" /\ setupN > 0 => download'
  /\ jobs' = IF retrying THEN Append(jobs, Start(setupN + 1, FALSE)) ELSE jobs

(* The hub takes the update, unless it waits for the end of a stop. *)
Ignores(state) == level = "STOPPING" /\ state \notin {"NOPROCESS", "EXITING"}
Update(state, lvl) == level' = IF Ignores(state) THEN level ELSE lvl

Publish(state, lvl) ==
  /\ Update(state, lvl)
  /\ IF Ignores(state) THEN UNCHANGED <<observerVars, jobs>> ELSE ObserverUpdate(state, lvl)

-----------------------------------------------------------------------------
(* The user, by the quick settings tile: it stops what is connecting,      *)
(* connected or blocking, and starts otherwise.  Logging in starts with    *)
(* early routes.  The button of the blocking notification goes to          *)
(* VoidVpnService itself.                                                  *)
Debounced == level \in {"BLOCKING", "NONETWORK"}
ShownBusy == level \in {"CONNECTING", "CONNECTED"} \/ Debounced
ShownDisconnected == level = "NOTCONNECTED" \/ Debounced

Room == Len(jobs) + Len(posted) < MaxQueued

Command(job, want) ==
  /\ commands < MaxCommands /\ Room
  /\ commands' = commands + 1 /\ wanted' = want
  /\ jobs' = Append(jobs, job)
  /\ UNCHANGED <<worker, posted, main, level, observerVars, startVars, procVars, tunVars>>

UserStart == (ShownDisconnected \/ level = "STOPPING") /\ \E early \in BOOLEAN : Command(Start(0, early), "on")
UserStop == ShownBusy /\ Command(Stop, "off")

UserStopsBlocking ==
  /\ level = "BLOCKING" /\ commands < MaxCommands /\ Room
  /\ commands' = commands + 1 /\ wanted' = "open"
  /\ posted' = Append(posted, [kind |-> "stopBlocking"])
  /\ UNCHANGED <<jobs, worker, main, level, observerVars, startVars, procVars, tunVars>>

-----------------------------------------------------------------------------
(* The EIP worker: onHandleWork, job by job. *)
WorkerIdle == worker.steps = <<>>

TakeJob ==
  /\ WorkerIdle /\ jobs # <<>>
  /\ worker' = [job |-> Head(jobs), steps |-> Steps(Head(jobs))]
  /\ jobs' = Tail(jobs)
  /\ UNCHANGED <<userVars, posted, main, level, observerVars, startVars, procVars, tunVars>>

At(step) ==
  /\ ~WorkerIdle /\ Head(worker.steps) = step
  /\ worker' = IF Len(worker.steps) = 1 THEN Idle ELSE [worker EXCEPT !.steps = Tail(@)]

Post(msgs) == posted' = posted \o msgs
BlockIntent == [kind |-> "startBlocking"]

(* startEIP: the early routes, unless they are there already. *)
EarlyRoutes ==
  /\ At("earlyRoutes")
  /\ IF level # "BLOCKING" THEN Post(<<BlockIntent>>) ELSE UNCHANGED posted
  /\ UNCHANGED <<userVars, jobs, main, level, observerVars, startVars, procVars, tunVars>>

(* startEIP: an invalid certificate, or launchActiveGateway. *)
Failed(error) == [kind |-> "eipEvent", error |-> error]

(* Mutant: one gateway more than there are. *)
LaunchActiveGatewayOneMore(n) ==
  \/ n > Gateways /\ Post(<<Failed("NO_MORE_GATEWAYS")>>)
  \/ n \in Broken /\ Post(<<[kind |-> "setup", n |-> n], Failed("ERROR_INVALID_PROFILE")>>)
  \/ n <= Gateways /\ n \notin Broken
       /\ Post(<<[kind |-> "setup", n |-> n], [kind |-> "startVPN", n |-> n]>>)

(* Mutant: the last gateway is left out. *)
LaunchActiveGatewayOneFewer(n) ==
  \/ n + 1 >= Gateways /\ Post(<<Failed("NO_MORE_GATEWAYS")>>)
  \/ n \in Broken /\ Post(<<[kind |-> "setup", n |-> n], Failed("ERROR_INVALID_PROFILE")>>)
  \/ n \in Gateway \ Broken /\ n + 1 < Gateways
       /\ Post(<<[kind |-> "setup", n |-> n], [kind |-> "startVPN", n |-> n]>>)

LaunchActiveGateway(n) ==
  \/ n \notin Gateway /\ Post(<<Failed("NO_MORE_GATEWAYS")>>)
  \/ n \in Broken /\ Post(<<[kind |-> "setup", n |-> n], Failed("ERROR_INVALID_PROFILE")>>)
  \/ n \in Gateway \ Broken
       /\ Post(<<[kind |-> "setup", n |-> n], [kind |-> "startVPN", n |-> n]>>)

Launch ==
  /\ At("launch")
  /\ \/ Post(<<Failed("ERROR_INVALID_VPN_CERTIFICATE")>>)
     \/ LaunchActiveGateway(worker.job.n)
  /\ UNCHANGED <<userVars, jobs, main, level, observerVars, startVars, procVars, tunVars>>

(* stopEIP: STOPPING is published before stop() looks at the level. *)
PublishStopping ==
  /\ At("publish")
  /\ Publish("STOPPING", "STOPPING")
  /\ UNCHANGED <<userVars, posted, main, startVars, procVars, tunVars>>

StopBlocking ==
  /\ At("stopBlocking")
  /\ IF level = "BLOCKING" THEN Post(<<[kind |-> "stopBlocking"]>>) ELSE UNCHANGED posted
  /\ UNCHANGED <<userVars, jobs, main, level, observerVars, startVars, procVars, tunVars>>

(* The process leaves what it does: the management thread may have been    *)
(* asked to open the tunnel just before, and still does.  Bound: one such  *)
(* thread at a time.                                                       *)
StopsTrying == stale' \in {stale, stale \/ proc = "managed"}

(* disconnect: OpenVPNService.stopVPN(false).  Without a process it knows, *)
(* or with one that could be told, the VPN is reported stopped.            *)
Disconnect ==
  /\ At("disconnect")
  /\ \/ attached /\ proc = "launched" /\ UNCHANGED <<jobs, level, observerVars, proc, stale>>
     \/ attached /\ proc # "launched" /\ proc' = "told" /\ StopsTrying
          /\ Publish("NOPROCESS", "NOTCONNECTED")
     \/ ~attached /\ Publish("NOPROCESS", "NOTCONNECTED") /\ UNCHANGED <<proc, stale>>
  /\ UNCHANGED <<userVars, posted, main, startVars, opened, attached, tunVars>>

(* EIP_ACTION_START_BLOCKING_VPN, after disconnect. *)
StartBlocking ==
  /\ At("establish")
  /\ Post(<<BlockIntent>>)
  /\ UNCHANGED <<userVars, jobs, main, level, observerVars, startVars, procVars, tunVars>>

-----------------------------------------------------------------------------
(* The main thread handles what is posted, in order. *)
Handle(kind) ==
  /\ main = "idle" /\ posted # <<>> /\ Head(posted).kind = kind
  /\ posted' = Tail(posted)

OnSetupObserverEvent ==
  /\ Handle("setup")
  /\ setup' = Head(posted).n /\ setupN' = Head(posted).n
  /\ observed' = NoGateway
  /\ UNCHANGED <<userVars, jobs, worker, main, level, download, startVars, procVars, tunVars>>

(* handleEipEvent, for a start that was CANCELED; every other error is     *)
(* treated like the invalid certificate.                                   *)
FailedStart(error) == Handle("eipEvent") /\ Head(posted).error = error

(* Mutant: the failover ends without blocking. *)
NoMoreGatewaysNoBlock ==
  /\ FailedStart("NO_MORE_GATEWAYS")
  /\ FinishGatewaySetup
  /\ UNCHANGED <<userVars, jobs, worker, main, level, download, startVars, procVars, tunVars>>

NoMoreGateways ==
  /\ FailedStart("NO_MORE_GATEWAYS")
  /\ FinishGatewaySetup /\ jobs' = Append(jobs, Block)
  /\ UNCHANGED <<userVars, worker, main, level, download, startVars, procVars, tunVars>>

InvalidProfile ==
  /\ FailedStart("ERROR_INVALID_PROFILE")
  /\ jobs' = Append(jobs, Start(setupN + 1, FALSE))
  /\ UNCHANGED <<userVars, worker, main, level, observerVars, startVars, procVars, tunVars>>

InvalidCertificate ==
  /\ FailedStart("ERROR_INVALID_VPN_CERTIFICATE")
  /\ FinishGatewaySetup /\ jobs' = Append(jobs, Stop) /\ wanted' = "off"
  /\ UNCHANGED <<commands, worker, main, level, download, startVars, procVars, tunVars>>

(* OpenVPNService.onStartCommand.  setConnectedVPN reaches the observer    *)
(* while it is a listener.                                                 *)
OnStartVPN ==
  /\ Handle("startVPN") /\ starting + replacing < MaxStarting
  /\ starting' = starting + 1
  /\ Update("VPN_GENERATE_CONFIG", "CONNECTING")
  /\ observed' = IF setup # NoGateway THEN Head(posted).n ELSE observed
  /\ UNCHANGED <<userVars, jobs, worker, main, setup, setupN, download, replacing, procVars, tunVars>>

(* VoidVpnService.establishBlockingVpn: first the status, then the VPN. *)
OnStartBlocking ==
  /\ Handle("startBlocking")
  /\ Publish("ESTABLISHVOIDVPN", "BLOCKING")
  /\ main' = "establishing"
  /\ UNCHANGED <<userVars, worker, startVars, procVars, tunVars>>

Establish ==
  /\ main = "establishing" /\ main' = "idle"
  /\ \/ tun' = "void" /\ disturbed' = FALSE
     \/ disturbed' = TRUE /\ UNCHANGED tun
  /\ UNCHANGED <<userVars, jobs, worker, posted, level, observerVars, startVars, procVars>>

CloseVoid == tun' = IF tun = "void" THEN "none" ELSE tun

(* Mutant: the end of the blocking is not published. *)
OnStopBlockingSilent ==
  /\ Handle("stopBlocking")
  /\ CloseVoid
  /\ UNCHANGED <<userVars, jobs, worker, main, level, observerVars, startVars, procVars, disturbed>>

(* VoidVpnService.stop: it closes first, and publishes then. *)
OnStopBlocking ==
  /\ Handle("stopBlocking")
  /\ CloseVoid /\ main' = "closing"
  /\ UNCHANGED <<userVars, jobs, worker, level, observerVars, startVars, procVars, disturbed>>

EndBlocking ==
  /\ main = "closing" /\ main' = "idle"
  /\ Publish("NOPROCESS", "NOTCONNECTED")
  /\ UNCHANGED <<userVars, worker, posted, startVars, procVars, tunVars>>

(* VoidVpnService.onRevoke, when the system takes the VPN away. *)
OnRevoke ==
  /\ main = "idle" /\ tun = "void"
  /\ CloseVoid /\ disturbed' = TRUE
  /\ UNCHANGED <<userVars, jobs, worker, posted, main, level, observerVars, startVars, procVars>>

(* handleProviderApiEvent, CORRECTLY_DOWNLOADED_EIP_SERVICE: the answer    *)
(* may have been posted before anything that waits now.                    *)
OnServiceJson ==
  /\ main = "idle" /\ download
  /\ download' = FALSE
  /\ \/ ShownDisconnected /\ jobs' = Append(jobs, Start(0, FALSE))
     \/ level # "NOTCONNECTED" /\ UNCHANGED jobs
  /\ UNCHANGED <<userVars, worker, posted, main, level, setup, setupN, observed,
                 startVars, procVars, tunVars>>

-----------------------------------------------------------------------------
(* startOpenVPN, on a thread of its own: it publishes once more, writes    *)
(* the profile, ends the old process and launches the new one.             *)
PublishConfig ==
  /\ starting > 0
  /\ starting' = starting - 1 /\ replacing' = replacing + 1
  /\ Publish("VPN_GENERATE_CONFIG", "CONNECTING")
  /\ UNCHANGED <<userVars, worker, posted, main, procVars, tunVars>>

NoLongerOn == wanted' = IF wanted = "on" THEN "open" ELSE wanted
CloseTunnel == tun' = IF tun = "ovpn" THEN "none" ELSE tun

(* writeConfigFile throws: endVpnService forgets the old process, which    *)
(* goes on.  Nobody is told.                                               *)
ConfigFails ==
  /\ replacing > 0 /\ replacing' = replacing - 1
  /\ attached' = FALSE /\ NoLongerOn
  /\ UNCHANGED <<commands, jobs, worker, posted, main, level, observerVars, starting,
                 proc, opened, stale, tunVars>>

(* The old process is gone before the new one is launched (the code waits  *)
(* a second or two for it).  It publishes EXITING at most; but one that    *)
(* endVpnService forgot, NOPROCESS.                                        *)
ReplaceOld ==
  /\ replacing > 0 /\ replacing' = replacing - 1
  /\ StopsTrying /\ opened' = FALSE
  /\ CloseTunnel
  /\ disturbed' = (disturbed \/ (tun = "ovpn" /\ (level = "BLOCKING" \/ setup = NoGateway)))
  /\ \/ (attached \/ proc = "none") /\ UNCHANGED <<jobs, level, observerVars>>
     \/ attached /\ proc # "launched" /\ Publish("EXITING", "NOTCONNECTED")
     \/ ~attached /\ proc # "none" /\ Publish("NOPROCESS", "NOTCONNECTED")
  /\ UNCHANGED <<commands, worker, posted, main, starting>>

StartOpenVPN ==
  /\ ReplaceOld
  /\ proc' = "launched" /\ attached' = TRUE /\ UNCHANGED wanted

(* The management socket could not be opened: nobody is told. *)
ManagementFails ==
  /\ ReplaceOld
  /\ proc' = "none" /\ attached' = FALSE /\ NoLongerOn

(* handleHold, after the process connected to its management socket or     *)
(* restarted; what is published depends on the wait and on the device.     *)
Hold(state, lvl) ==
  /\ proc' = "held" /\ Publish(state, lvl)
  /\ UNCHANGED <<userVars, worker, posted, main, startVars, opened, attached, tunVars>>

(* It should not be running: no network, or paused. *)
Pauses == \E lvl \in {"NONETWORK", "CONNECTING"} : Hold("PAUSED", lvl)

(* The first hold has nothing to wait for. *)
FirstHold ==
  \/ proc = "launched" /\ proc' = "held"
       /\ UNCHANGED <<userVars, jobs, worker, posted, main, level, observerVars, startVars,
                      opened, attached, stale, tunVars>>
  \/ proc = "launched" /\ Pauses /\ UNCHANGED stale

(* A connection attempt failed, the connection broke, or it is paused: the *)
(* process restarts.  CONNECTRETRY tells of a wait of more than a second,  *)
(* otherwise there is the RECONNECTING of the restart only (the one before *)
(* a CONNECTRETRY or a pause is part of its step).                         *)
Trying == proc \in {"managed", "tunnel", "connected"}
ConnectRetry == Trying /\ Room /\ Hold("CONNECTRETRY", "CONNECTING") /\ UNCHANGED stale
Reconnects == Trying /\ Hold("RECONNECTING", "CONNECTING") /\ UNCHANGED stale
Pause == (Trying \/ proc = "held") /\ Pauses /\ StopsTrying

(* The hold is released: the process tries to connect. *)
Tries ==
  /\ proc = "held" /\ proc' = "managed"
  /\ Publish("CONNECTING", "CONNECTING")
  /\ UNCHANGED <<userVars, worker, posted, main, startVars, opened, attached, stale, tunVars>>

(* The gateway answered: the management thread opens the tunnel, which     *)
(* takes the place of any other VPN.  If it cannot, the process Dies.      *)
OpenTun ==
  /\ proc = "managed" /\ proc' = "tunnel"
  /\ tun' = "ovpn" /\ opened' = TRUE
  /\ UNCHANGED <<userVars, jobs, worker, posted, main, level, observerVars, startVars,
                 attached, stale, disturbed>>

(* It opens one for a process that waits no more, and closes it. *)
StaleOpens ==
  /\ stale /\ stale' = FALSE
  /\ tun' = "none" /\ disturbed' = (disturbed \/ tun # "none" \/ level = "BLOCKING")
  /\ UNCHANGED <<userVars, jobs, worker, posted, main, level, observerVars, startVars,
                 proc, opened, attached>>

(* A process that had a tunnel before may keep it (PERSIST_TUN_ACTION). *)
Connects ==
  /\ proc = "tunnel" \/ (proc = "managed" /\ opened)
  /\ proc' = "connected"
  /\ NoLongerOn
  /\ Publish("CONNECTED", "CONNECTED")
  /\ UNCHANGED <<commands, worker, posted, main, startVars, opened, attached, stale, tunVars>>

(* The process ends, because it was told to or by itself. *)
Ends ==
  /\ proc' = "none" /\ opened' = FALSE /\ attached' = FALSE /\ StopsTrying
  /\ CloseTunnel
  /\ Publish("NOPROCESS", "NOTCONNECTED")
  /\ UNCHANGED <<commands, worker, posted, main, startVars, disturbed>>

Exits == proc = "told" /\ Ends /\ UNCHANGED wanted
Dies == proc \notin {"none", "told"} /\ Ends /\ NoLongerOn

-----------------------------------------------------------------------------
User == UserStart \/ UserStop \/ UserStopsBlocking
Worker ==
  \/ TakeJob \/ EarlyRoutes \/ Launch \/ PublishStopping \/ StopBlocking
  \/ Disconnect \/ StartBlocking
Main ==
  \/ OnSetupObserverEvent \/ NoMoreGateways \/ InvalidProfile \/ InvalidCertificate
  \/ OnStartVPN \/ OnStartBlocking \/ Establish \/ OnStopBlocking
  \/ EndBlocking
StartThread == PublishConfig \/ ConfigFails \/ StartOpenVPN \/ ManagementFails
Restarts == ConnectRetry \/ Reconnects \/ Pause
Service ==
  \/ StartThread \/ FirstHold \/ Tries \/ OpenTun \/ StaleOpens
  \/ Connects \/ Restarts \/ Exits \/ Dies

Next == User \/ Worker \/ Main \/ OnRevoke \/ OnServiceJson \/ Service
Spec == Init /\ [][Next]_vars

(* The worker, the main thread and the start threads do what is queued for *)
(* them.  A process connects to its management socket; a try ends in some  *)
(* way; a process that was told ends.  Nothing says that a hold ends.      *)
Fairness ==
  /\ WF_vars(Worker) /\ WF_vars(Main) /\ WF_vars(StartThread)
  /\ WF_vars(FirstHold) /\ WF_vars(OpenTun \/ Connects \/ (Trying /\ Restarts) \/ Exits)

FairSpec == Spec /\ Fairness

-----------------------------------------------------------------------------
(* Properties *)
Message ==
  [kind : {"setup", "startVPN"}, n : Gateway]
    \cup [kind : {"startBlocking", "stopBlocking"}]
    \cup [kind : {"eipEvent"},
          error : {"NO_MORE_GATEWAYS", "ERROR_INVALID_PROFILE", "ERROR_INVALID_VPN_CERTIFICATE"}]

Job == [op : {"start"}, n : 0..Gateways, early : BOOLEAN] \cup {Stop, Block}

(* Every job, message and field stays in its range: the observer's next    *)
(* gateway (selectNextGateway) is at most the first one that does not      *)
(* exist, and one that does not exist is never set up.                     *)
TypeOK ==
  /\ commands \in 0..MaxCommands /\ wanted \in {"on", "off", "open"}
  /\ jobs \in Seq(Job) /\ worker.job \in Job /\ posted \in Seq(Message)
  /\ main \in {"idle", "establishing", "closing"} /\ download \in BOOLEAN /\ disturbed \in BOOLEAN
  /\ level \in Level
  /\ setup \in Gateway \cup {NoGateway} /\ observed \in Gateway \cup {NoGateway} /\ setupN \in 0..Gateways
  /\ starting \in Nat /\ replacing \in Nat /\ starting + replacing <= MaxStarting
  /\ proc \in {"none", "launched", "held", "managed", "tunnel", "connected", "told"}
  /\ opened \in BOOLEAN /\ attached \in BOOLEAN /\ stale \in BOOLEAN
  /\ tun \in {"none", "void", "ovpn"}

Quiet ==
  /\ jobs = <<>> /\ WorkerIdle /\ posted = <<>> /\ main = "idle"
  /\ starting + replacing = 0
Settled == Quiet /\ proc # "told" /\ ~download

(* LEVEL_BLOCKING ("set when the latter vpn is up", EipStatus) is the      *)
(* level only while the traffic does go to the void VPN, whatever starts,  *)
(* stops and process ends cross it, but for what the code leaves open:     *)
(* establish() is not called yet; stop() closed and is about to publish    *)
(* it; OpenVPN's tunnel took its place and CONNECTED, or what comes        *)
(* instead, is to follow; and what VoidVpnService tells nobody             *)
(* (disturbed): establish() failed, the system revoked the VPN, or a       *)
(* tunnel that took its place was closed with no status.                   *)
BlockingShownIsBlocking ==
  level = "BLOCKING" /\ ~disturbed =>
    tun = "void" \/ main \in {"establishing", "closing"} \/ (tun = "ovpn" /\ proc = "tunnel")

(* The failover is over, and a process that the last disconnect could not  *)
(* tell to stop (it was launched) has replaced the void VPN by its tunnel. *)
Unwatched == setup = NoGateway /\ tun = "ovpn" /\ proc \in {"held", "managed", "tunnel"}

(* A VPN that is asked for once gets connected, or, when every gateway     *)
(* was tried, the traffic is blocked: EipSetupObserver's failover never    *)
(* gets stuck between two gateways, however its retries overlap.  Unless   *)
(* the void VPN is disturbed, the app gives up and stops, OpenVPN ends by  *)
(* itself or a start of it fails (the observer does nothing on NOPROCESS,  *)
(* and a failed start publishes nothing); and unless the process whose     *)
(* failover it is gets held for ever (it is paused), or restarts over and  *)
(* over for a pause or after a wait too short to be published.  That it    *)
(* was connected is all there is to say: the next gateway's startOpenVPN   *)
(* may be on its way, and the CONNECTED of the first process finishes the  *)
(* observation of the second.                                              *)
FailoverEnds ==
  \/ <>[](setup # NoGateway /\ proc = "held")
  \/ []<><<setup # NoGateway /\ (Reconnects \/ Pause)>>_vars
  \/ wanted = "on" ~> (tun = "void" \/ Unwatched \/ disturbed \/ wanted # "on")

(* While the first VPN asked for has not connected, something carries its  *)
(* failover on: when no job, message or thread is left, the traffic is     *)
(* blocked, or a process runs that may connect or report CONNECTRETRY and  *)
(* EipSetupObserver is listening for it, set up and observed the same; but *)
(* for a void VPN that was disturbed or replaced, and an OpenVPN that      *)
(* ended by itself or could not be started (wanted is "open" then).  What  *)
(* FailoverEnds rests on.                                                  *)
FailoverCarried ==
  commands = 1 /\ wanted = "on" /\ Quiet =>
    \/ tun = "void" \/ Unwatched \/ disturbed
    \/ /\ setup # NoGateway /\ observed = setup
       /\ proc \in {"launched", "held", "managed", "tunnel"}

(* However the retries of the first VPN asked for overlap, its failover    *)
(* tries the gateways in turn: from none it goes to the first, from each   *)
(* to the next and to no other, and only from the last to giving up        *)
(* (NoGateway counts as the one after the last).                           *)
GatewaysInTurn ==
  [][commands' = 1 /\ wanted' = "on" /\ setup' # setup =>
       setup' = IF setup = NoGateway THEN 0 ELSE setup + 1]_vars

(* A stop also "stops void vpn from blocking internet" (EIP.stop): when    *)
(* all is done, the traffic is not blocked.                                *)
StopUnblocks == Settled /\ wanted = "off" => tun # "void"
(* stopEIP "terminates EIP if currently connected or connecting": when all *)
(* is done, no OpenVPN process runs.                                       *)
StopSticks == Settled /\ wanted = "off" => proc = "none"
=============================================================================
