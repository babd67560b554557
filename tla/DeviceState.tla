----------------------------- MODULE DeviceState -----------------------------
(***************************************************************************)
(* When the tunnel may run: DeviceStateReceiver decides it from network,   *)
(* screen and user, OpenVpnManagementThread carries it out by holding and  *)
(* releasing the OpenVPN process over the management socket.               *)
(*                                                                         *)
(* Two threads share mWaitingForRelease and the connectState fields        *)
(* without a lock.  The main thread runs the receivers and the posted      *)
(* runnables: a handler first changes the fields ("decide") and then makes *)
(* one call on the management object, which looks at mWaitingForRelease.   *)
(* The management thread handles >HOLD in two steps, the flag first and    *)
(* then the question shouldBeRunning(), and >BYTECOUNT in three.           *)
(*                                                                         *)
(* The OpenVPN process is OpenVPN's own code, manage.c.  With              *)
(* management-hold it announces HOLD before every connection attempt and   *)
(* waits for "hold release".  SIGUSR1 restarts it, into a hold, when it    *)
(* runs; while it is held the signal is ignored, but man_signal announces  *)
(* the HOLD once more.  Restarts of its own (ping timeout, a lost          *)
(* connection) end in a hold as well.                                      *)
(*                                                                         *)
(* The preference "netchangereconnect" has its default, true.              *)
(***************************************************************************)
EXTENDS Naturals, Sequences, FiniteSets

CONSTANTS
  Networks,       \* usable networks, told apart by type and extra info
  ScreenOffPref,  \* preference "screenoff"
  Wait,           \* DISCONNECT_WAIT, in ticks
  MaxEvents,      \* bound: connectivity broadcasts not yet handled
  MaxPipe,        \* bound: commands or messages on the socket, for one that
                  \* adds to them
  MaxResumes      \* bound: runnables posted by HoldDecides

NoNet == "none"          \* getActiveNetworkInfo() returns null
Joining == "joining"     \* a network that is not CONNECTED yet

ASSUME DeviceAssumption ==
  /\ NoNet \notin Networks /\ Joining \notin Networks
  /\ ScreenOffPref \in BOOLEAN
  /\ Wait \in Nat \ {0} /\ MaxEvents \in Nat \ {0} /\ MaxPipe \in Nat \ {0}
  /\ MaxResumes \in Nat \ {0}

VARIABLES
  net,            \* the active network of the device
  events,         \* CONNECTIVITY_ACTION broadcasts on their way
  screenIsOn,     \* by the last screen broadcast
  registered,     \* the receiver exists and is the pause callback
  network, screen,   \* DeviceStateReceiver's connectStates
  lastConnected,  \* lastConnectedNetwork
  timers,         \* ticks left for each posted mDelayDisconnectRunnable
  lostFor,        \* ticks since network became PENDINGDISCONNECT, up to Wait
  call,           \* the management call the main thread is about to make
  waiting,        \* mWaitingForRelease
  lastPauseReason,
  resumes,        \* how many times mResumeHoldRunnable is posted
  mgmt,           \* where the management thread is
  proc,           \* the OpenVPN process: running or held
  toProc, toMgmt, \* the management socket
  doubled         \* history: since app and process last agreed who waits, a
                  \* hold was announced twice, or released twice

envVars == <<net, events, screenIsOn>>
fieldVars == <<network, screen, lastConnected, timers, lostFor>>
holdVars == <<waiting, lastPauseReason, resumes>>
procVars == <<proc, toProc, toMgmt, doubled>>
vars == <<envVars, registered, fieldVars, call, holdVars, mgmt, procVars>>

ConnectState == {"SHOULDBECONNECTED", "PENDINGDISCONNECT", "DISCONNECTED"}
PauseReason == {"noNetwork", "userPause", "screenOff"}
NoCall == [op |-> "none"]
Pause(reason) == [op |-> "pause", reason |-> reason]
Resume == [op |-> "resume"]
NetworkChange == [op |-> "networkChange"]

(* userpause never leaves SHOULDBECONNECTED: nothing in the app pauses.    *)
ShouldBe(n, s) == n = "SHOULDBECONNECTED" /\ s = "SHOULDBECONNECTED"
ShouldBeConnected == ShouldBe(network, screen)

(* shouldBeRunning(): false as long as there is no callback. *)
ShouldBeRunning == registered /\ ShouldBeConnected

(* With neither DISCONNECTED the reason is userPause. *)
GetPauseReason(n, s) ==
  CASE s = "DISCONNECTED" -> "screenOff"
    [] s # "DISCONNECTED" /\ n = "DISCONNECTED" -> "noNetwork"
    [] OTHER -> "userPause"

Init ==
  /\ net \in Networks \cup {NoNet} /\ events = 0 /\ screenIsOn = TRUE
  /\ registered = FALSE
  /\ network = "DISCONNECTED" /\ screen = "SHOULDBECONNECTED"
  /\ lastConnected = NoNet
  /\ timers = {} /\ lostFor = 0
  /\ call = NoCall
  /\ waiting = FALSE /\ lastPauseReason = "noNetwork" /\ resumes = 0
  /\ mgmt = "idle"
  /\ proc = "held" /\ toProc = <<>> /\ toMgmt = <<"HOLD">> /\ doubled = FALSE

-----------------------------------------------------------------------------
(* The device. *)
DeviceNetwork ==
  /\ events < MaxEvents
  /\ \E n \in Networks \cup {NoNet, Joining} : n # net /\ net' = n
  /\ events' = IF registered THEN events + 1 ELSE 0
  /\ UNCHANGED <<screenIsOn, registered, fieldVars, call, holdVars, mgmt, procVars>>

(* A tick is long (seconds): the threads of the app and the process are    *)
(* done by then with what they were told.  A broadcast or a posted         *)
(* runnable may still be waiting for its turn.                             *)
Tick ==
  /\ 0 \notin timers /\ call = NoCall /\ mgmt = "idle" /\ toMgmt = <<>> /\ toProc = <<>>
  /\ timers' = {k - 1 : k \in timers}
  /\ lostFor' = IF network = "PENDINGDISCONNECT" /\ lostFor < Wait
                THEN lostFor + 1 ELSE lostFor
  /\ doubled' = (doubled /\ waiting # (proc = "held"))
  /\ UNCHANGED <<envVars, registered, network, screen, lastConnected,
                 call, holdVars, mgmt, proc, toProc, toMgmt>>

-----------------------------------------------------------------------------
(* networkStateChange, on the fields. *)
NetworkNotNull(n) == n # NoNet   \* mutant: the state is not looked at
NetworkUp(n) == n \in Networks   \* networkInfo != null, state CONNECTED

NetworkConnected ==
  LET pendingDisconnect == network = "PENDINGDISCONNECT"
      sameNetwork == lastConnected = net
      screenNow == IF screen = "PENDINGDISCONNECT" THEN "DISCONNECTED" ELSE screen
      should == ShouldBe("SHOULDBECONNECTED", screenNow)
  IN
  /\ NetworkUp(net)
  /\ network' = "SHOULDBECONNECTED"
  /\ lostFor' = 0
  /\ \/ /\ pendingDisconnect /\ sameNetwork
        /\ timers' = {} /\ call' = NetworkChange
        /\ UNCHANGED <<screen, lastConnected>>
     \/ /\ ~(pendingDisconnect /\ sameNetwork)
        /\ screen' = screenNow
        /\ timers' = IF should THEN {} ELSE timers
        /\ call' = CASE ~should -> NoCall
                     [] should /\ (pendingDisconnect \/ ~sameNetwork) -> NetworkChange
                     [] OTHER -> Resume
        /\ lastConnected' = net

NetworkLost ==
  /\ net = NoNet
  /\ network' = "PENDINGDISCONNECT"
  /\ timers' = timers \cup {Wait}
  /\ lostFor' = IF network = "PENDINGDISCONNECT" THEN lostFor ELSE 0
  /\ UNCHANGED <<screen, lastConnected, call>>

NetworkStateChange ==
  \/ NetworkConnected
  \/ NetworkLost
  \/ net # NoNet /\ ~NetworkUp(net) /\ UNCHANGED <<fieldVars, call>>

MainIdle == call = NoCall

(* The bound on the socket: no new event, no new message, until it drains. *)
Room == Len(toProc) < MaxPipe
MgmtRoom == Len(toMgmt) < MaxPipe

(* registerDeviceStateReceiver: the constructor, then the initial network. *)
RegisterDeviceStateReceiver ==
  /\ MainIdle /\ ~registered
  /\ registered' = TRUE
  /\ NetworkStateChange
  /\ UNCHANGED <<envVars, holdVars, mgmt, procVars>>

ConnectivityAction ==
  /\ MainIdle /\ registered /\ events > 0 /\ Room
  /\ events' = events - 1
  /\ NetworkStateChange
  /\ UNCHANGED <<net, screenIsOn, registered, holdVars, mgmt, procVars>>

(* mDelayDisconnectRunnable *)
DelayDisconnect ==
  /\ MainIdle /\ 0 \in timers /\ Room
  /\ timers' = timers \ {0}
  /\ IF network # "PENDINGDISCONNECT"
     THEN UNCHANGED <<network, screen, call>>
     ELSE /\ network' = "DISCONNECTED"
          /\ screen' = IF screen = "PENDINGDISCONNECT" THEN "DISCONNECTED" ELSE screen
          /\ call' = Pause(GetPauseReason("DISCONNECTED", screen'))
  /\ UNCHANGED <<envVars, registered, lastConnected, lostFor,
                 holdVars, mgmt, procVars>>

(* ACTION_SCREEN_OFF; ignored while tethering, or without the preference.  *)
ScreenOff ==
  /\ MainIdle /\ registered /\ screenIsOn
  /\ screenIsOn' = FALSE
  /\ \/ UNCHANGED screen
     \/ /\ ScreenOffPref
        /\ screen' = IF network = "DISCONNECTED" THEN "DISCONNECTED" ELSE "PENDINGDISCONNECT"
  /\ UNCHANGED <<net, events, registered, network, lastConnected, timers,
                 lostFor, call, holdVars, mgmt, procVars>>

(* ACTION_SCREEN_ON, whatever the preference. *)
ScreenOn ==
  /\ MainIdle /\ registered /\ ~screenIsOn /\ Room
  /\ screenIsOn' = TRUE
  /\ screen' = "SHOULDBECONNECTED"
  /\ timers' = {}
  /\ LET should == ShouldBe(network, "SHOULDBECONNECTED") IN
     call' = CASE should # ShouldBeConnected -> Resume
               [] should = ShouldBeConnected /\ ~should ->
                    Pause(GetPauseReason(network, "SHOULDBECONNECTED"))
               [] OTHER -> NoCall
  /\ UNCHANGED <<net, events, registered, network, lastConnected, lostFor,
                 holdVars, mgmt, procVars>>

-----------------------------------------------------------------------------
(* The management object. *)
Send(cmd) == toProc' = Append(toProc, cmd)

ReleaseHoldCmd == resumes' = 0 /\ waiting' = FALSE /\ Send("release")

(* Mutant: the test of signalusr1 the wrong way round. *)
DoPauseSwapped(reason) ==
  /\ lastPauseReason' = reason
  /\ resumes' = 0
  /\ IF waiting THEN Send("SIGUSR1") ELSE UNCHANGED toProc
  /\ UNCHANGED waiting

(* pause(reason): signalusr1 looks at mWaitingForRelease.  While waiting   *)
(* it only publishes the reason.                                           *)
DoPause(reason) ==
  /\ lastPauseReason' = reason
  /\ resumes' = 0
  /\ IF waiting THEN UNCHANGED toProc ELSE Send("SIGUSR1")
  /\ UNCHANGED waiting

(* Mutant: resume only resets the reason. *)
DoResumeNoRelease ==
  lastPauseReason' = "noNetwork" /\ UNCHANGED <<resumes, waiting, toProc>>

DoResume ==
  /\ lastPauseReason' = "noNetwork"
  /\ IF waiting THEN ReleaseHoldCmd ELSE UNCHANGED <<resumes, waiting, toProc>>

(* Mutant: a new network never releases a hold. *)
DoNetworkChangeNoRelease == UNCHANGED <<resumes, waiting, toProc, lastPauseReason>>

(* networkChange: "network-change" itself neither holds nor releases. *)
DoNetworkChange ==
  /\ IF waiting THEN ReleaseHoldCmd ELSE UNCHANGED <<resumes, waiting, toProc>>
  /\ UNCHANGED lastPauseReason

ManagementCall ==
  /\ ~MainIdle
  /\ \/ call.op = "pause" /\ DoPause(call.reason)
     \/ call.op = "resume" /\ DoResume
     \/ call.op = "networkChange" /\ DoNetworkChange
  /\ call' = NoCall
  /\ UNCHANGED <<envVars, registered, fieldVars, mgmt, proc, toMgmt, doubled>>

(* mResumeHoldRunnable, on the main thread, does not look at               *)
(* mWaitingForRelease.  One that does not release is gone, a release       *)
(* removes the others.                                                     *)
ResumeHold ==
  /\ MainIdle /\ resumes > 0
  /\ IF ShouldBeRunning
     THEN ReleaseHoldCmd /\ doubled' = (doubled \/ ~waiting)
     ELSE resumes' = resumes - 1 /\ UNCHANGED <<waiting, toProc, doubled>>
  /\ UNCHANGED <<envVars, registered, fieldVars, call, lastPauseReason, mgmt, proc, toMgmt>>

(* handleHold, first the flag, then the question.  A hold that is not to   *)
(* be released soon only publishes lastPauseReason.                        *)
HoldArrives ==
  /\ mgmt = "idle" /\ resumes < MaxResumes /\ toMgmt # <<>> /\ Head(toMgmt) = "HOLD"
  /\ toMgmt' = Tail(toMgmt)
  /\ waiting' = TRUE
  /\ mgmt' = "hold"
  /\ UNCHANGED <<envVars, registered, fieldVars, call, lastPauseReason, resumes,
                 proc, toProc, doubled>>

(* Mutant: the flag is kept only for a hold that is to be released soon. *)
HoldDecidesClears ==
  /\ mgmt = "hold"
  /\ resumes' = IF ShouldBeRunning THEN resumes + 1 ELSE resumes
  /\ waiting' = ShouldBeRunning
  /\ mgmt' = "idle"
  /\ UNCHANGED <<envVars, registered, fieldVars, call, lastPauseReason, procVars>>

HoldDecides ==
  /\ mgmt = "hold"
  /\ resumes' = IF ShouldBeRunning THEN resumes + 1 ELSE resumes
  /\ mgmt' = "idle"
  /\ UNCHANGED <<envVars, registered, fieldVars, call, waiting, lastPauseReason, procVars>>

(* updateByteCount: with the screen about to disconnect, the traffic of    *)
(* the window may be found low.  How long the screen has been off is left  *)
(* to the window's content, which is not modelled.                         *)
BytesArrive ==
  /\ mgmt = "idle" /\ toMgmt # <<>> /\ Head(toMgmt) = "BYTECOUNT"
  /\ toMgmt' = Tail(toMgmt)
  /\ \/ UNCHANGED mgmt
     \/ registered /\ screen = "PENDINGDISCONNECT" /\ mgmt' = "lowTraffic"
  /\ UNCHANGED <<envVars, registered, fieldVars, call, holdVars, proc, toProc, doubled>>

LowTraffic ==
  /\ mgmt = "lowTraffic"
  /\ screen' = "DISCONNECTED"
  /\ mgmt' = "pause"
  /\ UNCHANGED <<envVars, registered, network, lastConnected, timers,
                 lostFor, call, holdVars, procVars>>

LowTrafficPause ==
  /\ mgmt = "pause"
  /\ DoPause(GetPauseReason(network, screen))
  /\ mgmt' = "idle"
  /\ UNCHANGED <<envVars, registered, fieldVars, call, proc, toMgmt, doubled>>

-----------------------------------------------------------------------------
(* The OpenVPN process. *)
ProcHolds == proc' = "held" /\ toMgmt' = Append(toMgmt, "HOLD")

Holds(n) == [i \in 1..n |-> "HOLD"]
Signals(k) == Cardinality({i \in 1..k : toProc[i] = "SIGUSR1"})
Released(k) == \E i \in 1..k : toProc[i] = "release"

(* Held, the process announces the HOLD again for every signal, and leaves *)
(* the hold when all that was read is done, if one line released it.       *)
HeldReads(k) ==
  /\ proc = "held"
  /\ proc' = IF Released(k) THEN "running" ELSE "held"
  /\ toMgmt' = toMgmt \o Holds(Signals(k))
  /\ doubled' = (doubled \/ Signals(k) > 0)

(* Running, it is restarted by a signal, and forgets the releases read     *)
(* with it.                                                                *)
RunningReads(k) ==
  /\ proc = "running"
  /\ IF Signals(k) > 0 THEN ProcHolds ELSE UNCHANGED <<proc, toMgmt>>
  /\ UNCHANGED doubled

(* man_read(): as many lines as one recv() gives.                          *)
ProcReads ==
  /\ MgmtRoom
  /\ \E k \in 1..Len(toProc) :
       /\ toProc' = SubSeq(toProc, k + 1, Len(toProc))
       /\ HeldReads(k) \/ RunningReads(k)
  /\ UNCHANGED <<envVars, registered, fieldVars, call, holdVars, mgmt>>

(* The connection is lost; the process restarts by itself. *)
ProcRestarts ==
  /\ proc = "running" /\ MgmtRoom /\ ProcHolds
  /\ UNCHANGED <<envVars, registered, fieldVars, call, holdVars, mgmt, toProc, doubled>>

ProcCounts ==
  /\ proc = "running" /\ MgmtRoom
  /\ toMgmt' = Append(toMgmt, "BYTECOUNT")
  /\ UNCHANGED <<envVars, registered, fieldVars, call, holdVars, mgmt, proc, toProc, doubled>>

-----------------------------------------------------------------------------
Main ==
  \/ RegisterDeviceStateReceiver \/ ConnectivityAction \/ DelayDisconnect
  \/ ScreenOff \/ ScreenOn
  \/ ManagementCall \/ ResumeHold
Management ==
  HoldArrives \/ HoldDecides \/ BytesArrive \/ LowTraffic \/ LowTrafficPause
Device == DeviceNetwork \/ Tick
Process == ProcReads \/ ProcRestarts \/ ProcCounts

Next == Main \/ Management \/ Device \/ Process
Spec == Init /\ [][Next]_vars

(* What is queued or posted is served; time passes; the process reads its  *)
(* socket.  The device and the user do as they like.                       *)
Fairness ==
  /\ WF_vars(RegisterDeviceStateReceiver) /\ WF_vars(ManagementCall)
  /\ SF_vars(ConnectivityAction) /\ SF_vars(DelayDisconnect) /\ SF_vars(ResumeHold)
  /\ WF_vars(Management) /\ WF_vars(Tick) /\ WF_vars(ProcReads)

FairSpec == Spec /\ Fairness

-----------------------------------------------------------------------------
(* Every field of DeviceStateReceiver and of the management object stays   *)
(* in its range.                                                           *)
TypeOK ==
  /\ net \in Networks \cup {NoNet, Joining} /\ events \in 0..MaxEvents
  /\ screenIsOn \in BOOLEAN /\ registered \in BOOLEAN
  /\ network \in ConnectState /\ screen \in ConnectState
  /\ lastConnected \in Networks \cup {NoNet}
  /\ timers \subseteq 0..Wait /\ lostFor \in 0..Wait
  /\ call \in {NoCall, Resume, NetworkChange} \cup {Pause(r) : r \in PauseReason}
  /\ waiting \in BOOLEAN /\ lastPauseReason \in PauseReason /\ resumes \in 0..MaxResumes
  /\ mgmt = "hold" => resumes < MaxResumes
  /\ mgmt \in {"idle", "hold", "lowTraffic", "pause"}
  /\ proc \in {"running", "held"}
  /\ toProc \in Seq({"release", "SIGUSR1"}) /\ toMgmt \in Seq({"HOLD", "BYTECOUNT"})
  /\ doubled \in BOOLEAN

Queued(m, q) == \E i \in 1..Len(q) : q[i] = m
SocketQuiet == toProc = <<>> /\ toMgmt = <<>>

(* Nothing is left to handle: what the two threads decided is in effect.   *)
Quiet == MainIdle /\ events = 0 /\ resumes = 0 /\ mgmt = "idle" /\ SocketQuiet

(* Who waits is known.  A process that waits for a release: once its HOLD  *)
(* has been read, mWaitingForRelease is set until the release is written   *)
(* (OpenVpnManagementThread.java:403-433).  And only such a process, with  *)
(* no release on its way already, as long as a hold is announced once and  *)
(* released once.  A signal makes a held process announce its HOLD again,  *)
(* and the second may be read when the first has been answered; and        *)
(* mResumeHoldRunnable releases again what is released already.            *)
WaitingAgrees ==
  /\ proc = "held" /\ ~Queued("HOLD", toMgmt) => waiting \/ Queued("release", toProc)
  /\ waiting /\ ~doubled => proc = "held" /\ ~Queued("release", toProc)

(* No release is lost between the threads.  Main changes the fields and    *)
(* then looks at mWaitingForRelease, management sets mWaitingForRelease    *)
(* and then looks at the fields: when all is handled and the tunnel should *)
(* run, nobody has left the process held.                                  *)
NoLostRelease == Quiet /\ ShouldBeRunning => proc = "running"

(* And no pause is lost: once the loss of the network is final             *)
(* (DeviceStateReceiver.java:47-62) and all is handled, the process is     *)
(* held, whichever side of a HOLD, of a release or of a restart the pause  *)
(* fell on.  It is lost only where the flag is stale: a pause reached a    *)
(* process held already, which announced its HOLD again (manage.c:418), or *)
(* mResumeHoldRunnable released a process that was released already, and   *)
(* one of the two HOLDs, or of the two releases, was read too late.        *)
NetworkLossPauses ==
  Quiet /\ registered /\ network = "DISCONNECTED" => proc = "held" \/ doubled

(* If from some point on the tunnel should run, then it does again after   *)
(* every restart of the process, whatever HOLDs, pauses and resumes        *)
(* crossed each other before.                                              *)
RunsAgain == <>[]ShouldBeRunning => []<>(proc = "running")

(* DeviceStateReceiver.java:38 gives DISCONNECT_WAIT as the "Time to wait  *)
(* after network disconnect to pause the VPN": with the screen on, the     *)
(* process is sent SIGUSR1 only when that time is over.                    *)
PausedAfterWait ==
  [][toProc' = Append(toProc, "SIGUSR1") /\ screen = "SHOULDBECONNECTED"
       => lostFor = Wait]_vars

(* strings.xml:282 describes the preference as "Pause VPN when screen is   *)
(* off and less than 64 kB transferred": when all is handled and the       *)
(* screen is on, it is not the screen that keeps the VPN paused.           *)
AwakeNotPaused == Quiet /\ screenIsOn => screen # "DISCONNECTED"
=============================================================================
